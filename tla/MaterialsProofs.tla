--------------------------- MODULE MaterialsProofs ---------------------------
(***************************************************************************)
(* The stored ordinary programme keeps its materials (module ProgramStore),*)
(* for any programmes and materials.  What is deleted are the materials of *)
(* a programme in memory, and those of the others in memory are spared: so *)
(* the proof follows which programme on disk is which one in memory, and   *)
(* which one a start would play after a cut.                               *)
(***************************************************************************)
EXTENDS ProgramStoreProofs

LEMMA WholeType ==
  ASSUME TypeOK
  PROVE  /\ whole \subseteq Program \cup Emergency
         /\ {Absent, Empty, Torn, NoJson, Default} \cap whole = {}
         /\ template \in whole => template \in Program
         /\ templateold \in whole => templateold \in Program
         /\ Program \cap Emergency = {}
  BY Distinct DEF TypeOK

(***************************************************************************)
(* The calls of a process that starts, after which it has not taken over.  *)
(***************************************************************************)
Starting == \/ Boot \/ RobotProgamme \/ LoadTemplate \/ LoadTemplateAgain
            \/ LoadOld \/ (\E expired \in BOOLEAN : LoadTemporary(expired))
            \/ LoadTemporaryAgain \/ DelateResource

LEMMA StartingStep ==
  ASSUME Starting
  PROVE  /\ boot' # "off"
         /\ UNCHANGED <<templateold, loaded, pc, new, received, cuts, stale>>
         /\ template' = template \/ (LoadTemplateAgain /\ template' = Empty)
  BY DEF Starting, Boot, RobotProgamme, Begin, LoadTemplate, LoadTemplateAgain,
         LoadOld, LoadTemporary, LoadTemporaryAgain, DelateResource, files,
         loaded, starting, history

\* The commands that arrive, and what the threads choose meanwhile
Idle == \/ \E v \in {Default, jTemplate, jTemproary} : ChangeCurrentJson(v)
        \/ \E p \in Stored : Publish(p)
        \/ ExtendDeadline \/ CancelPublication

LEMMA IdleStep ==
  ASSUME Idle
  PROVE  /\ pc = "idle" /\ boot = "off" /\ boot' = "off"
         /\ UNCHANGED <<template, templateold, materials, jOverdue, cuts, whole,
                        crowded, stale>>
  BY DEF Idle, ChangeCurrentJson, Publish, ExtendDeadline, CancelPublication,
         Receive, files, loaded, starting, history, aside

(***************************************************************************)
(* What a start makes current, and what it has not found.                  *)
(***************************************************************************)
LEMMA ReadStep ==
  ASSUME StoreInv, ReadInStep, [Next]_vars
  PROVE  ReadInStep'
<1> USE DEF files, loaded, starting, history, aside
<1> USE DEF StoreInv, ReadInStep
<1>1. CASE UNCHANGED vars
  BY <1>1 DEF vars
<1>2. CASE boot' \notin {"temporary", "temporary again", "clean", "ready"}
  BY <1>2
<1>3. CASE \/ Boot \/ RobotProgamme \/ LoadTemplate \/ LoadTemplateAgain
           \/ TakeOver \/ StartFails \/ PowerLoss
  <2>1. boot' \notin {"temporary", "temporary again", "clean", "ready"}
    BY <1>3 DEF Boot, RobotProgamme, Begin, LoadTemplate, LoadTemplateAgain,
                TakeOver, StartFails, PowerLoss, StopStart
  <2> QED
    BY <1>2, <2>1
<1>4. CASE LoadOld
  <2>1. nOverdue' = NoJson => templateold' \notin Program
    BY <1>4, Distinct DEF LoadOld, LoadjsonFile
  <2>2. /\ nTemplate' = nTemplate
        /\ nTemplate # NoJson => nrsp' = nTemplate
        /\ nTemplate = NoJson => nrsp' \in {nOverdue', Default}
    BY <1>4 DEF LoadOld
  <2> QED
    BY <2>1, <2>2, Distinct
<1>5. ASSUME NEW expired \in BOOLEAN, LoadTemporary(expired) PROVE ReadInStep'
  <2>1. /\ boot = "temporary"
        /\ UNCHANGED <<templateold, nTemplate, nOverdue, crowded>>
    BY <1>5 DEF LoadTemporary
  <2>2. nrsp' = nrsp \/ nrsp' \in Emergency \cup {NoJson}
    BY <1>5, Distinct DEF LoadTemporary, LoadjsonFile, TypeOK
  <2> QED
    BY <2>1, <2>2, Distinct
<1>6. CASE LoadTemporaryAgain
  BY <1>6 DEF LoadTemporaryAgain
<1>7. CASE DelateResource
  BY <1>7 DEF DelateResource
<1>8. CASE End
  BY <1>8 DEF End
<1>9. CASE Idle
  BY <1>2, <1>9, IdleStep
<1>10. CASE \/ \E m \in Material : DownLoadFile(m)
            \/ DownloadsEnd \/ CleanEmergency \/ CleanOrdinary \/ DeleteOld
            \/ Rename \/ Install \/ Create \/ Write
  <2>1. pc \notin {"idle", "down"} /\ UNCHANGED <<starting, crowded>>
    BY <1>10 DEF DownLoadFile, DownloadsEnd, CleanEmergency, CleanOrdinary,
                 DeleteOld, Rename, Install, Create, Write, Goto
  <2>2. boot' = "off" \/ crowded'
    BY <2>1 DEF BootInStep
  <2> QED
    BY <1>2, <2>1, <2>2
<1> QED
  BY <1>1, <1>3, <1>4, <1>5, <1>6, <1>7, <1>8, <1>9, <1>10 DEF Next, Idle

(***************************************************************************)
(* The current programme is the one in memory.                             *)
(***************************************************************************)
LEMMA CurrentStep ==
  ASSUME StoreInv, ReadInStep, CurrentInStep, [Next]_vars
  PROVE  CurrentInStep'
<1> USE DEF files, loaded, starting, history, aside
<1> USE DEF StoreInv, CurrentInStep
<1>1. CASE UNCHANGED vars
  BY <1>1 DEF vars
<1>2. CASE Boot \/ RobotProgamme
  <2>1. /\ boot' # "off" /\ UNCHANGED <<pc, new, jrsp, jTemplate>>
        /\ crowded' => whole' = {}
    BY <1>2 DEF Boot, RobotProgamme, Begin
  <2> QED
    BY <2>1
<1>3. CASE Starting /\ ~Boot /\ ~RobotProgamme
  <2>1. UNCHANGED <<whole, crowded>>
    BY <1>3 DEF Starting, LoadTemplate, LoadTemplateAgain, LoadOld,
                LoadTemporary, LoadTemporaryAgain, DelateResource
  <2> QED
    BY <1>3, <2>1, StartingStep
<1>4. CASE TakeOver
  <2>1. /\ boot = "ready" /\ pc' = "idle" /\ ~crowded'
        /\ jTemplate' = nTemplate /\ jrsp' = nrsp
    BY <1>4 DEF TakeOver, StopStart
  <2>2. nTemplate # NoJson /\ nrsp \in Program => nrsp = nTemplate
    BY <2>1 DEF ReadInStep
  <2> QED
    BY <2>1, <2>2
<1>5. CASE StartFails
  BY <1>5 DEF StartFails, StopStart, BootInStep
<1>6. CASE End \/ PowerLoss
  BY <1>6 DEF End, PowerLoss, Unload, StopStart
<1>7. ASSUME NEW v \in {Default, jTemplate, jTemproary}, ChangeCurrentJson(v)
      PROVE  CurrentInStep'
  BY <1>7, Distinct DEF ChangeCurrentJson, TypeOK
<1>8. ASSUME NEW p \in Stored, Publish(p) PROVE CurrentInStep'
  BY <1>8 DEF Publish, Receive
<1>9. ASSUME NEW m \in Material, DownLoadFile(m) PROVE CurrentInStep'
  BY <1>9 DEF DownLoadFile
<1>10. CASE DownloadsEnd
  BY <1>10 DEF DownloadsEnd, Goto, BootInStep
<1>11. CASE CleanEmergency \/ CleanOrdinary \/ DeleteOld \/ Rename
  BY <1>11 DEF CleanEmergency, CleanOrdinary, DeleteOld, Rename, Goto
<1>12. CASE Install
  BY <1>12, Distinct DEF Install, Goto, NewInStep
<1>13. CASE Create \/ Write
  BY <1>13 DEF Create, Write, Goto
<1>14. CASE ExtendDeadline
  BY <1>14, Distinct DEF ExtendDeadline, Receive, TypeOK
<1>15. CASE CancelPublication
  BY <1>15, Distinct DEF CancelPublication, Receive
<1> QED
  BY <1>1, <1>2, <1>3, <1>4, <1>5, <1>6, <1>7, <1>8, <1>9, <1>10, <1>11, <1>12,
     <1>13, <1>14, <1>15
  DEF Next, Starting

(***************************************************************************)
(* The calls of a publication between its start and its last write.        *)
(***************************************************************************)
LEMMA KnownStep ==
  ASSUME StoreInv, ReadInStep, CurrentInStep, KnownInStep, [Next]_vars
  PROVE  KnownInStep'
<1> USE DEF files, loaded, starting, history, aside
<1> USE DEF KnownInStep, Untouched
<1>0. /\ TypeOK /\ NewInStep /\ BootInStep
      /\ template \in whole => template \in Program
      /\ Program \cap Emergency = {}
  BY WholeType DEF StoreInv
<1>1. CASE UNCHANGED vars
  BY <1>1 DEF vars
<1>2. CASE Starting
  BY <1>2, StartingStep
<1>3. CASE TakeOver
  <2>1. /\ boot = "ready" /\ jTemplate' = nTemplate
        /\ UNCHANGED <<template, whole>>
    BY <1>3 DEF TakeOver
  <2>2. template \in whole => ~crowded /\ template \notin {Absent, Empty}
    BY <1>0, Distinct DEF CurrentInStep
  <2>3. template \in whole => template = nTemplate
    BY <2>1, <2>2 DEF StoreInv, StartInStep
  <2> QED
    BY <2>1, <2>3
<1>4. CASE StartFails \/ End \/ PowerLoss
  <2>1. pc' = "down"
    BY <1>0, <1>4 DEF StartFails, End, PowerLoss, Unload, BootInStep
  <2> QED
    BY <2>1
<1>5. CASE Idle
  <2>1. /\ pc = "idle" /\ UNCHANGED <<template, whole>>
        /\ pc' \notin {"delete", "rename"}
    BY <1>5, IdleStep DEF Idle, ChangeCurrentJson, Publish, ExtendDeadline,
                          CancelPublication
  <2>2. CASE jTemplate' = jTemplate
    BY <1>5, <2>1, <2>2, IdleStep
  <2>3. CASE jTemplate' # jTemplate
    <3>1. pc' = "create" /\ new' \notin Emergency
      BY <1>5, <2>3, <1>0 DEF Idle, ChangeCurrentJson, Publish, ExtendDeadline,
                              CancelPublication
    <3> QED
      BY <3>1
  <2> QED
    BY <2>2, <2>3
<1>6. ASSUME NEW m \in Material, DownLoadFile(m) PROVE KnownInStep'
  BY <1>6 DEF DownLoadFile
<1>7. CASE DownloadsEnd
  BY <1>7 DEF DownloadsEnd, Goto
<1>8. CASE CleanEmergency
  BY <1>0, <1>8 DEF CleanEmergency, Goto
<1>9. CASE CleanOrdinary
  BY <1>0, <1>9 DEF CleanOrdinary, Goto
<1>10. CASE DeleteOld \/ Rename
  BY <1>0, <1>10 DEF DeleteOld, Rename, Goto, NewInStep
<1>11. CASE Install
  BY <1>0, <1>11 DEF Install, Goto, NewInStep, Stored
<1>12. CASE Create
  BY <1>0, <1>12 DEF Create, WriteTo, Goto, NewInStep, Stored
<1>13. CASE Write
  BY <1>0, <1>13 DEF Write, WriteTo, Goto, NewInStep, Stored, CurrentInStep
<1> QED
  BY <1>1, <1>2, <1>3, <1>4, <1>5, <1>6, <1>7, <1>8, <1>9, <1>10, <1>11, <1>12,
     <1>13
  DEF Next, Starting, Idle

(***************************************************************************)
(* The ordinary programme is missing for a reason.                         *)
(***************************************************************************)
LEMMA MissingStep ==
  ASSUME StoreInv, CurrentInStep, MissingInStep, [Next]_vars
  PROVE  MissingInStep'
<1> USE DEF files, loaded, starting, history, aside
<1> USE DEF MissingInStep
<1>0. /\ TypeOK /\ NewInStep /\ BootInStep
      /\ templateold \in whole => templateold \in Program
      /\ Program \cap Emergency = {}
  BY WholeType DEF StoreInv
<1>1. CASE UNCHANGED vars
  BY <1>1 DEF vars
<1>2. CASE Starting
  <2>1. whole' \subseteq whole
    BY <1>2 DEF Starting, Boot, RobotProgamme, Begin, LoadTemplate,
                LoadTemplateAgain, LoadOld, LoadTemporary, LoadTemporaryAgain,
                DelateResource
  <2>2. CASE template' = template
    BY <1>2, <2>1, <2>2, StartingStep
  <2>3. CASE LoadTemplateAgain /\ template' = Empty
    <3>1. whole = {}
      BY <1>0, <2>3 DEF LoadTemplateAgain, BootInStep, CurrentInStep
    <3> QED
      BY <2>1, <2>3, <3>1, Distinct
  <2> QED
    BY <1>2, <2>2, <2>3, StartingStep
<1>3. CASE TakeOver
  BY <1>3 DEF TakeOver
<1>4. CASE StartFails
  BY <1>4 DEF StartFails
<1>5. CASE End \/ PowerLoss
  <2>1. SUFFICES ASSUME cuts' = 0 PROVE MissingInStep'
    OBVIOUS
  <2>2. pc \in {"down", "idle"} /\ cuts = 0
    <3>1. cuts \in Nat
      BY <1>0, StoreAssumption DEF TypeOK
    <3> QED
      BY <1>5, <2>1, <3>1 DEF End, PowerLoss, Cut
  <2>3. UNCHANGED <<template, templateold, whole>>
    BY <1>5, <2>2 DEF End, PowerLoss
  <2> QED
    BY <2>2, <2>3
<1>6. CASE Idle
  <2>1. pc = "idle" /\ UNCHANGED <<template, templateold, cuts, whole>>
    BY <1>6, IdleStep
  <2> QED
    BY <2>1
<1>7. ASSUME NEW m \in Material, DownLoadFile(m) PROVE MissingInStep'
  BY <1>7 DEF DownLoadFile
<1>8. CASE DownloadsEnd
  BY <1>8 DEF DownloadsEnd, Goto
<1>9. CASE CleanEmergency
  BY <1>0, <1>9 DEF CleanEmergency, Goto
<1>10. CASE CleanOrdinary
  BY <1>10, Distinct DEF CleanOrdinary, Goto
<1>11. CASE DeleteOld
  BY <1>0, <1>11, Distinct DEF DeleteOld, Goto, FilesInStep, StoreInv, TypeOK
<1>12. CASE Rename
  BY <1>0, <1>12, Distinct DEF Rename, Goto, NewInStep
<1>13. CASE Install
  BY <1>13 DEF Install, Goto
<1>14. CASE Create
  BY <1>0, <1>14, Distinct DEF Create, WriteTo, Goto, NewInStep, Stored
<1>15. CASE Write
  BY <1>0, <1>15, Distinct DEF Write, WriteTo, Goto, NewInStep, Stored
<1> QED
  BY <1>1, <1>2, <1>3, <1>4, <1>5, <1>6, <1>7, <1>8, <1>9, <1>10, <1>11, <1>12,
     <1>13, <1>14, <1>15
  DEF Next, Starting, Idle

(***************************************************************************)
(* The programme in templateold.json is known.                             *)
(***************************************************************************)
LEMMA OldKnownStep ==
  ASSUME StoreInv, ReadInStep, CurrentInStep, KnownInStep, MissingInStep,
         OldKnownInStep, [Next]_vars
  PROVE  OldKnownInStep'
<1> USE DEF files, loaded, starting, history, aside
<1> USE DEF OldKnownInStep, Untouched
<1>0. /\ TypeOK /\ NewInStep /\ BootInStep
      /\ templateold \in whole => templateold \in Program
      /\ {Absent, Empty, NoJson} \cap (Program \cup whole) = {}
      /\ Program \cap Emergency = {}
  BY WholeType, Distinct DEF StoreInv
<1>1. CASE UNCHANGED vars
  BY <1>1 DEF vars
<1>2. CASE Starting
  BY <1>2, StartingStep
<1>3. CASE TakeOver
  <2>1. /\ boot = "ready" /\ jOverdue' = nOverdue /\ pc' = "idle"
        /\ UNCHANGED <<templateold, whole>>
    BY <1>3 DEF TakeOver
  <2>2. templateold \in whole => ~crowded
    BY DEF CurrentInStep
  <2>3. templateold \in whole => nOverdue # NoJson
    BY <1>0, <2>1, <2>2 DEF ReadInStep
  <2>4. templateold \in whole => templateold = nOverdue
    BY <2>1, <2>2, <2>3 DEF StoreInv, StartInStep
  <2> QED
    BY <2>1, <2>4
<1>4. CASE StartFails \/ End \/ PowerLoss
  <2>1. pc' = "down"
    BY <1>0, <1>4 DEF StartFails, End, PowerLoss, Unload, BootInStep
  <2> QED
    BY <2>1
<1>5. CASE (\E v \in {Default, jTemplate, jTemproary} : ChangeCurrentJson(v))
           \/ (\E p \in Stored : Publish(p)) \/ CancelPublication
  <2>1. /\ pc = "idle" /\ pc' \in {"idle", "download"} /\ boot = "off"
        /\ UNCHANGED <<template, templateold, jTemplate, jOverdue, cuts, whole>>
    BY <1>5 DEF ChangeCurrentJson, Publish, CancelPublication, Receive
  <2> QED
    BY <2>1
<1>6. CASE ExtendDeadline
  <2>1. /\ pc = "idle" /\ boot = "off" /\ pc' = "create" /\ new' = jrsp
        /\ UNCHANGED <<template, templateold, jOverdue, cuts, whole>>
        /\ jTemplate' = IF jrsp \in Emergency THEN jTemplate ELSE jrsp
    BY <1>6 DEF ExtendDeadline, Receive
  <2>2. CASE jrsp \in Emergency
    BY <2>1, <2>2, <1>0
  <2>3. CASE jrsp \notin Emergency
    <3>1. jTemplate # NoJson /\ jrsp \in Program => jrsp = jTemplate
      BY <2>1 DEF CurrentInStep
    <3> QED
      BY <1>0, <2>1, <2>3, <3>1
  <2> QED
    BY <2>2, <2>3
<1>7. ASSUME NEW m \in Material, DownLoadFile(m) PROVE OldKnownInStep'
  BY <1>7 DEF DownLoadFile
<1>8. CASE DownloadsEnd
  BY <1>8 DEF DownloadsEnd, Goto
<1>9. CASE CleanEmergency
  BY <1>0, <1>9 DEF CleanEmergency, Goto
<1>10. CASE CleanOrdinary
  <2>1. /\ pc = "clean" /\ new' \in Program
        /\ pc' = IF template # Absent THEN "delete" ELSE "install"
        /\ UNCHANGED <<template, templateold, cuts, whole>>
    BY <1>10 DEF CleanOrdinary, Goto
  <2>2. cuts = 0 /\ template = Absent => templateold \notin whole
    BY <1>0, <2>1 DEF MissingInStep
  <2> QED
    BY <1>0, <2>1, <2>2
<1>11. CASE DeleteOld
  BY <1>0, <1>11 DEF DeleteOld
<1>12. CASE Rename
  <2>1. /\ pc = "rename" /\ pc' = "install" /\ templateold' = template
        /\ UNCHANGED <<jTemplate, new, boot, whole>> /\ new \in Program
    BY <1>0, <1>12 DEF Rename, Goto, NewInStep
  <2>2. boot = "off" /\ template \in whole => template \in {jTemplate, new}
    BY <2>1 DEF KnownInStep
  <2> QED
    BY <1>0, <2>1, <2>2
<1>13. CASE Install
  <2>1. /\ pc = "install" /\ pc' = "create" /\ new \in Stored
        /\ UNCHANGED <<template, templateold, boot, new, cuts, whole>>
    BY <1>0, <1>13 DEF Install, Goto, NewInStep
  <2>2. CASE new \in Emergency
    <3>1. UNCHANGED <<jTemplate, jOverdue>>
      BY <1>13, <2>2 DEF Install
    <3> QED
      BY <1>0, <2>1, <2>2, <3>1
  <2>3. CASE new \notin Emergency
    <3>1. jOverdue' = jTemplate /\ jTemplate' = new
      BY <1>13, <2>3 DEF Install
    <3> QED
      BY <1>0, <2>1, <2>3, <3>1 DEF Stored
  <2> QED
    BY <2>2, <2>3
<1>14. CASE Create
  <2>1. /\ pc = "create" /\ pc' = "write"
        /\ UNCHANGED <<templateold, boot, new, cuts, whole, jTemplate, jOverdue>>
        /\ new \in Emergency => template' = template
    BY <1>14 DEF Create, WriteTo, Goto
  <2> QED
    BY <1>0, <2>1
<1>15. CASE Write
  <2>1. /\ pc = "write" /\ pc' = "idle" /\ new' = NoJson /\ new \in Stored
        /\ UNCHANGED <<templateold, boot, cuts, whole, jTemplate, jOverdue>>
        /\ IF new \in Emergency THEN template' = template ELSE template' = new
    BY <1>0, <1>15 DEF Write, WriteTo, Goto, NewInStep
  <2>2. CASE new \in Emergency
    BY <1>0, <2>1, <2>2
  <2>3. CASE new \in Program
    <3>1. template' \in Program /\ (cuts = 0 => cuts # 1)
      BY <1>0, <2>1, <2>3
    <3> QED
      BY <1>0, <2>1, <2>3, <3>1
  <2> QED
    BY <2>1, <2>2, <2>3 DEF Stored
<1> QED
  BY <1>1, <1>2, <1>3, <1>4, <1>5, <1>6, <1>7, <1>8, <1>9, <1>10, <1>11, <1>12,
     <1>13, <1>14, <1>15
  DEF Next, Starting

(***************************************************************************)
(* CheckOldResource leaves the materials of the programmes it spares.      *)
(***************************************************************************)
LEMMA Spared ==
  ASSUME NEW first, NEW others, CheckOldResource(first, others),
         NEW p \in others, p # NoJson, Uses[p] \subseteq materials
  PROVE  Uses[p] \subseteq materials'
  BY DEF CheckOldResource, FindContent

(***************************************************************************)
(* A start deletes no materials of what it has read.                       *)
(***************************************************************************)
LEMMA StartKept ==
  ASSUME StoreInv, ReadInStep, CurrentInStep, KeptInStep, Starting
  PROVE  KeptInStep'
<1> USE DEF files, loaded, starting, history
<1> USE DEF KeptInStep, Kept, Untouched
<1>0. /\ BootInStep /\ StartInStep
      /\ template \in whole => template \in Program
      /\ templateold \in whole => templateold \in Program
      /\ {Absent, Empty, NoJson} \cap (Program \cup whole) = {}
  BY WholeType, Distinct DEF StoreInv
<1>1. /\ boot' # "off" /\ UNCHANGED <<templateold, pc, new, cuts>>
      /\ whole' \subseteq whole
  BY StartingStep
  DEF Starting, Boot, RobotProgamme, Begin, LoadTemplate, LoadTemplateAgain,
      LoadOld, LoadTemporary, LoadTemporaryAgain, DelateResource
<1>2. CASE whole = {}
  BY <1>1, <1>2
<1>3. CASE whole # {} /\ ~DelateResource
  <2>1. ~crowded
    BY <1>3 DEF CurrentInStep
  <2>2. template' = template
    BY <1>0, <2>1, StartingStep DEF LoadTemplateAgain, BootInStep
  <2>3. materials' = materials
    BY <1>3 DEF Starting, Boot, RobotProgamme, Begin, LoadTemplate,
                LoadTemplateAgain, LoadOld, LoadTemporary, LoadTemporaryAgain
  <2> QED
    BY <1>1, <2>2, <2>3
<1>4. CASE whole # {} /\ DelateResource
  <2>1. /\ boot = "clean" /\ ~crowded /\ pc \in {"idle", "down"}
        /\ UNCHANGED <<template, whole>>
    BY <1>0, <1>4 DEF CurrentInStep, DelateResource, BootInStep
  <2>2. template \in whole => template = nTemplate
    BY <1>0, <2>1 DEF StartInStep
  <2>3. templateold \in whole => templateold = nOverdue
    BY <1>0, <2>1 DEF StartInStep, ReadInStep
  <2>4. ASSUME NEW p \in {nTemplate, nOverdue}, p # NoJson,
               Uses[p] \subseteq materials
        PROVE  Uses[p] \subseteq materials'
    <3>1. CASE materials' = materials
      BY <2>4, <3>1
    <3>2. CASE CheckOldResource(nTemproary, {nTemplate, nOverdue, Default})
      <4>1. p \in {nTemplate, nOverdue, Default}
        OBVIOUS
      <4> QED
        BY <2>4, <3>2, <4>1, Spared
    <3> QED
      BY <1>4, <3>1, <3>2 DEF DelateResource
  <2>5. template \in whole /\ Uses[template] \subseteq materials =>
          Uses[template] \subseteq materials'
    BY <1>0, <2>2, <2>4
  <2>6. templateold \in whole /\ Uses[templateold] \subseteq materials =>
          Uses[templateold] \subseteq materials'
    BY <1>0, <2>3, <2>4
  <2> QED
    BY <1>1, <2>1, <2>5, <2>6
<1> QED
  BY <1>2, <1>3, <1>4

(***************************************************************************)
(* An operation that is cut leaves the materials of what a start plays.    *)
(***************************************************************************)
LEMMA EndKept ==
  ASSUME StoreInv, KeptInStep, End \/ PowerLoss
  PROVE  KeptInStep'
<1> USE DEF files
<1> USE DEF KeptInStep, Kept, Untouched
<1>0. Torn \notin whole /\ cuts \in Nat
  BY WholeType, StoreAssumption DEF StoreInv, TypeOK
<1>1. /\ pc' = "down" /\ UNCHANGED <<templateold, materials, whole>>
      /\ template' = template \/ (template' = Torn /\ pc = "write")
      /\ IF pc \in {"down", "idle"} THEN cuts' = cuts ELSE cuts' = cuts + 1
  BY DEF End, PowerLoss, Unload, Cut, WriteTo
<1> SUFFICES ASSUME cuts' <= 1 PROVE KeptInStep'
  OBVIOUS
<1>2. CASE pc \in {"down", "idle"}
  BY <1>1, <1>2
<1>3. CASE pc \notin {"down", "idle"}
  <2>1. cuts = 0 /\ cuts' = 1
    BY <1>0, <1>1, <1>3
  <2>2. template' \in whole => Uses[template'] \subseteq materials
    BY <1>0, <1>1, <2>1
  <2>3. template' \notin Program => Kept(templateold)
    BY <1>1, <2>1
  <2> QED
    BY <1>1, <2>1, <2>2, <2>3
<1> QED
  BY <1>2, <1>3

(***************************************************************************)
(* The cleaning of a publication spares what is known in memory.           *)
(***************************************************************************)
LEMMA CleanKept ==
  ASSUME StoreInv, CurrentInStep, KnownInStep, OldKnownInStep, MissingInStep,
         KeptInStep, CleanEmergency \/ CleanOrdinary
  PROVE  KeptInStep'
<1> USE DEF files, loaded, starting, history, aside
<1> USE DEF KeptInStep, Kept, Untouched
<1>0. /\ TypeOK /\ BootInStep
      /\ template \in whole => template \in Program
      /\ templateold \in whole => templateold \in Program
      /\ {Absent, Empty, NoJson} \cap (Program \cup Emergency \cup whole) = {}
      /\ Program \cap Emergency = {} /\ cuts \in Nat
  BY WholeType, Distinct, StoreAssumption DEF StoreInv, TypeOK
<1>1. /\ pc = "clean" /\ new \in Stored
      /\ UNCHANGED <<template, templateold, jTemplate, new, boot, cuts, whole>>
  BY DEF CleanEmergency, CleanOrdinary, Goto, Stored
<1>2. CASE whole = {}
  BY <1>1, <1>2
<1>3. CASE boot # "off"
  BY <1>0, <1>1, <1>2, <1>3 DEF BootInStep, CurrentInStep
<1>4. CASE boot = "off" /\ CleanEmergency
  <2>1. new \in Emergency /\ pc' = "install"
    BY <1>4 DEF CleanEmergency, Goto
  <2>2. ASSUME NEW p \in {jTemplate, jOverdue}, p # NoJson,
               Uses[p] \subseteq materials
        PROVE  Uses[p] \subseteq materials'
    <3>1. CASE materials' = materials
      BY <2>2, <3>1
    <3>2. CASE CheckOldResource(jTemproary, {jTemplate, jOverdue, Default, new})
      <4>1. p \in {jTemplate, jOverdue, Default, new}
        OBVIOUS
      <4> QED
        BY <2>2, <3>2, <4>1, Spared
    <3> QED
      BY <1>4, <3>1, <3>2 DEF CleanEmergency
  <2>3. template \in whole => template = jTemplate
    BY <1>0, <1>1, <1>4, <2>1 DEF KnownInStep
  <2>4. templateold \in whole /\ (cuts = 0 \/ (cuts = 1 /\ template \notin Program))
          => templateold \in {jTemplate, jOverdue}
    BY <1>0, <1>1, <1>4, <2>1 DEF OldKnownInStep
  <2>5. cuts <= 1 /\ template \in whole => Uses[template] \subseteq materials'
    BY <1>0, <2>2, <2>3
  <2>6. cuts <= 1 /\ jTemplate \in Program /\ jTemplate \in whole =>
          Uses[jTemplate] \subseteq materials'
    BY <1>0, <1>1, <1>4, <2>2
  <2>7. (cuts = 0 \/ (cuts = 1 /\ template \notin Program)) /\ templateold \in whole
          => Uses[templateold] \subseteq materials'
    <3> SUFFICES ASSUME cuts = 0 \/ (cuts = 1 /\ template \notin Program),
                        templateold \in whole
                 PROVE  Uses[templateold] \subseteq materials'
      OBVIOUS
    <3>1. Uses[templateold] \subseteq materials
      BY <1>1
    <3>2. templateold \in {jTemplate, jOverdue} /\ templateold # NoJson
      BY <1>0, <2>4
    <3> QED
      BY <2>2, <3>1, <3>2
  <2>8. cuts <= 1 => cuts \in {0, 1}
    BY <1>0
  <2> QED
    BY <1>0, <1>1, <2>1, <2>5, <2>6, <2>7, <2>8
<1>5. CASE boot = "off" /\ CleanOrdinary
  <2>1. /\ new \in Program
        /\ pc' = IF template # Absent THEN "delete" ELSE "install"
    BY <1>5 DEF CleanOrdinary, Goto
  <2>2. ASSUME NEW p \in {jTemplate, new}, p # NoJson,
               Uses[p] \subseteq materials
        PROVE  Uses[p] \subseteq materials'
    <3>1. CASE materials' = materials
      BY <2>2, <3>1
    <3>2. CASE CheckOldResource(jOverdue, {jTemplate, jTemproary, Default, new})
      <4>1. p \in {jTemplate, jTemproary, Default, new}
        OBVIOUS
      <4> QED
        BY <2>2, <3>2, <4>1, Spared
    <3> QED
      BY <1>5, <3>1, <3>2 DEF CleanOrdinary
  <2>3. template \in whole => template \in {jTemplate, new}
    BY <1>1, <1>5 DEF KnownInStep
  <2>4. cuts <= 1 /\ template \in whole => Uses[template] \subseteq materials'
    BY <1>0, <2>2, <2>3
  <2>5. cuts <= 1 /\ new \in whole => Uses[new] \subseteq materials'
    BY <1>0, <1>1, <2>1, <2>2
  <2>6. cuts <= 1 /\ jTemplate \in Program /\ jTemplate \in whole =>
          Uses[jTemplate] \subseteq materials'
    BY <1>0, <1>1, <1>5, <2>2
  <2>7. cuts = 0 /\ template \notin Program /\ templateold \in whole =>
          templateold = new
    BY <1>0, <1>1 DEF MissingInStep, TypeOK, BootInStep
  <2>8. cuts = 0 /\ ~(pc' = "delete" /\ template \in Program) =>
          template \notin Program
    BY <1>0, <2>1
  <2>9. cuts = 0 => cuts <= 1
    BY <1>0
  <2> QED
    BY <1>0, <1>1, <2>1, <2>4, <2>5, <2>6, <2>7, <2>8, <2>9
<1> QED
  BY <1>3, <1>4, <1>5

(***************************************************************************)
(* Every step leaves the materials of what a start would play.             *)
(***************************************************************************)
LEMMA KeptStep ==
  ASSUME StoreInv, ReadInStep, CurrentInStep, KnownInStep, OldKnownInStep,
         MissingInStep, KeptInStep, [Next]_vars
  PROVE  KeptInStep'
<1> USE DEF files, loaded, starting, history, aside
<1> USE DEF KeptInStep, Kept, Untouched
<1>0. /\ TypeOK /\ NewInStep /\ BootInStep /\ StartInStep
      /\ template \in whole => template \in Program
      /\ templateold \in whole => templateold \in Program
      /\ {Absent, Empty, NoJson} \cap (Program \cup whole) = {}
      /\ Program \cap Emergency = {}
  BY WholeType, Distinct DEF StoreInv
<1>1. CASE UNCHANGED vars
  BY <1>1 DEF vars
<1>2. CASE Starting
  BY <1>2, StartKept
<1>3. CASE TakeOver
  <2>1. /\ boot = "ready" /\ pc = "down" /\ pc' = "idle"
        /\ jTemplate' = nTemplate /\ jrsp' = nrsp
        /\ UNCHANGED <<template, templateold, materials, new, cuts, whole>>
    BY <1>3 DEF TakeOver
  <2>2. CASE whole = {}
    BY <2>1, <2>2
  <2>3. CASE whole # {}
    <3>1. ~crowded
      BY <2>3 DEF CurrentInStep
    <3>2. nTemplate \in Program => template = nTemplate
      BY <1>0, <2>1, <3>1 DEF StartInStep
    <3>3. nrsp \in Program =>
            \/ nrsp = nTemplate /\ nTemplate \in Program
            \/ nrsp = templateold /\ template \notin Program
      BY <1>0, <2>1, <3>1 DEF StartInStep, ReadInStep
    <3> QED
      BY <2>1, <3>2, <3>3
  <2> QED
    BY <2>2, <2>3
<1>4. CASE StartFails
  <2>1. pc = "down" /\ UNCHANGED <<template, templateold, materials, pc, new,
                                   cuts, whole>>
    BY <1>0, <1>4 DEF StartFails, BootInStep
  <2> QED
    BY <2>1
<1>5. CASE End \/ PowerLoss
  BY <1>5, EndKept
<1>6. CASE Idle
  <2>1. /\ pc = "idle" /\ boot = "off" /\ pc' \notin {"clean", "delete", "rename"}
        /\ UNCHANGED <<template, templateold, materials, cuts, whole>>
    BY <1>6, IdleStep DEF Idle, ChangeCurrentJson, Publish, ExtendDeadline,
                          CancelPublication
  <2>2. /\ jTemplate' \in Program => jTemplate' \in {jTemplate, jrsp}
        /\ jrsp' \in Program => jrsp' \in {jTemplate, jrsp}
    BY <1>0, <1>6, Distinct
    DEF Idle, ChangeCurrentJson, Publish, ExtendDeadline, CancelPublication,
        TypeOK
  <2>3. pc' \in {"install", "create", "write"} => pc' = "create" /\ new' = jrsp
    BY <1>6, <2>1 DEF Idle, ChangeCurrentJson, Publish, ExtendDeadline,
                      CancelPublication
  <2> QED
    BY <2>1, <2>2, <2>3
<1>7. ASSUME NEW m \in Material, DownLoadFile(m) PROVE KeptInStep'
  <2>1. /\ materials \subseteq materials'
        /\ UNCHANGED <<template, templateold, jTemplate, jrsp, pc, new, boot,
                       cuts, whole>>
    BY <1>7 DEF DownLoadFile
  <2> QED
    BY <2>1
<1>8. CASE DownloadsEnd
  <2>1. /\ pc = "download" /\ pc' = "clean"
        /\ UNCHANGED <<template, templateold, materials, jTemplate, jrsp, new,
                       boot, cuts>>
        /\ whole' = whole \ {new}
             \/ (whole' = whole \cup {new} /\ Uses[new] \subseteq materials)
    BY <1>8 DEF DownloadsEnd, Goto
  <2>2. ASSUME NEW p PROVE Kept(p) => (p \in whole' => Uses[p] \subseteq materials')
    BY <2>1
  <2>3. new \in whole' => Uses[new] \subseteq materials'
    BY <2>1
  <2> QED
    BY <2>1, <2>2, <2>3
<1>9. CASE CleanEmergency \/ CleanOrdinary
  BY <1>9, CleanKept
<1>10. CASE DeleteOld
  <2>1. /\ pc = "delete" /\ pc' = "rename" /\ templateold' = Absent
        /\ UNCHANGED <<template, materials, jTemplate, new, boot, cuts, whole>>
    BY <1>10 DEF DeleteOld, Goto
  <2> QED
    BY <1>0, <2>1
<1>11. CASE Rename
  <2>1. /\ pc = "rename" /\ pc' = "install"
        /\ templateold' = template /\ template' = Absent
        /\ UNCHANGED <<materials, jTemplate, new, boot, cuts, whole>>
    BY <1>11 DEF Rename, Goto
  <2> QED
    BY <1>0, <2>1
<1>12. CASE Install
  <2>1. /\ pc = "install" /\ pc' = "create" /\ new \in Stored
        /\ IF new \in Emergency THEN jTemplate' = jTemplate ELSE jTemplate' = new
        /\ UNCHANGED <<template, templateold, materials, new, boot, cuts, whole>>
    BY <1>0, <1>12 DEF Install, Goto, NewInStep
  <2> QED
    BY <1>0, <2>1 DEF Stored
<1>13. CASE Create
  <2>1. /\ pc = "create" /\ pc' = "write" /\ new \in Stored
        /\ IF new \in Emergency THEN template' = template ELSE template' = Empty
        /\ UNCHANGED <<templateold, materials, jTemplate, new, boot, cuts, whole>>
    BY <1>0, <1>13 DEF Create, WriteTo, Goto, NewInStep
  <2> QED
    BY <1>0, <2>1 DEF Stored
<1>14. CASE Write
  <2>1. /\ pc = "write" /\ pc' = "idle" /\ new \in Stored /\ new' = NoJson
        /\ jrsp = new
        /\ IF new \in Emergency THEN template' = template ELSE template' = new
        /\ UNCHANGED <<templateold, materials, jTemplate, jrsp, boot, cuts, whole>>
    BY <1>0, <1>14 DEF Write, WriteTo, Goto, NewInStep, CurrentInStep
  <2>2. CASE new \in Emergency
    BY <1>0, <2>1, <2>2
  <2>3. CASE new \in Program
    BY <1>0, <2>1, <2>3
  <2> QED
    BY <2>1, <2>2, <2>3 DEF Stored
<1> QED
  BY <1>1, <1>2, <1>3, <1>4, <1>5, <1>6, <1>7, <1>8, <1>9, <1>10, <1>11, <1>12,
     <1>13, <1>14
  DEF Next, Starting, Idle

-----------------------------------------------------------------------------
(***************************************************************************)
(* The invariant that these facts make, beside StoreInv.                   *)
(***************************************************************************)
MaterialsInv == /\ ReadInStep
                /\ CurrentInStep
                /\ KnownInStep
                /\ OldKnownInStep
                /\ MissingInStep
                /\ KeptInStep

(***************************************************************************)
(* The stored ordinary programme keeps the materials it was published with,*)
(* through publications, emergencies, restarts, up to one cut operation.   *)
(***************************************************************************)
THEOREM MaterialsAlwaysKept == Spec => []MaterialsKept
<1>1. Init => MaterialsInv
  <2> SUFFICES ASSUME Init PROVE MaterialsInv
    OBVIOUS
  <2>1. pc = "down" /\ boot = "off" /\ ~crowded
    BY DEF Init
  <2>2. ReadInStep /\ CurrentInStep /\ KnownInStep /\ OldKnownInStep
    BY <2>1 DEF ReadInStep, CurrentInStep, KnownInStep, OldKnownInStep
  <2>3. MissingInStep
    BY Distinct DEF Init, MissingInStep
  <2>4. \A p \in whole : Uses[p] \subseteq materials
    BY DEF Init
  <2>5. KeptInStep
    BY <2>1, <2>4 DEF KeptInStep, Kept
  <2> QED
    BY <2>2, <2>3, <2>5 DEF MaterialsInv
<1>2. StoreInv /\ MaterialsInv /\ [Next]_vars => MaterialsInv'
  BY ReadStep, CurrentStep, KnownStep, OldKnownStep, MissingStep, KeptStep
  DEF MaterialsInv
<1>3. MaterialsInv => MaterialsKept
  BY DEF MaterialsInv, KeptInStep, Kept, MaterialsKept
<1> QED
  BY <1>1, <1>2, <1>3, StoreInvariant, PTL DEF Spec

=============================================================================
