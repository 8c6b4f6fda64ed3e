------------------------- MODULE ProgramStoreProofs -------------------------
(***************************************************************************)
(* The programmes on disk, for any programmes, materials and number of     *)
(* commands and of times the process ends.                                 *)
(***************************************************************************)
EXTENDS ProgramStore, TLAPS

(***************************************************************************)
(* Programmes are told apart from each other and from what is no programme.*)
(***************************************************************************)
LEMMA Distinct ==
  /\ Program \cap Emergency = {}
  /\ Program \subseteq Stored /\ Emergency \subseteq Stored
  /\ Stored = Program \cup Emergency
  /\ Default \notin Stored
  /\ {Absent, Empty, Torn, NoJson, Unplayable} \cap (Stored \cup {Default}) = {}
  /\ Absent \notin {Empty, Torn} /\ Empty # Torn /\ Unplayable # Default
  BY StoreAssumption DEF Stored

LEMMA LoadedType ==
  ASSUME NEW S, S \subseteq Stored, NEW file \in S \cup {Absent, Empty}
  PROVE  /\ LoadjsonFile(file) \in S \cup {NoJson}
         /\ LoadjsonFile(file) # NoJson => file = LoadjsonFile(file)
  BY DEF LoadjsonFile

(***************************************************************************)
(* Type correctness of ProgramStore.                                       *)
(***************************************************************************)
LEMMA InitType == Init => TypeOK /\ NewInStep
<1> SUFFICES ASSUME Init PROVE TypeOK /\ NewInStep
  OBVIOUS
<1>1. /\ template \in Program \cup {Absent, Empty, Torn}
      /\ templateold \in Program \cup {Absent, Empty}
      /\ temporary \in Emergency \cup {Absent, Empty, Torn}
  BY DEF Init
<1>2. whole \subseteq Stored
  BY <1>1, Distinct DEF Init
<1>3. materials \subseteq Material
  BY <1>2, StoreAssumption DEF Init
<1>4. received \in 0..MaxCommands /\ cuts \in 0..MaxCuts
  BY StoreAssumption DEF Init
<1>5. TypeOK
  BY <1>1, <1>2, <1>3, <1>4 DEF Init, TypeOK, PC, BootPC
<1> QED
  BY <1>5 DEF Init, NewInStep

LEMMA StartType ==
  ASSUME TypeOK, NewInStep,
         Boot \/ RobotProgamme \/ LoadTemplate \/ LoadTemplateAgain \/ LoadOld
         \/ (\E expired \in BOOLEAN : LoadTemporary(expired))
         \/ LoadTemporaryAgain \/ DelateResource \/ TakeOver \/ StartFails
  PROVE  TypeOK' /\ NewInStep'
<1> USE DEF files, loaded, starting, history, TypeOK, NewInStep
<1>1. CASE Boot \/ RobotProgamme
  <2>1. had' \in BOOLEAN
    BY <1>1 DEF Boot, RobotProgamme, Begin
  <2> QED
    BY <1>1, <2>1 DEF Boot, RobotProgamme, Begin, BootPC
<1>2. CASE LoadTemplate \/ LoadTemplateAgain
  BY <1>2, Distinct DEF LoadTemplate, LoadTemplateAgain, LoadjsonFile, BootPC
<1>3. CASE LoadOld
  <2>1. nOverdue' \in Program \cup {NoJson}
    BY <1>3, LoadedType, Distinct DEF LoadOld
  <2> QED
    BY <1>3, <2>1, Distinct DEF LoadOld, BootPC
<1>4. ASSUME NEW expired \in BOOLEAN, LoadTemporary(expired)
      PROVE  TypeOK' /\ NewInStep'
  <2>1. nTemproary' \in Emergency \cup {NoJson}
    BY <1>4, Distinct DEF LoadTemporary, LoadjsonFile
  <2>2. nrsp' \in Stored \cup {Default, NoJson}
    BY <1>4, <2>1, Distinct DEF LoadTemporary
  <2>3. temporary' \in Emergency \cup {Absent, Empty, Torn}
    BY <1>4 DEF LoadTemporary
  <2>4. boot' \in BootPC
    BY <1>4 DEF LoadTemporary, BootPC
  <2>5. (crowded \in BOOLEAN /\ stale \in BOOLEAN /\ had \in BOOLEAN)'
    BY <1>4 DEF LoadTemporary
  <2>6. NewInStep'
    BY <1>4 DEF LoadTemporary
  <2>7. TypeOK'
    BY <1>4, <2>1, <2>2, <2>3, <2>4, <2>5 DEF LoadTemporary
  <2> QED
    BY <2>6, <2>7
<1>5. CASE LoadTemporaryAgain
  <2>1. (crowded \in BOOLEAN /\ stale \in BOOLEAN /\ had \in BOOLEAN)'
    BY <1>5 DEF LoadTemporaryAgain
  <2>2. NewInStep'
    BY <1>5 DEF LoadTemporaryAgain
  <2>3. temporary' \in Emergency \cup {Absent, Empty, Torn}
    BY <1>5 DEF LoadTemporaryAgain
  <2>4. boot' \in BootPC
    BY <1>5 DEF LoadTemporaryAgain, BootPC
  <2>5. /\ nTemproary' = NoJson
        /\ UNCHANGED <<template, templateold, materials, loaded, pc, new,
                       nTemplate, nOverdue, nrsp, received, cuts, whole>>
    BY <1>5 DEF LoadTemporaryAgain
  <2>6. TypeOK'
    BY <2>1, <2>3, <2>4, <2>5
  <2> QED
    BY <2>2, <2>6
<1>6. CASE DelateResource
  <2>1. materials' \subseteq Material
    BY <1>6 DEF DelateResource, CheckOldResource
  <2> QED
    BY <1>6, <2>1 DEF DelateResource, BootPC
<1>7. CASE TakeOver
  <2>1. (crowded \in BOOLEAN /\ stale \in BOOLEAN /\ had \in BOOLEAN)'
    BY <1>7 DEF TakeOver, StopStart
  <2>2. NewInStep'
    BY <1>7 DEF TakeOver, StopStart
  <2>3. TypeOK'
    BY <1>7, <2>1 DEF TakeOver, StopStart, PC, BootPC
  <2> QED
    BY <2>2, <2>3
<1>8. CASE StartFails
  <2>1. (crowded \in BOOLEAN /\ stale \in BOOLEAN /\ had \in BOOLEAN)'
    BY <1>8 DEF StartFails, StopStart, BootPC
  <2>2. NewInStep'
    BY <1>8 DEF StartFails
  <2>3. TypeOK'
    BY <1>8, <2>1 DEF StartFails, StopStart, BootPC
  <2> QED
    BY <2>2, <2>3
<1> QED
  BY <1>1, <1>2, <1>3, <1>4, <1>5, <1>6, <1>7, <1>8

LEMMA NextType ==
  ASSUME TypeOK, NewInStep, BootInStep, [Next]_vars
  PROVE  TypeOK' /\ NewInStep'
<1> USE DEF files, loaded, starting, history, aside
<1>1. /\ received \in Nat /\ cuts \in Nat
      /\ \A n \in Nat : n < MaxCommands => n + 1 \in 0..MaxCommands
      /\ \A n \in Nat : n < MaxCuts => n + 1 \in 0..MaxCuts
  BY StoreAssumption DEF TypeOK
<1>2. ASSUME NEW c, Receive(c) PROVE received' \in 0..MaxCommands
  BY <1>1, <1>2 DEF Receive
<1>3. ASSUME Cut PROVE cuts' \in 0..MaxCuts
  BY <1>1, <1>3 DEF Cut, TypeOK
<1>4. CASE End
  <2>1. (crowded \in BOOLEAN /\ stale \in BOOLEAN /\ had \in BOOLEAN)'
    BY <1>3, <1>4 DEF End, Unload, TypeOK, NewInStep, PC
  <2> QED
    BY <1>3, <1>4, <2>1 DEF End, Unload, TypeOK, NewInStep, PC
<1>5. CASE PowerLoss
  BY <1>3, <1>5 DEF PowerLoss, Unload, StopStart, WriteTo, TypeOK, NewInStep,
                    PC, BootPC
<1>6. ASSUME NEW v \in {Default, jTemplate, jTemproary}, ChangeCurrentJson(v)
      PROVE  TypeOK' /\ NewInStep'
  BY <1>6, Distinct DEF ChangeCurrentJson, TypeOK, NewInStep
<1>7. ASSUME NEW p \in Stored, Publish(p)
      PROVE  TypeOK' /\ NewInStep'
  BY <1>2, <1>7 DEF Publish, Receive, TypeOK, NewInStep, PC
<1>8. ASSUME NEW m \in Material, DownLoadFile(m)
      PROVE  TypeOK' /\ NewInStep'
  BY <1>8 DEF DownLoadFile, TypeOK, NewInStep
<1>9. CASE DownloadsEnd
  BY <1>9 DEF DownloadsEnd, Goto, TypeOK, NewInStep, PC
<1>10. CASE CleanEmergency \/ CleanOrdinary
  <2>1. materials' \subseteq Material
    BY <1>10 DEF CleanEmergency, CleanOrdinary, CheckOldResource, TypeOK
  <2> QED
    BY <1>10, <2>1 DEF CleanEmergency, CleanOrdinary, Goto, TypeOK, NewInStep, PC
<1>11. CASE DeleteOld \/ Rename
  <2>1. template # Torn
    BY <1>11 DEF DeleteOld, Rename, Goto, BootInStep
  <2> QED
    BY <1>11, <2>1, Distinct DEF DeleteOld, Rename, Goto, TypeOK, NewInStep, PC
<1>12. CASE Install
  BY <1>12, Distinct DEF Install, Goto, TypeOK, NewInStep, PC
<1>13. CASE Create \/ Write
  BY <1>13, Distinct DEF Create, Write, WriteTo, Goto, TypeOK, NewInStep, PC
<1>14. CASE ExtendDeadline
  <2>1. jrsp \in Stored
    BY <1>14 DEF ExtendDeadline, TypeOK
  <2> QED
    BY <1>2, <1>14, <2>1, Distinct DEF ExtendDeadline, Receive, TypeOK, NewInStep,
                                       PC
<1>15. CASE CancelPublication
  BY <1>2, <1>15 DEF CancelPublication, Receive, TypeOK, NewInStep
<1>16. CASE UNCHANGED vars
  BY <1>16 DEF vars, TypeOK, NewInStep
<1> QED
  BY <1>4, <1>5, <1>6, <1>7, <1>8, <1>9, <1>10, <1>11, <1>12, <1>13, <1>14,
     <1>15, <1>16, StartType
  DEF Next

(***************************************************************************)
(* Where the process that starts and the one that runs are at a time.      *)
(***************************************************************************)
LEMMA BootStep ==
  ASSUME TypeOK, NewInStep, BootInStep, [Next]_vars
  PROVE  BootInStep'
<1> USE DEF files, loaded, starting, history, aside
<1>0. crowded \in BOOLEAN /\ stale \in BOOLEAN /\ had \in BOOLEAN
  BY DEF TypeOK
<1> USE <1>0 DEF BootInStep
<1>1. CASE UNCHANGED vars
  BY <1>1 DEF vars
<1>2. CASE Boot \/ RobotProgamme
  <2>1. /\ boot' = "template"
        /\ UNCHANGED <<template, temporary, pc, stale>>
    BY <1>2 DEF Boot, RobotProgamme, Begin
  <2>2. boot = "off" /\ (pc \in {"idle", "down"} \/ crowded')
    BY <1>2 DEF Boot, RobotProgamme, Begin
  <2> QED
    BY <2>1, <2>2
<1>3. CASE LoadTemplate
  BY <1>3 DEF LoadTemplate, HeldOpen
<1>4. CASE LoadTemplateAgain
  BY <1>4, Distinct DEF LoadTemplateAgain, HeldOpen
<1>5. CASE LoadOld
  BY <1>5 DEF LoadOld
<1>6. ASSUME NEW expired \in BOOLEAN, LoadTemporary(expired) PROVE BootInStep'
  BY <1>6, Distinct DEF LoadTemporary, HeldOpen
<1>7. CASE LoadTemporaryAgain
  BY <1>7, Distinct DEF LoadTemporaryAgain, HeldOpen
<1>8. CASE DelateResource
  BY <1>8 DEF DelateResource
<1>9. CASE TakeOver \/ StartFails
  <2>1. /\ boot' = "off" /\ crowded' = FALSE /\ had' = FALSE
        /\ UNCHANGED <<template, temporary>>
    BY <1>9 DEF TakeOver, StartFails, StopStart
  <2>2. CASE TakeOver
    <3>1. boot = "ready" /\ pc' = "idle"
      BY <2>2 DEF TakeOver
    <3> QED
      BY <2>1, <3>1
  <2>3. CASE StartFails
    <3>1. UNCHANGED <<pc, stale>>
      BY <2>3 DEF StartFails
    <3> QED
      BY <2>1, <3>1
  <2> QED
    BY <1>9, <2>2, <2>3
<1>10. CASE End
  BY <1>10 DEF End, Unload
<1>11. CASE PowerLoss
  BY <1>11 DEF PowerLoss, Unload, StopStart
<1>12. ASSUME NEW v \in {Default, jTemplate, jTemproary}, ChangeCurrentJson(v)
       PROVE  BootInStep'
  BY <1>12 DEF ChangeCurrentJson
<1>13. ASSUME NEW p \in Stored, Publish(p) PROVE BootInStep'
  BY <1>13 DEF Publish, Receive
<1>14. ASSUME NEW m \in Material, DownLoadFile(m) PROVE BootInStep'
  BY <1>14 DEF DownLoadFile
<1>15. CASE DownloadsEnd \/ CleanEmergency \/ CleanOrdinary
  <2>1. /\ pc \notin {"write", "idle", "down"} /\ pc' # "down"
        /\ UNCHANGED <<template, temporary, boot, crowded, stale, had>>
    BY <1>15 DEF DownloadsEnd, CleanEmergency, CleanOrdinary, Goto
  <2> QED
    BY <2>1
<1>16. CASE DeleteOld \/ Rename \/ Install
  <2>1. /\ pc \notin {"write", "idle", "down"} /\ pc' # "down"
        /\ UNCHANGED <<temporary, boot, crowded, stale, had>>
        /\ template' \in {template, Absent}
    BY <1>16 DEF DeleteOld, Rename, Install, Goto
  <2> QED
    BY <2>1, Distinct
<1>17. CASE Create \/ Write
  <2>1. /\ pc \in {"create", "write"} /\ pc' \in {"write", "idle"}
        /\ UNCHANGED <<boot, crowded, stale, had>>
    BY <1>17 DEF Create, Write, Goto
  <2>2. template' \in {template, Empty, new} /\ temporary' \in {temporary, Empty, new}
    BY <1>17 DEF Create, Write, WriteTo
  <2>3. new # Torn
    BY <2>1, Distinct DEF NewInStep
  <2> QED
    BY <2>1, <2>2, <2>3, Distinct
<1>18. CASE ExtendDeadline \/ CancelPublication
  <2>1. /\ pc = "idle" /\ boot = "off" /\ pc' \in {"idle", "create"}
        /\ UNCHANGED <<template, boot, crowded, stale, had>>
        /\ temporary' \in {temporary, Absent}
    BY <1>18 DEF ExtendDeadline, CancelPublication, Receive
  <2> QED
    BY <2>1, Distinct
<1> QED
  BY <1>1, <1>2, <1>3, <1>4, <1>5, <1>6, <1>7, <1>8, <1>9, <1>10, <1>11, <1>12,
     <1>13, <1>14, <1>15, <1>16, <1>17, <1>18
  DEF Next

(***************************************************************************)
(* Where the files of an operation are at each of its calls.               *)
(***************************************************************************)
LEMMA FilesStep ==
  ASSUME TypeOK, NewInStep, BootInStep, MemoryInStep, FilesInStep, [Next]_vars
  PROVE  FilesInStep'
<1> USE DEF files, loaded, starting, history, aside
<1> USE DEF FilesInStep
<1>1. CASE UNCHANGED vars
  BY <1>1 DEF vars
<1>2. CASE Boot
  BY <1>2 DEF Boot, Begin
<1>3. CASE RobotProgamme
  BY <1>3 DEF RobotProgamme, Begin, BootInStep, TypeOK
<1>4. CASE LoadTemplate \/ LoadOld \/ DelateResource
  BY <1>4 DEF LoadTemplate, LoadOld, DelateResource
<1>5. CASE LoadTemplateAgain
  BY <1>5 DEF LoadTemplateAgain, HeldOpen, BootInStep
<1>6. ASSUME NEW expired \in BOOLEAN, LoadTemporary(expired) PROVE FilesInStep'
  <2>1. /\ UNCHANGED <<template, templateold, pc, new, crowded, stale>>
        /\ pc = "write" /\ new \in Emergency => temporary' = temporary
    BY <1>6 DEF LoadTemporary, HeldOpen
  <2> QED
    BY <2>1, Distinct DEF NewInStep
<1>7. CASE LoadTemporaryAgain
  <2>1. /\ UNCHANGED <<template, templateold, pc, new, crowded, stale>>
        /\ pc = "write" /\ new \in Emergency => temporary' = temporary
    BY <1>7 DEF LoadTemporaryAgain, HeldOpen
  <2> QED
    BY <2>1, Distinct DEF NewInStep
<1>8. CASE TakeOver
  BY <1>8 DEF TakeOver
<1>9. CASE StartFails
  BY <1>9 DEF StartFails, BootInStep
<1>10. CASE End \/ PowerLoss
  BY <1>10 DEF End, PowerLoss, Unload
<1>11. ASSUME NEW v \in {Default, jTemplate, jTemproary}, ChangeCurrentJson(v)
       PROVE  FilesInStep'
  BY <1>11 DEF ChangeCurrentJson
<1>12. ASSUME NEW p \in Stored, Publish(p) PROVE FilesInStep'
  BY <1>12 DEF Publish, Receive
<1>13. ASSUME NEW m \in Material, DownLoadFile(m) PROVE FilesInStep'
  BY <1>13 DEF DownLoadFile
<1>14. CASE DownloadsEnd \/ CancelPublication
  BY <1>14 DEF DownloadsEnd, CancelPublication, Receive, Goto
<1>15. CASE CleanEmergency
  BY <1>15, Distinct DEF CleanEmergency, Goto
<1>16. CASE CleanOrdinary
  BY <1>16 DEF CleanOrdinary, Goto
<1>17. CASE DeleteOld \/ Rename
  BY <1>17 DEF DeleteOld, Rename, Goto
<1>18. CASE Install
  BY <1>18 DEF Install, Goto
<1>19. CASE Create
  <2>1. pc' = "write" /\ new' = new /\ new \in Stored
    BY <1>19 DEF Create, Goto, NewInStep
  <2>2. (IF new \in Program THEN template' ELSE temporary') = Empty
    BY <1>19, <2>1, Distinct DEF Create, WriteTo
  <2> QED
    BY <2>1, <2>2
<1>20. CASE Write
  BY <1>20 DEF Write, Goto
<1>21. CASE ExtendDeadline
  <2>1. /\ pc = "idle" /\ pc' = "create" /\ boot = "off" /\ new' = jrsp
        /\ UNCHANGED <<template, stale, crowded>>
    BY <1>21 DEF ExtendDeadline, Receive
  <2>2. ASSUME jrsp \in Program, ~stale
        PROVE  template \in {Absent, Empty, jrsp}
    BY <2>1, <2>2, Distinct DEF MemoryInStep, TypeOK
  <2> QED
    BY <2>1, <2>2
<1> QED
  BY <1>1, <1>2, <1>3, <1>4, <1>5, <1>6, <1>7, <1>8, <1>9, <1>10, <1>11, <1>12,
     <1>13, <1>14, <1>15, <1>16, <1>17, <1>18, <1>19, <1>20, <1>21
  DEF Next

(***************************************************************************)
(* How far memory and disk are apart, with every command and every start.  *)
(***************************************************************************)
LEMMA MemoryStep ==
  ASSUME TypeOK, NewInStep, BootInStep, StartInStep, MemoryInStep, [Next]_vars
  PROVE  MemoryInStep'
<1> USE DEF files, loaded, starting, history, aside
<1> USE DEF MemoryInStep
<1>1. CASE UNCHANGED vars
  BY <1>1 DEF vars
<1>2. CASE boot' # "off"
  BY <1>2
<1>3. CASE \/ Boot \/ RobotProgamme \/ LoadTemplate \/ LoadTemplateAgain
           \/ LoadOld \/ (\E expired \in BOOLEAN : LoadTemporary(expired))
           \/ LoadTemporaryAgain \/ DelateResource
  <2>1. boot' # "off"
    BY <1>3 DEF Boot, RobotProgamme, Begin, LoadTemplate, LoadTemplateAgain,
                LoadOld, LoadTemporary, LoadTemporaryAgain, DelateResource
  <2> QED
    BY <2>1
<1>4. CASE TakeOver
  <2>1. /\ pc = "down" /\ pc' = "idle" /\ boot = "ready"
        /\ jTemplate' = nTemplate /\ jOverdue' = nOverdue /\ jrsp' = nrsp
        /\ jTemproary' = nTemproary /\ stale' = crowded
        /\ UNCHANGED <<files, new>>
    BY <1>4 DEF TakeOver
  <2>2. new = NoJson
    BY <2>1 DEF NewInStep
  <2>3. ASSUME ~crowded
        PROVE  /\ IF nTemplate # NoJson THEN template = nTemplate
                                        ELSE template \in {Absent, Empty}
               /\ nOverdue # NoJson => templateold = nOverdue
               /\ nrsp \in Program /\ nTemplate # NoJson => nrsp = nTemplate
               /\ temporary \in {Absent, nTemproary}
    BY <2>1, <2>3 DEF StartInStep
  <2> QED
    BY <2>1, <2>2, <2>3, Distinct
<1>5. CASE StartFails
  <2>1. pc = "down" /\ pc' = "down" /\ new' = NoJson
    BY <1>5 DEF StartFails, BootInStep, NewInStep
  <2> QED
    BY <2>1, Distinct
<1>6. CASE End \/ PowerLoss
  BY <1>6, Distinct DEF End, PowerLoss, Unload
<1>7. ASSUME NEW v \in {Default, jTemplate, jTemproary}, ChangeCurrentJson(v)
      PROVE  MemoryInStep'
  <2>1. /\ UNCHANGED <<files, jTemplate, jOverdue, jTemproary, pc, new, boot,
                       stale>>
        /\ jrsp' = v
    BY <1>7 DEF ChangeCurrentJson
  <2>2. v \in Program /\ jTemplate # NoJson => v = jTemplate
    BY Distinct DEF TypeOK
  <2> QED
    BY <2>1, <2>2
<1>8. ASSUME NEW p \in Stored, Publish(p) PROVE MemoryInStep'
  BY <1>8 DEF Publish, Receive
<1>9. ASSUME NEW m \in Material, DownLoadFile(m) PROVE MemoryInStep'
  BY <1>9 DEF DownLoadFile
<1>10. CASE DownloadsEnd
  BY <1>10 DEF DownloadsEnd, Goto
<1>11. CASE CancelPublication
  <2>1. /\ UNCHANGED <<template, templateold, jTemplate, jOverdue, jTemproary, pc,
                       new, boot, stale>>
        /\ temporary' = Absent
        /\ jrsp' = Default /\ Default \notin Program
    BY <1>11, Distinct DEF CancelPublication, Receive
  <2> QED
    BY <2>1
<1>12. CASE CleanEmergency
  BY <1>12, Distinct DEF CleanEmergency, Goto
<1>13. CASE CleanOrdinary
  <2>1. /\ pc = "clean" /\ pc' \in {"delete", "install"}
        /\ pc' = "install" => template = Absent
        /\ new \in Program
        /\ UNCHANGED <<files, loaded, new, boot, stale>>
    BY <1>13 DEF CleanOrdinary, Goto
  <2> QED
    BY <2>1, Distinct DEF TypeOK
<1>14. CASE DeleteOld
  BY <1>14, Distinct DEF DeleteOld, Goto, NewInStep
<1>15. CASE Rename
  BY <1>15, Distinct DEF Rename, Goto, NewInStep
<1>16. CASE Install
  BY <1>16, Distinct DEF Install, Goto, NewInStep
<1>17. CASE Create
  BY <1>17, Distinct DEF Create, WriteTo, Goto, NewInStep
<1>18. CASE Write
  BY <1>18, Distinct DEF Write, WriteTo, Goto, NewInStep
<1>19. CASE ExtendDeadline
  <2>1. jrsp \in Stored
    BY <1>19 DEF ExtendDeadline, TypeOK
  <2> QED
    BY <1>19, <2>1, Distinct DEF ExtendDeadline, Receive, NewInStep
<1> QED
  BY <1>1, <1>3, <1>4, <1>5, <1>6, <1>7, <1>8, <1>9, <1>10, <1>11, <1>12, <1>13,
     <1>14, <1>15, <1>16, <1>17, <1>18, <1>19
  DEF Next

(***************************************************************************)
(* What a start that nothing disturbs has loaded.                          *)
(***************************************************************************)
LEMMA StartStep ==
  ASSUME TypeOK, NewInStep, BootInStep, StartInStep, [Next]_vars
  PROVE  StartInStep'
<1> USE DEF files, loaded, starting, history, aside
<1> USE DEF StartInStep
<1>1. CASE UNCHANGED vars
  BY <1>1 DEF vars
<1>2. CASE boot' \in {"off", "template"}
  BY <1>2
<1>3. CASE Boot \/ RobotProgamme \/ TakeOver \/ StartFails \/ PowerLoss
  <2>1. boot' \in {"off", "template"}
    BY <1>3 DEF Boot, RobotProgamme, Begin, TakeOver, StartFails, PowerLoss,
                StopStart
  <2> QED
    BY <1>2, <2>1
<1>4. CASE LoadTemplate
  <2>1. /\ boot = "template" /\ boot' \in {"template again", "templateold"}
        /\ boot' = "templateold" => nTemplate' = LoadjsonFile(template)
        /\ template # Torn
        /\ UNCHANGED <<template, crowded>>
    BY <1>4 DEF LoadTemplate
  <2>2. IF LoadjsonFile(template) # NoJson THEN template = LoadjsonFile(template)
                                           ELSE template \in {Absent, Empty}
    BY <2>1, Distinct DEF LoadjsonFile, TypeOK
  <2>3. boot' = "template again" => crowded'
    BY BootStep DEF BootInStep
  <2> QED
    BY <2>1, <2>2, <2>3
<1>5. CASE LoadTemplateAgain \/ LoadTemporaryAgain
  <2>1. crowded /\ crowded' = crowded
    BY <1>5 DEF LoadTemplateAgain, LoadTemporaryAgain, BootInStep
  <2> QED
    BY <2>1
<1>6. CASE LoadOld
  <2>1. nOverdue' # NoJson => templateold = nOverdue'
    BY <1>6 DEF LoadOld, LoadjsonFile
  <2>2. nTemplate # NoJson => nrsp' = nTemplate
    BY <1>6 DEF LoadOld
  <2> QED
    BY <1>6, <2>1, <2>2 DEF LoadOld
<1>7. ASSUME NEW expired \in BOOLEAN, LoadTemporary(expired) PROVE StartInStep'
  <2>1. /\ boot = "temporary" /\ boot' \in {"temporary again", "clean"}
        /\ UNCHANGED <<template, templateold, nTemplate, nOverdue, crowded>>
    BY <1>7 DEF LoadTemporary
  <2>2. boot' = "temporary again" => crowded'
    BY BootStep DEF BootInStep
  <2>3. nrsp' = nrsp \/ nrsp' \in Emergency \cup {NoJson}
    BY <1>7, Distinct DEF LoadTemporary, LoadjsonFile, TypeOK
  <2>4. boot' = "clean" => temporary' \in {Absent, nTemproary'}
    BY <1>7, <2>1, Distinct DEF LoadTemporary, LoadjsonFile
  <2> QED
    BY <2>1, <2>2, <2>3, <2>4, Distinct
<1>8. CASE DelateResource
  BY <1>8 DEF DelateResource
<1>9. CASE End
  BY <1>9 DEF End
<1>10. CASE \/ \E v \in {Default, jTemplate, jTemproary} : ChangeCurrentJson(v)
            \/ \E p \in Stored : Publish(p)
            \/ ExtendDeadline \/ CancelPublication
  <2>1. boot' = "off"
    BY <1>10 DEF ChangeCurrentJson, Publish, ExtendDeadline, CancelPublication,
                 Receive
  <2> QED
    BY <1>2, <2>1
<1>11. CASE \/ \E m \in Material : DownLoadFile(m)
            \/ DownloadsEnd \/ CleanEmergency \/ CleanOrdinary \/ DeleteOld
            \/ Rename \/ Install \/ Create \/ Write
  <2>1. pc \notin {"idle", "down"} /\ UNCHANGED <<boot, crowded>>
    BY <1>11 DEF DownLoadFile, DownloadsEnd, CleanEmergency, CleanOrdinary,
                 DeleteOld, Rename, Install, Create, Write, Goto
  <2>2. boot' = "off" \/ crowded'
    BY <2>1 DEF BootInStep
  <2> QED
    BY <1>2, <2>2
<1> QED
  BY <1>1, <1>3, <1>4, <1>5, <1>6, <1>7, <1>8, <1>9, <1>10, <1>11 DEF Next

(***************************************************************************)
(* Where the programme is that a start has not read yet.                   *)
(***************************************************************************)
LEMMA FoundStep ==
  ASSUME TypeOK, NewInStep, BootInStep, FilesInStep, FoundInStep, [Next]_vars
  PROVE  FoundInStep'
<1> USE DEF files, loaded, starting, history, aside
<1> USE DEF FoundInStep
<1>1. CASE UNCHANGED vars
  BY <1>1 DEF vars
<1>2. CASE ~had'
  BY <1>2
<1>3. CASE TakeOver \/ StartFails \/ PowerLoss
  <2>1. ~had'
    BY <1>3 DEF TakeOver, StartFails, PowerLoss, StopStart
  <2> QED
    BY <1>2, <2>1
<1>4. CASE \/ \E v \in {Default, jTemplate, jTemproary} : ChangeCurrentJson(v)
           \/ \E p \in Stored : Publish(p)
           \/ ExtendDeadline \/ CancelPublication
  <2>1. ~had'
    BY <1>4 DEF ChangeCurrentJson, Publish, ExtendDeadline, CancelPublication,
                Receive, BootInStep
  <2> QED
    BY <1>2, <2>1
<1>5. CASE Boot \/ RobotProgamme
  <2>1. /\ boot' = "template"
        /\ UNCHANGED <<template, templateold, pc, new>>
        /\ had' = (Recovered \in Program /\ template # Empty /\ ~Rewriting)
    BY <1>5 DEF Boot, RobotProgamme, Begin
  <2> SUFFICES ASSUME had' PROVE FoundInStep'
    BY <1>2
  <2>2. Recovered \in Program /\ template # Empty /\ ~Rewriting
    BY <2>1
  <2>3. template \in Program \/ (template = Absent /\ templateold \in Program)
    <3>1. CASE Torn \in {template, temporary}
      BY <2>2, <3>1, Distinct DEF Recovered
    <3>2. CASE Torn \notin {template, temporary} /\ template \notin Program
      <4>1. templateold \in Program
        BY <2>2, <3>2, Distinct DEF Recovered
      <4> QED
        BY <2>2, <3>2, <4>1 DEF TypeOK
    <3>3. CASE template \in Program
      BY <3>3
    <3> QED
      BY <3>1, <3>2, <3>3
  <2>4. pc \in {"install", "create", "write"} /\ new \in Program =>
          templateold \in Program
    BY <2>2, <2>3, Distinct DEF FilesInStep, Rewriting
  <2> QED
    BY <2>1, <2>3, <2>4
<1>6. CASE LoadTemplate
  <2>1. /\ boot = "template"
        /\ UNCHANGED <<template, templateold, pc, new, had>>
        /\ IF HeldOpen(Program) THEN boot' = "template again"
           ELSE boot' = "templateold" /\ nTemplate' = LoadjsonFile(template)
    BY <1>6 DEF LoadTemplate
  <2>2. CASE HeldOpen(Program)
    BY <2>1, <2>2 DEF HeldOpen
  <2>3. CASE ~HeldOpen(Program)
    <3>1. template \in Program => nTemplate' # NoJson
      BY <2>1, <2>3, Distinct DEF LoadjsonFile
    <3>2. pc \in {"delete", "rename"} => new \in Program /\ template # Absent
      BY DEF NewInStep, FilesInStep
    <3> QED
      BY <2>1, <2>3, <3>1, <3>2
  <2> QED
    BY <2>2, <2>3
<1>7. CASE LoadTemplateAgain
  BY <1>7 DEF LoadTemplateAgain, BootInStep
<1>8. CASE LoadOld
  <2>1. templateold \in Program => nOverdue' # NoJson
    BY <1>8, Distinct DEF LoadOld, LoadjsonFile
  <2> QED
    BY <1>8, <2>1 DEF LoadOld
<1>9. ASSUME NEW expired \in BOOLEAN, LoadTemporary(expired) PROVE FoundInStep'
  BY <1>9 DEF LoadTemporary
<1>10. CASE LoadTemporaryAgain \/ DelateResource
  BY <1>10 DEF LoadTemporaryAgain, DelateResource
<1>11. CASE End
  BY <1>11 DEF End, Unload
<1>12. CASE \/ \E m \in Material : DownLoadFile(m)
            \/ DownloadsEnd \/ CleanEmergency
  BY <1>12, Distinct DEF DownLoadFile, DownloadsEnd, CleanEmergency, Goto
<1>13. CASE CleanOrdinary
  BY <1>13, Distinct DEF CleanOrdinary, Goto
<1>14. CASE DeleteOld
  BY <1>14, Distinct DEF DeleteOld, Goto, FilesInStep, NewInStep, BootInStep
<1>15. CASE Rename
  BY <1>15, Distinct DEF Rename, Goto, FilesInStep, NewInStep
<1>16. CASE Install
  BY <1>16, Distinct DEF Install, Goto
<1>17. CASE Create
  BY <1>17, Distinct DEF Create, WriteTo, Goto, NewInStep
<1>18. CASE Write
  BY <1>18, Distinct DEF Write, WriteTo, Goto, NewInStep
<1> QED
  BY <1>1, <1>3, <1>4, <1>5, <1>6, <1>7, <1>8, <1>9, <1>10, <1>11, <1>12, <1>13,
     <1>14, <1>15, <1>16, <1>17, <1>18
  DEF Next

-----------------------------------------------------------------------------
(***************************************************************************)
(* The invariant that all of these facts make together.                    *)
(***************************************************************************)
StoreInv == /\ TypeOK
            /\ NewInStep
            /\ BootInStep
            /\ FilesInStep
            /\ MemoryInStep
            /\ StartInStep
            /\ FoundInStep

LEMMA StoreInvariant == Spec => []StoreInv
<1>1. Init => StoreInv
  <2> SUFFICES ASSUME Init PROVE StoreInv
    OBVIOUS
  <2>1. TypeOK /\ NewInStep
    BY InitType
  <2>2. template \in Program \cup {Absent} /\ temporary \in Emergency \cup {Absent}
    BY DEF Init
  <2>3. BootInStep
    BY <2>2, Distinct DEF Init, BootInStep
  <2>4. FilesInStep /\ StartInStep /\ FoundInStep
    BY DEF Init, FilesInStep, StartInStep, FoundInStep
  <2>5. MemoryInStep
    BY Distinct DEF Init, MemoryInStep
  <2> QED
    BY <2>1, <2>3, <2>4, <2>5 DEF StoreInv
<1>2. StoreInv /\ [Next]_vars => StoreInv'
  BY NextType, BootStep, FilesStep, MemoryStep, StartStep, FoundStep DEF StoreInv
<1> QED
  BY <1>1, <1>2, PTL DEF Spec

(***************************************************************************)
(* In every reachable state the files, the loaded programmes and the       *)
(* publication under way have their declared types.                        *)
(***************************************************************************)
THEOREM TypeCorrect == Spec => []TypeOK
<1>1. StoreInv => TypeOK
  BY DEF StoreInv
<1> QED
  BY <1>1, StoreInvariant, PTL

(***************************************************************************)
(* Between two operations the ordinary programmes in memory are those on   *)
(* disk, and an emergency on disk is the one in memory, after any sequence *)
(* of commands, starts, ends and power losses.                             *)
(***************************************************************************)
THEOREM MemoryAlwaysOnDisk == Spec => []MemoryOnDisk
<1>1. StoreInv => MemoryOnDisk
  BY DEF StoreInv, MemoryInStep, MemoryOnDisk
<1> QED
  BY <1>1, StoreInvariant, PTL

(***************************************************************************)
(* However the calls of a start and those of the publication of the other  *)
(* process fall between each other, the start finds an ordinary programme. *)
(***************************************************************************)
THEOREM StartAlwaysFindsProgramme == Spec => []StartFindsProgramme
<1>1. StoreInv => StartFindsProgramme
  BY DEF StoreInv, FoundInStep, StartFindsProgramme
<1> QED
  BY <1>1, StoreInvariant, PTL

-----------------------------------------------------------------------------
LEMMA ShelfEmergencies == Shelf!Emergencies = Emergency
  BY Distinct DEF Shelf!Emergencies

(***************************************************************************)
(* Every step of a publication, of a new deadline, of a start and of an    *)
(* end of the process is a step of the shelf, or changes nothing the next  *)
(* start would see.                                                        *)
(***************************************************************************)
LEMMA ShelfStep ==
  ASSUME StoreInv, [Next]_vars
  PROVE  Shelf!Next \/ UNCHANGED Shelf!vars
<1> USE DEF files, loaded, starting, history, aside
<1> USE DEF StoreInv
<1> DEFINE emergency == IF temporary \in Emergency THEN temporary ELSE NoJson
<1>1. ASSUME template' = template, templateold' = templateold,
             temporary = Torn <=> temporary' = Torn
      PROVE  /\ Recovered' = Recovered
             /\ (template \notin {Empty, Torn})' = (template \notin {Empty, Torn})
             /\ emergency' = emergency => UNCHANGED Shelf!vars
  BY <1>1 DEF Shelf!vars, Recovered
<1>2. ASSUME Torn \notin {template, temporary}
      PROVE  /\ Recovered \in Program \cup {Default}
             /\ template \in Program => Recovered = template
             /\ template \notin Program =>
                  Recovered = IF templateold \in Program THEN templateold ELSE Default
  BY <1>2 DEF Recovered
<1>3. ASSUME (Torn \notin {template, temporary})'
      PROVE  /\ Recovered' \in Program \cup {Default}
             /\ template' \in Program => Recovered' = template'
             /\ template' \notin Program =>
                  Recovered' = IF templateold' \in Program THEN templateold' ELSE Default
  BY <1>3 DEF Recovered
<1>4. pc # "down" => Torn \notin {template, temporary}
  BY DEF BootInStep
<1>5. ASSUME Recovered \in Program \cup {Default} PROVE Recovered # Unplayable
  BY <1>5, Distinct
<1>6. CASE \/ Boot \/ RobotProgamme \/ LoadTemplate \/ LoadOld \/ DelateResource
           \/ TakeOver \/ StartFails \/ End
           \/ \E v \in {Default, jTemplate, jTemproary} : ChangeCurrentJson(v)
           \/ \E p \in Stored : Publish(p)
           \/ \E m \in Material : DownLoadFile(m)
           \/ DownloadsEnd \/ CleanEmergency \/ CleanOrdinary \/ Install
           \/ ExtendDeadline \/ UNCHANGED vars
  <2>1. UNCHANGED files
    BY <1>6 DEF Boot, RobotProgamme, Begin, LoadTemplate, LoadOld, DelateResource,
                TakeOver, StartFails, End, ChangeCurrentJson, Publish, DownLoadFile,
                DownloadsEnd, CleanEmergency, CleanOrdinary, Install,
                ExtendDeadline, vars
  <2> QED
    BY <1>1, <2>1
<1>7. CASE \/ \E expired \in BOOLEAN : LoadTemporary(expired)
           \/ LoadTemporaryAgain \/ CancelPublication
  <2>1. UNCHANGED <<template, templateold>> /\ temporary' \in {temporary, Absent}
    BY <1>7 DEF LoadTemporary, LoadTemporaryAgain, CancelPublication
  <2>2. temporary # Torn
    BY <1>7 DEF LoadTemporary, LoadTemporaryAgain, CancelPublication, Receive,
                BootInStep
  <2>3. Recovered # Unplayable
    <3>1. template # Torn
      BY <1>7 DEF LoadTemporary, LoadTemporaryAgain, CancelPublication, Receive,
                  BootInStep
    <3> QED
      BY <1>2, <1>5, <2>2, <3>1
  <2>4. CASE temporary' = temporary
    BY <1>1, <2>1, <2>4
  <2>5. CASE temporary' = Absent
    <3>1. pc \in {"down", "idle"} \/ crowded
      BY <1>7 DEF LoadTemporary, LoadTemporaryAgain, CancelPublication, Receive,
                  BootInStep
    <3>2. emergency' = NoJson
      BY <2>5, Distinct
    <3>3. /\ Recovered' = Recovered
          /\ (template \notin {Empty, Torn})' = (template \notin {Empty, Torn})
      BY <1>1, <2>1, <2>2, <2>5, Distinct
    <3> QED
      BY <2>3, <3>1, <3>2, <3>3 DEF Shelf!Next, Shelf!Withdraw
  <2> QED
    BY <2>1, <2>4, <2>5
<1>8. CASE LoadTemplateAgain
  <2>1. /\ crowded /\ Torn \notin {template, temporary}
        /\ UNCHANGED <<templateold, temporary>> /\ template' \in {template, Empty}
    BY <1>8 DEF LoadTemplateAgain, BootInStep
  <2>2. CASE template' = template
    BY <1>1, <2>1, <2>2
  <2>3. CASE template' = Empty
    <3>1. Recovered' \in Program \cup {Default} /\ Recovered # Unplayable
      BY <1>2, <1>3, <1>5, <2>1, <2>3, Distinct
    <3> QED
      BY <2>1, <2>3, <3>1 DEF Shelf!Next, Shelf!Trample
  <2> QED
    BY <2>1, <2>2, <2>3
<1>9. CASE PowerLoss
  <2>1. CASE UNCHANGED files
    BY <1>1, <2>1
  <2>2. CASE pc = "write" /\ WriteTo(Torn)
    <3>1. new \in Stored
      BY <2>2 DEF NewInStep
    <3>2. Recovered' = Unplayable
      BY <2>2 DEF WriteTo, Recovered
    <3>3. Recovered # Unplayable
      BY <1>2, <1>4, <1>5, <2>2
    <3>4. (template \notin {Empty, Torn})' \in {template \notin {Empty, Torn}, FALSE}
      BY <2>2 DEF WriteTo
    <3>5. emergency' = emergency
      BY <2>2, <3>1, Distinct DEF WriteTo, FilesInStep
    <3> QED
      BY <2>2, <3>1, <3>2, <3>3, <3>4, <3>5 DEF Shelf!Next, Shelf!Tear
  <2> QED
    BY <1>9, <2>1, <2>2 DEF PowerLoss
<1>10. CASE DeleteOld
  <2>1. /\ template # Absent /\ template' = template /\ templateold' = Absent
        /\ temporary' = temporary /\ Torn \notin {template, temporary}
    BY <1>4, <1>10 DEF DeleteOld, Goto, FilesInStep
  <2>2. CASE template \in Program
    BY <1>2, <1>3, <2>1, <2>2 DEF Shelf!vars
  <2>3. CASE template = Empty
    <3>1. Recovered' = Default /\ Recovered # Unplayable
      BY <1>2, <1>3, <1>5, <2>1, <2>3, Distinct
    <3> QED
      BY <2>1, <2>3, <3>1 DEF Shelf!Next, Shelf!Lose
  <2> QED
    BY <2>1, <2>2, <2>3 DEF TypeOK
<1>11. CASE Rename
  <2>1. /\ template # Absent /\ templateold = Absent
        /\ templateold' = template /\ template' = Absent
        /\ temporary' = temporary /\ Torn \notin {template, temporary}
    BY <1>4, <1>11 DEF Rename, Goto, FilesInStep
  <2>2. Torn \notin {template', temporary'}
    BY <2>1, Distinct
  <2>3. CASE template \in Program
    <3>1. Recovered = template /\ Recovered' = template
      BY <1>2, <1>3, <2>1, <2>2, <2>3, Distinct
    <3>2. (template \notin {Empty, Torn}) /\ (template \notin {Empty, Torn})'
      BY <2>1, <2>3, Distinct
    <3> QED
      BY <2>1, <3>1, <3>2 DEF Shelf!vars
  <2>4. CASE template = Empty
    <3>1. Recovered' = Default /\ Recovered # Unplayable
      BY <1>2, <1>3, <1>5, <2>1, <2>2, <2>4, Distinct
    <3> QED
      BY <2>1, <2>4, <3>1 DEF Shelf!Next, Shelf!Lose
  <2> QED
    BY <2>1, <2>3, <2>4 DEF TypeOK
<1>12. CASE Create
  <2>1. pc = "create" /\ Torn \notin {template, temporary}
    BY <1>4, <1>12 DEF Create, Goto
  <2>2. CASE new \in Emergency
    <3>1. UNCHANGED <<template, templateold>> /\ temporary' = Empty
      BY <1>12, <2>2 DEF Create, WriteTo
    <3>2. emergency' = NoJson /\ Recovered # Unplayable
      BY <1>2, <1>5, <2>1, <3>1, Distinct
    <3>3. /\ Recovered' = Recovered
          /\ (template \notin {Empty, Torn})' = (template \notin {Empty, Torn})
      BY <1>1, <2>1, <3>1, Distinct
    <3> QED
      BY <2>1, <2>2, <3>2, <3>3, ShelfEmergencies DEF Shelf!Next, Shelf!Overwrite
  <2>3. CASE new \in Program
    <3>1. /\ template' = Empty /\ templateold' = templateold
          /\ temporary' = temporary /\ Torn \notin {template', temporary'}
      BY <1>12, <2>1, <2>3, Distinct DEF Create, WriteTo
    <3>2. /\ Recovered' = (IF templateold \in Program THEN templateold ELSE Default)
          /\ Recovered' \in Program \cup {Default}
          /\ Recovered # Unplayable
      BY <1>2, <1>3, <1>5, <2>1, <3>1, Distinct
    <3>3. CASE template \in {Absent, Empty}
      <4>1. Recovered' = Recovered
        BY <1>2, <2>1, <3>2, <3>3, Distinct
      <4> QED
        BY <3>1, <3>2, <4>1 DEF Shelf!Next, Shelf!Open
    <3>4. CASE template = new
      <4>1. Recovered = new
        BY <1>2, <2>1, <2>3, <3>4
      <4> QED
        BY <2>1, <3>1, <3>2, <4>1 DEF Shelf!Next, Shelf!Rewrite
    <3>5. CASE crowded \/ stale
      BY <3>1, <3>2, <3>5 DEF Shelf!Next, Shelf!Trample
    <3> QED
      BY <2>1, <2>3, <3>3, <3>4, <3>5 DEF FilesInStep
  <2> QED
    BY <2>1, <2>2, <2>3 DEF NewInStep, Stored
<1>13. CASE Write
  <2>1. pc = "write" /\ Torn \notin {template, temporary}
    BY <1>4, <1>13 DEF Write, Goto
  <2>2. CASE new \in Emergency
    <3>1. /\ UNCHANGED <<template, templateold>>
          /\ temporary = Empty /\ temporary' = new
      BY <1>13, <2>1, <2>2, Distinct DEF Write, WriteTo, FilesInStep
    <3>2. emergency = NoJson /\ emergency' = new /\ Recovered # Unplayable
      BY <1>2, <1>5, <2>1, <2>2, <3>1, Distinct
    <3>3. /\ Recovered' = Recovered
          /\ (template \notin {Empty, Torn})' = (template \notin {Empty, Torn})
      BY <1>1, <2>1, <2>2, <3>1, Distinct
    <3> QED
      BY <2>1, <2>2, <3>2, <3>3, ShelfEmergencies
      DEF Shelf!Next, Shelf!StoreEmergency
  <2>3. CASE new \in Program
    <3>1. /\ template = Empty /\ template' = new /\ temporary' = temporary
          /\ Torn \notin {template', temporary'}
      BY <1>13, <2>1, <2>3, Distinct DEF Write, WriteTo, FilesInStep
    <3>2. Recovered' = new /\ (template \notin {Empty, Torn})' = TRUE
      BY <1>3, <2>3, <3>1, Distinct
    <3>3. Recovered # Unplayable
      BY <1>2, <1>5, <2>1
    <3> QED
      BY <2>1, <2>3, <3>1, <3>2, <3>3 DEF Shelf!Next, Shelf!Store
  <2> QED
    BY <2>1, <2>2, <2>3 DEF NewInStep, Stored
<1> QED
  BY <1>6, <1>7, <1>8, <1>9, <1>10, <1>11, <1>12, <1>13 DEF Next

(***************************************************************************)
(* Wherever a process ends and the next one starts, and with every         *)
(* command, the stored ordinary programme is replaced in one step by the   *)
(* one published, and the stored emergency stays until it is withdrawn or  *)
(* overwritten; they are lost, torn or trampled only as ProgramShelf       *)
(* allows.                                                                 *)
(***************************************************************************)
THEOREM PublicationIsAtomic == Spec => ShelfSpec
<1>1. Init => Shelf!Init
  <2> SUFFICES ASSUME Init PROVE Shelf!Init
    OBVIOUS
  <2>1. template \in Program \cup {Absent} /\ temporary \in Emergency \cup {Absent}
    BY DEF Init
  <2>2. Recovered \in Program \cup {Default}
    BY <2>1, Distinct DEF Recovered
  <2>3. (IF temporary \in Emergency THEN temporary ELSE NoJson)
          \in Shelf!Emergencies \cup {NoJson}
    BY ShelfEmergencies
  <2> QED
    BY <2>2, <2>3, Distinct DEF Shelf!Init, Shelf!TypeOK
<1>2. StoreInv /\ [Next]_vars => [Shelf!Next]_Shelf!vars
  BY ShelfStep
<1> QED
  BY <1>1, <1>2, StoreInvariant, PTL DEF Spec, ShelfSpec, Shelf!Spec

=============================================================================
