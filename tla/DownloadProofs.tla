--------------------------- MODULE DownloadProofs ---------------------------
(***************************************************************************)
(* Downloads and their retries, for any resources, programmes and number   *)
(* of commands and restarts, and for any interleaving of the two threads.  *)
(***************************************************************************)
EXTENDS Download, TLAPS

LEMMA Others == Other("rmq") = "ui" /\ Other("ui") = "rmq"
  BY DEF Other, Thread

(***************************************************************************)
(* Every step but the start and the end of the process is one of these.    *)
(***************************************************************************)
LEMMA Cases ==
  ASSUME NEW P, [Next]_vars,
         UNCHANGED vars => P,
         Start => P,
         up /\ Down => P,
         \A p \in Program : Publish(p) => P,
         \A w \in Thread : GetTemplate(w) \/ GetTemplateFails(w) => P,
         \A w \in Thread : ParseFails(w) => P,
         \A w \in Thread, r \in Resource : Skip(w, r) => P,
         \A w \in Thread, r \in Resource : Open(w, r) => P,
         \A w \in Thread, r \in Resource : OpenFails(w, r) => P,
         \A w \in Thread : ReadAll(w) => P,
         \A w \in Thread : ReadShort(w) => P,
         \A w \in Thread : ReadFails(w) => P,
         \A w \in Thread : Rename(w) => P,
         \A w \in Thread : ParseEnds(w) \/ Report(w) => P,
         ChecksExhausted => P,
         CheckFindsNothing => P,
         CheckPublishes => P
  PROVE  P
  BY Zenon DEF Next, Work, Check, End, CheckThrows, OnTimer

(***************************************************************************)
(* Type correctness of Download.                                           *)
(***************************************************************************)
LEMMA InitType == Init => TypeOK
<1> SUFFICES ASSUME Init PROVE TypeOK
  OBVIOUS
<1>1. complete \subseteq Resource /\ jrsp \in Program
  BY DownloadAssumption DEF Init
<1>2. published \in 0..MaxPublish /\ starts \in 0..MaxStarts
  BY DownloadAssumption DEF Init
<1>3. nCheckTimes \in 0..MaxChecks /\ retries \in 0..MaxChecks + 1
  BY DEF Init, MaxChecks
<1> QED
  BY <1>1, <1>2, <1>3 DEF Init, TypeOK, PC

LEMMA NextType == TypeOK /\ Holding /\ [Next]_vars => TypeOK'
<1> SUFFICES ASSUME TypeOK, Holding, [Next]_vars PROVE TypeOK'
  OBVIOUS
<1> USE DEF disk, thread, history
<1>1. /\ "rmq" \in Thread /\ "ui" \in Thread
      /\ MarkerOf \in [Resource -> Marker]
      /\ Wanted \in [Program -> SUBSET Resource]
  BY DownloadAssumption DEF Thread
<1>2. /\ published < MaxPublish => published + 1 \in 0..MaxPublish
      /\ starts < MaxStarts => starts + 1 \in 0..MaxStarts
      /\ nCheckTimes < MaxChecks => nCheckTimes + 1 \in 0..MaxChecks
      /\ ~(retries > MaxChecks) => retries + 1 \in 0..MaxChecks + 1
      /\ 0 \in 0..MaxChecks /\ 0 \in 0..MaxChecks + 1
  BY DownloadAssumption DEF TypeOK, MaxChecks
<1>3. ASSUME UNCHANGED vars PROVE TypeOK'
  BY <1>3 DEF vars, TypeOK
<1>4. ASSUME Start PROVE TypeOK'
  BY <1>2, <1>4 DEF Start, TypeOK
<1>5. ASSUME up, Down PROVE TypeOK'
  <2>1. interrupted' \subseteq Resource
    BY <1>5 DEF Down, TypeOK, Holding
  <2> QED
    BY <1>5, <2>1 DEF Down, TypeOK, PC
<1>6. ASSUME NEW p \in Program, Publish(p) PROVE TypeOK'
  BY <1>1, <1>2, <1>6 DEF Publish, Goto, Overlap, TypeOK, PC
<1>7. ASSUME NEW w \in Thread, GetTemplate(w) \/ GetTemplateFails(w) PROVE TypeOK'
  <2>1. CASE GetTemplate(w)
    <3>1. Wanted[platform] \in SUBSET Resource
      BY <1>1 DEF TypeOK
    <3> QED
      BY <2>1, <3>1 DEF GetTemplate, Goto, TypeOK, PC
  <2>2. CASE GetTemplateFails(w)
    BY <2>2 DEF GetTemplateFails, Goto, TypeOK, PC
  <2> QED
    BY <1>7, <2>1, <2>2
<1>8. ASSUME NEW w \in Thread, ParseFails(w) PROVE TypeOK'
  BY <1>8 DEF ParseFails, Goto, TypeOK, PC
<1>9. ASSUME NEW w \in Thread, NEW r \in Resource, Skip(w, r) PROVE TypeOK'
  BY <1>9 DEF Skip, TypeOK
<1>10. ASSUME NEW w \in Thread, NEW r \in Resource, Open(w, r) PROVE TypeOK'
  BY <1>1, <1>10 DEF Open, Take, Goto, TypeOK, PC
<1>11. ASSUME NEW w \in Thread, NEW r \in Resource, OpenFails(w, r) PROVE TypeOK'
  BY <1>11 DEF OpenFails, Take, Goto, TypeOK, PC
<1>12. ASSUME NEW w \in Thread, ReadAll(w) PROVE TypeOK'
  <2>1. cur[w] \in Resource
    BY <1>12 DEF ReadAll, Close, Goto, Holding
  <2> QED
    BY <1>12, <2>1 DEF ReadAll, Close, Goto, TypeOK, PC
<1>13. ASSUME NEW w \in Thread, ReadShort(w) PROVE TypeOK'
  BY <1>13 DEF ReadShort, Close, Goto, TypeOK, PC
<1>14. ASSUME NEW w \in Thread, ReadFails(w) PROVE TypeOK'
  <2>1. cur[w] \in Resource
    BY <1>14 DEF ReadFails, Close, Goto, Holding
  <2> QED
    BY <1>14, <2>1 DEF ReadFails, Close, Goto, TypeOK, PC
<1>15. ASSUME NEW w \in Thread, Rename(w) PROVE TypeOK'
  <2>1. cur[w] \in Resource
    BY <1>15 DEF Rename, Goto, Holding
  <2>2. /\ content' \in [Marker -> {None} \cup [of : Resource, whole : BOOLEAN]]
        /\ complete' \subseteq Resource
        /\ broken' \subseteq Resource
        /\ interrupted' \subseteq Resource
    BY <1>15, <2>1 DEF Rename, TypeOK
  <2> QED
    BY <1>15, <2>2 DEF Rename, Goto, TypeOK, PC
<1>16. ASSUME NEW w \in Thread, ParseEnds(w) \/ Report(w) PROVE TypeOK'
  <2>1. CASE ParseEnds(w)
    BY <2>1 DEF ParseEnds, Goto, TypeOK, PC
  <2>2. CASE Report(w)
    BY <1>2, <2>2 DEF Report, Goto, TypeOK, PC
  <2> QED
    BY <1>16, <2>1, <2>2
<1>17. ASSUME ChecksExhausted \/ CheckFindsNothing PROVE TypeOK'
  BY <1>2, <1>17 DEF ChecksExhausted, CheckFindsNothing, OnTimer, TypeOK
<1>18. ASSUME CheckPublishes PROVE TypeOK'
  BY <1>1, <1>2, <1>18 DEF CheckPublishes, CheckAgain, OnTimer, Overlap, TypeOK, PC
<1> QED
  BY <1>3, <1>4, <1>5, <1>6, <1>7, <1>8, <1>9, <1>10, <1>11, <1>12, <1>13,
     <1>14, <1>15, <1>16, <1>17, <1>18, Cases

-----------------------------------------------------------------------------
(***************************************************************************)
(* The .download files that are open, at each step of both threads.        *)
(***************************************************************************)
LEMMA NextHolding == TypeOK /\ Holding /\ [Next]_vars => Holding'
<1> SUFFICES ASSUME TypeOK, Holding, [Next]_vars PROVE Holding'
  OBVIOUS
<1> USE DEF disk, thread, history
<1>1. /\ MarkerOf \in [Resource -> Marker]
      /\ None \notin Thread
      /\ \A r \in Resource, b \in BOOLEAN : [of |-> r, whole |-> b] # None
      /\ holder \in [Marker -> {None} \cup Thread]
      /\ content \in [Marker -> {None} \cup [of : Resource, whole : BOOLEAN]]
      /\ pc \in [Thread -> PC]
      /\ cur \in [Thread -> {None} \cup Resource]
  BY DownloadAssumption DEF TypeOK, Thread
<1>2. /\ "rmq" \in Thread /\ "ui" \in Thread
  BY DEF Thread
\* Steps that leave the files and the reading threads alone
<1>3. ASSUME UNCHANGED <<content, holder, cur>>,
             \A w \in Thread : pc[w] # pc'[w] => {pc[w], pc'[w]} \cap {"read", "rename"} = {}
      PROVE  Holding'
  BY <1>1, <1>3 DEF Holding
<1>4. ASSUME UNCHANGED vars PROVE Holding'
  BY <1>3, <1>4 DEF vars
<1>5. ASSUME Start PROVE Holding'
  BY <1>3, <1>5 DEF Start
<1>6. ASSUME up, Down PROVE Holding'
  BY <1>6 DEF Down, Holding
<1>7. ASSUME NEW p \in Program, Publish(p) PROVE Holding'
  BY <1>1, <1>2, <1>3, <1>7 DEF Publish, Goto
<1>8. ASSUME NEW w \in Thread, GetTemplate(w) \/ GetTemplateFails(w) PROVE Holding'
  BY <1>1, <1>3, <1>8 DEF GetTemplate, GetTemplateFails, Goto
<1>9. ASSUME NEW w \in Thread, ParseFails(w) PROVE Holding'
  BY <1>1, <1>3, <1>9 DEF ParseFails, Goto
<1>10. ASSUME NEW w \in Thread, NEW r \in Resource, Skip(w, r) PROVE Holding'
  BY <1>3, <1>10 DEF Skip
<1>11. ASSUME NEW w \in Thread, NEW r \in Resource, Open(w, r) PROVE Holding'
  <2> DEFINE mine == MarkerOf[r]
  <2>1. /\ pc[w] = "download" /\ pc' = [pc EXCEPT ![w] = "read"]
        /\ cur' = [cur EXCEPT ![w] = r]
        /\ mine \in Marker /\ holder[mine] = None
        /\ holder' = [holder EXCEPT ![mine] = w]
        /\ content' = [content EXCEPT ![mine] = [of |-> r, whole |-> FALSE]]
    BY <1>1, <1>11 DEF Open, Take, Goto
  <2>2. ASSUME NEW m \in Marker, holder'[m] # None
        PROVE  content'[m] # None /\ pc'[holder'[m]] = "read"
               /\ MarkerOf[cur'[holder'[m]]] = m
    <3>1. CASE m = mine
      BY <1>1, <2>1, <3>1
    <3>2. CASE m # mine
      <4>1. holder'[m] = holder[m] /\ content'[m] = content[m] /\ holder[m] \in Thread
        BY <1>1, <2>1, <2>2, <3>2
      <4>2. pc[holder[m]] = "read" /\ MarkerOf[cur[holder[m]]] = m /\ content[m] # None
        BY <2>2, <4>1 DEF Holding
      <4> QED
        BY <1>1, <2>1, <4>1, <4>2
    <3> QED
      BY <3>1, <3>2
  <2>3. ASSUME NEW x \in Thread, pc'[x] = "read"
        PROVE  holder'[MarkerOf[cur'[x]]] = x
    <3>1. CASE x = w
      BY <1>1, <2>1, <3>1
    <3>2. CASE x # w
      <4>1. pc[x] = "read" /\ cur'[x] = cur[x]
        BY <1>1, <2>1, <2>3, <3>2
      <4>2. holder[MarkerOf[cur[x]]] = x /\ MarkerOf[cur[x]] \in Marker
        BY <1>1, <4>1 DEF Holding
      <4> QED
        BY <1>1, <2>1, <4>1, <4>2
    <3> QED
      BY <3>1, <3>2
  <2>4. \A x \in Thread : pc'[x] \in {"read", "rename"} => cur'[x] \in Resource
    BY <1>1, <2>1 DEF Holding
  <2> QED
    BY <2>2, <2>3, <2>4 DEF Holding
<1>12. ASSUME NEW w \in Thread, NEW r \in Resource, OpenFails(w, r) PROVE Holding'
  BY <1>1, <1>12 DEF OpenFails, Take, Goto, Holding
<1>13. ASSUME NEW w \in Thread, ReadAll(w) PROVE Holding'
  BY <1>1, <1>13 DEF ReadAll, Close, Goto, Holding
<1>14. ASSUME NEW w \in Thread, ReadShort(w) PROVE Holding'
  BY <1>1, <1>14 DEF ReadShort, Close, Goto, Holding
<1>15. ASSUME NEW w \in Thread, ReadFails(w) PROVE Holding'
  BY <1>1, <1>15 DEF ReadFails, Close, Goto, Holding
<1>16. ASSUME NEW w \in Thread, Rename(w) PROVE Holding'
  BY <1>1, <1>16 DEF Rename, Goto, Holding
<1>17. ASSUME NEW w \in Thread, ParseEnds(w) \/ Report(w) PROVE Holding'
  BY <1>1, <1>3, <1>17 DEF ParseEnds, Report, Goto
<1>18. ASSUME ChecksExhausted PROVE Holding'
  BY <1>3, <1>18 DEF ChecksExhausted
<1>19. ASSUME CheckFindsNothing PROVE Holding'
  BY <1>3, <1>19 DEF CheckFindsNothing
<1>20. ASSUME CheckPublishes PROVE Holding'
  BY <1>1, <1>2, <1>3, <1>20 DEF CheckPublishes, CheckAgain, OnTimer
<1> QED
  BY <1>4, <1>5, <1>6, <1>7, <1>8, <1>9, <1>10, <1>11, <1>12, <1>13, <1>14,
     <1>15, <1>16, <1>17, <1>18, <1>19, <1>20, Cases

LEMMA InitHolding == Init => Holding
  BY DEF Init, Holding

THEOREM TypeCorrect == Spec => [](TypeOK /\ Holding)
<1>1. TypeOK /\ Holding /\ [Next]_vars => (TypeOK /\ Holding)'
  BY NextType, NextHolding
<1> QED
  BY InitType, InitHolding, <1>1, PTL DEF Spec

-----------------------------------------------------------------------------
LEMMA NextCounted == TypeOK /\ RetriesCounted /\ [Next]_vars => RetriesCounted'
<1> SUFFICES ASSUME TypeOK, RetriesCounted, [Next]_vars PROVE RetriesCounted'
  OBVIOUS
<1> USE DEF disk, thread, history, MaxChecks
<1>1. /\ nCheckTimes \in 0..3 /\ retries \in 0..4
      /\ pc \in [Thread -> PC]
      /\ "rmq" \in Thread /\ "ui" \in Thread /\ "rmq" # "ui"
  BY DEF TypeOK, Thread
\* Steps that count nothing, arm nothing and leave the UI thread idle
<1>2. ASSUME UNCHANGED <<retries, nCheckTimes>>, timer' => timer,
             pc'["ui"] # "idle" => pc["ui"] # "idle"
      PROVE  RetriesCounted'
  BY <1>2 DEF RetriesCounted
<1>3. ASSUME UNCHANGED vars PROVE RetriesCounted'
  BY <1>2, <1>3 DEF vars
<1>4. ASSUME Start PROVE RetriesCounted'
  BY <1>4 DEF Start, RetriesCounted
<1>5. ASSUME up, Down PROVE RetriesCounted'
  BY <1>1, <1>2, <1>5 DEF Down
<1>6. ASSUME NEW p \in Program, Publish(p) PROVE RetriesCounted'
  BY <1>1, <1>2, <1>6 DEF Publish, Goto
<1>7. ASSUME NEW w \in Thread, GetTemplate(w) \/ GetTemplateFails(w)
      PROVE  RetriesCounted'
  BY <1>1, <1>2, <1>7 DEF GetTemplate, GetTemplateFails, Goto
<1>8. ASSUME NEW w \in Thread, ParseFails(w) PROVE RetriesCounted'
  BY <1>1, <1>2, <1>8 DEF ParseFails, Goto
<1>9. ASSUME NEW w \in Thread, NEW r \in Resource, Skip(w, r) PROVE RetriesCounted'
  BY <1>2, <1>9 DEF Skip
<1>10. ASSUME NEW w \in Thread, NEW r \in Resource, Open(w, r) PROVE RetriesCounted'
  BY <1>1, <1>2, <1>10 DEF Open, Take, Goto
<1>11. ASSUME NEW w \in Thread, NEW r \in Resource, OpenFails(w, r)
       PROVE  RetriesCounted'
  BY <1>1, <1>2, <1>11 DEF OpenFails, Take, Goto
<1>12. ASSUME NEW w \in Thread, ReadAll(w) PROVE RetriesCounted'
  BY <1>1, <1>2, <1>12 DEF ReadAll, Close, Goto
<1>13. ASSUME NEW w \in Thread, ReadShort(w) PROVE RetriesCounted'
  BY <1>1, <1>2, <1>13 DEF ReadShort, Close, Goto
<1>14. ASSUME NEW w \in Thread, ReadFails(w) PROVE RetriesCounted'
  BY <1>1, <1>2, <1>14 DEF ReadFails, Close, Goto
<1>15. ASSUME NEW w \in Thread, Rename(w) PROVE RetriesCounted'
  BY <1>1, <1>2, <1>15 DEF Rename, Goto
<1>16. ASSUME NEW w \in Thread, ParseEnds(w) \/ Report(w) PROVE RetriesCounted'
  <2>1. CASE ParseEnds(w)
    BY <1>1, <1>2, <2>1 DEF ParseEnds, Goto
  <2>2. CASE Report(w)
    BY <1>1, <2>2 DEF Report, Goto, RetriesCounted, Thread
  <2> QED
    BY <1>16, <2>1, <2>2
<1>17. ASSUME ChecksExhausted PROVE RetriesCounted'
  BY <1>17 DEF ChecksExhausted, OnTimer, RetriesCounted
<1>18. ASSUME CheckFindsNothing PROVE RetriesCounted'
  BY <1>18 DEF CheckFindsNothing, OnTimer, RetriesCounted
<1>19. ASSUME CheckPublishes PROVE RetriesCounted'
  BY <1>1, <1>19 DEF CheckPublishes, CheckAgain, OnTimer, RetriesCounted
<1> QED
  BY <1>3, <1>4, <1>5, <1>6, <1>7, <1>8, <1>9, <1>10, <1>11, <1>12, <1>13,
     <1>14, <1>15, <1>16, <1>17, <1>18, <1>19, Cases

(***************************************************************************)
(* At most three retries follow each arming of the timer by a command or   *)
(* the start, however the two threads interleave.                          *)
(***************************************************************************)
THEOREM RetriesAlwaysBounded == Spec => []RetriesBounded
<1>1. Init => RetriesCounted
  BY DEF Init, RetriesCounted, MaxChecks
<1>2. RetriesCounted => RetriesBounded
  BY DEF RetriesCounted, RetriesBounded
<1> QED
  BY TypeCorrect, <1>1, NextCounted, <1>2, PTL DEF Spec

-----------------------------------------------------------------------------
LEMMA NextUndisturbed ==
  TypeOK /\ Holding /\ Undisturbed /\ [Next]_vars => Undisturbed'
<1> DEFINE G == /\ broken' = {}
                /\ \E x \in Thread : pc'[x] = "idle"
                /\ \A x \in Thread :
                     pc'[x] \in {"read", "rename"} =>
                       content'[MarkerOf[cur'[x]]] =
                         [of |-> cur'[x], whole |-> pc'[x] = "rename"]
<1> SUFFICES ASSUME TypeOK, Holding, Undisturbed, [Next]_vars, seen' = {}
             PROVE  G
  BY DEF Undisturbed
<1> USE DEF disk, thread, history
<1>1. /\ MarkerOf \in [Resource -> Marker]
      /\ None \notin Thread
      /\ holder \in [Marker -> {None} \cup Thread]
      /\ content \in [Marker -> {None} \cup [of : Resource, whole : BOOLEAN]]
      /\ pc \in [Thread -> PC]
      /\ cur \in [Thread -> {None} \cup Resource]
      /\ Thread = {"rmq", "ui"}
      /\ seen \subseteq {"overlap", "short"}
  BY DownloadAssumption DEF TypeOK, Thread
\* Steps that leave the files and the reading threads alone
<1>2. ASSUME seen = {}, UNCHANGED <<content, cur, broken>>,
             \E x \in Thread : pc'[x] = "idle",
             \A x \in Thread : pc'[x] \in {"read", "rename"} => pc'[x] = pc[x]
      PROVE  G
  BY <1>1, <1>2 DEF Undisturbed
<1>3. ASSUME seen = {} PROVE broken = {} /\ \E x \in Thread : pc[x] = "idle"
  BY <1>3 DEF Undisturbed
<1>4. ASSUME UNCHANGED vars PROVE G
  BY <1>2, <1>3, <1>4 DEF vars
<1>5. ASSUME Start PROVE G
  BY <1>2, <1>3, <1>5 DEF Start
<1>6. ASSUME up, Down PROVE G
  BY <1>1, <1>3, <1>6 DEF Down
<1>7. ASSUME NEW p \in Program, Publish(p) PROVE G
  <2>1. seen = {} /\ pc["ui"] = "idle"
    BY <1>1, <1>7, Others DEF Publish, Overlap
  <2> QED
    BY <1>1, <1>2, <1>7, <2>1 DEF Publish, Goto
<1>8. ASSUME NEW w \in Thread, GetTemplate(w) \/ GetTemplateFails(w) PROVE G
  BY <1>1, <1>2, <1>3, <1>8 DEF GetTemplate, GetTemplateFails, Goto
<1>9. ASSUME NEW w \in Thread, ParseFails(w) PROVE G
  BY <1>1, <1>2, <1>3, <1>9 DEF ParseFails, Goto
<1>10. ASSUME NEW w \in Thread, NEW r \in Resource, Skip(w, r) PROVE G
  BY <1>2, <1>3, <1>10 DEF Skip
<1>11. ASSUME NEW w \in Thread, NEW r \in Resource, Open(w, r) PROVE G
  BY <1>1, <1>3, <1>11 DEF Open, Take, Goto
<1>12. ASSUME NEW w \in Thread, NEW r \in Resource, OpenFails(w, r) PROVE G
  <2>1. seen = {} /\ pc[w] = "download" /\ holder[MarkerOf[r]] # None
    BY <1>12 DEF OpenFails, Take, Goto
  <2>2. PICK x \in Thread : pc[x] = "read"
    BY <1>1, <2>1 DEF Holding
  <2> QED
    BY <1>1, <1>3, <2>1, <2>2
<1>13. ASSUME NEW w \in Thread, ReadAll(w) PROVE G
  <2>1. cur[w] \in Resource
    BY <1>13 DEF ReadAll, Close, Goto, Holding
  <2> QED
    BY <1>1, <1>3, <1>13, <2>1 DEF ReadAll, Close, Goto
<1>14. ASSUME NEW w \in Thread, ReadShort(w) PROVE G
  BY <1>14 DEF ReadShort
<1>15. ASSUME NEW w \in Thread, ReadFails(w) PROVE G
  BY <1>1, <1>3, <1>15 DEF ReadFails, Close, Goto
<1>16. ASSUME NEW w \in Thread, Rename(w) PROVE G
  <2>1. /\ seen = {}
        /\ pc[w] = "rename" /\ pc' = [pc EXCEPT ![w] = "download"]
    BY <1>16 DEF Rename, Goto
  <2>2. content[MarkerOf[cur[w]]] = [of |-> cur[w], whole |-> TRUE]
    BY <2>1 DEF Undisturbed
  <2>3. broken' = {}
    BY <1>3, <1>16, <2>1, <2>2 DEF Rename
  <2> QED
    BY <1>1, <1>3, <2>1, <2>3
<1>17. ASSUME NEW w \in Thread, ParseEnds(w) \/ Report(w) PROVE G
  BY <1>1, <1>2, <1>3, <1>17 DEF ParseEnds, Report, Goto
<1>18. ASSUME ChecksExhausted PROVE G
  BY <1>2, <1>3, <1>18 DEF ChecksExhausted
<1>19. ASSUME CheckFindsNothing PROVE G
  BY <1>2, <1>3, <1>19 DEF CheckFindsNothing
<1>20. ASSUME CheckPublishes PROVE G
  <2>1. seen = {} /\ pc["rmq"] = "idle"
    BY <1>1, <1>20, Others DEF CheckPublishes, CheckAgain, Overlap
  <2> QED
    BY <1>1, <1>2, <1>20, <2>1 DEF CheckPublishes, CheckAgain
<1> HIDE DEF G
<1>21. G
  BY <1>4, <1>5, <1>6, <1>7, <1>8, <1>9, <1>10, <1>11, <1>12, <1>13, <1>14,
     <1>15, <1>16, <1>17, <1>18, <1>19, <1>20, Cases
<1> QED
  BY <1>21

(***************************************************************************)
(* Neither exceptions nor the end of the process put an incomplete file    *)
(* under the name of a resource, as long as no connection ended early      *)
(* unnoticed and only one thread published at a time.                      *)
(***************************************************************************)
THEOREM CompleteAlways == Spec => []CompleteIfUndisturbed
<1>1. Init => Undisturbed
  BY DEF Init, Undisturbed, Thread
<1>2. Undisturbed => CompleteIfUndisturbed
  BY DEF Undisturbed, CompleteIfUndisturbed, FinalIsComplete
<1> QED
  BY TypeCorrect, <1>1, NextUndisturbed, <1>2, PTL DEF Spec

-----------------------------------------------------------------------------
LEMMA NextMarkersLeft ==
  TypeOK /\ Holding /\ MarkersLeft /\ [Next]_vars => MarkersLeft'
<1> DEFINE Left(r) == \/ content'[MarkerOf[r]] # None
                      \/ \E q \in OnDisk' \ {r} : MarkerOf[q] = MarkerOf[r]
           G == /\ \A r \in interrupted' : Left(r)
                /\ \A x \in Thread :
                     pc'[x] = "rename" => Left(cur'[x]) \/ cur'[x] \in OnDisk'
<1> SUFFICES ASSUME TypeOK, Holding, MarkersLeft, [Next]_vars PROVE G
  BY DEF MarkersLeft, MarkerLeft, TwinOnDisk
<1> USE DEF disk, thread, history
<1>1. /\ MarkerOf \in [Resource -> Marker]
      /\ None \notin Thread
      /\ \A r \in Resource, b \in BOOLEAN : [of |-> r, whole |-> b] # None
      /\ holder \in [Marker -> {None} \cup Thread]
      /\ content \in [Marker -> {None} \cup [of : Resource, whole : BOOLEAN]]
      /\ pc \in [Thread -> PC]
      /\ cur \in [Thread -> {None} \cup Resource]
      /\ interrupted \subseteq Resource
  BY DownloadAssumption DEF TypeOK, Thread
\* Steps that make files at most, and bring nobody to the rename
<1>2. ASSUME interrupted' \subseteq interrupted,
             \A m \in Marker : content[m] # None => content'[m] # None,
             OnDisk \subseteq OnDisk',
             \A x \in Thread : pc'[x] = "rename" => pc[x] = "rename" /\ cur'[x] = cur[x]
      PROVE  G
  <2>1. ASSUME NEW r \in Resource, MarkerLeft(r) PROVE Left(r)
    BY <1>1, <1>2, <2>1 DEF MarkerLeft, TwinOnDisk
  <2>2. \A r \in interrupted' : Left(r)
    BY <1>1, <1>2, <2>1 DEF MarkersLeft
  <2>3. ASSUME NEW x \in Thread, pc'[x] = "rename"
        PROVE  Left(cur'[x]) \/ cur'[x] \in OnDisk'
    <3>1. pc[x] = "rename" /\ cur'[x] = cur[x] /\ cur[x] \in Resource
      BY <1>2, <2>3 DEF Holding
    <3>2. MarkerLeft(cur[x]) \/ cur[x] \in OnDisk
      BY <3>1 DEF MarkersLeft
    <3> QED
      BY <1>2, <2>1, <3>1, <3>2
  <2> QED
    BY <2>2, <2>3 DEF MarkersLeft
<1>3. ASSUME UNCHANGED vars PROVE G
  BY <1>2, <1>3 DEF vars, OnDisk
<1>4. ASSUME Start PROVE G
  BY <1>2, <1>4 DEF Start, OnDisk
<1>5. ASSUME up, Down PROVE G
  <2>1. ASSUME NEW x \in Thread, pc[x] \in {"read", "rename"}, cur[x] \notin OnDisk
        PROVE  MarkerLeft(cur[x])
    BY <1>1, <2>1 DEF Holding, MarkersLeft, MarkerLeft
  <2>2. /\ \A x \in Thread : pc'[x] # "rename"
        /\ \A r : MarkerLeft(r) => Left(r)
    BY <1>5 DEF Down, MarkerLeft, TwinOnDisk, OnDisk
  <2>3. \A r \in interrupted' : MarkerLeft(r)
    BY <1>5, <2>1 DEF Down, MarkersLeft
  <2> QED
    BY <2>2, <2>3 DEF MarkersLeft
<1>6. ASSUME NEW p \in Program, Publish(p) PROVE G
  BY <1>1, <1>2, <1>6 DEF Publish, Goto, OnDisk
<1>7. ASSUME NEW w \in Thread, GetTemplate(w) \/ GetTemplateFails(w) PROVE G
  BY <1>1, <1>2, <1>7 DEF GetTemplate, GetTemplateFails, Goto, OnDisk
<1>8. ASSUME NEW w \in Thread, ParseFails(w) PROVE G
  BY <1>1, <1>2, <1>8 DEF ParseFails, Goto, OnDisk
<1>9. ASSUME NEW w \in Thread, NEW r \in Resource, Skip(w, r) PROVE G
  BY <1>2, <1>9 DEF Skip, OnDisk
<1>10. ASSUME NEW w \in Thread, NEW r \in Resource, Open(w, r) PROVE G
  BY <1>1, <1>2, <1>10 DEF Open, Take, Goto, OnDisk
\* Steps that only bring w to the rename, its .download file there, or
\* break its download off
<1>11. ASSUME NEW w \in Thread, NEW r \in Resource, MarkerOf[r] \in Marker,
              content[MarkerOf[r]] # None,
              \A m \in Marker : content[m] # None => content'[m] # None,
              UNCHANGED <<complete, broken>>,
              interrupted' \subseteq interrupted \cup {r},
              \A x \in Thread \ {w} : pc'[x] = pc[x] /\ cur'[x] = cur[x],
              pc'[w] = "rename" => cur'[w] = r
       PROVE  G
  <2>1. content'[MarkerOf[r]] # None
    BY <1>11
  <2>2. ASSUME NEW q \in Resource, MarkerLeft(q) PROVE Left(q)
    BY <1>1, <1>11, <2>2 DEF MarkerLeft, TwinOnDisk, OnDisk
  <2>3. Left(r)
    BY <2>1 DEF MarkerLeft
  <2>4. \A q \in interrupted' : Left(q)
    BY <1>1, <1>11, <2>2, <2>3 DEF MarkersLeft
  <2>5. ASSUME NEW x \in Thread, pc'[x] = "rename"
        PROVE  Left(cur'[x]) \/ cur'[x] \in OnDisk'
    <3>1. CASE x = w
      BY <1>11, <2>3, <2>5, <3>1
    <3>2. CASE x # w
      <4>1. pc[x] = "rename" /\ cur'[x] = cur[x] /\ cur[x] \in Resource
        BY <1>11, <2>5, <3>2 DEF Holding
      <4>2. MarkerLeft(cur[x]) \/ cur[x] \in OnDisk
        BY <4>1 DEF MarkersLeft
      <4> QED
        BY <1>11, <2>2, <4>1, <4>2 DEF OnDisk
    <3> QED
      BY <3>1, <3>2
  <2> QED
    BY <2>4, <2>5 DEF MarkersLeft
<1>12. ASSUME NEW w \in Thread, NEW r \in Resource, OpenFails(w, r) PROVE G
  <2>1. /\ content[MarkerOf[r]] # None /\ MarkerOf[r] \in Marker
        /\ pc' = [pc EXCEPT ![w] = "rename"] /\ cur' = [cur EXCEPT ![w] = r]
        /\ UNCHANGED <<content, complete, broken, interrupted>>
    BY <1>1, <1>12 DEF OpenFails, Take, Goto, Holding
  <2> QED
    BY <1>1, <1>11, <2>1
<1>13. ASSUME NEW w \in Thread, ReadAll(w) \/ ReadShort(w) \/ ReadFails(w)
       PROVE  G
  <2>1. /\ pc[w] = "read" /\ cur[w] \in Resource /\ MarkerOf[cur[w]] \in Marker
        /\ content[MarkerOf[cur[w]]] # None
    BY <1>1, <1>13 DEF ReadAll, ReadShort, ReadFails, Close, Goto, Holding
  <2>2. /\ \A m \in Marker : content[m] # None => content'[m] # None
        /\ UNCHANGED <<complete, broken>>
        /\ interrupted' \subseteq interrupted \cup {cur[w]}
    BY <1>1, <1>13, <2>1 DEF ReadAll, ReadShort, ReadFails, Close
  <2>3. /\ \A x \in Thread \ {w} : pc'[x] = pc[x] /\ cur'[x] = cur[x]
        /\ pc'[w] = "rename" => cur'[w] = cur[w]
    BY <1>1, <1>13 DEF ReadAll, ReadShort, ReadFails, Close, Goto
  <2> QED
    BY <1>11, <2>1, <2>2, <2>3
<1>14. ASSUME NEW w \in Thread, Rename(w) PROVE G
  <2> DEFINE m == MarkerOf[cur[w]]
  <2>1. /\ pc[w] = "rename" /\ pc' = [pc EXCEPT ![w] = "download"]
        /\ cur' = [cur EXCEPT ![w] = None]
        /\ cur[w] \in Resource /\ m \in Marker
    BY <1>1, <1>14 DEF Rename, Goto, Holding
  <2>2. CASE content[m] # None /\ holder[m] = None /\ cur[w] \notin OnDisk
    <3>1. /\ content' = [content EXCEPT ![m] = None]
          /\ interrupted' = interrupted \ {cur[w]}
          /\ OnDisk' = OnDisk \cup {cur[w]}
      BY <1>14, <2>2 DEF Rename, OnDisk
    \* The others that share the file have a twin on disk now.
    <3>2. ASSUME NEW r \in Resource, r # cur[w], MarkerLeft(r)
          PROVE  Left(r)
      <4>1. CASE MarkerOf[r] = m
        BY <3>1, <3>2, <4>1 DEF MarkerLeft, TwinOnDisk
      <4>2. CASE MarkerOf[r] # m
        <5>1. content'[MarkerOf[r]] = content[MarkerOf[r]] /\ OnDisk \subseteq OnDisk'
          BY <1>1, <3>1, <4>2
        <5> QED
          BY <3>2, <5>1 DEF MarkerLeft, TwinOnDisk
      <4> QED
        BY <4>1, <4>2
    <3>3. \A r \in interrupted' : Left(r)
      BY <1>1, <3>1, <3>2 DEF MarkersLeft
    <3>4. ASSUME NEW x \in Thread, pc'[x] = "rename"
          PROVE  Left(cur'[x]) \/ cur'[x] \in OnDisk'
      <4>1. pc[x] = "rename" /\ cur'[x] = cur[x] /\ cur[x] \in Resource
        BY <1>1, <2>1, <3>4 DEF Holding
      <4>2. MarkerLeft(cur[x]) \/ cur[x] \in OnDisk
        BY <4>1 DEF MarkersLeft
      <4> QED
        BY <3>1, <3>2, <4>1, <4>2
    <3> QED
      BY <3>3, <3>4 DEF MarkersLeft
  <2>3. CASE ~(content[m] # None /\ holder[m] = None /\ cur[w] \notin OnDisk)
    BY <1>1, <1>2, <1>14, <2>1, <2>3 DEF Rename, OnDisk
  <2> QED
    BY <2>2, <2>3
<1>15. ASSUME NEW w \in Thread, ParseEnds(w) \/ Report(w) PROVE G
  BY <1>1, <1>2, <1>15 DEF ParseEnds, Report, Goto, OnDisk
<1>16. ASSUME ChecksExhausted PROVE G
  BY <1>2, <1>16 DEF ChecksExhausted, OnDisk
<1>17. ASSUME CheckFindsNothing PROVE G
  BY <1>2, <1>17 DEF CheckFindsNothing, OnDisk
<1>18. ASSUME CheckPublishes PROVE G
  BY <1>1, <1>2, <1>18 DEF CheckPublishes, CheckAgain, OnDisk
<1> HIDE DEF G
<1>19. G
  BY <1>3, <1>4, <1>5, <1>6, <1>7, <1>8, <1>9, <1>10, <1>12, <1>13, <1>14,
     <1>15, <1>16, <1>17, <1>18, Cases
<1> QED
  BY <1>19

LEMMA NextRetried ==
  TypeOK /\ MarkersLeft /\ RetriedUntilGivenUp /\ [Next]_vars => RetriedUntilGivenUp'
<1> SUFFICES ASSUME TypeOK, MarkersLeft, RetriedUntilGivenUp, [Next]_vars
             PROVE  RetriedUntilGivenUp'
  OBVIOUS
<1> USE DEF disk, thread, history
<1>1. pc \in [Thread -> PC] /\ "rmq" \in Thread /\ "ui" \in Thread
  BY DEF TypeOK, Thread
\* Steps that end with the process down, the timer armed, a thread at work,
\* or the retries given up
<1>2. ASSUME ~up' \/ timer' \/ (\E x \in Thread : pc'[x] # "idle") \/ gaveUp'
      PROVE  RetriedUntilGivenUp'
  BY <1>2 DEF RetriedUntilGivenUp, AtRest
<1>3. ASSUME UNCHANGED vars PROVE RetriedUntilGivenUp'
  BY <1>3 DEF vars, RetriedUntilGivenUp, AtRest, TwinOnDisk, OnDisk
<1>4. ASSUME Start PROVE RetriedUntilGivenUp'
  BY <1>2, <1>4 DEF Start
<1>5. ASSUME up, Down PROVE RetriedUntilGivenUp'
  BY <1>2, <1>5 DEF Down
<1>6. ASSUME NEW p \in Program, Publish(p) PROVE RetriedUntilGivenUp'
  BY <1>1, <1>2, <1>6 DEF Publish, Goto
<1>7. ASSUME NEW w \in Thread, GetTemplate(w) \/ GetTemplateFails(w)
      PROVE  RetriedUntilGivenUp'
  BY <1>1, <1>2, <1>7 DEF GetTemplate, GetTemplateFails, Goto
<1>8. ASSUME NEW w \in Thread, ParseFails(w) PROVE RetriedUntilGivenUp'
  BY <1>1, <1>2, <1>8 DEF ParseFails, Goto
<1>9. ASSUME NEW w \in Thread, NEW r \in Resource, Skip(w, r)
      PROVE  RetriedUntilGivenUp'
  BY <1>1, <1>2, <1>9 DEF Skip
<1>10. ASSUME NEW w \in Thread, NEW r \in Resource, Open(w, r) \/ OpenFails(w, r)
       PROVE  RetriedUntilGivenUp'
  BY <1>1, <1>2, <1>10 DEF Open, OpenFails, Take, Goto
<1>11. ASSUME NEW w \in Thread, ReadAll(w) \/ ReadShort(w) \/ ReadFails(w)
       PROVE  RetriedUntilGivenUp'
  BY <1>1, <1>2, <1>11 DEF ReadAll, ReadShort, ReadFails, Close, Goto
<1>12. ASSUME NEW w \in Thread, Rename(w) PROVE RetriedUntilGivenUp'
  BY <1>1, <1>2, <1>12 DEF Rename, Goto
<1>13. ASSUME NEW w \in Thread, ParseEnds(w) \/ Report(w) PROVE RetriedUntilGivenUp'
  BY <1>1, <1>2, <1>13 DEF ParseEnds, Report, Goto
<1>14. ASSUME ChecksExhausted PROVE RetriedUntilGivenUp'
  BY <1>2, <1>14 DEF ChecksExhausted
<1>15. ASSUME CheckFindsNothing PROVE RetriedUntilGivenUp'
  <2>1. /\ \A m \in Watched : content[m] = None
        /\ UNCHANGED <<interrupted, complete, broken>>
    BY <1>15 DEF CheckFindsNothing, MarkerFound
  <2>2. \A r \in interrupted : MarkerOf[r] \in Watched => TwinOnDisk(r)
    BY <2>1 DEF MarkersLeft, MarkerLeft
  <2> QED
    BY <2>1, <2>2 DEF RetriedUntilGivenUp, TwinOnDisk, OnDisk
<1>16. ASSUME CheckPublishes PROVE RetriedUntilGivenUp'
  BY <1>1, <1>2, <1>16 DEF CheckPublishes, CheckAgain
<1> QED
  BY <1>3, <1>4, <1>5, <1>6, <1>7, <1>8, <1>9, <1>10, <1>11, <1>12, <1>13,
     <1>14, <1>15, <1>16, Cases

(***************************************************************************)
(* A download that broke off is left alone only when its retries ran out,  *)
(* the platform did not answer, or a resource that shares its .download    *)
(* file is on disk, whatever the two threads and the restarts do, and      *)
(* however many resources share a file.                                    *)
(***************************************************************************)
THEOREM InterruptedIsRetried == Spec => []RetriedUntilGivenUp
<1>1. Init => MarkersLeft /\ RetriedUntilGivenUp
  BY DEF Init, MarkersLeft, RetriedUntilGivenUp, AtRest
<1>2. TypeOK /\ Holding /\ MarkersLeft /\ RetriedUntilGivenUp /\ [Next]_vars
        => (MarkersLeft /\ RetriedUntilGivenUp)'
  BY NextMarkersLeft, NextRetried
<1> QED
  BY TypeCorrect, <1>1, <1>2, PTL DEF Spec

=============================================================================
