------------------------ MODULE ProgramControlProofs ------------------------
(***************************************************************************)
(* Safety of programme control, for any programmes, lists, windows, day    *)
(* length and sequence of commands, for commands and timers that come at   *)
(* any point of a ChooseProgram pass, and for one m_nMode that the two     *)
(* threads which publish share.                                            *)
(***************************************************************************)
EXTENDS ProgramControl, WellFoundedInduction, TLAPS

(***************************************************************************)
(* A slot, "tomorrow" and "not armed" are all values a timer can have.     *)
(***************************************************************************)
LEMMA DueValues == Never \in Due /\ Off \in Due /\ Slot \subseteq Due /\ 0 \in Slot
  BY ProgramAssumption DEF Never, Off, Due, Slot

(***************************************************************************)
(* GetWaitTime and GetCloseTime answer a slot of today or tomorrow.        *)
(***************************************************************************)
LEMMA NextInIsDue == ASSUME NEW S, NEW t PROVE NextIn(S, t) \in Due
<1> DEFINE IsNext(s) == s \in S /\ s > t /\ \A u \in S : u > t => s <= u
<1>1. CASE \E s \in Slot : IsNext(s)
  <2>1. (CHOOSE s \in Slot : IsNext(s)) \in Slot
    BY <1>1
  <2>2. NextIn(S, t) = CHOOSE s \in Slot : IsNext(s)
    BY <1>1 DEF NextIn
  <2> QED
    BY <2>1, <2>2, DueValues
<1>2. CASE ~\E s \in Slot : IsNext(s)
  <2>1. NextIn(S, t) = Never
    BY <1>2 DEF NextIn
  <2> QED
    BY <2>1, DueValues
<1> QED
  BY <1>1, <1>2

(***************************************************************************)
(* A pass works with the default programme or with the copy it took, and   *)
(* only the copy can be an emergency.                                      *)
(***************************************************************************)
LEMMA DefaultValue ==
  /\ jDefault \in Json
  /\ jDefault # NoJson
  /\ jDefault.prog = Default
  /\ Default \notin Emergency
<1>1. jDefault \in Json
  BY ProgramAssumption DEF jDefault, Json, Single
<1> QED
  BY <1>1, ProgramAssumption DEF jDefault

LEMMA EffectiveValue ==
  ASSUME NEW v \in Json \cup {NoJson}
  PROVE  /\ Effective(v) \in Json
         /\ Effective(v) = jDefault \/ Effective(v) = v
         /\ Effective(v).prog \in Emergency => v # NoJson /\ Effective(v) = v
  BY DefaultValue DEF Effective, Fallback

(***************************************************************************)
(* Every item of a list is a page.                                         *)
(***************************************************************************)
LEMMA ItemIsPage ==
  ASSUME NEW l \in List, NEW i \in DOMAIN Items[l]
  PROVE  Items[l][i] \in Item /\ Items[l][i] \in Page
<1>1. Items[l] \in Seq(Item)
  BY ProgramAssumption
<1> QED
  BY <1>1 DEF Page

LEMMA LastItemIsPage ==
  ASSUME NEW l \in List, Items[l] # <<>>
  PROVE  Items[l][Len(Items[l])] \in Page
<1>1. Items[l] \in Seq(Item)
  BY ProgramAssumption
<1>2. Len(Items[l]) \in DOMAIN Items[l]
  BY <1>1
<1> QED
  BY <1>2, ItemIsPage

-----------------------------------------------------------------------------
(***************************************************************************)
(* Type correctness of ProgramControl.                                     *)
(***************************************************************************)
LEMMA InitType == Init => TypeOK
<1> SUFFICES ASSUME Init PROVE TypeOK
  OBVIOUS
<1>1. /\ jTemplate \in Json \cup {NoJson}
      /\ jOverdue \in Json \cup {NoJson}
      /\ jTemproary \in Json \cup {NoJson}
  BY ProgramAssumption DEF Init
<1>2. jrsp \in Json \cup {NoJson}
  <2>1. CASE TemporaryAccepted
    BY <1>1, <2>1 DEF Init
  <2>2. CASE ~TemporaryAccepted /\ jTemplate # NoJson
    BY <1>1, <2>2 DEF Init
  <2>3. CASE ~TemporaryAccepted /\ jTemplate = NoJson
    BY <1>1, <2>3, DefaultValue DEF Init
  <2> QED
    BY <2>1, <2>2, <2>3
<1>3. timer \in [TimerId -> Due]
  BY DueValues DEF Init
<1>4. op \in [Actor -> Op] /\ held \in [Actor -> Json \cup {NoJson}]
  BY DEF Init, Op
<1>5. nCheckTimes \in 0..3 /\ clock \in Slot /\ calls \in 0..MaxCalls
  BY ProgramAssumption, DueValues DEF Init
<1>6. m_nMode \in Kind \cup {"none"} /\ during \subseteq {"signal", "change"}
  BY DEF Init
<1> QED
  BY <1>1, <1>2, <1>3, <1>4, <1>5, <1>6, DueValues DEF Showable, Init, TypeOK

LEMMA DecideType ==
  ASSUME TypeOK, ChooseDecide
  PROVE  TypeOK'
<1> DEFINE v == Effective(jTemp)
<1> USE DEF TypeOK
<1>1. v \in Json /\ jDefault \in Json /\ Default \in Page /\ clock \in Due
  BY EffectiveValue, DefaultValue, DueValues, ProgramAssumption DEF Page, Single
<1>2. v.prog \in Program
  BY <1>1 DEF Json
<1>3. v.prog \in Single => v.prog \in Page
  BY DEF Page
<1>4. \A page \in Page, due \in Due :
        Load(page, due) =>
          /\ jForIE' \in Page
          /\ timer' \in [TimerId -> Due]
          /\ promised' \in Due
  BY <1>1 DEF Load, TimerId
<1>5. \A page \in Page :
        LoadForGood(page) =>
          /\ jForIE' \in Page
          /\ timer' \in [TimerId -> Due]
          /\ promised' \in Due
  BY <1>1, DueValues DEF LoadForGood, TimerId
<1> DEFINE Outcome == /\ jForIE' \in Showable
                      /\ timer' \in [TimerId -> Due]
                      /\ promised' \in Due
                      /\ result' \in {"page", "wait", "blocked", "frozen"}
                      /\ g_bIsTemproaryOn' \in BOOLEAN
                      /\ bUnderSwitchMode' \in BOOLEAN
                      /\ g_strItemid' \in Item \cup {NoItem}
<1>6. ASSUME v.prog \in Single,
             PlayAllDay(v) \/ PlayInWindow(v) \/ AwaitWindow(v)
      PROVE  /\ jForIE' \in Page
             /\ timer' \in [TimerId -> Due]
             /\ promised' \in Due
             /\ result' \in {"page", "wait"}
  <2>1. CASE PlayAllDay(v)
    BY <1>3, <1>5, <1>6, <2>1 DEF PlayAllDay
  <2>2. CASE PlayInWindow(v)
    <3>1. CloseAt(v.prog, clock) \in Due
      BY NextInIsDue DEF CloseAt
    <3> QED
      BY <1>3, <1>4, <1>6, <2>2, <3>1 DEF PlayInWindow
  <2>3. CASE AwaitWindow(v)
    <3>1. WaitUntil(Airs[v.prog], clock) \in Due
      BY NextInIsDue DEF WaitUntil
    <3> QED
      BY <1>1, <1>4, <2>3, <3>1 DEF AwaitWindow
  <2> QED
    BY <1>6, <2>1, <2>2, <2>3
<1>7. ASSUME DecideNormal(v) PROVE Outcome
  BY <1>6, <1>7 DEF Showable, DecideNormal, flags
<1>8. ASSUME DecideBlocked(v) \/ DecideEmptyList(v)
      PROVE  Outcome
  BY <1>8 DEF DecideBlocked, DecideEmptyList, LeaveAsIs, flags
<1>9. ASSUME DecideEmergency(v) PROVE Outcome
  <2>1. v.prog \in Single
    BY <1>9, ProgramAssumption DEF DecideEmergency
  <2> QED
    BY <1>6, <1>9, <2>1 DEF Showable, DecideEmergency
<1>10. ASSUME DecideSwitch(v) PROVE Outcome
  <2>1. g_strItemid \in Page
    BY <1>10, ItemIsPage DEF DecideSwitch, ItemsOf
  <2> QED
    BY <1>5, <1>10, <2>1 DEF Showable, DecideSwitch
<1>11. ASSUME DecideFrozen(v) PROVE Outcome
  BY <1>11, LastItemIsPage DEF Showable, DecideFrozen, LeaveAsIs, flags
<1>12. ASSUME DecideItem(v) PROVE Outcome
  <2> PICK i \in DOMAIN Items[v.prog] :
             Load(Items[v.prog][i], CloseAt(Items[v.prog][i], clock))
    BY <1>12 DEF DecideItem
  <2>1. /\ Items[v.prog][i] \in Page
        /\ CloseAt(Items[v.prog][i], clock) \in Due
    BY <1>12, ItemIsPage, NextInIsDue DEF DecideItem, CloseAt
  <2> QED
    BY <1>4, <1>12, <2>1 DEF Showable, DecideItem, flags
<1>13. ASSUME DecideListWait(v) PROVE Outcome
  <2>1. WaitUntil(UNION {Airs[i] : i \in ItemsOf(v)}, clock) \in Due
    BY NextInIsDue DEF WaitUntil
  <2> QED
    BY <1>1, <1>4, <1>5, <1>13, <2>1 DEF Showable, DecideListWait, flags
<1>14. CASE DecideEmergencyWait(v)
  <2>1. v.prog \in Page /\ WaitUntil(Airs[v.prog], clock) \in Due
    BY <1>3, <1>14, NextInIsDue, ProgramAssumption
    DEF DecideEmergencyWait, WaitUntil
  <2>2. Outcome
    BY <1>1, <1>14, <2>1 DEF Showable, DecideEmergencyWait, TimerId
  <2> QED
    BY <1>14, <2>2 DEF ChooseDecide, DecideEmergencyWait, handlers
<1>15. DecideInPlace(v) => Outcome
  BY <1>7, <1>8, <1>9, <1>10, <1>11, <1>12, <1>13 DEF DecideInPlace
<1>16. CASE DecideInPlace(v) /\ jrsp' = IF Fallback(jTemp) THEN jDefault ELSE jrsp
  BY <1>1, <1>15, <1>16 DEF ChooseDecide, handlers
<1> QED
  BY <1>14, <1>16 DEF ChooseDecide

(***************************************************************************)
(* What ends the process changes nothing else.                             *)
(***************************************************************************)
LEMMA DownType ==
  ASSUME TypeOK, Down
  PROVE  TypeOK'
<1>1. up' \in BOOLEAN
  BY DEF Down
<1> QED
  BY <1>1 DEF Down, TypeOK, programmes, flags, screen, chooser, handlers, history

LEMMA ChooseType ==
  ASSUME TypeOK, Choose
  PROVE  TypeOK'
<1>1. CASE ChooseWake
  BY <1>1 DEF ChooseWake, TypeOK, programmes, flags, screen, handlers
<1>2. CASE ChooseReset
  BY <1>2 DEF ChooseReset, TypeOK, programmes, flags, screen, handlers, history
<1>3. CASE ChooseThrows
  BY <1>3, DownType DEF ChooseThrows
<1> QED
  BY <1>1, <1>2, <1>3, DecideType DEF Choose

(***************************************************************************)
(* Arming or killing timers, moving a handler on and disturbing a pass     *)
(* keep their types.                                                       *)
(***************************************************************************)
LEMMA TimerSet ==
  ASSUME TypeOK, NEW i, NEW j, NEW s \in Due, NEW t \in Due
  PROVE  /\ [timer EXCEPT ![i] = s] \in [TimerId -> Due]
         /\ [timer EXCEPT ![i] = s, ![j] = t] \in [TimerId -> Due]
  BY DEF TypeOK

LEMMA HandlerMoves ==
  ASSUME TypeOK, NEW a, NEW o \in Op, Begin(a, o)
  PROVE  op' \in [Actor -> Op]
  BY DEF TypeOK, Begin

LEMMA HandlerAsks ==
  ASSUME TypeOK, NEW a, NEW kind \in Kind, Ask(a, kind)
  PROVE  op' \in [Actor -> Op] /\ m_nMode' \in Kind \cup {"none"}
<1>1. (IF kind = "ITEM" THEN "askItem" ELSE "askList") \in Op
  BY DEF Op
<1> QED
  BY <1>1, HandlerMoves DEF Ask

LEMMA CallCounted ==
  ASSUME TypeOK, CountCall
  PROVE  calls' \in 0..MaxCalls
  BY ProgramAssumption DEF TypeOK, CountCall

LEMMA DuringType ==
  ASSUME TypeOK, NEW what \in {"signal", "change"}, Disturb(what)
  PROVE  during' \subseteq {"signal", "change"}
  BY DEF TypeOK, Disturb

LEMMA ChooseSoonType ==
  ASSUME TypeOK, ChooseSoon
  PROVE  timer' \in [TimerId -> Due]
<1>1. clock \in Due
  BY DueValues DEF TypeOK
<1> QED
  BY <1>1, TimerSet DEF ChooseSoon

LEMMA CommandType ==
  ASSUME TypeOK, Command \/ DefaultEnd \/ ExtendDeadlineWrite
  PROVE  TypeOK'
<1> USE DEF programmes, flags, screen, chooser, history
<1>1. ASSUME NEW kind \in Kind, PublishBegin(kind) PROVE TypeOK'
  <2>1. op' \in [Actor -> Op] /\ m_nMode' \in Kind \cup {"none"}
    BY <1>1, HandlerAsks DEF PublishBegin
  <2>2. calls' \in 0..MaxCalls
    BY <1>1, CallCounted DEF PublishBegin, Receive
  <2> QED
    BY <1>1, <2>1, <2>2 DEF PublishBegin, TypeOK
<1>2. CASE DefaultBegin
  <2>1. op' \in [Actor -> Op] /\ during' \subseteq {"signal", "change"}
    BY <1>2, HandlerMoves, DuringType DEF DefaultBegin, Op
  <2>2. calls' \in 0..MaxCalls
    BY <1>2, CallCounted DEF DefaultBegin, Receive
  <2>3. g_bIsTemproaryOn' \in BOOLEAN
    BY <1>2 DEF DefaultBegin
  <2> QED
    BY <1>2, <2>1, <2>2, <2>3 DEF DefaultBegin, TypeOK
<1>3. ASSUME NEW p \in Program, NEW expired \in Deadlines,
             ExtendDeadlineRead(p, expired)
      PROVE  TypeOK'
  <2>1. op' \in [Actor -> Op]
    BY <1>3, HandlerMoves DEF ExtendDeadlineRead, Op
  <2>2. calls' \in 0..MaxCalls
    BY <1>3, CallCounted DEF ExtendDeadlineRead, Receive
  <2>3. [jrsp EXCEPT !.expired = expired] \in Json
    <3>1. expired \in BOOLEAN /\ jrsp \in Json
      BY <1>3, ProgramAssumption DEF ExtendDeadlineRead, TypeOK
    <3> QED
      BY <3>1 DEF Json
  <2>4. held' \in [Actor -> Json \cup {NoJson}]
    BY <1>3, <2>3 DEF ExtendDeadlineRead, TypeOK
  <2> QED
    BY <1>3, <2>1, <2>2, <2>4 DEF ExtendDeadlineRead, TypeOK
<1>4. ASSUME NEW i \in Item, Control(i) PROVE TypeOK'
  <2>1. /\ calls' \in 0..MaxCalls
        /\ timer' \in [TimerId -> Due]
        /\ during' \subseteq {"signal", "change"}
    BY <1>4, CallCounted, ChooseSoonType, DuringType DEF Control, Receive
  <2> QED
    BY <1>4, <2>1 DEF Control, TypeOK
<1>5. CASE ControlRecovery
  <2>1. /\ calls' \in 0..MaxCalls
        /\ timer' \in [TimerId -> Due]
        /\ during' \subseteq {"signal", "change"}
    BY <1>5, CallCounted, ChooseSoonType, DuringType DEF ControlRecovery, Receive
  <2>2. bUnderSwitchMode' \in BOOLEAN
    BY <1>5 DEF ControlRecovery
  <2> QED
    BY <1>5, <2>1, <2>2 DEF ControlRecovery, TypeOK
<1>6. CASE DefaultEnd
  <2>1. /\ op' \in [Actor -> Op]
        /\ timer' \in [TimerId -> Due]
        /\ during' \subseteq {"signal", "change"}
    BY <1>6, HandlerMoves, ChooseSoonType, DuringType DEF DefaultEnd, Op
  <2> QED
    BY <1>6, <2>1, DefaultValue DEF DefaultEnd, TypeOK
<1>7. CASE ExtendDeadlineWrite
  <2>1. /\ op' \in [Actor -> Op]
        /\ timer' \in [TimerId -> Due]
        /\ during' \subseteq {"signal", "change"}
    BY <1>7, HandlerMoves, ChooseSoonType, DuringType DEF ExtendDeadlineWrite, Op
  <2>2. held["rmq"] \in Json \cup {NoJson}
    BY DEF TypeOK, Actor
  <2>3. held' \in [Actor -> Json \cup {NoJson}]
    BY <1>7 DEF ExtendDeadlineWrite, TypeOK
  <2> QED
    BY <1>7, <2>1, <2>2, <2>3 DEF ExtendDeadlineWrite, TypeOK
<1> QED
  BY <1>1, <1>2, <1>3, <1>4, <1>5, <1>6, <1>7 DEF Command

LEMMA PublishType ==
  ASSUME TypeOK, NEW a \in Actor, Publish(a)
  PROVE  TypeOK'
<1> USE DEF programmes, flags, screen, chooser, history
<1>1. clock \in Due
  BY DueValues DEF TypeOK
<1>2. CASE PublishFetchFails(a) \/ ParseBegin(a) \/ PublishParseFails(a)
  <2>1. op' \in [Actor -> Op]
    BY <1>2, HandlerMoves
    DEF PublishFetchFails, ParseBegin, PublishParseFails, Op
  <2>2. UNCHANGED <<programmes, flags, screen, timer, chooser, held, m_nMode,
                    nCheckTimes, calls, clock, up, history>>
    BY <1>2 DEF PublishFetchFails, ParseBegin, PublishParseFails
  <2> QED
    BY <2>1, <2>2 DEF TypeOK
<1>3. CASE ParseThrows(a)
  BY <1>3, DownType DEF ParseThrows
<1>4. ASSUME NEW v \in [prog: Program, expired: Deadlines, misread: BOOLEAN],
             ParseNewTemplateOfH5(a, v)
      PROVE  TypeOK'
  <2>1. op' \in [Actor -> Op] /\ during' \subseteq {"signal", "change"}
    BY <1>4, HandlerMoves, DuringType DEF ParseNewTemplateOfH5, Op
  <2>2. v \in Json
    BY ProgramAssumption DEF Json
  <2>3. g_bIsTemproaryOn' \in BOOLEAN
    BY <1>4 DEF ParseNewTemplateOfH5, TypeOK
  <2> QED
    BY <1>4, <2>1, <2>2, <2>3 DEF ParseNewTemplateOfH5, TypeOK
<1>5. CASE PublishSucceeds(a)
  <2>1. /\ op' \in [Actor -> Op]
        /\ timer' \in [TimerId -> Due]
        /\ during' \subseteq {"signal", "change"}
    BY <1>5, HandlerMoves, ChooseSoonType, DuringType DEF PublishSucceeds, Op
  <2> QED
    BY <1>5, <2>1 DEF PublishSucceeds, TypeOK
<1>6. CASE PublishReport(a)
  <2>1. op' \in [Actor -> Op] /\ timer' \in [TimerId -> Due]
    BY <1>1, <1>6, HandlerMoves, TimerSet DEF PublishReport, Op
  <2> QED
    BY <1>6, <2>1 DEF PublishReport, TypeOK
<1>7. CASE SetMode(a)
  <2>1. op' \in [Actor -> Op] /\ m_nMode' \in Kind \cup {"none"}
    BY <1>7, HandlerMoves DEF SetMode, Op, Kind
  <2>2. UNCHANGED <<programmes, flags, screen, timer, chooser, held, nCheckTimes,
                    calls, clock, up, history>>
    BY <1>7 DEF SetMode
  <2> QED
    BY <2>1, <2>2 DEF TypeOK
<1> QED
  BY <1>2, <1>3, <1>4, <1>5, <1>6, <1>7 DEF Publish

LEMMA TimerType ==
  ASSUME TypeOK, OnTimer
  PROVE  TypeOK'
<1> USE DEF programmes, flags, screen, chooser, history
<1>1. clock \in Due /\ Off \in Due
  BY DueValues DEF TypeOK
<1>2. ASSUME NEW i, Kill(i) PROVE timer' \in [TimerId -> Due]
  BY <1>1, <1>2, TimerSet DEF Kill
<1>3. CASE OnLoadPage
  BY <1>2, <1>3 DEF OnLoadPage, TypeOK, handlers
<1>4. CASE OnChooseProgame
  <2>1. during' \subseteq {"signal", "change"} /\ timer' \in [TimerId -> Due]
    BY <1>2, <1>4, DuringType DEF OnChooseProgame
  <2> QED
    BY <1>4, <2>1 DEF OnChooseProgame, TypeOK, handlers
<1>5. CASE OnLoadTemporary
  <2>1. during' \subseteq {"signal", "change"} /\ timer' \in [TimerId -> Due]
    BY <1>1, <1>5, DuringType, TimerSet DEF OnLoadTemporary
  <2> QED
    BY <1>5, <2>1 DEF OnLoadTemporary, TypeOK, handlers
<1>6. CASE OnCheckFindsIncomplete
  <2>1. nCheckTimes' \in 0..3
    BY <1>6 DEF OnCheckFindsIncomplete, CheckIncompleted, TypeOK
  <2>2. op' \in [Actor -> Op] /\ m_nMode' \in Kind \cup {"none"}
    BY <1>6, HandlerAsks DEF OnCheckFindsIncomplete, Kind
  <2>3. calls' \in 0..MaxCalls /\ timer' \in [TimerId -> Due]
    BY <1>2, <1>6, CallCounted DEF OnCheckFindsIncomplete
  <2> QED
    BY <1>6, <2>1, <2>2, <2>3 DEF OnCheckFindsIncomplete, TypeOK
<1>7. CASE OnCheckThrows
  BY <1>7, DownType DEF OnCheckThrows
<1>8. CASE OnCheckEnds
  BY <1>2, <1>8 DEF OnCheckEnds, TypeOK
<1> QED
  BY <1>3, <1>4, <1>5, <1>6, <1>7, <1>8 DEF OnTimer

LEMMA NextType == TypeOK /\ [Next]_vars => TypeOK'
<1> SUFFICES ASSUME TypeOK, [Next]_vars PROVE TypeOK'
  OBVIOUS
<1>1. CASE Tick
  BY <1>1, ProgramAssumption
  DEF Tick, TypeOK, Slot, programmes, flags, screen, chooser, handlers, history
<1>2. CASE UNCHANGED vars
  BY <1>2
  DEF vars, TypeOK, programmes, flags, screen, chooser, handlers, history
<1>3. CASE RMQThread \/ UIThread
  BY <1>3, CommandType, PublishType, TimerType DEF RMQThread, UIThread, Actor
<1> QED
  BY <1>1, <1>2, <1>3, ChooseType, CommandType DEF Next

(***************************************************************************)
(* In every reachable state the programmes, flags, timers and handlers of  *)
(* programme control have their declared types.                            *)
(***************************************************************************)
THEOREM TypeCorrect == Spec => []TypeOK
  BY InitType, NextType, PTL DEF Spec

-----------------------------------------------------------------------------
(***************************************************************************)
(* Where programmes are kept: ProgrammeInv without its type part.          *)
(***************************************************************************)
Placement ==
  /\ StoredByReleaseMode
  /\ CurrentIsStored
  /\ EmergencyIsLoaded
  /\ CopiesRespectMode

(***************************************************************************)
(* Placement speaks of these variables only, and of these timers.          *)
(***************************************************************************)
placed == <<programmes, g_bIsTemproaryOn, timer["LOADTEMPORARY"], jTemp,
            op["rmq"], held["rmq"]>>

LEMMA PlacementKept ==
  ASSUME Placement, UNCHANGED placed
  PROVE  Placement'
  BY DEF Placement, placed, programmes, StoredByReleaseMode, CurrentIsStored,
         EmergencyIsLoaded, CopiesRespectMode

(***************************************************************************)
(* The current programme is an emergency only if there is one in           *)
(* jTemproary, and it is the default one only if it is jDefault.           *)
(***************************************************************************)
LEMMA CurrentByMode ==
  ASSUME TypeOK, Placement, jrsp # NoJson
  PROVE  /\ Urgent(jrsp) => jTemproary # NoJson
         /\ jrsp # jDefault => jrsp.prog # Default
<1>1. ~Urgent(jDefault)
  BY DefaultValue DEF Urgent
<1> QED
  BY <1>1, DefaultValue
  DEF Placement, StoredByReleaseMode, InPlace, CurrentIsStored

LEMMA ChoosePlacement ==
  ASSUME TypeOK, Placement, Choose
  PROVE  Placement'
<1> DEFINE v == Effective(jTemp)
<1>1. CASE ChooseWake
  <2>1. jTemp' # NoJson /\ Urgent(jTemp') => jTemproary # NoJson
    BY <1>1, CurrentByMode DEF ChooseWake
  <2> QED
    BY <1>1, <2>1
    DEF ChooseWake, Placement, StoredByReleaseMode, CurrentIsStored,
        EmergencyIsLoaded, CopiesRespectMode, programmes, flags, handlers
<1>2. CASE ChooseDecide
  <2>1. jTemp \in Json \cup {NoJson}
    BY DEF TypeOK
  <2>2. v.prog \in Emergency => jTemproary # NoJson
    <3>1. v.prog \in Emergency => jTemp # NoJson /\ jTemp.prog \in Emergency
      BY <2>1, EffectiveValue
    <3>2. jTemp # NoJson => ~jTemp.misread
      BY <1>2 DEF ChooseDecide, Misread
    <3> QED
      BY <3>1, <3>2 DEF Placement, CopiesRespectMode, Urgent
  <2>3. /\ StoredByReleaseMode'
        /\ CopiesRespectMode'
    BY <1>2 DEF ChooseDecide, Placement, StoredByReleaseMode,
                CopiesRespectMode, handlers
  <2>4. CurrentIsStored'
    BY <1>2 DEF ChooseDecide, DecideEmergencyWait, Placement, CurrentIsStored
  <2>5. timer \in [TimerId -> Due]
    BY DEF TypeOK
  <2>6. EmergencyIsLoaded'
    <3>1. CASE DecideEmergencyWait(v) \/ DecideEmergency(v)
      BY <1>2, <2>2, <3>1
      DEF ChooseDecide, DecideEmergencyWait, DecideEmergency, EmergencyIsLoaded
    <3>2. CASE \/ DecideNormal(v) \/ DecideBlocked(v) \/ DecideSwitch(v)
               \/ DecideFrozen(v) \/ DecideItem(v) \/ DecideListWait(v)
               \/ DecideEmptyList(v)
      <4>1. g_bIsTemproaryOn' = g_bIsTemproaryOn
        BY <3>2 DEF DecideNormal, DecideBlocked, DecideSwitch, DecideFrozen,
                    DecideItem, DecideListWait, DecideEmptyList, flags
      <4>2. timer'["LOADTEMPORARY"] = timer["LOADTEMPORARY"]
        BY <2>5, <3>2
        DEF DecideNormal, DecideBlocked, DecideSwitch, DecideFrozen,
            DecideItem, DecideListWait, DecideEmptyList, PlayAllDay,
            PlayInWindow, AwaitWindow, Load, LoadForGood, LeaveAsIs, TimerId
      <4> QED
        BY <1>2, <4>1, <4>2 DEF ChooseDecide, Placement, EmergencyIsLoaded
    <3> QED
      BY <1>2, <3>1, <3>2 DEF ChooseDecide, DecideInPlace
  <2> QED
    BY <2>3, <2>4, <2>6 DEF Placement
<1>3. CASE ChooseReset
  <2>1. CopiesRespectMode'
    BY <1>3 DEF ChooseReset, Placement, CopiesRespectMode, handlers
  <2> QED
    BY <1>3, <2>1
    DEF ChooseReset, Placement, StoredByReleaseMode, CurrentIsStored,
        EmergencyIsLoaded, programmes, flags
<1>4. CASE ChooseThrows
  BY <1>4, PlacementKept
  DEF ChooseThrows, Down, placed, programmes, flags, chooser, handlers
<1> QED
  BY <1>1, <1>2, <1>3, <1>4 DEF Choose

LEMMA CommandPlacement ==
  ASSUME TypeOK, Placement, Command \/ DefaultEnd \/ ExtendDeadlineWrite
  PROVE  Placement'
<1> USE DEF Begin, ChooseSoon, programmes, flags, chooser
<1>1. /\ timer \in [TimerId -> Due]
      /\ op \in [Actor -> Op]
      /\ held \in [Actor -> Json \cup {NoJson}]
      /\ held["rmq"] \in Json \cup {NoJson}
      /\ "rmq" \in Actor
  BY DEF TypeOK, Actor
<1>2. ASSUME ChooseSoon
      PROVE  timer'["LOADTEMPORARY"] = timer["LOADTEMPORARY"]
  BY <1>1, <1>2 DEF TimerId
<1>3. ASSUME NEW kind \in Kind, PublishBegin(kind)
      PROVE  Placement'
  <2>1. op'["rmq"] # "extend"
    BY <1>1, <1>3 DEF PublishBegin, Ask
  <2> QED
    BY <1>3, <2>1 DEF PublishBegin, Placement, StoredByReleaseMode,
      CurrentIsStored, EmergencyIsLoaded, CopiesRespectMode
<1>4. CASE DefaultBegin
  BY <1>1, <1>4 DEF DefaultBegin, Placement, StoredByReleaseMode,
    CurrentIsStored, EmergencyIsLoaded, CopiesRespectMode
<1>5. ASSUME NEW p \in Program, NEW expired \in Deadlines,
             ExtendDeadlineRead(p, expired)
      PROVE  Placement'
  <2>1. /\ held'["rmq"] = [jrsp EXCEPT !.expired = expired]
        /\ op'["rmq"] = "extend"
    BY <1>1, <1>5 DEF ExtendDeadlineRead
  <2>2. jrsp \in Json /\ jrsp.prog # Default
    BY <1>5, CurrentByMode DEF ExtendDeadlineRead, TypeOK
  <2>3. held'["rmq"] # NoJson /\ held'["rmq"].prog # Default
    <3>1. expired \in BOOLEAN
      BY ProgramAssumption
    <3>2. [jrsp EXCEPT !.expired = expired] \in Json
      BY <2>2, <3>1 DEF Json
    <3>3. [jrsp EXCEPT !.expired = expired].prog = jrsp.prog
      BY <2>2 DEF Json
    <3> QED
      BY <2>1, <2>2, <3>2, <3>3, ProgramAssumption
  <2> QED
    BY <1>5, <2>1, <2>3 DEF ExtendDeadlineRead, Placement, StoredByReleaseMode,
      CurrentIsStored, EmergencyIsLoaded, CopiesRespectMode
<1>6. ASSUME NEW i \in Item, Control(i)
      PROVE  Placement'
  BY <1>2, <1>6, PlacementKept DEF Control, placed
<1>7. CASE ControlRecovery
  BY <1>2, <1>7, PlacementKept DEF ControlRecovery, placed
<1>8. CASE DefaultEnd
  <2>1. op'["rmq"] # "extend"
    BY <1>1, <1>8 DEF DefaultEnd
  <2>2. timer'["LOADTEMPORARY"] = timer["LOADTEMPORARY"]
    BY <1>2, <1>8 DEF DefaultEnd
  <2> QED
    BY <1>8, <2>1, <2>2 DEF DefaultEnd, Placement, StoredByReleaseMode,
      CurrentIsStored, EmergencyIsLoaded, CopiesRespectMode
<1>9. CASE ExtendDeadlineWrite
  <2>1. op'["rmq"] # "extend"
    BY <1>1, <1>9 DEF ExtendDeadlineWrite
  <2>2. timer'["LOADTEMPORARY"] = timer["LOADTEMPORARY"]
    BY <1>2, <1>9 DEF ExtendDeadlineWrite
  <2>3. held["rmq"] # NoJson /\ held["rmq"].prog # Default
    BY <1>9 DEF ExtendDeadlineWrite, Placement, CopiesRespectMode
  <2>4. StoredByReleaseMode'
    BY <1>9, <2>3
    DEF ExtendDeadlineWrite, Placement, StoredByReleaseMode, InPlace, Urgent
  <2> QED
    BY <1>9, <2>1, <2>2, <2>3, <2>4
    DEF ExtendDeadlineWrite, Placement, CurrentIsStored, EmergencyIsLoaded,
        CopiesRespectMode
<1> QED
  BY <1>3, <1>4, <1>5, <1>6, <1>7, <1>8, <1>9 DEF Command

LEMMA PublishPlacement ==
  ASSUME TypeOK, Placement, NEW a \in Actor, Publish(a)
  PROVE  Placement'
<1> USE DEF Begin, Down, programmes, flags, chooser, handlers
<1>1. timer \in [TimerId -> Due] /\ op \in [Actor -> Op] /\ "rmq" \in Actor
  BY DEF TypeOK, Actor
<1>2. op'["rmq"] = "extend" => op["rmq"] = "extend"
  BY <1>1 DEF Publish, SetMode, PublishFetchFails, ParseBegin, ParseThrows,
              PublishParseFails, ParseNewTemplateOfH5, PublishSucceeds,
              PublishReport
<1>3. timer'["LOADTEMPORARY"] = timer["LOADTEMPORARY"]
  BY <1>1 DEF Publish, SetMode, PublishFetchFails, ParseBegin, ParseThrows,
              PublishParseFails, ParseNewTemplateOfH5, PublishSucceeds,
              PublishReport, ChooseSoon, TimerId
<1>4. ASSUME NEW v \in [prog: Program, expired: Deadlines, misread: BOOLEAN],
             ParseNewTemplateOfH5(a, v)
      PROVE  Placement'
  <2>1. v \in Json /\ v # NoJson
    BY ProgramAssumption DEF Json
  <2>2. v.prog # Default
    BY <1>4, ProgramAssumption DEF ParseNewTemplateOfH5, Parsed
  <2>3. StoredByReleaseMode'
    BY <1>4, <2>1, <2>2
    DEF ParseNewTemplateOfH5, Placement, StoredByReleaseMode, InPlace, Urgent
  <2> QED
    BY <1>2, <1>3, <1>4, <2>1, <2>3
    DEF ParseNewTemplateOfH5, Placement, CurrentIsStored, EmergencyIsLoaded,
        CopiesRespectMode
<1>5. CASE \/ SetMode(a) \/ PublishFetchFails(a) \/ ParseBegin(a) \/ ParseThrows(a)
           \/ PublishParseFails(a) \/ PublishSucceeds(a) \/ PublishReport(a)
  BY <1>2, <1>3, <1>5
  DEF SetMode, PublishFetchFails, ParseBegin, ParseThrows, PublishParseFails,
      PublishSucceeds, PublishReport, Placement, StoredByReleaseMode,
      CurrentIsStored, EmergencyIsLoaded, CopiesRespectMode
<1> QED
  BY <1>4, <1>5 DEF Publish

LEMMA TimerPlacement ==
  ASSUME TypeOK, Placement, OnTimer
  PROVE  Placement'
<1> USE DEF Down, programmes, flags, chooser, handlers, Kill
<1>1. /\ timer \in [TimerId -> Due]
      /\ op \in [Actor -> Op]
      /\ clock < Off /\ Off \notin Slot
  BY ProgramAssumption DEF TypeOK, Slot, Off
<1>2. CASE OnLoadTemporary
  <2>1. timer["LOADTEMPORARY"] # Off
    BY <1>1, <1>2, ProgramAssumption DEF OnLoadTemporary, Fires, TypeOK, Slot, Off
  <2>2. timer'["LOADTEMPORARY"] = Off
    BY <1>1, <1>2 DEF OnLoadTemporary, TimerId
  <2> QED
    BY <1>2, <2>1, <2>2
    DEF OnLoadTemporary, Placement, StoredByReleaseMode, CurrentIsStored,
        EmergencyIsLoaded, CopiesRespectMode
<1>3. CASE OnLoadPage \/ OnChooseProgame \/ OnCheckFindsIncomplete
           \/ OnCheckThrows \/ OnCheckEnds
  <2>1. timer'["LOADTEMPORARY"] = timer["LOADTEMPORARY"]
    BY <1>1, <1>3 DEF OnLoadPage, OnChooseProgame, OnCheckFindsIncomplete,
                      OnCheckThrows, OnCheckEnds, TimerId
  <2>2. op'["rmq"] = op["rmq"]
    BY <1>1, <1>3 DEF OnLoadPage, OnChooseProgame, OnCheckFindsIncomplete,
                      OnCheckThrows, OnCheckEnds, Ask, Begin, Actor
  <2> QED
    BY <1>3, <2>1, <2>2, PlacementKept
    DEF OnLoadPage, OnChooseProgame, OnCheckFindsIncomplete, OnCheckThrows,
        OnCheckEnds, placed
<1> QED
  BY <1>2, <1>3 DEF OnTimer

(***************************************************************************)
(* The stored programmes of a start are in their places.                   *)
(***************************************************************************)
LEMMA InitProgrammeInv == Init => ProgrammeInv
<1> SUFFICES ASSUME Init PROVE ProgrammeInv
  OBVIOUS
<1>1. StoredByReleaseMode
  BY ProgramAssumption DEF Init, StoredByReleaseMode
<1>2. jrsp \in {NoJson, jDefault, jTemplate, jTemproary, jOverdue}
  <2>1. CASE TemporaryAccepted
    BY <2>1 DEF Init
  <2>2. CASE ~TemporaryAccepted /\ jTemplate # NoJson
    BY <2>2 DEF Init
  <2>3. CASE ~TemporaryAccepted /\ jTemplate = NoJson
    BY <2>3 DEF Init
  <2> QED
    BY <2>1, <2>2, <2>3
<1>3. timer["LOADTEMPORARY"] = Off /\ op["rmq"] = "idle"
  BY DEF Init, TimerId, Actor
<1>4. ~g_bIsTemproaryOn /\ jTemp = NoJson
  BY DEF Init
<1> QED
  BY <1>1, <1>2, <1>3, <1>4, InitType
  DEF ProgrammeInv, CurrentIsStored, EmergencyIsLoaded, CopiesRespectMode

LEMMA NextProgrammeInv == ProgrammeInv /\ [Next]_vars => ProgrammeInv'
<1> SUFFICES ASSUME ProgrammeInv, [Next]_vars PROVE ProgrammeInv'
  OBVIOUS
<1>1. TypeOK /\ Placement
  BY DEF ProgrammeInv, Placement
<1>2. ASSUME Tick \/ UNCHANGED vars PROVE Placement'
  BY <1>1, <1>2, PlacementKept
  DEF Tick, vars, placed, programmes, flags, chooser, handlers
<1>3. ASSUME RMQThread \/ UIThread PROVE Placement'
  BY <1>1, <1>3, CommandPlacement, PublishPlacement, TimerPlacement
  DEF RMQThread, UIThread, Actor
<1>4. Placement'
  BY <1>1, <1>2, <1>3, ChoosePlacement, CommandPlacement DEF Next
<1> QED
  BY <1>1, <1>4, NextType DEF ProgrammeInv, Placement

(***************************************************************************)
(* The inductive invariant: the programmes in memory, the files, and the   *)
(* copies a pass or ExtendDeadline holds between two steps agree on what   *)
(* is an emergency, an ordinary programme or the default one.              *)
(***************************************************************************)
THEOREM ProgrammesInPlace == Spec => []ProgrammeInv
  BY InitProgrammeInv, NextProgrammeInv, PTL DEF Spec

(***************************************************************************)
(* While the emergency flag is up or an emergency waits for its window,    *)
(* there is an emergency programme to return to, however the commands, the *)
(* retries, the timers and the passes interleave.                          *)
(***************************************************************************)
THEOREM EmergencyAlwaysLoaded == Spec => []EmergencyIsLoaded
<1>1. ProgrammeInv => EmergencyIsLoaded
  BY DEF ProgrammeInv
<1> QED
  BY <1>1, ProgrammesInPlace, PTL

(***************************************************************************)
(* temporary.json gets emergencies only, the default programme is stored   *)
(* nowhere else, and an emergency takes the place of an ordinary programme *)
(* only if a publication on the other thread had it parsed as a list.      *)
(***************************************************************************)
THEOREM AlwaysStoredByReleaseMode == Spec => []StoredByReleaseMode
<1>1. ProgrammeInv => StoredByReleaseMode
  BY DEF ProgrammeInv
<1> QED
  BY <1>1, ProgrammesInPlace, PTL

(***************************************************************************)
(* The current programme is always one of those held by name.              *)
(***************************************************************************)
THEOREM CurrentAlwaysStored == Spec => []CurrentIsStored
<1>1. ProgrammeInv => CurrentIsStored
  BY DEF ProgrammeInv
<1> QED
  BY <1>1, ProgrammesInPlace, PTL

-----------------------------------------------------------------------------
(***************************************************************************)
(* The countdown of a pass.                                                *)
(***************************************************************************)
CountdownInv ==
  /\ TypeOK
  /\ CountdownArmed
  /\ CountdownKept

(***************************************************************************)
(* A step that neither ends a countdown nor moves the pass keeps it.       *)
(***************************************************************************)
LEMMA CountdownUndisturbed ==
  ASSUME CountdownInv, TypeOK',
         \/ timer'["CHOOSEPROGAME"] = timer["CHOOSEPROGAME"]
         \/ timer'["CHOOSEPROGAME"] <= clock',
         clock <= clock',
         during \subseteq during',
         UNCHANGED <<promised, result, choosePc, chooseEvent>>
  PROVE  CountdownArmed' /\ CountdownKept'
<1>1. Slot \subseteq Int /\ Due \subseteq Int
  BY DEF Slot, Due
<1>2. /\ clock \in Int /\ promised \in Int
      /\ timer["CHOOSEPROGAME"] \in Int
  BY <1>1 DEF CountdownInv, TypeOK, TimerId
<1>3. clock' \in Int /\ timer'["CHOOSEPROGAME"] \in Int
  BY <1>1 DEF TypeOK, TimerId
<1>4. ASSUME NEW t \in Int,
             timer["CHOOSEPROGAME"] <= t \/ timer["CHOOSEPROGAME"] <= clock
      PROVE  timer'["CHOOSEPROGAME"] <= t \/ timer'["CHOOSEPROGAME"] <= clock'
  BY <1>2, <1>3, <1>4
<1>5. CountdownArmed'
  BY <1>2, <1>4 DEF CountdownInv, CountdownArmed
<1>6. CountdownKept'
  BY <1>2, <1>4 DEF CountdownInv, CountdownKept, PassPending
<1> QED
  BY <1>5, <1>6

LEMMA DisturbAdds ==
  ASSUME NEW what, Disturb(what)
  PROVE  during \subseteq during'
  BY DEF Disturb

LEMMA CountdownStep ==
  ASSUME CountdownInv, [Next]_vars
  PROVE  CountdownInv'
<1> USE DEF programmes, flags, screen, chooser, handlers, history
<1>1. TypeOK /\ TypeOK'
  BY NextType DEF CountdownInv
<1>2. /\ timer \in [TimerId -> Due]
      /\ Slot \subseteq Int /\ Due \subseteq Int
      /\ clock \in Int
      /\ clock <= clock
  BY <1>1 DEF TypeOK, Slot, Due
<1>3. CASE ChooseWake
  <2>1. CountdownKept' /\ CountdownArmed'
    BY <1>3 DEF ChooseWake, CountdownKept, CountdownArmed, PassPending
  <2> QED
    BY <1>1, <2>1 DEF CountdownInv
<1>4. CASE ChooseDecide
  <2>1. CountdownKept'
    BY <1>4 DEF ChooseDecide, CountdownKept, PassPending
  <2>2. CountdownArmed'
    <3> DEFINE v == Effective(jTemp)
               Armed == result' \in {"page", "wait"} /\ promised' # Off =>
                          \/ timer'["CHOOSEPROGAME"] <= promised'
                          \/ timer'["CHOOSEPROGAME"] <= clock
    <3>1. TypeOK' => promised' \in Int
      BY <1>2 DEF TypeOK
    <3>2. ASSUME NEW page, NEW due, Load(page, due)
          PROVE  timer'["CHOOSEPROGAME"] = promised'
      BY <1>2, <3>2 DEF Load, TimerId
    <3>3. ASSUME NEW page, LoadForGood(page)
          PROVE  promised' = Off
      BY <3>3 DEF LoadForGood
    <3>4. ASSUME PlayAllDay(v) \/ PlayInWindow(v) \/ AwaitWindow(v)
          PROVE  Armed
      BY <1>1, <3>1, <3>2, <3>3, <3>4 DEF PlayAllDay, PlayInWindow, AwaitWindow
    <3>5. CASE DecideNormal(v) \/ DecideEmergency(v)
      BY <1>4, <3>4, <3>5
      DEF DecideNormal, DecideEmergency, CountdownArmed, ChooseDecide
    <3>6. CASE DecideBlocked(v) \/ DecideFrozen(v) \/ DecideEmptyList(v)
      BY <3>6 DEF DecideBlocked, DecideFrozen, DecideEmptyList, LeaveAsIs,
                  CountdownArmed
    <3>7. CASE DecideSwitch(v) \/ DecideItem(v) \/ DecideListWait(v)
      <4>1. promised' = Off \/ timer'["CHOOSEPROGAME"] = promised'
        BY <3>2, <3>3, <3>7 DEF DecideSwitch, DecideItem, DecideListWait
      <4> QED
        BY <1>1, <3>1, <4>1 DEF CountdownArmed
    <3>8. CASE DecideEmergencyWait(v)
      <4>1. timer'["CHOOSEPROGAME"] = clock /\ promised' = clock
        BY <1>2, <3>8 DEF DecideEmergencyWait, TimerId
      <4> QED
        BY <1>2, <4>1 DEF CountdownArmed
    <3> QED
      BY <1>4, <3>5, <3>6, <3>7, <3>8 DEF ChooseDecide, DecideInPlace
  <2> QED
    BY <1>1, <2>1, <2>2 DEF CountdownInv
<1>5. CASE ChooseReset
  <2>1. CountdownKept' /\ CountdownArmed'
    BY <1>5 DEF ChooseReset, CountdownInv, CountdownKept, CountdownArmed,
                PassPending
  <2> QED
    BY <1>1, <2>1 DEF CountdownInv
<1>6. CASE OnChooseProgame
  <2>1. CountdownKept'
    BY <1>6 DEF OnChooseProgame, CountdownKept, PassPending
  <2>2. CountdownArmed'
    BY <1>6 DEF OnChooseProgame, CountdownArmed, Disturb
  <2> QED
    BY <1>1, <2>1, <2>2 DEF CountdownInv
<1>7. CASE Tick
  <2>1. clock <= clock'
    BY <1>2, <1>7 DEF Tick
  <2>2. UNCHANGED <<timer, promised, result, choosePc, chooseEvent, during>>
    BY <1>7 DEF Tick
  <2> QED
    BY <1>1, <2>1, <2>2, CountdownUndisturbed DEF CountdownInv
<1>8. ASSUME UNCHANGED <<clock, promised, result, choosePc, chooseEvent>>,
             \/ timer'["CHOOSEPROGAME"] = timer["CHOOSEPROGAME"]
             \/ timer'["CHOOSEPROGAME"] = clock,
             during \subseteq during'
      PROVE  CountdownInv'
  BY <1>1, <1>2, <1>8, CountdownUndisturbed DEF CountdownInv
<1>9. CASE Down
  BY <1>8, <1>9 DEF Down
<1>10. CASE \E kind \in Kind : PublishBegin(kind)
  BY <1>8, <1>10 DEF PublishBegin
<1>11. CASE \E p \in Program, expired \in Deadlines : ExtendDeadlineRead(p, expired)
  BY <1>8, <1>11 DEF ExtendDeadlineRead
<1>12. CASE \/ DefaultBegin \/ (\E i \in Item : Control(i)) \/ ControlRecovery
            \/ DefaultEnd \/ ExtendDeadlineWrite
  BY <1>2, <1>8, <1>12, DisturbAdds
  DEF DefaultBegin, Control, ControlRecovery, DefaultEnd, ExtendDeadlineWrite,
      ChooseSoon, TimerId
<1>13. CASE \E a \in Actor : Publish(a)
  <2> PICK a \in Actor : Publish(a)
    BY <1>13
  <2>1. CASE SetMode(a) \/ PublishFetchFails(a) \/ ParseBegin(a) \/ PublishParseFails(a)
    BY <1>8, <2>1 DEF SetMode, PublishFetchFails, ParseBegin, PublishParseFails
  <2>2. CASE ParseThrows(a)
    BY <1>9, <2>2 DEF ParseThrows
  <2>3. CASE \E v \in [prog: Program, expired: Deadlines, misread: BOOLEAN] :
               ParseNewTemplateOfH5(a, v)
    BY <1>8, <2>3, DisturbAdds DEF ParseNewTemplateOfH5
  <2>4. CASE PublishSucceeds(a)
    BY <1>2, <1>8, <2>4, DisturbAdds DEF PublishSucceeds, ChooseSoon, TimerId
  <2>5. CASE PublishReport(a)
    BY <1>2, <1>8, <2>5 DEF PublishReport, TimerId
  <2> QED
    BY <2>1, <2>2, <2>3, <2>4, <2>5 DEF Publish
<1>14. CASE OnLoadPage \/ OnCheckFindsIncomplete \/ OnCheckEnds
  BY <1>2, <1>8, <1>14
  DEF OnLoadPage, OnCheckFindsIncomplete, OnCheckEnds, Kill, TimerId
<1>15. CASE OnLoadTemporary
  BY <1>2, <1>8, <1>15, DisturbAdds DEF OnLoadTemporary, TimerId
<1>16. CASE UNCHANGED vars
  BY <1>8, <1>16 DEF vars
<1>17. CASE Command
  BY <1>10, <1>11, <1>12, <1>17 DEF Command
<1>18. CASE RMQThread
  BY <1>12, <1>13, <1>18 DEF RMQThread, Actor
<1>19. CASE UIThread
  BY <1>6, <1>9, <1>13, <1>14, <1>15, <1>19
  DEF UIThread, OnTimer, OnCheckThrows, Actor
<1>20. CASE Choose
  BY <1>3, <1>4, <1>5, <1>9, <1>20 DEF Choose, ChooseThrows
<1> QED
  BY <1>7, <1>16, <1>17, <1>18, <1>19, <1>20 DEF Next

(***************************************************************************)
(* A page that was loaded with an announced end is revised at that end at  *)
(* the latest, whatever commands come and timers fire, and whenever, with  *)
(* one exception: that TIMER_CHOOSEPROGAME fired in the middle of the pass *)
(* that loaded it.                                                         *)
(***************************************************************************)
THEOREM CountdownAlwaysKept == Spec => []CountdownKept
<1>1. Init => CountdownInv
  BY InitType DEF Init, CountdownInv, CountdownArmed, CountdownKept
<1>2. CountdownInv /\ [Next]_vars => CountdownInv'
  BY CountdownStep
<1>3. CountdownInv => CountdownKept
  BY DEF CountdownInv
<1> QED
  BY <1>1, <1>2, <1>3, PTL DEF Spec

-----------------------------------------------------------------------------
(***************************************************************************)
(* The screen at every moment after a pass that nothing came into.         *)
(* The inductive invariant looks at the page that is to be loaded and at   *)
(* the whole time until the countdown ends, not at the screen and now:     *)
(* no step of the player marks the end of a window, only the timer does.   *)
(***************************************************************************)
Ahead ==
  \/ chooseEvent /\ choosePc = "wait"
  \/ choosePc = "decide"
  \/ Changing

ProgrammeReady ==
  timer["CHOOSEPROGAME"] > clock => jrsp # NoJson /\ ~jrsp.expired

PageFitsUntilDue ==
  jrsp # NoJson /\ ~jrsp.expired /\ ~Overruled =>
    \A s \in Slot : clock <= s /\ s < timer["CHOOSEPROGAME"] =>
      Suits(jForIE, jrsp, s) \/ jForIE = g_strItemid

PageShownOrDue ==
  timer["CHOOSEPROGAME"] > clock /\ ~Overruled =>
    timer["LOADPAGE"] <= clock \/ shown = jForIE

CopyIsCurrent == choosePc = "decide" => jTemp = jrsp

ScreenInv ==
  /\ TypeOK
  /\ during = {} =>
       /\ CopyIsCurrent
       /\ Ahead \/ (ProgrammeReady /\ PageFitsUntilDue /\ PageShownOrDue)

(***************************************************************************)
(* What a handler changes during a pass is on record; after a pass that    *)
(* was left in peace the handler finds no pass going on.                   *)
(***************************************************************************)
LEMMA DisturbRecorded ==
  ASSUME NEW what, Disturb(what), during' = {}
  PROVE  choosePc = "wait" /\ during = {}
  BY DEF Disturb

(***************************************************************************)
(* A set of slots has a first one.                                         *)
(***************************************************************************)
LEMMA FirstSlot ==
  ASSUME NEW S \in SUBSET Slot, S # {}
  PROVE  \E x \in S : \A y \in S : x <= y
<1> DEFINE Below == {ss \in Nat \X Nat : ss[1] < ss[2]}
<1>1. IsWellFoundedOn(Below, Nat)
  BY NatLessThanWellFounded, Zenon DEF OpToRel
<1>2. S \subseteq Nat
  BY DEF Slot
<1>3. \A x, y \in S : y < x => <<y, x>> \in Below
  BY <1>2
<1> HIDE DEF Below
<1>4. PICK x \in S : \A y \in S : ~ (<<y, x>> \in Below)
  BY <1>1, <1>2, WFMin
<1>5. \A y \in S : x <= y
  <2> TAKE y \in S
  <2>1. ~ (y < x)
    BY <1>3, <1>4, Zenon
  <2>2. x \in Nat /\ y \in Nat
    BY <1>2, Zenon
  <2> QED
    BY <2>1, <2>2
<1> QED
  BY <1>5

(***************************************************************************)
(* GetWaitTime and GetCloseTime jump over no slot of the set.              *)
(***************************************************************************)
LEMMA NextInIsFirst ==
  ASSUME NEW S \in SUBSET Slot, NEW t \in Slot, NEW s \in S, s > t
  PROVE  NextIn(S, t) <= s
<1> DEFINE Later == {u \in S : u > t}
           IsNext(m) == m \in S /\ m > t /\ \A u \in S : u > t => m <= u
<1>1. PICK m \in Later : \A u \in Later : m <= u
  <2>1. Later \in SUBSET Slot /\ Later # {}
    OBVIOUS
  <2> HIDE DEF Later
  <2> QED
    BY <2>1, FirstSlot
<1>2. m \in Slot /\ IsNext(m)
  BY <1>1
<1>3. NextIn(S, t) = CHOOSE n \in Slot : IsNext(n)
  BY <1>2 DEF NextIn
<1>4. IsNext(CHOOSE n \in Slot : IsNext(n))
  BY <1>2
<1> QED
  BY <1>3, <1>4

(***************************************************************************)
(* Until the slot GetCloseTime answers the page stays inside a window, and *)
(* until the slot GetWaitTime answers none of the slots it waits for comes.*)
(***************************************************************************)
LEMMA InWindowUntilClose ==
  ASSUME NEW page \in Page, NEW t \in Airs[page], NEW s \in Slot,
         t <= s, s < CloseAt(page, t)
  PROVE  s \in Airs[page]
<1>1. Airs[page] \in SUBSET Slot /\ Slot \subseteq Int
  BY ProgramAssumption DEF Slot
<1>2. t \in Slot /\ CloseAt(page, t) \in Int
  BY <1>1, NextInIsDue DEF CloseAt, Due
<1> SUFFICES ASSUME s \notin Airs[page] PROVE FALSE
  OBVIOUS
<1>3. s \in Slot \ Airs[page] /\ s > t
  BY <1>1, <1>2
<1>4. CloseAt(page, t) <= s
  BY <1>2, <1>3, NextInIsFirst DEF CloseAt
<1> QED
  BY <1>1, <1>2, <1>4

LEMMA NoneUntilWait ==
  ASSUME NEW S \in SUBSET Slot, NEW t \in Slot, t \notin S, NEW s \in Slot,
         t <= s, s < WaitUntil(S, t)
  PROVE  s \notin S
<1>1. Slot \subseteq Int /\ WaitUntil(S, t) \in Int
  BY NextInIsDue DEF WaitUntil, Due, Slot
<1> SUFFICES ASSUME s \in S PROVE FALSE
  OBVIOUS
<1>2. s > t
  BY <1>1
<1>3. WaitUntil(S, t) <= s
  BY <1>2, NextInIsFirst DEF WaitUntil
<1> QED
  BY <1>1, <1>3

(***************************************************************************)
(* What a pass loads suits its programme until the pass the countdown asks *)
(* for: a single programme inside or outside its windows, ...              *)
(***************************************************************************)
LEMMA LoadDue ==
  ASSUME TypeOK, NEW page, NEW due, Load(page, due)
  PROVE  /\ jForIE' = page
         /\ timer'["CHOOSEPROGAME"] = due
         /\ timer'["LOADPAGE"] = clock
  BY DEF TypeOK, TimerId, Load

LEMMA LoadForGoodDue ==
  ASSUME TypeOK, NEW page, LoadForGood(page)
  PROVE  /\ jForIE' = page
         /\ timer'["LOADPAGE"] = clock
  BY DEF TypeOK, TimerId, LoadForGood

LEMMA SinglePageFits ==
  ASSUME TypeOK, NEW v \in Json, v.prog \in Single,
         PlayAllDay(v) \/ PlayInWindow(v) \/ AwaitWindow(v)
  PROVE  /\ timer'["LOADPAGE"] = clock
         /\ \A s \in Slot : clock <= s /\ s < timer'["CHOOSEPROGAME"] =>
              Suits(jForIE', v, s)
<1>1. v.prog \in Page /\ Airs[v.prog] \in SUBSET Slot /\ clock \in Slot
  BY ProgramAssumption DEF TypeOK, Page
<1>2. CASE PlayAllDay(v)
  BY <1>2, LoadForGoodDue DEF PlayAllDay, Suits, Scheduled
<1>3. CASE PlayInWindow(v)
  <2>1. /\ jForIE' = v.prog
        /\ timer'["CHOOSEPROGAME"] = CloseAt(v.prog, clock)
        /\ timer'["LOADPAGE"] = clock
    BY <1>3, LoadDue DEF PlayInWindow
  <2>2. \A s \in Slot : clock <= s /\ s < CloseAt(v.prog, clock) =>
          s \in Airs[v.prog]
    BY <1>1, <1>3, InWindowUntilClose DEF PlayInWindow
  <2> QED
    BY <2>1, <2>2 DEF Suits, Scheduled
<1>4. CASE AwaitWindow(v)
  <2>1. /\ jForIE' = Default
        /\ timer'["CHOOSEPROGAME"] = WaitUntil(Airs[v.prog], clock)
        /\ timer'["LOADPAGE"] = clock
    BY <1>4, LoadDue DEF AwaitWindow
  <2>2. \A s \in Slot : clock <= s /\ s < WaitUntil(Airs[v.prog], clock) =>
          s \notin Airs[v.prog]
    BY <1>1, <1>4, NoneUntilWait DEF AwaitWindow
  <2>3. v.prog \notin AllDay
    BY <1>4 DEF AwaitWindow
  <2> QED
    BY <2>1, <2>2, <2>3 DEF Suits, Scheduled
<1> QED
  BY <1>2, <1>3, <1>4

(***************************************************************************)
(* ... an item of a list, ...                                              *)
(***************************************************************************)
LEMMA ItemPageFits ==
  ASSUME TypeOK, NEW v \in Json, DecideItem(v)
  PROVE  /\ timer'["LOADPAGE"] = clock
         /\ \A s \in Slot : clock <= s /\ s < timer'["CHOOSEPROGAME"] =>
              Suits(jForIE', v, s)
<1>1. PICK i \in DOMAIN Items[v.prog] :
        /\ clock \in Airs[Items[v.prog][i]]
        /\ Load(Items[v.prog][i], CloseAt(Items[v.prog][i], clock))
  BY DEF DecideItem
<1> DEFINE page == Items[v.prog][i]
<1>2. v.prog \in List
  BY DEF DecideItem
<1>3. page \in Page /\ page \in ItemsOf(v)
  BY <1>2, ItemIsPage DEF ItemsOf
<1>4. /\ jForIE' = page
      /\ timer'["CHOOSEPROGAME"] = CloseAt(page, clock)
      /\ timer'["LOADPAGE"] = clock
  BY <1>1, LoadDue
<1>5. \A s \in Slot : clock <= s /\ s < CloseAt(page, clock) => s \in Airs[page]
  BY <1>1, <1>3, InWindowUntilClose
<1> HIDE DEF page
<1> QED
  BY <1>2, <1>3, <1>4, <1>5 DEF Suits, Airing

(***************************************************************************)
(* ... and the default page while no item of a list is on.                 *)
(***************************************************************************)
LEMMA ListWaitPageFits ==
  ASSUME TypeOK, NEW v \in Json, DecideListWait(v)
  PROVE  /\ timer'["LOADPAGE"] = clock
         /\ \A s \in Slot : clock <= s /\ s < timer'["CHOOSEPROGAME"] =>
              Suits(jForIE', v, s)
<1> DEFINE slots == UNION {Airs[i] : i \in ItemsOf(v)}
           next == WaitUntil(slots, clock)
<1>1. v.prog \in List /\ \A i \in ItemsOf(v) : clock \notin Airs[i]
  BY DEF DecideListWait
<1>2. ItemsOf(v) \subseteq Page
  BY <1>1, ItemIsPage DEF ItemsOf
<1>3. slots \in SUBSET Slot /\ clock \notin slots /\ clock \in Slot
  BY <1>1, <1>2, ProgramAssumption DEF TypeOK
<1>4. \A s \in Slot : clock <= s /\ s < next => s \notin slots
  BY <1>3, NoneUntilWait
<1>5. \A s \in Slot : s < Never
  BY ProgramAssumption DEF Slot, Never
<1>6. /\ jForIE' = Default
      /\ timer'["LOADPAGE"] = clock
      /\ timer'["CHOOSEPROGAME"] = next \/ next = Never
  BY LoadDue, LoadForGoodDue DEF DecideListWait
<1>7. \A s \in Slot : clock <= s /\ s < timer'["CHOOSEPROGAME"] => s \notin slots
  BY <1>4, <1>5, <1>6
<1>8. \A s \in Slot : s \notin slots => Airing(v, s) = {}
  BY DEF Airing
<1> HIDE DEF slots, next
<1> QED
  BY <1>1, <1>6, <1>7, <1>8 DEF Suits

(***************************************************************************)
(* A pass leaves a page that suits what has become the current programme.  *)
(***************************************************************************)
LEMMA DecideFits ==
  ASSUME TypeOK, CopyIsCurrent, ChooseDecide
  PROVE  ProgrammeReady' /\ PageFitsUntilDue' /\ PageShownOrDue'
<1> DEFINE v == Effective(jTemp)
<1>1. v \in Json /\ v # NoJson /\ ~v.expired
  BY EffectiveValue, ProgramAssumption
  DEF TypeOK, Effective, Fallback, jDefault
<1>2. clock' = clock /\ clock \in Int /\ clock <= clock
  BY DEF ChooseDecide, TypeOK, Slot
<1>3. CASE DecideEmergencyWait(v)
  <2>1. timer'["CHOOSEPROGAME"] = clock
    BY <1>3 DEF DecideEmergencyWait, TypeOK, TimerId
  <2>2. \A s \in Slot : ~ (clock <= s /\ s < clock)
    BY <1>2 DEF Slot
  <2>3. ~ (clock > clock)
    BY <1>2
  <2> QED
    BY <1>2, <2>1, <2>2, <2>3
    DEF ProgrammeReady, PageFitsUntilDue, PageShownOrDue
<1>4. CASE DecideInPlace(v) /\ jrsp' = IF Fallback(jTemp) THEN jDefault ELSE jrsp
  <2>1. jrsp' = v
    BY <1>4 DEF ChooseDecide, CopyIsCurrent, Effective
  <2>2. ProgrammeReady'
    BY <1>1, <2>1 DEF ProgrammeReady
  <2> DEFINE Fits == /\ timer'["LOADPAGE"] = clock
                     /\ \A s \in Slot :
                          clock <= s /\ s < timer'["CHOOSEPROGAME"] =>
                            Suits(jForIE', v, s) \/ jForIE' = g_strItemid'
  <2>3. ASSUME Fits PROVE PageFitsUntilDue' /\ PageShownOrDue'
    BY <1>2, <2>1, <2>3 DEF PageFitsUntilDue, PageShownOrDue
  <2>4. ASSUME Overruled' PROVE PageFitsUntilDue' /\ PageShownOrDue'
    BY <2>4 DEF PageFitsUntilDue, PageShownOrDue
  <2>5. ASSUME DecideNormal(v) PROVE Fits
    BY <1>1, <2>5, SinglePageFits DEF DecideNormal
  <2>6. ASSUME DecideEmergency(v) PROVE Fits
    <3>1. v.prog \in Single
      BY <2>6, ProgramAssumption DEF DecideEmergency
    <3> QED
      BY <1>1, <2>6, <3>1, SinglePageFits DEF DecideEmergency
  <2>7. ASSUME DecideSwitch(v) PROVE Fits
    BY <2>7, LoadForGoodDue DEF DecideSwitch
  <2>8. ASSUME DecideItem(v) PROVE Fits
    BY <1>1, <2>8, ItemPageFits
  <2>9. ASSUME DecideListWait(v) PROVE Fits
    BY <1>1, <2>9, ListWaitPageFits
  <2>10. ASSUME DecideBlocked(v) \/ DecideFrozen(v) \/ DecideEmptyList(v)
         PROVE  Overruled'
    BY <2>1, <2>10
    DEF DecideBlocked, DecideFrozen, DecideEmptyList, Overruled, flags
  <2> HIDE DEF v, Fits
  <2>11. DecideInPlace(v) => Fits \/ Overruled'
    BY <2>5, <2>6, <2>7, <2>8, <2>9, <2>10 DEF DecideInPlace
  <2> QED
    BY <1>4, <2>2, <2>3, <2>4, <2>11
<1> QED
  BY <1>3, <1>4 DEF ChooseDecide

(***************************************************************************)
(* The steps of the others, in four kinds: some ask for a pass at once,    *)
(* after some the screen is expected to change, ...                        *)
(***************************************************************************)
LEMMA PassAsked ==
  ASSUME TypeOK, timer'["CHOOSEPROGAME"] = clock, clock' = clock
  PROVE  ProgrammeReady' /\ PageFitsUntilDue' /\ PageShownOrDue'
<1>1. clock \in Int
  BY DEF TypeOK, Slot
<1>2. ~ (clock > clock) /\ \A s \in Slot : ~ (clock <= s /\ s < clock)
  BY <1>1 DEF Slot
<1> QED
  BY <1>2 DEF ProgrammeReady, PageFitsUntilDue, PageShownOrDue

LEMMA HandlerAsksForPass ==
  ASSUME TypeOK, TypeOK', ChooseSoon, Disturb("change"),
         UNCHANGED <<choosePc, clock>>
  PROVE  ScreenInv'
<1>1. timer'["CHOOSEPROGAME"] = clock
  BY DEF ChooseSoon, TypeOK, TimerId
<1>2. during' = {} => CopyIsCurrent'
  BY DisturbRecorded DEF CopyIsCurrent
<1> QED
  BY <1>1, <1>2, PassAsked DEF ScreenInv

(***************************************************************************)
(* ... some touch nothing of it, although time may pass, ...               *)
(***************************************************************************)
LEMMA ScreenUndisturbed ==
  ASSUME ScreenInv, TypeOK',
         UNCHANGED <<jrsp, flags, screen, chooser, during>>,
         timer'["CHOOSEPROGAME"] = timer["CHOOSEPROGAME"],
         timer'["LOADPAGE"] = timer["LOADPAGE"],
         clock <= clock',
         Changing => Changing'
  PROVE  ScreenInv'
<1> DEFINE C == timer["CHOOSEPROGAME"]
           L == timer["LOADPAGE"]
<1>1. /\ clock \in Int /\ clock' \in Int /\ C \in Int /\ L \in Int
      /\ Slot \subseteq Int
  BY DEF ScreenInv, TypeOK, TimerId, Slot, Due
<1>2. UNCHANGED <<jForIE, shown, g_strItemid, chooseEvent, choosePc, jTemp>>
  BY DEF screen, flags, chooser
<1>3. (CopyIsCurrent => CopyIsCurrent') /\ (Ahead => Ahead')
  BY <1>2 DEF CopyIsCurrent, Ahead
<1>4. Overruled' <=> Overruled
  BY DEF Overruled, flags
<1>5. ASSUME ProgrammeReady PROVE ProgrammeReady'
  <2>1. C > clock' => C > clock
    BY <1>1
  <2> QED
    BY <1>5, <2>1 DEF ProgrammeReady
<1>6. ASSUME PageFitsUntilDue PROVE PageFitsUntilDue'
  <2>1. \A s \in Slot : clock' <= s => clock <= s
    BY <1>1
  <2> QED
    BY <1>2, <1>4, <1>6, <2>1 DEF PageFitsUntilDue
<1>7. ASSUME PageShownOrDue PROVE PageShownOrDue'
  <2>1. (C > clock' => C > clock) /\ (L <= clock => L <= clock')
    BY <1>1
  <2> QED
    BY <1>2, <1>4, <1>7, <2>1 DEF PageShownOrDue
<1> QED
  BY <1>3, <1>5, <1>6, <1>7 DEF ScreenInv

LEMMA ScreenStands ==
  ASSUME ScreenInv, TypeOK',
         UNCHANGED <<jrsp, flags, screen, timer, chooser, clock, during>>,
         Changing => Changing'
  PROVE  ScreenInv'
<1>1. clock <= clock'
  BY DEF ScreenInv, TypeOK, Slot
<1> QED
  BY <1>1, ScreenUndisturbed

LEMMA OthersGoOn ==
  ASSUME TypeOK, NEW a \in Actor, NEW o \in Op \ {"publish", "default"},
         op[a] \notin {"publish", "default"}, Begin(a, o)
  PROVE  Changing => Changing'
  BY DEF TypeOK, Begin, Changing

(***************************************************************************)
(* ... and one brings the page to the screen.                              *)
(***************************************************************************)
LEMMA PageArrives ==
  ASSUME ScreenInv, TypeOK', OnLoadPage
  PROVE  ScreenInv'
<1> USE DEF programmes, flags, chooser, handlers
<1>1. timer'["CHOOSEPROGAME"] = timer["CHOOSEPROGAME"]
  BY DEF OnLoadPage, Kill, ScreenInv, TypeOK, TimerId
<1>2. /\ UNCHANGED <<jrsp, flags, jForIE, chooser, op, clock, during>>
      /\ shown' = jForIE'
  BY DEF OnLoadPage, history
<1>3. Ahead => Ahead'
  BY <1>2 DEF Ahead, Changing
<1>4. CopyIsCurrent => CopyIsCurrent'
  BY <1>2 DEF CopyIsCurrent
<1>5. ProgrammeReady => ProgrammeReady'
  BY <1>1, <1>2 DEF ProgrammeReady
<1>6. PageFitsUntilDue => PageFitsUntilDue'
  <2>1. Overruled' <=> Overruled
    BY <1>2 DEF Overruled
  <2> QED
    BY <1>1, <1>2, <2>1 DEF PageFitsUntilDue
<1>7. PageShownOrDue'
  BY <1>2 DEF PageShownOrDue
<1> QED
  BY <1>2, <1>3, <1>4, <1>5, <1>6, <1>7 DEF ScreenInv

LEMMA DownScreen ==
  ASSUME ScreenInv, TypeOK', Down
  PROVE  ScreenInv'
<1>1. UNCHANGED <<jrsp, flags, screen, timer, chooser, clock, during, op>>
  BY DEF Down, programmes, history, handlers
<1>2. Changing => Changing'
  BY <1>1 DEF Changing
<1> QED
  BY <1>1, <1>2, ScreenStands

LEMMA PassScreen ==
  ASSUME ScreenInv, TypeOK', Choose
  PROVE  ScreenInv'
<1> USE DEF programmes, flags, screen, handlers
<1>1. CASE ChooseWake
  BY <1>1 DEF ChooseWake, ScreenInv, CopyIsCurrent, Ahead
<1>2. CASE ChooseDecide
  <2>1. CopyIsCurrent' /\ during' = during
    BY <1>2 DEF ChooseDecide, CopyIsCurrent
  <2> QED
    BY <1>2, <2>1, DecideFits DEF ScreenInv
<1>3. CASE ChooseReset
  <2>1. Ahead => Ahead'
    BY <1>3 DEF ChooseReset, Ahead, Changing
  <2>2. CopyIsCurrent'
    BY <1>3 DEF ChooseReset, CopyIsCurrent
  <2>3. UNCHANGED <<jrsp, flags, screen, timer, clock, during>>
    BY <1>3 DEF ChooseReset, history
  <2>4. /\ ProgrammeReady => ProgrammeReady'
        /\ PageFitsUntilDue => PageFitsUntilDue'
        /\ PageShownOrDue => PageShownOrDue'
    BY <2>3 DEF ProgrammeReady, PageFitsUntilDue, PageShownOrDue, Overruled
  <2> QED
    BY <2>1, <2>2, <2>3, <2>4 DEF ScreenInv
<1>4. CASE ChooseThrows
  BY <1>4, DownScreen DEF ChooseThrows
<1> QED
  BY <1>1, <1>2, <1>3, <1>4 DEF Choose

LEMMA CommandScreen ==
  ASSUME ScreenInv, TypeOK', Command \/ DefaultEnd \/ ExtendDeadlineWrite
  PROVE  ScreenInv'
<1> USE DEF programmes, screen, chooser, history
<1>1. TypeOK /\ "rmq" \in Actor
  BY DEF ScreenInv, TypeOK, Actor
<1>2. ASSUME NEW kind \in Kind, PublishBegin(kind)
      PROVE  ScreenInv'
  <2>1. Changing => Changing'
    BY <1>1, <1>2, OthersGoOn DEF PublishBegin, Ask, Receive, Op
  <2> QED
    BY <1>2, <2>1, ScreenStands DEF PublishBegin
<1>3. CASE DefaultBegin
  <2>1. op'["rmq"] = "default"
    BY <1>1, <1>3 DEF DefaultBegin, Begin, TypeOK
  <2>2. during' = {} => CopyIsCurrent'
    BY <1>3, DisturbRecorded DEF DefaultBegin, CopyIsCurrent
  <2> QED
    BY <1>1, <2>1, <2>2 DEF ScreenInv, Ahead, Changing
<1>4. ASSUME NEW p \in Program, NEW expired \in Deadlines,
             ExtendDeadlineRead(p, expired)
      PROVE  ScreenInv'
  <2>1. Changing => Changing'
    BY <1>1, <1>4, OthersGoOn DEF ExtendDeadlineRead, Receive, Op
  <2> QED
    BY <1>4, <2>1, ScreenStands DEF ExtendDeadlineRead
<1>5. ASSUME \/ \E i \in Item : Control(i)
             \/ ControlRecovery \/ DefaultEnd \/ ExtendDeadlineWrite
      PROVE  ScreenInv'
  BY <1>1, <1>5, HandlerAsksForPass
  DEF Control, ControlRecovery, DefaultEnd, ExtendDeadlineWrite
<1> QED
  BY <1>2, <1>3, <1>4, <1>5 DEF Command

LEMMA PublishScreen ==
  ASSUME ScreenInv, TypeOK', NEW a \in Actor, Publish(a)
  PROVE  ScreenInv'
<1> USE DEF programmes, screen, chooser, history
<1>1. TypeOK /\ clock <= clock
  BY DEF ScreenInv, TypeOK, Slot
<1>2. CASE SetMode(a) \/ PublishFetchFails(a) \/ ParseBegin(a) \/ PublishParseFails(a)
  <2>1. Changing => Changing'
    BY <1>1, <1>2, OthersGoOn
    DEF SetMode, PublishFetchFails, ParseBegin, PublishParseFails, Publishing, Op
  <2>2. UNCHANGED <<jrsp, flags, screen, timer, chooser, clock, during>>
    BY <1>2 DEF SetMode, PublishFetchFails, ParseBegin, PublishParseFails
  <2> QED
    BY <2>1, <2>2, ScreenStands
<1>3. CASE ParseThrows(a)
  BY <1>3, DownScreen DEF ParseThrows
<1>4. ASSUME NEW v \in [prog: Program, expired: Deadlines, misread: BOOLEAN],
             ParseNewTemplateOfH5(a, v)
      PROVE  ScreenInv'
  <2>1. op'[a] = "publish"
    BY <1>1, <1>4 DEF ParseNewTemplateOfH5, Begin, TypeOK
  <2>2. during' = {} => CopyIsCurrent'
    BY <1>4, DisturbRecorded DEF ParseNewTemplateOfH5, CopyIsCurrent
  <2> QED
    BY <2>1, <2>2 DEF ScreenInv, Ahead, Changing
<1>5. CASE PublishSucceeds(a)
  BY <1>1, <1>5, HandlerAsksForPass DEF PublishSucceeds
<1>6. CASE PublishReport(a)
  <2>1. Changing => Changing'
    BY <1>1, <1>6, OthersGoOn DEF PublishReport, Publishing, Op
  <2>2. /\ timer'["CHOOSEPROGAME"] = timer["CHOOSEPROGAME"]
        /\ timer'["LOADPAGE"] = timer["LOADPAGE"]
    BY <1>1, <1>6 DEF PublishReport, TypeOK, TimerId
  <2> QED
    BY <1>1, <1>6, <2>1, <2>2, ScreenUndisturbed DEF PublishReport
<1> QED
  BY <1>2, <1>3, <1>4, <1>5, <1>6 DEF Publish

LEMMA TimerScreen ==
  ASSUME ScreenInv, TypeOK', OnTimer
  PROVE  ScreenInv'
<1> USE DEF programmes, screen, chooser, history
<1>1. TypeOK /\ clock <= clock /\ "ui" \in Actor
  BY DEF ScreenInv, TypeOK, Slot, Actor
<1>2. CASE OnChooseProgame
  <2>1. ASSUME during' = {} PROVE choosePc' = "wait" /\ chooseEvent'
    BY <1>2, <2>1, DisturbRecorded DEF OnChooseProgame
  <2> QED
    BY <2>1 DEF ScreenInv, CopyIsCurrent, Ahead
<1>3. CASE OnLoadTemporary
  <2>1. timer'["CHOOSEPROGAME"] = clock /\ clock' = clock
    BY <1>1, <1>3 DEF OnLoadTemporary, TypeOK, TimerId
  <2>2. during' = {} => CopyIsCurrent'
    BY <1>3, DisturbRecorded DEF OnLoadTemporary, CopyIsCurrent
  <2> QED
    BY <1>1, <2>1, <2>2, PassAsked DEF ScreenInv
<1>4. CASE OnCheckFindsIncomplete \/ OnCheckEnds
  <2>1. Changing => Changing'
    <3>1. CASE OnCheckFindsIncomplete
      BY <1>1, <3>1, OthersGoOn
      DEF OnCheckFindsIncomplete, CheckIncompleted, Fires, Ask, Op
    <3>2. CASE OnCheckEnds
      BY <3>2 DEF OnCheckEnds, Changing
    <3> QED
      BY <1>4, <3>1, <3>2
  <2>2. /\ timer'["CHOOSEPROGAME"] = timer["CHOOSEPROGAME"]
        /\ timer'["LOADPAGE"] = timer["LOADPAGE"]
    BY <1>1, <1>4
    DEF OnCheckFindsIncomplete, OnCheckEnds, Kill, TypeOK, TimerId
  <2>3. UNCHANGED <<jrsp, flags, screen, chooser, clock, during>>
    BY <1>4 DEF OnCheckFindsIncomplete, OnCheckEnds
  <2> QED
    BY <1>1, <2>1, <2>2, <2>3, ScreenUndisturbed
<1>5. CASE OnCheckThrows
  BY <1>5, DownScreen DEF OnCheckThrows
<1> QED
  BY <1>2, <1>3, <1>4, <1>5, PageArrives DEF OnTimer

LEMMA ScreenStep ==
  ASSUME ScreenInv, [Next]_vars
  PROVE  ScreenInv'
<1>1. TypeOK /\ TypeOK' /\ clock \in Int
  BY NextType DEF ScreenInv, TypeOK, Slot
<1>2. CASE Tick \/ UNCHANGED vars
  <2>1. clock <= clock'
    BY <1>1, <1>2 DEF Tick, vars
  <2>2. UNCHANGED <<jrsp, flags, screen, timer, chooser, op, during>>
    BY <1>2 DEF Tick, vars, programmes, handlers, history
  <2>3. Changing => Changing'
    BY <2>2 DEF Changing
  <2> QED
    BY <1>1, <2>1, <2>2, <2>3, ScreenUndisturbed
<1>3. CASE RMQThread \/ UIThread
  BY <1>1, <1>3, CommandScreen, PublishScreen, TimerScreen
  DEF RMQThread, UIThread, Actor
<1> QED
  BY <1>1, <1>2, <1>3, PassScreen, CommandScreen DEF Next

(***************************************************************************)
(* After every pass in the middle of which nothing came, at every moment   *)
(* at which no other pass and no page is on its way, the screen shows a    *)
(* page that the current programme has for that moment, or the item of a   *)
(* CONTROL.  Commands and timers may come at any point of any pass.        *)
(***************************************************************************)
THEOREM ScreenAlwaysSuits == Spec => []ScreenSuitsProgramme
<1>1. Init => ScreenInv
  <2> SUFFICES ASSUME Init PROVE ScreenInv
    OBVIOUS
  <2>1. timer["CHOOSEPROGAME"] = clock /\ ~ (clock > clock)
    BY DEF Init, TimerId
  <2>2. \A s \in Slot : ~ (clock <= s /\ s < clock)
    BY DEF Init, Slot
  <2> QED
    BY <2>1, <2>2, InitType
    DEF Init, ScreenInv, CopyIsCurrent, ProgrammeReady, PageFitsUntilDue,
        PageShownOrDue
<1>2. ScreenInv /\ [Next]_vars => ScreenInv'
  BY ScreenStep
<1>3. ScreenInv => ScreenSuitsProgramme
  <2> SUFFICES ASSUME ScreenInv, during = {}, ~PassPending(clock), ~Changing
               PROVE  /\ jrsp # NoJson
                      /\ ~jrsp.expired
                      /\ timer["LOADPAGE"] > clock /\ ~Overruled =>
                           Suits(shown, jrsp, clock) \/ shown = g_strItemid
    BY DEF ScreenSuitsProgramme
  <2>1. clock \in Slot /\ clock \in Int
    BY DEF ScreenInv, TypeOK, Slot
  <2>2. /\ timer["CHOOSEPROGAME"] \in Int
        /\ timer["LOADPAGE"] \in Int
    BY DEF ScreenInv, TypeOK, TimerId, Due
  <2>3. timer["CHOOSEPROGAME"] > clock /\ ~Ahead
    BY <2>1, <2>2 DEF PassPending, Ahead
  <2>4. jrsp # NoJson /\ ~jrsp.expired
    BY <2>3 DEF ScreenInv, ProgrammeReady
  <2>5. ASSUME timer["LOADPAGE"] > clock, ~Overruled
        PROVE  Suits(shown, jrsp, clock) \/ shown = g_strItemid
    <3>1. shown = jForIE
      <4>1. ~ (timer["LOADPAGE"] <= clock)
        BY <2>1, <2>2, <2>5
      <4> QED
        BY <2>3, <2>5, <4>1 DEF ScreenInv, PageShownOrDue
    <3>2. clock <= clock /\ clock < timer["CHOOSEPROGAME"]
      BY <2>1, <2>2, <2>3
    <3> QED
      BY <2>1, <2>3, <2>4, <2>5, <3>1, <3>2 DEF ScreenInv, PageFitsUntilDue
  <2> QED
    BY <2>4, <2>5
<1> QED
  BY <1>1, <1>2, <1>3, PTL DEF Spec

=============================================================================
