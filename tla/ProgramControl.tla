--------------------------- MODULE ProgramControl ---------------------------
(***************************************************************************)
(* How the player decides what is on the screen (WeChatPrinterDlg.cpp).    *)
(*                                                                         *)
(* Three threads share, without a lock, the programmes held as JSON        *)
(* (jDefault, jTemplate, jTemproary, jOverdue and the current one, jrsp),  *)
(* the flags g_bIsTemproaryOn and bUnderSwitchMode, g_strItemid, the page  *)
(* to load (jForIE), and the one-shot timers of the dialog:                *)
(*   - the RMQ thread runs RMQ_DealCustomMsg for each platform command;    *)
(*   - the UI thread runs OnTimer, and through CheckIncompleted it may     *)
(*     itself run the PUBLISH branch of RMQ_DealCustomMsg;                 *)
(*   - the ChooseProgram thread runs one pass each time its event is set.  *)
(* Commands and timers may come at any point of a pass.  A step is a       *)
(* stretch of code with no call that blocks and no read of shared state    *)
(* that an earlier step has already read.                                  *)
(*                                                                         *)
(* Time is the day divided into slots.  A delay shorter than a slot (10 ms,*)
(* 1 s, DELAY_TIME) ends in the slot it starts in.  The process restarts   *)
(* when the date changes (GetSystemMemoryInfo), so one day is all there is.*)
(***************************************************************************)
EXTENDS Integers, Sequences

CONSTANTS
  Program,         \* programmes: single ones (ITEM) and lists (ITEMLIST)
  List,            \* the lists among them
  Item,            \* the items of the lists
  Items,           \* Items[l]: the items of list l, in order
  Emergency,       \* single programmes with releasemode TEMPORARY_JSON
  AllDay,          \* single programmes with playmode PLAY_ALLDAY
  Default,         \* the programme of template/default.json
  Airs,            \* Airs[g]: the slots in which page g is inside a window
  NoRollover,      \* lists repeated by weekday or by date
  NoJson,          \* json "": no programme
  NoItem,          \* CString "": no item id
  NoPage,          \* nothing to show yet
  LastSlot,        \* the last slot of the day
  Deadlines,       \* possible answers of CheckTimeLimit for a new deadline
  Commands,        \* the platform commands that may arrive
  MaxCalls,        \* how often RMQ_DealCustomMsg is called: for commands that
                   \* arrive, and when CheckIncompleted finds *.download
  Published,       \* the programmes the platform answers with
  Stored           \* what the files of programmes may hold at the start

Slot  == 0..LastSlot
Never == LastSlot + 1       \* due tomorrow, after the restart
Off   == LastSlot + 2       \* not armed
Due   == 0..Off

Single   == Program \ List
Page     == Single \cup Item
Showable == Page \cup {NoPage}

\* misread: a single programme that was parsed as a list, and has a datalist
\* (null) beside the data of a single one since
Json     == [prog: Program, expired: BOOLEAN, misread: BOOLEAN]
jDefault == [prog |-> Default, expired |-> FALSE, misread |-> FALSE]

\* An emergency, in the eyes of everything that looks for a datalist first
Urgent(v) == v.prog \in Emergency /\ ~v.misread

\* Every programme has the place that its release mode, or the lack of one
\* that was read, gives it.
InPlace(template, overdue, temporary) ==
  /\ temporary # NoJson => temporary.prog \in Emergency
  /\ \A v \in {template, overdue} \ {NoJson} : ~Urgent(v) /\ v.prog # Default

ASSUME ProgramAssumption ==
  /\ List \subseteq Program
  /\ Items \in [List -> Seq(Item)]
  /\ Default \in AllDay \ Emergency
  /\ AllDay \subseteq Single
  /\ Emergency \subseteq Single
  /\ Airs \in [Page -> SUBSET Slot]
  /\ NoRollover \subseteq List
  /\ NoJson \notin Json
  /\ NoItem \notin Item
  /\ NoPage \notin Page
  /\ LastSlot \in Nat
  /\ Deadlines \subseteq BOOLEAN
  /\ Commands \subseteq {"PUBLISH", "DEFAULT", "EXCHANGETIME", "CONTROL",
                         "CONTROLRECOVERY"}
  /\ MaxCalls \in Nat
  /\ Published \subseteq Program \ {Default}
  /\ Stored \subseteq [{"jTemplate", "jOverdue", "jTemproary"} -> Json \cup {NoJson}]
  /\ \A s \in Stored : InPlace(s["jTemplate"], s["jOverdue"], s["jTemproary"])

TimerId == {"LOADPAGE", "CHOOSEPROGAME", "LOADTEMPORARY", "CHECKINCOMPELEDFILE"}
Actor   == {"rmq", "ui"}
Kind    == {"ITEM", "ITEMLIST"}      \* SINGLEPROGRAM and MULITIPLEPROGRAM
Op      == {"idle", "askItem", "askList", "fetchItem", "fetchList",
            "parseItem", "parseList", "publish", "report", "default", "extend"}

VARIABLES
  jrsp, jTemplate, jTemproary, jOverdue,
  jForIE,              \* the page LoadTemplate will send to the browser
  shown,               \* the page the browser shows
  g_bIsTemproaryOn,    \* emergency on the air
  bUnderSwitchMode,    \* a CONTROL command has not been carried out yet
  g_strItemid,         \* the item of the last CONTROL command
  timer,               \* timer[i]: the slot in which one-shot timer i is due
  chooseEvent,         \* m_hChooseProgramEvent is signalled
  choosePc, jTemp,     \* the ChooseProgram thread and its local copy of jrsp
  op, held,            \* what each actor is in the middle of; what it read
  m_nMode,             \* the kind of programme that is published, one for both
  nCheckTimes,         \* retries made by CheckIncompleted
  clock,               \* the current slot
  calls,               \* of RMQ_DealCustomMsg, bounded by MaxCalls
  up,                  \* no exception has ended the process
  promised, result,    \* history: the outcome of the last pass, and when the
                       \* last pass that loaded a page is to be revised
  during               \* history: what came in the middle of the last pass

programmes == <<jrsp, jTemplate, jTemproary, jOverdue>>
flags      == <<g_bIsTemproaryOn, bUnderSwitchMode, g_strItemid>>
screen     == <<jForIE, shown>>
chooser    == <<chooseEvent, choosePc, jTemp>>
handlers   == <<op, held, m_nMode, nCheckTimes, calls>>
history    == <<promised, result, during>>

vars == <<programmes, flags, screen, timer, chooser, handlers, clock, up,
          history>>

TypeOK ==
  /\ jrsp \in Json \cup {NoJson}
  /\ jTemplate \in Json \cup {NoJson}
  /\ jTemproary \in Json \cup {NoJson}
  /\ jOverdue \in Json \cup {NoJson}
  /\ jForIE \in Showable
  /\ shown \in Showable
  /\ g_bIsTemproaryOn \in BOOLEAN
  /\ bUnderSwitchMode \in BOOLEAN
  /\ g_strItemid \in Item \cup {NoItem}
  /\ timer \in [TimerId -> Due]
  /\ chooseEvent \in BOOLEAN
  /\ choosePc \in {"wait", "decide", "reset"}
  /\ jTemp \in Json \cup {NoJson}
  /\ op \in [Actor -> Op]
  /\ held \in [Actor -> Json \cup {NoJson}]
  /\ m_nMode \in Kind \cup {"none"}
  /\ nCheckTimes \in 0..3
  /\ clock \in Slot
  /\ calls \in 0..MaxCalls
  /\ up \in BOOLEAN
  /\ promised \in Due
  /\ during \subseteq {"signal", "change"}
  /\ result \in {"none", "page", "wait", "blocked", "frozen"}

\* LoadTemporayJson: an emergency that is past its deadline or has a datalist
\* is refused, and its file is deleted; jTemproary keeps it all the same.
TemporaryAccepted ==
  jTemproary # NoJson /\ Urgent(jTemproary) /\ ~jTemproary.expired

\* OnInitDialog after ChooseJson: the stored programme, or else the one it
\* replaced, or else the default one; an accepted emergency overrides it.
Init ==
  /\ \E s \in Stored : /\ jTemplate = s["jTemplate"]
                      /\ jOverdue = s["jOverdue"]
                      /\ jTemproary = s["jTemproary"]
  /\ jrsp = CASE TemporaryAccepted -> jTemproary
              [] ~TemporaryAccepted /\ jTemplate # NoJson -> jTemplate
              [] ~TemporaryAccepted /\ jTemplate = NoJson ->
                   IF jOverdue # NoJson THEN jOverdue ELSE jDefault
  /\ jForIE = NoPage
  /\ shown = NoPage
  /\ g_bIsTemproaryOn = FALSE
  /\ bUnderSwitchMode = FALSE
  /\ g_strItemid = NoItem
  /\ timer = [i \in TimerId |->
               IF i \in {"CHOOSEPROGAME", "CHECKINCOMPELEDFILE"} THEN 0 ELSE Off]
  /\ chooseEvent = FALSE
  /\ choosePc = "wait"
  /\ jTemp = NoJson
  /\ op = [a \in Actor |-> "idle"]
  /\ held = [a \in Actor |-> NoJson]
  /\ m_nMode = "none"
  /\ nCheckTimes = 0
  /\ clock = 0
  /\ calls = 0
  /\ up = TRUE
  /\ promised = Off
  /\ result = "none"
  /\ during = {}

\* The first slot of S after t
NextIn(S, t) ==
  LET IsNext(s) == s \in S /\ s > t /\ \A u \in S : u > t => s <= u
  IN  IF \E s \in Slot : IsNext(s) THEN CHOOSE s \in Slot : IsNext(s) ELSE Never

\* Slip: one slot of the window too many
CloseAtLate(page, t) == NextIn(Slot \ Airs[page], t + 1)

\* GetCloseTime and GetWaitTime, as the slot in which the timer is due
\* (the windows of a page neither touch nor overlap)
CloseAt(page, t) == NextIn(Slot \ Airs[page], t)
WaitUntil(slots, t) == NextIn(slots, t)

-----------------------------------------------------------------------------
\* No thread catches what a JSON conversion throws.
Down ==
  /\ up' = FALSE
  /\ UNCHANGED <<programmes, flags, screen, timer, chooser, handlers, clock,
                 history>>

\* What a pass may have read too early, or may still overwrite, is changed.
Disturb(what) ==
  during' = IF choosePc = "wait" THEN during ELSE during \cup {what}

-----------------------------------------------------------------------------
(* The ChooseProgram thread: ChooseProgramThreadContent. *)

Misread(v) == v # NoJson /\ v.misread

Fallback(v) == v = NoJson \/ v.expired

\* The programme a pass works with, once "" and expired ones are replaced
Effective(v) == IF Fallback(v) THEN jDefault ELSE v

ChooseWake ==
  /\ up
  /\ choosePc = "wait"
  /\ chooseEvent
  /\ choosePc' = "decide"
  /\ jTemp' = jrsp
  /\ during' = {}
  /\ UNCHANGED <<programmes, flags, screen, timer, chooseEvent, handlers,
                 clock, up, promised, result>>

\* Slip: the countdown is not started.
LoadUntimed(page, due) ==
  /\ jForIE' = page
  /\ timer' = [timer EXCEPT !["LOADPAGE"] = clock]
  /\ promised' = due

\* jForIE := page, to be loaded, and the CHOOSEPROGAME timer set to due
Load(page, due) ==
  /\ jForIE' = page
  /\ timer' = [timer EXCEPT !["LOADPAGE"] = clock, !["CHOOSEPROGAME"] = due]
  /\ promised' = due

\* Loading a page without a CHOOSEPROGAME timer leaves that timer as it was.
LoadForGood(page) ==
  /\ jForIE' = page
  /\ timer' = [timer EXCEPT !["LOADPAGE"] = clock]
  /\ promised' = Off

PlayAllDay(v) ==
  /\ v.prog \in AllDay
  /\ LoadForGood(v.prog)
  /\ result' = "page"

PlayInWindow(v) ==
  /\ v.prog \notin AllDay
  /\ clock \in Airs[v.prog]
  /\ Load(v.prog, CloseAt(v.prog, clock))
  /\ result' = "page"

AwaitWindow(v) ==
  /\ v.prog \notin AllDay
  /\ clock \notin Airs[v.prog]
  /\ Load(Default, WaitUntil(Airs[v.prog], clock))
  /\ result' = "wait"

\* A pass that reaches none of its SetTimer calls
LeaveAsIs(outcome) ==
  /\ result' = outcome
  /\ UNCHANGED <<timer, promised>>

DecideNormal(v) ==
  /\ v.prog \in Single \ Emergency
  /\ ~g_bIsTemproaryOn
  /\ PlayAllDay(v) \/ PlayInWindow(v) \/ AwaitWindow(v)
  /\ UNCHANGED flags

DecideBlocked(v) ==
  /\ v.prog \in Single \ Emergency
  /\ g_bIsTemproaryOn
  /\ LeaveAsIs("blocked")
  /\ UNCHANGED <<flags, jForIE>>

DecideEmergency(v) ==
  /\ v.prog \in Emergency
  /\ PlayAllDay(v) \/ PlayInWindow(v)
  /\ g_bIsTemproaryOn' = TRUE
  /\ UNCHANGED <<bUnderSwitchMode, g_strItemid>>

\* Outside its windows the emergency comes back by its own timer, and the
\* stored programme is chosen by another pass.
DecideEmergencyWait(v) ==
  /\ v.prog \in Emergency \ AllDay
  /\ clock \notin Airs[v.prog]
  /\ jForIE' = v.prog
  /\ timer' = [timer EXCEPT !["LOADTEMPORARY"] = WaitUntil(Airs[v.prog], clock),
                            !["CHOOSEPROGAME"] = clock]
  /\ jrsp' = jTemplate
  /\ g_bIsTemproaryOn' = FALSE
  /\ promised' = clock
  /\ result' = "wait"
  /\ UNCHANGED <<bUnderSwitchMode, g_strItemid>>

ItemsOf(v) == {Items[v.prog][i] : i \in DOMAIN Items[v.prog]}

\* Switch mode: the item a CONTROL command named, if the list has it
DecideSwitch(v) ==
  /\ v.prog \in List
  /\ bUnderSwitchMode
  /\ g_strItemid \in ItemsOf(v)
  /\ LoadForGood(g_strItemid)
  /\ bUnderSwitchMode' = FALSE
  /\ result' = "page"
  /\ UNCHANGED <<g_bIsTemproaryOn, g_strItemid>>

\* The loop runs to its end and leaves the last item in jForIE.
DecideFrozen(v) ==
  /\ v.prog \in List
  /\ bUnderSwitchMode
  /\ g_strItemid \notin ItemsOf(v)
  /\ jForIE' = IF Items[v.prog] = <<>> THEN jForIE
               ELSE Items[v.prog][Len(Items[v.prog])]
  /\ LeaveAsIs("frozen")
  /\ UNCHANGED flags

\* The first item of the list that is inside one of its windows
DecideItem(v) ==
  /\ v.prog \in List
  /\ ~bUnderSwitchMode
  /\ \E i \in DOMAIN Items[v.prog] :
       /\ clock \in Airs[Items[v.prog][i]]
       /\ \A k \in 1..(i - 1) : clock \notin Airs[Items[v.prog][k]]
       /\ Load(Items[v.prog][i], CloseAt(Items[v.prog][i], clock))
  /\ result' = "page"
  /\ UNCHANGED flags

\* No item is on: the default page until the next window of any of them.
\* For NoRollover lists GetWaitTime answers -1 when that is tomorrow.
DecideListWait(v) ==
  LET next == WaitUntil(UNION {Airs[i] : i \in ItemsOf(v)}, clock)
  IN /\ v.prog \in List
     /\ ~bUnderSwitchMode
     /\ Items[v.prog] # <<>>
     /\ \A i \in ItemsOf(v) : clock \notin Airs[i]
     /\ IF next = Never /\ v.prog \in NoRollover
        THEN LoadForGood(Default)
        ELSE Load(Default, next)
     /\ result' = "wait"
     /\ UNCHANGED flags

DecideEmptyList(v) ==
  /\ v.prog \in List
  /\ ~bUnderSwitchMode
  /\ Items[v.prog] = <<>>
  /\ LeaveAsIs("blocked")
  /\ UNCHANGED <<flags, jForIE>>

\* The branches that leave jrsp to the expiry test at the top of the pass
DecideInPlace(v) ==
  \/ DecideNormal(v)
  \/ DecideBlocked(v)
  \/ DecideEmergency(v)
  \/ DecideSwitch(v)
  \/ DecideFrozen(v)
  \/ DecideItem(v)
  \/ DecideListWait(v)
  \/ DecideEmptyList(v)

ChooseDecide ==
  LET v == Effective(jTemp)
  IN /\ up
     /\ choosePc = "decide"
     /\ ~Misread(jTemp)
     /\ \/ DecideInPlace(v) /\ jrsp' = IF Fallback(jTemp) THEN jDefault ELSE jrsp
        \/ DecideEmergencyWait(v)
     /\ choosePc' = "reset"
     /\ UNCHANGED <<jTemplate, jTemproary, jOverdue, shown, chooseEvent, jTemp,
                    handlers, clock, up, during>>

\* A datalist is there, so body.data.itemlistendtime is read as a string; a
\* single programme has none, and the exception ends the process.
ChooseThrows ==
  /\ up
  /\ choosePc = "decide"
  /\ Misread(jTemp)
  /\ Down

ChooseReset ==
  /\ up
  /\ choosePc = "reset"
  /\ choosePc' = "wait"
  /\ chooseEvent' = FALSE
  /\ jTemp' = NoJson
  /\ UNCHANGED <<programmes, flags, screen, timer, handlers, clock, up, history>>

Choose == ChooseWake \/ ChooseDecide \/ ChooseThrows \/ ChooseReset

-----------------------------------------------------------------------------
(* RMQ_DealCustomMsg, on the RMQ thread or, for a retry, on the UI thread. *)

CountCall == calls < MaxCalls /\ calls' = calls + 1

Begin(a, o) == op' = [op EXCEPT ![a] = o]

ChooseSoon == timer' = [timer EXCEPT !["CHOOSEPROGAME"] = clock]

Receive(command) ==
  /\ up
  /\ op["rmq"] = "idle"
  /\ command \in Commands
  /\ CountCall

\* m_nMode is cleared first.
Ask(a, kind) ==
  /\ m_nMode' = "none"
  /\ Begin(a, IF kind = "ITEM" THEN "askItem" ELSE "askList")

\* PUBLISH|..|ITEM or ITEMLIST
PublishBegin(kind) ==
  /\ Receive("PUBLISH")
  /\ Ask("rmq", kind)
  /\ UNCHANGED <<programmes, flags, screen, timer, chooser, held, nCheckTimes,
                 clock, up, history>>

Publishing(a, o) == up /\ op[a] = o

\* The kind is put into m_nMode, and GetTemplate is called for it.
SetMode(a) ==
  /\ \/ Publishing(a, "askItem") /\ m_nMode' = "ITEM" /\ Begin(a, "fetchItem")
     \/ Publishing(a, "askList") /\ m_nMode' = "ITEMLIST" /\ Begin(a, "fetchList")
  /\ UNCHANGED <<programmes, flags, screen, timer, chooser, held, nCheckTimes,
                 calls, clock, up, history>>

\* GetTemplate returned FALSE.
PublishFetchFails(a) ==
  /\ Publishing(a, "fetchItem") \/ Publishing(a, "fetchList")
  /\ Begin(a, "idle")
  /\ UNCHANGED <<programmes, flags, screen, timer, chooser, held, m_nMode,
                 nCheckTimes, calls, clock, up, history>>

\* ParseNewTemplateOfH5 is called for a single programme if m_nMode says so by
\* now; unless the other thread has changed it, for the kind of the answer.
ParseBegin(a) ==
  /\ \/ Publishing(a, "fetchItem") /\ m_nMode = "ITEM" /\ Begin(a, "parseItem")
     \/ Publishing(a, "fetchList") /\ m_nMode # "ITEM" /\ Begin(a, "parseList")
  /\ UNCHANGED <<programmes, flags, screen, timer, chooser, held, m_nMode,
                 nCheckTimes, calls, clock, up, history>>

\* A list parsed as a single programme has no release mode to read.
ParseThrows(a) ==
  /\ Publishing(a, "fetchList")
  /\ m_nMode = "ITEM"
  /\ Down

\* ParseNewTemplateOfH5 returned FALSE.
PublishParseFails(a) ==
  /\ Publishing(a, "parseItem") \/ Publishing(a, "parseList")
  /\ Begin(a, "report")
  /\ UNCHANGED <<programmes, flags, screen, timer, chooser, held, m_nMode,
                 nCheckTimes, calls, clock, up, history>>

\* What comes out of ParseNewTemplateOfH5.  A single programme parsed as a
\* list has no datalist to go through, so nothing is downloaded, its release
\* mode is not read, and it gets a datalist that is null.
Parsed(a, v) ==
  \/ /\ Publishing(a, "parseItem")
     /\ v.prog \in Published \ List
     /\ ~v.misread
  \/ /\ Publishing(a, "parseList")
     /\ v.prog \in Published \cap List
     /\ ~v.misread
  \/ /\ Publishing(a, "fetchItem")
     /\ m_nMode # "ITEM"
     /\ v.prog \in Published \ List
     /\ v.misread

\* Slip: the flag goes up for an emergency that is not kept.
ParseForgetsEmergency(a, v) ==
  /\ Parsed(a, v)
  /\ IF Urgent(v)
     THEN /\ g_bIsTemproaryOn' = TRUE
          /\ UNCHANGED <<jOverdue, jTemplate>>
     ELSE /\ jOverdue' = jTemplate
          /\ jTemplate' = v
          /\ UNCHANGED g_bIsTemproaryOn
  /\ UNCHANGED jTemproary
  /\ jrsp' = v
  /\ Begin(a, "publish")
  /\ Disturb("change")
  /\ UNCHANGED <<bUnderSwitchMode, g_strItemid, screen, timer, chooser, held,
                 m_nMode, nCheckTimes, calls, clock, up, promised, result>>

\* ParseNewTemplateOfH5, after the downloads: the new programme v replaces
\* the stored one of its release mode and becomes the current one.
ParseNewTemplateOfH5(a, v) ==
  /\ Parsed(a, v)
  /\ IF Urgent(v)
     THEN /\ g_bIsTemproaryOn' = TRUE
          /\ jTemproary' = v
          /\ UNCHANGED <<jOverdue, jTemplate>>
     ELSE /\ jOverdue' = jTemplate
          /\ jTemplate' = v
          /\ UNCHANGED <<g_bIsTemproaryOn, jTemproary>>
  /\ jrsp' = v
  /\ Begin(a, "publish")
  /\ Disturb("change")
  /\ UNCHANGED <<bUnderSwitchMode, g_strItemid, screen, timer, chooser, held,
                 m_nMode, nCheckTimes, calls, clock, up, promised, result>>

\* Slip: no pass is asked for.
PublishUnnoticed(a) ==
  /\ Publishing(a, "publish")
  /\ g_strItemid' = NoItem
  /\ Begin(a, "report")
  /\ Disturb("change")
  /\ UNCHANGED <<programmes, g_bIsTemproaryOn, bUnderSwitchMode, screen, timer,
                 chooser, held, m_nMode, nCheckTimes, calls, clock, up,
                 promised, result>>

PublishSucceeds(a) ==
  /\ Publishing(a, "publish")
  /\ g_strItemid' = NoItem
  /\ ChooseSoon
  /\ Begin(a, "report")
  /\ Disturb("change")
  /\ UNCHANGED <<programmes, g_bIsTemproaryOn, bUnderSwitchMode, screen, chooser,
                 held, m_nMode, nCheckTimes, calls, clock, up, promised,
                 result>>

\* UpLoadProGrameStatus, good or bad news, and then the check for *.download
PublishReport(a) ==
  /\ Publishing(a, "report")
  /\ timer' = [timer EXCEPT !["CHECKINCOMPELEDFILE"] = clock]
  /\ Begin(a, "idle")
  /\ UNCHANGED <<programmes, flags, screen, chooser, held, m_nMode, nCheckTimes,
                 calls, clock, up, history>>

\* DEFAULT clears the flag, deletes temporary.json, then changes jrsp.
DefaultBegin ==
  /\ Receive("DEFAULT")
  /\ g_bIsTemproaryOn' = FALSE
  /\ Begin("rmq", "default")
  /\ Disturb("change")
  /\ UNCHANGED <<programmes, bUnderSwitchMode, g_strItemid, screen, timer,
                 chooser, held, m_nMode, nCheckTimes, clock, up, promised, result>>

DefaultEnd ==
  /\ up
  /\ op["rmq"] = "default"
  /\ jrsp' = jDefault
  /\ ChooseSoon
  /\ Begin("rmq", "idle")
  /\ Disturb("change")
  /\ UNCHANGED <<jTemplate, jTemproary, jOverdue, flags, screen, chooser, held,
                 m_nMode, nCheckTimes, calls, clock, up, promised, result>>

\* Slip: the default programme is not refused.
ExtendDeadlineReadAny(p, expired) ==
  /\ Receive("EXCHANGETIME")
  /\ jrsp # NoJson
  /\ jrsp.prog = p
  /\ held' = [held EXCEPT !["rmq"] = [jrsp EXCEPT !.expired = expired]]
  /\ Begin("rmq", "extend")
  /\ UNCHANGED <<programmes, flags, screen, timer, chooser, m_nMode, nCheckTimes,
                 clock, up, history>>

\* EXCHANGETIME: ExtendDeadline copies jrsp, refuses the default programme
\* and any programme but the one named, ...
ExtendDeadlineRead(p, expired) ==
  /\ Receive("EXCHANGETIME")
  /\ jrsp \notin {NoJson, jDefault}
  /\ jrsp.prog = p
  /\ held' = [held EXCEPT !["rmq"] = [jrsp EXCEPT !.expired = expired]]
  /\ Begin("rmq", "extend")
  /\ UNCHANGED <<programmes, flags, screen, timer, chooser, m_nMode, nCheckTimes,
                 clock, up, history>>

\* Slip: the release mode is not looked at.
ExtendDeadlineAsOrdinary ==
  LET v == held["rmq"]
  IN /\ up
     /\ op["rmq"] = "extend"
     /\ jTemplate' = v
     /\ jrsp' = v
     /\ ChooseSoon
     /\ held' = [held EXCEPT !["rmq"] = NoJson]
     /\ Begin("rmq", "idle")
     /\ Disturb("change")
     /\ UNCHANGED <<jTemproary, jOverdue, flags, screen, chooser, m_nMode,
                    nCheckTimes, calls, clock, up, promised, result>>

\* Slip: only the current programme is changed.
ExtendDeadlineUnstored ==
  LET v == held["rmq"]
  IN /\ up
     /\ op["rmq"] = "extend"
     /\ jrsp' = v
     /\ ChooseSoon
     /\ held' = [held EXCEPT !["rmq"] = NoJson]
     /\ Begin("rmq", "idle")
     /\ Disturb("change")
     /\ UNCHANGED <<jTemplate, jTemproary, jOverdue, flags, screen, chooser,
                    m_nMode, nCheckTimes, calls, clock, up, promised, result>>

\* ... and stores the copy with its new deadline as the programme of its
\* release mode and as the current one.
ExtendDeadlineWrite ==
  LET v == held["rmq"]
  IN /\ up
     /\ op["rmq"] = "extend"
     /\ IF v.prog \in Emergency
        THEN jTemproary' = v /\ UNCHANGED jTemplate
        ELSE jTemplate' = v /\ UNCHANGED jTemproary
     /\ jrsp' = v
     /\ ChooseSoon
     /\ held' = [held EXCEPT !["rmq"] = NoJson]
     /\ Begin("rmq", "idle")
     /\ Disturb("change")
     /\ UNCHANGED <<jOverdue, flags, screen, chooser, m_nMode, nCheckTimes,
                    calls, clock, up, promised, result>>

\* CONTROL|i, unless i is the item of the previous CONTROL
Control(i) ==
  /\ Receive("CONTROL")
  /\ i # g_strItemid
  /\ g_strItemid' = i
  /\ bUnderSwitchMode' = TRUE
  /\ ChooseSoon
  /\ Disturb("change")
  /\ UNCHANGED <<programmes, g_bIsTemproaryOn, screen, chooser, op, held, m_nMode,
                 nCheckTimes, clock, up, promised, result>>

ControlRecovery ==
  /\ Receive("CONTROLRECOVERY")
  /\ bUnderSwitchMode' = FALSE
  /\ ChooseSoon
  /\ Disturb("change")
  /\ UNCHANGED <<programmes, g_bIsTemproaryOn, g_strItemid, screen, chooser, op,
                 held, m_nMode, nCheckTimes, clock, up, promised, result>>

Command ==
  \/ \E kind \in Kind : PublishBegin(kind)
  \/ DefaultBegin
  \/ \E p \in Program, expired \in Deadlines : ExtendDeadlineRead(p, expired)
  \/ \E i \in Item : Control(i)
  \/ ControlRecovery

Publish(a) ==
  \/ SetMode(a)
  \/ PublishFetchFails(a)
  \/ ParseBegin(a)
  \/ ParseThrows(a)
  \/ PublishParseFails(a)
  \/ \E v \in [prog: Program, expired: Deadlines, misread: BOOLEAN] :
       ParseNewTemplateOfH5(a, v)
  \/ PublishSucceeds(a)
  \/ PublishReport(a)

-----------------------------------------------------------------------------
(* The UI thread: OnTimer, which kills the timer before anything else. *)

Fires(i) ==
  /\ up
  /\ op["ui"] = "idle"
  /\ timer[i] <= clock

Kill(i) == timer' = [timer EXCEPT ![i] = Off]

OnLoadPage ==
  /\ Fires("LOADPAGE")
  /\ Kill("LOADPAGE")
  /\ shown' = jForIE
  /\ UNCHANGED <<programmes, flags, jForIE, chooser, handlers, clock, up, history>>

OnChooseProgame ==
  /\ Fires("CHOOSEPROGAME")
  /\ Kill("CHOOSEPROGAME")
  /\ chooseEvent' = TRUE
  /\ Disturb("signal")
  /\ UNCHANGED <<programmes, flags, screen, choosePc, jTemp, handlers, clock, up,
                 promised, result>>

OnLoadTemporary ==
  /\ Fires("LOADTEMPORARY")
  /\ timer' = [timer EXCEPT !["LOADTEMPORARY"] = Off, !["CHOOSEPROGAME"] = clock]
  /\ jrsp' = jTemproary
  /\ g_bIsTemproaryOn' = TRUE
  /\ Disturb("change")
  /\ UNCHANGED <<jTemplate, jTemproary, jOverdue, bUnderSwitchMode, g_strItemid,
                 screen, chooser, handlers, clock, up, promised, result>>

CheckIncompleted ==
  /\ Fires("CHECKINCOMPELEDFILE")
  /\ nCheckTimes < 3

\* CheckIncompleted finds a *.download file and publishes again, as for the
\* current programme, ...
OnCheckFindsIncomplete ==
  /\ CheckIncompleted
  /\ jrsp # NoJson
  /\ jrsp.prog \notin List
  /\ Kill("CHECKINCOMPELEDFILE")
  /\ CountCall
  /\ nCheckTimes' = nCheckTimes + 1
  /\ Ask("ui", "ITEM")
  /\ UNCHANGED <<programmes, flags, screen, chooser, held, clock, up, history>>

\* ... the itemid of which is not there in a list.
OnCheckThrows ==
  /\ CheckIncompleted
  /\ jrsp # NoJson => jrsp.prog \in List
  /\ Down

\* CheckIncompleted finds none, or three retries were made.
OnCheckEnds ==
  /\ Fires("CHECKINCOMPELEDFILE")
  /\ Kill("CHECKINCOMPELEDFILE")
  /\ nCheckTimes' = 0
  /\ UNCHANGED <<programmes, flags, screen, chooser, op, held, m_nMode, calls,
                 clock, up, history>>

OnTimer ==
  \/ OnLoadPage
  \/ OnChooseProgame
  \/ OnLoadTemporary
  \/ OnCheckFindsIncomplete
  \/ OnCheckThrows
  \/ OnCheckEnds

Tick ==
  /\ up
  /\ clock < LastSlot
  /\ clock' = clock + 1
  /\ UNCHANGED <<programmes, flags, screen, timer, chooser, handlers, up, history>>

-----------------------------------------------------------------------------
\* What goes on, on each thread, without a new command
RMQThread == DefaultEnd \/ ExtendDeadlineWrite \/ Publish("rmq")
UIThread  == Publish("ui") \/ OnTimer

Next == Command \/ RMQThread \/ UIThread \/ Choose \/ Tick

\* Whatever no command is needed for goes on: threads run, network calls
\* return, the message loop dispatches timers, and time passes, in whatever
\* order.  Nothing makes the platform send a command.
Fairness == WF_vars(RMQThread \/ UIThread \/ Choose \/ Tick)

Spec == Init /\ [][Next]_vars

FairSpec == Spec /\ Fairness

-----------------------------------------------------------------------------
(* What the module promises.                                               *)

(***************************************************************************)
(* While the emergency flag is up, or an emergency waits for its window    *)
(* with TIMER_LOADTEMPORARY armed, there is an emergency programme in      *)
(* memory to return to: OnTimer copies jTemproary into jrsp unseen, and an *)
(* empty jrsp on the UI thread is an exception in CheckIncompleted.        *)
(***************************************************************************)
EmergencyIsLoaded ==
  g_bIsTemproaryOn \/ timer["LOADTEMPORARY"] # Off => jTemproary # NoJson

(***************************************************************************)
(* However publications, deadlines and passes interleave, temporary.json   *)
(* never gets anything but an emergency (LoadTemporayJson would delete it  *)
(* at the next start) and the default programme is never stored among the  *)
(* others, where it would be extended and collected like them.  And an     *)
(* emergency gets into the place of an ordinary programme in one way only: *)
(* by being parsed as a list, when a publication on the other thread has   *)
(* cleared or changed m_nMode between the request and the parsing.         *)
(***************************************************************************)
StoredByReleaseMode ==
  InPlace(jTemplate, jOverdue, jTemproary)

(***************************************************************************)
(* The current programme is always one of those held in memory by name,    *)
(* whichever thread changed it last.  CheckOldResource deletes materials   *)
(* that none of the named programmes uses, so a current programme outside  *)
(* them would lose its materials while it plays.                           *)
(***************************************************************************)
CurrentIsStored ==
  jrsp \in {NoJson, jDefault, jTemplate, jTemproary, jOverdue}

(* The next pass is certain, or comes by the time t. *)
PassPending(t) ==
  \/ timer["CHOOSEPROGAME"] <= t
  \/ timer["CHOOSEPROGAME"] <= clock
  \/ chooseEvent
  \/ choosePc # "wait"

(***************************************************************************)
(* A pass that loads a page with an announced end, or the default page     *)
(* until an announced start, is always followed by another pass at that    *)
(* time at the latest, whatever commands and timers set, replace or kill   *)
(* the one-shot timer in between (the countdowns of                        *)
(* ChooseProgramThreadContent).  One thing only breaks a countdown: that   *)
(* TIMER_CHOOSEPROGAME fires in the middle of the pass, and the pass       *)
(* resets the event that it set.                                           *)
(***************************************************************************)
CountdownKept ==
  result \in {"page", "wait"} /\ promised # Off /\ "signal" \notin during =>
    PassPending(promised)

(***************************************************************************)
(* The inductive strengthening of EmergencyIsLoaded: copies of a programme *)
(* that a thread holds between two steps respect the same rules.           *)
(***************************************************************************)
CopiesRespectMode ==
  /\ jTemp # NoJson /\ Urgent(jTemp) => jTemproary # NoJson
  /\ op["rmq"] = "extend" => /\ held["rmq"] # NoJson
                             /\ held["rmq"].prog # Default

ProgrammeInv ==
  /\ TypeOK
  /\ StoredByReleaseMode
  /\ CurrentIsStored
  /\ EmergencyIsLoaded
  /\ CopiesRespectMode

(***************************************************************************)
(* The inductive strengthening of CountdownKept: when a pass is about to   *)
(* reset its event, the timer it armed, or one a command armed since, is   *)
(* still pending, or else the event it is about to reset is that timer's.  *)
(***************************************************************************)
CountdownArmed ==
  choosePc = "reset" /\ result \in {"page", "wait"} /\ promised # Off =>
    \/ timer["CHOOSEPROGAME"] <= promised
    \/ timer["CHOOSEPROGAME"] <= clock
    \/ "signal" \in during

(* The page the schedule of programme v puts on the screen at time t. *)
Scheduled(v, t) ==
  IF v.prog \in Single
  THEN IF v.prog \in AllDay \/ t \in Airs[v.prog] THEN v.prog ELSE Default
  ELSE LET airing == {i \in DOMAIN Items[v.prog] : t \in Airs[Items[v.prog][i]]}
       IN  IF airing = {} THEN Default
           ELSE Items[v.prog][CHOOSE i \in airing : \A k \in airing : i <= k]

Airing(v, t) == {i \in ItemsOf(v) : t \in Airs[i]}

Suits(page, v, t) ==
  \/ v.prog \in Single /\ page = Scheduled(v, t)
  \/ v.prog \in List /\ page \in Airing(v, t)
  \/ v.prog \in List /\ Airing(v, t) = {} /\ page = Default

Overruled ==
  \/ jrsp.prog \in Single \ Emergency /\ g_bIsTemproaryOn
  \/ jrsp.prog \in List /\ (bUnderSwitchMode \/ Items[jrsp.prog] = <<>>)

(***************************************************************************)
(* When the platform falls silent, the screen ends up showing what the     *)
(* current programme's schedule says, or the item of a CONTROL, and the    *)
(* current programme is not past its deadline, if nothing came in the      *)
(* middle of the last pass.  Except where the code loads no page: for an   *)
(* ordinary programme below a raised emergency flag, and for a list that   *)
(* is frozen by the switch mode or empty.                                  *)
(***************************************************************************)
ScreenFollowsProgramme ==
  <>[](up /\ during = {} =>
         /\ jrsp # NoJson
         /\ ~jrsp.expired
         /\ Overruled \/ shown \in {Scheduled(jrsp, clock), g_strItemid})

(***************************************************************************)
(* At every moment, and not only in the end, the screen shows a page the   *)
(* current programme has for it, or the item of a CONTROL, and the current *)
(* programme is there and not past its deadline, from the end of every     *)
(* pass until something else is asked for, if nothing came in the middle   *)
(* of that pass.  So one pass that is left in peace repairs whatever       *)
(* earlier ones made of a command or a timer in their middle.  Except      *)
(* while a page is on its way, and where the code loads none, as above.    *)
(***************************************************************************)
Changing == \E a \in Actor : op[a] \in {"publish", "default"}

ScreenSuitsProgramme ==
  during # {} \/ PassPending(clock) \/ Changing \/
    /\ jrsp # NoJson
    /\ ~jrsp.expired
    /\ timer["LOADPAGE"] > clock /\ ~Overruled =>
         Suits(shown, jrsp, clock) \/ shown = g_strItemid

(***************************************************************************)
(* An emergency is saved under the name for emergencies, apart from the    *)
(* ordinary programmes (the comment on the name of the file in             *)
(* ParseNewTemplateOfH5).                                                  *)
(***************************************************************************)
EmergenciesApart ==
  \A v \in {jTemplate, jOverdue} \ {NoJson} : v.prog \notin Emergency

(***************************************************************************)
(* The flag means what its declaration says, "it is now the time of the    *)
(* temporary programme": in the end it is up only while an emergency is    *)
(* the current programme, also when nothing came in the middle of a pass.  *)
(***************************************************************************)
FlagMeansEmergency ==
  <>[](up /\ during = {} /\ g_bIsTemproaryOn =>
         jrsp # NoJson /\ jrsp.prog \in Emergency)

(***************************************************************************)
(* The switch mode gives way to a republished programme, as the comment on *)
(* bUnderSwitchMode says: a pass is not frozen by a CONTROL whose item the *)
(* PUBLISH has already forgotten.                                          *)
(***************************************************************************)
RepublishEndsSwitchMode == result = "frozen" => g_strItemid # NoItem

=============================================================================
