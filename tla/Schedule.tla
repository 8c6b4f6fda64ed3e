------------------------------ MODULE Schedule ------------------------------
(***************************************************************************)
(* When a programme list changes the screen (WeChatPrinterDlg.cpp): the    *)
(* ChooseProgram pass looks for the first item whose window holds the time *)
(* of day, counts the seconds to its end with GetCloseTime, or to the next *)
(* window with GetWaitTime, and sets TIMER_CHOOSEPROGAME to come back then.*)
(* A single programme with PLAY_DIVIDE is a daily list of one item.        *)
(*                                                                         *)
(* Times of day are the code's integers HHMMSS, windows include both ends. *)
(* The model jumps from event to event: a timer, midnight, the restart that*)
(* GetSystemMemoryInfo makes on the first check of a new day, or a command *)
(* that asks for a pass.  A pass takes no time; a timer may be late.       *)
(*                                                                         *)
(* The header file says that one list has one mode (lines 54-56).  The     *)
(* calendar repeats after a week.  Deadlines, emergencies and the switch   *)
(* mode are in module ProgramControl.                                      *)
(***************************************************************************)
EXTENDS Integers, Sequences, FiniteSetsExt

CONSTANTS
  Lists,        \* the programme lists that may play
  Starts,       \* the seconds of the week at which the program may start
  Asks,         \* the seconds of the day at which a command may ask for a pass
  MaxAsks,      \* how many of them
  Checks,       \* how long after midnight the memory check may come
  MaxLate       \* how late a timer may be

(* Modes *)
PLAY_REPEATDAY == 1
PLAY_WEEKDAY   == 2
PLAY_CUSTOMIZE == 3

DELAY_TIME == 15
DaySeconds == 24 * 60 * 60
Never      == -1

(* The times of day at which windows begin and end: HH:MM, up to 24:00 *)
Time == {h * 10000 + m * 100 : h \in 0..23, m \in 0..59} \cup {240000}

Segment == [weekday : 0..6, first : 0..6, last : 0..6,
            windows : SUBSET (Time \X Time)]

List == [mode  : {PLAY_REPEATDAY, PLAY_WEEKDAY, PLAY_CUSTOMIZE},
         items : Seq(Seq(Segment))]

ASSUME ScheduleAssumption ==
  /\ Lists \subseteq List
  /\ \A l \in Lists : l.items # <<>>
  /\ Starts \subseteq 0 .. 7 * DaySeconds - 1
  /\ Asks \subseteq 0 .. DaySeconds - 1
  /\ MaxAsks \in Nat
  /\ Checks \subseteq 0..120
  /\ MaxLate \in Nat \ {0}

VARIABLES
  list,        \* the current programme
  clock,       \* seconds of the week
  chosen,      \* the item the last pass chose, 0 for the default programme
  left,        \* seconds to TIMER_CHOOSEPROGAME
  page,        \* the item whose page is on the screen
  pageLeft,    \* seconds to TIMER_LOADPAGE
  restart,     \* seconds to the check that restarts the program
  asked        \* passes asked for by commands

vars == <<list, clock, chosen, left, page, pageLeft, restart, asked>>

-----------------------------------------------------------------------------
(* The clock *)
Day(t) == t \div DaySeconds
Second(t) == t % DaySeconds

\* atoi of "%H%M%S"
CurTime(t) == (Second(t) \div 3600) * 10000
                + ((Second(t) \div 60) % 60) * 100 + (Second(t) % 60)

\* Slip: Sunday stays below the days of the platform.
GetWeekDayUncorrected(day) == day - 1

\* Monday is 0 for the platform, Sunday for the system.
GetWeekDay(day) == IF day = 0 THEN 6 ELSE day - 1

\* The seconds from one time of day to another, digit pair by digit pair
Span(from, to) == (to \div 10000 - from \div 10000) * 60 * 60
                    + (((to \div 100) % 100) - ((from \div 100) % 100)) * 60
                    + ((to % 100) - (from % 100))

Bounds(windows) == {w[1] : w \in windows} \cup {w[2] : w \in windows}

(***************************************************************************)
(* In the sorted array of the bounds and the current time, the entry after *)
(* the first that equals the current time: itself again if it is a bound.  *)
(***************************************************************************)
Following(times, cur) == Min({t \in times : t >= cur})

\* Slip: the night is not counted.
GetWaitTimeSameDay(times, cur, mode) ==
  CASE \E t \in times : t >= cur -> Span(cur, Following(times, cur))
    [] (\A t \in times : t < cur) /\ mode > PLAY_REPEATDAY -> Never
    [] (\A t \in times : t < cur) /\ mode <= PLAY_REPEATDAY ->
         Span(cur, Min(times \cup {cur}))

\* Slip: the mode test is >=, and a daily list is not called back at night.
GetWaitTimeOffByOne(times, cur, mode) ==
  CASE \E t \in times : t >= cur -> Span(cur, Following(times, cur))
    [] (\A t \in times : t < cur) /\ mode >= PLAY_REPEATDAY -> Never
    [] (\A t \in times : t < cur) /\ mode < PLAY_REPEATDAY ->
         DaySeconds - Span(Min(times \cup {cur}), cur)

\* -1 where the next window is not today and the mode is not daily
GetWaitTime(times, cur, mode) ==
  CASE \E t \in times : t >= cur -> Span(cur, Following(times, cur))
    [] (\A t \in times : t < cur) /\ mode > PLAY_REPEATDAY -> Never
    [] (\A t \in times : t < cur) /\ mode <= PLAY_REPEATDAY ->
         DaySeconds - Span(Min(times \cup {cur}), cur)

\* Slip: the end of the last window of the day
GetCloseTimeLast(windows, cur) == Span(cur, Max(Bounds(windows)))

GetCloseTime(windows, cur) == Span(cur, Following(Bounds(windows), cur))

-----------------------------------------------------------------------------
OnDay(mode, segment, day) ==
  CASE mode = PLAY_REPEATDAY -> TRUE
    [] mode = PLAY_WEEKDAY   -> segment.weekday = GetWeekDay(day)
    [] mode = PLAY_CUSTOMIZE -> segment.first <= day /\ day <= segment.last

\* The segments of item k that are on at a day, by their numbers
SegmentsOn(l, k, day) ==
  {j \in DOMAIN l.items[k] : OnDay(l.mode, l.items[k][j], day)}

Within(window, cur) == window[1] <= cur /\ cur <= window[2]

Matching(l, k, t) ==
  {j \in SegmentsOn(l, k, Day(t)) :
     \E w \in l.items[k][j].windows : Within(w, CurTime(t))}

WindowsOn(l, k, day) ==
  UNION {l.items[k][j].windows : j \in SegmentsOn(l, k, day)}

\* The windows of the day, of all items
vecALLHM(l, day) == UNION {WindowsOn(l, k, day) : k \in DOMAIN l.items}

\* Slip: no TIMER_LOADPAGE for the default programme
ChooseProgramShowsItemsOnly(t) ==
  LET On == {k \in DOMAIN list.items : Matching(list, k, t) # {}}
  IN     \/ /\ On # {}
            /\ LET k == Min(On)
                   j == Min(Matching(list, k, t))
               IN  /\ chosen' = k
                   /\ left' = GetCloseTime(list.items[k][j].windows, CurTime(t))
            /\ pageLeft' = DELAY_TIME
         \/ /\ On = {}
            /\ chosen' = 0
            /\ left' = GetWaitTime(Bounds(vecALLHM(list, Day(t))), CurTime(t),
                                  list.mode)
            /\ pageLeft' = Never

(***************************************************************************)
(* The pass at time t: the first item with a matching segment, or the      *)
(* default programme until the next window.                                *)
(***************************************************************************)
ChooseProgram(t) ==
  LET On == {k \in DOMAIN list.items : Matching(list, k, t) # {}}
  IN  /\ pageLeft' = DELAY_TIME
      /\ \/ /\ On # {}
            /\ LET k == Min(On)
                   j == Min(Matching(list, k, t))
               IN  /\ chosen' = k
                   /\ left' = GetCloseTime(list.items[k][j].windows, CurTime(t))
         \/ /\ On = {}
            /\ chosen' = 0
            /\ left' = GetWaitTime(Bounds(vecALLHM(list, Day(t))), CurTime(t),
                                  list.mode)

-----------------------------------------------------------------------------
TypeOK ==
  /\ list \in Lists
  /\ clock \in 0 .. 7 * DaySeconds - 1
  /\ chosen \in 0..Len(list.items)
  /\ left \in 0..DaySeconds \cup {Never}
  /\ page \in 0..Len(list.items) \cup {Never}
  /\ pageLeft \in 0..DELAY_TIME \cup {Never}
  /\ restart \in 0..120 \cup {Never}
  /\ asked \in 0..MaxAsks

\* The program starts: nothing is on the screen, and a pass is due at once.
Init ==
  /\ list \in Lists
  /\ clock \in Starts
  /\ chosen = 0
  /\ left = 0
  /\ page = Never
  /\ pageLeft = Never
  /\ restart = Never
  /\ asked = 0

\* d seconds that pass without an event: no timer is more than a little late.
Passes(d) ==
  /\ d <= DaySeconds - Second(clock)
  /\ left # Never => d <= left + MaxLate
  /\ pageLeft # Never => d <= pageLeft + MaxLate
  /\ restart # Never => d <= restart
  /\ clock' = (clock + d) % (7 * DaySeconds)

Less(timer, d) == CASE timer = Never -> Never
                    [] timer # Never /\ timer >= d -> timer - d
                    [] timer # Never /\ timer < d -> 0

\* TIMER_CHOOSEPROGAME, and the pass it wakes
ChooseTimer(late) ==
  /\ left # Never
  /\ left + late < DaySeconds - Second(clock)
  /\ Passes(left + late)
  /\ ChooseProgram(clock')
  /\ restart' = Less(restart, left + late)
  /\ UNCHANGED <<list, page, asked>>

\* TIMER_LOADPAGE shows the item of the last pass.
LoadPage(late) ==
  /\ pageLeft # Never
  /\ pageLeft + late < DaySeconds - Second(clock)
  /\ Passes(pageLeft + late)
  /\ page' = chosen
  /\ left' = Less(left, pageLeft + late)
  /\ pageLeft' = Never
  /\ restart' = Less(restart, pageLeft + late)
  /\ UNCHANGED <<list, chosen, asked>>

\* A command sets TIMER_CHOOSEPROGAME to 10 ms.
Ask(s) ==
  LET d == s - Second(clock)
  IN  /\ d >= 0
      /\ asked < MaxAsks
      /\ asked' = asked + 1
      /\ Passes(d)
      /\ ChooseProgram(clock')
      /\ restart' = Less(restart, d)
      /\ UNCHANGED <<list, page>>

\* Midnight: the next check finds that the program started yesterday.
Midnight(check) ==
  LET d == DaySeconds - Second(clock)
  IN  /\ restart = Never
      /\ Passes(d)
      /\ restart' = check
      /\ left' = Less(left, d)
      /\ pageLeft' = Less(pageLeft, d)
      /\ UNCHANGED <<list, chosen, page, asked>>

\* RobotProgamme: the new process begins as in Init.
Restart ==
  /\ restart # Never
  /\ Passes(restart)
  /\ chosen' = 0
  /\ left' = 0
  /\ page' = Never
  /\ pageLeft' = Never
  /\ restart' = Never
  /\ UNCHANGED <<list, asked>>

Next ==
  \/ \E late \in 0..MaxLate : ChooseTimer(late)
  \/ \E late \in 0..MaxLate : LoadPage(late)
  \/ \E s \in Asks : Ask(s)
  \/ \E check \in Checks : Midnight(check)
  \/ Restart

\* Time goes on, and the timers with it.
Fairness == WF_vars(\/ \E late \in 0..MaxLate : ChooseTimer(late)
                    \/ \E late \in 0..MaxLate : LoadPage(late)
                    \/ \E check \in Checks : Midnight(check)
                    \/ Restart)

Spec == Init /\ [][Next]_vars /\ Fairness

-----------------------------------------------------------------------------
\* The seconds of the day of an HH:MM
InSeconds(time) == (time \div 10000) * 3600 + ((time \div 100) % 100) * 60

\* What the platform planned for item k on a day: its weeks begin on Monday.
Planned(l, k, day) ==
  UNION {s.windows : s \in {l.items[k][j] : j \in
    {n \in DOMAIN l.items[k] :
       \/ l.mode = PLAY_REPEATDAY
       \/ l.mode = PLAY_WEEKDAY /\ l.items[k][n].weekday = (day + 6) % 7
       \/ l.mode = PLAY_CUSTOMIZE
            /\ day \in l.items[k][n].first .. l.items[k][n].last}}}

(***************************************************************************)
(* An item stays chosen only inside one of its windows: the next pass is   *)
(* due at the latest when the window ends.                                 *)
(***************************************************************************)
NeverPastWindow ==
  chosen # 0 =>
    /\ left # Never
    /\ left # 0 => \E w \in Planned(list, chosen, Day(clock)) :
                     /\ Within(w, CurTime(clock))
                     /\ Second(clock) + left <= InSeconds(w[2])

(***************************************************************************)
(* While the default programme is chosen no window of the day is missed:   *)
(* each is over, or begins no earlier than the next pass.  In a daily list *)
(* the same holds for those of the next day; the other modes leave the     *)
(* first windows of a day to the restart.  A window that crosses midnight  *)
(* holds no time of day: the code never plays it.                          *)
(***************************************************************************)
NothingMissed ==
  chosen = 0 /\ left # 0 /\ (restart = Never \/ list.mode = PLAY_REPEATDAY) =>
    \A w \in UNION {Planned(list, k, Day(clock)) : k \in DOMAIN list.items} :
      w[1] <= w[2] =>
        /\ \/ InSeconds(w[2]) < Second(clock)
           \/ left # Never /\ Second(clock) + left <= InSeconds(w[1])
        /\ list.mode = PLAY_REPEATDAY =>
             /\ left # Never
             /\ Second(clock) + left <= DaySeconds + InSeconds(w[1])

(***************************************************************************)
(* No item stays on the screen long after its window: in no stretch of     *)
(* time between two events is its page still there later than that.  The   *)
(* pass at the end of the window and TIMER_LOADPAGE replace it within 15   *)
(* seconds and the lateness of the timers.  Every pass starts              *)
(* TIMER_LOADPAGE anew: a command that comes between costs 15 seconds      *)
(* more, or a minute if there are so many that the next bound of a window  *)
(* can make a pass as well.  A page of the day before is on the screen     *)
(* only until the restart.                                                 *)
(***************************************************************************)
\* Item k has a window that ended no more than s seconds ago.
LateBy(k, s) ==
  \/ \E w \in Planned(list, k, Day(clock)) :
       w[1] <= CurTime(clock) /\ Second(clock) <= InSeconds(w[2]) + s
  \/ /\ restart # Never
     /\ \E w \in Planned(list, k, (Day(clock) + 6) % 7) :
          DaySeconds + Second(clock) <= InSeconds(w[2]) + s

\* The duration of a step
Elapsed == (clock' - clock) % (7 * DaySeconds)

CommandCost ==
  IF DELAY_TIME + 4 * MaxLate + (DELAY_TIME + MaxLate) * MaxAsks < 60
  THEN DELAY_TIME + MaxLate
  ELSE 60

Slack == DELAY_TIME + 4 * MaxLate + CommandCost * MaxAsks

NotShownLate ==
  [][page \notin {0, Never} => LateBy(page, Slack - Elapsed)]_vars

\* With timers later than that, bounds a minute apart can start TIMER_LOADPAGE
\* anew again and again, and no bound holds.
PromptTimers == DELAY_TIME + 4 * MaxLate < 60

(***************************************************************************)
(* An item that has a window of its own comes onto the screen again and    *)
(* again, through window ends, nights and restarts.  A window is its own   *)
(* when no other item's window of that day overlaps it; it may adjoin.  In *)
(* the modes that need the restart of the day the window must not be over  *)
(* before the memory check has come.                                       *)
(***************************************************************************)
HasOwnWindow(l, k) ==
  \E day \in 0..6 : \E w \in Planned(l, k, day) :
    /\ w[1] < w[2]
    /\ l.mode # PLAY_REPEATDAY => InSeconds(w[2]) > 120
    /\ \A i \in DOMAIN l.items \ {k} : \A v \in Planned(l, i, day) :
         v[2] <= w[1] \/ w[2] <= v[1]

ItemsShown ==
  \A l \in Lists : \A k \in {n \in DOMAIN l.items : HasOwnWindow(l, n)} :
    (list = l) ~> (page = k)

=============================================================================
