------------------------ MODULE ScheduleShownProofs ------------------------
(***************************************************************************)
(* The proof that no item outstays its window on the screen: Schedule's    *)
(* NotShownLate, for all lists, starting times and commands, and for       *)
(* timers late by no more than PromptTimers allows.                        *)
(***************************************************************************)
EXTENDS ScheduleProofs

(***************************************************************************)
(* Full minutes: every time of day at which a window begins or ends is one.*)
(***************************************************************************)
LEMMA Multiple ==
  ASSUME NEW n \in Int
  PROVE  (60 * n) % 60 = 0
  BY SMT

LEMMA FullMinute ==
  ASSUME NEW n \in Int, n % 60 = 0
  PROVE  n = 60 * (n \div 60) /\ n \div 60 \in Int
  BY SMT

LEMMA MinuteSum ==
  ASSUME NEW n \in Int, n % 60 = 0, NEW d \in Int, 0 <= d, d < 60
  PROVE  (n + d) % 60 = d
<1>1. n = 60 * (n \div 60) /\ n \div 60 \in Int
  BY FullMinute
<1> DEFINE q == n \div 60
<1> HIDE DEF q
<1>2. n = 60 * q /\ q \in Int
  BY <1>1 DEF q
<1>3. (60 * q + d) % 60 = d
  BY <1>2, SMT
<1> QED
  BY <1>2, <1>3

LEMMA WholeDays ==
  ASSUME NEW n \in Int, n % 60 = 0
  PROVE  (n - DaySeconds) % 60 = 0 /\ (n + DaySeconds) % 60 = 0
<1>1. n = 60 * (n \div 60) /\ n \div 60 \in Int
  BY FullMinute
<1> DEFINE q == n \div 60
<1> HIDE DEF q
<1>2. n = 60 * q /\ q \in Int
  BY <1>1 DEF q
<1>3. n - DaySeconds = 60 * (q - 1440) /\ n + DaySeconds = 60 * (q + 1440)
  BY <1>2, DaySecondsValue, SMT
<1> QED
  BY <1>2, <1>3, Multiple

LEMMA TimeIsFullMinute ==
  ASSUME NEW w \in Time
  PROVE  InSeconds(w) \in Int /\ InSeconds(w) % 60 = 0
<1>1. PICK h \in Int, m \in Int : InSeconds(w) = h * 3600 + m * 60
  BY TimeFacts, SMT
<1>2. InSeconds(w) = 60 * (h * 60 + m) /\ h * 60 + m \in Int
  BY <1>1, SMT
<1> QED
  BY <1>2, Multiple

(***************************************************************************)
(* A second that is at most late past a full minute, and less than a minute*)
(* past another one, is at most late past that one.                        *)
(***************************************************************************)
LEMMA SnapToMinute ==
  ASSUME NEW n \in Int, NEW late \in Int, n % 60 <= late,
         NEW e \in Int, e % 60 = 0, n < e + 60
  PROVE  n <= e + late
<1>1. e = 60 * (e \div 60) /\ e \div 60 \in Int
  BY FullMinute
<1>2. n = 60 * (n \div 60) + (n % 60) /\ n \div 60 \in Int /\ n % 60 \in Int
      /\ 0 <= n % 60
  BY SMT
<1> DEFINE q == n \div 60
           r == n % 60
           p == e \div 60
<1> HIDE DEF q, r, p
<1>3. /\ e = 60 * p /\ p \in Int
      /\ n = 60 * q + r /\ q \in Int /\ r \in Int /\ 0 <= r /\ r <= late
  BY <1>1, <1>2 DEF p, q, r
<1>4. q <= p
  BY <1>3, SMT
<1> QED
  BY <1>3, <1>4, SMT

(***************************************************************************)
(* What commands can cost.                                                 *)
(***************************************************************************)
LEMMA Costs ==
  ASSUME NEW c \in Nat, NEW m \in Nat, NEW n \in 0..m
  PROVE  /\ c * n \in Int /\ 0 <= c * n /\ c * n <= c * m
         /\ c * (n + 1) = c * n + c
<1>1. n \in Nat /\ m - n \in Nat
  OBVIOUS
<1>2. c * n \in Nat /\ c * (m - n) \in Nat
  BY <1>1
<1>3. c * m = c * n + c * (m - n)
  BY <1>1, SMT
<1>4. c * (n + 1) = c * n + c
  BY <1>1, SMT
<1> QED
  BY <1>2, <1>3, <1>4, SMT

LEMMA CommandCosts ==
  ASSUME PromptTimers, NEW n \in 0..MaxAsks
  PROVE  /\ MaxLate \in Int /\ 1 <= MaxLate /\ MaxLate <= 11
         /\ DELAY_TIME = 15
         /\ CommandCost \in Nat
         /\ DELAY_TIME + MaxLate <= CommandCost
         /\ CommandCost * n \in Int /\ 0 <= CommandCost * n
         /\ CommandCost * (n + 1) = CommandCost * n + CommandCost
         /\ Slack \in Int
         /\ DELAY_TIME + 4 * MaxLate + CommandCost * n <= Slack
         /\ \/ CommandCost = 60
            \/ DELAY_TIME + 4 * MaxLate + CommandCost * n < 60
<1>1. MaxLate \in Nat /\ MaxLate # 0 /\ MaxAsks \in Nat
  BY ScheduleAssumption
<1>2. DELAY_TIME = 15
  BY DEF DELAY_TIME
<1>3. 1 <= MaxLate /\ MaxLate <= 11
  BY <1>1, <1>2, SMT DEF PromptTimers
<1> DEFINE c == CommandCost
<1>4. /\ c \in Nat /\ 15 + MaxLate <= c
      /\ c = 60 \/ (c = 15 + MaxLate /\ 15 + 4 * MaxLate + c * MaxAsks < 60)
  <2>1. CASE DELAY_TIME + 4 * MaxLate + (DELAY_TIME + MaxLate) * MaxAsks < 60
    <3>1. c = DELAY_TIME + MaxLate
      BY <2>1 DEF CommandCost
    <3> HIDE DEF c
    <3> QED
      BY <1>1, <1>2, <2>1, <3>1
  <2>2. CASE ~ (DELAY_TIME + 4 * MaxLate + (DELAY_TIME + MaxLate) * MaxAsks < 60)
    <3>1. c = 60
      BY <2>2 DEF CommandCost
    <3> HIDE DEF c
    <3> QED
      BY <1>1, <1>3, <3>1, SMT
  <2> QED
    BY <2>1, <2>2
<1>5. Slack = 15 + 4 * MaxLate + c * MaxAsks
  BY <1>2 DEF Slack
<1> HIDE DEF c
<1>6. /\ c * n \in Int /\ 0 <= c * n /\ c * n <= c * MaxAsks
      /\ c * (n + 1) = c * n + c
  BY <1>1, <1>4, Costs
<1>7. c * MaxAsks \in Int
  BY <1>1, <1>4
<1> DEFINE a == c * n
           b == c * MaxAsks
<1> HIDE DEF a, b
<1>8. a \in Int /\ 0 <= a /\ a <= b /\ b \in Int
  BY <1>6, <1>7 DEF a, b
<1>9. /\ Slack \in Int /\ 15 + 4 * MaxLate + a <= Slack
      /\ c = 60 \/ 15 + 4 * MaxLate + a < 60
  BY <1>1, <1>4, <1>5, <1>8, SMT DEF b
<1> QED
  BY <1>1, <1>2, <1>3, <1>4, <1>6, <1>9 DEF a, c

(***************************************************************************)
(* The countdowns of a pass lead to the beginning or the end of a window,  *)
(* so to a full minute.                                                    *)
(***************************************************************************)
LEMMA CloseOnTheMinute ==
  ASSUME NEW t \in Clocks, NEW windows, windows \subseteq Time \X Time,
         NEW w \in windows, Within(w, CurTime(t))
  PROVE  (Second(t) + GetCloseTime(windows, CurTime(t))) % 60 = 0
<1>1. PICK f \in Bounds(windows) :
         GetCloseTime(windows, CurTime(t)) = InSeconds(f) - Second(t)
  BY CloseEndsAtNextBound, Zenon
<1>2. InSeconds(f) \in Int /\ InSeconds(f) % 60 = 0 /\ Second(t) \in Int
  BY BoundsFacts, TimeIsFullMinute, ClockFacts
<1>3. Second(t) + GetCloseTime(windows, CurTime(t)) = InSeconds(f)
  BY <1>1, <1>2, SMT
<1> QED
  BY <1>2, <1>3

LEMMA WaitOnTheMinute ==
  ASSUME NEW t \in Clocks, NEW times, times \subseteq Time, NEW mode,
         mode \in {PLAY_REPEATDAY, PLAY_WEEKDAY, PLAY_CUSTOMIZE},
         NEW wait, wait = GetWaitTime(times, CurTime(t), mode),
         times # {} \/ mode # PLAY_REPEATDAY
  PROVE  wait = Never \/ (Second(t) + wait) % 60 = 0
<1>1. Second(t) \in Int /\ DaySeconds \in Int
  BY ClockFacts, DaySecondsType
<1>2. ASSUME NEW f \in times, wait = InSeconds(f) - Second(t)
      PROVE  (Second(t) + wait) % 60 = 0
  <2>1. InSeconds(f) \in Int /\ InSeconds(f) % 60 = 0
    BY TimeIsFullMinute
  <2>2. Second(t) + wait = InSeconds(f)
    BY <1>1, <1>2, <2>1, SMT
  <2> QED
    BY <2>1, <2>2
<1>3. ASSUME NEW f \in times, wait = DaySeconds + InSeconds(f) - Second(t)
      PROVE  (Second(t) + wait) % 60 = 0
  <2>1. InSeconds(f) \in Int /\ InSeconds(f) % 60 = 0
    BY TimeIsFullMinute
  <2>2. Second(t) + wait = InSeconds(f) + DaySeconds
    BY <1>1, <1>3, <2>1, SMT
  <2> QED
    BY <2>1, <2>2, WholeDays
<1>4. \/ \E f \in times : /\ NextBound(f, times, t)
                          /\ wait = InSeconds(f) - Second(t)
      \/ /\ \A v \in times : InSeconds(v) < Second(t)
         /\ \/ mode # PLAY_REPEATDAY /\ wait = Never
            \/ mode = PLAY_REPEATDAY /\ times = {} /\ wait = DaySeconds
            \/ /\ mode = PLAY_REPEATDAY
               /\ \E f \in times :
                    /\ \A v \in times : InSeconds(f) <= InSeconds(v)
                    /\ wait = DaySeconds + InSeconds(f) - Second(t)
  BY WaitEndsAtNextBound
<1> QED
  BY <1>2, <1>3, <1>4, Zenon

LEMMA PassOnTheMinute ==
  ASSUME NEW t \in Clocks, list \in Lists, ChooseProgram(t),
         \/ chosen' # 0
         \/ list.mode # PLAY_REPEATDAY
         \/ AllPlanned(list, Day(t)) # {}
  PROVE  left' = Never \/ (Second(t) + left') % 60 = 0
<1> DEFINE On == {k \in DOMAIN list.items : Matching(list, k, t) # {}}
<1>1. Day(t) \in 0..6
  BY ClockFacts, SMT
<1>2. list \in List
  BY ScheduleAssumption
<1>3. list.items \in Seq(Seq(Segment))
  BY <1>2 DEF List
<1>4. DOMAIN list.items = 1..Len(list.items) /\ Len(list.items) \in Nat
  BY <1>3
<1>5. ASSUME NEW k \in DOMAIN list.items
      PROVE  /\ DOMAIN list.items[k] \subseteq Nat
             /\ \A j \in DOMAIN list.items[k] :
                  list.items[k][j].windows \subseteq Time \X Time
             /\ WindowsOn(list, k, Day(t)) = Planned(list, k, Day(t))
  <2>1. list.items[k] \in Seq(Segment)
    BY <1>3
  <2>2. DOMAIN list.items[k] \subseteq Nat
    BY <2>1
  <2> QED
    BY <2>2, <1>1, ListFacts, FoundIsPlanned
<1>6. CASE On # {}
  <2> DEFINE k == Min(On)
             j == Min(Matching(list, k, t))
  <2>1. k \in On
    <3>1. On \subseteq Nat
      BY <1>4
    <3> QED
      BY <1>6, <3>1, MinFacts
  <2>2. j \in Matching(list, k, t)
    <3>1. Matching(list, k, t) # {}
      BY <2>1
    <3>2. Matching(list, k, t) \subseteq Nat
      BY <2>1, <1>5 DEF Matching, SegmentsOn
    <3> QED
      BY <3>1, <3>2, MinFacts
  <2>3. left' = GetCloseTime(list.items[k][j].windows, CurTime(t))
    BY <1>6 DEF ChooseProgram
  <2>4. k \in DOMAIN list.items
    BY <2>1
  <2> HIDE DEF On, k, j
  <2>5. j \in DOMAIN list.items[k]
    BY <2>2 DEF Matching, SegmentsOn
  <2>6. PICK w \in list.items[k][j].windows : Within(w, CurTime(t))
    BY <2>2 DEF Matching
  <2>7. list.items[k][j].windows \subseteq Time \X Time
    BY <2>4, <2>5, <1>5
  <2> QED
    BY <2>3, <2>6, <2>7, CloseOnTheMinute
<1>7. CASE On = {}
  <2> DEFINE times == Bounds(vecALLHM(list, Day(t)))
  <2>1. /\ chosen' = 0
        /\ left' = GetWaitTime(times, CurTime(t), list.mode)
    BY <1>7 DEF ChooseProgram
  <2>2. vecALLHM(list, Day(t)) = AllPlanned(list, Day(t))
    BY <1>5 DEF vecALLHM, AllPlanned
  <2>3. vecALLHM(list, Day(t)) \subseteq Time \X Time
    <3>1. ASSUME NEW k \in DOMAIN list.items
          PROVE  WindowsOn(list, k, Day(t)) \subseteq Time \X Time
      BY <1>5 DEF WindowsOn, SegmentsOn
    <3> QED
      BY <3>1 DEF vecALLHM
  <2>4. times \subseteq Time
    BY <2>3, BoundsFacts
  <2>5. AllPlanned(list, Day(t)) # {} => times # {}
    BY <2>2 DEF Bounds
  <2>6. list.mode \in {PLAY_REPEATDAY, PLAY_WEEKDAY, PLAY_CUSTOMIZE}
    BY <1>2 DEF List
  <2> HIDE DEF times
  <2> QED
    BY <2>1, <2>4, <2>5, <2>6, WaitOnTheMinute, Zenon
<1> QED
  BY <1>6, <1>7, Zenon

(***************************************************************************)
(* How late an item is: LateBy with the state it is about as arguments.    *)
(***************************************************************************)
LateAt(l, k, t, morning, s) ==
  \/ \E w \in Planned(l, k, Day(t)) :
       w[1] <= CurTime(t) /\ Second(t) <= InSeconds(w[2]) + s
  \/ /\ morning
     /\ \E w \in Planned(l, k, (Day(t) + 6) % 7) :
          DaySeconds + Second(t) <= InSeconds(w[2]) + s

LEMMA DayBefore ==
  ASSUME NEW day \in 0..6
  PROVE  (day + 6) % 7 \in 0..6
  BY SMT

LEMMA PlannedTimes ==
  ASSUME NEW l \in Lists, NEW k \in DOMAIN l.items, NEW day \in 0..6,
         NEW w \in Planned(l, k, day)
  PROVE  /\ w[1] \in Time /\ w[2] \in Time
         /\ InSeconds(w[1]) \in Int
         /\ InSeconds(w[2]) \in Int /\ InSeconds(w[2]) % 60 = 0
<1>1. w \in Time \X Time
  BY PlannedFacts
<1>2. w[1] \in Time /\ w[2] \in Time
  BY <1>1
<1> QED
  BY <1>2, TimeIsFullMinute

\* The day goes on.
LEMMA LateLater ==
  ASSUME NEW l \in Lists, NEW k \in DOMAIN l.items,
         NEW t \in Clocks, NEW u \in Clocks, NEW d \in Int, 0 <= d,
         Day(u) = Day(t), Second(u) = Second(t) + d,
         NEW before, NEW now, before => now,
         NEW s \in Int, LateAt(l, k, t, before, s),
         NEW r \in Int, s + d <= r
  PROVE  LateAt(l, k, u, now, r)
<1>1. /\ Day(t) \in 0..6 /\ (Day(t) + 6) % 7 \in 0..6
      /\ Second(t) \in Int /\ Second(u) \in Int /\ DaySeconds \in Int
  BY ClockFacts, DayBefore, DaySecondsType
<1>2. ASSUME NEW w \in Planned(l, k, Day(t)),
             w[1] <= CurTime(t), Second(t) <= InSeconds(w[2]) + s
      PROVE  w[1] <= CurTime(u) /\ Second(u) <= InSeconds(w[2]) + r
  <2>1. w[1] \in Time /\ InSeconds(w[1]) \in Int /\ InSeconds(w[2]) \in Int
    BY <1>1, PlannedTimes
  <2>2. InSeconds(w[1]) <= Second(t)
    BY <1>2, <2>1, SpanFacts, Zenon
  <2>3. InSeconds(w[1]) <= Second(u)
    BY <1>1, <2>1, <2>2, SMT
  <2>4. w[1] <= CurTime(u)
    BY <2>1, <2>3, SpanFacts, Zenon
  <2>5. Second(u) <= InSeconds(w[2]) + r
    BY <1>1, <1>2, <2>1, SMT
  <2> QED
    BY <2>4, <2>5
<1>3. ASSUME NEW w \in Planned(l, k, (Day(t) + 6) % 7),
             DaySeconds + Second(t) <= InSeconds(w[2]) + s
      PROVE  DaySeconds + Second(u) <= InSeconds(w[2]) + r
  <2>1. InSeconds(w[2]) \in Int
    BY <1>1, PlannedTimes
  <2> QED
    BY <1>1, <1>3, <2>1, SMT
<1> QED
  BY <1>2, <1>3, Zenon DEF LateAt

\* Midnight comes.
LEMMA LateTomorrow ==
  ASSUME NEW l \in Lists, NEW k \in DOMAIN l.items,
         NEW t \in Clocks, NEW u \in Clocks,
         (Day(u) + 6) % 7 = Day(t), Second(u) = 0,
         NEW s \in Int, LateAt(l, k, t, FALSE, s),
         NEW r \in Int, s + (DaySeconds - Second(t)) <= r
  PROVE  LateAt(l, k, u, TRUE, r)
<1>1. Day(t) \in 0..6 /\ Second(t) \in Int /\ DaySeconds \in Int
  BY ClockFacts, DaySecondsType
<1>2. PICK w \in Planned(l, k, Day(t)) : Second(t) <= InSeconds(w[2]) + s
  BY Zenon DEF LateAt
<1>3. InSeconds(w[2]) \in Int
  BY <1>1, PlannedTimes
<1>4. DaySeconds + Second(u) <= InSeconds(w[2]) + r
  BY <1>1, <1>2, <1>3, SMT
<1>5. w \in Planned(l, k, (Day(u) + 6) % 7)
  BY <1>2
<1> QED
  BY <1>4, <1>5, Zenon DEF LateAt

\* At most late past a full minute, an item is late by full minutes and that.
LEMMA LateOnTheMinute ==
  ASSUME NEW l \in Lists, NEW k \in DOMAIN l.items,
         NEW t \in Clocks, NEW late \in Int, Second(t) % 60 <= late,
         NEW morning, NEW s \in Int, LateAt(l, k, t, morning, s),
         NEW n \in Int, s < 60 * n + 60
  PROVE  LateAt(l, k, t, morning, 60 * n + late)
<1>1. /\ Day(t) \in 0..6 /\ (Day(t) + 6) % 7 \in 0..6
      /\ Second(t) \in Int /\ DaySeconds \in Int
  BY ClockFacts, DayBefore, DaySecondsType
<1>2. ASSUME NEW e \in Int, e % 60 = 0
      PROVE  (e + 60 * n) % 60 = 0
  <2>1. e = 60 * (e \div 60) /\ e \div 60 \in Int
    BY <1>2, FullMinute
  <2> DEFINE p == e \div 60
  <2> HIDE DEF p
  <2>2. p \in Int /\ e + 60 * n = 60 * (p + n)
    BY <2>1, SMT DEF p
  <2> QED
    BY <2>2, Multiple
<1>3. ASSUME NEW w \in Planned(l, k, Day(t)), Second(t) <= InSeconds(w[2]) + s
      PROVE  Second(t) <= InSeconds(w[2]) + (60 * n + late)
  <2>1. InSeconds(w[2]) \in Int /\ InSeconds(w[2]) % 60 = 0
    BY <1>1, PlannedTimes
  <2> DEFINE e == InSeconds(w[2]) + 60 * n
  <2>2. e \in Int /\ e % 60 = 0
    BY <1>2, <2>1
  <2>3. Second(t) < e + 60
    BY <1>1, <1>3, <2>1, SMT
  <2>4. Second(t) <= e + late
    BY <1>1, <2>2, <2>3, SnapToMinute
  <2> QED
    BY <1>1, <2>1, <2>4, SMT
<1>4. ASSUME NEW w \in Planned(l, k, (Day(t) + 6) % 7),
             DaySeconds + Second(t) <= InSeconds(w[2]) + s
      PROVE  DaySeconds + Second(t) <= InSeconds(w[2]) + (60 * n + late)
  <2>1. InSeconds(w[2]) \in Int /\ InSeconds(w[2]) % 60 = 0
    BY <1>1, PlannedTimes
  <2> DEFINE e == (InSeconds(w[2]) + 60 * n) - DaySeconds
  <2>2. e \in Int /\ e % 60 = 0
    BY <1>2, <2>1, WholeDays, DaySecondsType
  <2>3. Second(t) < e + 60
    BY <1>1, <1>4, <2>1, SMT
  <2>4. Second(t) <= e + late
    BY <1>1, <2>2, <2>3, SnapToMinute
  <2> QED
    BY <1>1, <2>1, <2>4, SMT
<1> QED
  BY <1>3, <1>4, Zenon DEF LateAt

\* In a daily list an item that has a window has one every day.
LEMMA LateIsPlanned ==
  ASSUME NEW l \in Lists, NEW k \in DOMAIN l.items, NEW t \in Clocks,
         NEW morning, NEW s, LateAt(l, k, t, morning, s),
         l.mode = PLAY_REPEATDAY, NEW day
  PROVE  AllPlanned(l, day) # {}
<1>1. PICK other : Planned(l, k, other) # {}
  BY DEF LateAt
<1>2. Planned(l, k, other) = Planned(l, k, day)
  BY DEF Planned
<1> QED
  BY <1>1, <1>2 DEF AllPlanned

-----------------------------------------------------------------------------
(***************************************************************************)
(* The inductive invariant.  A timer that is due is late once for its own  *)
(* wait, once more if TIMER_LOADPAGE came first (which it does once: only  *)
(* a pass starts it again), and once more if midnight came first (which it *)
(* does once: the restart follows).                                        *)
(***************************************************************************)
Nights == IF restart = Never THEN 0 ELSE MaxLate
Overdue == (IF pageLeft = Never THEN MaxLate ELSE 0) + Nights

\* The pass that ends the window of the chosen item is not far.
ChosenInTime == chosen # 0 => LateBy(chosen, Overdue - left)

\* A page that a pass has given up is replaced when TIMER_LOADPAGE comes.
Budget == DELAY_TIME + 2 * MaxLate + Nights + CommandCost * asked

StaleInTime ==
  page \notin {0, Never, chosen} =>
    pageLeft # Never /\ LateBy(page, Budget - pageLeft)

\* Passes without a command come at full minutes, as windows begin and end.
DueOnTheMinute ==
  (page \notin {0, Never} \/ chosen # 0) /\ left # Never =>
    IF left = 0
    THEN Second(clock) % 60 <= IF pageLeft = Never THEN MaxLate ELSE 0
    ELSE (Second(clock) + left) % 60 = 0

ShownInv == ChosenInTime /\ StaleInTime /\ DueOnTheMinute


(***************************************************************************)
(* Facts about a state and a stretch of time.                              *)
(***************************************************************************)
LEMMA NextDay ==
  ASSUME NEW n \in Int, 0 <= n, n < 604800,
         NEW d \in Int, d = 86400 - (n % 86400),
         NEW m \in Int, m = (n + d) % 604800
  PROVE  ((m \div 86400) + 6) % 7 = n \div 86400
<1>1. n + d = (n \div 86400 + 1) * 86400
  BY SMT
<1>2. n \div 86400 \in Int /\ 0 <= n \div 86400 /\ n \div 86400 <= 6
  BY SMT
<1> DEFINE q == n \div 86400
<1> HIDE DEF q
<1>3. n + d = (q + 1) * 86400 /\ q \in Int /\ 0 <= q /\ q <= 6
  BY <1>1, <1>2 DEF q
<1>4. CASE q <= 5
  <2>1. m = (q + 1) * 86400
    BY <1>3, <1>4, SMT
  <2>2. m \div 86400 = q + 1
    BY <1>3, <2>1, SMT
  <2>3. ((q + 1) + 6) % 7 = q
    BY <1>3, <1>4, SMT
  <2> QED
    BY <2>2, <2>3 DEF q
<1>5. CASE q = 6
  <2>1. m = 0
    BY <1>3, <1>5, SMT
  <2>2. m \div 86400 = 0
    BY <2>1, SMT
  <2>3. (0 + 6) % 7 = 6
    BY SMT
  <2> QED
    BY <1>5, <2>2, <2>3 DEF q
<1> QED
  BY <1>3, <1>4, <1>5, SMT

LEMMA DayAfter ==
  ASSUME clock \in Clocks, Passes(DaySeconds - Second(clock))
  PROVE  (Day(clock') + 6) % 7 = Day(clock)
<1>1. clock \in Int /\ 0 <= clock /\ clock < 604800
  BY ClockRange, DaySecondsValue, SMT
<1> DEFINE d == 86400 - (clock % 86400)
<1>2. d \in Int
  BY <1>1, SMT
<1>3. clock' = (clock + d) % 604800
  BY <1>1, DaySecondsValue, SMT DEF Passes, Second
<1>4. clock' \in Int
  BY <1>1, <1>2, <1>3, SMT
<1>5. ((clock' \div 86400) + 6) % 7 = clock \div 86400
  BY <1>1, <1>2, <1>3, <1>4, NextDay
<1> QED
  BY <1>5, DaySecondsValue DEF Day

LEMMA Duration ==
  ASSUME clock \in Clocks, NEW d \in Int, 0 <= d, Passes(d)
  PROVE  Elapsed = d
<1>1. clock \in Int /\ 0 <= clock /\ clock < 604800
  BY ClockRange, DaySecondsValue, SMT
<1>2. clock' = (clock + d) % 604800 /\ Elapsed = (clock' - clock) % 604800
  BY DaySecondsValue, SMT DEF Passes, Elapsed
<1>3. d <= 86400
  <2>1. d <= DaySeconds - Second(clock)
    BY DEF Passes
  <2> QED
    BY <2>1, ClockFacts, DaySecondsValue, SMT
<1>4. CASE clock + d < 604800
  BY <1>1, <1>2, <1>3, <1>4, SMT
<1>5. CASE clock + d >= 604800
  <2>1. clock' = clock + d - 604800
    BY <1>1, <1>2, <1>3, <1>5, SMT
  <2>2. clock' - clock = d - 604800
    BY <1>1, <2>1, SMT
  <2>3. (d - 604800) % 604800 = d
    BY <1>3, SMT
  <2> QED
    BY <1>2, <2>2, <2>3
<1> QED
  BY <1>1, <1>4, <1>5, SMT

LEMMA LessIsOver ==
  ASSUME NEW timer \in Int, timer # Never, NEW d \in Int, Less(timer, d) = 0
  PROVE  timer <= d
<1>1. CASE timer >= d
  <2>1. Less(timer, d) = timer - d
    BY <1>1 DEF Less
  <2> QED
    BY <2>1
<1> QED
  BY <1>1

LEMMA Items ==
  ASSUME TypeOK
  PROVE  /\ page \notin {0, Never} => page \in DOMAIN list.items
         /\ chosen # 0 => chosen \in DOMAIN list.items
<1>1. list \in List
  BY Types, ScheduleAssumption
<1>2. list.items \in Seq(Seq(Segment))
  BY <1>1 DEF List
<1>3. DOMAIN list.items = 1..Len(list.items) /\ Len(list.items) \in Nat
  BY <1>2
<1> QED
  BY <1>3, Types, SMT

LEMMA Numbers ==
  ASSUME TypeOK, PromptTimers
  PROVE  /\ MaxLate \in Int /\ 1 <= MaxLate /\ MaxLate <= 11 /\ DELAY_TIME = 15
         /\ asked \in Int /\ CommandCost * asked \in Int /\ 0 <= CommandCost * asked
         /\ Nights \in Int /\ 0 <= Nights /\ Nights <= MaxLate
         /\ Overdue \in Int /\ Nights <= Overdue /\ Overdue <= Nights + MaxLate
         /\ pageLeft # Never => Overdue = Nights
         /\ pageLeft = Never => Overdue = Nights + MaxLate
         /\ Budget \in Int
         /\ Budget = DELAY_TIME + 2 * MaxLate + Nights + CommandCost * asked
         /\ left # Never => left \in Int /\ 0 <= left
         /\ pageLeft # Never => pageLeft \in Int /\ 0 <= pageLeft
         /\ Slack \in Int /\ Budget + MaxLate <= Slack
         /\ Overdue + MaxLate <= Slack
<1>1. /\ MaxLate \in Int /\ 1 <= MaxLate /\ MaxLate <= 11 /\ DELAY_TIME = 15
      /\ CommandCost * asked \in Int /\ 0 <= CommandCost * asked
      /\ Slack \in Int
      /\ DELAY_TIME + 4 * MaxLate + CommandCost * asked <= Slack
  BY Types, CommandCosts
<1>2. asked \in Int
  BY Types, ScheduleAssumption
<1>3. Nights = 0 \/ Nights = MaxLate
  BY DEF Nights
<1>4. /\ pageLeft # Never => Overdue = Nights
      /\ pageLeft = Never => Overdue = Nights + MaxLate
  <2>1. Nights \in Int
    BY <1>1, <1>3
  <2>2. pageLeft = Never => Overdue = MaxLate + Nights
    BY DEF Overdue
  <2>3. pageLeft # Never => Overdue = 0 + Nights
    BY DEF Overdue
  <2> HIDE DEF Overdue, Nights
  <2> QED
    BY <1>1, <2>1, <2>2, <2>3
<1>5. Budget = DELAY_TIME + 2 * MaxLate + Nights + CommandCost * asked
  BY DEF Budget
<1>6. /\ left # Never => left \in Int /\ 0 <= left
      /\ pageLeft # Never => pageLeft \in Int /\ 0 <= pageLeft
  BY Types, Zenon DEF Timer
<1> DEFINE c == CommandCost * asked
<1> HIDE DEF c
<1>7. c \in Int /\ 0 <= c /\ DELAY_TIME + 4 * MaxLate + c <= Slack
      /\ Budget = DELAY_TIME + 2 * MaxLate + Nights + c
  BY <1>1, <1>5 DEF c
<1>8. /\ Budget \in Int /\ Budget + MaxLate <= Slack
      /\ Nights \in Int /\ 0 <= Nights /\ Nights <= MaxLate
  BY <1>1, <1>3, <1>7, SMT
<1>9. /\ Overdue \in Int /\ Nights <= Overdue /\ Overdue <= Nights + MaxLate
      /\ Overdue + MaxLate <= Slack
  BY <1>1, <1>4, <1>7, <1>8, SMT
<1> QED
  BY <1>1, <1>2, <1>4, <1>5, <1>6, <1>8, <1>9

(***************************************************************************)
(* An item on the screen, chosen or given up: how late it is now.          *)
(***************************************************************************)
LEMMA OnTheScreen ==
  ASSUME Inv, ShownInv, PromptTimers, page \notin {0, Never}
  PROVE  /\ page \in DOMAIN list.items
         /\ page = chosen =>
              /\ left # Never
              /\ LateAt(list, page, clock, restart # Never, Overdue - left)
         /\ page # chosen =>
              /\ pageLeft # Never
              /\ LateAt(list, page, clock, restart # Never, Budget - pageLeft)
<1>1. TypeOK /\ NeverPastWindow
  BY DEF Inv
<1>2. page \in DOMAIN list.items
  BY <1>1, Items
<1>3. ASSUME page = chosen
      PROVE  left # Never /\ LateAt(list, page, clock, restart # Never, Overdue - left)
  <2>1. chosen # 0
    BY <1>3
  <2>2. left # Never
    BY <1>1, <2>1, Zenon DEF NeverPastWindow
  <2>3. LateBy(chosen, Overdue - left)
    BY <2>1, Zenon DEF ShownInv, ChosenInTime
  <2> QED
    BY <1>3, <2>2, <2>3, Zenon DEF LateBy, LateAt
<1>4. ASSUME page # chosen
      PROVE  pageLeft # Never /\ LateAt(list, page, clock, restart # Never, Budget - pageLeft)
  <2>1. page \notin {0, Never, chosen}
    BY <1>4
  <2>2. pageLeft # Never /\ LateBy(page, Budget - pageLeft)
    BY <2>1, Zenon DEF ShownInv, StaleInTime
  <2> QED
    BY <2>2, Zenon DEF LateBy, LateAt
<1> QED
  BY <1>2, <1>3, <1>4, Zenon


(***************************************************************************)
(* How the steps keep the invariant.                                       *)
(***************************************************************************)
LEMMA NightsPass ==
  ASSUME TypeOK, NEW d \in Int, 0 <= d, restart' = Less(restart, d)
  PROVE  restart' # Never <=> restart # Never
<1>1. Timer(restart, 120) /\ 120 \in Int
  BY Types
<1>2. restart # Never => Less(restart, d) \in Int /\ 0 <= Less(restart, d)
  BY <1>1, LessFacts, Zenon DEF Timer
<1>3. restart = Never => Less(restart, d) = Never
  BY <1>1, LessFacts, Zenon DEF Timer
<1>4. \A x : x \in Int /\ 0 <= x => x # Never
  BY SMT DEF Never
<1> QED
  BY <1>2, <1>3, <1>4, Zenon

\* A pass, from TIMER_CHOOSEPROGAME or from a command
LEMMA PassShown ==
  ASSUME Inv, ShownInv, PromptTimers,
         NEW d \in Int, 0 <= d, d < DaySeconds - Second(clock), Passes(d),
         ChooseProgram(clock'), restart' = Less(restart, d),
         UNCHANGED <<list, page>>,
         \/ /\ asked' = asked /\ left # Never
            /\ \E late \in 0..MaxLate : d = left + late
         \/ asked' = asked + 1 /\ asked < MaxAsks
  PROVE  ShownInv'
<1>1. /\ TypeOK /\ NeverPastWindow
      /\ clock \in Clocks /\ list \in Lists /\ asked \in 0..MaxAsks
      /\ list' = list /\ page' = page
  BY Types DEF Inv
<1>2. /\ clock' \in Clocks /\ Day(clock') = Day(clock)
      /\ Second(clock') = Second(clock) + d
      /\ Second(clock) \in Int /\ Second(clock') \in Int
  BY <1>1, PassesFacts, ClockFacts
<1>3. /\ pageLeft' = DELAY_TIME
      /\ chosen' \in 0..Len(list.items)
      /\ chosen' # 0 =>
           /\ left' \in Int /\ 0 <= left'
           /\ \E w \in Planned(list, chosen', Day(clock')) :
                /\ Within(w, CurTime(clock'))
                /\ Second(clock') + left' <= InSeconds(w[2])
  BY <1>1, <1>2, ChooseFacts, Zenon
<1>4. DELAY_TIME # Never
  BY SMT DEF DELAY_TIME, Never
<1>5. restart' # Never <=> restart # Never
  BY <1>1, NightsPass
<1>6. Nights' = Nights
  BY <1>5, Zenon DEF Nights
<1>7. /\ MaxLate \in Int /\ 1 <= MaxLate /\ MaxLate <= 11 /\ DELAY_TIME = 15
      /\ Nights \in Int /\ 0 <= Nights /\ Nights <= MaxLate
      /\ asked \in Int /\ CommandCost * asked \in Int /\ 0 <= CommandCost * asked
      /\ CommandCost \in Nat /\ DELAY_TIME + MaxLate <= CommandCost
      /\ CommandCost * (asked + 1) = CommandCost * asked + CommandCost
      /\ CommandCost = 60 \/ DELAY_TIME + 4 * MaxLate + CommandCost * asked < 60
  BY <1>1, Numbers, CommandCosts
<1>8. Overdue' = Nights
  <2>1. Overdue' = 0 + Nights'
    BY <1>3, <1>4 DEF Overdue
  <2> QED
    BY <1>6, <1>7, <2>1
<1>9. Passes(d) => /\ left # Never => d <= left + MaxLate
                   /\ pageLeft # Never => d <= pageLeft + MaxLate
  BY DEF Passes
<1>10. ChosenInTime'
  <2> SUFFICES ASSUME chosen' # 0
               PROVE  LateAt(list, chosen', clock', restart' # Never, Nights - left')
    BY <1>1, <1>8, Zenon DEF ChosenInTime, LateBy, LateAt
  <2>1. PICK w \in Planned(list, chosen', Day(clock')) :
          Within(w, CurTime(clock')) /\ Second(clock') + left' <= InSeconds(w[2])
    BY <1>3, Zenon
  <2>2. InSeconds(w[2]) \in Int
    <3>1. Day(clock') \in 0..6
      BY <1>2, ClockFacts
    <3>2. list \in List
      BY <1>1, ScheduleAssumption
    <3>3. list.items \in Seq(Seq(Segment))
      BY <3>2 DEF List
    <3>4. chosen' \in DOMAIN list.items
      BY <1>3, <3>3
    <3> QED
      BY <1>1, <2>1, <3>1, <3>4, PlannedTimes
  <2>3. left' \in Int
    BY <1>3, Zenon
  <2>4. Second(clock') <= InSeconds(w[2]) + (Nights - left')
    BY <1>2, <1>7, <2>1, <2>2, <2>3, SMT
  <2> QED
    BY <2>1, <2>4, Zenon DEF LateAt, Within
<1>11. DueOnTheMinute'
  <2> SUFFICES ASSUME page \notin {0, Never} \/ chosen' # 0, left' # Never
               PROVE  IF left' = 0 THEN Second(clock') % 60 <= 0
                                   ELSE (Second(clock') + left') % 60 = 0
    BY <1>1, <1>3, <1>4, Zenon DEF DueOnTheMinute
  <2>1. chosen' # 0 \/ list.mode # PLAY_REPEATDAY \/ AllPlanned(list, Day(clock')) # {}
    <3> SUFFICES ASSUME page \notin {0, Never}, list.mode = PLAY_REPEATDAY
                 PROVE  AllPlanned(list, Day(clock')) # {}
      OBVIOUS
    <3>1. page \in DOMAIN list.items
      BY OnTheScreen
    <3>2. \/ LateAt(list, page, clock, restart # Never, Overdue - left)
          \/ LateAt(list, page, clock, restart # Never, Budget - pageLeft)
      BY OnTheScreen, Zenon
    <3> QED
      BY <1>1, <3>1, <3>2, LateIsPlanned
  <2>2. (Second(clock') + left') % 60 = 0
    BY <1>1, <1>2, <2>1, PassOnTheMinute
  <2>3. left' = 0 => Second(clock') % 60 <= 0
    BY <1>2, <2>2, SMT
  <2> QED
    BY <2>2, <2>3
<1>12. StaleInTime'
  <2> SUFFICES ASSUME page \notin {0, Never}
               PROVE  LateAt(list, page, clock', restart' # Never,
                             Budget' - DELAY_TIME)
    BY <1>1, <1>3, <1>4, Zenon DEF StaleInTime, LateBy, LateAt
  <2>1. page \in DOMAIN list.items
    BY OnTheScreen
  <2>2. /\ Budget' = DELAY_TIME + 2 * MaxLate + Nights + CommandCost * asked'
        /\ CommandCost * asked' \in Int
        /\ CommandCost * asked <= CommandCost * asked'
    <3>1. Budget' = DELAY_TIME + 2 * MaxLate + Nights' + CommandCost * asked'
      BY DEF Budget
    <3>2. asked' = asked \/ asked' = asked + 1
      OBVIOUS
    <3>3. CommandCost * asked' = CommandCost * asked
            \/ CommandCost * asked' = CommandCost * asked + CommandCost
      BY <1>7, <3>2
    <3> DEFINE a == CommandCost * asked
               b == CommandCost * asked'
    <3> HIDE DEF a, b
    <3>4. b \in Int /\ a <= b
      <4>1. a \in Int /\ CommandCost \in Nat /\ (b = a \/ b = a + CommandCost)
        BY <1>7, <3>3 DEF a, b
      <4> QED
        BY <4>1, SMT
    <3> QED
      BY <1>6, <3>1, <3>4 DEF a, b
  <2> DEFINE a == CommandCost * asked
             b == CommandCost * asked'
  <2>3. /\ a \in Int /\ 0 <= a /\ b \in Int /\ a <= b
        /\ Budget = DELAY_TIME + 2 * MaxLate + Nights + a
        /\ Budget' = DELAY_TIME + 2 * MaxLate + Nights + b
        /\ CommandCost = 60 \/ DELAY_TIME + 4 * MaxLate + a < 60
        /\ asked' = asked + 1 => b = a + CommandCost
    BY <1>1, <1>7, <2>2, Numbers
  <2>4. /\ Overdue \in Int /\ Overdue <= Nights + MaxLate
        /\ left # Never => left \in Int
        /\ pageLeft # Never => pageLeft \in Int
    BY <1>1, Numbers
  <2>5. CommandCost = 60 => a = 60 * asked
    OBVIOUS
  <2> HIDE DEF a, b
  <2>6. CASE page = chosen
    <3>1. left # Never /\ LateAt(list, page, clock, restart # Never, Overdue - left)
      BY <2>6, OnTheScreen, Zenon
    <3>2. Overdue - left \in Int /\ Budget' - DELAY_TIME \in Int
      BY <1>7, <2>3, <2>4, <3>1, SMT
    <3>3. (Overdue - left) + d <= Budget' - DELAY_TIME
      BY <1>7, <1>9, <2>3, <2>4, <3>1, SMT
    <3> QED
      BY <1>1, <1>2, <1>5, <2>1, <3>1, <3>2, <3>3, LateLater
  <2>7. CASE page # chosen
    <3>1. pageLeft # Never /\ LateAt(list, page, clock, restart # Never, Budget - pageLeft)
      BY <2>7, OnTheScreen, Zenon
    <3>2. Budget - pageLeft \in Int /\ Budget' - DELAY_TIME \in Int /\ Budget + MaxLate \in Int
      BY <1>7, <2>3, <2>4, <3>1, SMT
    <3>3. (Budget - pageLeft) + d <= Budget + MaxLate
      BY <1>7, <1>9, <2>3, <2>4, <3>1, SMT
    <3>4. CASE asked' = asked + 1
      <4>1. Budget + MaxLate <= Budget' - DELAY_TIME
        BY <1>7, <2>3, <3>4, SMT
      <4>2. (Budget - pageLeft) + d <= Budget' - DELAY_TIME
        BY <2>4, <3>1, <3>2, <3>3, <4>1, SMT
      <4> QED
        BY <1>1, <1>2, <1>5, <2>1, <3>1, <3>2, <4>2, LateLater
    <3>5. CASE \E late \in 0..MaxLate : d = left + late
      <4>1. PICK late \in 0..MaxLate : d = left + late
        BY <3>5
      <4>2. CASE left = Never
        BY <1>7, <3>4, <4>2
      <4>3. CASE left # Never
        <5>1. (Second(clock) + left) % 60 = 0
          <6>1. IF left = 0 THEN Second(clock) % 60 <= 0
                            ELSE (Second(clock) + left) % 60 = 0
            BY <3>1, <4>3, Zenon DEF ShownInv, DueOnTheMinute
          <6> QED
            BY <1>2, <6>1, SMT
        <5>2. late \in Int /\ 0 <= late /\ late <= MaxLate /\ late < 60
          BY <1>7, <4>1, SMT
        <5>3. Second(clock) + left \in Int /\ Second(clock') = (Second(clock) + left) + late
          BY <1>2, <2>4, <4>1, <4>3, <5>2, SMT
        <5>4. Second(clock') % 60 <= MaxLate
          BY <5>1, <5>2, <5>3, MinuteSum
        <5>5. LateAt(list, page, clock', restart' # Never, Budget + MaxLate)
          BY <1>1, <1>2, <1>5, <2>1, <3>1, <3>2, <3>3, LateLater
        <5>6. PICK n \in Int : 60 * n <= a /\ Budget + MaxLate < 60 * n + 60
          <6>1. CASE CommandCost = 60
            <7>1. a = 60 * asked
              BY <2>5, <6>1
            <7>2. Budget + MaxLate < 60 * asked + 60
              BY <1>7, <2>3, <7>1, SMT
            <7>3. 60 * asked <= a
              BY <1>7, <2>3, <7>1, SMT
            <7> QED
              BY <1>7, <7>2, <7>3
          <6>2. CASE DELAY_TIME + 4 * MaxLate + a < 60
            <7>1. 60 * 0 <= a /\ Budget + MaxLate < 60 * 0 + 60
              BY <1>7, <2>3, <6>2, SMT
            <7> QED
              BY <7>1
          <6> QED
            BY <2>3, <6>1, <6>2
        <5>7. LateAt(list, page, clock', restart' # Never, 60 * n + MaxLate)
          BY <1>1, <1>2, <1>7, <2>1, <3>2, <5>4, <5>5, <5>6, LateOnTheMinute
        <5>8. 60 * n + MaxLate \in Int /\ (60 * n + MaxLate) + 0 <= Budget' - DELAY_TIME
          BY <1>7, <2>3, <5>6, SMT
        <5>9. Second(clock') = Second(clock') + 0 /\ 0 \in Int /\ 0 <= 0
          BY <1>2
        <5> QED
          BY <1>1, <1>2, <2>1, <3>2, <5>7, <5>8, <5>9, LateLater
      <4> QED
        BY <4>2, <4>3
    <3> QED
      BY <3>4, <3>5
  <2> QED
    BY <2>6, <2>7
<1> QED
  BY <1>10, <1>11, <1>12 DEF ShownInv


\* TIMER_LOADPAGE shows the chosen item.
LEMMA LoadShown ==
  ASSUME Inv, ShownInv, PromptTimers, NEW late \in 0..MaxLate, LoadPage(late)
  PROVE  ShownInv'
<1> DEFINE d == pageLeft + late
<1>1. /\ TypeOK /\ NeverPastWindow
      /\ clock \in Clocks /\ list \in Lists /\ Timer(left, DaySeconds)
      /\ pageLeft # Never /\ pageLeft' = Never
      /\ Passes(d) /\ d < DaySeconds - Second(clock)
      /\ left' = Less(left, d) /\ restart' = Less(restart, d)
      /\ list' = list /\ chosen' = chosen /\ page' = chosen
  BY Types DEF Inv, LoadPage
<1>2. /\ MaxLate \in Int /\ 1 <= MaxLate /\ MaxLate <= 11
      /\ Nights \in Int /\ 0 <= Nights /\ Overdue = Nights
      /\ left # Never => left \in Int /\ 0 <= left
      /\ pageLeft \in Int /\ 0 <= pageLeft
  BY <1>1, Numbers
<1>3. d \in Int /\ 0 <= d
  BY <1>2
<1> HIDE DEF d
<1>4. /\ clock' \in Clocks /\ Day(clock') = Day(clock)
      /\ Second(clock') = Second(clock) + d
      /\ Second(clock) \in Int
  BY <1>1, <1>3, PassesFacts, ClockFacts
<1>5. restart' # Never <=> restart # Never
  BY <1>1, <1>3, NightsPass
<1>6. Overdue' = MaxLate + Nights
  <2>1. Nights' = Nights
    BY <1>5, Zenon DEF Nights
  <2> QED
    BY <1>1, <2>1 DEF Overdue
<1>7. /\ left = Never => left' = Never
      /\ left # Never =>
           /\ left' \in Int /\ 0 <= left'
           /\ left' # 0 => left' = left - d
           /\ left' = 0 => left <= d
           /\ d <= left + MaxLate
  <2>1. left = Never => left' = Never
    BY <1>1, <1>3, DaySecondsType, LessFacts, Zenon DEF Timer
  <2>2. left # Never => /\ left' \in Int /\ 0 <= left'
                        /\ left' # 0 => left' = left - d
    BY <1>1, <1>3, DaySecondsType, LessFacts, Zenon DEF Timer
  <2>3. left # Never /\ left' = 0 => left <= d
    BY <1>1, <1>2, <1>3, LessIsOver
  <2>4. left # Never => d <= left + MaxLate
    BY <1>1 DEF Passes
  <2> QED
    BY <2>1, <2>2, <2>3, <2>4
<1>8. ChosenInTime'
  <2> SUFFICES ASSUME chosen # 0
               PROVE  LateAt(list, chosen, clock', restart' # Never,
                             (MaxLate + Nights) - left')
    BY <1>1, <1>6, Zenon DEF ChosenInTime, LateBy, LateAt
  <2>1. left # Never /\ chosen \in DOMAIN list.items
    BY <1>1, Items, Zenon DEF NeverPastWindow
  <2>2. LateAt(list, chosen, clock, restart # Never, Overdue - left)
    BY Zenon DEF ShownInv, ChosenInTime, LateBy, LateAt
  <2>3. /\ Overdue - left \in Int /\ (MaxLate + Nights) - left' \in Int
        /\ (Overdue - left) + d <= (MaxLate + Nights) - left'
    BY <1>2, <1>3, <1>7, <2>1, SMT
  <2> QED
    BY <1>1, <1>3, <1>4, <1>5, <2>1, <2>2, <2>3, LateLater
<1>9. StaleInTime'
  BY <1>1, Zenon DEF StaleInTime
<1>10. DueOnTheMinute'
  <2> SUFFICES ASSUME chosen # 0, left' # Never
               PROVE  IF left' = 0 THEN Second(clock') % 60 <= MaxLate
                                   ELSE (Second(clock') + left') % 60 = 0
    BY <1>1, Zenon DEF DueOnTheMinute
  <2>1. left # Never
    BY <1>7
  <2>2. (Second(clock) + left) % 60 = 0
    <3>1. IF left = 0 THEN Second(clock) % 60 <= 0
                      ELSE (Second(clock) + left) % 60 = 0
      BY <1>1, <2>1, Zenon DEF ShownInv, DueOnTheMinute
    <3> QED
      BY <1>4, <3>1, SMT
  <2>3. CASE left' = 0
    <3>1. /\ d - left \in Int /\ 0 <= d - left /\ d - left <= MaxLate /\ d - left < 60
          /\ Second(clock) + left \in Int
          /\ Second(clock') = (Second(clock) + left) + (d - left)
      BY <1>2, <1>3, <1>4, <1>7, <2>1, <2>3, SMT
    <3>2. Second(clock') % 60 = d - left
      BY <2>2, <3>1, MinuteSum
    <3> QED
      BY <2>3, <3>1, <3>2
  <2>4. CASE left' # 0
    <3>1. Second(clock') + left' = Second(clock) + left
      BY <1>2, <1>3, <1>4, <1>7, <2>1, <2>4, SMT
    <3> QED
      BY <2>2, <2>4, <3>1
  <2> QED
    BY <2>3, <2>4
<1> QED
  BY <1>8, <1>9, <1>10 DEF ShownInv

\* Midnight makes a window of today one of yesterday.
LEMMA MidnightShown ==
  ASSUME Inv, ShownInv, PromptTimers, NEW check \in Checks, Midnight(check)
  PROVE  ShownInv'
<1> DEFINE d == DaySeconds - Second(clock)
<1>1. /\ TypeOK /\ NeverPastWindow
      /\ clock \in Clocks /\ list \in Lists
      /\ Timer(left, DaySeconds) /\ Timer(pageLeft, DELAY_TIME)
      /\ restart = Never /\ restart' = check
      /\ Passes(d)
      /\ left' = Less(left, d) /\ pageLeft' = Less(pageLeft, d)
      /\ list' = list /\ chosen' = chosen /\ page' = page /\ asked' = asked
  BY Types DEF Inv, Midnight
<1>2. /\ MaxLate \in Int /\ 1 <= MaxLate /\ MaxLate <= 11 /\ DELAY_TIME = 15
      /\ Overdue \in Int /\ Budget \in Int
      /\ CommandCost * asked \in Int
      /\ Budget = DELAY_TIME + 2 * MaxLate + Nights + CommandCost * asked
      /\ left # Never => left \in Int /\ 0 <= left
      /\ pageLeft # Never => pageLeft \in Int /\ 0 <= pageLeft
      /\ pageLeft # Never => Overdue = Nights
      /\ pageLeft = Never => Overdue = Nights + MaxLate
  BY <1>1, Numbers
<1>3. /\ Second(clock) \in Int /\ Second(clock) < DaySeconds /\ DaySeconds \in Int
      /\ d \in Int /\ 0 <= d
  BY <1>1, ClockFacts, DaySecondsType, SMT
<1>4. clock' \in Clocks /\ Second(clock') = 0 /\ (Day(clock') + 6) % 7 = Day(clock)
  BY <1>1, <1>3, PassesFacts, DayAfter
<1>5. restart' # Never
  <2>1. check \in 0..120
    BY ScheduleAssumption
  <2> QED
    BY <1>1, <2>1, SMT DEF Never
<1>6. /\ left = Never => left' = Never
      /\ left # Never =>
           /\ left' \in Int /\ 0 <= left'
           /\ left' # 0 => left' = left - d
           /\ d <= left + MaxLate
  <2>1. left = Never => left' = Never
    BY <1>1, <1>3, DaySecondsType, LessFacts, Zenon DEF Timer
  <2>2. left # Never => /\ left' \in Int /\ 0 <= left'
                        /\ left' # 0 => left' = left - d
    BY <1>1, <1>3, DaySecondsType, LessFacts, Zenon DEF Timer
  <2>3. left # Never => d <= left + MaxLate
    BY <1>1 DEF Passes
  <2> QED
    BY <2>1, <2>2, <2>3
<1>7. /\ pageLeft = Never => pageLeft' = Never
      /\ pageLeft # Never =>
           /\ pageLeft' \in Int /\ 0 <= pageLeft' /\ pageLeft' # Never
           /\ pageLeft' # 0 => pageLeft' = pageLeft - d
           /\ d <= pageLeft + MaxLate
  <2>1. DELAY_TIME \in Int
    BY <1>2
  <2>2. pageLeft = Never => pageLeft' = Never
    BY <1>1, <1>3, <2>1, LessFacts, Zenon DEF Timer
  <2>3. pageLeft # Never => /\ pageLeft' \in Int /\ 0 <= pageLeft'
                            /\ pageLeft' # 0 => pageLeft' = pageLeft - d
    BY <1>1, <1>3, <2>1, LessFacts, Zenon DEF Timer
  <2>4. pageLeft # Never => d <= pageLeft + MaxLate
    BY <1>1 DEF Passes
  <2>5. \A x : x \in Int /\ 0 <= x => x # Never
    BY SMT DEF Never
  <2> QED
    BY <2>2, <2>3, <2>4, <2>5, Zenon
<1>8. Nights = 0 /\ Nights' = MaxLate
  BY <1>1, <1>5 DEF Nights
<1>9. Overdue' = Overdue + MaxLate /\ Budget' = Budget + MaxLate
  <2>1. Budget' = DELAY_TIME + 2 * MaxLate + Nights' + CommandCost * asked
    BY <1>1 DEF Budget
  <2>2. Overdue' = (IF pageLeft' = Never THEN MaxLate ELSE 0) + Nights'
    BY DEF Overdue
  <2>3. pageLeft' = Never <=> pageLeft = Never
    BY <1>7, Zenon
  <2> DEFINE c == CommandCost * asked
  <2> HIDE DEF c
  <2>4. c \in Int /\ Budget = DELAY_TIME + 2 * MaxLate + Nights + c
        /\ Budget' = DELAY_TIME + 2 * MaxLate + Nights' + c
    BY <1>2, <2>1 DEF c
  <2>5. Budget' = Budget + MaxLate
    BY <1>2, <1>8, <2>4, SMT
  <2>6. Overdue' = Overdue + MaxLate
    BY <1>2, <1>8, <2>2, <2>3, SMT
  <2> QED
    BY <2>5, <2>6
<1> HIDE DEF d
<1>10. ChosenInTime'
  <2> SUFFICES ASSUME chosen # 0
               PROVE  LateAt(list, chosen, clock', TRUE, (Overdue + MaxLate) - left')
    BY <1>1, <1>5, <1>9, Zenon DEF ChosenInTime, LateBy, LateAt
  <2>1. left # Never /\ chosen \in DOMAIN list.items
    BY <1>1, Items, Zenon DEF NeverPastWindow
  <2>2. LateAt(list, chosen, clock, FALSE, Overdue - left)
    BY <1>1, Zenon DEF ShownInv, ChosenInTime, LateBy, LateAt
  <2>3. /\ Overdue - left \in Int /\ (Overdue + MaxLate) - left' \in Int
        /\ (Overdue - left) + d <= (Overdue + MaxLate) - left'
    BY <1>2, <1>3, <1>6, <2>1, SMT
  <2>4. (Overdue - left) + (DaySeconds - Second(clock)) <= (Overdue + MaxLate) - left'
    BY <2>3 DEF d
  <2> QED
    BY <1>1, <1>4, <2>1, <2>2, <2>3, <2>4, LateTomorrow
<1>11. StaleInTime'
  <2> SUFFICES ASSUME page \notin {0, Never, chosen}
               PROVE  /\ pageLeft' # Never
                      /\ LateAt(list, page, clock', TRUE, (Budget + MaxLate) - pageLeft')
    BY <1>1, <1>5, <1>9, Zenon DEF StaleInTime, LateBy, LateAt
  <2>1. page \in DOMAIN list.items
    BY <1>1, Items
  <2>2. pageLeft # Never /\ LateAt(list, page, clock, FALSE, Budget - pageLeft)
    BY <1>1, Zenon DEF ShownInv, StaleInTime, LateBy, LateAt
  <2>3. /\ Budget - pageLeft \in Int /\ (Budget + MaxLate) - pageLeft' \in Int
        /\ (Budget - pageLeft) + d <= (Budget + MaxLate) - pageLeft'
    BY <1>2, <1>3, <1>7, <2>2, SMT
  <2>4. (Budget - pageLeft) + (DaySeconds - Second(clock)) <= (Budget + MaxLate) - pageLeft'
    BY <2>3 DEF d
  <2>5. LateAt(list, page, clock', TRUE, (Budget + MaxLate) - pageLeft')
    BY <1>1, <1>4, <2>1, <2>2, <2>3, <2>4, LateTomorrow
  <2> QED
    BY <1>7, <2>2, <2>5
<1>12. DueOnTheMinute'
  <2> SUFFICES ASSUME page \notin {0, Never} \/ chosen # 0, left' # Never, left' # 0
               PROVE  (Second(clock') + left') % 60 = 0
    <3>1. Second(clock') % 60 <= MaxLate /\ Second(clock') % 60 <= 0
      BY <1>2, <1>4, SMT
    <3> QED
      BY <1>1, <3>1 DEF DueOnTheMinute
  <2>1. left # Never /\ left' = left - d
    BY <1>6
  <2>2. left # 0
    BY <1>2, <1>3, <1>6, <2>1, SMT
  <2>3. (Second(clock) + left) % 60 = 0
    BY <2>1, <2>2, Zenon DEF ShownInv, DueOnTheMinute
  <2>4. Second(clock) + left \in Int
        /\ Second(clock') + left' = (Second(clock) + left) - DaySeconds
    BY <1>2, <1>3, <1>4, <2>1, SMT DEF d
  <2> QED
    BY <2>3, <2>4, WholeDays
<1> QED
  BY <1>10, <1>11, <1>12 DEF ShownInv

-----------------------------------------------------------------------------
LEMMA InitShown == Init => ShownInv
  BY Zenon DEF Init, ShownInv, ChosenInTime, StaleInTime, DueOnTheMinute

LEMMA StepShown ==
  ASSUME PromptTimers
  PROVE  Inv /\ ShownInv /\ [Next]_vars => ShownInv'
<1> SUFFICES ASSUME Inv, ShownInv, [Next]_vars PROVE ShownInv'
  OBVIOUS
<1>1. /\ TypeOK /\ clock \in Clocks /\ Timer(left, DaySeconds)
      /\ Second(clock) \in Int /\ DaySeconds \in Int
  BY Types, ClockFacts, DaySecondsType DEF Inv
<1>2. ASSUME NEW late \in 0..MaxLate, ChooseTimer(late)
      PROVE  ShownInv'
  <2> DEFINE d == left + late
  <2>1. d \in Int /\ 0 <= d
    <3>1. left \in Int /\ 0 <= left
      BY <1>1, <1>2, Zenon DEF Timer, ChooseTimer
    <3> QED
      BY <3>1, ScheduleAssumption
  <2>2. /\ left # Never /\ d < DaySeconds - Second(clock) /\ Passes(d)
        /\ ChooseProgram(clock') /\ restart' = Less(restart, d)
        /\ list' = list /\ page' = page /\ asked' = asked
    BY <1>2 DEF ChooseTimer
  <2>3. \E n \in 0..MaxLate : d = left + n
    OBVIOUS
  <2> HIDE DEF d
  <2> QED
    BY <2>1, <2>2, <2>3, PassShown
<1>3. ASSUME NEW late \in 0..MaxLate, LoadPage(late)
      PROVE  ShownInv'
  BY <1>3, LoadShown
<1>4. ASSUME NEW s \in Asks, Ask(s)
      PROVE  ShownInv'
  <2> DEFINE d == s - Second(clock)
  <2>1. d \in Int /\ 0 <= d /\ d < DaySeconds - Second(clock)
    <3>1. s \in 0 .. DaySeconds - 1
      BY ScheduleAssumption
    <3>2. s \in Int /\ s < DaySeconds
      BY <1>1, <3>1, SMT
    <3> QED
      BY <1>1, <1>4, <3>2, SMT DEF Ask
  <2>2. /\ Passes(d) /\ ChooseProgram(clock') /\ restart' = Less(restart, d)
        /\ list' = list /\ page' = page /\ asked' = asked + 1 /\ asked < MaxAsks
    BY <1>4 DEF Ask
  <2> HIDE DEF d
  <2> QED
    BY <2>1, <2>2, PassShown
<1>5. ASSUME NEW check \in Checks, Midnight(check)
      PROVE  ShownInv'
  BY <1>5, MidnightShown
<1>6. ASSUME Restart
      PROVE  ShownInv'
  BY <1>6, Zenon DEF Restart, ShownInv, ChosenInTime, StaleInTime, DueOnTheMinute
<1>7. CASE UNCHANGED vars
  BY <1>7, Zenon DEF vars, ShownInv, ChosenInTime, StaleInTime, DueOnTheMinute,
                     LateBy, Overdue, Nights, Budget
<1> QED
  BY <1>2, <1>3, <1>4, <1>5, <1>6, <1>7, Zenon DEF Next

\* Every step lasts some time, and no timer is overdue at its end.
LEMMA StepPasses ==
  ASSUME TypeOK, Next
  PROVE  \E d \in Int : 0 <= d /\ Passes(d)
<1>1. /\ clock \in Clocks /\ Timer(left, DaySeconds) /\ Timer(pageLeft, DELAY_TIME)
      /\ Timer(restart, 120) /\ MaxLate \in Nat
      /\ Second(clock) \in Int /\ Second(clock) < DaySeconds /\ DaySeconds \in Int
  BY Types, ClockFacts, DaySecondsType, ScheduleAssumption
<1>2. ASSUME NEW late \in 0..MaxLate, ChooseTimer(late)
      PROVE  left + late \in Int /\ 0 <= left + late /\ Passes(left + late)
  <2>1. left \in Int /\ 0 <= left /\ Passes(left + late)
    BY <1>1, <1>2, Zenon DEF Timer, ChooseTimer
  <2> QED
    BY <1>1, <2>1
<1>3. ASSUME NEW late \in 0..MaxLate, LoadPage(late)
      PROVE  pageLeft + late \in Int /\ 0 <= pageLeft + late /\ Passes(pageLeft + late)
  <2>1. pageLeft \in Int /\ 0 <= pageLeft /\ Passes(pageLeft + late)
    BY <1>1, <1>3, Zenon DEF Timer, LoadPage
  <2> QED
    BY <1>1, <2>1
<1>4. ASSUME NEW s \in Asks, Ask(s)
      PROVE  s - Second(clock) \in Int /\ 0 <= s - Second(clock)
             /\ Passes(s - Second(clock))
  <2>1. s \in 0 .. DaySeconds - 1
    BY ScheduleAssumption
  <2> QED
    BY <1>1, <1>4, <2>1 DEF Ask
<1>5. ASSUME NEW check \in Checks, Midnight(check)
      PROVE  DaySeconds - Second(clock) \in Int /\ 0 <= DaySeconds - Second(clock)
             /\ Passes(DaySeconds - Second(clock))
  BY <1>1, <1>5 DEF Midnight
<1>6. ASSUME Restart
      PROVE  restart \in Int /\ 0 <= restart /\ Passes(restart)
  BY <1>1, <1>6, Zenon DEF Timer, Restart
<1> QED
  BY <1>2, <1>3, <1>4, <1>5, <1>6, Zenon DEF Next

LEMMA StepNotLate ==
  ASSUME PromptTimers
  PROVE  Inv /\ ShownInv /\ [Next]_vars =>
           [page \notin {0, Never} => LateBy(page, Slack - Elapsed)]_vars
<1> SUFFICES ASSUME Inv, ShownInv, Next, page \notin {0, Never}
             PROVE  LateBy(page, Slack - Elapsed)
  OBVIOUS
<1>1. TypeOK /\ clock \in Clocks /\ list \in Lists
  BY Types DEF Inv
<1>2. PICK d \in Int : 0 <= d /\ Passes(d)
  BY <1>1, StepPasses
<1>3. Elapsed = d
  BY <1>1, <1>2, Duration
<1>4. /\ left # Never => d <= left + MaxLate
      /\ pageLeft # Never => d <= pageLeft + MaxLate
  BY <1>2 DEF Passes
<1>5. /\ MaxLate \in Int /\ Slack \in Int
      /\ Overdue \in Int /\ Overdue + MaxLate <= Slack
      /\ Budget \in Int /\ Budget + MaxLate <= Slack
      /\ left # Never => left \in Int
      /\ pageLeft # Never => pageLeft \in Int
  BY <1>1, Numbers
<1>6. PICK s \in Int : LateAt(list, page, clock, restart # Never, s) /\ s <= Slack - d
  <2>1. CASE page = chosen
    <3>1. left # Never /\ LateAt(list, page, clock, restart # Never, Overdue - left)
      BY <2>1, OnTheScreen, Zenon
    <3>2. Overdue - left \in Int /\ Overdue - left <= Slack - d
      BY <1>2, <1>4, <1>5, <3>1, SMT
    <3> QED
      BY <3>1, <3>2
  <2>2. CASE page # chosen
    <3>1. pageLeft # Never /\ LateAt(list, page, clock, restart # Never, Budget - pageLeft)
      BY <2>2, OnTheScreen, Zenon
    <3>2. Budget - pageLeft \in Int /\ Budget - pageLeft <= Slack - d
      BY <1>2, <1>4, <1>5, <3>1, SMT
    <3> QED
      BY <3>1, <3>2
  <2> QED
    BY <2>1, <2>2
<1>7. page \in DOMAIN list.items
  BY <1>1, Items
<1>8. /\ Second(clock) \in Int /\ Second(clock) = Second(clock) + 0
      /\ Slack - d \in Int /\ s + 0 <= Slack - d /\ 0 \in Int /\ 0 <= 0
  BY <1>1, <1>2, <1>5, <1>6, ClockFacts
<1>9. LateAt(list, page, clock, restart # Never, Slack - d)
  BY <1>1, <1>6, <1>7, <1>8, LateLater
<1> QED
  BY <1>3, <1>9, Zenon DEF LateBy, LateAt

(***************************************************************************)
(* The invariant behind it: the item chosen and the item on the screen are *)
(* each followed to the pass or the TIMER_LOADPAGE that ends them.         *)
(***************************************************************************)
THEOREM FollowedToTheEnd ==
  ASSUME PromptTimers
  PROVE  Spec => []ShownInv
<1>1. Inv /\ ShownInv /\ [Next]_vars => ShownInv'
  BY StepShown
<1> QED
  BY <1>1, InitShown, SpecInv, PTL DEF Spec

(***************************************************************************)
(* TIMER_CHOOSEPROGAME and TIMER_LOADPAGE: no page stays on the screen for *)
(* longer than Slack after its item's window, whatever commands come, over *)
(* midnight and the restart, for timers that are late by 11 s at most.     *)
(***************************************************************************)
THEOREM NeverShownLate ==
  ASSUME PromptTimers
  PROVE  Spec => NotShownLate
<1>1. Inv /\ ShownInv /\ [Next]_vars =>
        [page \notin {0, Never} => LateBy(page, Slack - Elapsed)]_vars
  BY StepNotLate
<1>2. Spec => []ShownInv
  BY FollowedToTheEnd
<1> QED
  BY <1>1, <1>2, SpecInv, PTL DEF Spec, NotShownLate

=============================================================================
