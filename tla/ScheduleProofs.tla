--------------------------- MODULE ScheduleProofs ---------------------------
(***************************************************************************)
(* Proofs about Schedule for all programme lists, all starting times, all  *)
(* commands and any lateness of the timers.                                *)
(***************************************************************************)
EXTENDS Schedule, WellFoundedInduction, TLAPS

(***************************************************************************)
(* The least element of a set of natural numbers.                          *)
(***************************************************************************)
LEMMA BelowIsWellFounded ==
  IsWellFoundedOn({ss \in Nat \X Nat : ss[1] < ss[2]}, Nat)
  BY NatLessThanWellFounded, Zenon DEF OpToRel

LEMMA MinFacts ==
  ASSUME NEW S, S \subseteq Nat, S # {}
  PROVE  Min(S) \in S /\ \A y \in S : Min(S) <= y
<1> DEFINE Below == {ss \in Nat \X Nat : ss[1] < ss[2]}
<1>1. IsWellFoundedOn(Below, Nat)
  BY BelowIsWellFounded
<1>2. \A x, y \in S : y < x => <<y, x>> \in Below
  OBVIOUS
<1> HIDE DEF Below
<1>3. PICK x \in S : \A y \in S : ~ (<<y, x>> \in Below)
  BY <1>1, WFMin
<1>4. \A y \in S : x <= y
  <2> TAKE y \in S
  <2>1. ~ (y < x)
    BY <1>2, <1>3, Zenon
  <2>2. x \in Nat /\ y \in Nat
    BY Zenon
  <2> QED
    BY <2>1, <2>2
<1> QED
  BY <1>4 DEF Min

(***************************************************************************)
(* Seconds, and the digits of a time of day.                               *)
(***************************************************************************)
LEMMA DaySecondsValue ==
  DaySeconds = 86400
  BY SMT DEF DaySeconds

LEMMA DaySecondsType ==
  DaySeconds \in Int
  BY DaySecondsValue, SMT

Clocks == 0 .. 7 * DaySeconds - 1

LEMMA ClockRange ==
  ASSUME NEW t \in Clocks
  PROVE  t \in Int /\ 0 <= t /\ t <= 7 * DaySeconds - 1
  BY DaySecondsType, SMT DEF Clocks

LEMMA InClocks ==
  ASSUME NEW t \in Int, 0 <= t, t <= 7 * DaySeconds - 1
  PROVE  t \in Clocks
  BY DaySecondsType, SMT DEF Clocks

LEMMA ClockFacts ==
  ASSUME NEW t \in Clocks
  PROVE  /\ Second(t) \in Int /\ 0 <= Second(t) /\ Second(t) < DaySeconds
         /\ Day(t) \in 0..6
<1>1. t \in Int /\ 0 <= t /\ t <= 604799
  BY ClockRange, DaySecondsValue, SMT
<1>2. Second(t) \in Int /\ 0 <= Second(t) /\ Second(t) < DaySeconds
  BY <1>1, DaySecondsValue, SMT DEF Second
<1>3. Day(t) \in Int /\ 0 <= Day(t) /\ Day(t) < 7
  BY <1>1, DaySecondsValue, SMT DEF Day
<1> QED
  BY <1>2, <1>3, SMT

(* n is h : m : s in the code's integers HHMMSS. *)
Digits(n, h, m, s) ==
  /\ h \in Int /\ 0 <= h /\ h <= 24
  /\ m \in Int /\ 0 <= m /\ m <= 59
  /\ s \in Int /\ 0 <= s /\ s <= 59
  /\ n = h * 10000 + m * 100 + s
  /\ n \div 10000 = h
  /\ (n \div 100) % 100 = m
  /\ n % 100 = s

LEMMA DigitsFacts ==
  ASSUME NEW h \in Int, 0 <= h, h <= 24,
         NEW m \in Int, 0 <= m, m <= 59,
         NEW s \in Int, 0 <= s, s <= 59
  PROVE  /\ (h * 10000 + m * 100 + s) \in Nat
         /\ Digits(h * 10000 + m * 100 + s, h, m, s)
<1>1. (h * 10000 + m * 100 + s) \div 10000 = h
  BY SMT
<1>2. (h * 10000 + m * 100 + s) \div 100 = h * 100 + m
  BY SMT
<1>3. ((h * 10000 + m * 100 + s) \div 100) % 100 = m
  BY <1>2, SMT
<1>4. (h * 10000 + m * 100 + s) % 100 = s
  BY SMT
<1> QED
  BY <1>1, <1>3, <1>4, SMT DEF Digits

HourAndMinute(w, h, m) ==
  /\ w = h * 10000 + m * 100 + 0
  /\ 0 <= h /\ h <= 24 /\ 0 <= m /\ m <= 59
  /\ h = 24 => m = 0

LEMMA TimeFacts ==
  ASSUME NEW w \in Time
  PROVE  /\ w \in Nat
         /\ InSeconds(w) \in Int /\ 0 <= InSeconds(w) /\ InSeconds(w) <= DaySeconds
         /\ \E h, m \in Int :
              Digits(w, h, m, 0) /\ InSeconds(w) = h * 3600 + m * 60
<1>1. PICK h \in Int, m \in Int : HourAndMinute(w, h, m)
  <2>1. CASE w = 240000
    <3>1. HourAndMinute(w, 24, 0)
      BY <2>1, SMT DEF HourAndMinute
    <3> QED BY <3>1, SMT
  <2>2. CASE w \in {h * 10000 + m * 100 : h \in 0..23, m \in 0..59}
    <3>1. PICK h \in 0..23, m \in 0..59 : w = h * 10000 + m * 100
      BY <2>2, SMT
    <3>2. h \in Int /\ m \in Int /\ 0 <= h /\ h <= 23 /\ 0 <= m /\ m <= 59
      BY SMT
    <3>3. HourAndMinute(w, h, m)
      BY <3>1, <3>2, SMT DEF HourAndMinute
    <3> QED BY <3>2, <3>3
  <2> QED BY <2>1, <2>2, SMT DEF Time
<1>2. w \in Nat /\ Digits(w, h, m, 0)
  BY <1>1, DigitsFacts, SMT DEF HourAndMinute
<1>3. InSeconds(w) = h * 3600 + m * 60
  BY <1>2, SMT DEF InSeconds, Digits
<1>4. InSeconds(w) \in Int /\ 0 <= InSeconds(w) /\ InSeconds(w) <= DaySeconds
  BY <1>1, <1>3, DaySecondsValue, SMT DEF HourAndMinute
<1> QED
  BY <1>2, <1>3, <1>4, SMT

LEMMA HoursMinutesSeconds ==
  ASSUME NEW n \in Int, 0 <= n, n < 86400
  PROVE  /\ n \div 3600 \in Int /\ 0 <= n \div 3600 /\ n \div 3600 <= 23
         /\ (n \div 60) % 60 \in Int
         /\ 0 <= (n \div 60) % 60 /\ (n \div 60) % 60 <= 59
         /\ n % 60 \in Int /\ 0 <= n % 60 /\ n % 60 <= 59
         /\ n = (n \div 3600) * 3600 + ((n \div 60) % 60) * 60 + (n % 60)
  BY SMT

LEMMA CurTimeFacts ==
  ASSUME NEW t \in Clocks
  PROVE  /\ CurTime(t) \in Nat
         /\ \E h, m, s \in Int :
              Digits(CurTime(t), h, m, s) /\ Second(t) = h * 3600 + m * 60 + s
<1> DEFINE n == Second(t)
<1>1. n \in Int /\ 0 <= n /\ n < 86400
  BY ClockFacts, DaySecondsValue, SMT
<1> DEFINE h == n \div 3600
           m == (n \div 60) % 60
           s == n % 60
<1>3. CurTime(t) = h * 10000 + m * 100 + s
  BY SMT DEF CurTime
<1> HIDE DEF n
<1>2. /\ h \in Int /\ 0 <= h /\ h <= 23
      /\ m \in Int /\ 0 <= m /\ m <= 59
      /\ s \in Int /\ 0 <= s /\ s <= 59
      /\ n = h * 3600 + m * 60 + s
  BY <1>1, HoursMinutesSeconds, SMT
<1> HIDE DEF h, m, s
<1>4. CurTime(t) \in Nat /\ Digits(CurTime(t), h, m, s)
  BY <1>2, <1>3, DigitsFacts, SMT
<1> QED
  BY <1>2, <1>4, SMT DEF n

(***************************************************************************)
(* A span between the clock and a bound is a difference of seconds, and    *)
(* the order of the integers HHMMSS is the order of time.                  *)
(***************************************************************************)
LEMMA SpanFacts ==
  ASSUME NEW t \in Clocks, NEW w \in Time
  PROVE  /\ Span(CurTime(t), w) = InSeconds(w) - Second(t)
         /\ Span(w, CurTime(t)) = Second(t) - InSeconds(w)
         /\ w <= CurTime(t) <=> InSeconds(w) <= Second(t)
         /\ CurTime(t) <= w <=> Second(t) <= InSeconds(w)
<1>1. PICK h \in Int, m \in Int :
         Digits(w, h, m, 0) /\ InSeconds(w) = h * 3600 + m * 60
  BY TimeFacts, SMT
<1>2. PICK hh \in Int, mm \in Int, ss \in Int :
         Digits(CurTime(t), hh, mm, ss) /\ Second(t) = hh * 3600 + mm * 60 + ss
  BY CurTimeFacts, SMT
<1> DEFINE c == CurTime(t)
<1> HIDE DEF c
<1>3. /\ Span(c, w) = (h - hh) * 60 * 60 + (m - mm) * 60 + (0 - ss)
      /\ Span(w, c) = (hh - h) * 60 * 60 + (mm - m) * 60 + (ss - 0)
  BY <1>1, <1>2 DEF Span, Digits, c
<1>4. /\ w = h * 10000 + m * 100 + 0
      /\ c = hh * 10000 + mm * 100 + ss
  BY <1>1, <1>2 DEF Digits, c
<1> QED
  BY <1>1, <1>2, <1>3, <1>4, SMT DEF c, Digits

LEMMA TimeOrder ==
  ASSUME NEW v \in Time, NEW w \in Time, v <= w
  PROVE  InSeconds(v) <= InSeconds(w)
<1>1. PICK h \in Int, m \in Int :
         Digits(v, h, m, 0) /\ InSeconds(v) = h * 3600 + m * 60
  BY TimeFacts, SMT
<1>2. PICK hh \in Int, mm \in Int :
         Digits(w, hh, mm, 0) /\ InSeconds(w) = hh * 3600 + mm * 60
  BY TimeFacts, SMT
<1>3. v = h * 10000 + m * 100 + 0 /\ w = hh * 10000 + mm * 100 + 0
  BY <1>1, <1>2 DEF Digits
<1> QED
  BY <1>1, <1>2, <1>3, SMT DEF Digits

(***************************************************************************)
(* The passes.  Bounds of planned windows are times of day, and the code   *)
(* finds the windows of the day that the platform planned.                 *)
(***************************************************************************)
LEMMA SameWeekDay ==
  ASSUME NEW day \in 0..6
  PROVE  GetWeekDay(day) = (day + 6) % 7
  BY SMT DEF GetWeekDay

LEMMA ListFacts ==
  ASSUME NEW l \in Lists, NEW k \in DOMAIN l.items, NEW j \in DOMAIN l.items[k]
  PROVE  /\ DOMAIN l.items = 1..Len(l.items) /\ Len(l.items) \in Nat
         /\ DOMAIN l.items[k] \subseteq Nat
         /\ l.items[k][j].windows \subseteq Time \X Time
         /\ l.mode \in {PLAY_REPEATDAY, PLAY_WEEKDAY, PLAY_CUSTOMIZE}
<1>1. l \in List
  BY ScheduleAssumption
<1>2. l.items \in Seq(Seq(Segment)) /\ l.mode \in {PLAY_REPEATDAY, PLAY_WEEKDAY, PLAY_CUSTOMIZE}
  BY <1>1 DEF List
<1>3. l.items[k] \in Seq(Segment)
  BY <1>2
<1>4. l.items[k][j] \in Segment
  BY <1>3
<1>5. l.items[k][j].windows \subseteq Time \X Time
  BY <1>4 DEF Segment
<1> QED
  BY <1>2, <1>3, <1>5

(***************************************************************************)
(* GetWeekDay and the three modes: on every day, whose number the system   *)
(* counts from Sunday, the segments of an item that the code takes as      *)
(* being on hold exactly the windows planned for that day, which the       *)
(* platform counts from Monday.                                            *)
(***************************************************************************)
THEOREM FoundIsPlanned ==
  ASSUME NEW l \in Lists, NEW k \in DOMAIN l.items, NEW day \in 0..6
  PROVE  WindowsOn(l, k, day) = Planned(l, k, day)
<1>1. \A j \in DOMAIN l.items[k] :
        j \in SegmentsOn(l, k, day) <=>
           \/ l.mode = PLAY_REPEATDAY
           \/ l.mode = PLAY_WEEKDAY /\ l.items[k][j].weekday = (day + 6) % 7
           \/ l.mode = PLAY_CUSTOMIZE
                /\ day \in l.items[k][j].first .. l.items[k][j].last
  <2> TAKE j \in DOMAIN l.items[k]
  <2>1. l.items[k][j].first \in Int /\ l.items[k][j].last \in Int
    <3>1. l \in List
      BY ScheduleAssumption
    <3>2. l.items \in Seq(Seq(Segment))
      BY <3>1 DEF List
    <3>3. l.items[k] \in Seq(Segment)
      BY <3>2
    <3>4. l.items[k][j] \in Segment
      BY <3>3
    <3> QED
      BY <3>4 DEF Segment
  <2>2. l.mode \in {1, 2, 3}
    BY ListFacts DEF PLAY_REPEATDAY, PLAY_WEEKDAY, PLAY_CUSTOMIZE
  <2>3. j \in SegmentsOn(l, k, day) <=> OnDay(l.mode, l.items[k][j], day)
    BY DEF SegmentsOn
  <2> DEFINE s == l.items[k][j]
  <2>4. CASE l.mode = 1
    <3>1. OnDay(l.mode, s, day) = TRUE
      BY <2>4 DEF OnDay, PLAY_REPEATDAY, PLAY_WEEKDAY, PLAY_CUSTOMIZE
    <3> QED
      BY <2>3, <2>4, <3>1 DEF PLAY_REPEATDAY
  <2>5. CASE l.mode = 2
    <3>1. OnDay(l.mode, s, day) <=> s.weekday = GetWeekDay(day)
      BY <2>5 DEF OnDay, PLAY_REPEATDAY, PLAY_WEEKDAY, PLAY_CUSTOMIZE
    <3>2. OnDay(l.mode, s, day) <=> s.weekday = (day + 6) % 7
      BY <3>1, SameWeekDay
    <3>3. l.mode = PLAY_WEEKDAY /\ l.mode # PLAY_REPEATDAY /\ l.mode # PLAY_CUSTOMIZE
      BY <2>5 DEF PLAY_REPEATDAY, PLAY_WEEKDAY, PLAY_CUSTOMIZE
    <3> QED
      BY <2>3, <3>2, <3>3, Zenon
  <2>6. CASE l.mode = 3
    <3>1. OnDay(l.mode, s, day) <=> (s.first <= day /\ day <= s.last)
      BY <2>6 DEF OnDay, PLAY_REPEATDAY, PLAY_WEEKDAY, PLAY_CUSTOMIZE
    <3>2. day \in s.first .. s.last <=> (s.first <= day /\ day <= s.last)
      BY <2>1
    <3>3. l.mode = PLAY_CUSTOMIZE /\ l.mode # PLAY_REPEATDAY /\ l.mode # PLAY_WEEKDAY
      BY <2>6 DEF PLAY_REPEATDAY, PLAY_WEEKDAY, PLAY_CUSTOMIZE
    <3> QED
      BY <2>3, <3>1, <3>2, <3>3, Zenon
  <2> QED
    BY <2>2, <2>4, <2>5, <2>6
<1> QED
  BY <1>1 DEF WindowsOn, Planned, SegmentsOn

LEMMA FollowingFacts ==
  ASSUME NEW times, times \subseteq Time, NEW cur, NEW v \in times, cur <= v
  PROVE  /\ Following(times, cur) \in times /\ Following(times, cur) \in Time
         /\ cur <= Following(times, cur) /\ Following(times, cur) <= v
<1> DEFINE S == {t \in times : t >= cur}
<1>1. \A t \in times : t \in Nat
  BY TimeFacts
<1>2. S \subseteq Nat
  BY <1>1
<1>3. v >= cur
  OBVIOUS
<1>4. v \in S
  BY <1>3
<1>5. Min(S) \in S /\ Min(S) <= v
  BY <1>2, <1>4, MinFacts
<1>6. Min(S) \in times /\ Min(S) \in Time /\ Min(S) >= cur
  BY <1>5
<1> QED
  BY <1>5, <1>6 DEF Following

LEMMA BoundsFacts ==
  ASSUME NEW windows, windows \subseteq Time \X Time
  PROVE  /\ Bounds(windows) \subseteq Time
         /\ \A w \in windows : w[1] \in Bounds(windows) /\ w[2] \in Bounds(windows)
  BY DEF Bounds

(***************************************************************************)
(* A bound of the day that is not past, with none between.                 *)
(***************************************************************************)
NextBound(f, times, t) ==
  /\ f \in times
  /\ Second(t) <= InSeconds(f)
  /\ \A v \in times : InSeconds(v) < Second(t) \/ InSeconds(f) <= InSeconds(v)

LEMMA FollowingIsNextBound ==
  ASSUME NEW t \in Clocks, NEW times, times \subseteq Time,
         NEW u \in times, CurTime(t) <= u
  PROVE  /\ NextBound(Following(times, CurTime(t)), times, t)
         /\ Span(CurTime(t), Following(times, CurTime(t)))
              = InSeconds(Following(times, CurTime(t))) - Second(t)
<1> DEFINE f == Following(times, CurTime(t))
<1>1. f \in times /\ f \in Time /\ CurTime(t) <= f
  BY FollowingFacts, Zenon
<1>2. \A v \in times : CurTime(t) <= v => f <= v
  BY FollowingFacts, Zenon
<1> HIDE DEF f
<1>3. Second(t) <= InSeconds(f) /\ Span(CurTime(t), f) = InSeconds(f) - Second(t)
  BY <1>1, SpanFacts, Zenon
<1>4. ASSUME NEW v \in times
      PROVE  InSeconds(v) < Second(t) \/ InSeconds(f) <= InSeconds(v)
  <2>1. v \in Time /\ InSeconds(v) \in Int /\ Second(t) \in Int
    BY TimeFacts, ClockFacts
  <2>2. CASE CurTime(t) <= v
    <3>1. f <= v
      BY <1>2, <2>2, Zenon
    <3> QED
      BY <1>1, <2>1, <3>1, TimeOrder, Zenon
  <2>3. CASE ~ (CurTime(t) <= v)
    <3>1. ~ (Second(t) <= InSeconds(v))
      BY <2>1, <2>3, SpanFacts, Zenon
    <3> QED
      BY <2>1, <3>1, SMT
  <2> QED
    BY <2>2, <2>3
<1> QED
  BY <1>1, <1>3, <1>4, Zenon DEF NextBound, f

(***************************************************************************)
(* GetWaitTime: for every set of bounds, every second of the week and      *)
(* every mode, it answers the seconds to the next bound of the day; after  *)
(* the last, -1, or in a daily list the seconds to the first bound of the  *)
(* next day, or a whole day if there is none.                              *)
(***************************************************************************)
THEOREM WaitEndsAtNextBound ==
  ASSUME NEW t \in Clocks, NEW times, times \subseteq Time, NEW mode,
         mode \in {PLAY_REPEATDAY, PLAY_WEEKDAY, PLAY_CUSTOMIZE},
         NEW wait, wait = GetWaitTime(times, CurTime(t), mode)
  PROVE  \/ \E f \in times : /\ NextBound(f, times, t)
                             /\ wait = InSeconds(f) - Second(t)
         \/ /\ \A v \in times : InSeconds(v) < Second(t)
            /\ \/ mode # PLAY_REPEATDAY /\ wait = Never
               \/ mode = PLAY_REPEATDAY /\ times = {} /\ wait = DaySeconds
               \/ /\ mode = PLAY_REPEATDAY
                  /\ \E f \in times :
                       /\ \A v \in times : InSeconds(f) <= InSeconds(v)
                       /\ wait = DaySeconds + InSeconds(f) - Second(t)
<1> DEFINE cur == CurTime(t)
<1>1. cur \in Nat
  BY CurTimeFacts, SMT
<1>2. \A v \in times : v \in Nat /\ v \in Time
  BY TimeFacts
<1>3. mode \in {1, 2, 3}
  BY Zenon DEF PLAY_REPEATDAY, PLAY_WEEKDAY, PLAY_CUSTOMIZE
<1>4. CASE \E v \in times : v >= cur
  <2>1. wait = Span(cur, Following(times, cur))
    <3>1. ~ (\A v \in times : v < cur)
      BY <1>1, <1>2, <1>4, SMT
    <3> QED
      BY <1>4, <3>1, Zenon DEF GetWaitTime
  <2>2. PICK u \in times : cur <= u
    BY <1>1, <1>2, <1>4, SMT
  <2> QED
    BY <2>1, <2>2, FollowingIsNextBound, Zenon DEF NextBound
<1>5. ASSUME \A v \in times : v < cur, NEW v \in times
      PROVE  InSeconds(v) < Second(t)
  <2>1. v \in Time /\ ~ (cur <= v)
    BY <1>1, <1>2, <1>5, SMT
  <2>2. ~ (Second(t) <= InSeconds(v))
    BY <2>1, SpanFacts, Zenon
  <2> QED
    BY <2>1, <2>2, TimeFacts, ClockFacts, SMT
<1>6. CASE (\A v \in times : v < cur) /\ mode > PLAY_REPEATDAY
  <2>1. ~ (\E v \in times : v >= cur) /\ ~ (mode <= PLAY_REPEATDAY)
    BY <1>1, <1>2, <1>3, <1>6, SMT DEF PLAY_REPEATDAY
  <2>2. wait = Never
    BY <1>6, <2>1, Zenon DEF GetWaitTime
  <2>3. mode # PLAY_REPEATDAY
    BY <1>3, <1>6, SMT DEF PLAY_REPEATDAY
  <2> QED
    BY <1>5, <1>6, <2>2, <2>3
<1>7. CASE (\A v \in times : v < cur) /\ mode <= PLAY_REPEATDAY
  <2> DEFINE first == Min(times \cup {cur})
  <2>1. ~ (\E v \in times : v >= cur) /\ ~ (mode > PLAY_REPEATDAY)
    BY <1>1, <1>2, <1>3, <1>7, SMT DEF PLAY_REPEATDAY
  <2>2. wait = DaySeconds - Span(first, cur)
    BY <1>7, <2>1, Zenon DEF GetWaitTime
  <2>3. first \in times \cup {cur} /\ \A v \in times \cup {cur} : first <= v
    <3>1. times \cup {cur} \subseteq Nat /\ times \cup {cur} # {}
      BY <1>1, <1>2
    <3> QED
      BY <3>1, MinFacts, Zenon
  <2> HIDE DEF first
  <2>4. Second(t) \in Int /\ DaySeconds \in Int
    BY ClockFacts, DaySecondsType, SMT
  <2>5. mode = PLAY_REPEATDAY
    BY <1>3, <1>7, SMT DEF PLAY_REPEATDAY
  <2>6. CASE times = {}
    <3>1. first = cur
      BY <2>3, <2>6
    <3>2. Span(cur, cur) = 0
      <4> HIDE DEF cur
      <4>1. cur \div 10000 \in Int /\ (cur \div 100) % 100 \in Int /\ cur % 100 \in Int
        BY <1>1, SMT
      <4> QED
        BY <4>1, SMT DEF Span
    <3>3. wait = DaySeconds
      BY <2>2, <2>4, <3>1, <3>2, SMT
    <3> QED
      BY <2>5, <2>6, <3>3
  <2>7. CASE times # {}
    <3>1. first \in times
      BY <1>1, <1>2, <1>7, <2>3, <2>7, SMT
    <3>2. \A v \in times : InSeconds(first) <= InSeconds(v)
      BY <1>2, <2>3, <3>1, TimeOrder, Zenon
    <3>3. Span(first, cur) = Second(t) - InSeconds(first) /\ InSeconds(first) \in Int
      BY <1>2, <3>1, SpanFacts, TimeFacts, SMT
    <3>4. wait = DaySeconds + InSeconds(first) - Second(t)
      BY <2>2, <2>4, <3>3, SMT
    <3> QED
      BY <1>5, <1>7, <2>5, <3>1, <3>2, <3>4
  <2> QED
    BY <2>6, <2>7
<1>8. (\A v \in times : v < cur) \/ (\E v \in times : v >= cur)
  BY <1>1, <1>2, SMT
<1>9. mode > PLAY_REPEATDAY \/ mode <= PLAY_REPEATDAY
  BY <1>3, SMT DEF PLAY_REPEATDAY
<1> QED
  BY <1>4, <1>6, <1>7, <1>8, <1>9, Zenon

\* So no window ends and none begins before the wait is over.
LEMMA WaitFacts ==
  ASSUME NEW t \in Clocks, NEW times, times \subseteq Time, NEW mode,
         mode \in {PLAY_REPEATDAY, PLAY_WEEKDAY, PLAY_CUSTOMIZE},
         NEW wait, wait = GetWaitTime(times, CurTime(t), mode)
  PROVE  /\ \/ wait = Never
            \/ wait \in Int /\ 0 <= wait /\ wait <= DaySeconds
         /\ mode = PLAY_REPEATDAY => wait \in Int /\ 0 <= wait
         /\ \A v \in times :
              /\ \/ InSeconds(v) < Second(t)
                 \/ wait \in Int /\ 0 <= wait /\ Second(t) + wait <= InSeconds(v)
              /\ mode = PLAY_REPEATDAY =>
                   Second(t) + wait <= DaySeconds + InSeconds(v)
<1>1. \A v \in times : InSeconds(v) \in Int /\ 0 <= InSeconds(v) /\ InSeconds(v) <= DaySeconds
  BY TimeFacts, SMT
<1>2. /\ Second(t) \in Int /\ 0 <= Second(t) /\ Second(t) < DaySeconds
      /\ DaySeconds \in Int
  BY ClockFacts, DaySecondsType, SMT
<1>3. CASE \E f \in times : NextBound(f, times, t) /\ wait = InSeconds(f) - Second(t)
  BY <1>1, <1>2, <1>3, SMT DEF NextBound
<1>4. ASSUME \A v \in times : InSeconds(v) < Second(t),
             \/ mode # PLAY_REPEATDAY /\ wait = Never
             \/ mode = PLAY_REPEATDAY /\ times = {} /\ wait = DaySeconds
      PROVE  /\ wait = Never \/ (wait \in Int /\ 0 <= wait /\ wait <= DaySeconds)
             /\ mode = PLAY_REPEATDAY =>
                  wait \in Int /\ 0 <= wait /\ times = {}
  BY <1>2, <1>4
<1>5. ASSUME \A v \in times : InSeconds(v) < Second(t),
             NEW f \in times, \A v \in times : InSeconds(f) <= InSeconds(v),
             wait = DaySeconds + InSeconds(f) - Second(t)
      PROVE  /\ wait \in Int /\ 0 <= wait /\ wait <= DaySeconds
             /\ \A v \in times : Second(t) + wait <= DaySeconds + InSeconds(v)
  <2>1. InSeconds(f) < Second(t)
    BY <1>5
  <2> QED
    BY <1>1, <1>2, <1>5, <2>1, SMT
<1>6. CASE /\ \A v \in times : InSeconds(v) < Second(t)
           /\ \/ mode # PLAY_REPEATDAY /\ wait = Never
              \/ mode = PLAY_REPEATDAY /\ times = {} /\ wait = DaySeconds
  BY <1>4, <1>6, Zenon
<1>7. CASE /\ \A v \in times : InSeconds(v) < Second(t)
           /\ \E f \in times : /\ \A v \in times : InSeconds(f) <= InSeconds(v)
                               /\ wait = DaySeconds + InSeconds(f) - Second(t)
  BY <1>5, <1>7, Zenon
<1>8. \/ \E f \in times : /\ NextBound(f, times, t)
                          /\ wait = InSeconds(f) - Second(t)
      \/ /\ \A v \in times : InSeconds(v) < Second(t)
         /\ \/ mode # PLAY_REPEATDAY /\ wait = Never
            \/ mode = PLAY_REPEATDAY /\ times = {} /\ wait = DaySeconds
            \/ /\ mode = PLAY_REPEATDAY
               /\ \E f \in times :
                    /\ \A v \in times : InSeconds(f) <= InSeconds(v)
                    /\ wait = DaySeconds + InSeconds(f) - Second(t)
  BY WaitEndsAtNextBound
<1> QED
  BY <1>3, <1>6, <1>7, <1>8, Zenon

(***************************************************************************)
(* GetCloseTime: inside a window, it answers the seconds to the next bound *)
(* of the segment's windows, which is the end of this window or comes      *)
(* before it, if another window begins or ends in between.                 *)
(***************************************************************************)
THEOREM CloseEndsAtNextBound ==
  ASSUME NEW t \in Clocks, NEW windows, windows \subseteq Time \X Time,
         NEW w \in windows, Within(w, CurTime(t))
  PROVE  \E f \in Bounds(windows) :
           /\ NextBound(f, Bounds(windows), t)
           /\ GetCloseTime(windows, CurTime(t)) = InSeconds(f) - Second(t)
           /\ InSeconds(f) <= InSeconds(w[2])
<1> DEFINE f == Following(Bounds(windows), CurTime(t))
<1>1. w[2] \in Bounds(windows) /\ Bounds(windows) \subseteq Time /\ w[2] \in Time
  BY BoundsFacts
<1>2. CurTime(t) <= w[2]
  BY DEF Within
<1>3. f \in Time /\ f <= w[2]
  BY <1>1, <1>2, FollowingFacts, Zenon
<1>4. InSeconds(f) <= InSeconds(w[2])
  BY <1>1, <1>3, TimeOrder, Zenon
<1>5. /\ NextBound(f, Bounds(windows), t)
      /\ GetCloseTime(windows, CurTime(t)) = InSeconds(f) - Second(t)
  BY <1>1, <1>2, FollowingIsNextBound, Zenon DEF GetCloseTime
<1> QED
  BY <1>4, <1>5, Zenon DEF NextBound

LEMMA CloseFacts ==
  ASSUME NEW t \in Clocks, NEW windows, windows \subseteq Time \X Time,
         NEW w \in windows, Within(w, CurTime(t)),
         NEW wait, wait = GetCloseTime(windows, CurTime(t))
  PROVE  /\ wait \in Int /\ 0 <= wait /\ wait <= DaySeconds
         /\ Second(t) + wait <= InSeconds(w[2])
<1>1. PICK f \in Bounds(windows) :
         /\ NextBound(f, Bounds(windows), t)
         /\ wait = InSeconds(f) - Second(t)
         /\ InSeconds(f) <= InSeconds(w[2])
  BY CloseEndsAtNextBound, Zenon
<1>2. Second(t) <= InSeconds(f) /\ f \in Time /\ w[2] \in Time
  BY <1>1, BoundsFacts DEF NextBound
<1>3. /\ InSeconds(f) \in Int /\ InSeconds(f) <= DaySeconds
      /\ InSeconds(w[2]) \in Int
      /\ Second(t) \in Int /\ 0 <= Second(t) /\ DaySeconds \in Int
  BY <1>2, TimeFacts, ClockFacts, DaySecondsType, SMT
<1> QED
  BY <1>1, <1>2, <1>3, SMT

(***************************************************************************)
(* What a pass at time t leaves: an item inside one of its windows until   *)
(* that window ends at the latest, or the default programme with nothing   *)
(* missed.                                                                 *)
(***************************************************************************)
AllPlanned(l, day) == UNION {Planned(l, k, day) : k \in DOMAIN l.items}

Left(wait) == wait = Never \/ (wait \in Int /\ 0 <= wait /\ wait <= DaySeconds)

LEMMA ChooseFacts ==
  ASSUME NEW t \in Clocks, list \in Lists, ChooseProgram(t)
  PROVE  /\ pageLeft' = DELAY_TIME
         /\ chosen' \in 0..Len(list.items)
         /\ Left(left')
         /\ chosen' # 0 =>
              /\ left' \in Int /\ 0 <= left'
              /\ \E w \in Planned(list, chosen', Day(t)) :
                   Within(w, CurTime(t)) /\ Second(t) + left' <= InSeconds(w[2])
         /\ chosen' = 0 =>
              \A w \in AllPlanned(list, Day(t)) : w[1] <= w[2] =>
                /\ \/ InSeconds(w[2]) < Second(t)
                   \/ /\ left' \in Int /\ 0 <= left'
                      /\ Second(t) + left' <= InSeconds(w[1])
                /\ list.mode = PLAY_REPEATDAY =>
                     /\ left' \in Int /\ 0 <= left'
                     /\ Second(t) + left' <= DaySeconds + InSeconds(w[1])
<1> DEFINE On == {k \in DOMAIN list.items : Matching(list, k, t) # {}}
<1>1. pageLeft' = DELAY_TIME
  BY DEF ChooseProgram
<1>2. Day(t) \in 0..6
  BY ClockFacts, SMT
<1>3. list \in List
  BY ScheduleAssumption
<1>4. list.items \in Seq(Seq(Segment))
  BY <1>3 DEF List
<1>5. DOMAIN list.items = 1..Len(list.items) /\ Len(list.items) \in Nat
  BY <1>4
<1>6. ASSUME NEW k \in DOMAIN list.items
      PROVE  /\ DOMAIN list.items[k] \subseteq Nat
             /\ \A j \in DOMAIN list.items[k] :
                  list.items[k][j].windows \subseteq Time \X Time
             /\ WindowsOn(list, k, Day(t)) = Planned(list, k, Day(t))
  <2>1. list.items[k] \in Seq(Segment)
    BY <1>4
  <2>2. DOMAIN list.items[k] \subseteq Nat
    BY <2>1
  <2> QED
    BY <2>2, <1>2, ListFacts, FoundIsPlanned
<1>7. CASE On # {}
  <2> DEFINE k == Min(On)
             j == Min(Matching(list, k, t))
  <2>1. k \in On
    <3>1. On \subseteq Nat
      BY <1>5
    <3> QED
      BY <1>7, <3>1, MinFacts
  <2>2. j \in Matching(list, k, t)
    <3>1. Matching(list, k, t) # {}
      BY <2>1
    <3>2. Matching(list, k, t) \subseteq Nat
      BY <2>1, <1>6 DEF Matching, SegmentsOn
    <3> QED
      BY <3>1, <3>2, MinFacts
  <2>3. /\ chosen' = k
        /\ left' = GetCloseTime(list.items[k][j].windows, CurTime(t))
    BY <1>7 DEF ChooseProgram
  <2>4. k \in DOMAIN list.items
    BY <2>1
  <2> HIDE DEF On, k, j
  <2>5. j \in SegmentsOn(list, k, Day(t)) /\ j \in DOMAIN list.items[k]
    BY <2>2 DEF Matching, SegmentsOn
  <2>6. PICK w \in list.items[k][j].windows : Within(w, CurTime(t))
    BY <2>2 DEF Matching
  <2>7. /\ left' \in Int /\ 0 <= left' /\ left' <= DaySeconds
        /\ Second(t) + left' <= InSeconds(w[2])
    <3>1. list.items[k][j].windows \subseteq Time \X Time
      BY <2>4, <2>5, <1>6
    <3> QED
      BY <2>3, <2>6, <3>1, CloseFacts
  <2>8. w \in Planned(list, k, Day(t))
    <3>1. w \in WindowsOn(list, k, Day(t))
      BY <2>5, <2>6 DEF WindowsOn
    <3> QED
      BY <3>1, <2>4, <1>6
  <2>9. chosen' \in 0..Len(list.items) /\ chosen' # 0
    BY <2>3, <2>4, <1>5
  <2>10. \E v \in Planned(list, chosen', Day(t)) :
           Within(v, CurTime(t)) /\ Second(t) + left' <= InSeconds(v[2])
    BY <2>3, <2>6, <2>7, <2>8, Zenon
  <2>11. Left(left')
    BY <2>7, Zenon DEF Left
  <2> QED
    BY <1>1, <2>7, <2>9, <2>10, <2>11, Zenon
<1>8. CASE On = {}
  <2> DEFINE times == Bounds(vecALLHM(list, Day(t)))
  <2>1. /\ chosen' = 0
        /\ left' = GetWaitTime(times, CurTime(t), list.mode)
    BY <1>8 DEF ChooseProgram
  <2>2. vecALLHM(list, Day(t)) = AllPlanned(list, Day(t))
    BY <1>6 DEF vecALLHM, AllPlanned
  <2>3. vecALLHM(list, Day(t)) \subseteq Time \X Time
    <3>1. ASSUME NEW k \in DOMAIN list.items
          PROVE  WindowsOn(list, k, Day(t)) \subseteq Time \X Time
      BY <1>6 DEF WindowsOn, SegmentsOn
    <3> QED
      BY <3>1 DEF vecALLHM
  <2>4. /\ times \subseteq Time
        /\ \A w \in vecALLHM(list, Day(t)) : w[1] \in times /\ w[2] \in times
    BY <2>3, BoundsFacts
  <2>5. list.mode \in {PLAY_REPEATDAY, PLAY_WEEKDAY, PLAY_CUSTOMIZE}
    BY <1>3 DEF List
  <2> HIDE DEF times
  <2>6. /\ Left(left')
        /\ list.mode = PLAY_REPEATDAY => left' \in Int /\ 0 <= left'
        /\ \A v \in times :
              /\ \/ InSeconds(v) < Second(t)
                 \/ left' \in Int /\ 0 <= left' /\ Second(t) + left' <= InSeconds(v)
              /\ list.mode = PLAY_REPEATDAY =>
                   Second(t) + left' <= DaySeconds + InSeconds(v)
    BY <2>1, <2>4, <2>5, WaitFacts, Zenon DEF Left
  <2>7. ASSUME NEW w \in AllPlanned(list, Day(t)), w[1] <= w[2]
        PROVE  \/ InSeconds(w[2]) < Second(t)
               \/ /\ left' \in Int /\ 0 <= left'
                  /\ Second(t) + left' <= InSeconds(w[1])
    <3>1. w[1] \in times /\ w[2] \in times /\ w[1] \in Time /\ w[2] \in Time
      BY <2>2, <2>4
    <3>2. ~ Within(w, CurTime(t))
      <4>1. PICK k \in DOMAIN list.items : w \in WindowsOn(list, k, Day(t))
        BY <2>2 DEF vecALLHM
      <4>2. PICK j \in SegmentsOn(list, k, Day(t)) : w \in list.items[k][j].windows
        BY <4>1 DEF WindowsOn
      <4>3. Matching(list, k, t) = {}
        BY <1>8
      <4> QED
        BY <4>2, <4>3 DEF Matching
    <3>3. ~ (w[1] <= CurTime(t)) \/ ~ (CurTime(t) <= w[2])
      BY <3>2 DEF Within
    <3>4. ~ (InSeconds(w[1]) <= Second(t)) \/ ~ (Second(t) <= InSeconds(w[2]))
      BY <3>1, <3>3, SpanFacts, Zenon
    <3>5. /\ InSeconds(w[1]) \in Int /\ InSeconds(w[2]) \in Int
          /\ Second(t) \in Int
      BY <3>1, TimeFacts, ClockFacts, SMT
    <3> QED
      BY <3>1, <3>4, <3>5, <2>6, SMT
  <2>8. ASSUME NEW w \in AllPlanned(list, Day(t)), list.mode = PLAY_REPEATDAY
        PROVE  /\ left' \in Int /\ 0 <= left'
               /\ Second(t) + left' <= DaySeconds + InSeconds(w[1])
    BY <2>2, <2>4, <2>6, <2>8, Zenon
  <2>9. chosen' \in 0..Len(list.items) /\ chosen' = 0
    BY <1>5, <2>1
  <2> QED
    BY <1>1, <2>6, <2>7, <2>8, <2>9, Zenon
<1> QED
  BY <1>7, <1>8, Zenon

(***************************************************************************)
(* Time that passes.                                                       *)
(***************************************************************************)
LEMMA LaterToday ==
  ASSUME NEW n \in Int, 0 <= n, n < 604800,
         NEW d \in Int, 0 <= d, d < 86400 - (n % 86400)
  PROVE  /\ (n + d) % 604800 = n + d
         /\ (n + d) \div 86400 = n \div 86400
         /\ (n + d) % 86400 = (n % 86400) + d
         /\ n + d < 604800
<1>1. n = (n \div 86400) * 86400 + (n % 86400)
  BY SMT
<1>2. /\ n \div 86400 \in Int /\ n \div 86400 <= 6
      /\ n % 86400 \in Int /\ 0 <= n % 86400
  BY SMT
<1>3. n + d < 604800
  BY <1>1, <1>2, SMT
<1>4. (n + d) \div 86400 = n \div 86400
  BY <1>1, <1>2, SMT
<1>5. (n + d) % 86400 = (n % 86400) + d
  BY <1>1, <1>2, <1>4, SMT
<1>6. (n + d) % 604800 = n + d
  BY <1>3, SMT
<1> QED
  BY <1>3, <1>4, <1>5, <1>6, SMT

LEMMA TomorrowBegins ==
  ASSUME NEW m \in Int, m % 86400 = 0
  PROVE  Second(m) = 0
  BY DaySecondsValue, SMT DEF Second

LEMMA Tomorrow ==
  ASSUME NEW n \in Int, 0 <= n, n < 604800,
         NEW d \in Int, d = 86400 - (n % 86400),
         NEW m \in Int, m = (n + d) % 604800
  PROVE  0 <= m /\ m < 604800 /\ Second(m) = 0
<1>1. n + d = (n \div 86400 + 1) * 86400
  BY SMT
<1>2. n \div 86400 \in Int /\ 0 <= n \div 86400 /\ n \div 86400 <= 6
  BY SMT
<1>3. 0 <= m /\ m < 604800
  BY SMT
<1>4. m % 86400 = 0
  <2>1. CASE n \div 86400 <= 5
    BY <1>1, <1>2, <2>1, SMT
  <2>2. CASE n \div 86400 = 6
    BY <1>1, <2>2, SMT
  <2> QED
    BY <1>2, <2>1, <2>2, SMT
<1> QED
  BY <1>3, <1>4, TomorrowBegins, SMT

LEMMA PassesFacts ==
  ASSUME clock \in Clocks, NEW d \in Int, 0 <= d, Passes(d)
  PROVE  /\ d < DaySeconds - Second(clock) =>
              /\ clock' \in Clocks /\ Day(clock') = Day(clock)
              /\ Second(clock') = Second(clock) + d
         /\ d = DaySeconds - Second(clock) =>
              clock' \in Clocks /\ Second(clock') = 0
<1>1. clock \in Int /\ 0 <= clock /\ clock < 604800
  BY ClockRange, DaySecondsValue, SMT
<1>2. clock' = (clock + d) % 604800
  BY DaySecondsValue, SMT DEF Passes
<1>3. ASSUME NEW n \in Int, 0 <= n, n < 604800 PROVE n \in Clocks
  <2>1. n <= 7 * DaySeconds - 1
    BY <1>3, DaySecondsValue, SMT
  <2> QED
    BY <1>3, <2>1, InClocks, SMT
<1>4. /\ Day(clock) = clock \div 86400 /\ Second(clock) = clock % 86400
      /\ Day(clock') = clock' \div 86400 /\ Second(clock') = clock' % 86400
  BY DaySecondsValue, SMT DEF Day, Second
<1>5. CASE d < DaySeconds - Second(clock)
  <2>1. d < 86400 - (clock % 86400)
    BY <1>4, <1>5, DaySecondsValue, SMT
  <2>2. /\ clock' = clock + d
        /\ (clock + d) \div 86400 = clock \div 86400
        /\ (clock + d) % 86400 = (clock % 86400) + d
        /\ clock + d < 604800
    BY <1>1, <1>2, <2>1, LaterToday, SMT
  <2>3. clock' \in Clocks
    BY <1>1, <1>3, <2>2, SMT
  <2>4. Day(clock') = Day(clock) /\ Second(clock') = Second(clock) + d
    BY <1>4, <2>2, SMT
  <2> QED
    BY <1>5, <2>3, <2>4, ClockFacts, SMT
<1>6. CASE d = DaySeconds - Second(clock)
  <2>1. d = 86400 - (clock % 86400)
    BY <1>4, <1>6, DaySecondsValue, SMT
  <2>2. clock' \in Int
    BY <1>1, <1>2, SMT
  <2>4. 0 <= clock' /\ clock' < 604800 /\ Second(clock') = 0
    BY <1>1, <1>2, <2>1, <2>2, Tomorrow, SMT
  <2>3. clock' \in Clocks
    BY <1>3, <2>2, <2>4, SMT
  <2>5. ~ (d < DaySeconds - Second(clock))
    BY <1>6, ClockFacts, DaySecondsType, SMT
  <2> QED
    BY <2>3, <2>4, <2>5, SMT
<1> QED
  BY <1>5, <1>6, Zenon

LEMMA LessFacts ==
  ASSUME NEW timer, NEW d \in Int, 0 <= d, NEW max \in Int,
         timer = Never \/ (timer \in Int /\ 0 <= timer /\ timer <= max)
  PROVE  /\ timer = Never => Less(timer, d) = Never
         /\ timer # Never =>
              /\ Less(timer, d) \in Int /\ 0 <= Less(timer, d) /\ Less(timer, d) <= max
              /\ Less(timer, d) # 0 => Less(timer, d) = timer - d
              /\ timer <= d => Less(timer, d) = 0
<1>1. CASE timer = Never
  BY <1>1 DEF Less
<1>2. CASE timer # Never
  <2>1. timer \in Int /\ 0 <= timer /\ timer <= max
    BY <1>2
  <2>2. CASE timer >= d
    <3>1. ~ (timer < d)
      BY <2>1, <2>2
    <3>2. Less(timer, d) = timer - d
      BY <1>2, <2>2, <3>1 DEF Less
    <3> QED
      BY <1>2, <2>1, <2>2, <3>2
  <2>3. CASE timer < d
    <3>1. ~ (timer >= d)
      BY <2>1, <2>3
    <3>2. Less(timer, d) = 0
      BY <1>2, <2>3, <3>1 DEF Less
    <3> QED
      BY <1>2, <2>1, <2>3, <3>2
  <2> QED
    BY <2>1, <2>2, <2>3
<1> QED
  BY <1>1, <1>2

(***************************************************************************)
(* The types, with inequalities for intervals.                             *)
(***************************************************************************)
Timer(x, max) == x = Never \/ (x \in Int /\ 0 <= x /\ x <= max)

LEMMA TimerType ==
  ASSUME NEW x, NEW max \in Int
  PROVE  x \in 0..max \cup {Never} <=> Timer(x, max)
  BY DEF Timer, Never

LEMMA Types ==
  ASSUME TypeOK
  PROVE  /\ list \in Lists /\ clock \in Clocks
         /\ chosen \in 0..Len(list.items)
         /\ Timer(left, DaySeconds) /\ Timer(pageLeft, DELAY_TIME) /\ Timer(restart, 120)
         /\ asked \in 0..MaxAsks
         /\ page \in 0..Len(list.items) \cup {Never}
<1>1. DELAY_TIME \in Int /\ 120 \in Int
  BY DEF DELAY_TIME
<1> QED
  BY <1>1, DaySecondsType, TimerType, Zenon DEF TypeOK, Clocks

LEMMA TypesAfter ==
  ASSUME list' \in Lists, clock' \in Clocks,
         chosen' \in 0..Len(list'.items),
         Timer(left', DaySeconds), Timer(pageLeft', DELAY_TIME), Timer(restart', 120),
         asked' \in 0..MaxAsks,
         page' \in 0..Len(list'.items) \cup {Never}
  PROVE  TypeOK'
<1>1. DELAY_TIME \in Int /\ 120 \in Int
  BY DEF DELAY_TIME
<1> QED
  BY <1>1, DaySecondsType, TimerType, Zenon DEF TypeOK, Clocks

(***************************************************************************)
(* How the steps keep the two properties of the countdown.                 *)
(***************************************************************************)
LEMMA PlannedFacts ==
  ASSUME NEW l \in Lists, NEW day \in 0..6
  PROVE  /\ \A k \in DOMAIN l.items : Planned(l, k, day) \subseteq Time \X Time
         /\ AllPlanned(l, day) \subseteq Time \X Time
<1>1. ASSUME NEW k \in DOMAIN l.items
      PROVE  Planned(l, k, day) \subseteq Time \X Time
  BY ListFacts DEF Planned
<1> QED
  BY <1>1 DEF AllPlanned

LEMMA PassStep ==
  ASSUME TypeOK, clock' \in Clocks, list' = list, ChooseProgram(clock')
  PROVE  /\ chosen' \in 0..Len(list'.items)
         /\ Timer(left', DaySeconds) /\ Timer(pageLeft', DELAY_TIME)
         /\ NeverPastWindow' /\ NothingMissed'
<1>1. list \in Lists
  BY Types
<1>2. /\ pageLeft' = DELAY_TIME
      /\ chosen' \in 0..Len(list.items)
      /\ Left(left')
      /\ chosen' # 0 =>
           /\ left' \in Int /\ 0 <= left'
           /\ \E w \in Planned(list, chosen', Day(clock')) :
                Within(w, CurTime(clock')) /\ Second(clock') + left' <= InSeconds(w[2])
      /\ chosen' = 0 =>
           \A w \in AllPlanned(list, Day(clock')) : w[1] <= w[2] =>
             /\ \/ InSeconds(w[2]) < Second(clock')
                \/ /\ left' \in Int /\ 0 <= left'
                   /\ Second(clock') + left' <= InSeconds(w[1])
             /\ list.mode = PLAY_REPEATDAY =>
                  /\ left' \in Int /\ 0 <= left'
                  /\ Second(clock') + left' <= DaySeconds + InSeconds(w[1])
  BY <1>1, ChooseFacts, Zenon
<1>3. Timer(left', DaySeconds) /\ Timer(pageLeft', DELAY_TIME)
  <2>1. DELAY_TIME \in Int /\ 0 <= DELAY_TIME /\ DELAY_TIME <= DELAY_TIME
    BY SMT DEF DELAY_TIME
  <2> QED
    BY <1>2, <2>1, Zenon DEF Left, Timer
<1>4. \A x : x \in Int /\ 0 <= x => x # Never
  BY SMT DEF Never
<1>5. NeverPastWindow'
  BY <1>2, <1>4, Zenon DEF NeverPastWindow
<1>6. NothingMissed'
  BY <1>2, <1>4, Zenon DEF NothingMissed, AllPlanned
<1> QED
  BY <1>2, <1>3, <1>5, <1>6, Zenon

LEMMA LaterStep ==
  ASSUME TypeOK, NeverPastWindow, NothingMissed,
         NEW d \in Int, 0 <= d, Passes(d), d < DaySeconds - Second(clock),
         left' = Less(left, d), restart' = Less(restart, d),
         UNCHANGED <<list, chosen>>
  PROVE  NeverPastWindow' /\ NothingMissed'
<1>1. /\ clock \in Clocks /\ list \in Lists
      /\ Timer(left, DaySeconds) /\ Timer(restart, 120)
  BY Types
<1>2. /\ clock' \in Clocks /\ Day(clock') = Day(clock)
      /\ Second(clock') = Second(clock) + d
  BY <1>1, PassesFacts
<1>3. /\ left = Never => left' = Never
      /\ left # Never => /\ left' \in Int /\ 0 <= left'
                         /\ left' # 0 => left' = left - d
      /\ restart' = Never => restart = Never
  <2>1. 120 \in Int
    OBVIOUS
  <2>2. restart # Never => Less(restart, d) \in Int /\ 0 <= Less(restart, d)
    BY <1>1, <2>1, LessFacts, Zenon DEF Timer
  <2>3. restart' = Never => restart = Never
    BY <2>2, SMT DEF Never
  <2>4. /\ left = Never => left' = Never
        /\ left # Never => /\ left' \in Int /\ 0 <= left'
                           /\ left' # 0 => left' = left - d
    BY <1>1, DaySecondsType, LessFacts, Zenon DEF Timer
  <2> QED
    BY <2>3, <2>4, Zenon
<1>4. Day(clock) \in 0..6 /\ Second(clock) \in Int /\ DaySeconds \in Int
  BY <1>1, ClockFacts, DaySecondsType, SMT
<1>5. list' = list /\ chosen' = chosen
  OBVIOUS
<1>6. \A x : x \in Int /\ 0 <= x => x # Never
  BY SMT DEF Never
<1>7. left # Never => left \in Int
  BY <1>1, Zenon DEF Timer
<1>8. left # Never /\ left' # 0 =>
        Second(clock') + left' = Second(clock) + left /\ left # 0
  BY <1>2, <1>3, <1>4, <1>7, SMT
<1>9. NeverPastWindow'
  <2> SUFFICES ASSUME chosen # 0
               PROVE  /\ left' # Never
                      /\ left' # 0 => \E w \in Planned(list, chosen, Day(clock)) :
                           /\ Within(w, CurTime(clock'))
                           /\ Second(clock') + left' <= InSeconds(w[2])
    BY <1>2, <1>5, Zenon DEF NeverPastWindow
  <2>1. left # Never /\ left' # Never
    BY <1>3, <1>6, Zenon DEF NeverPastWindow
  <2>2. CASE left' # 0
    <3>1. PICK w \in Planned(list, chosen, Day(clock)) :
            Within(w, CurTime(clock)) /\ Second(clock) + left <= InSeconds(w[2])
      BY <1>8, <2>1, <2>2, Zenon DEF NeverPastWindow
    <3>2. chosen \in DOMAIN list.items
      <4>1. list \in List
        BY <1>1, ScheduleAssumption
      <4>2. list.items \in Seq(Seq(Segment))
        BY <4>1 DEF List
      <4>3. chosen \in 0..Len(list.items)
        BY Types
      <4> QED
        BY <4>2, <4>3
    <3>3. w[1] \in Time /\ w[2] \in Time
      <4>1. w \in Time \X Time
        BY <1>1, <1>4, <3>1, <3>2, PlannedFacts
      <4> QED
        BY <4>1
    <3>4. Second(clock') + left' <= InSeconds(w[2])
      BY <1>8, <2>1, <2>2, <3>1
    <3>5. InSeconds(w[1]) <= Second(clock)
      BY <1>1, <3>1, <3>3, SpanFacts, Zenon DEF Within
    <3>6. InSeconds(w[1]) \in Int /\ InSeconds(w[2]) \in Int
      BY <3>3, TimeFacts, SMT
    <3>7. InSeconds(w[1]) <= Second(clock') /\ Second(clock') <= InSeconds(w[2])
      BY <1>2, <1>3, <1>4, <2>1, <3>4, <3>5, <3>6, SMT
    <3>8. Within(w, CurTime(clock'))
      BY <1>2, <3>3, <3>7, SpanFacts, Zenon DEF Within
    <3> QED
      BY <2>1, <3>1, <3>4, <3>8, Zenon
  <2> QED
    BY <2>1, <2>2, Zenon
<1>10. NothingMissed'
  <2> SUFFICES ASSUME chosen = 0, left' # 0,
                      restart' = Never \/ list.mode = PLAY_REPEATDAY,
                      NEW w \in AllPlanned(list, Day(clock)), w[1] <= w[2]
               PROVE  /\ \/ InSeconds(w[2]) < Second(clock')
                         \/ left' # Never /\ Second(clock') + left' <= InSeconds(w[1])
                      /\ list.mode = PLAY_REPEATDAY =>
                           /\ left' # Never
                           /\ Second(clock') + left' <= DaySeconds + InSeconds(w[1])
    BY <1>2, <1>5, Zenon DEF NothingMissed, AllPlanned
  <2>1. left # 0
    <3>1. left = Never => left # 0
      BY SMT DEF Never
    <3> QED
      BY <1>8, <3>1, Zenon
  <2>2. /\ \/ InSeconds(w[2]) < Second(clock)
           \/ left # Never /\ Second(clock) + left <= InSeconds(w[1])
        /\ list.mode = PLAY_REPEATDAY =>
             left # Never /\ Second(clock) + left <= DaySeconds + InSeconds(w[1])
    BY <1>3, <2>1, Zenon DEF NothingMissed, AllPlanned
  <2>3. left # Never => left' # Never /\ Second(clock') + left' = Second(clock) + left
    BY <1>3, <1>6, <1>8, Zenon
  <2>4. w[2] \in Time
    <3>1. w \in Time \X Time
      BY <1>1, <1>4, PlannedFacts
    <3> QED
      BY <3>1
  <2>5. InSeconds(w[2]) \in Int
    BY <2>4, TimeFacts, SMT
  <2>6. InSeconds(w[2]) < Second(clock) => InSeconds(w[2]) < Second(clock')
    BY <1>2, <1>4, <2>5, SMT
  <2> QED
    BY <2>2, <2>3, <2>6, Zenon
<1> QED
  BY <1>9, <1>10

(***************************************************************************)
(* At midnight the countdown of an item is over, and that of the default   *)
(* programme in a daily list leads to the first window of the new day.     *)
(***************************************************************************)
LEMMA MidnightStep ==
  ASSUME TypeOK, NeverPastWindow, NothingMissed,
         restart = Never, restart' # Never,
         Passes(DaySeconds - Second(clock)),
         left' = Less(left, DaySeconds - Second(clock)),
         UNCHANGED <<list, chosen>>
  PROVE  clock' \in Clocks /\ NeverPastWindow' /\ NothingMissed'
<1> DEFINE d == DaySeconds - Second(clock)
<1>1. clock \in Clocks /\ list \in Lists /\ Timer(left, DaySeconds)
  BY Types
<1>2. /\ Second(clock) \in Int /\ 0 <= Second(clock) /\ Second(clock) < DaySeconds
      /\ DaySeconds \in Int
      /\ d \in Int /\ 0 <= d
      /\ Day(clock) \in 0..6
  BY <1>1, ClockFacts, DaySecondsType, SMT
<1>3. clock' \in Clocks /\ Second(clock') = 0
  BY <1>1, <1>2, PassesFacts
<1>4. /\ left = Never => left' = Never
      /\ left # Never => /\ left' \in Int /\ 0 <= left' /\ left' <= DaySeconds
                         /\ left' # 0 => left' = left - d
                         /\ left <= d => left' = 0
  BY <1>1, <1>2, LessFacts, Zenon DEF Timer
<1>5. list' = list /\ chosen' = chosen
  OBVIOUS
<1>6. \A x : x \in Int /\ 0 <= x => x # Never
  BY SMT DEF Never
<1>7. left # Never => left \in Int /\ 0 <= left
  BY <1>1, Zenon DEF Timer
<1>8. ASSUME chosen # 0
      PROVE  left' = 0
  <2>1. left # Never
    BY <1>8, Zenon DEF NeverPastWindow
  <2>2. CASE left = 0
    <3>1. left <= d
      BY <1>2, <2>2, SMT
    <3> QED
      BY <1>4, <2>1, <3>1, Zenon
  <2>3. CASE left # 0
    <3>1. PICK w \in Planned(list, chosen, Day(clock)) :
            Second(clock) + left <= InSeconds(w[2])
      BY <1>8, <2>3, Zenon DEF NeverPastWindow
    <3>2. w[2] \in Time
      <4>1. list \in List
        BY <1>1, ScheduleAssumption
      <4>2. list.items \in Seq(Seq(Segment))
        BY <4>1 DEF List
      <4>3. chosen \in 0..Len(list.items)
        BY Types
      <4>4. chosen \in DOMAIN list.items
        BY <1>8, <4>2, <4>3
      <4>5. w \in Time \X Time
        BY <1>1, <1>2, <3>1, <4>4, PlannedFacts
      <4> QED
        BY <4>5
    <3>3. InSeconds(w[2]) \in Int /\ InSeconds(w[2]) <= DaySeconds
      BY <3>2, TimeFacts, SMT
    <3>4. left <= d
      BY <1>2, <1>7, <2>1, <3>1, <3>3, SMT
    <3> QED
      BY <1>4, <2>1, <3>4, Zenon
  <2> QED
    BY <2>2, <2>3
<1>9. NeverPastWindow'
  <2>1. 0 # Never
    BY SMT DEF Never
  <2> QED
    BY <1>5, <1>8, <2>1, Zenon DEF NeverPastWindow
<1>10. NothingMissed'
  <2> SUFFICES ASSUME chosen = 0, left' # 0, list.mode = PLAY_REPEATDAY,
                      NEW w \in AllPlanned(list, Day(clock')), w[1] <= w[2]
               PROVE  /\ left' # Never
                      /\ Second(clock') + left' <= InSeconds(w[1])
                      /\ Second(clock') + left' <= DaySeconds + InSeconds(w[1])
    BY <1>5, Zenon DEF NothingMissed, AllPlanned
  <2>1. w \in AllPlanned(list, Day(clock))
    BY DEF AllPlanned, Planned
  <2>2. left # 0
    <3>1. ASSUME left = 0 PROVE FALSE
      <4>1. left # Never /\ left <= d
        BY <1>2, <3>1, SMT DEF Never
      <4> QED
        BY <1>4, <4>1, Zenon
    <3> QED
      BY <3>1
  <2>3. left # Never /\ Second(clock) + left <= DaySeconds + InSeconds(w[1])
    BY <2>1, <2>2, Zenon DEF NothingMissed, AllPlanned
  <2>4. left' \in Int /\ 0 <= left' /\ left' = left - d
    BY <1>4, <2>3, Zenon
  <2>5. w[1] \in Time
    <3>1. w \in Time \X Time
      BY <1>1, <1>2, <2>1, PlannedFacts
    <3> QED
      BY <3>1
  <2>6. InSeconds(w[1]) \in Int
    BY <2>5, TimeFacts, SMT
  <2>7. /\ Second(clock') + left' <= InSeconds(w[1])
        /\ Second(clock') + left' <= DaySeconds + InSeconds(w[1])
    BY <1>2, <1>3, <1>7, <2>3, <2>4, <2>6, SMT
  <2> QED
    BY <1>6, <2>4, <2>7, Zenon
<1> QED
  BY <1>3, <1>9, <1>10

-----------------------------------------------------------------------------
Inv == TypeOK /\ NeverPastWindow /\ NothingMissed

LEMMA InitInv == Init => Inv
<1> SUFFICES ASSUME Init PROVE Inv
  OBVIOUS
<1>1. list \in Lists /\ clock \in 0 .. 7 * DaySeconds - 1 /\ 0 \in 0..Len(list.items)
  <2>1. list \in List
    BY ScheduleAssumption DEF Init
  <2>2. list.items \in Seq(Seq(Segment))
    BY <2>1 DEF List
  <2>3. 0 \in 0..Len(list.items)
    BY <2>2
  <2> QED
    BY <2>3, ScheduleAssumption, Zenon DEF Init
<1>2. 0 \in 0..DaySeconds /\ 0 \in 0..MaxAsks
  <2>1. DaySeconds \in Int /\ 0 <= DaySeconds
    BY DaySecondsValue, SMT
  <2>2. MaxAsks \in Nat
    BY ScheduleAssumption
  <2> QED
    BY <2>1, <2>2, SMT
<1>3. TypeOK
  BY <1>1, <1>2, Zenon DEF TypeOK, Init
<1>4. NeverPastWindow /\ NothingMissed
  BY Zenon DEF NeverPastWindow, NothingMissed, Init
<1> QED
  BY <1>3, <1>4 DEF Inv

LEMMA StepInv == Inv /\ [Next]_vars => Inv'
<1> SUFFICES ASSUME Inv, [Next]_vars PROVE Inv'
  OBVIOUS
<1>1. /\ TypeOK /\ NeverPastWindow /\ NothingMissed
      /\ list \in Lists /\ clock \in Clocks
      /\ chosen \in 0..Len(list.items)
      /\ Timer(left, DaySeconds) /\ Timer(pageLeft, DELAY_TIME) /\ Timer(restart, 120)
      /\ asked \in 0..MaxAsks
      /\ page \in 0..Len(list.items) \cup {Never}
  BY Types, Zenon DEF Inv
<1>2. /\ DELAY_TIME \in Int /\ 120 \in Int /\ DaySeconds \in Int
      /\ Second(clock) \in Int /\ Second(clock) < DaySeconds
  BY <1>1, ClockFacts, DaySecondsType, SMT DEF DELAY_TIME
<1>3. ASSUME NEW timer, NEW max \in Int, Timer(timer, max), NEW d \in Int, 0 <= d
      PROVE  Timer(Less(timer, d), max)
  BY <1>3, LessFacts, Zenon DEF Timer
<1>4. ASSUME NEW late \in 0..MaxLate, ChooseTimer(late)
      PROVE  Inv'
  <2> DEFINE d == left + late
  <2>1. d \in Int /\ 0 <= d /\ d < DaySeconds - Second(clock)
    <3>1. left \in Int /\ 0 <= left
      BY <1>1, <1>4, Zenon DEF Timer, ChooseTimer
    <3> QED
      BY <1>4, <3>1, SMT DEF ChooseTimer
  <2>2. Passes(d)
    BY <1>4 DEF ChooseTimer
  <2>3. clock' \in Clocks
    BY <1>1, <2>1, <2>2, PassesFacts
  <2>4. list' = list /\ page' = page /\ asked' = asked /\ restart' = Less(restart, d)
        /\ ChooseProgram(clock')
    BY <1>4 DEF ChooseTimer
  <2>5. /\ chosen' \in 0..Len(list'.items)
        /\ Timer(left', DaySeconds) /\ Timer(pageLeft', DELAY_TIME)
        /\ NeverPastWindow' /\ NothingMissed'
    BY <1>1, <2>3, <2>4, PassStep, Zenon
  <2>6. Timer(restart', 120)
    BY <1>1, <1>2, <1>3, <2>1, <2>4, Zenon
  <2>7. TypeOK'
    BY <1>1, <2>3, <2>4, <2>5, <2>6, TypesAfter, Zenon
  <2> QED
    BY <2>5, <2>7 DEF Inv
<1>5. ASSUME NEW late \in 0..MaxLate, LoadPage(late)
      PROVE  Inv'
  <2> DEFINE d == pageLeft + late
  <2>1. d \in Int /\ 0 <= d /\ d < DaySeconds - Second(clock)
    <3>1. pageLeft \in Int /\ 0 <= pageLeft
      BY <1>1, <1>5, Zenon DEF Timer, LoadPage
    <3> QED
      BY <1>5, <3>1, SMT DEF LoadPage
  <2>2. Passes(d) /\ left' = Less(left, d) /\ restart' = Less(restart, d)
    BY <1>5 DEF LoadPage
  <2>3. clock' \in Clocks
    BY <1>1, <2>1, <2>2, PassesFacts
  <2>4. list' = list /\ chosen' = chosen /\ page' = chosen /\ asked' = asked
        /\ pageLeft' = Never
    BY <1>5 DEF LoadPage
  <2>5. NeverPastWindow' /\ NothingMissed'
    BY <1>1, <2>1, <2>2, <2>4, LaterStep
  <2>6. Timer(restart', 120) /\ Timer(left', DaySeconds) /\ Timer(pageLeft', DELAY_TIME)
    BY <1>1, <1>2, <1>3, <2>1, <2>2, <2>4, Zenon DEF Timer
  <2>7. TypeOK'
    <3>1. page' \in 0..Len(list'.items) \cup {Never}
      BY <1>1, <2>4, Zenon
    <3> QED
      BY <1>1, <2>3, <2>4, <2>6, <3>1, TypesAfter, Zenon
  <2> QED
    BY <2>5, <2>7 DEF Inv
<1>6. ASSUME NEW s \in Asks, Ask(s)
      PROVE  Inv'
  <2> DEFINE d == s - Second(clock)
  <2>1. d \in Int /\ 0 <= d /\ d < DaySeconds - Second(clock)
    <3>1. s \in 0 .. DaySeconds - 1
      BY ScheduleAssumption
    <3>2. s \in Int /\ s < DaySeconds
      BY <1>2, <3>1, SMT
    <3> QED
      BY <1>2, <1>6, <3>2, SMT DEF Ask
  <2>2. Passes(d)
    BY <1>6 DEF Ask
  <2>3. clock' \in Clocks
    BY <1>1, <2>1, <2>2, PassesFacts
  <2>4. list' = list /\ page' = page /\ restart' = Less(restart, d)
        /\ ChooseProgram(clock')
    BY <1>6 DEF Ask
  <2>5. asked' \in 0..MaxAsks
    <3>1. MaxAsks \in Nat
      BY ScheduleAssumption
    <3>2. asked < MaxAsks /\ asked' = asked + 1
      BY <1>6 DEF Ask
    <3> QED
      BY <1>1, <3>1, <3>2, SMT
  <2>6. /\ chosen' \in 0..Len(list'.items)
        /\ Timer(left', DaySeconds) /\ Timer(pageLeft', DELAY_TIME)
        /\ NeverPastWindow' /\ NothingMissed'
    BY <1>1, <2>3, <2>4, PassStep, Zenon
  <2>7. Timer(restart', 120)
    BY <1>1, <1>2, <1>3, <2>1, <2>4, Zenon
  <2>8. TypeOK'
    BY <1>1, <2>3, <2>4, <2>5, <2>6, <2>7, TypesAfter, Zenon
  <2> QED
    BY <2>6, <2>8 DEF Inv
<1>7. ASSUME NEW check \in Checks, Midnight(check)
      PROVE  Inv'
  <2> DEFINE d == DaySeconds - Second(clock)
  <2>1. d \in Int /\ 0 <= d
    BY <1>2, SMT
  <2>2. /\ restart = Never /\ Passes(d) /\ left' = Less(left, d)
        /\ restart' = check /\ pageLeft' = Less(pageLeft, d)
        /\ UNCHANGED <<list, chosen, page, asked>>
    BY <1>7 DEF Midnight
  <2>3. restart' \in Int /\ 0 <= restart' /\ restart' <= 120 /\ restart' # Never
    <3>1. check \in 0..120
      BY ScheduleAssumption
    <3> QED
      BY <2>2, <3>1, SMT DEF Never
  <2>4. clock' \in Clocks /\ NeverPastWindow' /\ NothingMissed'
    BY <1>1, <2>2, <2>3, MidnightStep
  <2>5. Timer(restart', 120) /\ Timer(left', DaySeconds) /\ Timer(pageLeft', DELAY_TIME)
    BY <1>1, <1>2, <1>3, <2>1, <2>2, <2>3, Zenon DEF Timer
  <2>6. TypeOK'
    BY <1>1, <2>2, <2>4, <2>5, TypesAfter, Zenon
  <2> QED
    BY <2>4, <2>6 DEF Inv
<1>8. ASSUME Restart
      PROVE  Inv'
  <2>1. /\ chosen' = 0 /\ left' = 0 /\ page' = Never /\ pageLeft' = Never
        /\ restart' = Never /\ list' = list /\ asked' = asked
        /\ restart # Never /\ Passes(restart)
    BY <1>8 DEF Restart
  <2>2. restart \in Int /\ 0 <= restart
    BY <1>1, <2>1, Zenon DEF Timer
  <2>3. clock' \in Clocks
    <3>1. restart <= DaySeconds - Second(clock)
      BY <2>1 DEF Passes
    <3>2. restart < DaySeconds - Second(clock) \/ restart = DaySeconds - Second(clock)
      BY <1>2, <2>2, <3>1, SMT
    <3> QED
      BY <1>1, <2>1, <2>2, <3>2, PassesFacts
  <2>4. Timer(left', DaySeconds) /\ Timer(pageLeft', DELAY_TIME) /\ Timer(restart', 120)
    <3>1. 0 \in Int /\ 0 <= 0 /\ 0 <= DaySeconds
      BY DaySecondsValue, SMT
    <3> QED
      BY <2>1, <3>1, Zenon DEF Timer
  <2>5. 0 \in 0..Len(list.items)
    BY <1>1
  <2>6. TypeOK'
    <3>1. chosen' \in 0..Len(list'.items) /\ page' \in 0..Len(list'.items) \cup {Never}
      BY <2>1, <2>5
    <3> QED
      BY <1>1, <2>1, <2>3, <2>4, <3>1, TypesAfter, Zenon
  <2>7. NeverPastWindow' /\ NothingMissed'
    BY <2>1, Zenon DEF NeverPastWindow, NothingMissed
  <2> QED
    BY <2>6, <2>7 DEF Inv
<1>9. CASE UNCHANGED vars
  BY <1>9, Zenon DEF vars, Inv, TypeOK, NeverPastWindow, NothingMissed
<1> QED
  BY <1>4, <1>5, <1>6, <1>7, <1>8, <1>9, Zenon DEF Next

LEMMA SpecInv == Spec => []Inv
  BY InitInv, StepInv, PTL DEF Spec

(***************************************************************************)
(* Every variable keeps its type: no countdown is negative or longer than  *)
(* a day.                                                                  *)
(***************************************************************************)
THEOREM TypeCorrect == Spec => []TypeOK
<1>1. Inv => TypeOK
  BY DEF Inv
<1> QED
  BY <1>1, SpecInv, PTL

(***************************************************************************)
(* GetCloseTime: an item never stays chosen beyond the end of a window.    *)
(***************************************************************************)
THEOREM NeverPastItsWindow == Spec => []NeverPastWindow
<1>1. Inv => NeverPastWindow
  BY DEF Inv
<1> QED
  BY <1>1, SpecInv, PTL

(***************************************************************************)
(* GetWaitTime: the default programme never outlasts the wait for a window *)
(* of the day.                                                             *)
(***************************************************************************)
THEOREM NothingEverMissed == Spec => []NothingMissed
<1>1. Inv => NothingMissed
  BY DEF Inv
<1> QED
  BY <1>1, SpecInv, PTL

=============================================================================
