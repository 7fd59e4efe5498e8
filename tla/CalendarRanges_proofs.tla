----------------------- MODULE CalendarRanges_proofs -----------------------
(***************************************************************************)
(* The code's month arithmetic is the reference's, for every date: the     *)
(* statistics page covers exactly the instants its labels promise.         *)
(***************************************************************************)
EXTENDS CalendarRanges, TLAPS

-----------------------------------------------------------------------------
(* The calendar                                                            *)

LEMMA MonthLengthBounds ==
  ASSUME NEW y \in Int, NEW m \in 1 .. 12
  PROVE  MonthLength(y, m) \in 28 .. 31
  <1>1. CASE m = 2
    BY <1>1 DEF MonthLength
  <1>2. CASE m \in {4, 6, 9, 11}
    BY <1>2 DEF MonthLength
  <1>3. CASE m # 2 /\ m \notin {4, 6, 9, 11}
    BY <1>3 DEF MonthLength
  <1>4. QED
    BY <1>1, <1>2, <1>3

\* divmod by twelve.
LEMMA Twelfths ==
  ASSUME NEW z \in Nat
  PROVE  /\ z \div 12 \in Nat /\ z % 12 \in 0 .. 11
         /\ z = 12 * (z \div 12) + (z % 12)
  OBVIOUS

\* replace(): an instant with another date.
LEMMA DateReplaced ==
  ASSUME NEW v \in Instant, NEW y, NEW m, NEW d
  PROVE  [v EXCEPT !.year = y, !.month = m, !.day = d] =
           [year |-> y, month |-> m, day |-> d, tick |-> v.tick]
  <1> DEFINE a == [v EXCEPT !.year = y]
             b == [a EXCEPT !.month = m]
             c == [b EXCEPT !.day = d]
  <1>1. v = [year |-> v.year, month |-> v.month, day |-> v.day, tick |-> v.tick]
    BY DEF Instant
  <1>2. a = [year |-> y, month |-> v.month, day |-> v.day, tick |-> v.tick]
    BY <1>1
  <1> HIDE DEF a
  <1>3. b = [year |-> y, month |-> m, day |-> v.day, tick |-> v.tick]
    BY <1>2
  <1> HIDE DEF b
  <1>4. c = [year |-> y, month |-> m, day |-> d, tick |-> v.tick]
    BY <1>3
  <1>5. [v EXCEPT !.year = y, !.month = m, !.day = d] = c
    BY Zenon DEF a, b
  <1>6. QED
    BY <1>4, <1>5

\* What _subtract_calendar_months returns: the month exactly n months earlier, the
\* day where the month has it, and the same time of day.
LEMMA SubtractedShape ==
  ASSUME NEW v \in Instant, NEW n \in Nat, v.year * 12 + v.month - 1 >= n
  PROVE  LET w    == SubtractCalendarMonths(v, n)
             last == MonthLength(w.year, w.month)
         IN  /\ w \in Instant
             /\ MonthIndex(w) + n = MonthIndex(v)
             /\ w.day = IF v.day <= last THEN v.day ELSE last
             /\ w.tick = v.tick
  <1> DEFINE z    == v.year * 12 + v.month - 1 - n
             w    == SubtractCalendarMonths(v, n)
             last == MonthLength(z \div 12, (z % 12) + 1)
             day  == IF v.day <= last THEN v.day ELSE last
  <1>1. /\ v.year \in Nat /\ v.month \in 1 .. 12 /\ v.day \in 1 .. 31
        /\ v.tick \in 0 .. MaxTick
        /\ v = [year |-> v.year, month |-> v.month, day |-> v.day, tick |-> v.tick]
    BY DEF Instant
  <1>2. z \in Nat
    BY <1>1
  <1> HIDE DEF z
  <1>3. /\ z \div 12 \in Nat /\ (z % 12) + 1 \in 1 .. 12
        /\ z = 12 * (z \div 12) + (z % 12)
    BY <1>2, Twelfths
  <1>4. last \in 28 .. 31
    BY <1>3, MonthLengthBounds
  <1>5. w = [year |-> z \div 12, month |-> (z % 12) + 1, day |-> day, tick |-> v.tick]
    <2>1. w = [v EXCEPT !.year = z \div 12, !.month = (z % 12) + 1, !.day = day]
      BY DEF SubtractCalendarMonths, z
    <2>2. QED
      BY <2>1, DateReplaced
  <1> HIDE DEF w
  <1>6. w.year = z \div 12 /\ w.month = (z % 12) + 1 /\ w.day = day /\ w.tick = v.tick
    BY <1>5
  <1>7. w \in Instant
    BY <1>1, <1>3, <1>4, <1>5 DEF Instant
  <1>8. MonthIndex(w) + n = MonthIndex(v)
    <2> DEFINE q == z \div 12
               k == z % 12
    <2>4. q \in Nat /\ k \in 0 .. 11 /\ z = 12 * q + k /\ w.year = q /\ w.month = k + 1
      BY <1>2, <1>3, <1>6
    <2> HIDE DEF q, k
    <2>1. w.year * 12 + w.month = z + 1
      BY <2>4
    <2>2. z + 1 + n = v.year * 12 + v.month
      BY <1>1 DEF z
    <2>3. QED
      BY <2>1, <2>2, <1>1, <1>2 DEF MonthIndex
  <1>9. QED
    BY <1>6, <1>7, <1>8 DEF w

-----------------------------------------------------------------------------
(* The reference                                                           *)

\* A month is determined by its index.
LEMMA MonthIsDetermined ==
  ASSUME NEW y \in Int, NEW m \in 1 .. 12, NEW z \in Int, NEW k \in 1 .. 12,
         y * 12 + m = z * 12 + k
  PROVE  y = z /\ m = k
  OBVIOUS

\* The code computes what the reference chooses, for every date a range can be
\* asked for and every number of months.
THEOREM SubtractionIsTheReference ==
  ASSUME NEW v \in Instant, NEW n \in Nat \ {0}, v.year * 12 + v.month - 1 >= n
  PROVE  SubtractCalendarMonths(v, n) = MonthsEarlier(v, n)
  <1> DEFINE w     == SubtractCalendarMonths(v, n)
             IsMonth(p) == (p[1] * 12) + p[2] + n = MonthIndex(v)
             month == CHOOSE p \in (v.year - n .. v.year) \X (1 .. 12) : IsMonth(p)
             last  == MonthLength(w.year, w.month)
             IsDay(d) == d <= last /\ \A e \in d + 1 .. v.day : e > last
             day   == CHOOSE d \in 1 .. v.day : IsDay(d)
  <1>1. /\ v.year \in Nat /\ v.month \in 1 .. 12 /\ v.day \in 1 .. 31
        /\ MonthIndex(v) = v.year * 12 + v.month
    BY DEF Instant, MonthIndex
  <1>2. /\ w \in Instant
        /\ MonthIndex(w) + n = MonthIndex(v)
        /\ w.day = IF v.day <= last THEN v.day ELSE last
        /\ w.tick = v.tick
    BY SubtractedShape
  <1> HIDE DEF w
  <1>3. /\ w.year \in Nat /\ w.month \in 1 .. 12 /\ w.day \in 1 .. 31
        /\ w.year * 12 + w.month + n = MonthIndex(v)
        /\ w = [year |-> w.year, month |-> w.month, day |-> w.day, tick |-> w.tick]
    BY <1>2 DEF Instant, MonthIndex
  <1>4. month = <<w.year, w.month>>
    <2>1. w.year \in v.year - n .. v.year
      BY <1>1, <1>3
    <2>2. /\ <<w.year, w.month>> \in (v.year - n .. v.year) \X (1 .. 12)
          /\ IsMonth(<<w.year, w.month>>)
      BY <1>3, <2>1
    <2>3. \A p \in (v.year - n .. v.year) \X (1 .. 12) :
            IsMonth(p) => p = <<w.year, w.month>>
      <3> SUFFICES ASSUME NEW y \in v.year - n .. v.year, NEW m \in 1 .. 12,
                          y * 12 + m + n = MonthIndex(v)
                   PROVE  y = w.year /\ m = w.month
        OBVIOUS
      <3>1. y \in Int /\ y * 12 + m = w.year * 12 + w.month
        BY <1>1, <1>3
      <3>2. QED
        BY <1>3, <3>1, MonthIsDetermined
    <2> HIDE DEF IsMonth
    <2>4. QED
      BY <2>2, <2>3
  <1>5. day = w.day
    <2>1. last \in 28 .. 31
      BY <1>3, MonthLengthBounds
    <2> HIDE DEF last
    <2>2. w.day \in 1 .. v.day /\ IsDay(w.day)
      BY <1>1, <1>2, <2>1
    <2>3. ASSUME NEW d \in 1 .. v.day, IsDay(d)
          PROVE  d = w.day
      <3>1. CASE d < w.day
        <4>1. w.day \in d + 1 .. v.day
          BY <1>1, <2>2, <3>1
        <4>2. QED
          BY <2>1, <2>2, <2>3, <4>1
      <3>2. CASE w.day < d
        <4>1. d \in w.day + 1 .. v.day
          BY <1>1, <2>2, <3>2
        <4>2. QED
          BY <2>1, <2>2, <2>3, <4>1
      <3>3. QED
        BY <1>1, <1>3, <3>1, <3>2
    <2> HIDE DEF IsDay
    <2>4. QED
      BY <2>2, <2>3
  <1>6. MonthsEarlier(v, n) =
          [year |-> month[1], month |-> month[2],
           day |-> CHOOSE d \in 1 .. v.day :
                     /\ d <= MonthLength(month[1], month[2])
                     /\ \A e \in d + 1 .. v.day : e > MonthLength(month[1], month[2]),
           tick |-> v.tick]
    BY DEF MonthsEarlier
  <1> HIDE DEF month
  <1>7. MonthsEarlier(v, n) = [year |-> w.year, month |-> w.month, day |-> w.day,
                               tick |-> w.tick]
    <2>1. month[1] = w.year /\ month[2] = w.month
      BY <1>4
    <2>2. MonthsEarlier(v, n) = [year |-> w.year, month |-> w.month, day |-> day,
                                 tick |-> v.tick]
      BY <1>6, <2>1
    <2> HIDE DEF day
    <2>3. QED
      BY <1>2, <1>5, <2>2
  <1>8. QED
    BY <1>3, <1>7 DEF w

-----------------------------------------------------------------------------
(* The ranges                                                              *)

\* datetime starts in the year 1, a year after the first month that can be reached.
LEMMA RangesReachBack ==
  ASSUME NEW now \in Instant, Valid(now),
         NEW range \in {"last_3_months", "last_6_months", "last_year"}
  PROVE  /\ MonthsOf(range) \in Nat \ {0}
         /\ now.year * 12 + now.month - 1 >= MonthsOf(range)
         /\ StartOf(range, now) = SubtractCalendarMonths(now, MonthsOf(range))
  BY DEF Valid, Instant, MonthsOf, StartOf

\* The interval the statistics query filters by is the range its name promises:
\* this month, or the last so many calendar months up to the same time of day, for
\* every date and every check-in time.
THEOREM IntervalsAreTheRanges ==
  ASSUME NEW now \in Instant, Valid(now), NEW v \in Instant,
         NEW range \in StatisticsRange
  PROVE  InInterval(v, range, now) <=> Covers(range, now, v)
  <1>1. CASE range = "all_time"
    BY <1>1 DEF InInterval, Covers
  <1>2. CASE range = "this_month"
    <2> DEFINE start == [now EXCEPT !.day = 1, !.tick = 0]
    <2>1. /\ start.year = now.year /\ start.month = now.month
          /\ start.day = 1 /\ start.tick = 0
      BY DEF Instant
    <2> HIDE DEF start
    <2>2. /\ v.year \in Nat /\ v.month \in 1 .. 12 /\ v.day \in 1 .. 31
          /\ v.tick \in 0 .. MaxTick
          /\ now.year \in Nat /\ now.month \in 1 .. 12
      BY DEF Instant
    <2>3. ASSUME Before(v, now)
          PROVE  ~Before(v, start) <=> SameMonth(v, now)
      <3>1. MonthIndex(start) = MonthIndex(now)
        BY <2>1 DEF MonthIndex
      <3>2. MonthIndex(v) = MonthIndex(now) <=> SameMonth(v, now)
        BY <2>2, MonthIsDetermined DEF MonthIndex, SameMonth
      <3>3. MonthIndex(v) \in Int /\ MonthIndex(now) \in Int
        BY <2>2 DEF MonthIndex
      <3>4. MonthIndex(v) <= MonthIndex(now)
        BY <2>3, <3>2, <3>3 DEF Before, SameMonth
      <3>5. Before(v, start) <=> MonthIndex(v) < MonthIndex(now)
        BY <2>1, <2>2, <3>1, TickAssumption DEF Before, SameMonth
      <3>6. QED
        BY <3>2, <3>3, <3>4, <3>5
    <2>4. StartOf(range, now) = start
      BY <1>2 DEF StartOf, start
    <2>5. QED
      BY <1>2, <2>3, <2>4 DEF InInterval, Covers
  <1>3. CASE range \in {"last_3_months", "last_6_months", "last_year"}
    <2>1. StartOf(range, now) = MonthsEarlier(now, MonthsOf(range))
      BY <1>3, RangesReachBack, SubtractionIsTheReference
    <2>2. QED
      BY <1>3, <2>1 DEF InInterval, Covers
  <1>4. QED
    BY <1>1, <1>2, <1>3 DEF StatisticsRange

\* An instant that does not precede one month does not precede an earlier one.
LEMMA EarlierMonthStartsEarlier ==
  ASSUME NEW v \in Instant, NEW a \in Instant, NEW b \in Instant,
         MonthIndex(b) < MonthIndex(a), ~Before(v, a)
  PROVE  ~Before(v, b)
  <1>1. MonthIndex(v) \in Int /\ MonthIndex(a) \in Int /\ MonthIndex(b) \in Int
    BY DEF MonthIndex, Instant
  <1>2. MonthIndex(v) >= MonthIndex(a)
    BY <1>1 DEF Before
  <1>3. SameMonth(v, b) => MonthIndex(v) = MonthIndex(b)
    BY DEF SameMonth, MonthIndex
  <1>4. QED
    BY <1>1, <1>2, <1>3 DEF Before

\* A longer range covers what a shorter one covers, whatever day of whatever month
\* it is asked for: no entry disappears when the user widens the range.
THEOREM RangesAreNested ==
  ASSUME NEW now \in Instant, Valid(now), NEW v \in Instant
  PROVE  /\ InInterval(v, "this_month", now) => InInterval(v, "last_3_months", now)
         /\ InInterval(v, "last_3_months", now) => InInterval(v, "last_6_months", now)
         /\ InInterval(v, "last_6_months", now) => InInterval(v, "last_year", now)
         /\ InInterval(v, "last_year", now) => InInterval(v, "all_time", now)
  <1> DEFINE month == [now EXCEPT !.day = 1, !.tick = 0]
             Back(n) == SubtractCalendarMonths(now, n)
  <1>1. month \in Instant /\ MonthIndex(month) = MonthIndex(now)
    <2> DEFINE first == [now EXCEPT !.day = 1]
    <2>1. first \in Instant /\ first.year = now.year /\ first.month = now.month
      BY DEF Instant
    <2> HIDE DEF first
    <2>2. [first EXCEPT !.tick = 0] \in Instant
      BY <2>1, TickAssumption DEF Instant
    <2>3. /\ [first EXCEPT !.tick = 0].year = first.year
          /\ [first EXCEPT !.tick = 0].month = first.month
      BY <2>1 DEF Instant
    <2>4. month = [first EXCEPT !.tick = 0]
      BY Zenon DEF first
    <2> HIDE DEF month
    <2>5. QED
      BY <2>1, <2>2, <2>3, <2>4 DEF MonthIndex
  <1>2. now.year \in Nat /\ now.year >= 1 /\ now.month \in 1 .. 12
    BY DEF Valid, Instant
  <1>3. \A n \in {3, 6, 12} : Back(n) \in Instant /\ MonthIndex(Back(n)) + n = MonthIndex(now)
    <2> SUFFICES ASSUME NEW n \in {3, 6, 12}
                 PROVE  Back(n) \in Instant /\ MonthIndex(Back(n)) + n = MonthIndex(now)
      OBVIOUS
    <2>1. n \in Nat /\ now.year * 12 + now.month - 1 >= n
      BY <1>2
    <2>2. QED
      BY <2>1, SubtractedShape
  <1>4. MonthIndex(now) \in Int /\ \A n \in {3, 6, 12} : MonthIndex(Back(n)) \in Int
    BY <1>3 DEF MonthIndex, Instant
  <1>5. /\ StartOf("this_month", now) = month
        /\ StartOf("last_3_months", now) = Back(3)
        /\ StartOf("last_6_months", now) = Back(6)
        /\ StartOf("last_year", now) = Back(12)
    BY DEF StartOf, MonthsOf
  <1> HIDE DEF month, Back
  <1>6. /\ MonthIndex(Back(3)) < MonthIndex(month)
        /\ MonthIndex(Back(6)) < MonthIndex(Back(3))
        /\ MonthIndex(Back(12)) < MonthIndex(Back(6))
    BY <1>1, <1>3, <1>4
  <1>7. /\ ~Before(v, month) => ~Before(v, Back(3))
        /\ ~Before(v, Back(3)) => ~Before(v, Back(6))
        /\ ~Before(v, Back(6)) => ~Before(v, Back(12))
    BY <1>1, <1>3, <1>6, EarlierMonthStartsEarlier
  <1>8. QED
    BY <1>5, <1>7 DEF InInterval
=============================================================================
