--------------------------- MODULE CalendarRanges ---------------------------
(***************************************************************************)
(* The time ranges of the statistics page, as pure functions: which check- *)
(* in times belong to "the last three months" of an instant.               *)
(*                                                                         *)
(* An instant is a calendar date and a position within the day.  The       *)
(* instants are UTC, as normalize_utc leaves them.                         *)
(***************************************************************************)
EXTENDS Integers

CONSTANT MaxTick   \* the last position within a day

ASSUME TickAssumption == MaxTick \in Nat

Instant == [year : Nat, month : 1 .. 12, day : 1 .. 31, tick : 0 .. MaxTick]

\* calendar.monthrange(y, m)[1]
LeapYear(y) == y % 4 = 0 /\ (y % 100 # 0 \/ y % 400 = 0)

MonthLength(y, m) ==
  CASE m = 2              -> IF LeapYear(y) THEN 29 ELSE 28
    [] m \in {4, 6, 9, 11} -> 30
    [] OTHER              -> 31

\* The instants datetime can represent.
Valid(v) == v \in Instant /\ v.year >= 1 /\ v.day <= MonthLength(v.year, v.month)

MonthIndex(v) == v.year * 12 + v.month

SameMonth(v, w) == v.year = w.year /\ v.month = w.month

\* v < w
Before(v, w) ==
  \/ MonthIndex(v) < MonthIndex(w)
  \/ SameMonth(v, w) /\ v.day < w.day
  \/ SameMonth(v, w) /\ v.day = w.day /\ v.tick < w.tick

-----------------------------------------------------------------------------
(* The code                                                                *)

StatisticsRange == {"this_month", "last_3_months", "last_6_months", "last_year",
                    "all_time"}

\* _subtract_calendar_months
SubtractCalendarMonths(v, n) ==
  LET zeroBased == v.year * 12 + v.month - 1 - n
      last == MonthLength(zeroBased \div 12, (zeroBased % 12) + 1)
  IN [v EXCEPT !.year  = zeroBased \div 12,
               !.month = (zeroBased % 12) + 1,
               !.day   = IF v.day <= last THEN v.day ELSE last]

MonthsOf(range) ==
  CASE range = "last_3_months" -> 3
    [] range = "last_6_months" -> 6
    [] range = "last_year"     -> 12

\* statistics_interval_for: the interval's start, if the range has one; its end
\* is the instant itself.
StartOf(range, now) ==
  IF range = "this_month" THEN [now EXCEPT !.day = 1, !.tick = 0]
                          ELSE SubtractCalendarMonths(now, MonthsOf(range))

\* The WHERE clause of aggregate_statistics on checked_in_at.
InInterval(v, range, now) ==
  /\ Before(v, now)
  /\ range # "all_time" => ~Before(v, StartOf(range, now))

-----------------------------------------------------------------------------
(* The reference                                                           *)

\* The same time of day on the latest day, no later in its month than v is in
\* its own, of the month n months before v's.
MonthsEarlier(v, n) ==
  LET month == CHOOSE p \in (v.year - n .. v.year) \X (1 .. 12) :
                 (p[1] * 12) + p[2] + n = MonthIndex(v)
      day   == CHOOSE d \in 1 .. v.day :
                 /\ d <= MonthLength(month[1], month[2])
                 /\ \A e \in d + 1 .. v.day : e > MonthLength(month[1], month[2])
  IN [year |-> month[1], month |-> month[2], day |-> day, tick |-> v.tick]

\* Whether a range chosen at `now` covers an instant v.
Covers(range, now, v) ==
  /\ Before(v, now)
  /\ CASE range = "all_time"   -> TRUE
       [] range = "this_month" -> SameMonth(v, now)
       [] OTHER                -> ~Before(v, MonthsEarlier(now, MonthsOf(range)))
=============================================================================
