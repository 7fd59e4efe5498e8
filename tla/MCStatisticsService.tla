------------------------ MODULE MCStatisticsService ------------------------
EXTENDS StatisticsService, TLC

CONSTANTS u1, u2, d1

MCPrice == [d \in Details |-> 5]

Day(y, m, d) == [year |-> y, month |-> m, day |-> d, tick |-> 1]

\* A leap day, and two instants of the day three months later whose number the
\* leap month does not have: the last one's three months start exactly at the first.
MCInstants == << Day(2024, 2, 29), [Day(2024, 5, 31) EXCEPT !.tick = 0],
                 Day(2024, 5, 31) >>

Symmetry == Permutations(Requests) \cup Permutations(Users)

\* The code's month arithmetic is the reference's, for every date of four years
\* that hold a leap day and every range.
Dates == {v \in [year : 2023 .. 2026, month : 1 .. 12, day : 1 .. 31, tick : {0}] :
            Valid(v)}

ASSUME ArithmeticIsTheReference ==
  \A v \in Dates, n \in {3, 6, 12} : SubtractCalendarMonths(v, n) = MonthsEarlier(v, n)
=============================================================================
