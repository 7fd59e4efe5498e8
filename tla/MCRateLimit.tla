---------------------------- MODULE MCRateLimit ----------------------------
(* A small instance of RateLimit for TLC.                                  *)
EXTENDS RateLimit

\* Of the windows open at the start, one ends at once and is soon old enough to be
\* swept, the other blocks until the clock stops.
MCOpenEnds == {0, MaxClock}
=============================================================================
