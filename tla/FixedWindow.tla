---------------------------- MODULE FixedWindow ----------------------------
(***************************************************************************)
(* What a rate-limit store promises: each attempt takes, in one step, the  *)
(* next number of its key's current window; a window lasts a fixed time    *)
(* and the first attempt after its end opens another.  This is the store   *)
(* the tests use in memory; RateLimit implements it with concurrent        *)
(* transactions on rows that are also swept away.                          *)
(***************************************************************************)
EXTENDS Naturals

CONSTANTS
  Keys,        \* (bucket, key digest) pairs
  Consumers,   \* calls of consume
  Times,       \* clock readings
  Window,      \* length of a window
  Null

VARIABLES
  table,       \* the counter of each key, or Null
  numbered     \* what each call was told, or Null

vars == <<table, numbered>>

Counter == [count : Nat \ {0}, ends : Nat]

\* The counter after one more attempt, at time n.
Counted(row, n) ==
  IF row = Null \/ row.ends <= n THEN [count |-> 1, ends |-> n + Window]
                                 ELSE [row EXCEPT !.count = @ + 1]

\* The caller may fail to hear the number it was given.
Consume(c, k, n) ==
  /\ numbered[c] = Null
  /\ table' = [table EXCEPT ![k] = Counted(table[k], n)]
  /\ numbered' \in {numbered, [numbered EXCEPT ![c] = table'[k]]}

Init ==
  /\ table \in [Keys -> Counter \cup {Null}]
  /\ numbered = [c \in Consumers |-> Null]

Next == \E c \in Consumers, k \in Keys, n \in Times : Consume(c, k, n)

Spec == Init /\ [][Next]_vars
=============================================================================
