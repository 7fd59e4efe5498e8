-------------------------- MODULE RateLimit_proofs --------------------------
(***************************************************************************)
(* Proofs about RateLimit: types, that no attempt is admitted over a limit *)
(* and no number is given twice, and that the swept table implements the   *)
(* fixed-window store - for any addresses, accounts, attempts, limits,     *)
(* window and retention, as long as no reading in use lags by more than    *)
(* the retention.                                                          *)
(***************************************************************************)
EXTENDS RateLimit, TLAPS

-----------------------------------------------------------------------------
(* Operators                                                               *)

\* A window has a length.
LEMMA WindowIsPositive == Window \in Nat \ {0}
  <1>1. \A x, y \in Nat \ {0} : x * y \in Nat \ {0}
    OBVIOUS
  <1>2. QED
    BY <1>1, WindowAssumption DEF Window

\* The calls of an attempt are consumers, and a consumer is a call of its attempt.
LEMMA CallsOfAttempts ==
  /\ \A a \in Attempts : Calls(a) \subseteq Consumers /\ \A c \in Calls(a) : c[1] = a
  /\ \A c \in Consumers : c[1] \in Attempts /\ c \in Calls(c[1])
  /\ \A a \in Attempts, c \in Consumers : c[1] = a => c \in Calls(a)
  BY DEF Calls, Consumers

\* One more attempt is counted in the row's window or in a later one.
LEMMA CountedIsNext ==
  ASSUME NEW row \in Counter \cup {Null}, NEW n \in Nat
  PROVE  /\ Counted(row, n) \in Counter
         /\ row # Null =>
              \/ row.ends < Counted(row, n).ends
              \/ row.ends = Counted(row, n).ends /\ row.count < Counted(row, n).count
  <1>1. CASE row = Null \/ row.ends <= n
    <2>1. Counted(row, n) = [count |-> 1, ends |-> n + Window]
      BY <1>1 DEF Counted
    <2>2. n + Window \in Nat /\ n < n + Window
      BY WindowIsPositive
    <2>3. QED
      BY <1>1, <2>1, <2>2 DEF Counter
  <1>2. CASE row # Null /\ ~(row.ends <= n)
    <2>1. row \in Counter
      BY <1>2
    <2>2. Counted(row, n) = [row EXCEPT !.count = row.count + 1]
      BY <1>2 DEF Counted
    <2>3. row.count + 1 \in Nat \ {0} /\ row.count < row.count + 1
      BY <2>1 DEF Counter
    <2>4. Counted(row, n) = [count |-> row.count + 1, ends |-> row.ends]
      BY <2>1, <2>2 DEF Counter
    <2>5. QED
      BY <2>1, <2>3, <2>4 DEF Counter
  <1>3. QED
    BY <1>1, <1>2

\* A delay is a number of seconds.
LEMMA RetryAfterType ==
  ASSUME NEW c \in Consumers, decision[c] \in Counter, ClockOf(c) \in Nat
  PROVE  RetryAfter(c) \in Nat
  <1> DEFINE rest == decision[c].ends - ClockOf(c)
  <1>1. rest \in Int /\ Second \in Nat \ {0}
    BY WindowAssumption DEF Counter
  <1>2. CASE rest < Second
    BY <1>2 DEF RetryAfter
  <1>3. CASE ~(rest < Second)
    <2>1. RetryAfter(c) = (rest + Second - 1) \div Second
      BY <1>3 DEF RetryAfter
    <2>2. rest + Second - 1 \in Nat
      BY <1>1, <1>3
    <2>3. \A x \in Nat, y \in Nat \ {0} : x \div y \in Nat
      OBVIOUS
    <2>4. QED
      BY <1>1, <2>1, <2>2, <2>3
  <1>4. QED
    BY <1>2, <1>3

\* An attempt is counted in a window that is open when it is made.
LEMMA CountedIsOpen ==
  ASSUME NEW row \in Counter \cup {Null}, NEW n \in Nat
  PROVE  n < Counted(row, n).ends
  <1>1. CASE row = Null \/ row.ends <= n
    <2>1. Counted(row, n).ends = n + Window
      BY <1>1 DEF Counted
    <2>2. QED
      BY <2>1, WindowIsPositive
  <1>2. CASE row # Null /\ ~(row.ends <= n)
    <2>1. row \in Counter /\ Counted(row, n).ends = row.ends
      BY <1>2 DEF Counted, Counter
    <2>2. QED
      BY <1>2, <2>1 DEF Counter
  <1>3. QED
    BY <1>1, <1>2

\* A delay is rounded up: it reaches the end of the window, by less than a second
\* too much.
LEMMA RetryAfterReachesTheEnd ==
  ASSUME NEW c \in Consumers, decision[c] \in Counter, ClockOf(c) \in Nat,
         ClockOf(c) < decision[c].ends
  PROVE  /\ decision[c].ends <= ClockOf(c) + RetryAfter(c) * Second
         /\ ClockOf(c) + RetryAfter(c) * Second < decision[c].ends + Second
  <1> DEFINE rest == decision[c].ends - ClockOf(c)
  <1>1. rest \in Nat \ {0} /\ Second \in Nat \ {0} /\ decision[c].ends \in Nat
    BY WindowAssumption DEF Counter
  <1>2. CASE rest < Second
    <2>1. RetryAfter(c) * Second = Second
      BY <1>1, <1>2 DEF RetryAfter
    <2>2. QED
      BY <1>1, <1>2, <2>1
  <1>3. CASE ~(rest < Second)
    <2>1. RetryAfter(c) = (rest + Second - 1) \div Second
      BY <1>3 DEF RetryAfter
    <2>2. \A x \in Nat, y \in Nat \ {0} :
            /\ (x \div y) * y \in Nat
            /\ (x \div y) * y <= x /\ x < (x \div y) * y + y
      OBVIOUS
    <2>3. rest + Second - 1 \in Nat
      BY <1>1
    <2>4. /\ RetryAfter(c) * Second \in Nat
          /\ RetryAfter(c) * Second <= rest + Second - 1
          /\ rest + Second - 1 < RetryAfter(c) * Second + Second
      BY <1>1, <2>1, <2>2, <2>3
    <2>5. QED
      BY <1>1, <2>4
  <1>4. QED
    BY <1>2, <1>3

\* Null is none of the values it stands beside.
LEMMA NullIsApart ==
  Null \notin Nat /\ Null \notin Keys /\ Null \notin Consumers /\ Null \notin Counter
  BY NullAssumption DEF Counter

-----------------------------------------------------------------------------
(* Types                                                                   *)

LEMMA TypeInit == Init => TypeOK
  <1> SUFFICES ASSUME Init PROVE TypeOK
    OBVIOUS
  <1>1. counters \in [Keys -> Counter \cup {Null}]
    <2>1. [count : 1 .. AccountLimit, ends : OpenEnds] \subseteq Counter
      <3>1. 1 .. AccountLimit \subseteq Nat \ {0} /\ OpenEnds \subseteq Nat
        BY LimitAssumption, BoundAssumption
      <3>2. QED
        BY <3>1 DEF Counter
    <2>2. QED
      BY <2>1 DEF Init
  <1>2. QED
    BY <1>1, BoundAssumption DEF Init, TypeOK, Time, Places

LEMMA TypeStep ==
  ASSUME TypeOK, CallShape, [Next]_vars
  PROVE  TypeOK'
  <1> USE DEF TypeOK, Places, At, Goto
  <1>1. ASSUME NEW a \in Attempts, Begin(a) PROVE TypeOK'
    <2>1. PICK i \in Addresses, e \in Accounts :
            key' = [key EXCEPT ![<<a, "address">>] = i, ![<<a, "account">>] = e]
      BY <1>1 DEF Begin
    <2>2. key' \in [Consumers -> Keys \cup {Null}]
      BY <2>1 DEF Keys
    <2>3. QED
      BY <1>1, <2>2 DEF Begin, store
  <1>2. ASSUME NEW c \in Consumers, NEW k \in Keys, SweepRow(c, k) PROVE TypeOK'
    BY <1>2 DEF SweepRow, calls, times
  <1>3. ASSUME NEW c \in Consumers, Upsert(c) PROVE TypeOK'
    <2>1. key[c] \in Keys /\ ClockOf(c) \in Nat
      BY <1>3 DEF CallShape, Upsert, SweepIsOver, Time
    <2>2. Found(c) \in Counter \cup {Null}
      BY <2>1 DEF Found
    <2>3. Counted(Found(c), ClockOf(c)) \in Counter
      BY <2>1, <2>2, CountedIsNext
    <2>4. QED
      BY <1>3, <2>3 DEF Upsert, times
  <1>4. ASSUME NEW c \in Consumers, TakeEffect(c),
               pc' \in [Consumers -> Places],
               decision' \in [Consumers -> Counter \cup {Null}]
        PROVE  TypeOK'
    <2>1. counters' \in [Keys -> Counter \cup {Null}] /\ buried' \in [Keys -> Counter \cup {Null}]
      BY <1>4 DEF TakeEffect
    <2>2. owner' \in [Keys -> Consumers \cup {Null}]
      BY <1>4 DEF TakeEffect, Release
    <2>3. QED
      BY <1>4, <2>1, <2>2 DEF TakeEffect, times
  <1>5. ASSUME NEW c \in Consumers, Commit(c) PROVE TypeOK'
    BY <1>4, <1>5 DEF Commit
  <1>6. ASSUME NEW c \in Consumers, LoseCommit(c) PROVE TypeOK'
    BY <1>4, <1>6 DEF LoseCommit
  <1>7. ASSUME NEW c \in Consumers, Fail(c) PROVE TypeOK'
    BY <1>7 DEF Fail, Release, times
  <1>8. ASSUME NEW a \in Attempts, Answer(a) PROVE TypeOK'
    <2>1. CASE Admit(a)
      BY <2>1 DEF Admit, store, calls, times
    <2>2. CASE FailAttempt(a)
      BY <2>2 DEF FailAttempt, store, calls, times
    <2>3. CASE Throttle(a)
      <3>1. PICK c \in Calls(a) : At(c, "decided") /\ Blocks(c)
                                  /\ retry' = [retry EXCEPT ![a] = RetryAfter(c)]
        BY <2>3 DEF Throttle
      <3>2. c \in Consumers /\ decision[c] \in Counter /\ ClockOf(c) \in Nat
        BY <3>1, CallsOfAttempts DEF CallShape, Time
      <3>3. RetryAfter(c) \in Nat
        BY <3>2, RetryAfterType
      <3>4. QED
        BY <2>3, <3>1, <3>3 DEF Throttle, store, calls, times
    <2>4. QED
      BY <1>8, <2>1, <2>2, <2>3 DEF Answer
  <1>9. ASSUME Tick \/ StepBack PROVE TypeOK'
    BY <1>9, BoundAssumption DEF Tick, StepBack, Time, store, calls
  <1>10. ASSUME UNCHANGED vars PROVE TypeOK'
    BY <1>10 DEF vars
  <1>11. QED
    BY <1>1, <1>2, <1>3, <1>5, <1>6, <1>7, <1>8, <1>9, <1>10 DEF Next, Consume
-----------------------------------------------------------------------------
(* The parts of the inductive invariant, one lemma each                    *)

LEMMA ShapeStep ==
  ASSUME TypeOK, CallShape, [Next]_vars
  PROVE  CallShape'
  <1> USE CallsOfAttempts, NullIsApart DEF TypeOK, CallShape, At, Goto, ClockOf
  <1>1. ASSUME NEW a \in Attempts, Begin(a) PROVE CallShape'
    <2>1. PICK i \in Addresses, e \in Accounts :
            key' = [key EXCEPT ![<<a, "address">>] = i, ![<<a, "account">>] = e]
      BY <1>1 DEF Begin
    <2>2. \A c \in Calls(a) : At(c, "idle") /\ key'[c] \in Keys
      <3>1. \A c \in Calls(a) : At(c, "idle")
        BY <1>1 DEF Begin
      <3>2. key'[<<a, "address">>] = i /\ key'[<<a, "account">>] = e
        BY <2>1 DEF Consumers
      <3>3. QED
        BY <3>1, <3>2 DEF Calls, Keys
    <2>3. \A c \in Consumers : c \notin Calls(a) =>
            pc'[c] = pc[c] /\ key'[c] = key[c] /\ c[1] # a
      BY <1>1, <2>1 DEF Begin, Calls
    <2>4. \A c \in Consumers : c \in Calls(a) =>
            pc'[c] = "sweeping" /\ now'[c[1]] = clock /\ reply'[c[1]] = "pending"
      BY <1>1 DEF Begin
    <2>5. UNCHANGED <<staged, decision>>
      BY <1>1 DEF Begin
    <2>6. \A b \in Attempts : b # a => now'[b] = now[b] /\ reply'[b] = reply[b]
      BY <1>1 DEF Begin
    <2>7. QED
      BY <2>2, <2>3, <2>4, <2>5, <2>6
  <1>2. ASSUME NEW c \in Consumers, NEW k \in Keys, SweepRow(c, k) PROVE CallShape'
    BY <1>2 DEF SweepRow, calls, times
  <1>3. ASSUME NEW c \in Consumers, Upsert(c) PROVE CallShape'
    <2>1. key[c] \in Keys /\ ClockOf(c) \in Nat /\ Found(c) \in Counter \cup {Null}
      BY <1>3 DEF Upsert, SweepIsOver, Time, Found
    <2>2. Counted(Found(c), ClockOf(c)) # Null
      BY <2>1, CountedIsNext
    <2>3. QED
      BY <1>3, <2>2 DEF Upsert, SweepIsOver, times
  <1>4. ASSUME NEW c \in Consumers, Commit(c) PROVE CallShape'
    BY <1>4 DEF Commit, TakeEffect, times
  <1>5. ASSUME NEW c \in Consumers, LoseCommit(c) PROVE CallShape'
    BY <1>5 DEF LoseCommit, TakeEffect, times
  <1>6. ASSUME NEW c \in Consumers, Fail(c) PROVE CallShape'
    BY <1>6 DEF Fail, Running, times
  <1>7. ASSUME NEW a \in Attempts, Answer(a) PROVE CallShape'
    BY <1>7 DEF Answer, Admit, Throttle, FailAttempt, store, calls, times
  <1>8. ASSUME Tick \/ StepBack PROVE CallShape'
    BY <1>8 DEF Tick, StepBack, store, calls
  <1>9. ASSUME UNCHANGED vars PROVE CallShape'
    BY <1>9 DEF vars
  <1>10. QED
    BY <1>1, <1>2, <1>3, <1>4, <1>5, <1>6, <1>7, <1>8, <1>9 DEF Next, Consume

LEMMA ReadingsStep ==
  ASSUME TypeOK, CallShape, ReadingsAreRecent, [Next]_vars
  PROVE  ReadingsAreRecent'
  <1> USE CallsOfAttempts DEF TypeOK, ReadingsAreRecent, Running, At, Goto, ClockOf, Time
  <1>1. ASSUME NEW a \in Attempts, Begin(a) PROVE ReadingsAreRecent'
    <2>1. \A c \in Consumers : c \notin Calls(a) => pc'[c] = pc[c] /\ now'[c[1]] = now[c[1]]
      BY <1>1 DEF Begin
    <2>2. \A c \in Consumers : c \in Calls(a) => now'[c[1]] = clock
      BY <1>1 DEF Begin
    <2>3. UNCHANGED <<clock, latest>>
      BY <1>1 DEF Begin
    <2>4. QED
      BY <2>1, <2>2, <2>3
  <1>2. ASSUME NEW c \in Consumers, NEW k \in Keys, SweepRow(c, k) PROVE ReadingsAreRecent'
    BY <1>2 DEF SweepRow, calls, times
  <1>3. ASSUME NEW c \in Consumers, Upsert(c) PROVE ReadingsAreRecent'
    BY <1>3 DEF Upsert, SweepIsOver, times
  <1>4. ASSUME NEW c \in Consumers, Commit(c) PROVE ReadingsAreRecent'
    BY <1>4 DEF Commit, TakeEffect, times
  <1>5. ASSUME NEW c \in Consumers, LoseCommit(c) PROVE ReadingsAreRecent'
    BY <1>5 DEF LoseCommit, TakeEffect, times
  <1>6. ASSUME NEW c \in Consumers, Fail(c) PROVE ReadingsAreRecent'
    BY <1>6 DEF Fail, times
  <1>7. ASSUME NEW a \in Attempts, Answer(a) PROVE ReadingsAreRecent'
    BY <1>7 DEF Answer, Admit, Throttle, FailAttempt, store, calls, times
  <1>8. ASSUME Tick PROVE ReadingsAreRecent'
    <2>1. latest <= latest' /\ clock' <= latest' /\ latest' <= clock' + Lag
      BY <1>8, LagAssumption DEF Tick
    <2>2. ASSUME NEW c \in Consumers, Running(c)
          PROVE  ClockOf(c) <= latest' /\ latest' <= ClockOf(c) + Lag
      <3>1. reply[c[1]] # "none" /\ now[c[1]] \in Time
        BY <2>2 DEF CallShape
      <3>2. ~Settled(c[1])
        BY <2>2 DEF Settled
      <3>3. latest' <= now[c[1]] + Lag
        BY <1>8, <3>1, <3>2 DEF Tick, Recent
      <3>4. latest' \in Int
        BY <1>8 DEF Tick
      <3>5. QED
        BY <2>1, <2>2, <3>1, <3>3, <3>4
    <2>3. UNCHANGED <<pc, now>>
      BY <1>8 DEF Tick, calls
    <2>4. QED
      BY <2>1, <2>2, <2>3
  <1>9. ASSUME StepBack PROVE ReadingsAreRecent'
    BY <1>9 DEF StepBack, calls
  <1>10. ASSUME UNCHANGED vars PROVE ReadingsAreRecent'
    BY <1>10 DEF vars
  <1>11. QED
    BY <1>1, <1>2, <1>3, <1>4, <1>5, <1>6, <1>7, <1>8, <1>9, <1>10 DEF Next, Consume

LEMMA HoldStep ==
  ASSUME TypeOK, CallShape, RowsAreHeldForAReason, [Next]_vars
  PROVE  RowsAreHeldForAReason'
  <1> USE CallsOfAttempts, NullIsApart
      DEF TypeOK, RowsAreHeldForAReason, Running, Stale, At, Goto, ClockOf
  <1>1. ASSUME NEW a \in Attempts, Begin(a) PROVE RowsAreHeldForAReason'
    <2>1. \A c \in Consumers : c \in Calls(a) => At(c, "idle")
      BY <1>1 DEF Begin, CallShape
    <2>2. \A c \in Consumers : c \in Calls(a) => pc'[c] = "sweeping"
      BY <1>1 DEF Begin
    <2>3. \A c \in Consumers : c \notin Calls(a) =>
            pc'[c] = pc[c] /\ key'[c] = key[c] /\ now'[c[1]] = now[c[1]]
      BY <1>1 DEF Begin, Calls
    <2>4. UNCHANGED <<counters, owner>>
      BY <1>1 DEF Begin, store
    <2>5. \A k \in Keys, c \in Consumers : owner[k] = c => c \notin Calls(a)
      BY <2>1
    <2>6. QED
      BY <2>2, <2>3, <2>4, <2>5
  <1>2. ASSUME NEW c \in Consumers, NEW k \in Keys, SweepRow(c, k)
        PROVE  RowsAreHeldForAReason'
    BY <1>2 DEF SweepRow, calls, times, CallShape
  <1>3. ASSUME NEW c \in Consumers, Upsert(c) PROVE RowsAreHeldForAReason'
    <2>1. key[c] \in Keys
      BY <1>3 DEF Upsert, SweepIsOver, CallShape
    <2>2. \A d \in Consumers : d # c /\ At(d, "staged") => key[d] # key[c]
      BY <1>3 DEF Upsert
    <2>3. QED
      BY <1>3, <2>1, <2>2 DEF Upsert, SweepIsOver, times, CallShape
  <1>4. ASSUME NEW c \in Consumers, TakeEffect(c),
               pc' = [pc EXCEPT ![c] = "decided"] \/ pc' = [pc EXCEPT ![c] = "failed"]
        PROVE  RowsAreHeldForAReason'
    <2>1. owner[key[c]] = c /\ pc'[c] # "staged" /\ \A d \in Consumers : d # c => pc'[d] = pc[d]
      BY <1>4 DEF TakeEffect
    <2>2. \A k \in Keys, d \in Consumers : owner'[k] = d => owner[k] = d /\ d # c
      BY <1>4 DEF TakeEffect, Release
    <2>3. \A k \in Keys : owner[k] # c => counters'[k] = counters[k] /\ owner'[k] = owner[k]
      BY <1>4, <2>1 DEF TakeEffect, Release
    <2>4. UNCHANGED <<key, now>>
      BY <1>4 DEF TakeEffect, times
    <2>5. \A d \in Consumers : At(d, "staged") => key[d] \in Keys
      BY DEF CallShape
    <2>6. QED
      BY <2>1, <2>2, <2>3, <2>4, <2>5
  <1>5. ASSUME NEW c \in Consumers, Commit(c) PROVE RowsAreHeldForAReason'
    BY <1>4, <1>5 DEF Commit
  <1>6. ASSUME NEW c \in Consumers, LoseCommit(c) PROVE RowsAreHeldForAReason'
    BY <1>4, <1>6 DEF LoseCommit
  <1>7. ASSUME NEW c \in Consumers, Fail(c) PROVE RowsAreHeldForAReason'
    BY <1>7 DEF Fail, Release, times, CallShape
  <1>8. ASSUME NEW a \in Attempts, Answer(a) PROVE RowsAreHeldForAReason'
    BY <1>8 DEF Answer, Admit, Throttle, FailAttempt, store, calls, times
  <1>9. ASSUME Tick \/ StepBack PROVE RowsAreHeldForAReason'
    BY <1>9 DEF Tick, StepBack, store, calls
  <1>10. ASSUME UNCHANGED vars PROVE RowsAreHeldForAReason'
    BY <1>10 DEF vars
  <1>11. QED
    BY <1>1, <1>2, <1>3, <1>5, <1>6, <1>7, <1>8, <1>9, <1>10 DEF Next, Consume

\* A row that ended before n counts as no row at n.
LEMMA OverIsNoRow ==
  ASSUME NEW row \in Counter \cup {Null}, NEW n \in Nat, row = Null \/ row.ends <= n
  PROVE  Counted(row, n) = Counted(Null, n)
  BY DEF Counted

LEMMA StagedStep ==
  ASSUME TypeOK, CallShape, RowsAreHeldForAReason, StagedIsNext, [Next]_vars
  PROVE  StagedIsNext'
  <1> USE CallsOfAttempts, NullIsApart DEF TypeOK, StagedIsNext, At, Goto, ClockOf
  <1>1. ASSUME NEW a \in Attempts, Begin(a) PROVE StagedIsNext'
    <2>1. \A c \in Consumers : c \in Calls(a) => pc'[c] = "sweeping"
      BY <1>1 DEF Begin
    <2>2. \A c \in Consumers : c \notin Calls(a) =>
            pc'[c] = pc[c] /\ key'[c] = key[c] /\ now'[c[1]] = now[c[1]]
      BY <1>1 DEF Begin, Calls
    <2>3. UNCHANGED <<counters, staged>>
      BY <1>1 DEF Begin, store
    <2>4. QED
      BY <2>1, <2>2, <2>3
  <1>2. ASSUME NEW c \in Consumers, NEW k \in Keys, SweepRow(c, k) PROVE StagedIsNext'
    BY <1>2 DEF SweepRow, calls, times
  <1>3. ASSUME NEW c \in Consumers, Upsert(c) PROVE StagedIsNext'
    <2>1. At(c, "sweeping") /\ key[c] \in Keys /\ now[c[1]] \in Nat
      BY <1>3 DEF Upsert, SweepIsOver, CallShape, Time
    <2>2. Counted(Found(c), now[c[1]]) = Counted(counters[key[c]], now[c[1]])
      <3>1. CASE owner[key[c]] = c
        <4>1. Stale(c, key[c]) /\ Found(c) = Null
          BY <2>1, <3>1 DEF RowsAreHeldForAReason, Found, Swept
        <4>2. counters[key[c]] \in Counter /\ counters[key[c]].ends <= now[c[1]]
          BY <2>1, <4>1, BoundAssumption DEF Stale, Counter
        <4>3. QED
          BY <2>1, <4>1, <4>2, OverIsNoRow
      <3>2. CASE owner[key[c]] # c
        BY <2>1, <3>2 DEF Found, Swept
      <3>3. QED
        BY <3>1, <3>2
    <2>3. staged'[c] = Counted(counters[key[c]], now[c[1]])
      BY <1>3, <2>2 DEF Upsert
    <2>4. \A d \in Consumers : d # c => pc'[d] = pc[d] /\ staged'[d] = staged[d]
      BY <1>3 DEF Upsert
    <2>5. UNCHANGED <<counters, key, now>>
      BY <1>3 DEF Upsert, times
    <2>6. QED
      BY <2>3, <2>4, <2>5
  <1>4. ASSUME NEW c \in Consumers, TakeEffect(c),
               pc' = [pc EXCEPT ![c] = "decided"] \/ pc' = [pc EXCEPT ![c] = "failed"]
        PROVE  StagedIsNext'
    <2>1. pc'[c] # "staged" /\ \A d \in Consumers : d # c => pc'[d] = pc[d]
      BY <1>4
    <2>2. \A d \in Consumers : At(d, "staged") => key[d] \in Keys /\ owner[key[d]] = d
      BY DEF CallShape, RowsAreHeldForAReason
    <2>3. \A d \in Consumers : At(d, "staged") /\ d # c =>
            counters'[key[d]] = counters[key[d]] /\ staged'[d] = staged[d]
      BY <1>4, <2>2 DEF TakeEffect
    <2>4. UNCHANGED <<key, now>>
      BY <1>4 DEF TakeEffect, times
    <2>5. QED
      BY <2>1, <2>3, <2>4
  <1>5. ASSUME NEW c \in Consumers, Commit(c) PROVE StagedIsNext'
    BY <1>4, <1>5 DEF Commit
  <1>6. ASSUME NEW c \in Consumers, LoseCommit(c) PROVE StagedIsNext'
    BY <1>4, <1>6 DEF LoseCommit
  <1>7. ASSUME NEW c \in Consumers, Fail(c) PROVE StagedIsNext'
    BY <1>7 DEF Fail, times
  <1>8. ASSUME NEW a \in Attempts, Answer(a) PROVE StagedIsNext'
    BY <1>8 DEF Answer, Admit, Throttle, FailAttempt, store, calls, times
  <1>9. ASSUME Tick \/ StepBack PROVE StagedIsNext'
    BY <1>9 DEF Tick, StepBack, store, calls
  <1>10. ASSUME UNCHANGED vars PROVE StagedIsNext'
    BY <1>10 DEF vars
  <1>11. QED
    BY <1>1, <1>2, <1>3, <1>5, <1>6, <1>7, <1>8, <1>9, <1>10 DEF Next, Consume

\* What was swept from under a call was over for it: the call counts as if the
\* counter had never been swept.
LEMMA SweepingIsInvisible ==
  ASSUME TypeOK, CallShape, ReadingsAreRecent, StagedIsNext, BuriedIsOver,
         NEW c \in Consumers, At(c, "staged")
  PROVE  /\ key[c] \in Keys /\ ClockOf(c) \in Time
         /\ Unswept(key[c]) \in Counter \cup {Null}
         /\ staged[c] = Counted(Unswept(key[c]), ClockOf(c))
  <1> DEFINE k == key[c]
             n == ClockOf(c)
  <1>1. k \in Keys /\ n \in Time /\ n \in Nat
    BY DEF CallShape, At, Time
  <1>2. Unswept(k) \in Counter \cup {Null}
    BY <1>1 DEF Unswept, TypeOK
  <1>3. staged[c] = Counted(counters[k], n)
    BY DEF StagedIsNext
  <1>4. CASE counters[k] # Null
    BY <1>1, <1>2, <1>3, <1>4 DEF Unswept
  <1>5. CASE counters[k] = Null /\ buried[k] = Null
    BY <1>1, <1>2, <1>3, <1>5 DEF Unswept
  <1>6. CASE counters[k] = Null /\ buried[k] # Null
    <2>1. buried[k] \in Counter /\ buried[k].ends \in Nat
      BY <1>1, <1>6 DEF TypeOK, Counter
    <2>2. buried[k].ends + Retention < latest
      BY <1>1, <1>6 DEF BuriedIsOver
    <2>3. latest <= n + Lag /\ latest \in Nat
      BY DEF ReadingsAreRecent, Running, At, TypeOK, Time
    <2>4. buried[k].ends <= n
      BY <1>1, <2>1, <2>2, <2>3, LagAssumption, BoundAssumption
    <2>5. Counted(buried[k], n) = Counted(Null, n)
      BY <1>1, <2>1, <2>4, OverIsNoRow
    <2>6. QED
      BY <1>1, <1>2, <1>3, <1>6, <2>5 DEF Unswept
  <1>7. QED
    BY <1>4, <1>5, <1>6

\* When a transaction takes effect, its key's number is the only one that moves.
LEMMA EffectOnNumbers ==
  ASSUME TypeOK, CallShape, RowsAreHeldForAReason, NEW c \in Consumers, TakeEffect(c)
  PROVE  \A k \in Keys : Unswept(k)' = IF k = key[c] THEN staged[c] ELSE Unswept(k)
  <1> USE NullIsApart
  <1> SUFFICES ASSUME NEW k \in Keys
               PROVE  Unswept(k)' = IF k = key[c] THEN staged[c] ELSE Unswept(k)
    OBVIOUS
  <1>1. At(c, "staged") /\ staged[c] # Null
    BY DEF TakeEffect, CallShape
  <1>2. CASE k = key[c]
    <2>1. counters'[k] = staged[c]
      BY <1>2 DEF TakeEffect
    <2>2. QED
      BY <1>1, <1>2, <2>1 DEF Unswept
  <1>3. CASE k # key[c] /\ owner[k] = c
    <2>1. counters[k] # Null
      BY <1>3 DEF RowsAreHeldForAReason, Stale
    <2>2. counters'[k] = Null /\ buried'[k] = counters[k]
      BY <1>3 DEF TakeEffect, TypeOK
    <2>3. QED
      BY <1>3, <2>1, <2>2 DEF Unswept
  <1>4. CASE k # key[c] /\ owner[k] # c
    <2>1. counters'[k] = counters[k] /\ buried'[k] = buried[k]
      BY <1>4 DEF TakeEffect, TypeOK
    <2>2. QED
      BY <1>4, <2>1 DEF Unswept
  <1>5. QED
    BY <1>2, <1>3, <1>4

LEMMA BuriedStep ==
  ASSUME TypeOK, CallShape, ReadingsAreRecent, RowsAreHeldForAReason, BuriedIsOver,
         [Next]_vars
  PROVE  BuriedIsOver'
  <1> USE DEF BuriedIsOver
  <1>1. ASSUME NEW c \in Consumers, TakeEffect(c) PROVE BuriedIsOver'
    <2>1. UNCHANGED latest
      BY <1>1 DEF TakeEffect, times
    <2>2. ASSUME NEW k \in Keys, owner[k] = c, k # key[c]
          PROVE  counters[k].ends + Retention < latest
      <3>1. Running(c) /\ counters[k] # Null /\ counters[k].ends + Retention < ClockOf(c)
        BY <2>2 DEF RowsAreHeldForAReason, Stale
      <3>2. ClockOf(c) <= latest
        BY <3>1 DEF ReadingsAreRecent
      <3>3. counters[k].ends \in Nat /\ latest \in Nat /\ ClockOf(c) \in Nat
        BY <1>1, <3>1 DEF TypeOK, Counter, Time, TakeEffect, CallShape, At
      <3>4. QED
        BY <3>1, <3>2, <3>3, BoundAssumption
    <2>3. \A k \in Keys : buried'[k] = IF owner[k] = c /\ k # key[c] THEN counters[k] ELSE buried[k]
      BY <1>1 DEF TakeEffect
    <2>4. QED
      BY <2>1, <2>2, <2>3
  <1>2. ASSUME Tick PROVE BuriedIsOver'
    <2>1. latest <= latest' /\ latest' \in Nat /\ latest \in Nat /\ UNCHANGED buried
      BY <1>2 DEF Tick, TypeOK, Time, store
    <2>2. ASSUME NEW k \in Keys, buried[k] # Null PROVE buried[k].ends + Retention < latest'
      <3>1. buried[k].ends \in Nat
        BY <2>2 DEF TypeOK, Counter
      <3>2. QED
        BY <2>1, <2>2, <3>1, BoundAssumption
    <2>3. QED
      BY <2>1, <2>2
  <1>3. ASSUME UNCHANGED <<buried, latest>> PROVE BuriedIsOver'
    BY <1>3
  <1>4. ASSUME NEW c \in Consumers, Consume(c) \/ LoseCommit(c) \/ Fail(c) PROVE BuriedIsOver'
    BY <1>1, <1>3, <1>4
       DEF Consume, SweepRow, Upsert, Commit, LoseCommit, Fail, times
  <1>5. ASSUME NEW a \in Attempts, Begin(a) \/ Answer(a) PROVE BuriedIsOver'
    BY <1>3, <1>5 DEF Begin, Answer, Admit, Throttle, FailAttempt, store, times
  <1>6. ASSUME StepBack \/ UNCHANGED vars PROVE BuriedIsOver'
    BY <1>3, <1>6 DEF StepBack, store, vars
  <1>7. QED
    BY <1>2, <1>4, <1>5, <1>6 DEF Next

\* A transaction that takes effect gives out a number no one had.
LEMMA NumbersGrow ==
  ASSUME TypeOK, CallShape, ReadingsAreRecent, RowsAreHeldForAReason, StagedIsNext,
         BuriedIsOver, NumbersAreUsed, NEW c \in Consumers, TakeEffect(c)
  PROVE  /\ staged[c] \in Counter
         /\ Unswept(key[c])' = staged[c]
         /\ \A d \in Consumers : decision[d] # Null /\ key[d] = key[c] =>
              /\ decision[d] # staged[c]
              /\ \/ decision[d].ends < staged[c].ends
                 \/ decision[d].ends = staged[c].ends /\ decision[d].count <= staged[c].count
  <1> DEFINE row == Unswept(key[c])
  <1>1. At(c, "staged")
    BY DEF TakeEffect
  <1>2. key[c] \in Keys /\ ClockOf(c) \in Nat /\ row \in Counter \cup {Null}
        /\ staged[c] = Counted(row, ClockOf(c))
    BY <1>1, SweepingIsInvisible DEF Time
  <1>3. /\ Counted(row, ClockOf(c)) \in Counter
        /\ row # Null =>
             \/ row.ends < Counted(row, ClockOf(c)).ends
             \/ /\ row.ends = Counted(row, ClockOf(c)).ends
                /\ row.count < Counted(row, ClockOf(c)).count
    BY <1>2, CountedIsNext
  <1>4. Unswept(key[c])' = staged[c]
    <2>1. UNCHANGED key
      BY DEF TakeEffect
    <2>2. QED
      BY <1>2, <2>1, EffectOnNumbers DEF Unswept
  <1>5. ASSUME NEW d \in Consumers, decision[d] # Null, key[d] = key[c]
        PROVE  /\ decision[d] # staged[c]
               /\ \/ decision[d].ends < staged[c].ends
                  \/ decision[d].ends = staged[c].ends /\ decision[d].count <= staged[c].count
    <2>1. decision[d] \in Counter /\ row \in Counter
      BY <1>2, <1>5 DEF TypeOK, NumbersAreUsed
    <2>2. \/ decision[d].ends < row.ends
          \/ decision[d].ends = row.ends /\ decision[d].count <= row.count
      BY <1>5 DEF NumbersAreUsed
    <2>3. \/ row.ends < staged[c].ends
          \/ row.ends = staged[c].ends /\ row.count < staged[c].count
      BY <1>2, <1>3, <2>1, NullIsApart
    <2>4. QED
      BY <1>2, <1>3, <2>1, <2>2, <2>3 DEF Counter
  <1>6. QED
    BY <1>2, <1>3, <1>4, <1>5

LEMMA NumbersStep ==
  ASSUME TypeOK, CallShape, ReadingsAreRecent, RowsAreHeldForAReason, StagedIsNext,
         BuriedIsOver, NumbersAreUsed, [Next]_vars
  PROVE  NumbersAreUsed'
  <1> USE NullIsApart
  <1>1. ASSUME NEW c \in Consumers, TakeEffect(c),
               \A d \in Consumers : decision'[d] = decision[d] \/ (d = c /\ decision'[d] = staged[d])
        PROVE  NumbersAreUsed'
    <2>1. UNCHANGED key
      BY <1>1 DEF TakeEffect
    <2>2. staged[c] \in Counter /\ Unswept(key[c])' = staged[c]
      BY <1>1, NumbersGrow
    <2>3. \A k \in Keys : k # key[c] => Unswept(k)' = Unswept(k)
      BY <1>1, EffectOnNumbers
    <2>4. ASSUME NEW d \in Consumers, decision'[d] # Null
          PROVE  /\ Unswept(key[d])' # Null
                 /\ \/ decision'[d].ends < Unswept(key[d])'.ends
                    \/ /\ decision'[d].ends = Unswept(key[d])'.ends
                       /\ decision'[d].count <= Unswept(key[d])'.count
      <3>1. CASE d = c /\ decision'[d] = staged[d]
        <4>1. Unswept(key[d])' = staged[c] /\ decision'[d] = staged[c]
          BY <2>2, <3>1
        <4>2. staged[c].count \in Nat
          BY <2>2 DEF Counter
        <4>3. QED
          BY <2>2, <4>1, <4>2
      <3>2. CASE decision'[d] = decision[d] /\ key[d] = key[c]
        <4>1. Unswept(key[d])' = staged[c]
          BY <2>1, <2>2, <3>2 DEF Unswept
        <4>2. \/ decision[d].ends < staged[c].ends
              \/ decision[d].ends = staged[c].ends /\ decision[d].count <= staged[c].count
          BY <1>1, <2>4, <3>2, NumbersGrow
        <4>3. QED
          BY <2>2, <3>2, <4>1, <4>2
      <3>3. CASE decision'[d] = decision[d] /\ key[d] # key[c]
        <4>1. key[d] \in Keys
          BY <2>4, <3>3 DEF CallShape, At
        <4>2. Unswept(key[d])' = Unswept(key[d])
          BY <2>1, <2>3, <3>3, <4>1 DEF Unswept
        <4>3. QED
          BY <2>4, <3>3, <4>2 DEF NumbersAreUsed
      <3>4. QED
        BY <1>1, <3>1, <3>2, <3>3
    <2>5. QED
      BY <2>4 DEF NumbersAreUsed
  <1>2. ASSUME NEW c \in Consumers, Commit(c) PROVE NumbersAreUsed'
    <2>1. TakeEffect(c) /\ decision' = [decision EXCEPT ![c] = staged[c]]
      BY <1>2 DEF Commit
    <2>2. \A d \in Consumers : decision'[d] = decision[d] \/ (d = c /\ decision'[d] = staged[d])
      BY <2>1 DEF TypeOK
    <2>3. QED
      BY <1>1, <2>1, <2>2
  <1>3. ASSUME NEW c \in Consumers, LoseCommit(c) PROVE NumbersAreUsed'
    <2>1. TakeEffect(c) /\ UNCHANGED decision
      BY <1>3 DEF LoseCommit
    <2>2. QED
      BY <1>1, <2>1
  <1>4. ASSUME UNCHANGED <<counters, buried, decision>>,
               \A c \in Consumers : decision[c] # Null => key'[c] = key[c]
        PROVE  NumbersAreUsed'
    BY <1>4 DEF NumbersAreUsed, Unswept
  <1>5. ASSUME NEW a \in Attempts, Begin(a) PROVE NumbersAreUsed'
    <2>1. \A c \in Consumers : decision[c] # Null => c \notin Calls(a)
      BY <1>5, CallsOfAttempts DEF Begin, CallShape, At
    <2>2. \A c \in Consumers : c \notin Calls(a) => key'[c] = key[c]
      BY <1>5 DEF Begin, Calls, TypeOK
    <2>3. QED
      BY <1>4, <1>5, <2>1, <2>2 DEF Begin, store
  <1>6. ASSUME NEW c \in Consumers, Upsert(c) \/ Fail(c) \/ \E k \in Keys : SweepRow(c, k)
        PROVE  NumbersAreUsed'
    BY <1>4, <1>6 DEF Upsert, Fail, SweepRow, calls
  <1>7. ASSUME NEW a \in Attempts, Answer(a) PROVE NumbersAreUsed'
    BY <1>4, <1>7 DEF Answer, Admit, Throttle, FailAttempt, store, calls
  <1>8. ASSUME Tick \/ StepBack \/ UNCHANGED vars PROVE NumbersAreUsed'
    BY <1>4, <1>8 DEF Tick, StepBack, store, calls, vars
  <1>9. QED
    BY <1>2, <1>3, <1>5, <1>6, <1>7, <1>8 DEF Next, Consume

LEMMA AdmittedStep ==
  ASSUME TypeOK, CallShape, ReadingsAreRecent, RowsAreHeldForAReason, StagedIsNext,
         BuriedIsOver, NumbersAreUsed, AdmittedWithinLimits, [Next]_vars
  PROVE  AdmittedWithinLimits'
  <1> USE CallsOfAttempts, NullIsApart DEF AdmittedWithinLimits
  <1>1. ASSUME NEW c \in Consumers, Commit(c) PROVE AdmittedWithinLimits'
    <2>1. UNCHANGED <<key, reply>> /\ TakeEffect(c)
      BY <1>1 DEF Commit, TakeEffect
    <2>2. decision' = [decision EXCEPT ![c] = staged[c]] /\ decision'[c] = staged[c]
      BY <1>1 DEF Commit, TypeOK
    <2>3. \A d \in Consumers : d # c => decision'[d] = decision[d]
      BY <2>2 DEF TypeOK
    <2>4. \A d \in Consumers : decision[d] # Null /\ key[d] = key[c] => decision[d] # staged[c]
      BY <2>1, NumbersGrow
    <2>5. reply[c[1]] # "admitted"
      BY <1>1 DEF Commit, TakeEffect, CallShape, At
    <2>6. \A a \in Attempts : reply[a] = "admitted" => c \notin Calls(a)
      BY <2>5
    <2>7. QED
      BY <2>1, <2>2, <2>3, <2>4, <2>6
  <1>2. ASSUME NEW a \in Attempts, Begin(a) PROVE AdmittedWithinLimits'
    <2>1. \A c \in Consumers : decision[c] # Null => c \notin Calls(a)
      BY <1>2 DEF Begin, CallShape, At
    <2>2. \A c \in Consumers : c \notin Calls(a) => key'[c] = key[c]
      BY <1>2 DEF Begin, Calls, TypeOK
    <2>3. reply' = [reply EXCEPT ![a] = "pending"] /\ UNCHANGED decision
      BY <1>2 DEF Begin
    <2>4. \A b \in Attempts : reply'[b] = "admitted" => b # a /\ reply[b] = "admitted"
      BY <2>3 DEF TypeOK
    <2>5. \A b \in Attempts, c \in Consumers : c \in Calls(b) /\ b # a => c \notin Calls(a)
      BY DEF Calls
    <2>6. QED
      BY <2>1, <2>2, <2>3, <2>4, <2>5
  <1>3. ASSUME NEW a \in Attempts, Admit(a) PROVE AdmittedWithinLimits'
    <2>1. \A c \in Calls(a) : decision[c] \in Counter /\ ~(decision[c].count > LimitOf(key[c]))
      BY <1>3 DEF Admit, Blocks, CallShape, TypeOK
    <2>2. \A c \in Calls(a) : LimitOf(key[c]) \in Nat
      BY LimitAssumption DEF LimitOf
    <2>3. \A c \in Calls(a) : decision[c].count <= LimitOf(key[c])
      BY <2>1, <2>2 DEF Counter
    <2>4. UNCHANGED <<key, decision>> /\ reply' = [reply EXCEPT ![a] = "admitted"]
      BY <1>3 DEF Admit, calls
    <2>5. \A b \in Attempts : reply'[b] = "admitted" => b = a \/ reply[b] = "admitted"
      BY <2>4 DEF TypeOK
    <2>6. QED
      BY <2>3, <2>4, <2>5
  <1>4. ASSUME UNCHANGED <<key, decision>>,
               \A a \in Attempts : reply'[a] = "admitted" => reply[a] = "admitted"
        PROVE  AdmittedWithinLimits'
    BY <1>4
  <1>5. ASSUME NEW a \in Attempts, Throttle(a) \/ FailAttempt(a) PROVE AdmittedWithinLimits'
    BY <1>4, <1>5 DEF Throttle, FailAttempt, calls, TypeOK
  <1>6. ASSUME NEW c \in Consumers,
               Upsert(c) \/ LoseCommit(c) \/ Fail(c) \/ \E k \in Keys : SweepRow(c, k)
        PROVE  AdmittedWithinLimits'
    BY <1>4, <1>6 DEF Upsert, LoseCommit, TakeEffect, Fail, SweepRow, calls
  <1>7. ASSUME Tick \/ StepBack \/ UNCHANGED vars PROVE AdmittedWithinLimits'
    BY <1>4, <1>7 DEF Tick, StepBack, calls, vars
  <1>8. QED
    BY <1>1, <1>2, <1>3, <1>5, <1>6, <1>7 DEF Next, Consume, Answer

-----------------------------------------------------------------------------
(* Delays                                                                  *)

\* A call keeps its attempt's clock reading and its key from its start on.
LEMMA CallsKeepTheirReading ==
  ASSUME TypeOK, CallShape, [Next]_vars, NEW c \in Consumers, ~At(c, "idle")
  PROVE  ClockOf(c)' = ClockOf(c) /\ key'[c] = key[c]
  <1> USE CallsOfAttempts
  <1>1. ASSUME NEW a \in Attempts, Begin(a) PROVE ClockOf(c)' = ClockOf(c) /\ key'[c] = key[c]
    <2>1. c[1] # a /\ c \notin Calls(a)
      BY <1>1 DEF Begin, CallShape
    <2>2. now'[c[1]] = now[c[1]]
      BY <1>1, <2>1 DEF Begin, TypeOK
    <2>3. key'[c] = key[c]
      BY <1>1, <2>1 DEF Begin, TypeOK, Calls
    <2>4. QED
      BY <2>2, <2>3 DEF ClockOf
  <1>2. UNCHANGED <<key, now>> => ClockOf(c)' = ClockOf(c) /\ key'[c] = key[c]
    BY DEF ClockOf
  <1>3. ASSUME NEW d \in Consumers, Consume(d) \/ LoseCommit(d) \/ Fail(d)
        PROVE  UNCHANGED <<key, now>>
    BY <1>3 DEF Consume, SweepRow, Upsert, Commit, LoseCommit, TakeEffect, Fail, times
  <1>4. ASSUME NEW a \in Attempts, Answer(a) PROVE UNCHANGED <<key, now>>
    BY <1>4 DEF Answer, Admit, Throttle, FailAttempt, times
  <1>5. ASSUME Tick \/ StepBack \/ UNCHANGED vars PROVE UNCHANGED <<key, now>>
    BY <1>5 DEF Tick, StepBack, vars
  <1>6. QED
    BY <1>1, <1>2, <1>3, <1>4, <1>5 DEF Next

\* A call is given a row at most once, and it is the row it has staged.
LEMMA DecisionOnce ==
  ASSUME TypeOK, CallShape, [Next]_vars, NEW c \in Consumers
  PROVE  \/ decision'[c] = decision[c]
         \/ At(c, "staged") /\ decision[c] = Null /\ decision'[c] = staged[c]
  <1>1. ASSUME NEW d \in Consumers, Commit(d)
        PROVE  \/ decision'[c] = decision[c]
               \/ At(c, "staged") /\ decision[c] = Null /\ decision'[c] = staged[c]
    <2>1. CASE c = d
      BY <1>1, <2>1 DEF Commit, TakeEffect, TypeOK, CallShape, At
    <2>2. CASE c # d
      BY <1>1, <2>2 DEF Commit, TypeOK
    <2>3. QED
      BY <2>1, <2>2
  <1>2. ASSUME NEW d \in Consumers,
               Upsert(d) \/ LoseCommit(d) \/ Fail(d) \/ \E k \in Keys : SweepRow(d, k)
        PROVE  UNCHANGED decision
    BY <1>2 DEF Upsert, LoseCommit, Fail, SweepRow, calls
  <1>3. ASSUME NEW a \in Attempts, Begin(a) \/ Answer(a) PROVE UNCHANGED decision
    BY <1>3 DEF Begin, Answer, Admit, Throttle, FailAttempt, calls
  <1>4. ASSUME Tick \/ StepBack \/ UNCHANGED vars PROVE UNCHANGED decision
    BY <1>4 DEF Tick, StepBack, calls, vars
  <1>5. QED
    BY <1>1, <1>2, <1>3, <1>4 DEF Next, Consume

LEMMA WindowsStep ==
  ASSUME TypeOK, CallShape, StagedIsNext, WindowsHoldTheirReadings, [Next]_vars
  PROVE  WindowsHoldTheirReadings'
  <1> SUFFICES ASSUME NEW c \in Consumers, decision'[c] # Null
               PROVE  (ClockOf(c) < decision[c].ends)'
    BY DEF WindowsHoldTheirReadings
  <1>1. CASE decision'[c] = decision[c]
    <2>1. ~At(c, "idle")
      BY <1>1 DEF CallShape, At
    <2>2. ClockOf(c)' = ClockOf(c)
      BY <2>1, CallsKeepTheirReading
    <2>3. QED
      BY <1>1, <2>2 DEF WindowsHoldTheirReadings
  <1>2. CASE At(c, "staged") /\ decision'[c] = staged[c]
    <2>1. ~At(c, "idle") /\ ClockOf(c) \in Nat /\ key[c] \in Keys
      BY <1>2 DEF CallShape, At, Time
    <2>2. ClockOf(c)' = ClockOf(c)
      BY <2>1, CallsKeepTheirReading
    <2>3. staged[c] = Counted(counters[key[c]], ClockOf(c))
      BY <1>2 DEF StagedIsNext
    <2>4. ClockOf(c) < staged[c].ends
      BY <2>1, <2>3, CountedIsOpen DEF TypeOK
    <2>5. QED
      BY <1>2, <2>2, <2>4
  <1>3. QED
    BY <1>1, <1>2, DecisionOnce

LEMMA DelaysStep ==
  ASSUME TypeOK, CallShape, ToldTheLongestDelay, [Next]_vars
  PROVE  ToldTheLongestDelay'
  <1> USE CallsOfAttempts
  <1>1. ASSUME NEW a \in Attempts, reply'[a] = "throttled"
        PROVE  \/ reply[a] = "throttled" /\ retry'[a] = retry[a]
               \/ Throttle(a)
    <2>1. ASSUME NEW c \in Consumers, Consume(c) \/ LoseCommit(c) \/ Fail(c)
          PROVE  UNCHANGED <<reply, retry>>
      BY <2>1 DEF Consume, SweepRow, Upsert, Commit, LoseCommit, TakeEffect, Fail
    <2>2. ASSUME NEW b \in Attempts, Begin(b) \/ Admit(b) \/ FailAttempt(b)
          PROVE  reply[a] = "throttled" /\ retry'[a] = retry[a]
      BY <1>1, <2>2 DEF Begin, Admit, FailAttempt, TypeOK
    <2>3. ASSUME NEW b \in Attempts, Throttle(b), b # a
          PROVE  reply[a] = "throttled" /\ retry'[a] = retry[a]
      BY <1>1, <2>3 DEF Throttle, TypeOK
    <2>4. ASSUME Tick \/ StepBack \/ UNCHANGED vars PROVE UNCHANGED <<reply, retry>>
      BY <2>4 DEF Tick, StepBack, vars
    <2>5. QED
      BY <1>1, <2>1, <2>2, <2>3, <2>4 DEF Next, Answer
  <1>2. ASSUME NEW a \in Attempts, reply[a] = "throttled", NEW c \in Calls(a)
        PROVE  /\ Blocks(c)' = Blocks(c)
               /\ RetryAfter(c)' = RetryAfter(c)
    <2>1. At(c, "decided") /\ c \in Consumers
      BY <1>2 DEF CallShape
    <2>2. ClockOf(c)' = ClockOf(c) /\ key'[c] = key[c] /\ decision'[c] = decision[c]
      BY <2>1, CallsKeepTheirReading, DecisionOnce DEF At
    <2>3. QED
      BY <2>2 DEF Blocks, RetryAfter, LimitOf
  <1>3. ASSUME NEW a \in Attempts, Throttle(a)
        PROVE  (\E c \in Calls(a) :
                  /\ Blocks(c) /\ retry[a] = RetryAfter(c)
                  /\ \A d \in Calls(a) : Blocks(d) => RetryAfter(d) <= RetryAfter(c))'
    <2>1. UNCHANGED <<decision, key, now>>
      BY <1>3 DEF Throttle, calls, times
    <2>2. \A c \in Calls(a) : Blocks(c)' = Blocks(c) /\ RetryAfter(c)' = RetryAfter(c)
      BY <2>1 DEF Blocks, RetryAfter, LimitOf, ClockOf
    <2>3. \E c \in Calls(a) :
            /\ Blocks(c) /\ retry'[a] = RetryAfter(c)
            /\ \A d \in Calls(a) : Blocks(d) => RetryAfter(d) <= RetryAfter(c)
      BY <1>3 DEF Throttle, TypeOK
    <2>4. QED
      BY <2>2, <2>3 DEF Calls
  <1>4. ASSUME NEW a \in Attempts, reply[a] = "throttled", retry'[a] = retry[a]
        PROVE  (\E c \in Calls(a) :
                  /\ Blocks(c) /\ retry[a] = RetryAfter(c)
                  /\ \A d \in Calls(a) : Blocks(d) => RetryAfter(d) <= RetryAfter(c))'
    BY <1>2, <1>4 DEF ToldTheLongestDelay, Calls
  <1>5. QED
    BY <1>1, <1>3, <1>4 DEF ToldTheLongestDelay

-----------------------------------------------------------------------------
(* The theorems                                                            *)

LEMMA InvariantInit == Init => IInv
  <1> SUFFICES ASSUME Init PROVE IInv
    OBVIOUS
  <1> USE NullIsApart
  <1>1. TypeOK
    BY TypeInit
  <1>2. \A c \in Consumers : At(c, "idle") /\ decision[c] = Null /\ reply[c[1]] = "none"
    BY CallsOfAttempts DEF Init, At
  <1>3. \A k \in Keys : owner[k] = Null /\ buried[k] = Null
    BY DEF Init
  <1>4. CallShape /\ RowsAreHeldForAReason /\ StagedIsNext /\ BuriedIsOver /\ NumbersAreUsed
    BY <1>2, <1>3
       DEF CallShape, RowsAreHeldForAReason, StagedIsNext, BuriedIsOver, NumbersAreUsed, At
  <1>5. ReadingsAreRecent
    BY <1>2, LagAssumption DEF Init, ReadingsAreRecent, Running, At
  <1>6. AdmittedWithinLimits
    BY <1>2 DEF Init, AdmittedWithinLimits
  <1>7. WindowsHoldTheirReadings /\ ToldTheLongestDelay
    BY <1>2 DEF Init, WindowsHoldTheirReadings, ToldTheLongestDelay
  <1>8. QED
    BY <1>1, <1>4, <1>5, <1>6, <1>7 DEF IInv

LEMMA InvariantStep == IInv /\ [Next]_vars => IInv'
  <1> SUFFICES ASSUME IInv, [Next]_vars PROVE IInv'
    OBVIOUS
  <1>1. /\ TypeOK /\ CallShape /\ ReadingsAreRecent /\ RowsAreHeldForAReason
        /\ StagedIsNext /\ BuriedIsOver /\ NumbersAreUsed /\ AdmittedWithinLimits
        /\ WindowsHoldTheirReadings /\ ToldTheLongestDelay
    BY DEF IInv
  <1>2. TypeOK' /\ CallShape' /\ ReadingsAreRecent'
    BY <1>1, TypeStep, ShapeStep, ReadingsStep
  <1>3. RowsAreHeldForAReason' /\ StagedIsNext' /\ BuriedIsOver'
    BY <1>1, HoldStep, StagedStep, BuriedStep
  <1>4. NumbersAreUsed' /\ AdmittedWithinLimits'
    BY <1>1, NumbersStep, AdmittedStep
  <1>5. WindowsHoldTheirReadings' /\ ToldTheLongestDelay'
    BY <1>1, WindowsStep, DelaysStep
  <1>6. QED
    BY <1>2, <1>3, <1>4, <1>5 DEF IInv

LEMMA Invariance == Spec => []IInv
  BY InvariantInit, InvariantStep, PTL DEF Spec

\* Every variable keeps its type: every counter counts from one, every call that is
\* told a number is told a counter's.
THEOREM TypeCorrect == Spec => []TypeOK
  <1>1. IInv => TypeOK
    BY DEF IInv
  <1>2. QED
    BY <1>1, Invariance, PTL

\* However many attempts count at once, and whatever is swept, fails or waits, no
\* two calls get the same number of the same window and no attempt is admitted with
\* a number over its limit.
THEOREM LimitsHold == Spec => []AdmittedWithinLimits
  <1>1. IInv => AdmittedWithinLimits
    BY DEF IInv
  <1>2. QED
    BY <1>1, Invariance, PTL

\* Whatever happens meanwhile, an attempt made when a throttled client was told to
\* come back is not counted in a window that blocked it, and the client was not told
\* to stay away a whole second too long.
THEOREM RetryAfterKeepsItsWord == Spec => []RetryAfterIsHonest
  <1>1. ASSUME IInv, NEW a \in Attempts, reply[a] = "throttled"
        PROVE  /\ \A c \in Calls(a) : Blocks(c) => decision[c].ends <= ComeBack(a)
               /\ \E c \in Calls(a) : Blocks(c) /\ decision[c].ends + Second > ComeBack(a)
    <2>1. \A c \in Calls(a) : c \in Consumers /\ ClockOf(c) = now[a]
      BY CallsOfAttempts DEF ClockOf
    <2>2. \A c \in Calls(a) :
            /\ decision[c] \in Counter /\ ClockOf(c) \in Nat
            /\ ClockOf(c) < decision[c].ends
      BY <1>1, <2>1, CallsOfAttempts
         DEF IInv, TypeOK, CallShape, At, Time, WindowsHoldTheirReadings
    <2>3. \A c \in Calls(a) :
            /\ decision[c].ends <= now[a] + RetryAfter(c) * Second
            /\ now[a] + RetryAfter(c) * Second < decision[c].ends + Second
            /\ RetryAfter(c) \in Nat
      BY <2>1, <2>2, RetryAfterReachesTheEnd, RetryAfterType
    <2>4. PICK c \in Calls(a) :
            /\ Blocks(c) /\ retry[a] = RetryAfter(c)
            /\ \A d \in Calls(a) : Blocks(d) => RetryAfter(d) <= RetryAfter(c)
      BY <1>1 DEF IInv, ToldTheLongestDelay
    <2>5. ComeBack(a) = now[a] + RetryAfter(c) * Second /\ now[a] \in Nat
      BY <2>1, <2>2, <2>4 DEF ComeBack
    <2>6. ASSUME NEW d \in Calls(a), Blocks(d) PROVE decision[d].ends <= ComeBack(a)
      <3>1. RetryAfter(d) <= RetryAfter(c) /\ RetryAfter(d) \in Nat /\ RetryAfter(c) \in Nat
        BY <2>3, <2>4, <2>6
      <3>2. \A x, y, z \in Nat : x <= y => x * z <= y * z
        OBVIOUS
      <3>3. RetryAfter(d) * Second <= RetryAfter(c) * Second
        BY <3>1, <3>2, WindowAssumption
      <3>4. /\ RetryAfter(d) * Second \in Nat /\ RetryAfter(c) * Second \in Nat
            /\ decision[d].ends \in Nat
        BY <2>2, <3>1, WindowAssumption DEF Counter
      <3>5. QED
        BY <2>3, <2>5, <3>3, <3>4
    <2>7. decision[c].ends + Second > ComeBack(a)
      <3>1. RetryAfter(c) * Second \in Nat /\ decision[c].ends \in Nat /\ Second \in Nat
        BY <2>2, <2>3, <2>4, WindowAssumption DEF Counter
      <3>2. QED
        BY <2>3, <2>4, <2>5, <3>1
    <2>8. QED
      BY <2>4, <2>6, <2>7
  <1>2. ASSUME IInv, NEW a \in Attempts, reply[a] = "throttled", NEW c \in Calls(a), Blocks(c),
               NEW d \in Consumers, decision[d] # Null, ClockOf(d) >= ComeBack(a)
        PROVE  decision[d].ends # decision[c].ends
    <2>1. decision[c].ends <= ComeBack(a) /\ ClockOf(d) < decision[d].ends
      BY <1>1, <1>2 DEF IInv, WindowsHoldTheirReadings
    <2>2. c \in Consumers /\ decision[c] # Null
      BY <1>2, CallsOfAttempts DEF IInv, CallShape
    <2>3. decision[c].ends \in Nat /\ decision[d].ends \in Nat /\ ClockOf(d) \in Nat
      BY <1>2, <2>2 DEF IInv, TypeOK, CallShape, Counter, At, Time
    <2>4. now[a] \in Nat /\ retry[a] \in Nat
      <3>1. c[1] = a /\ ~At(c, "idle")
        BY <1>2, <2>2, CallsOfAttempts DEF IInv, CallShape, At
      <3>2. now[a] \in Nat
        BY <1>2, <2>2, <3>1 DEF IInv, CallShape, ClockOf, Time
      <3>3. QED
        BY <1>2, <3>2 DEF IInv, TypeOK
    <2>5. ComeBack(a) \in Nat
      BY <2>4, WindowAssumption DEF ComeBack
    <2>6. QED
      BY <1>2, <2>1, <2>3, <2>5
  <1>3. IInv => RetryAfterIsHonest
    BY <1>1, <1>2 DEF RetryAfterIsHonest
  <1>4. QED
    BY <1>3, Invariance, PTL

-----------------------------------------------------------------------------
(* The refinement                                                          *)

LEMMA RefinementInit == Init => Reference!Init
  <1> SUFFICES ASSUME Init PROVE Reference!Init
    OBVIOUS
  <1>1. TypeOK
    BY TypeInit
  <1>2. \A k \in Keys : Unswept(k) \in Reference!Counter \cup {Null}
    BY <1>1 DEF TypeOK, Unswept, Counter, Reference!Counter
  <1>3. QED
    BY <1>2 DEF Init, Reference!Init

\* A transaction that takes effect is the reference store's one step.
LEMMA EffectIsConsume ==
  ASSUME IInv, NEW c \in Consumers, TakeEffect(c),
         decision' \in {decision, [decision EXCEPT ![c] = staged[c]]}
  PROVE  Reference!Next
  <1> DEFINE table == [k \in Keys |-> Unswept(k)]
  <1>1. At(c, "staged") /\ decision[c] = Null
    BY DEF TakeEffect, IInv, CallShape, At
  <1>2. key[c] \in Keys /\ ClockOf(c) \in Time
        /\ staged[c] = Counted(Unswept(key[c]), ClockOf(c))
    BY <1>1, SweepingIsInvisible DEF IInv
  <1>3. \A k \in Keys : Unswept(k)' = IF k = key[c] THEN staged[c] ELSE Unswept(k)
    BY EffectOnNumbers DEF IInv
  <1>4. staged[c] = Reference!Counted(table[key[c]], ClockOf(c))
    BY <1>2 DEF Counted, Reference!Counted
  <1>5. table' = [table EXCEPT ![key[c]] = staged[c]]
    BY <1>3
  <1>6. table'[key[c]] = staged[c]
    BY <1>2, <1>5
  <1>7. Reference!Consume(c, key[c], ClockOf(c))
    BY <1>1, <1>4, <1>5, <1>6 DEF Reference!Consume
  <1>8. QED
    BY <1>2, <1>7 DEF Reference!Next

LEMMA RefinementStep == IInv /\ [Next]_vars => [Reference!Next]_(Reference!vars)
  <1> SUFFICES ASSUME IInv, [Next]_vars PROVE [Reference!Next]_(Reference!vars)
    OBVIOUS
  <1>1. ASSUME NEW c \in Consumers, Commit(c) \/ LoseCommit(c) PROVE Reference!Next
    BY <1>1, EffectIsConsume DEF Commit, LoseCommit
  <1>2. ASSUME UNCHANGED <<counters, buried, decision>> PROVE UNCHANGED Reference!vars
    BY <1>2 DEF Unswept, Reference!vars
  <1>3. ASSUME NEW c \in Consumers, Upsert(c) \/ Fail(c) \/ \E k \in Keys : SweepRow(c, k)
        PROVE  UNCHANGED <<counters, buried, decision>>
    BY <1>3 DEF Upsert, Fail, SweepRow, calls
  <1>4. ASSUME NEW a \in Attempts, Begin(a) \/ Answer(a)
        PROVE  UNCHANGED <<counters, buried, decision>>
    BY <1>4 DEF Begin, Answer, Admit, Throttle, FailAttempt, store, calls
  <1>5. ASSUME Tick \/ StepBack \/ UNCHANGED vars
        PROVE  UNCHANGED <<counters, buried, decision>>
    BY <1>5 DEF Tick, StepBack, store, calls, vars
  <1>6. QED
    BY <1>1, <1>2, <1>3, <1>4, <1>5 DEF Next, Consume

\* The concurrent, swept table behaves as the fixed-window store: each commit counts
\* one attempt in its key's current window, as if nothing were ever swept away.
THEOREM StoreImplementsFixedWindow == Spec => ImplementsFixedWindow
  <1>1. QED
    BY Invariance, RefinementInit, RefinementStep, PTL
       DEF Spec, ImplementsFixedWindow, Reference!Spec
=============================================================================
