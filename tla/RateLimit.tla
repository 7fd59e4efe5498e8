----------------------------- MODULE RateLimit -----------------------------
(***************************************************************************)
(* The rate limit in front of signup and of login (which have limits and   *)
(* buckets of their own; this is one of the two).  Every attempt reads the *)
(* clock once and consumes two counters at the same time, its address's    *)
(* and its account's, each in a transaction that first sweeps away counters*)
(* that ended long ago, row by row, and then upserts its own.              *)
(***************************************************************************)
EXTENDS Integers

CONSTANTS
  Addresses,    \* client addresses
  Accounts,     \* normalized account keys
  Attempts,     \* the attempts made
  AddressLimit,
  AccountLimit,
  Second,       \* clock ticks in a second
  WindowSeconds,
  Retention,    \* _STALE_RETENTION, in clock ticks
  Lag,          \* how far a clock reading in use falls behind the latest one
  MaxClock,     \* bound: the clock stops here
  OpenEnds,     \* bound: when the windows end that are open at the start
  Null

Keys      == Addresses \cup Accounts
Window    == WindowSeconds * Second
Consumers == Attempts \X {"address", "account"}
LimitOf(k) == IF k \in Addresses THEN AddressLimit ELSE AccountLimit

ASSUME LimitAssumption  == AddressLimit \in Nat \ {0} /\ AccountLimit \in Nat \ {0}
ASSUME WindowAssumption == Second \in Nat \ {0} /\ WindowSeconds \in Nat \ {0}
ASSUME BoundAssumption  == MaxClock \in Nat /\ Retention \in Nat /\ OpenEnds \subseteq Nat
\* No attempt is in progress, and no clock set back, for as long as a day.
ASSUME LagAssumption    == Lag \in Nat /\ Lag <= Retention
ASSUME KeysAssumption   == Addresses \cap Accounts = {}
ASSUME NullAssumption   == Null \notin Nat \cup Keys \cup Consumers \cup [count : Nat, ends : Nat]

VARIABLES
  counters,     \* the committed counter of each key, or Null
  owner,        \* the consumer whose transaction holds a key's row, or Null
  clock,        \* what the clock returns
  latest,       \* the latest it ever returned
  pc,           \* where each call of consume is
  key,          \* the key it counts, or Null
  now,          \* each attempt's reading of the clock, or Null
  staged,       \* the row a call has upserted, uncommitted, or Null
  decision,     \* the row a call was given back, or Null
  reply,        \* what became of each attempt
  retry,        \* the Retry-After seconds it was told
  buried        \* the last counter of each key that was swept away (history)

store  == <<counters, owner, buried>>
calls  == <<pc, staged, decision>>
times  == <<clock, latest, now>>
vars   == <<counters, owner, clock, latest, pc, key, now, staged, decision, reply,
            retry, buried>>

-----------------------------------------------------------------------------
Time    == 0 .. MaxClock
Counter == [count : Nat \ {0}, ends : Nat]
Places  == {"idle", "sweeping", "staged", "decided", "failed"}

TypeOK ==
  /\ counters \in [Keys -> Counter \cup {Null}]
  /\ owner \in [Keys -> Consumers \cup {Null}]
  /\ clock \in Time /\ latest \in Time
  /\ pc \in [Consumers -> Places]
  /\ key \in [Consumers -> Keys \cup {Null}]
  /\ now \in [Attempts -> Time \cup {Null}]
  /\ staged \in [Consumers -> Counter \cup {Null}]
  /\ decision \in [Consumers -> Counter \cup {Null}]
  /\ reply \in [Attempts -> {"none", "pending", "admitted", "throttled", "failed"}]
  /\ retry \in [Attempts -> Nat]
  /\ buried \in [Keys -> Counter \cup {Null}]

At(c, place) == pc[c] = place

Goto(c, place) == pc' = [pc EXCEPT ![c] = place]

ClockOf(c) == now[c[1]]

\* The two calls of an attempt.
Calls(a) == {<<a, "address">>, <<a, "account">>}

\* Every call of a is over.
Settled(a) == \A c \in Calls(a) : At(c, "decided") \/ At(c, "failed")

-----------------------------------------------------------------------------
(* Calls of consume                                                        *)

\* One clock reading, and both calls are started.
Begin(a) ==
  /\ reply[a] = "none"
  /\ \E i \in Addresses, e \in Accounts :
       key' = [key EXCEPT ![<<a, "address">>] = i, ![<<a, "account">>] = e]
  /\ now' = [now EXCEPT ![a] = clock]
  /\ pc' = [c \in Consumers |-> IF c \in Calls(a) THEN "sweeping" ELSE pc[c]]
  /\ reply' = [reply EXCEPT ![a] = "pending"]
  /\ UNCHANGED <<store, clock, latest, staged, decision, retry>>

\* Mutant: counters are swept as soon as their window is over.
StaleAtExpiry(c, k) == counters[k] # Null /\ counters[k].ends <= ClockOf(c)

\* The DELETE takes counters that ended longer ago than the retention.
Stale(c, k) == counters[k] # Null /\ counters[k].ends + Retention < ClockOf(c)

\* The DELETE reaches a row no other transaction holds.
SweepRow(c, k) ==
  /\ At(c, "sweeping")
  /\ Stale(c, k)
  /\ owner[k] = Null
  /\ owner' = [owner EXCEPT ![k] = c]
  /\ UNCHANGED <<counters, buried, calls, key, times, reply, retry>>

\* The DELETE is done: it has taken every stale row.
SweepIsOver(c) ==
  /\ At(c, "sweeping")
  /\ \A k \in Keys : Stale(c, k) => owner[k] = c

\* Mutant: a new window starts from nothing.
CountedFromZero(row, n) ==
  IF row = Null \/ row.ends <= n THEN [count |-> 0, ends |-> n + Window]
                                 ELSE [row EXCEPT !.count = @ + 1]

\* The row after one more attempt, at time n: the CASE expressions of the upsert.
Counted(row, n) ==
  IF row = Null \/ row.ends <= n THEN [count |-> 1, ends |-> n + Window]
                                 ELSE [row EXCEPT !.count = @ + 1]

\* The rows this transaction's DELETE has taken.
Swept(c) == {k \in Keys : owner[k] = c}

\* The row the upsert finds: none if this transaction has just deleted it.
Found(c) == IF key[c] \in Swept(c) THEN Null ELSE counters[key[c]]

\* Mutant: the row is read without waiting for the transaction that holds it.
UpsertWithoutLock(c) ==
  /\ SweepIsOver(c)
  /\ staged' = [staged EXCEPT ![c] = Counted(Found(c), ClockOf(c))]
  /\ owner' = [owner EXCEPT ![key[c]] = c]
  /\ Goto(c, "staged")
  /\ UNCHANGED <<counters, buried, decision, key, times, reply, retry>>

\* INSERT ... ON CONFLICT DO UPDATE waits for the row, or for another INSERT of it.
Upsert(c) ==
  /\ SweepIsOver(c)
  /\ owner[key[c]] \in {Null, c}
  /\ staged' = [staged EXCEPT ![c] = Counted(Found(c), ClockOf(c))]
  /\ owner' = [owner EXCEPT ![key[c]] = c]
  /\ Goto(c, "staged")
  /\ UNCHANGED <<counters, buried, decision, key, times, reply, retry>>

Release(c) == owner' = [k \in Keys |-> IF owner[k] = c THEN Null ELSE owner[k]]

\* The transaction takes effect: its own row, and the deletion of those it swept.
TakeEffect(c) ==
  /\ At(c, "staged")
  /\ counters' = [k \in Keys |-> IF k = key[c] THEN staged[c]
                                 ELSE IF owner[k] = c THEN Null
                                 ELSE counters[k]]
  /\ buried' = [k \in Keys |-> IF owner[k] = c /\ k # key[c] THEN counters[k]
                               ELSE buried[k]]
  /\ Release(c)
  /\ staged' = [staged EXCEPT ![c] = Null]
  /\ UNCHANGED <<key, times, reply, retry>>

Commit(c) ==
  /\ TakeEffect(c)
  /\ decision' = [decision EXCEPT ![c] = staged[c]]
  /\ Goto(c, "decided")

\* The commit happened but its acknowledgement is lost.
LoseCommit(c) ==
  /\ TakeEffect(c)
  /\ Goto(c, "failed")
  /\ UNCHANGED decision

Running(c) == At(c, "sweeping") \/ At(c, "staged")

\* Mutant: the transaction is left open.
FailWithoutRollback(c) ==
  /\ Running(c)
  /\ staged' = [staged EXCEPT ![c] = Null]
  /\ Goto(c, "failed")
  /\ UNCHANGED <<store, decision, key, times, reply, retry>>

\* Connection lost, chosen as the victim of a deadlock, cancelled: rolled back.
Fail(c) ==
  /\ Running(c)
  /\ Release(c)
  /\ staged' = [staged EXCEPT ![c] = Null]
  /\ Goto(c, "failed")
  /\ UNCHANGED <<counters, buried, decision, key, times, reply, retry>>

-----------------------------------------------------------------------------
(* The attempt's answer                                                    *)

Blocks(c) == decision[c].count > LimitOf(key[c])

\* Mutant: whole seconds, rounded down.
RetryAfterRoundedDown(c) ==
  LET rest == decision[c].ends - ClockOf(c)
  IN  IF rest < Second THEN 1 ELSE rest \div Second

\* Whole seconds until the window ends, rounded up; at least one.
RetryAfter(c) ==
  LET rest == decision[c].ends - ClockOf(c)
  IN  IF rest < Second THEN 1 ELSE (rest + Second - 1) \div Second

Admit(a) ==
  /\ reply[a] = "pending"
  /\ \A c \in Calls(a) : At(c, "decided") /\ ~Blocks(c)
  /\ reply' = [reply EXCEPT ![a] = "admitted"]
  /\ UNCHANGED <<store, calls, key, times, retry>>

\* 429 with the longer of the two delays
Throttle(a) ==
  /\ reply[a] = "pending"
  /\ \A c \in Calls(a) : At(c, "decided")
  /\ \E c \in Calls(a) :
       /\ Blocks(c)
       /\ \A d \in Calls(a) : Blocks(d) => RetryAfter(d) <= RetryAfter(c)
       /\ retry' = [retry EXCEPT ![a] = RetryAfter(c)]
  /\ reply' = [reply EXCEPT ![a] = "throttled"]
  /\ UNCHANGED <<store, calls, key, times>>

\* One failed call fails the attempt at once; the other runs on, unobserved.
FailAttempt(a) ==
  /\ reply[a] = "pending"
  /\ \E c \in Calls(a) : At(c, "failed")
  /\ reply' = [reply EXCEPT ![a] = "failed"]
  /\ UNCHANGED <<store, calls, key, times, retry>>

-----------------------------------------------------------------------------
(* The clock                                                               *)

\* The readings in use stay within Lag of the latest one.
Recent(t) ==
  \A a \in Attempts : reply[a] # "none" /\ ~Settled(a) => t <= now[a] + Lag

Tick ==
  /\ clock < MaxClock
  /\ clock' = clock + 1
  /\ latest' = IF clock' > latest THEN clock' ELSE latest
  /\ Recent(latest')
  /\ UNCHANGED <<store, calls, key, now, reply, retry>>

StepBack ==
  /\ clock > 0
  /\ latest <= clock - 1 + Lag
  /\ clock' = clock - 1
  /\ UNCHANGED <<store, calls, key, latest, now, reply, retry>>

-----------------------------------------------------------------------------
\* Windows may be open already, with their limits used up or not.
Init ==
  /\ counters \in [Keys -> [count : 1 .. AccountLimit, ends : OpenEnds] \cup {Null}]
  /\ owner    = [k \in Keys |-> Null]
  /\ clock    = 0
  /\ latest   = 0
  /\ pc       = [c \in Consumers |-> "idle"]
  /\ key      = [c \in Consumers |-> Null]
  /\ now      = [a \in Attempts |-> Null]
  /\ staged   = [c \in Consumers |-> Null]
  /\ decision = [c \in Consumers |-> Null]
  /\ reply    = [a \in Attempts |-> "none"]
  /\ retry    = [a \in Attempts |-> 0]
  /\ buried   = [k \in Keys |-> Null]

Consume(c) ==
  \/ \E k \in Keys : SweepRow(c, k)
  \/ Upsert(c) \/ Commit(c)

Answer(a) == Admit(a) \/ Throttle(a) \/ FailAttempt(a)

Next ==
  \/ \E c \in Consumers : Consume(c) \/ LoseCommit(c) \/ Fail(c)
  \/ \E a \in Attempts : Begin(a) \/ Answer(a)
  \/ Tick
  \/ StepBack

Spec == Init /\ [][Next]_vars

\* The row a call's transaction waits for.
Wants(c, k) ==
  \/ At(c, "sweeping") /\ Stale(c, k)
  \/ SweepIsOver(c) /\ k = key[c]

\* The calls whose transaction waits for a row of another.
Waiting == {c \in Consumers : \E k \in Keys : Wants(c, k) /\ owner[k] \notin {Null, c}}

\* c is one of a ring of transactions that wait for each other.
Deadlocked(c) ==
  \E D \in SUBSET Waiting :
    /\ c \in D
    /\ \A d \in D : \E k \in Keys : Wants(d, k) /\ owner[k] \in D \ {d}

\* Fairness.  The event loop resumes every call whose statement has returned, a
\* transaction that could go on at any time goes on, and PostgreSQL's deadlock
\* detector fails a transaction of every ring.
FairSpec ==
  /\ Spec
  /\ \A c \in Consumers : WF_vars(Consume(c))
  /\ WF_vars(\E c \in Consumers : Deadlocked(c) /\ Fail(c))
  /\ \A a \in Attempts : WF_vars(Answer(a))

-----------------------------------------------------------------------------
(* Properties                                                              *)

\* No attempt is admitted over a limit: concurrent calls that count in one window
\* each get a number of their own, and an attempt goes through only when both of
\* its numbers are within their limits - across sweeps, failures and clock steps.
AdmittedWithinLimits ==
  /\ \A c, d \in Consumers :
       /\ c # d /\ key[c] = key[d]
       /\ decision[c] # Null /\ decision[d] # Null
       => decision[c] # decision[d]
  /\ \A a \in Attempts : reply[a] = "admitted" =>
       \A c \in Calls(a) : decision[c].count <= LimitOf(key[c])

\* The instant a throttled client was told to come back.
ComeBack(a) == now[a] + retry[a] * Second

\* Retry-After keeps its word: an attempt made when the client was told to come
\* back is never counted in a window that blocked it, whichever of the two it was,
\* and it was not told to stay away a whole second longer than that takes.
RetryAfterIsHonest ==
  \A a \in Attempts : reply[a] = "throttled" =>
    /\ \A c \in Calls(a), d \in Consumers :
         /\ Blocks(c) /\ decision[d] # Null /\ key[d] = key[c]
         /\ ClockOf(d) >= ComeBack(a)
         => decision[d].ends # decision[c].ends
    /\ \E c \in Calls(a) : Blocks(c) /\ decision[c].ends + Second > ComeBack(a)

\* The counter of a key as it would be without sweeping.
Unswept(k) == IF counters[k] = Null THEN buried[k] ELSE counters[k]

\* The store is the fixed-window store: sweeping old counters never gives an
\* attempt a number it would not have got without it.
Reference == INSTANCE FixedWindow
  WITH table    <- [k \in Keys |-> Unswept(k)],
       numbered <- decision,
       Times    <- Time

ImplementsFixedWindow == Reference!Spec

\* Every attempt is answered, whatever its calls wait for: none is pending for ever.
EveryAttemptIsAnswered == \A a \in Attempts : []<>(reply[a] # "pending")

-----------------------------------------------------------------------------
(* The inductive invariant behind the safety properties                    *)

\* What a call has at hand at each place.
CallShape ==
  \A c \in Consumers :
    /\ At(c, "idle") \/ (reply[c[1]] # "none" /\ ClockOf(c) \in Time /\ key[c] \in Keys)
    /\ At(c, "staged") => staged[c] # Null
    /\ At(c, "decided") <=> decision[c] # Null
    /\ reply[c[1]] \in {"admitted", "throttled"} => At(c, "decided")

\* The clock, and every reading of it that a running call uses, is recent.
ReadingsAreRecent ==
  /\ clock <= latest /\ latest <= clock + Lag
  /\ \A c \in Consumers : Running(c) =>
       ClockOf(c) <= latest /\ latest <= ClockOf(c) + Lag

\* A transaction holds rows it sweeps and the row it counts in, no others.
RowsAreHeldForAReason ==
  /\ \A k \in Keys, c \in Consumers : owner[k] = c =>
       Running(c) /\ (Stale(c, k) \/ (At(c, "staged") /\ k = key[c]))
  /\ \A c \in Consumers : At(c, "staged") => owner[key[c]] = c

\* The committed row is still the one a staged count was made from.
StagedIsNext ==
  \A c \in Consumers : At(c, "staged") =>
    staged[c] = Counted(counters[key[c]], ClockOf(c))

\* What was swept away is over for every call still to come.
BuriedIsOver ==
  \A k \in Keys : buried[k] # Null => buried[k].ends + Retention < latest

\* A number that was given out is one of the key's current window or of an older one.
NumbersAreUsed ==
  \A c \in Consumers : decision[c] # Null =>
    /\ Unswept(key[c]) # Null
    /\ \/ decision[c].ends < Unswept(key[c]).ends
       \/ /\ decision[c].ends = Unswept(key[c]).ends
          /\ decision[c].count <= Unswept(key[c]).count

\* A call is given a number of a window that was open at its reading.
WindowsHoldTheirReadings ==
  \A c \in Consumers : decision[c] # Null => ClockOf(c) < decision[c].ends

\* A throttled attempt was told the longest of the delays of what blocked it.
ToldTheLongestDelay ==
  \A a \in Attempts : reply[a] = "throttled" =>
    \E c \in Calls(a) :
      /\ Blocks(c) /\ retry[a] = RetryAfter(c)
      /\ \A d \in Calls(a) : Blocks(d) => RetryAfter(d) <= RetryAfter(c)

IInv ==
  /\ TypeOK
  /\ CallShape
  /\ ReadingsAreRecent
  /\ RowsAreHeldForAReason
  /\ StagedIsNext
  /\ BuriedIsOver
  /\ NumbersAreUsed
  /\ AdmittedWithinLimits
  /\ WindowsHoldTheirReadings
  /\ ToldTheLongestDelay
=============================================================================
