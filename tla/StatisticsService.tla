------------------------- MODULE StatisticsService -------------------------
(***************************************************************************)
(* The statistics summary, composed with what it reads: the entries, which *)
(* change as EntryLifecycle says, and the opportunity-cost examples, which *)
(* ExampleService's requests change.                                       *)
(*                                                                         *)
(* A summary is three steps of one request: read the clock and fix the     *)
(* interval, aggregate the entries by one SELECT, list the examples by     *)
(* another.  Both tables change between the steps (READ COMMITTED, and no  *)
(* lock is taken).  A check-in stores the time its handler read before its *)
(* commit, so an entry appears in the table with a time that may be past.  *)
(***************************************************************************)
EXTENDS ExampleService, CalendarRanges, Sequences, FiniteSets, Functions

CONSTANTS
  EntryIds,    \* the uuids of entries; a uuid has 128 bits, so they are finitely many
  Details,     \* (item_name, price_cents, reason_wanted) triples
  Price,       \* [Details -> Nat]: their price_cents
  Instants,    \* the instants the clock shows, in order
  CommitDelay, \* bound: clock steps from a check-in's clock reading to its commit
  Summaries,   \* slots for summary requests
  MaxInFlight  \* bound: requests of both kinds that are open at once

ASSUME EntryIdsAssumption == IsFiniteSet(EntryIds)
ASSUME PriceAssumption == Price \in [Details -> Nat]
ASSUME InstantsAssumption ==
  /\ Instants \in Seq(Instant) /\ Len(Instants) > 0
  /\ \A i \in DOMAIN Instants : Valid(Instants[i])
  /\ \A i, j \in DOMAIN Instants : i < j => Before(Instants[i], Instants[j])
ASSUME BoundsAssumption == CommitDelay \in Nat /\ MaxInFlight \in Nat

VARIABLES
  entries,   \* impulse_purchase_entries, as EntryLifecycle has them
  deleted,   \* ids of deleted entries
  clock,     \* the position in Instants of what SystemClock.now() returns
  stage,     \* where each summary request is
  asked,     \* its user and range
  now,       \* its reading of the clock, or Null
  totals,    \* what its aggregate query returned, or Null
  shown,     \* [id -> value and equivalent] of the answer's examples
  settled,   \* ids resolved when the request was sent (history)
  touched    \* examples changed since the request was sent (history)

entryVars   == <<entries, deleted>>
summaryVars == <<stage, asked, now, totals, shown, settled, touched>>
vars == <<exampleVars, entryVars, clock, summaryVars>>

\* Entries are created at 0, before the first of the Instants and at least
\* ENTRY_WAIT_PERIOD before it; any later instant is late enough to resolve them.
Time       == 0 .. Len(Instants)
WaitPeriod == 1

Lifecycle == INSTANCE EntryLifecycle WITH Comments <- {}

Stages == {"idle", "begin", "ready", "aggregated", "done"}

TypeOK ==
  /\ ExamplesTypeOK
  /\ Lifecycle!TypeOK
  /\ clock \in DOMAIN Instants
  /\ stage \in [Summaries -> Stages]
  /\ asked \in [Summaries -> [user : Users, range : StatisticsRange] \cup {Null}]
  /\ now \in [Summaries -> DOMAIN Instants \cup {Null}]
  /\ \A s \in Summaries :
       /\ totals[s] = Null \/ totals[s] \in [saved : Nat, avoided : Nat, purchased : Nat]
       /\ DOMAIN shown[s] \subseteq ExampleIds
       /\ \A x \in DOMAIN shown[s] : shown[s][x] \in [value : Values, tenths : Nat]
  /\ settled \in [Summaries -> SUBSET EntryIds]
  /\ touched \in [Summaries -> SUBSET ExampleIds]

-----------------------------------------------------------------------------
(* The two queries                                                         *)

Resolved == {e \in EntryIds : Lifecycle!Resolved(e)}

\* Mutant: SUM over no row is NULL, and nothing turns it into 0.
TotalsWithoutCoalesce(S) ==
  LET avoided == {e \in S : entries[e].status = "saved"}
  IN  [saved     |-> IF avoided = {} THEN Null
                     ELSE SumFunction([e \in avoided |-> Price[entries[e].details]]),
       avoided   |-> Cardinality(avoided),
       purchased |-> Cardinality(S \ avoided)]

\* What the aggregate functions return over a set of entries.
TotalsOf(S) ==
  LET avoided == {e \in S : entries[e].status = "saved"}
  IN  [saved     |-> SumFunction([e \in avoided |-> Price[entries[e].details]]),
       avoided   |-> Cardinality(avoided),
       purchased |-> Cardinality(S \ avoided)]

\* Mutant: the interval is closed.
SelectedWithEnd(user, range, t) ==
  {e \in Resolved :
     /\ entries[e].owner = user
     /\ \/ InInterval(Instants[entries[e].checked], range, Instants[t])
        \/ entries[e].checked = t}

\* The rows aggregate_statistics selects.
Selected(user, range, t) ==
  {e \in Resolved : /\ entries[e].owner = user
                    /\ InInterval(Instants[entries[e].checked], range, Instants[t])}

\* Mutant: ROUND_HALF_EVEN, the default of decimal.
EquivalentHalfEven(total, value) ==
  LET low == (10 * total) \div value
      twiceRest == 2 * ((10 * total) % value)
  IN IF twiceRest > value \/ (twiceRest = value /\ low % 2 = 1) THEN low + 1 ELSE low

\* total / value in tenths, ROUND_HALF_UP.
Equivalent(total, value) == (20 * total + value) \div (2 * value)

\* Mutant: the list is not restricted to the user's examples.
ExamplesOfAnyone(user) == {x \in ExampleIds : examples[x] # Null}

ExamplesOf(user) ==
  {x \in ExampleIds : examples[x] # Null /\ examples[x].owner = user}

\* _calculate_opportunity_cost_equivalents; no stored value is 0.
EquivalentsOf(user, total) ==
  [x \in ExamplesOf(user) |-> [value  |-> examples[x].value,
                               tenths |-> Equivalent(total, examples[x].value)]]

-----------------------------------------------------------------------------
(* A summary request                                                       *)

NothingShown == [x \in {} |-> Null]

InFlight == Cardinality({r \in Requests : pc[r] # "idle"})
            + Cardinality({s \in Summaries : stage[s] # "idle"})

BeginSummary(s) ==
  /\ InFlight < MaxInFlight
  /\ stage[s] = "idle"
  /\ \E u \in Users, range \in StatisticsRange :
       asked' = [asked EXCEPT ![s] = [user |-> u, range |-> range]]
  /\ stage' = [stage EXCEPT ![s] = "begin"]
  /\ settled' = [settled EXCEPT ![s] = Resolved]
  /\ UNCHANGED <<exampleVars, entryVars, clock, now, totals, shown, touched>>

\* statistics_interval_for(selected_range, now=clock.now())
ReadSummaryClock(s) ==
  /\ stage[s] = "begin"
  /\ stage' = [stage EXCEPT ![s] = "ready"]
  /\ now' = [now EXCEPT ![s] = clock]
  /\ UNCHANGED <<exampleVars, entryVars, clock, asked, totals, shown, settled, touched>>

AggregateStatistics(s) ==
  /\ stage[s] = "ready"
  /\ stage' = [stage EXCEPT ![s] = "aggregated"]
  /\ totals' = [totals EXCEPT ![s] =
       TotalsOf(Selected(asked[s].user, asked[s].range, now[s]))]
  /\ UNCHANGED <<exampleVars, entryVars, clock, asked, now, shown, settled, touched>>

\* list_opportunity_cost_examples_by_user and the answer.
ListSummaryExamples(s) ==
  /\ stage[s] = "aggregated"
  /\ stage' = [stage EXCEPT ![s] = "done"]
  /\ shown' = [shown EXCEPT ![s] = EquivalentsOf(asked[s].user, totals[s].saved)]
  /\ UNCHANGED <<exampleVars, entryVars, clock, asked, now, totals, settled, touched>>

\* The client has the answer; or either query fails, or the request is cancelled,
\* and the client gets an error.
EndSummary(s) ==
  /\ stage[s] # "idle"
  /\ stage' = [stage EXCEPT ![s] = "idle"]
  /\ asked' = [asked EXCEPT ![s] = Null]
  /\ now' = [now EXCEPT ![s] = Null]
  /\ totals' = [totals EXCEPT ![s] = Null]
  /\ shown' = [shown EXCEPT ![s] = NothingShown]
  /\ settled' = [settled EXCEPT ![s] = {}]
  /\ touched' = [touched EXCEPT ![s] = {}]
  /\ UNCHANGED <<exampleVars, entryVars, clock>>

-----------------------------------------------------------------------------
(* What happens around it                                                  *)

\* An entry is edited, deleted or checked in; a check-in's time is the clock's,
\* read at most CommitDelay steps ago.
ChangeEntry(e) ==
  /\ Lifecycle!Edit(e) \/ Lifecycle!Delete(e) \/ Lifecycle!Resolve(e)
  /\ Lifecycle!Waiting(e) /\ entries'[e] # Null /\ entries'[e].checked # Null =>
       entries'[e].checked \in 1 .. clock /\ entries'[e].checked + CommitDelay >= clock
  /\ UNCHANGED <<exampleVars, clock, summaryVars>>

\* A step of the opportunity-cost API; it marks what it changes.
ChangeExamples ==
  /\ ExamplesNext
  /\ touched' = [s \in Summaries |->
       IF stage[s] = "idle"
         THEN {}
         ELSE touched[s] \cup {x \in ExampleIds : examples'[x] # examples[x]}]
  /\ UNCHANGED <<entryVars, clock, stage, asked, now, totals, shown, settled>>
  /\ InFlight' <= MaxInFlight

Tick ==
  /\ clock < Len(Instants)
  /\ clock' = clock + 1
  /\ UNCHANGED <<exampleVars, entryVars, summaryVars>>

\* The entries that will be changed exist and wait; a summary never sees the others.
Init ==
  /\ ExamplesInit
  /\ entries \in [EntryIds -> [owner : Users, details : Details, status : {"waiting"},
                               comment : {Null}, created : {0}, checked : {Null}]]
  /\ deleted = {}
  /\ clock   = 1
  /\ stage   = [s \in Summaries |-> "idle"]
  /\ asked   = [s \in Summaries |-> Null]
  /\ now     = [s \in Summaries |-> Null]
  /\ totals  = [s \in Summaries |-> Null]
  /\ shown   = [s \in Summaries |-> NothingShown]
  /\ settled = [s \in Summaries |-> {}]
  /\ touched = [s \in Summaries |-> {}]

Next ==
  \/ \E s \in Summaries :
       BeginSummary(s) \/ ReadSummaryClock(s) \/ AggregateStatistics(s)
       \/ ListSummaryExamples(s) \/ EndSummary(s)
  \/ \E e \in EntryIds : ChangeEntry(e)
  \/ ChangeExamples
  \/ Tick

Spec == Init /\ [][Next]_vars

-----------------------------------------------------------------------------
(* What a summary promises                                                 *)

Covered(s, e) ==
  /\ Lifecycle!Resolved(e)
  /\ entries[e].owner = asked[s].user
  /\ Covers(asked[s].range, Instants[now[s]], Instants[entries[e].checked])

\* The sums and counts are those of one set of entries: all of the user's that
\* were resolved in the range before the request was sent, none that is not the
\* user's or lies outside the calendar's range, and nothing in between twice or
\* by halves, whatever commits while the request runs.
SummaryIsExact ==
  \A s \in Summaries : stage[s] \in {"aggregated", "done"} =>
    \E C \in SUBSET {e \in EntryIds : Covered(s, e)} :
      /\ {e \in settled[s] : Covered(s, e)} \subseteq C
      /\ totals[s] = TotalsOf(C)

\* Every equivalent shown is the multiple of a tenth nearest to the total of the
\* same answer over the example's value, the larger one when two are as near.
EquivalentsAreNearest ==
  \A s \in Summaries : stage[s] = "done" =>
    \A x \in DOMAIN shown[s] :
      LET scaled  == 10 * totals[s].saved
          product == shown[s][x].tenths * shown[s][x].value
      IN  /\ 2 * (product - scaled) <= shown[s][x].value
          /\ 2 * (scaled - product) < shown[s][x].value

\* The answer shows the user's examples and nobody else's: one that no request
\* changed since the summary was sent is shown exactly if it is the user's, and
\* with its stored value; one that was changed meanwhile may be shown or not.
ShownExamplesAreCurrent ==
  \A s \in Summaries : stage[s] = "done" =>
    \A x \in ExampleIds \ touched[s] :
      /\ x \in DOMAIN shown[s] <=>
           examples[x] # Null /\ examples[x].owner = asked[s].user
      /\ x \in DOMAIN shown[s] => shown[s][x].value = examples[x].value
=============================================================================
