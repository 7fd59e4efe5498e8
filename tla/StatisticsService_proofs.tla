---------------------- MODULE StatisticsService_proofs ----------------------
(***************************************************************************)
(* Proofs about StatisticsService, for any entries, prices, examples,      *)
(* clock instants and numbers of concurrent requests.                      *)
(***************************************************************************)
EXTENDS StatisticsService, ExampleService_proofs, CalendarRanges_proofs,
        FiniteSetTheorems, WellFoundedInduction

-----------------------------------------------------------------------------
(* The composition                                                         *)

\* Every step of the composition is a step of the opportunity-cost API or leaves
\* its state alone.
THEOREM CompositionRunsExamples == Spec => ExamplesSpec
  <1>1. Init => ExamplesInit
    BY DEF Init
  <1>2. [Next]_vars => [ExamplesNext]_exampleVars
    BY DEF Next, vars, BeginSummary, ReadSummaryClock, AggregateStatistics,
       ListSummaryExamples, EndSummary, ChangeEntry, ChangeExamples, Tick
  <1>3. QED
    BY <1>1, <1>2, PTL DEF Spec, ExamplesSpec

\* So the summaries beside them change nothing about what the API's refusals say.
THEOREM RefusalsAreFinalBesideSummaries == Spec => []RefusalsStayTrue
  BY CompositionRunsExamples, RefusalsAreFinal

\* Nor about what its updates store.
THEOREM UpdatesStoreTheirAnswersBesideSummaries == Spec => UpdatesAreWhole
  BY CompositionRunsExamples, UpdatesStoreTheirAnswers

\* Nor about who waits for whom: a summary takes no lock and waits for none.
THEOREM WaitsDoNotChainBesideSummaries == Spec => []NoWaitCycle
  BY CompositionRunsExamples, WaitsDoNotChain

\* Nor about the entries: whatever summaries and the opportunity-cost API do beside
\* them, they change only as the entry API promises.
THEOREM EntriesFollowTheirLifecycle == Spec => [][Lifecycle!Next]_entryVars
  <1>1. ASSUME [Next]_vars
        PROVE  [Lifecycle!Next]_entryVars
    <2>1. CASE \E e \in EntryIds : ChangeEntry(e)
      BY <2>1 DEF ChangeEntry, Lifecycle!Next
    <2>2. CASE ~ \E e \in EntryIds : ChangeEntry(e)
      BY <1>1, <2>2 DEF Next, vars, BeginSummary, ReadSummaryClock, AggregateStatistics,
         ListSummaryExamples, EndSummary, ChangeExamples, Tick
    <2>3. QED
      BY <2>1, <2>2
  <1>2. QED
    BY <1>1, PTL DEF Spec

-----------------------------------------------------------------------------
(* The inductive invariant                                                 *)

\* What a summary request has at hand at each stage.
SummaryShape ==
  /\ clock \in DOMAIN Instants
  /\ stage \in [Summaries -> Stages]
  /\ asked \in [Summaries -> [user : Users, range : StatisticsRange] \cup {Null}]
  /\ now \in [Summaries -> DOMAIN Instants \cup {Null}]
  /\ settled \in [Summaries -> SUBSET EntryIds]
  /\ DOMAIN totals = Summaries
  /\ \A s \in Summaries : stage[s] # "idle" =>
       asked[s] \in [user : Users, range : StatisticsRange]
  /\ \A s \in Summaries : stage[s] \in {"ready", "aggregated", "done"} =>
       now[s] \in DOMAIN Instants

\* A resolved entry was checked in at an instant of the clock.
CheckInsAreInstants ==
  \A e \in EntryIds : Lifecycle!Resolved(e) => entries[e].checked \in DOMAIN Instants

\* What was resolved when a request was sent is still resolved.
SettledIsResolved == \A s \in Summaries : settled[s] \subseteq Resolved

SummaryInv ==
  /\ Lifecycle!TypeOK
  /\ SummaryShape
  /\ CheckInsAreInstants
  /\ SettledIsResolved
  /\ SummaryIsExact

-----------------------------------------------------------------------------
(* Entries                                                                 *)

\* A change of an entry leaves the resolved ones as they are.
LEMMA ResolvedEntriesStay ==
  ASSUME Lifecycle!TypeOK, NEW e \in EntryIds, ChangeEntry(e)
  PROVE  \A x \in EntryIds : Lifecycle!Resolved(x) => entries'[x] = entries[x]
  <1> SUFFICES ASSUME NEW x \in EntryIds, Lifecycle!Resolved(x)
               PROVE  entries'[x] = entries[x]
    OBVIOUS
  <1>1. Lifecycle!Waiting(e)
    BY DEF ChangeEntry, Lifecycle!Edit, Lifecycle!Delete, Lifecycle!Resolve
  <1>2. x # e
    BY <1>1 DEF Lifecycle!Waiting, Lifecycle!Resolved, Lifecycle!Outcomes
  <1>3. PICK f : entries' = [entries EXCEPT ![e] = f]
    <2>1. CASE Lifecycle!Edit(e)
      BY <2>1 DEF Lifecycle!Edit
    <2>2. CASE Lifecycle!Delete(e)
      BY <2>2 DEF Lifecycle!Delete
    <2>3. CASE Lifecycle!Resolve(e)
      BY <2>3 DEF Lifecycle!Resolve
    <2>4. QED
      BY <2>1, <2>2, <2>3 DEF ChangeEntry
  <1>4. QED
    BY <1>2, <1>3 DEF Lifecycle!TypeOK

\* It leaves rows of the table's type, and stamps a check-in with an instant of the
\* clock that is later than the creation.
LEMMA ChangedEntryShape ==
  ASSUME Lifecycle!TypeOK, CheckInsAreInstants, NEW e \in EntryIds, ChangeEntry(e)
  PROVE  Lifecycle!TypeOK' /\ CheckInsAreInstants'
  <1> USE DEF Lifecycle!TypeOK
  <1>1. Lifecycle!Waiting(e) /\ entries[e] \in Lifecycle!Entry
    BY DEF ChangeEntry, Lifecycle!Edit, Lifecycle!Delete, Lifecycle!Resolve, Lifecycle!Waiting
  <1>2. CASE Lifecycle!Edit(e)
    <2>1. PICK d \in Details : entries' = [entries EXCEPT ![e].details = d]
      BY <1>2 DEF Lifecycle!Edit
    <2>2. deleted' = deleted
      BY <1>2 DEF Lifecycle!Edit
    <2>3. entries'[e] \in Lifecycle!Entry /\ entries'[e].status = entries[e].status
      BY <1>1, <2>1 DEF Lifecycle!Entry
    <2>4. \A x \in EntryIds \ {e} : entries'[x] = entries[x]
      BY <2>1
    <2>5. Lifecycle!TypeOK'
      BY <2>1, <2>2, <2>3, <2>4
    <2>6. CheckInsAreInstants'
      BY <1>1, <2>3, <2>4 DEF CheckInsAreInstants, Lifecycle!Resolved, Lifecycle!Waiting,
         Lifecycle!Outcomes
    <2>7. QED
      BY <2>5, <2>6
  <1>3. CASE Lifecycle!Delete(e)
    <2>1. entries' = [entries EXCEPT ![e] = Null] /\ deleted' = deleted \cup {e}
      BY <1>3 DEF Lifecycle!Delete
    <2>2. Lifecycle!TypeOK'
      BY <2>1
    <2>3. CheckInsAreInstants'
      BY <2>1 DEF CheckInsAreInstants, Lifecycle!Resolved
    <2>4. QED
      BY <2>2, <2>3
  <1>4. CASE Lifecycle!Resolve(e)
    <2>1. PICK o \in Lifecycle!Outcomes, c \in {} \cup {Null}, t \in Time :
            /\ t >= entries[e].created + WaitPeriod
            /\ entries' = [entries EXCEPT ![e].status  = o,
                                          ![e].comment = c,
                                          ![e].checked = t]
      BY <1>4 DEF Lifecycle!Resolve
    <2>2. deleted' = deleted
      BY <1>4 DEF Lifecycle!Resolve
    <2> DEFINE a == [entries[e] EXCEPT !.status = o]
               b == [a EXCEPT !.comment = c]
               row == [b EXCEPT !.checked = t]
    <2>3. a \in Lifecycle!Entry
      BY <1>1, <2>1 DEF Lifecycle!Entry
    <2> HIDE DEF a
    <2>4. b \in Lifecycle!Entry
      BY <2>1, <2>3 DEF Lifecycle!Entry
    <2> HIDE DEF b
    <2>5. row \in Lifecycle!Entry /\ row.checked = t
      BY <2>1, <2>4 DEF Lifecycle!Entry
    <2> HIDE DEF row
    <2>6. entries' = [entries EXCEPT ![e] = row]
      <3> DEFINE f == [entries EXCEPT ![e].status = o]
                 g == [f EXCEPT ![e].comment = c]
                 h == [g EXCEPT ![e].checked = t]
      <3>1. entries' = h
        BY <2>1, Zenon DEF f, g
      <3>2. f = [entries EXCEPT ![e] = a]
        BY DEF a
      <3> HIDE DEF f
      <3>3. g = [entries EXCEPT ![e] = b]
        BY <3>2 DEF b
      <3> HIDE DEF g
      <3>4. h = [entries EXCEPT ![e] = row]
        BY <3>3 DEF row
      <3> HIDE DEF h
      <3>5. QED
        BY <3>1, <3>4
    <2>7. Lifecycle!TypeOK'
      BY <2>2, <2>5, <2>6
    <2>8. t \in DOMAIN Instants
      <3>1. entries[e].created \in Time
        BY <1>1 DEF Lifecycle!Entry
      <3>2. t \in 1 .. Len(Instants)
        BY <2>1, <3>1, InstantsAssumption DEF Time, WaitPeriod
      <3>3. QED
        BY <3>2, InstantsAssumption
    <2>9. CheckInsAreInstants'
      BY <2>5, <2>6, <2>8 DEF CheckInsAreInstants, Lifecycle!Resolved
    <2>10. QED
      BY <2>7, <2>9
  <1>5. QED
    BY <1>2, <1>3, <1>4 DEF ChangeEntry

\* A summary's totals are a value of the entries it counted.
LEMMA TotalsAreOfTheirEntries ==
  ASSUME NEW C, \A e \in C : entries'[e] = entries[e]
  PROVE  TotalsOf(C)' = TotalsOf(C)
  <1> DEFINE avoided == {e \in C : entries[e].status = "saved"}
             paid    == [e \in avoided |-> Price[entries[e].details]]
  <1>1. {e \in C : entries'[e].status = "saved"} = avoided
    OBVIOUS
  <1>2. [e \in avoided |-> Price[entries'[e].details]] = paid
    OBVIOUS
  <1>3. TotalsOf(C)' = [saved |-> SumFunction([e \in avoided |-> Price[entries'[e].details]]),
                        avoided |-> Cardinality(avoided),
                        purchased |-> Cardinality(C \ avoided)]
    BY <1>1 DEF TotalsOf
  <1>4. TotalsOf(C) = [saved |-> SumFunction(paid),
                       avoided |-> Cardinality(avoided),
                       purchased |-> Cardinality(C \ avoided)]
    BY DEF TotalsOf
  <1> HIDE DEF avoided
  <1>5. QED
    BY <1>2, <1>3, <1>4

-----------------------------------------------------------------------------
(* The steps                                                               *)

\* A change of an entry leaves every summary's totals explained by the same entries.
LEMMA ChangeEntryKeepsSummaries ==
  ASSUME SummaryInv, NEW e \in EntryIds, ChangeEntry(e)
  PROVE  SummaryInv'
  <1> USE DEF SummaryInv
  <1>1. UNCHANGED <<clock, stage, asked, now, totals, settled>>
    BY DEF ChangeEntry, summaryVars
  <1>2. \A x \in EntryIds : Lifecycle!Resolved(x) => entries'[x] = entries[x]
    BY ResolvedEntriesStay
  <1>3. Lifecycle!TypeOK' /\ CheckInsAreInstants'
    BY ChangedEntryShape
  <1>4. SummaryShape'
    BY <1>1 DEF SummaryShape
  <1>5. \A x \in EntryIds : Lifecycle!Resolved(x) => Lifecycle!Resolved(x)'
    BY <1>2 DEF Lifecycle!Resolved
  <1>6. SettledIsResolved'
    BY <1>1, <1>5 DEF SettledIsResolved, Resolved
  <1>7. SummaryIsExact'
    <2> SUFFICES ASSUME NEW s \in Summaries, stage[s] \in {"aggregated", "done"}
                 PROVE  \E C \in SUBSET {x \in EntryIds : Covered(s, x)'} :
                          /\ {x \in settled'[s] : Covered(s, x)'} \subseteq C
                          /\ totals'[s] = TotalsOf(C)'
      BY <1>1 DEF SummaryIsExact
    <2>1. PICK C \in SUBSET {x \in EntryIds : Covered(s, x)} :
            /\ {x \in settled[s] : Covered(s, x)} \subseteq C
            /\ totals[s] = TotalsOf(C)
      BY DEF SummaryIsExact
    <2>2. \A x \in C : x \in EntryIds /\ Lifecycle!Resolved(x) /\ entries'[x] = entries[x]
      BY <1>2, <2>1 DEF Covered
    <2>3. \A x \in C : Covered(s, x)'
      BY <1>1, <1>5, <2>1, <2>2 DEF Covered
    <2>4. {x \in settled'[s] : Covered(s, x)'} \subseteq C
      <3> SUFFICES ASSUME NEW x \in settled[s], Covered(s, x)'
                   PROVE  x \in C
        BY <1>1
      <3>1. x \in EntryIds /\ Lifecycle!Resolved(x)
        BY DEF SettledIsResolved, Resolved
      <3>2. Covered(s, x)
        BY <1>1, <1>2, <3>1 DEF Covered
      <3>3. QED
        BY <2>1, <3>2
    <2>5. TotalsOf(C)' = TotalsOf(C)
      BY <2>2, TotalsAreOfTheirEntries
    <2>6. QED
      BY <1>1, <2>1, <2>2, <2>3, <2>4, <2>5
  <1>8. QED
    BY <1>3, <1>4, <1>6, <1>7

\* What a summary promises depends on its own fields and the entries only.
LEMMA OtherSummariesStayExact ==
  ASSUME SummaryIsExact, UNCHANGED entryVars, NEW s \in Summaries,
         \A x \in Summaries \ {s} :
           /\ stage'[x] = stage[x] /\ asked'[x] = asked[x] /\ now'[x] = now[x]
           /\ totals'[x] = totals[x] /\ settled'[x] = settled[x],
         stage'[s] \in {"aggregated", "done"} =>
           \E C \in SUBSET {e \in EntryIds : Covered(s, e)'} :
             /\ {e \in settled'[s] : Covered(s, e)'} \subseteq C
             /\ totals'[s] = TotalsOf(C)
  PROVE  SummaryIsExact'
  <1>1. \A C : TotalsOf(C)' = TotalsOf(C)
    BY TotalsAreOfTheirEntries DEF entryVars
  <1>2. \A x \in Summaries \ {s}, e \in EntryIds : Covered(x, e)' <=> Covered(x, e)
    BY DEF Covered, Lifecycle!Resolved, entryVars
  <1> SUFFICES ASSUME NEW x \in Summaries, stage'[x] \in {"aggregated", "done"}
               PROVE  \E C \in SUBSET {e \in EntryIds : Covered(x, e)'} :
                        /\ {e \in settled'[x] : Covered(x, e)'} \subseteq C
                        /\ totals'[x] = TotalsOf(C)'
    BY DEF SummaryIsExact
  <1>3. CASE x = s
    BY <1>1, <1>3
  <1>4. CASE x # s
    <2>1. PICK C \in SUBSET {e \in EntryIds : Covered(x, e)} :
            /\ {e \in settled[x] : Covered(x, e)} \subseteq C
            /\ totals[x] = TotalsOf(C)
      BY <1>4 DEF SummaryIsExact
    <2>2. \A e : Covered(x, e)' <=> Covered(x, e)
      BY <1>4 DEF Covered, Lifecycle!Resolved, entryVars
    <2>3. QED
      BY <1>1, <1>4, <2>1, <2>2
  <1>5. QED
    BY <1>3, <1>4

\* A step of one summary.
LEMMA SummaryStepKeepsInv ==
  ASSUME SummaryInv, NEW s \in Summaries,
         BeginSummary(s) \/ ReadSummaryClock(s) \/ AggregateStatistics(s)
         \/ ListSummaryExamples(s) \/ EndSummary(s)
  PROVE  SummaryInv'
  <1> USE DEF SummaryInv, SummaryShape
  <1>1. UNCHANGED <<entryVars, clock>>
    BY DEF BeginSummary, ReadSummaryClock, AggregateStatistics, ListSummaryExamples,
       EndSummary
  <1>2. Lifecycle!TypeOK' /\ CheckInsAreInstants'
    BY <1>1 DEF entryVars, Lifecycle!TypeOK, CheckInsAreInstants, Lifecycle!Resolved
  <1>3. Resolved' = Resolved
    BY <1>1 DEF entryVars, Resolved, Lifecycle!Resolved
  <1>4. CASE BeginSummary(s)
    <2>1. PICK u \in Users, range \in StatisticsRange :
            asked' = [asked EXCEPT ![s] = [user |-> u, range |-> range]]
      BY <1>4 DEF BeginSummary
    <2>2. /\ stage' = [stage EXCEPT ![s] = "begin"]
          /\ settled' = [settled EXCEPT ![s] = Resolved]
          /\ UNCHANGED <<now, totals>>
      BY <1>4 DEF BeginSummary
    <2>3. SummaryShape'
      BY <1>1, <2>1, <2>2 DEF Stages, Resolved
    <2>4. SettledIsResolved'
      BY <1>3, <2>2 DEF SettledIsResolved
    <2>5. SummaryIsExact'
      BY <1>1, <2>1, <2>2, OtherSummariesStayExact
    <2>6. QED
      BY <1>2, <2>3, <2>4, <2>5
  <1>5. CASE ReadSummaryClock(s)
    <2>1. /\ stage[s] = "begin"
          /\ stage' = [stage EXCEPT ![s] = "ready"]
          /\ now' = [now EXCEPT ![s] = clock]
          /\ UNCHANGED <<asked, totals, settled>>
      BY <1>5 DEF ReadSummaryClock
    <2>2. SummaryShape'
      BY <1>1, <2>1 DEF Stages
    <2>3. SettledIsResolved'
      BY <1>3, <2>1 DEF SettledIsResolved
    <2>4. SummaryIsExact'
      BY <1>1, <2>1, OtherSummariesStayExact
    <2>5. QED
      BY <1>2, <2>2, <2>3, <2>4
  <1>6. CASE AggregateStatistics(s)
    <2> DEFINE C == Selected(asked[s].user, asked[s].range, now[s])
    <2>1. /\ stage[s] = "ready"
          /\ stage' = [stage EXCEPT ![s] = "aggregated"]
          /\ totals' = [totals EXCEPT ![s] = TotalsOf(C)]
          /\ UNCHANGED <<asked, now, settled>>
      BY <1>6 DEF AggregateStatistics
    <2>2. SummaryShape'
      BY <1>1, <2>1 DEF Stages
    <2>3. SettledIsResolved'
      BY <1>3, <2>1 DEF SettledIsResolved
    <2>4. \A e \in EntryIds : Covered(s, e)' <=> Covered(s, e)
      BY <1>1, <2>1 DEF Covered, Lifecycle!Resolved, entryVars
    <2>5. C = {e \in EntryIds : Covered(s, e)}
      <3>1. /\ Instants[now[s]] \in Instant /\ Valid(Instants[now[s]])
            /\ asked[s].range \in StatisticsRange
        BY <2>1, InstantsAssumption
      <3>2. ASSUME NEW e \in EntryIds, Lifecycle!Resolved(e)
            PROVE  InInterval(Instants[entries[e].checked], asked[s].range, Instants[now[s]])
                     <=> Covers(asked[s].range, Instants[now[s]], Instants[entries[e].checked])
        <4>1. Instants[entries[e].checked] \in Instant
          BY <3>2, InstantsAssumption DEF CheckInsAreInstants
        <4>2. QED
          BY <3>1, <4>1, IntervalsAreTheRanges
      <3>3. QED
        BY <3>2 DEF Selected, Resolved, Covered
    <2>6. totals'[s] = TotalsOf(C) /\ settled'[s] \subseteq EntryIds
      BY <2>1
    <2> HIDE DEF C
    <2>7. \E D \in SUBSET {e \in EntryIds : Covered(s, e)'} :
            /\ {e \in settled'[s] : Covered(s, e)'} \subseteq D
            /\ totals'[s] = TotalsOf(D)
      BY <2>4, <2>5, <2>6
    <2>8. SummaryIsExact'
      BY <1>1, <2>1, <2>7, OtherSummariesStayExact
    <2>9. QED
      BY <1>2, <2>2, <2>3, <2>8
  <1>7. CASE ListSummaryExamples(s)
    <2>1. /\ stage[s] = "aggregated"
          /\ stage' = [stage EXCEPT ![s] = "done"]
          /\ UNCHANGED <<asked, now, totals, settled>>
      BY <1>7 DEF ListSummaryExamples
    <2>2. SummaryShape'
      BY <1>1, <2>1 DEF Stages
    <2>3. SettledIsResolved'
      BY <1>3, <2>1 DEF SettledIsResolved
    <2>4. \A e : Covered(s, e)' <=> Covered(s, e)
      BY <1>1, <2>1 DEF Covered, Lifecycle!Resolved, entryVars
    <2>5. SummaryIsExact'
      <3>1. PICK C \in SUBSET {e \in EntryIds : Covered(s, e)} :
              /\ {e \in settled[s] : Covered(s, e)} \subseteq C
              /\ totals[s] = TotalsOf(C)
        BY <2>1 DEF SummaryIsExact
      <3>2. \E D \in SUBSET {e \in EntryIds : Covered(s, e)'} :
              /\ {e \in settled'[s] : Covered(s, e)'} \subseteq D
              /\ totals'[s] = TotalsOf(D)
        BY <2>1, <2>4, <3>1
      <3>3. QED
        BY <1>1, <2>1, <3>2, OtherSummariesStayExact
    <2>6. QED
      BY <1>2, <2>2, <2>3, <2>5
  <1>8. CASE EndSummary(s)
    <2>1. /\ stage' = [stage EXCEPT ![s] = "idle"]
          /\ asked' = [asked EXCEPT ![s] = Null]
          /\ now' = [now EXCEPT ![s] = Null]
          /\ totals' = [totals EXCEPT ![s] = Null]
          /\ settled' = [settled EXCEPT ![s] = {}]
      BY <1>8 DEF EndSummary
    <2>2. SummaryShape'
      BY <1>1, <2>1 DEF Stages
    <2>3. SettledIsResolved'
      BY <1>3, <2>1 DEF SettledIsResolved
    <2>4. SummaryIsExact'
      BY <1>1, <2>1, OtherSummariesStayExact
    <2>5. QED
      BY <1>2, <2>2, <2>3, <2>4
  <1>9. QED
    BY <1>4, <1>5, <1>6, <1>7, <1>8

\* A step of the opportunity-cost API, or of the clock, concerns no summary.
LEMMA OtherStepsKeepInv ==
  ASSUME SummaryInv, ChangeExamples \/ Tick
  PROVE  SummaryInv'
  <1> USE DEF SummaryInv
  <1>1. UNCHANGED <<entryVars, stage, asked, now, totals, settled>>
    BY DEF ChangeExamples, Tick, summaryVars
  <1>2. clock' \in DOMAIN Instants
    <2>1. CASE ChangeExamples
      BY <2>1 DEF ChangeExamples, SummaryShape
    <2>2. CASE Tick
      <3>1. clock \in 1 .. Len(Instants)
        BY InstantsAssumption DEF SummaryShape
      <3>2. clock' \in 1 .. Len(Instants)
        BY <2>2, <3>1, InstantsAssumption DEF Tick
      <3>3. QED
        BY <3>2, InstantsAssumption
    <2>3. QED
      BY <2>1, <2>2
  <1>3. Lifecycle!TypeOK' /\ CheckInsAreInstants'
    BY <1>1 DEF entryVars, Lifecycle!TypeOK, CheckInsAreInstants, Lifecycle!Resolved
  <1>4. SummaryShape'
    BY <1>1, <1>2 DEF SummaryShape
  <1>5. SettledIsResolved'
    BY <1>1 DEF entryVars, SettledIsResolved, Resolved, Lifecycle!Resolved
  <1>6. \A C : TotalsOf(C)' = TotalsOf(C)
    BY <1>1, TotalsAreOfTheirEntries DEF entryVars
  <1>7. SummaryIsExact'
    <2> SUFFICES ASSUME NEW s \in Summaries, stage[s] \in {"aggregated", "done"}
                 PROVE  \E C \in SUBSET {e \in EntryIds : Covered(s, e)'} :
                          /\ {e \in settled'[s] : Covered(s, e)'} \subseteq C
                          /\ totals'[s] = TotalsOf(C)'
      BY <1>1 DEF SummaryIsExact
    <2>1. PICK C \in SUBSET {e \in EntryIds : Covered(s, e)} :
            /\ {e \in settled[s] : Covered(s, e)} \subseteq C
            /\ totals[s] = TotalsOf(C)
      BY DEF SummaryIsExact
    <2>2. \A e : Covered(s, e)' <=> Covered(s, e)
      BY <1>1 DEF Covered, Lifecycle!Resolved, entryVars
    <2>3. QED
      BY <1>1, <1>6, <2>1, <2>2
  <1>8. QED
    BY <1>3, <1>4, <1>5, <1>7

\* The invariant holds at the start: every entry waits and no summary is asked for.
LEMMA InitSummaryInv == Init => SummaryInv
  <1> SUFFICES ASSUME Init PROVE SummaryInv
    OBVIOUS
  <1>1. Lifecycle!TypeOK
    <2>1. entries \in [EntryIds -> [owner : Users, details : Details, status : {"waiting"},
                                    comment : {Null}, created : {0}, checked : {Null}]]
      BY DEF Init
    <2>2. 0 \in Time
      BY InstantsAssumption DEF Time
    <2>3. \A e \in EntryIds : entries[e] \in Lifecycle!Entry
      BY <2>1, <2>2 DEF Lifecycle!Entry, Lifecycle!Outcomes
    <2>4. QED
      BY <2>1, <2>3 DEF Lifecycle!TypeOK, Init
  <1>2. \A e \in EntryIds : ~Lifecycle!Resolved(e)
    BY DEF Init, Lifecycle!Resolved, Lifecycle!Outcomes
  <1>3. SummaryShape
    <2>1. 1 \in DOMAIN Instants
      BY InstantsAssumption
    <2>2. QED
      BY <2>1 DEF Init, SummaryShape, Stages
  <1>4. CheckInsAreInstants /\ SettledIsResolved
    BY <1>2 DEF CheckInsAreInstants, SettledIsResolved, Init
  <1>5. SummaryIsExact
    BY DEF Init, SummaryIsExact
  <1>6. QED
    BY <1>1, <1>3, <1>4, <1>5 DEF SummaryInv

\* A step that changes nothing changes nothing.
LEMMA StutterKeepsSummaryInv ==
  ASSUME SummaryInv, UNCHANGED vars
  PROVE  SummaryInv'
  <1>1. UNCHANGED <<entries, deleted, clock, stage, asked, now, totals, settled>>
    BY DEF vars, entryVars, summaryVars
  <1>2. \A C : TotalsOf(C)' = TotalsOf(C)
    BY <1>1, TotalsAreOfTheirEntries
  <1>3. \A s, e : Covered(s, e)' <=> Covered(s, e)
    BY <1>1 DEF Covered, Lifecycle!Resolved
  <1>4. SummaryIsExact'
    <2> SUFFICES ASSUME NEW s \in Summaries, stage[s] \in {"aggregated", "done"}
                 PROVE  \E C \in SUBSET {e \in EntryIds : Covered(s, e)'} :
                          /\ {e \in settled'[s] : Covered(s, e)'} \subseteq C
                          /\ totals'[s] = TotalsOf(C)'
      BY <1>1 DEF SummaryIsExact
    <2>1. PICK C \in SUBSET {e \in EntryIds : Covered(s, e)} :
            /\ {e \in settled[s] : Covered(s, e)} \subseteq C
            /\ totals[s] = TotalsOf(C)
      BY DEF SummaryInv, SummaryIsExact
    <2>2. QED
      BY <1>1, <1>2, <1>3, <2>1
  <1>5. QED
    BY <1>1, <1>4 DEF SummaryInv, Lifecycle!TypeOK, SummaryShape, CheckInsAreInstants,
       SettledIsResolved, Resolved, Lifecycle!Resolved

\* The inductive invariant of the summaries.
LEMMA SummaryInvariance == Spec => []SummaryInv
  <1>1. SummaryInv /\ [Next]_vars => SummaryInv'
    <2> SUFFICES ASSUME SummaryInv, [Next]_vars
                 PROVE  SummaryInv'
      OBVIOUS
    <2>1. CASE Next
      BY <2>1, SummaryStepKeepsInv, ChangeEntryKeepsSummaries, OtherStepsKeepInv DEF Next
    <2>2. CASE UNCHANGED vars
      BY <2>2, StutterKeepsSummaryInv
    <2>3. QED
      BY <2>1, <2>2
  <1>2. QED
    BY <1>1, InitSummaryInv, PTL DEF Spec

-----------------------------------------------------------------------------
(* The theorems                                                            *)

\* The sums and counts of get_statistics_summary are those of one set of entries
\* of the range the calendar defines, at every date, whatever commits meanwhile.
THEOREM TotalsAreExact == Spec => []SummaryIsExact
  <1>1. SummaryInv => SummaryIsExact
    BY DEF SummaryInv
  <1>2. QED
    BY <1>1, SummaryInvariance, PTL

\* What ties the answer to the table: the fields of the history.
ShownShape ==
  /\ stage \in [Summaries -> Stages]
  /\ DOMAIN shown = Summaries /\ DOMAIN touched = Summaries /\ DOMAIN asked = Summaries

ShownInv == ShownShape /\ ShownExamplesAreCurrent

\* A request's answer is right when its second query runs, and what happens to an
\* example afterwards marks it.
LEMMA ShownStep ==
  ASSUME ShownInv, [Next]_vars
  PROVE  ShownInv'
  <1> USE DEF ShownInv, ShownShape
  <1>1. CASE \E s \in Summaries : BeginSummary(s) \/ ReadSummaryClock(s)
                                  \/ AggregateStatistics(s) \/ EndSummary(s)
    <2>1. PICK s \in Summaries : BeginSummary(s) \/ ReadSummaryClock(s)
                                 \/ AggregateStatistics(s) \/ EndSummary(s)
      BY <1>1
    <2>2. /\ UNCHANGED examples
          /\ \E t \in Stages \ {"done"} : stage' = [stage EXCEPT ![s] = t]
          /\ DOMAIN shown' = Summaries /\ DOMAIN touched' = Summaries
          /\ DOMAIN asked' = Summaries
          /\ \A x \in Summaries \ {s} : /\ asked'[x] = asked[x]
                                        /\ shown'[x] = shown[x]
                                        /\ touched'[x] = touched[x]
      BY <2>1 DEF BeginSummary, ReadSummaryClock, AggregateStatistics, EndSummary,
         exampleVars, Stages
    <2>3. ShownShape'
      BY <2>2
    <2>4. ASSUME NEW x \in Summaries, stage'[x] = "done"
          PROVE  x # s /\ stage[x] = "done"
      BY <2>2, <2>4
    <2>5. ShownExamplesAreCurrent'
      BY <2>2, <2>4 DEF ShownExamplesAreCurrent
    <2>6. QED
      BY <2>3, <2>5
  <1>2. CASE \E s \in Summaries : ListSummaryExamples(s)
    <2>1. PICK s \in Summaries : ListSummaryExamples(s)
      BY <1>2
    <2>2. /\ stage' = [stage EXCEPT ![s] = "done"]
          /\ shown' = [shown EXCEPT ![s] = EquivalentsOf(asked[s].user, totals[s].saved)]
          /\ UNCHANGED <<examples, asked, touched>>
      BY <2>1 DEF ListSummaryExamples, exampleVars
    <2>3. ShownShape'
      BY <2>2 DEF Stages
    <2>4. shown'[s] = EquivalentsOf(asked[s].user, totals[s].saved)
      BY <2>2
    <2>5. ASSUME NEW x \in ExampleIds
          PROVE  /\ x \in DOMAIN shown'[s] <=>
                      examples[x] # Null /\ examples[x].owner = asked[s].user
                 /\ x \in DOMAIN shown'[s] => shown'[s][x].value = examples[x].value
      BY <2>4 DEF EquivalentsOf, ExamplesOf
    <2>6. ShownExamplesAreCurrent'
      BY <2>2, <2>5 DEF ShownExamplesAreCurrent
    <2>7. QED
      BY <2>3, <2>6
  <1>3. CASE ChangeExamples
    <2>1. UNCHANGED <<stage, asked, shown>>
      BY <1>3 DEF ChangeExamples
    <2>2. touched' = [s \in Summaries |->
            IF stage[s] = "idle"
              THEN {}
              ELSE touched[s] \cup {x \in ExampleIds : examples'[x] # examples[x]}]
      BY <1>3 DEF ChangeExamples
    <2>3. ASSUME NEW s \in Summaries, stage[s] = "done", NEW x \in ExampleIds \ touched'[s]
          PROVE  x \notin touched[s] /\ examples'[x] = examples[x]
      BY <2>2, <2>3
    <2>4. ShownExamplesAreCurrent'
      BY <2>1, <2>3 DEF ShownExamplesAreCurrent
    <2>5. QED
      BY <2>1, <2>2, <2>4
  <1>4. CASE (\E e \in EntryIds : ChangeEntry(e)) \/ Tick \/ UNCHANGED vars
    <2>1. UNCHANGED <<examples, stage, asked, shown, touched>>
      BY <1>4 DEF ChangeEntry, Tick, vars, exampleVars, summaryVars
    <2>2. QED
      BY <2>1 DEF ShownExamplesAreCurrent
  <1>5. QED
    BY <1>1, <1>2, <1>3, <1>4 DEF Next

\* The answer lists the user's examples with their stored values and nobody
\* else's, but for those that were changed while the summary was under way.
THEOREM ShownExamplesAreTheUsers == Spec => []ShownExamplesAreCurrent
  <1>1. Init => ShownInv
    BY DEF Init, ShownInv, ShownShape, ShownExamplesAreCurrent, Stages
  <1>2. ShownInv => ShownExamplesAreCurrent
    BY DEF ShownInv
  <1>3. QED
    BY <1>1, <1>2, ShownStep, PTL DEF Spec

-----------------------------------------------------------------------------
(* The rounding                                                            *)

\* ROUND_HALF_UP to a tenth: the result is nearest to total / value, and of two that
\* are as near it is the larger one.
THEOREM EquivalentIsNearest ==
  ASSUME NEW total \in Nat, NEW value \in Nat \ {0}
  PROVE  LET product == Equivalent(total, value) * value
         IN  /\ Equivalent(total, value) \in Nat
             /\ 2 * (product - 10 * total) <= value
             /\ 2 * (10 * total - product) < value
  <1> DEFINE a == 20 * total + value
             b == 2 * value
             q == a \div b
  <1>1. a \in Nat /\ b \in Nat \ {0}
    OBVIOUS
  <1> HIDE DEF a, b
  <1>2. q \in Nat /\ b * q <= a /\ a < b * q + b
    BY <1>1
  <1>3. Equivalent(total, value) = q
    BY DEF Equivalent, a, b
  <1> HIDE DEF q
  <1>4. b * q = 2 * (q * value)
    BY <1>2 DEF b
  <1>5. q * value \in Nat
    BY <1>2
  <1>6. QED
    BY <1>2, <1>3, <1>4, <1>5 DEF a, b

-----------------------------------------------------------------------------
(* Sums                                                                    *)
(*                                                                         *)
(* The sum of an aggregate query is a fold of the community modules, which *)
(* is a recursive function over the subsets of its rows.  The library's    *)
(* induction rules take the formula to prove as an operator and cannot be  *)
(* used here; the induction is done by hand, on the least counterexample   *)
(* in the size of a subset.                                                *)

Pick(s) == CHOOSE x \in s : TRUE

SumStep(fun, g, s) == IF s = {} THEN 0 ELSE fun[Pick(s)] + g[s \ {Pick(s)}]

Smaller(S, n) == {s \in SUBSET S : Cardinality(s) <= n}

\* g sums fun over every set of at most n elements of S.
PartialSum(g, fun, S, n) ==
  /\ g \in [Smaller(S, n) -> Nat]
  /\ \A s \in Smaller(S, n) : g[s] = SumStep(fun, g, s)

\* What the sum of a function is, with the fold's operators put in.
LEMMA SumIsAFold ==
  ASSUME NEW S, NEW fun
  PROVE  SumFunctionOnSet(fun, S) =
           (CHOOSE g : g = [s \in SUBSET S |-> SumStep(fun, g, s)])[S]
  BY DEF SumFunctionOnSet, FoldFunctionOnSet, MapThenFoldSet, Pick, SumStep

\* A set of naturals has a least element.
LEMMA LeastOfNaturals ==
  ASSUME NEW B \in SUBSET Nat, B # {}
  PROVE  \E m \in B : \A n \in Nat : n < m => n \notin B
  <1>1. PICK m \in B : \A y \in B : ~(<<y, m>> \in OpToRel(<, Nat))
    BY WFMin, NatLessThanWellFounded, Zenon
  <1>2. \A n \in Nat : n < m => n \notin B
    BY <1>1 DEF OpToRel
  <1>3. QED
    BY <1>2

LEMMA PickIsElement ==
  ASSUME NEW s, s # {}
  PROVE  Pick(s) \in s
  BY DEF Pick

\* A set without one of its elements is smaller.
LEMMA SmallerRemainders ==
  ASSUME NEW S, IsFiniteSet(S), NEW n \in Nat, NEW s \in Smaller(S, n), NEW x \in s
  PROVE  s \ {x} \in Smaller(S, n - 1) /\ n - 1 \in Nat
  <1>1. IsFiniteSet(s)
    BY FS_Subset DEF Smaller
  <1>2. Cardinality(s \ {x}) = Cardinality(s) - 1
    BY <1>1, FS_RemoveElement
  <1>3. Cardinality(s) \in Nat /\ Cardinality(s \ {x}) \in Nat
    BY <1>1, FS_CardinalityType, FS_Subset
  <1>4. Cardinality(s) <= n
    BY DEF Smaller
  <1>5. s \ {x} \in SUBSET S
    BY DEF Smaller
  <1>6. QED
    BY <1>2, <1>3, <1>4, <1>5 DEF Smaller

\* The recursion has a solution on the subsets of every size: a least size without
\* one would have it, from the solution one size below.
LEMMA PartialSumsExist ==
  ASSUME NEW S, IsFiniteSet(S), NEW fun \in [S -> Nat]
  PROVE  \A n \in Nat : \E g : PartialSum(g, fun, S, n)
  <1> DEFINE B == {n \in Nat : ~ \E g : PartialSum(g, fun, S, n)}
  <1> SUFFICES ASSUME B # {} PROVE FALSE
    OBVIOUS
  <1>1. PICK m \in B : \A n \in Nat : n < m => n \notin B
    <2> HIDE DEF B
    <2>1. B \in SUBSET Nat
      BY DEF B
    <2>2. QED
      BY <2>1, LeastOfNaturals
  <1>2. CASE m = 0
    <2> DEFINE g == [s \in Smaller(S, 0) |-> 0]
    <2>1. \A s \in Smaller(S, 0) : s = {}
      <3> SUFFICES ASSUME NEW s \in Smaller(S, 0) PROVE s = {}
        OBVIOUS
      <3>1. IsFiniteSet(s) /\ Cardinality(s) <= 0
        BY FS_Subset DEF Smaller
      <3>2. QED
        BY <3>1, FS_CardinalityType, FS_EmptySet
    <2>2. PartialSum(g, fun, S, 0)
      BY <2>1 DEF PartialSum, SumStep
    <2>3. QED
      BY <1>2, <2>2
  <1>3. CASE m # 0
    <2>1. m - 1 \in Nat /\ m - 1 \notin B
      BY <1>1, <1>3
    <2>2. PICK g : PartialSum(g, fun, S, m - 1)
      BY <2>1
    <2> DEFINE h == [s \in Smaller(S, m) |-> SumStep(fun, g, s)]
    <2>3. ASSUME NEW s \in Smaller(S, m), s # {}
          PROVE  /\ s \ {Pick(s)} \in Smaller(S, m - 1)
                 /\ SumStep(fun, g, s) \in Nat
      <3>1. Pick(s) \in S /\ s \ {Pick(s)} \in Smaller(S, m - 1)
        BY <2>3, PickIsElement, SmallerRemainders DEF Smaller
      <3>2. fun[Pick(s)] \in Nat /\ g[s \ {Pick(s)}] \in Nat
        BY <2>2, <3>1 DEF PartialSum
      <3>3. QED
        BY <2>3, <3>1, <3>2 DEF SumStep
    <2>4. h \in [Smaller(S, m) -> Nat]
      BY <2>3 DEF SumStep
    <2>5. ASSUME NEW s \in Smaller(S, m - 1)
          PROVE  s \in Smaller(S, m) /\ h[s] = g[s]
      <3>1. s \in Smaller(S, m)
        <4>1. Cardinality(s) \in Nat
          BY FS_Subset, FS_CardinalityType DEF Smaller
        <4>2. QED
          BY <4>1 DEF Smaller
      <3>2. g[s] = SumStep(fun, g, s)
        BY <2>2 DEF PartialSum
      <3>3. QED
        BY <3>1, <3>2
    <2>6. ASSUME NEW s \in Smaller(S, m)
          PROVE  h[s] = SumStep(fun, h, s)
      <3>1. CASE s = {}
        BY <3>1 DEF SumStep
      <3>2. CASE s # {}
        <4>1. h[s \ {Pick(s)}] = g[s \ {Pick(s)}]
          BY <2>3, <2>5, <3>2
        <4>2. h[s] = SumStep(fun, g, s)
          OBVIOUS
        <4> HIDE DEF h
        <4>3. QED
          BY <4>1, <4>2, <3>2 DEF SumStep
      <3>3. QED
        BY <3>1, <3>2
    <2>7. PartialSum(h, fun, S, m)
      <3> HIDE DEF h
      <3>1. QED
        BY <2>4, <2>6 DEF PartialSum
    <2>8. QED
      BY <2>7
  <1>4. QED
    BY <1>2, <1>3

\* h sums fun over every subset of S.
Sums(h, fun, S) ==
  /\ h \in [SUBSET S -> Nat]
  /\ \A s \in SUBSET S : h[s] = SumStep(fun, h, s)

\* SUM over a finite set of rows is defined, and of naturals it is a natural.
LEMMA SumIsDefined ==
  ASSUME NEW S, IsFiniteSet(S), NEW fun \in [S -> Nat]
  PROVE  \E h : Sums(h, fun, S) /\ SumFunction(fun) = h[S]
  <1> DEFINE n == Cardinality(S)
  <1>1. n \in Nat
    BY FS_CardinalityType
  <1>2. Smaller(S, n) = SUBSET S
    BY FS_Subset DEF Smaller
  <1> HIDE DEF n
  <1>3. PICK g : PartialSum(g, fun, S, n)
    BY <1>1, PartialSumsExist
  <1>4. g = [s \in SUBSET S |-> SumStep(fun, g, s)]
    BY <1>2, <1>3 DEF PartialSum
  <1> DEFINE h == CHOOSE k : k = [s \in SUBSET S |-> SumStep(fun, k, s)]
  <1>5. h = [s \in SUBSET S |-> SumStep(fun, h, s)]
    BY <1>4
  <1> HIDE DEF h
  <1> DEFINE B == {i \in Nat : \E s \in Smaller(S, i) : h[s] \notin Nat}
  <1>6. ASSUME B # {} PROVE FALSE
    <2>1. PICK m \in B : \A i \in Nat : i < m => i \notin B
      <3> HIDE DEF B
      <3>1. B \in SUBSET Nat
        BY DEF B
      <3>2. QED
        BY <1>6, <3>1, LeastOfNaturals
    <2>2. PICK s \in Smaller(S, m) : h[s] \notin Nat
      OBVIOUS
    <2>3. h[s] = SumStep(fun, h, s)
      BY <1>5 DEF Smaller
    <2>4. s # {}
      BY <2>2, <2>3 DEF SumStep
    <2>5. Pick(s) \in S /\ s \ {Pick(s)} \in Smaller(S, m - 1) /\ m - 1 \in Nat
      BY <2>4, PickIsElement, SmallerRemainders DEF Smaller
    <2>6. h[s \ {Pick(s)}] \in Nat
      BY <2>1, <2>5
    <2>7. QED
      BY <2>2, <2>3, <2>4, <2>5, <2>6 DEF SumStep
  <1>7. ASSUME NEW s \in SUBSET S
        PROVE  h[s] \in Nat
    BY <1>1, <1>2, <1>6
  <1>8. Sums(h, fun, S)
    BY <1>5, <1>7 DEF Sums
  <1>9. SumFunction(fun) = h[S]
    BY SumIsAFold DEF SumFunction, h
  <1>10. QED
    BY <1>8, <1>9

\* The sum over a subset is a matter of its own rows.
LEMMA SumsAgree ==
  ASSUME NEW S, IsFiniteSet(S), NEW T \in SUBSET S,
         NEW f, NEW h, Sums(h, f, S),
         NEW g, NEW k, Sums(k, g, T), \A x \in T : g[x] = f[x]
  PROVE  \A s \in SUBSET T : h[s] = k[s]
  <1> DEFINE B == {i \in Nat : \E s \in Smaller(T, i) : h[s] # k[s]}
  <1>1. IsFiniteSet(T)
    BY FS_Subset
  <1>2. ASSUME B # {} PROVE FALSE
    <2>1. PICK m \in B : \A i \in Nat : i < m => i \notin B
      <3> HIDE DEF B
      <3>1. B \in SUBSET Nat
        BY DEF B
      <3>2. QED
        BY <1>2, <3>1, LeastOfNaturals
    <2>2. PICK s \in Smaller(T, m) : h[s] # k[s]
      OBVIOUS
    <2>3. h[s] = SumStep(f, h, s) /\ k[s] = SumStep(g, k, s)
      BY DEF Smaller, Sums
    <2>4. s # {}
      BY <2>2, <2>3 DEF SumStep
    <2>5. Pick(s) \in T /\ s \ {Pick(s)} \in Smaller(T, m - 1) /\ m - 1 \in Nat
      BY <1>1, <2>4, PickIsElement, SmallerRemainders DEF Smaller
    <2>6. h[s \ {Pick(s)}] = k[s \ {Pick(s)}]
      BY <2>1, <2>5
    <2>7. QED
      BY <2>2, <2>3, <2>4, <2>5, <2>6 DEF SumStep
  <1>3. ASSUME NEW s \in SUBSET T
        PROVE  h[s] = k[s]
    <2>1. Cardinality(s) \in Nat
      BY <1>1, FS_Subset, FS_CardinalityType
    <2>2. s \in Smaller(T, Cardinality(s))
      BY <2>1 DEF Smaller
    <2>3. QED
      BY <1>2, <2>1, <2>2
  <1>4. QED
    BY <1>3

\* The rows may be summed in any order: any of them may be taken out first.
LEMMA SumsInAnyOrder ==
  ASSUME NEW S, IsFiniteSet(S), NEW fun \in [S -> Nat], NEW h, Sums(h, fun, S)
  PROVE  \A s \in SUBSET S : \A x \in s : h[s] = fun[x] + h[s \ {x}]
  <1> DEFINE B == {i \in Nat : \E s \in Smaller(S, i) : \E x \in s :
                                 h[s] # fun[x] + h[s \ {x}]}
  <1>1. ASSUME B # {} PROVE FALSE
    <2>1. PICK m \in B : \A i \in Nat : i < m => i \notin B
      <3> HIDE DEF B
      <3>1. B \in SUBSET Nat
        BY DEF B
      <3>2. QED
        BY <1>1, <3>1, LeastOfNaturals
    <2>2. PICK s \in Smaller(S, m) : \E x \in s : h[s] # fun[x] + h[s \ {x}]
      OBVIOUS
    <2>3. PICK x \in s : h[s] # fun[x] + h[s \ {x}]
      BY <2>2
    <2> DEFINE y == Pick(s)
               rest == (s \ {y}) \ {x}
    <2>4. y \in s /\ s \in SUBSET S
      BY <2>3, PickIsElement DEF Smaller
    <2>5. h[s] = fun[y] + h[s \ {y}]
      BY <2>3, <2>4 DEF Sums, SumStep
    <2> HIDE DEF y
    <2>6. x # y
      BY <2>3, <2>5
    <2>7. s \ {y} \in Smaller(S, m - 1) /\ s \ {x} \in Smaller(S, m - 1) /\ m - 1 \in Nat
      BY <2>3, <2>4, SmallerRemainders
    <2>8. m - 1 \notin B
      BY <2>1, <2>7
    <2>9. h[s \ {y}] = fun[x] + h[rest]
      BY <2>3, <2>6, <2>7, <2>8
    <2>10. (s \ {x}) \ {y} = rest
      OBVIOUS
    <2>11. h[s \ {x}] = fun[y] + h[(s \ {x}) \ {y}]
      BY <2>4, <2>6, <2>7, <2>8
    <2>12. fun[x] \in Nat /\ fun[y] \in Nat /\ h[rest] \in Nat
      BY <2>3, <2>4 DEF Sums
    <2>13. h[s \ {x}] = fun[y] + h[rest]
      BY <2>10, <2>11
    <2> HIDE DEF rest
    <2>14. fun[y] + (fun[x] + h[rest]) = fun[x] + (fun[y] + h[rest])
      BY <2>12
    <2>15. h[s] = fun[x] + h[s \ {x}]
      BY <2>5, <2>9, <2>13, <2>14
    <2>16. QED
      BY <2>3, <2>15
  <1>2. ASSUME NEW s \in SUBSET S, NEW x \in s
        PROVE  h[s] = fun[x] + h[s \ {x}]
    <2>1. Cardinality(s) \in Nat
      BY FS_Subset, FS_CardinalityType
    <2>2. s \in Smaller(S, Cardinality(s))
      BY <2>1 DEF Smaller
    <2>3. QED
      BY <1>1, <2>1, <2>2
  <1>3. QED
    BY <1>2

\* A row adds its own amount to the sum, whichever row it is.
LEMMA SumTakesOneOut ==
  ASSUME NEW S, IsFiniteSet(S), NEW fun \in [S -> Nat], NEW x \in S
  PROVE  SumFunction(fun) = fun[x] + SumFunction([y \in S \ {x} |-> fun[y]])
  <1> DEFINE T == S \ {x}
             fewer == [y \in T |-> fun[y]]
  <1>1. IsFiniteSet(T) /\ T \in SUBSET S
    BY FS_Subset
  <1>2. fewer \in [T -> Nat] /\ \A y \in T : fewer[y] = fun[y]
    OBVIOUS
  <1> HIDE DEF fewer
  <1>3. PICK h : Sums(h, fun, S) /\ SumFunction(fun) = h[S]
    BY SumIsDefined
  <1>4. PICK k : Sums(k, fewer, T) /\ SumFunction(fewer) = k[T]
    BY <1>1, <1>2, SumIsDefined
  <1>5. h[T] = k[T]
    BY <1>1, <1>2, <1>3, <1>4, SumsAgree
  <1>6. h[S] = fun[x] + h[T]
    BY <1>3, SumsInAnyOrder
  <1>7. QED
    BY <1>3, <1>4, <1>5, <1>6 DEF fewer

\* More rows never sum to less.
LEMMA SumsGrow ==
  ASSUME NEW S, IsFiniteSet(S), NEW fun \in [S -> Nat], NEW h, Sums(h, fun, S)
  PROVE  \A t \in SUBSET S : \A s \in SUBSET t : h[s] <= h[t]
  <1> DEFINE B == {i \in Nat : \E t \in Smaller(S, i) : \E s \in SUBSET t : ~(h[s] <= h[t])}
  <1>1. ASSUME B # {} PROVE FALSE
    <2>1. PICK m \in B : \A i \in Nat : i < m => i \notin B
      <3> HIDE DEF B
      <3>1. B \in SUBSET Nat
        BY DEF B
      <3>2. QED
        BY <1>1, <3>1, LeastOfNaturals
    <2>2. PICK t \in Smaller(S, m) : \E s \in SUBSET t : ~(h[s] <= h[t])
      OBVIOUS
    <2>3. PICK s \in SUBSET t : ~(h[s] <= h[t])
      BY <2>2
    <2>4. t \in SUBSET S /\ h[s] \in Nat /\ h[t] \in Nat
      BY DEF Smaller, Sums
    <2>5. PICK x \in t : x \notin s
      BY <2>3, <2>4
    <2>6. t \ {x} \in Smaller(S, m - 1) /\ m - 1 \in Nat
      BY SmallerRemainders
    <2>7. m - 1 \notin B
      BY <2>1, <2>6
    <2>8. s \in SUBSET (t \ {x})
      BY <2>5
    <2>9. h[s] <= h[t \ {x}]
      BY <2>6, <2>7, <2>8
    <2>10. h[t] = fun[x] + h[t \ {x}]
      BY <2>4, SumsInAnyOrder
    <2>11. fun[x] \in Nat /\ h[t \ {x}] \in Nat
      BY <2>4 DEF Sums
    <2> HIDE DEF B
    <2>12. QED
      BY <2>3, <2>4, <2>9, <2>10, <2>11
  <1>2. ASSUME NEW t \in SUBSET S, NEW s \in SUBSET t
        PROVE  h[s] <= h[t]
    <2>1. Cardinality(t) \in Nat
      BY FS_Subset, FS_CardinalityType
    <2>2. t \in Smaller(S, Cardinality(t))
      BY <2>1 DEF Smaller
    <2>3. QED
      BY <1>1, <2>1, <2>2
  <1>3. QED
    BY <1>2

-----------------------------------------------------------------------------
(* The answers                                                             *)

Totals == [saved : Nat, avoided : Nat, purchased : Nat]

\* A summary has totals from its first query on and an answer from its second;
\* both are numbers the response can carry.
AnswerShape ==
  /\ DOMAIN totals = Summaries /\ DOMAIN shown = Summaries
  /\ touched \in [Summaries -> SUBSET ExampleIds]
  /\ \A s \in Summaries :
       /\ totals[s] = Null \/ totals[s] \in Totals
       /\ stage[s] \in {"aggregated", "done"} => totals[s] \in Totals
       /\ DOMAIN shown[s] \subseteq ExampleIds
       /\ \A x \in DOMAIN shown[s] : shown[s][x] \in [value : Values, tenths : Nat]

AnswerInv == AnswerShape /\ EquivalentsAreNearest

\* The aggregates over resolved entries are natural numbers.
LEMMA TotalsAreNaturals ==
  ASSUME Lifecycle!TypeOK, NEW C \in SUBSET Resolved
  PROVE  TotalsOf(C) \in Totals
  <1> DEFINE avoided == {e \in C : entries[e].status = "saved"}
             paid    == [e \in avoided |-> Price[entries[e].details]]
  <1>1. \A e \in C : e \in EntryIds /\ entries[e].details \in Details
    BY DEF Resolved, Lifecycle!Resolved, Lifecycle!TypeOK, Lifecycle!Entry
  <1>2. IsFiniteSet(avoided) /\ IsFiniteSet(C \ avoided)
    <2>1. avoided \subseteq EntryIds /\ C \ avoided \subseteq EntryIds
      BY <1>1
    <2>2. QED
      BY <2>1, EntryIdsAssumption, FS_Subset
  <1>3. paid \in [avoided -> Nat]
    BY <1>1, PriceAssumption
  <1>4. TotalsOf(C) = [saved |-> SumFunction(paid), avoided |-> Cardinality(avoided),
                       purchased |-> Cardinality(C \ avoided)]
    BY DEF TotalsOf
  <1> HIDE DEF avoided, paid
  <1>5. SumFunction(paid) \in Nat
    <2>1. PICK h : Sums(h, paid, avoided) /\ SumFunction(paid) = h[avoided]
      BY <1>2, <1>3, SumIsDefined
    <2>2. QED
      BY <2>1 DEF Sums
  <1>6. Cardinality(avoided) \in Nat /\ Cardinality(C \ avoided) \in Nat
    BY <1>2, FS_CardinalityType
  <1>7. QED
    BY <1>4, <1>5, <1>6 DEF Totals

\* What a resolved entry contributes: an avoided purchase adds its price and one to the
\* avoided ones, another adds one to the purchased ones, whatever else is counted and
\* in whatever order.
THEOREM EntriesCountOnce ==
  ASSUME Lifecycle!TypeOK, NEW C \in SUBSET Resolved, NEW e \in Resolved \ C
  PROVE  LET before == TotalsOf(C)
             after  == TotalsOf(C \cup {e})
         IN  IF entries[e].status = "saved"
               THEN /\ after.saved     = before.saved + Price[entries[e].details]
                    /\ after.avoided   = before.avoided + 1
                    /\ after.purchased = before.purchased
               ELSE /\ after.saved     = before.saved
                    /\ after.avoided   = before.avoided
                    /\ after.purchased = before.purchased + 1
  <1> DEFINE D       == C \cup {e}
             avoided == {x \in C : entries[x].status = "saved"}
             Paid(S) == [x \in S |-> Price[entries[x].details]]
             grown   == {x \in D : entries[x].status = "saved"}
  <1>1. \A x \in D : x \in EntryIds /\ entries[x].details \in Details
    BY DEF Resolved, Lifecycle!Resolved, Lifecycle!TypeOK, Lifecycle!Entry
  <1>2. \A S \in SUBSET D : IsFiniteSet(S) /\ Cardinality(S) \in Nat
    <2>1. IsFiniteSet(D)
      BY <1>1, EntryIdsAssumption, FS_Subset
    <2>2. QED
      BY <2>1, FS_Subset, FS_CardinalityType
  <1>3. TotalsOf(C) = [saved |-> SumFunction(Paid(avoided)),
                       avoided |-> Cardinality(avoided),
                       purchased |-> Cardinality(C \ avoided)]
    BY DEF TotalsOf
  <1>4. TotalsOf(D) = [saved |-> SumFunction(Paid(grown)),
                       avoided |-> Cardinality(grown),
                       purchased |-> Cardinality(D \ grown)]
    BY DEF TotalsOf
  <1>5. CASE entries[e].status = "saved"
    <2>1. grown = avoided \cup {e} /\ e \notin avoided /\ D \ grown = C \ avoided
      BY <1>5
    <2>2. avoided \in SUBSET D /\ grown \in SUBSET D /\ grown \ {e} = avoided
      BY <2>1
    <2>3. Paid(grown) \in [grown -> Nat]
      BY <1>1, PriceAssumption
    <2> DEFINE fun  == Paid(grown)
               less == [x \in grown \ {e} |-> fun[x]]
    <2>4. less = Paid(avoided) /\ fun[e] = Price[entries[e].details]
      BY <2>1, <2>2
    <2> HIDE DEF grown, avoided, Paid
    <2>5. SumFunction(Paid(grown)) = fun[e] + SumFunction(less)
      <3>1. fun \in [grown -> Nat] /\ IsFiniteSet(grown) /\ e \in grown
        BY <1>2, <2>1, <2>2, <2>3
      <3> HIDE DEF fun
      <3>2. SumFunction(fun) = fun[e] + SumFunction(less)
        BY <3>1, SumTakesOneOut
      <3>3. QED
        BY <3>2 DEF fun
    <2>6. SumFunction(Paid(avoided)) \in Nat /\ Price[entries[e].details] \in Nat
      <3>1. SumFunction(Paid(avoided)) = TotalsOf(C).saved
        BY <1>3
      <3>2. entries[e].details \in Details
        BY <1>1
      <3>3. QED
        BY <3>1, <3>2, TotalsAreNaturals, PriceAssumption DEF Totals
    <2>7. SumFunction(Paid(grown)) = SumFunction(Paid(avoided)) + Price[entries[e].details]
      BY <2>4, <2>5, <2>6
    <2>8. Cardinality(grown) = Cardinality(avoided) + 1
      BY <1>2, <2>1, <2>2, FS_AddElement
    <2> DEFINE p == Price[entries[e].details]
    <2> HIDE DEF p, D
    <2>9. TotalsOf(D) = [saved     |-> SumFunction(Paid(avoided)) + p,
                         avoided   |-> Cardinality(avoided) + 1,
                         purchased |-> Cardinality(C \ avoided)]
      BY <1>4, <2>1, <2>7, <2>8 DEF p
    <2>10. /\ TotalsOf(D).saved     = TotalsOf(C).saved + p
           /\ TotalsOf(D).avoided   = TotalsOf(C).avoided + 1
           /\ TotalsOf(D).purchased = TotalsOf(C).purchased
      BY <1>3, <2>9
    <2>11. QED
      BY <1>5, <2>10 DEF p, D
  <1>6. CASE entries[e].status # "saved"
    <2>1. grown = avoided /\ D \ grown = (C \ avoided) \cup {e} /\ e \notin C \ avoided
      BY <1>6
    <2>2. IsFiniteSet(C \ avoided)
      BY <1>2
    <2> HIDE DEF D, grown, avoided, Paid
    <2>3. Cardinality(D \ grown) = Cardinality(C \ avoided) + 1
      BY <2>1, <2>2, FS_AddElement
    <2>4. /\ TotalsOf(D).saved     = TotalsOf(C).saved
          /\ TotalsOf(D).avoided   = TotalsOf(C).avoided
          /\ TotalsOf(D).purchased = TotalsOf(C).purchased + 1
      BY <1>3, <1>4, <2>1, <2>3
    <2>5. QED
      BY <1>6, <2>4 DEF D
  <1>7. QED
    BY <1>5, <1>6

AtMost(few, many) ==
  /\ few.saved     <= many.saved
  /\ few.avoided   <= many.avoided
  /\ few.purchased <= many.purchased

\* The aggregates of more entries are at least as large.
LEMMA MoreEntriesTotalMore ==
  ASSUME Lifecycle!TypeOK, NEW D \in SUBSET Resolved, NEW C \in SUBSET D
  PROVE  AtMost(TotalsOf(C), TotalsOf(D))
  <1> DEFINE Avoided(S) == {x \in S : entries[x].status = "saved"}
             Paid(S)    == [x \in S |-> Price[entries[x].details]]
             all        == Avoided(D)
             some       == Avoided(C)
             paid       == Paid(all)
             less       == Paid(some)
  <1>1. \A x \in D : x \in EntryIds /\ entries[x].details \in Details
    BY DEF Resolved, Lifecycle!Resolved, Lifecycle!TypeOK, Lifecycle!Entry
  <1>2. IsFiniteSet(D)
    BY <1>1, EntryIdsAssumption, FS_Subset
  <1>3. some \in SUBSET all /\ all \in SUBSET D /\ C \ some \in SUBSET (D \ all)
    OBVIOUS
  <1>4. /\ IsFiniteSet(all) /\ IsFiniteSet(some) /\ IsFiniteSet(D \ all)
        /\ IsFiniteSet(C \ some)
    BY <1>2, <1>3, FS_Subset
  <1>5. Cardinality(some) <= Cardinality(all) /\ Cardinality(C \ some) <= Cardinality(D \ all)
    BY <1>3, <1>4, FS_Subset
  <1>6. /\ paid \in [all -> Nat] /\ less \in [some -> Nat]
        /\ \A x \in some : less[x] = paid[x]
    BY <1>1, PriceAssumption
  <1>7. /\ TotalsOf(D) = [saved |-> SumFunction(paid), avoided |-> Cardinality(all),
                          purchased |-> Cardinality(D \ all)]
        /\ TotalsOf(C) = [saved |-> SumFunction(less), avoided |-> Cardinality(some),
                          purchased |-> Cardinality(C \ some)]
    BY DEF TotalsOf
  <1> HIDE DEF paid, less, all, some
  <1>8. SumFunction(less) <= SumFunction(paid)
    <2>1. PICK h : Sums(h, paid, all) /\ SumFunction(paid) = h[all]
      BY <1>4, <1>6, SumIsDefined
    <2>2. PICK k : Sums(k, less, some) /\ SumFunction(less) = k[some]
      BY <1>4, <1>6, SumIsDefined
    <2>3. h[some] = k[some]
      <3>1. \A s \in SUBSET some : h[s] = k[s]
        <4>1. IsFiniteSet(all) /\ some \in SUBSET all
          BY <1>3, <1>4
        <4>2. \A x \in some : less[x] = paid[x]
          BY <1>6
        <4>3. Sums(h, paid, all) /\ Sums(k, less, some)
          BY <2>1, <2>2
        <4>4. QED
          BY <4>1, <4>2, <4>3, SumsAgree, SMTT(30)
      <3>2. QED
        BY <3>1
    <2>4. h[some] <= h[all]
      BY <1>3, <1>4, <1>6, <2>1, SumsGrow
    <2>5. QED
      BY <2>1, <2>2, <2>3, <2>4
  <1>9. QED
    BY <1>5, <1>7, <1>8 DEF AtMost

\* The ranges from the shortest to the longest.
RangeOrder == <<"this_month", "last_3_months", "last_6_months", "last_year", "all_time">>

\* Over one state of the table a user who widens the range never sees a smaller sum
\* or count, at whatever instant, clamped days included.
THEOREM WiderRangesTotalMore ==
  Spec => [](\A user \in Users, t \in DOMAIN Instants, i, j \in 1 .. 5 : i <= j =>
               AtMost(TotalsOf(Selected(user, RangeOrder[i], t)),
                      TotalsOf(Selected(user, RangeOrder[j], t))))
  <1>1. SummaryInv =>
          \A user \in Users, t \in DOMAIN Instants, i, j \in 1 .. 5 : i <= j =>
            AtMost(TotalsOf(Selected(user, RangeOrder[i], t)),
                   TotalsOf(Selected(user, RangeOrder[j], t)))
    <2> SUFFICES ASSUME SummaryInv, NEW user \in Users, NEW t \in DOMAIN Instants,
                        NEW i \in 1 .. 5, NEW j \in 1 .. 5, i <= j
                 PROVE  AtMost(TotalsOf(Selected(user, RangeOrder[i], t)),
                               TotalsOf(Selected(user, RangeOrder[j], t)))
      OBVIOUS
    <2>1. Instants[t] \in Instant /\ Valid(Instants[t])
      BY InstantsAssumption
    <2>2. ASSUME NEW e \in EntryIds, Lifecycle!Resolved(e)
          PROVE  LET In(range) == InInterval(Instants[entries[e].checked], range, Instants[t])
                 IN  /\ In("this_month") => In("last_3_months")
                     /\ In("last_3_months") => In("last_6_months")
                     /\ In("last_6_months") => In("last_year")
                     /\ In("last_year") => In("all_time")
      <3>1. Instants[entries[e].checked] \in Instant
        BY <2>2, InstantsAssumption DEF SummaryInv, CheckInsAreInstants
      <3>2. QED
        BY <2>1, <3>1, RangesAreNested
    <2> DEFINE S(range) == Selected(user, range, t)
    <2>3. /\ S("this_month") \subseteq S("last_3_months")
          /\ S("last_3_months") \subseteq S("last_6_months")
          /\ S("last_6_months") \subseteq S("last_year")
          /\ S("last_year") \subseteq S("all_time")
      BY <2>2 DEF Selected, Resolved
    <2>4. \A range : S(range) \subseteq Resolved
      BY DEF Selected
    <2> HIDE DEF S
    <2>5. S(RangeOrder[i]) \subseteq S(RangeOrder[j])
      <3>1. /\ RangeOrder[1] = "this_month" /\ RangeOrder[2] = "last_3_months"
            /\ RangeOrder[3] = "last_6_months" /\ RangeOrder[4] = "last_year"
            /\ RangeOrder[5] = "all_time"
        BY DEF RangeOrder
      <3>2. i \in {1, 2, 3, 4, 5} /\ j \in {1, 2, 3, 4, 5} /\ i <= j
        OBVIOUS
      <3> HIDE DEF RangeOrder
      <3>3. QED
        BY <2>3, <3>1, <3>2
    <2>6. AtMost(TotalsOf(S(RangeOrder[i])), TotalsOf(S(RangeOrder[j])))
      BY <2>4, <2>5, MoreEntriesTotalMore DEF SummaryInv
    <2>7. QED
      BY <2>6 DEF S
  <1>2. QED
    BY <1>1, SummaryInvariance, PTL

\* The equivalents of a natural total are rounded as EquivalentIsNearest says.
LEMMA EquivalentsShape ==
  ASSUME ExamplesTypeOK, NEW user, NEW total \in Nat
  PROVE  /\ DOMAIN EquivalentsOf(user, total) \subseteq ExampleIds
         /\ \A x \in DOMAIN EquivalentsOf(user, total) :
              LET answer  == EquivalentsOf(user, total)[x]
                  product == answer.tenths * answer.value
              IN  /\ answer \in [value : Values, tenths : Nat]
                  /\ 2 * (product - 10 * total) <= answer.value
                  /\ 2 * (10 * total - product) < answer.value
  <1>1. DOMAIN EquivalentsOf(user, total) = ExamplesOf(user)
    BY DEF EquivalentsOf
  <1>2. ASSUME NEW x \in ExamplesOf(user)
        PROVE  LET answer  == EquivalentsOf(user, total)[x]
                   product == answer.tenths * answer.value
               IN  /\ answer \in [value : Values, tenths : Nat]
                   /\ 2 * (product - 10 * total) <= answer.value
                   /\ 2 * (10 * total - product) < answer.value
    <2> DEFINE value == examples[x].value
    <2>1. value \in Values /\ value \in Nat \ {0}
      BY ValuesAssumption DEF ExamplesOf, ExamplesTypeOK, Example
    <2>2. EquivalentsOf(user, total)[x] = [value |-> value, tenths |-> Equivalent(total, value)]
      BY DEF EquivalentsOf
    <2> HIDE DEF value
    <2>3. QED
      BY <2>1, <2>2, EquivalentIsNearest
  <1>3. QED
    BY <1>1, <1>2 DEF ExamplesOf

\* A step of one summary changes nothing that an answer rests on, but for its own
\* two queries.
LEMMA AnswerStep ==
  ASSUME SummaryInv, ExamplesTypeOK, AnswerInv, [Next]_vars
  PROVE  AnswerInv'
  <1> USE DEF AnswerInv, AnswerShape
  <1>1. stage \in [Summaries -> Stages]
    BY DEF SummaryInv, SummaryShape
  <1>2. CASE \E s \in Summaries : BeginSummary(s) \/ ReadSummaryClock(s)
    <2>1. PICK s \in Summaries : BeginSummary(s) \/ ReadSummaryClock(s)
      BY <1>2
    <2>2. /\ UNCHANGED <<totals, shown, touched>>
          /\ \E t \in {"begin", "ready"} : stage' = [stage EXCEPT ![s] = t]
      BY <2>1 DEF BeginSummary, ReadSummaryClock
    <2>3. \A x \in Summaries : stage'[x] \in {"aggregated", "done"} => stage'[x] = stage[x]
      BY <1>1, <2>2
    <2>4. AnswerShape'
      BY <2>2, <2>3
    <2>5. EquivalentsAreNearest'
      BY <2>2, <2>3 DEF EquivalentsAreNearest
    <2>6. QED
      BY <2>4, <2>5
  <1>3. CASE \E s \in Summaries : AggregateStatistics(s)
    <2>1. PICK s \in Summaries : AggregateStatistics(s)
      BY <1>3
    <2> DEFINE C == Selected(asked[s].user, asked[s].range, now[s])
    <2>2. /\ stage' = [stage EXCEPT ![s] = "aggregated"]
          /\ totals' = [totals EXCEPT ![s] = TotalsOf(C)]
          /\ UNCHANGED <<shown, touched>>
      BY <2>1 DEF AggregateStatistics
    <2>3. TotalsOf(C) \in Totals
      <3>1. C \in SUBSET Resolved
        BY DEF Selected
      <3> HIDE DEF C
      <3>2. QED
        BY <3>1, TotalsAreNaturals DEF SummaryInv
    <2> HIDE DEF C
    <2>4. totals'[s] \in Totals /\ stage'[s] = "aggregated"
      BY <1>1, <2>2, <2>3
    <2>5. \A x \in Summaries \ {s} : totals'[x] = totals[x] /\ stage'[x] = stage[x]
      BY <1>1, <2>2
    <2>6. AnswerShape'
      BY <2>2, <2>4, <2>5
    <2>7. EquivalentsAreNearest'
      BY <2>2, <2>4, <2>5 DEF EquivalentsAreNearest
    <2>8. QED
      BY <2>6, <2>7
  <1>4. CASE \E s \in Summaries : ListSummaryExamples(s)
    <2>1. PICK s \in Summaries : ListSummaryExamples(s)
      BY <1>4
    <2> DEFINE answer == EquivalentsOf(asked[s].user, totals[s].saved)
    <2>2. /\ stage[s] = "aggregated"
          /\ stage' = [stage EXCEPT ![s] = "done"]
          /\ shown' = [shown EXCEPT ![s] = answer]
          /\ UNCHANGED <<totals, touched>>
      BY <2>1 DEF ListSummaryExamples
    <2>3. totals[s] \in Totals /\ totals[s].saved \in Nat
      BY <2>2 DEF Totals
    <2>4. /\ DOMAIN answer \subseteq ExampleIds
          /\ \A x \in DOMAIN answer :
               LET product == answer[x].tenths * answer[x].value
               IN  /\ answer[x] \in [value : Values, tenths : Nat]
                   /\ 2 * (product - 10 * totals[s].saved) <= answer[x].value
                   /\ 2 * (10 * totals[s].saved - product) < answer[x].value
      BY <2>3, EquivalentsShape
    <2> HIDE DEF answer
    <2>5. shown'[s] = answer /\ stage'[s] = "done"
      BY <1>1, <2>2
    <2>6. \A x \in Summaries \ {s} : shown'[x] = shown[x] /\ stage'[x] = stage[x]
      BY <1>1, <2>2
    <2>7. AnswerShape'
      BY <2>2, <2>3, <2>4, <2>5, <2>6
    <2>8. EquivalentsAreNearest'
      BY <2>2, <2>4, <2>5, <2>6 DEF EquivalentsAreNearest
    <2>9. QED
      BY <2>7, <2>8
  <1>5. CASE \E s \in Summaries : EndSummary(s)
    <2>1. PICK s \in Summaries : EndSummary(s)
      BY <1>5
    <2>2. /\ stage' = [stage EXCEPT ![s] = "idle"]
          /\ totals' = [totals EXCEPT ![s] = Null]
          /\ shown' = [shown EXCEPT ![s] = NothingShown]
          /\ touched' = [touched EXCEPT ![s] = {}]
      BY <2>1 DEF EndSummary
    <2>3. totals'[s] = Null /\ stage'[s] = "idle" /\ DOMAIN shown'[s] = {}
      BY <1>1, <2>2 DEF NothingShown
    <2>4. \A x \in Summaries \ {s} :
            totals'[x] = totals[x] /\ shown'[x] = shown[x] /\ stage'[x] = stage[x]
      BY <1>1, <2>2
    <2>5. AnswerShape'
      BY <2>2, <2>3, <2>4
    <2>6. EquivalentsAreNearest'
      BY <2>3, <2>4 DEF EquivalentsAreNearest
    <2>7. QED
      BY <2>5, <2>6
  <1>6. CASE ChangeExamples
    <2>1. UNCHANGED <<stage, totals, shown>>
      BY <1>6 DEF ChangeExamples
    <2>2. touched' \in [Summaries -> SUBSET ExampleIds]
      BY <1>6 DEF ChangeExamples
    <2>3. AnswerShape'
      BY <2>1, <2>2
    <2>4. EquivalentsAreNearest'
      BY <2>1 DEF EquivalentsAreNearest
    <2>5. QED
      BY <2>3, <2>4
  <1>7. CASE (\E e \in EntryIds : ChangeEntry(e)) \/ Tick \/ UNCHANGED vars
    <2>1. UNCHANGED <<stage, totals, shown, touched>>
      BY <1>7 DEF ChangeEntry, Tick, vars, summaryVars
    <2>2. QED
      BY <2>1 DEF EquivalentsAreNearest
  <1>8. QED
    BY <1>2, <1>3, <1>4, <1>5, <1>6, <1>7 DEF Next

\* Every answer keeps its shape and its rounding.
LEMMA AnswerInvariance == Spec => []AnswerInv
  <1>1. Init => AnswerInv
    BY DEF Init, AnswerInv, AnswerShape, EquivalentsAreNearest, NothingShown
  <1>2. QED
    BY <1>1, AnswerStep, SummaryInvariance, CompositionRunsExamples, ExamplesTypeCorrect,
       PTL DEF Spec

\* The variables of a summary, of the entries and of the examples keep their types:
\* the totals of any set of rows are natural numbers.
THEOREM SummariesTypeCorrect == Spec => []TypeOK
  <1>1. SummaryInv /\ ExamplesTypeOK /\ AnswerInv => TypeOK
    BY DEF SummaryInv, SummaryShape, AnswerInv, AnswerShape, Totals, TypeOK
  <1>2. QED
    BY <1>1, SummaryInvariance, CompositionRunsExamples, ExamplesTypeCorrect,
       AnswerInvariance, PTL

\* Every equivalent of an answer is the multiple of a tenth nearest to the answer's
\* own total over the example's value, whatever changes between the two queries.
THEOREM AnswersAreNearest == Spec => []EquivalentsAreNearest
  <1>1. AnswerInv => EquivalentsAreNearest
    BY DEF AnswerInv
  <1>2. QED
    BY <1>1, AnswerInvariance, PTL
=============================================================================
