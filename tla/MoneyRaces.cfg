SPECIFICATION Spec
CONSTANTS
  u1 = u1
  u2 = u2
  d1 = d1
  Users = {u1, u2}
  ExampleIds = {x1}
  Requests = {r1, r2}
  Labels = {coffee}
  Values = {3, 100}
  EntryIds = {e1}
  Details = {d1}
  Price <- MCPrice
  Instants <- MCInstants
  MaxTick = 1
  CommitDelay = 1
  Summaries = {s1}
  MaxInFlight = 2
  Null = Null
SYMMETRY Symmetry
INVARIANTS
  TypeOK
  RefusalsStayTrue
  NoWaitCycle
  SummaryIsExact
  EquivalentsAreNearest
  ShownExamplesAreCurrent
PROPERTIES
  UpdatesAreWhole
