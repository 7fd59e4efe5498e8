SPECIFICATION Spec
CONSTANTS
  RunIds = {a}
  Specs = {s1}
  Phases = {"none"}
  MaxRuns = 1
  CommandStatus = 2
  MaxSignals = 1
  Null = Null
INVARIANTS
  AlwaysStopsChildren
CHECK_DEADLOCK FALSE
