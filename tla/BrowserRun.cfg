SPECIFICATION FairSpec
CONSTANTS
  RunIds = {a, b}
  Specs = {s1}
  Phases = {"none", "smoke"}
  MaxRuns = 2
  CommandStatus = 2
  MaxSignals = 1
  Null = Null
INVARIANTS
  TypeOK
  RunLeavesNothing
  ExitTellsTheTruth
PROPERTIES
  OnlyOwnRowsChange
  EveryRunEnds
CHECK_DEADLOCK FALSE
