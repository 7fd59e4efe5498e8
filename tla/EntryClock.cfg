SPECIFICATION FairSpec
CONSTANTS
  Users = {u1}
  EntryIds = {e1}
  Requests = {r1, r2}
  Details = {d1}
  Comments = {}
  WaitPeriod = 1
  MaxClock = 1
  ClockMayStepBack = TRUE
  Null = Null
INVARIANTS
  NoEarlyResolution
  StagedWriteIsAccepted
PROPERTIES
  ResolvedIsHistory
  EveryRequestIsAnswered
