SPECIFICATION Spec
CONSTANTS
  Users = {u1, u2}
  EntryIds = {e1}
  Requests = {r1, r2}
  Details = {d1, d2}
  Comments = {c1}
  WaitPeriod = 1
  MaxClock = 2
  ClockMayStepBack = FALSE
  Null = Null
SYMMETRY Symmetry
INVARIANTS
  TypeOK
  LockedCopyIsCurrent
  ConfirmedCheckInIsDurable
  SingleCheckInWinner
  RefusalsStayTrue
  NoWaitCycle
  InvitationIsHonoured
PROPERTIES
  ImplementsLifecycle
