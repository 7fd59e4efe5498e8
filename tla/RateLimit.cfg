SPECIFICATION FairSpec
CONSTANTS
  Addresses = {i1}
  Accounts = {a1}
  Attempts = {x1, x2}
  AddressLimit = 1
  AccountLimit = 1
  Second = 2
  WindowSeconds = 1
  Retention = 1
  Lag = 1
  MaxClock = 3
  OpenEnds <- MCOpenEnds
  Null = Null
INVARIANTS
  TypeOK
  AdmittedWithinLimits
  RetryAfterIsHonest
PROPERTIES
  ImplementsFixedWindow
  EveryAttemptIsAnswered
\* The attempts of a behaviour are used up.
CHECK_DEADLOCK FALSE
