SPECIFICATION Spec
CONSTANTS
  Emails = {e1}
  Passwords = {p1}
  Tokens = {t1}
  Requests = {r1, r2, r3}
  SessionTtl = 3
  LastUsedWriteInterval = 2
  MaxTokenGenerationAttempts = 2
  MaxClock = 5
  Operations = {"login", "me", "logout"}
  Null = Null
SYMMETRY Symmetry
INVARIANTS
  TypeOK
  RefusedStaysRefused
  SessionTimesAreSane
