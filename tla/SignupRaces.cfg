SPECIFICATION FairSpec
CONSTANTS
  Emails = {e1, e2}
  Passwords = {p1, p2}
  Tokens = {t1, t2}
  Requests = {r1, r2}
  SessionTtl = 2
  LastUsedWriteInterval = 1
  MaxTokenGenerationAttempts = 2
  MaxClock = 0
  Operations = {"signup", "login", "logout"}
  Null = Null
INVARIANTS
  OneAccountPerEmail
  CookieOpensOwnAccount
PROPERTIES
  ImplementsAccounts
  EveryRequestIsAnswered
\* A behaviour ends when the bounded supply of tokens is used up.
CHECK_DEADLOCK FALSE
