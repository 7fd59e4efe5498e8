SPECIFICATION Spec
CONSTANTS
  Emails = {e1}
  Passwords = {p1}
  Tokens = {t1}
  Requests = {r1, r2}
  SessionTtl = 5
  LastUsedWriteInterval = 2
  MaxTokenGenerationAttempts = 2
  MaxClock = 3
  Operations = {"login", "me"}
  Null = Null
PROPERTIES
  LastUsedIsThrottled
