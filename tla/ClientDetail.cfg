SPECIFICATION Spec
CONSTANTS
  Users = {u1}
  EntryOwner = u1
  Changes = {c1}
  Kinds = {"create", "update", "delete", "checkIn", "comment", "example"}
  Keys = {"dashboard", "detail", "stats", "examples"}
  Pages = {"login", "dashboard", "new", "entry", "settings"}
  MaxSessions = 1
  Guest = Guest
  Unknown = Unknown
INVARIANTS
  AnsweredChangeReachesEveryView
