SPECIFICATION Spec
CONSTANTS
  Users = {u1}
  EntryOwner = u1
  Changes = {c1}
  Kinds = {"update", "delete", "checkIn"}
  Keys = {"detail", "stats"}
  Pages = {"login", "dashboard", "entry"}
  MaxSessions = 2
  Guest = Guest
  Unknown = Unknown
INVARIANTS
  TypeOK
  AnsweredChangeIsShown
  EndedSessionIsForgotten
  SignedOutStaysOut
