--------------------------- MODULE EntryLifecycle ---------------------------
(***************************************************************************)
(* What the entry API promises its users, with every operation one step.   *)
(*                                                                         *)
(* An entry is created waiting, its details may be edited or the entry     *)
(* deleted while it waits, it is resolved once - never before the wait is  *)
(* over - as saved or purchased, and from then on it is history: only its  *)
(* comment may change.  EntryService shows that the request handlers,      *)
(* with their row locks, refusals and failures, implement this.            *)
(***************************************************************************)
EXTENDS Naturals

CONSTANTS
  Users,        \* accounts
  EntryIds,     \* primary keys; uuid4 never repeats one
  Details,      \* (item_name, price_cents, reason_wanted) triples
  Comments,     \* normalized, non-blank comments
  Time,         \* instants
  WaitPeriod,   \* ENTRY_WAIT_PERIOD, in clock ticks
  Null

VARIABLES
  entries,      \* [EntryIds -> Entry \cup {Null}]: the entries that exist
  deleted       \* the ids of entries that existed and were deleted

vars == <<entries, deleted>>

Outcomes == {"saved", "purchased"}

Entry == [owner   : Users,
          details : Details,
          status  : {"waiting"} \cup Outcomes,
          comment : Comments \cup {Null},
          created : Time,
          checked : Time \cup {Null}]

TypeOK ==
  /\ entries \in [EntryIds -> Entry \cup {Null}]
  /\ deleted \in SUBSET EntryIds

-----------------------------------------------------------------------------

Waiting(e)  == entries[e] # Null /\ entries[e].status = "waiting"
Resolved(e) == entries[e] # Null /\ entries[e].status \in Outcomes

Create(e) ==
  /\ entries[e] = Null
  /\ e \notin deleted
  /\ \E u \in Users, d \in Details, t \in Time :
       entries' = [entries EXCEPT ![e] =
                     [owner   |-> u, details |-> d, status  |-> "waiting",
                      comment |-> Null, created |-> t, checked |-> Null]]
  /\ UNCHANGED deleted

Edit(e) ==
  /\ Waiting(e)
  /\ \E d \in Details : entries' = [entries EXCEPT ![e].details = d]
  /\ UNCHANGED deleted

Delete(e) ==
  /\ Waiting(e)
  /\ entries' = [entries EXCEPT ![e] = Null]
  /\ deleted' = deleted \cup {e}

Resolve(e) ==
  /\ Waiting(e)
  /\ \E o \in Outcomes, c \in Comments \cup {Null}, t \in Time :
       /\ t >= entries[e].created + WaitPeriod
       /\ entries' = [entries EXCEPT ![e].status  = o,
                                     ![e].comment = c,
                                     ![e].checked = t]
  /\ UNCHANGED deleted

Reflect(e) ==
  /\ Resolved(e)
  /\ \E c \in Comments \cup {Null} :
       entries' = [entries EXCEPT ![e].comment = c]
  /\ UNCHANGED deleted

Init ==
  /\ entries = [e \in EntryIds |-> Null]
  /\ deleted = {}

Next ==
  \E e \in EntryIds :
    Create(e) \/ Edit(e) \/ Delete(e) \/ Resolve(e) \/ Reflect(e)

Spec == Init /\ [][Next]_vars
=============================================================================
