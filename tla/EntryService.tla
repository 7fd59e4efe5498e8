---------------------------- MODULE EntryService ----------------------------
(***************************************************************************)
(* The entry API: concurrent HTTP requests against one PostgreSQL table.   *)
(*                                                                         *)
(* Each member of Requests is a slot in which the server handles one       *)
(* request at a time.  A handler runs until its next await as one step;    *)
(* between steps the other requests run, the clock moves and connections   *)
(* fail.  The database is READ COMMITTED: a plain SELECT sees the rows     *)
(* committed when it runs, SELECT ... FOR UPDATE waits for the row's lock  *)
(* and then returns the row as it is at that moment, and a lock is held    *)
(* until its transaction ends.                                             *)
(***************************************************************************)
EXTENDS Naturals

CONSTANTS
  Users,             \* accounts
  EntryIds,          \* the uuids the model can issue; each is issued once
  Requests,          \* request slots
  Details,           \* (item_name, price_cents, reason_wanted) triples
  Comments,          \* normalized, non-blank comments
  WaitPeriod,        \* ENTRY_WAIT_PERIOD in clock ticks
  MaxClock,          \* bound: the clock stops here
  ClockMayStepBack,  \* whether the wall clock may be set back
  Null

ASSUME WaitPeriodAssumption == WaitPeriod \in Nat \ {0}
ASSUME ClockAssumption      == MaxClock \in Nat /\ ClockMayStepBack \in BOOLEAN

VARIABLES
  table,    \* impulse_purchase_entries: the committed row of each id, or Null
  born,     \* ids that have been the key of a committed row (history)
  locks,    \* the request whose transaction holds the row's lock, or Null
  clock,    \* what SystemClock.now() returns
  pc,       \* where each request's handler is
  req,      \* the validated request each slot is handling
  mem,      \* the ORM entity the handler holds, or Null
  now,      \* the handler's reading of the clock, or Null
  reply,    \* what the client was last told
  invited,  \* ids some response showed as needs_check_in (history)
  heard     \* whether the request's entry was invited when it was sent

db      == <<table, born, locks>>
history == <<invited, heard>>
vars    == <<table, born, locks, clock, pc, req, mem, now, reply, invited, heard>>

-----------------------------------------------------------------------------
(* Data                                                                    *)

Time     == 0 .. MaxClock
Outcomes == {"saved", "purchased"}
Statuses == {"waiting"} \cup Outcomes

Row == [owner   : Users,
        details : Details,
        status  : Statuses,
        comment : Comments \cup {Null},
        created : Time,
        checked : Time \cup {Null},
        updated : Time]

\* What the abstract lifecycle sees of a row: all but its bookkeeping updated_at.
Summary == [owner   : Users,
            details : Details,
            status  : Statuses,
            comment : Comments \cup {Null},
            created : Time,
            checked : Time \cup {Null}]

EditOps    == {"update", "delete", "check_in", "comment"}
TargetOps  == EditOps \cup {"detail"}

\* Request payloads, as the schemas leave them after validation.  The id of a
\* create is the uuid4 its handler will generate.
CreateForm  == [op : {"create"}, user : Users, id : EntryIds, details : Details]
ListForm    == [op : {"list"}, user : Users]
UpdateForm  == [op : {"update"}, user : Users, id : EntryIds, details : Details]
PlainForm   == [op : {"detail", "delete"}, user : Users, id : EntryIds]
CheckInForm == [op : {"check_in"}, user : Users, id : EntryIds,
                result : Outcomes, comment : Comments \cup {Null}]
CommentForm == [op : {"comment"}, user : Users, id : EntryIds,
                comment : Comments \cup {Null}]
TargetForm  == UpdateForm \cup PlainForm \cup CheckInForm \cup CommentForm
Form        == CreateForm \cup ListForm \cup TargetForm

\* Null stands for SQL's NULL, Python's None and a free lock: a value of its own.
ASSUME NullAssumption ==
  Null \notin Nat \cup Comments \cup Requests \cup EntryIds
             \cup Row \cup Summary \cup Form

Places  == {"idle", "begin", "missed", "read", "listing", "held", "staged",
            "committed", "done"}
Replies == {"none", "ok", "forbidden", "not_found", "invalid_entry_status",
            "early_check_in", "error"}

TypeOK ==
  /\ table \in [EntryIds -> Row \cup {Null}]
  /\ born \in SUBSET EntryIds
  /\ locks \in [EntryIds -> Requests \cup {Null}]
  /\ clock \in Time
  /\ pc \in [Requests -> Places]
  /\ req \in [Requests -> Form \cup {Null}]
  /\ mem \in [Requests -> Row \cup {Null}]
  /\ now \in [Requests -> Time \cup {Null}]
  /\ reply \in [Requests -> Replies]
  /\ invited \in SUBSET EntryIds
  /\ heard \in [Requests -> BOOLEAN]

-----------------------------------------------------------------------------
(* Rows and their rules                                                    *)

\* Mutant: the INSERT leaves updated_at to a default the column does not have.
NewRowWithoutUpdatedAt(f, t) ==
  [owner   |-> f.user, details |-> f.details, status  |-> "waiting",
   comment |-> Null,   created |-> t,         checked |-> Null, updated |-> Null]

\* add_entry's row.
NewRow(f, t) ==
  [owner   |-> f.user, details |-> f.details, status  |-> "waiting",
   comment |-> Null,   created |-> t,         checked |-> Null, updated |-> t]

\* The table's CHECK constraints on the lifecycle and the timestamps.
SatisfiesChecks(row) ==
  /\ (row.status = "waiting") <=> (row.checked = Null)
  /\ row.checked # Null => row.checked >= row.created
  /\ row.updated >= row.created

\* Mutant: deletes skip the status check.
StatusAllowsAnyDelete(op, status) ==
  CASE op = "comment" -> status \in Outcomes
    [] op = "delete"  -> TRUE
    [] OTHER          -> status = "waiting"

\* Mutant: a check-in may repeat a check-in.
StatusAllowsRecheck(op, status) ==
  CASE op = "comment"  -> status \in Outcomes
    [] op = "check_in" -> TRUE
    [] OTHER           -> status = "waiting"

\* Which stored statuses a mutation accepts.
StatusAllows(op, status) ==
  IF op = "comment" THEN status \in Outcomes ELSE status = "waiting"

\* Mutant: the wait is rounded down to the last tick.
TooEarlyRoundedDown(row, t) == t + 1 < row.created + WaitPeriod

\* Mutant: the service trusts the client's countdown.
NeverTooEarly(row, t) == FALSE

TooEarly(row, t) == t < row.created + WaitPeriod

\* Mutant: the dashboard shows an entry as eligible one tick ahead.
BucketAhead(row, t) ==
  CASE row.status \in Outcomes              -> row.status
    [] row.created + WaitPeriod <= t + 1    -> "needs_check_in"
    [] OTHER                                -> "waiting"

\* dashboard_bucket_for
Bucket(row, t) ==
  CASE row.status \in Outcomes           -> row.status
    [] row.created + WaitPeriod <= t     -> "needs_check_in"
    [] OTHER                             -> "waiting"

\* Mutant: editing a comment also stamps checked_in_at.
AssignedWithNewCheckIn(f, row, t) ==
  CASE f.op = "update"   -> [row EXCEPT !.details = f.details, !.updated = t]
    [] f.op = "check_in" -> [row EXCEPT !.status  = f.result,  !.comment = f.comment,
                                        !.checked = t,         !.updated = t]
    [] f.op = "comment"  -> [row EXCEPT !.comment = f.comment, !.checked = t,
                                        !.updated = t]
    [] OTHER             -> row

\* The columns the handler of form f assigns at time t, over `row`.
Assigned(f, row, t) ==
  CASE f.op = "update"   -> [row EXCEPT !.details = f.details, !.updated = t]
    [] f.op = "check_in" -> [row EXCEPT !.status  = f.result,  !.comment = f.comment,
                                        !.checked = t,         !.updated = t]
    [] f.op = "comment"  -> [row EXCEPT !.comment = f.comment, !.updated = t]
    [] OTHER             -> row

Owned(r) == /\ table[req[r].id] # Null
            /\ table[req[r].id].owner = req[r].user

At(r, place, ops) == pc[r] = place /\ req[r].op \in ops

Goto(r, place) == pc' = [pc EXCEPT ![r] = place]

Read(r, row) == mem' = [mem EXCEPT ![r] = row]

ReadClock(r) == now' = [now EXCEPT ![r] = clock]

\* The transaction of r ends: COMMIT and ROLLBACK both release its locks.
EndTransaction(r) ==
  locks' = [e \in EntryIds |-> IF locks[e] = r THEN Null ELSE locks[e]]

Answer(r, answer) ==
  /\ Goto(r, "done")
  /\ reply' = [reply EXCEPT ![r] = answer]

\* Mutant: the handler raises without rolling back.
FailWithoutRollback(r, answer) ==
  /\ Answer(r, answer)
  /\ mem' = [mem EXCEPT ![r] = Null]
  /\ now' = [now EXCEPT ![r] = Null]
  /\ UNCHANGED <<table, born, locks, clock, req, history>>

\* Raising in the handler: roll back, send the error.
Fail(r, answer) ==
  /\ Answer(r, answer)
  /\ EndTransaction(r)
  /\ mem' = [mem EXCEPT ![r] = Null]
  /\ now' = [now EXCEPT ![r] = Null]
  /\ UNCHANGED <<table, born, clock, req, history>>

-----------------------------------------------------------------------------
(* A request arrives                                                       *)

Unissued == EntryIds \ (born \cup {req[s].id : s \in {t \in Requests :
                                     At(t, "begin", {"create"})
                                     \/ At(t, "staged", {"create"})}})

\* A client names only ids some response has shown it; uuid4 names a fresh one.
Admissible(f) ==
  CASE f.op = "create"     -> f.id \in Unissued
    [] f.op \in TargetOps  -> f.id \in born
    [] OTHER               -> TRUE

Begin(r) ==
  /\ pc[r] \in {"idle", "done"}
  /\ \E f \in Form :
       /\ Admissible(f)
       /\ req' = [req EXCEPT ![r] = f]
       /\ heard' = [heard EXCEPT ![r] = f.op = "check_in" /\ f.id \in invited]
  /\ Goto(r, "begin")
  /\ mem' = [mem EXCEPT ![r] = Null]
  /\ reply' = [reply EXCEPT ![r] = "none"]
  /\ UNCHANGED <<db, clock, now, invited>>

-----------------------------------------------------------------------------
(* Mutations                                                               *)

\* create_entry up to its commit
StageCreate(r) ==
  /\ At(r, "begin", {"create"})
  /\ ReadClock(r)
  /\ Read(r, NewRow(req[r], clock))
  /\ Goto(r, "staged")
  /\ UNCHANGED <<db, clock, req, reply, history>>

\* Mutant: a plain SELECT, without FOR UPDATE.
GetEntryWithoutLock(r) ==
  /\ At(r, "begin", EditOps)
  /\ Owned(r)
  /\ Read(r, table[req[r].id])
  /\ Goto(r, "held")
  /\ UNCHANGED <<db, clock, req, now, reply, history>>

\* get_entry_for_update: wait for the lock of an owned row, take it, read the row.
GetEntryForUpdate(r) ==
  /\ At(r, "begin", EditOps)
  /\ Owned(r)
  /\ locks[req[r].id] = Null
  /\ locks' = [locks EXCEPT ![req[r].id] = r]
  /\ Read(r, table[req[r].id])
  /\ Goto(r, "held")
  /\ UNCHANGED <<table, born, clock, req, now, reply, history>>

\* Mutant: FOR UPDATE SKIP LOCKED - a locked row looks missing.
MissLockedEntry(r) ==
  /\ At(r, "begin", TargetOps)
  /\ Owned(r) => req[r].op \in EditOps /\ locks[req[r].id] # Null
  /\ Goto(r, "missed")
  /\ UNCHANGED <<db, clock, req, mem, now, reply, history>>

\* The owned lookup, locking or not, finds no row.
MissEntry(r) ==
  /\ At(r, "begin", TargetOps)
  /\ ~Owned(r)
  /\ Goto(r, "missed")
  /\ UNCHANGED <<db, clock, req, mem, now, reply, history>>

\* _raise_entry_access_error: a second query tells 403 from 404.
RaiseEntryAccessError(r) ==
  /\ At(r, "missed", TargetOps)
  /\ Fail(r, IF table[req[r].id] # Null THEN "forbidden" ELSE "not_found")

RefuseStatus(r) ==
  /\ At(r, "held", EditOps)
  /\ ~StatusAllows(req[r].op, mem[r].status)
  /\ Fail(r, "invalid_entry_status")

RefuseEarly(r) ==
  /\ At(r, "held", {"check_in"})
  /\ StatusAllows("check_in", mem[r].status)
  /\ TooEarly(mem[r], clock)
  /\ Fail(r, "early_check_in")

\* The checks pass: read the clock and assign the entity's columns.
StageChange(r) ==
  /\ At(r, "held", EditOps)
  /\ StatusAllows(req[r].op, mem[r].status)
  /\ req[r].op = "check_in" => ~TooEarly(mem[r], clock)
  /\ ReadClock(r)
  /\ Read(r, Assigned(req[r], mem[r], clock))
  /\ Goto(r, "staged")
  /\ UNCHANGED <<db, clock, req, reply, history>>

\* The row the flush writes: a new one, none, or the stored one with the
\* assigned columns.
Flushed(r) ==
  CASE req[r].op = "create" -> mem[r]
    [] req[r].op = "delete" -> Null
    [] OTHER -> Assigned(req[r], table[req[r].id], now[r])

\* INSERT needs a free key, UPDATE its row, and a written row the checks; a DELETE
\* that matches no row is only a warning.
Flushable(r) ==
  CASE req[r].op = "create" -> table[req[r].id] = Null /\ SatisfiesChecks(Flushed(r))
    [] req[r].op = "delete" -> TRUE
    [] OTHER -> table[req[r].id] # Null /\ SatisfiesChecks(Flushed(r))

\* Flush and commit succeed.
Commit(r) ==
  /\ At(r, "staged", EditOps \cup {"create"})
  /\ Flushable(r)
  /\ table' = [table EXCEPT ![req[r].id] = Flushed(r)]
  /\ born' = born \cup {req[r].id}
  /\ EndTransaction(r)
  /\ Goto(r, "committed")
  /\ UNCHANGED <<clock, req, mem, now, reply, history>>

\* The database refuses the flush: IntegrityError, rollback, 500.
RefuseFlush(r) ==
  /\ At(r, "staged", EditOps \cup {"create"})
  /\ ~Flushable(r)
  /\ Fail(r, "error")

\* The client learns which bucket an entry was in when the handler read the clock.
Show(rows) ==
  invited' = invited \cup {e \in DOMAIN rows : rows[e] = "needs_check_in"}

\* The answer to a committed mutation, built from the entity and the same clock
\* reading; a delete has no body.
Respond(r) ==
  /\ pc[r] = "committed"
  /\ Answer(r, "ok")
  /\ IF req[r].op = "delete"
       THEN UNCHANGED invited
       ELSE Show([e \in {req[r].id} |-> Bucket(mem[r], now[r])])
  /\ now' = [now EXCEPT ![r] = Null]
  /\ UNCHANGED <<db, clock, req, mem, heard>>

\* The commit happened, but its acknowledgement or the response is lost.
LoseAnswer(r) ==
  /\ pc[r] = "committed"
  /\ Fail(r, "error")

\* Any exception before the commit: connection lost, statement failed, cancelled.
Abort(r) ==
  /\ pc[r] \in {"begin", "missed", "read", "listing", "held", "staged"}
  /\ Fail(r, "error")

-----------------------------------------------------------------------------
(* Reads                                                                   *)

\* get_entry_by_id finds the row; no lock.
GetEntryById(r) ==
  /\ At(r, "begin", {"detail"})
  /\ Owned(r)
  /\ Read(r, table[req[r].id])
  /\ Goto(r, "read")
  /\ UNCHANGED <<db, clock, req, now, reply, history>>

\* get_entry_detail reads the clock only after the row.
RespondDetail(r) ==
  /\ pc[r] = "read"
  /\ Answer(r, "ok")
  /\ Show([e \in {req[r].id} |-> Bucket(mem[r], clock)])
  /\ UNCHANGED <<db, clock, req, mem, now, heard>>

\* list_dashboard_entries reads the clock before the rows.
ReadListClock(r) ==
  /\ At(r, "begin", {"list"})
  /\ ReadClock(r)
  /\ Goto(r, "listing")
  /\ UNCHANGED <<db, clock, req, mem, reply, history>>

ListEntriesByUser(r) ==
  /\ pc[r] = "listing"
  /\ Answer(r, "ok")
  /\ LET mine == {e \in EntryIds : table[e] # Null /\ table[e].owner = req[r].user}
     IN  Show([e \in mine |-> Bucket(table[e], now[r])])
  /\ now' = [now EXCEPT ![r] = Null]
  /\ UNCHANGED <<db, clock, req, mem, heard>>

-----------------------------------------------------------------------------
(* The wall clock                                                          *)

Tick ==
  /\ clock < MaxClock
  /\ clock' = clock + 1
  /\ UNCHANGED <<db, pc, req, mem, now, reply, history>>

StepBack ==
  /\ ClockMayStepBack
  /\ clock > 0
  /\ clock' = clock - 1
  /\ UNCHANGED <<db, pc, req, mem, now, reply, history>>

-----------------------------------------------------------------------------
Init ==
  /\ table   = [e \in EntryIds |-> Null]
  /\ born    = {}
  /\ locks   = [e \in EntryIds |-> Null]
  /\ clock   = 0
  /\ pc      = [r \in Requests |-> "idle"]
  /\ req     = [r \in Requests |-> Null]
  /\ mem     = [r \in Requests |-> Null]
  /\ now     = [r \in Requests |-> Null]
  /\ reply   = [r \in Requests |-> "none"]
  /\ invited = {}
  /\ heard   = [r \in Requests |-> FALSE]

\* A step of r's handler, other than a failure.
Step(r) ==
  \/ StageCreate(r) \/ GetEntryForUpdate(r) \/ MissEntry(r)
  \/ RaiseEntryAccessError(r) \/ RefuseStatus(r) \/ RefuseEarly(r)
  \/ StageChange(r) \/ Commit(r) \/ RefuseFlush(r) \/ Respond(r)
  \/ GetEntryById(r) \/ RespondDetail(r)
  \/ ReadListClock(r) \/ ListEntriesByUser(r)

Next ==
  \/ \E r \in Requests : Begin(r) \/ Step(r) \/ LoseAnswer(r) \/ Abort(r)
  \/ Tick
  \/ StepBack

Spec == Init /\ [][Next]_vars

\* Fairness.  The event loop resumes every handler whose database call has
\* returned.  PostgreSQL queues the waiters of a row, so a request that waits for
\* a lock freed again and again gets it; nothing makes a request arrive or fail.
FairSpec ==
  /\ Spec
  /\ \A r \in Requests : WF_vars(Step(r)) /\ SF_vars(GetEntryForUpdate(r))

-----------------------------------------------------------------------------
(* Safety                                                                  *)

Exists(e) == table[e] # Null

CheckedIn(r) == /\ pc[r] = "committed" \/ (pc[r] = "done" /\ reply[r] = "ok")
                /\ req[r].op = "check_in"

\* No stored entry was resolved before its wait was over, whatever the clock did
\* between the check, the commit and any later write; a waiting one has no
\* check-in time.  (check_in_entry's eligibility test against the locked row.)
NoEarlyResolution ==
  \A e \in EntryIds : Exists(e) =>
    IF table[e].status = "waiting"
      THEN table[e].checked = Null
      ELSE table[e].checked # Null /\ table[e].checked >= table[e].created + WaitPeriod

\* The entity a mutation works on is the stored row.
CopyIsStored ==
  \A r \in Requests :
    /\ pc[r] = "held" => Owned(r) /\ mem[r] = table[req[r].id]
    /\ At(r, "staged", EditOps) =>
         Owned(r) /\ mem[r] = Assigned(req[r], table[req[r].id], now[r])

\* While the clock does not step back, its reading is no older than the row.
ReadingFollowsRow ==
  ~ClockMayStepBack =>
    \A r \in Requests : At(r, "staged", EditOps) => table[req[r].id].updated <= now[r]

\* No lost update: until its transaction ends, the entity a mutation validates,
\* writes back and answers with is the stored row with only its own columns
\* changed, and it acts for the row's owner; and what it checks and stamps is
\* no instant from before the last change of that row.  (FOR UPDATE held to the
\* commit, and the clock read after it is granted.)
LockedCopyIsCurrent == CopyIsStored /\ ReadingFollowsRow

\* A check-in the client saw succeed is never undone: the entry is still there,
\* with the outcome, the time and the details the response showed.
ConfirmedCheckInIsDurable ==
  \A r \in Requests : CheckedIn(r) =>
    /\ Exists(req[r].id)
    /\ LET row == table[req[r].id]
       IN  /\ row.status  = req[r].result
           /\ row.status  = mem[r].status
           /\ row.checked = mem[r].checked
           /\ row.details = mem[r].details
           /\ row.owner   = mem[r].owner

\* Of any number of check-ins of one entry, at most one succeeds.
SingleCheckInWinner ==
  \A r, s \in Requests :
    CheckedIn(r) /\ CheckedIn(s) /\ req[r].id = req[s].id => r = s

\* r waits in FOR UPDATE.
Waits(r) == At(r, "begin", EditOps) /\ Owned(r) /\ locks[req[r].id] # Null

\* Waits do not chain: whoever waits for a row waits for a transaction that is at
\* work on that row, holds no other and so waits for nothing.  No lock outlives its
\* transaction, and no two requests wait for each other.
NoWaitCycle ==
  \A r \in Requests : Waits(r) =>
    LET holder == locks[req[r].id]
    IN  /\ pc[holder] \in {"held", "staged"} /\ req[holder].id = req[r].id
        /\ \A e \in EntryIds : locks[e] = holder => e = req[r].id

\* What a refusal says was true and stays true, although 403 and 404 come from a
\* second query and the answer travels while other requests commit: a 404 entry
\* is gone for good, a 403 entry is somebody else's, and a 409 entry that could
\* not be edited, deleted or checked in is history.
RefusalsStayTrue ==
  \A r \in Requests : pc[r] = "done" =>
    /\ reply[r] = "not_found" => ~Exists(req[r].id)
    /\ reply[r] = "forbidden" =>
         (Exists(req[r].id) => table[req[r].id].owner # req[r].user)
    /\ reply[r] = "invalid_entry_status" /\ req[r].op # "comment" =>
         Exists(req[r].id) /\ table[req[r].id].status \in Outcomes

\* The database's CHECK constraints never turn a validated mutation into a 500:
\* for any mutation while the clock does not step back, and for a creation, a
\* deletion or a check-in even when it does.
StagedWriteIsAccepted ==
  \A r \in Requests :
    /\ pc[r] = "staged"
    /\ ~ClockMayStepBack \/ req[r].op \in {"create", "delete", "check_in"}
    => Flushable(r)

\* While the clock does not step back: once any response - dashboard, detail or
\* mutation - has shown an entry as needs_check_in, no check-in sent after that
\* is refused as early.  (dashboard_bucket_for and check_in_entry draw the same
\* line from different clock readings.)
InvitationIsHonoured ==
  ~ClockMayStepBack =>
    \A r \in Requests : heard[r] => reply[r] # "early_check_in"

\* A resolved entry is history: no step deletes it or changes its owner, details,
\* outcome, creation or check-in time; only the comment may still change.
KeepsHistory ==
  \A e \in EntryIds :
    Exists(e) /\ table[e].status \in Outcomes =>
      /\ table'[e] # Null
      /\ table'[e].owner   = table[e].owner
      /\ table'[e].details = table[e].details
      /\ table'[e].status  = table[e].status
      /\ table'[e].created = table[e].created
      /\ table'[e].checked = table[e].checked

ResolvedIsHistory == [][KeepsHistory]_vars

-----------------------------------------------------------------------------
(* Refinement and liveness                                                 *)

Abstract(row) ==
  IF row = Null THEN Null
  ELSE [owner   |-> row.owner,   details |-> row.details, status  |-> row.status,
        comment |-> row.comment, created |-> row.created, checked |-> row.checked]

Lifecycle == INSTANCE EntryLifecycle
  WITH entries <- [e \in EntryIds |-> Abstract(table[e])],
       deleted <- {e \in born : table[e] = Null}

\* The concurrent, failing service implements the one-step-per-operation
\* lifecycle: each commit is one of its operations, every other step none.
ImplementsLifecycle == Lifecycle!Spec

\* Every request is answered, if only with an error: no lock is left behind to
\* block the later requests on its row.
EveryRequestIsAnswered ==
  \A r \in Requests : (pc[r] = "begin") ~> (pc[r] = "done")

-----------------------------------------------------------------------------
(* The inductive invariant behind the safety properties                    *)

\* What a handler has at hand at each place.
HandlerShape ==
  \A r \in Requests :
    /\ pc[r] # "idle" => req[r] # Null
    /\ pc[r] = "missed" => req[r].op \in TargetOps
    /\ pc[r] = "read" => req[r].op = "detail" /\ mem[r] # Null
    /\ pc[r] = "listing" => req[r].op = "list" /\ now[r] # Null
    /\ pc[r] = "held" => req[r].op \in EditOps /\ mem[r] # Null
    /\ pc[r] \in {"staged", "committed"} =>
         /\ req[r].op \in EditOps \cup {"create"}
         /\ mem[r] # Null
         /\ now[r] # Null
    /\ pc[r] = "done" /\ reply[r] \in {"forbidden", "not_found"} =>
         req[r].op \in TargetOps
    /\ pc[r] = "done" /\ reply[r] = "invalid_entry_status" => req[r].op \in EditOps
    /\ CheckedIn(r) => mem[r] # Null

\* A mutation that has read its row holds the row's lock until it commits.
HoldsItsLock ==
  \A r \in Requests :
    pc[r] = "held" \/ At(r, "staged", EditOps) => locks[req[r].id] = r

\* Only such a mutation holds a lock, and only that one.
LocksAreHeld ==
  \A e \in EntryIds : locks[e] # Null =>
    /\ req[locks[e]].id = e
    /\ pc[locks[e]] = "held" \/ At(locks[e], "staged", EditOps)

\* Every stored row's id is taken, and only taken ids are asked for.
IdsAreTaken ==
  /\ \A e \in EntryIds : Exists(e) => e \in born
  /\ \A r \in Requests : pc[r] # "idle" /\ req[r].op \in TargetOps => req[r].id \in born

Creating(r) == At(r, "begin", {"create"}) \/ At(r, "staged", {"create"})

\* The uuid of a creation in progress is fresh and nobody else's.
NewIdsAreFresh ==
  /\ \A r \in Requests : Creating(r) => req[r].id \notin born
  /\ \A r, s \in Requests : Creating(r) /\ Creating(s) /\ req[r].id = req[s].id => r = s
  /\ \A r \in Requests : At(r, "staged", {"create"}) => mem[r] = NewRow(req[r], now[r])

\* A lookup that missed would miss again: the row never becomes the requester's.
MissesStayMisses == \A r \in Requests : pc[r] = "missed" => ~Owned(r)

\* What a staged mutation was checked against still holds of the stored row.
StagedChangeIsLegal ==
  \A r \in Requests : At(r, "staged", EditOps) =>
    /\ StatusAllows(req[r].op, table[req[r].id].status)
    /\ req[r].op = "check_in" => ~TooEarly(table[req[r].id], now[r])

\* While the clock does not step back, no reading of it is in the future, and a
\* staged change is stamped no earlier than its row was created and last changed.
ReadingsArePast ==
  /\ ~ClockMayStepBack =>
    /\ \A r \in Requests : now[r] # Null => now[r] <= clock
    /\ \A e \in EntryIds : Exists(e) => table[e].created <= clock /\ table[e].updated <= clock
    /\ \A r \in Requests :
         At(r, "staged", EditOps) => table[req[r].id].created <= now[r]
  /\ ReadingFollowsRow

\* The row an answer will be built from was stored under its id, and is of the same
\* age as the one stored there now, if there is one.
AnswersKnowTheirRow ==
  \A r \in Requests : pc[r] \in {"read", "committed"} =>
    /\ req[r].id \in born
    /\ Exists(req[r].id) => table[req[r].id].created = mem[r].created

\* While the clock does not step back, an invited entry stays eligible.
InvitationsStand ==
  ~ClockMayStepBack =>
    \A e \in invited :
      e \in born /\ (Exists(e) => table[e].created + WaitPeriod <= clock)

\* What a slot has heard is about the check-in it is handling.
HeardIsInvited ==
  \A r \in Requests : heard[r] =>
    pc[r] # "idle" /\ req[r].op = "check_in" /\ req[r].id \in invited

IInv ==
  /\ TypeOK
  /\ HandlerShape
  /\ HoldsItsLock
  /\ LocksAreHeld
  /\ IdsAreTaken
  /\ NewIdsAreFresh
  /\ CopyIsStored
  /\ StagedChangeIsLegal
  /\ MissesStayMisses
  /\ NoEarlyResolution
  /\ ConfirmedCheckInIsDurable
  /\ SingleCheckInWinner
  /\ RefusalsStayTrue
  /\ ReadingsArePast
  /\ AnswersKnowTheirRow
  /\ InvitationsStand
  /\ HeardIsInvited
  /\ InvitationIsHonoured
=============================================================================
