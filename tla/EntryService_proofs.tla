------------------------ MODULE EntryService_proofs ------------------------
(***************************************************************************)
(* Proofs about EntryService, for any users, entries, number of concurrent *)
(* requests, wait period and clock bound, with or without a clock that is  *)
(* set back.                                                               *)
(***************************************************************************)
EXTENDS EntryService, TLAPS

-----------------------------------------------------------------------------
(* The data                                                                *)

\* What the payload of each operation carries.
LEMMA FormShape ==
  ASSUME NEW f \in Form
  PROVE  /\ f.op \in TargetOps \cup {"create", "list"}
         /\ f.user \in Users
         /\ f.op # "list" => f.id \in EntryIds
         /\ f.op \in {"create", "update"} => f.details \in Details
         /\ f.op = "check_in" => f.result \in Outcomes
         /\ f.op \in {"check_in", "comment"} => f.comment \in Comments \cup {Null}
         /\ f # Null
  BY NullAssumption DEF Form, CreateForm, ListForm, TargetForm, UpdateForm, PlainForm,
     CheckInForm, CommentForm, TargetOps, EditOps

\* A new row is a row: waiting, owned by its creator.
LEMMA NewRowIsRow ==
  ASSUME NEW f \in Form, f.op = "create", NEW t \in Time
  PROVE  /\ NewRow(f, t) \in Row
         /\ NewRow(f, t).status = "waiting"
         /\ NewRow(f, t).checked = Null
         /\ SatisfiesChecks(NewRow(f, t))
  <1>1. f.user \in Users /\ f.details \in Details
    BY FormShape
  <1>2. QED
    BY <1>1, NullAssumption, ClockAssumption DEF NewRow, Row, Statuses, SatisfiesChecks, Time

\* A mutation keeps owner and creation time, and only an edit changes details.
LEMMA AssignedRow ==
  ASSUME NEW f \in Form, f.op \in EditOps, NEW row \in Row, NEW t \in Time
  PROVE  /\ Assigned(f, row, t) \in Row
         /\ Assigned(f, row, t).owner = row.owner
         /\ Assigned(f, row, t).created = row.created
         /\ f.op # "update" => Assigned(f, row, t).details = row.details
         /\ f.op # "check_in" => /\ Assigned(f, row, t).status = row.status
                                 /\ Assigned(f, row, t).checked = row.checked
         /\ f.op = "check_in" => /\ Assigned(f, row, t).status = f.result
                                 /\ Assigned(f, row, t).checked = t
  <1>1. CASE f.op = "update"
    <2>1. f.details \in Details
      BY <1>1, FormShape
    <2>2. QED
      BY <1>1, <2>1 DEF Assigned, Row
  <1>2. CASE f.op = "check_in"
    <2>1. f.result \in Outcomes /\ f.comment \in Comments \cup {Null}
      BY <1>2, FormShape
    <2>2. QED
      BY <1>2, <2>1 DEF Assigned, Row, Statuses
  <1>3. CASE f.op = "comment"
    <2>1. f.comment \in Comments \cup {Null}
      BY <1>3, FormShape
    <2>2. QED
      BY <1>3, <2>1 DEF Assigned, Row
  <1>4. CASE f.op = "delete"
    BY <1>4 DEF Assigned
  <1>5. QED
    BY <1>1, <1>2, <1>3, <1>4 DEF EditOps

-----------------------------------------------------------------------------
(* Type correctness                                                        *)

\* What a handler works with has its type.
LEMMA HandlerTypes ==
  ASSUME TypeOK, HandlerShape, NEW r \in Requests
  PROVE  /\ pc[r] # "idle" => req[r] \in Form
         /\ pc[r] # "idle" /\ req[r].op # "list" => req[r].id \in EntryIds
         /\ pc[r] # "idle" => req[r].user \in Users
         /\ pc[r] \in {"read", "held", "staged", "committed"} => mem[r] \in Row
         /\ pc[r] \in {"listing", "staged", "committed"} => now[r] \in Time
         /\ CheckedIn(r) => mem[r] \in Row
  <1>1. pc[r] # "idle" => req[r] \in Form
    BY DEF TypeOK, HandlerShape
  <1>2. pc[r] \in {"read", "held", "staged", "committed"} => mem[r] \in Row
    BY DEF TypeOK, HandlerShape
  <1>3. pc[r] \in {"listing", "staged", "committed"} => now[r] \in Time
    BY DEF TypeOK, HandlerShape
  <1>4. CheckedIn(r) => mem[r] \in Row
    BY DEF TypeOK, HandlerShape
  <1>5. QED
    BY <1>1, <1>2, <1>3, <1>4, FormShape

\* What a flush that the database accepts writes.
LEMMA FlushedRow ==
  ASSUME TypeOK, HandlerShape, NEW r \in Requests,
         At(r, "staged", EditOps \cup {"create"}), Flushable(r)
  PROVE  /\ Flushed(r) \in Row \cup {Null}
         /\ req[r].op = "create" => Flushed(r) = mem[r] /\ ~Exists(req[r].id)
         /\ req[r].op = "delete" => Flushed(r) = Null
         /\ req[r].op \in EditOps \ {"delete"} =>
              /\ Exists(req[r].id)
              /\ Flushed(r) = Assigned(req[r], table[req[r].id], now[r])
         /\ req[r].id \in EntryIds
  <1>1. /\ req[r] \in Form
        /\ req[r].id \in EntryIds
        /\ mem[r] \in Row
        /\ now[r] \in Time
    BY HandlerTypes DEF At, EditOps
  <1>2. CASE req[r].op = "create"
    BY <1>1, <1>2 DEF Flushed, Flushable, EditOps, Exists
  <1>3. CASE req[r].op = "delete"
    BY <1>1, <1>3 DEF Flushed
  <1>4. CASE req[r].op \in EditOps \ {"delete"}
    <2>1. Exists(req[r].id) /\ Flushed(r) = Assigned(req[r], table[req[r].id], now[r])
      BY <1>4 DEF Flushed, Flushable, EditOps, Exists
    <2>2. table[req[r].id] \in Row
      BY <1>1, <2>1 DEF TypeOK, Exists
    <2>3. QED
      BY <1>1, <1>4, <2>1, <2>2, AssignedRow DEF EditOps
  <1>5. QED
    BY <1>2, <1>3, <1>4 DEF At

\* Types are kept by every step.
LEMMA TypeStep ==
  ASSUME TypeOK, HandlerShape, [Next]_vars
  PROVE  TypeOK'
  <1> USE DEF db, history
  <1>1. ASSUME NEW r \in Requests, Begin(r) PROVE TypeOK'
    BY <1>1 DEF TypeOK, Begin, Goto, Places, Replies
  <1>2. ASSUME NEW r \in Requests, StageCreate(r) PROVE TypeOK'
    <2>1. req[r] \in Form
      BY <1>2, HandlerTypes DEF StageCreate, At
    <2>2. NewRow(req[r], clock) \in Row
      BY <1>2, <2>1, NewRowIsRow DEF StageCreate, At, TypeOK
    <2>3. QED
      BY <1>2, <2>2 DEF TypeOK, StageCreate, At, ReadClock, Read, Goto, Places
  <1>3. ASSUME NEW r \in Requests, GetEntryForUpdate(r) PROVE TypeOK'
    <2>1. req[r].id \in EntryIds
      BY <1>3, HandlerTypes DEF GetEntryForUpdate, At, EditOps
    <2>2. QED
      BY <1>3, <2>1 DEF TypeOK, GetEntryForUpdate, Read, Goto, Places
  <1>4. ASSUME NEW r \in Requests, MissEntry(r) PROVE TypeOK'
    BY <1>4 DEF TypeOK, MissEntry, Goto, Places
  <1>5. ASSUME NEW r \in Requests, NEW a \in Replies, Fail(r, a) PROVE TypeOK'
    BY <1>5 DEF TypeOK, Fail, Answer, EndTransaction, Goto, Places
  <1>6. ASSUME NEW r \in Requests, StageChange(r) PROVE TypeOK'
    <2>1. req[r] \in Form /\ mem[r] \in Row
      BY <1>6, HandlerTypes DEF StageChange, At
    <2>2. Assigned(req[r], mem[r], clock) \in Row
      BY <1>6, <2>1, AssignedRow DEF StageChange, At, TypeOK
    <2>3. QED
      BY <1>6, <2>2 DEF TypeOK, StageChange, ReadClock, Read, Goto, Places
  <1>7. ASSUME NEW r \in Requests, Commit(r) PROVE TypeOK'
    <2>1. Flushed(r) \in Row \cup {Null} /\ req[r].id \in EntryIds
      BY <1>7, FlushedRow DEF Commit
    <2>2. QED
      BY <1>7, <2>1 DEF TypeOK, Commit, EndTransaction, Goto, Places
  <1>8. ASSUME NEW r \in Requests, NEW rows, DOMAIN rows \in SUBSET EntryIds, Show(rows)
        PROVE  invited' \in SUBSET EntryIds
    BY <1>8 DEF Show, TypeOK
  <1>9. ASSUME NEW r \in Requests, Respond(r) PROVE TypeOK'
    <2>1. req[r].op # "list" /\ req[r].id \in EntryIds
      BY <1>9, HandlerTypes DEF Respond, HandlerShape, EditOps
    <2>2. invited' \in SUBSET EntryIds
      BY <1>8, <1>9, <2>1 DEF Respond, TypeOK
    <2>3. QED
      BY <1>9, <2>2 DEF TypeOK, Respond, Answer, Goto, Places, Replies
  <1>10. ASSUME NEW r \in Requests, GetEntryById(r) PROVE TypeOK'
    <2>1. req[r].id \in EntryIds
      BY <1>10, HandlerTypes DEF GetEntryById, At
    <2>2. QED
      BY <1>10, <2>1 DEF TypeOK, GetEntryById, Read, Goto, Places
  <1>11. ASSUME NEW r \in Requests, RespondDetail(r) PROVE TypeOK'
    <2>1. req[r].id \in EntryIds
      BY <1>11, HandlerTypes DEF RespondDetail, HandlerShape
    <2>2. invited' \in SUBSET EntryIds
      BY <1>8, <1>11, <2>1 DEF RespondDetail
    <2>3. QED
      BY <1>11, <2>2 DEF TypeOK, RespondDetail, Answer, Goto, Places, Replies
  <1>12. ASSUME NEW r \in Requests, ReadListClock(r) PROVE TypeOK'
    BY <1>12 DEF TypeOK, ReadListClock, ReadClock, Goto, Places
  <1>13. ASSUME NEW r \in Requests, ListEntriesByUser(r) PROVE TypeOK'
    <2>1. invited' \in SUBSET EntryIds
      BY <1>8, <1>13 DEF ListEntriesByUser
    <2>2. QED
      BY <1>13, <2>1 DEF TypeOK, ListEntriesByUser, Answer, Goto, Places, Replies
  <1>14. CASE Tick
    BY <1>14, ClockAssumption DEF TypeOK, Tick, Time
  <1>15. CASE StepBack
    BY <1>15, ClockAssumption DEF TypeOK, StepBack, Time
  <1>16. CASE UNCHANGED vars
    BY <1>16 DEF TypeOK, vars
  <1>17. QED
    BY <1>1, <1>2, <1>3, <1>4, <1>5, <1>6, <1>7, <1>9, <1>10, <1>11, <1>12, <1>13,
       <1>14, <1>15, <1>16
    DEF Next, Step, RaiseEntryAccessError, RefuseStatus, RefuseEarly, RefuseFlush,
        LoseAnswer, Abort, Replies

-----------------------------------------------------------------------------
(* What a step touches                                                     *)

\* A step of one handler leaves the other slots as they were.
LEMMA OthersUntouched ==
  ASSUME TypeOK, NEW r \in Requests,
         Begin(r) \/ Step(r) \/ LoseAnswer(r) \/ Abort(r),
         NEW s \in Requests, s # r
  PROVE  /\ pc'[s] = pc[s]       /\ req'[s] = req[s]
         /\ mem'[s] = mem[s]     /\ now'[s] = now[s]
         /\ reply'[s] = reply[s] /\ heard'[s] = heard[s]
  <1> USE DEF db, history, Goto, Read, ReadClock, Answer, Fail, TypeOK
  <1>1. CASE Begin(r)
    BY <1>1 DEF Begin
  <1>2. CASE StageCreate(r) \/ GetEntryForUpdate(r) \/ MissEntry(r) \/ StageChange(r)
             \/ GetEntryById(r) \/ ReadListClock(r)
    BY <1>2 DEF StageCreate, GetEntryForUpdate, MissEntry, StageChange, GetEntryById,
       ReadListClock
  <1>3. CASE Commit(r) \/ Respond(r) \/ RespondDetail(r) \/ ListEntriesByUser(r)
    BY <1>3 DEF Commit, Respond, RespondDetail, ListEntriesByUser
  <1>4. CASE \E a : Fail(r, a)
    BY <1>4
  <1>5. QED
    BY <1>1, <1>2, <1>3, <1>4
    DEF Step, RaiseEntryAccessError, RefuseStatus, RefuseEarly, RefuseFlush, LoseAnswer, Abort

\* Only a commit writes the table or takes an id.
LEMMA OnlyCommitWrites ==
  ASSUME [Next]_vars, ~ \E r \in Requests : Commit(r)
  PROVE  table' = table /\ born' = born
  <1> USE DEF db, history, Fail
  <1>1. ASSUME NEW r \in Requests, Begin(r) PROVE table' = table /\ born' = born
    BY <1>1 DEF Begin
  <1>2. ASSUME NEW r \in Requests, Step(r) PROVE table' = table /\ born' = born
    BY <1>2 DEF Step, StageCreate, GetEntryForUpdate, MissEntry, RaiseEntryAccessError,
       RefuseStatus, RefuseEarly, StageChange, RefuseFlush, Respond, GetEntryById,
       RespondDetail, ReadListClock, ListEntriesByUser
  <1>3. QED
    BY <1>1, <1>2 DEF Next, LoseAnswer, Abort, Tick, StepBack, vars

\* The clock's own steps leave everything else alone.
LEMMA ClockSteps ==
  ASSUME Tick \/ StepBack \/ UNCHANGED vars
  PROVE  UNCHANGED <<table, born, locks, pc, req, mem, now, reply, invited, heard>>
  BY DEF Tick, StepBack, vars, db, history

-----------------------------------------------------------------------------
(* Handlers: shape, locks, ids                                             *)

LEMMA ShapeStep ==
  ASSUME TypeOK, HandlerShape, [Next]_vars
  PROVE  HandlerShape'
  <1> USE DEF db, history, At, Goto, Read, ReadClock, Answer, CheckedIn, TypeOK, HandlerShape
  <1>1. ASSUME NEW r \in Requests, Begin(r) PROVE HandlerShape'
    BY <1>1, FormShape DEF Begin
  <1>2. ASSUME NEW r \in Requests, StageCreate(r) PROVE HandlerShape'
    <2>1. NewRow(req[r], clock) # Null /\ clock # Null
      BY <1>2, HandlerTypes, NewRowIsRow, NullAssumption DEF StageCreate, Time
    <2>2. QED
      BY <1>2, <2>1 DEF StageCreate
  <1>3. ASSUME NEW r \in Requests, GetEntryForUpdate(r) PROVE HandlerShape'
    BY <1>3 DEF GetEntryForUpdate, Owned
  <1>4. ASSUME NEW r \in Requests, MissEntry(r) PROVE HandlerShape'
    BY <1>4 DEF MissEntry
  <1>5. ASSUME NEW r \in Requests, NEW a \in Replies, a # "ok", Fail(r, a),
               pc[r] # "idle",
               a \in {"forbidden", "not_found"} => req[r].op \in TargetOps,
               a = "invalid_entry_status" => req[r].op \in EditOps
        PROVE  HandlerShape'
    BY <1>5 DEF Fail
  <1>6. ASSUME NEW r \in Requests, StageChange(r) PROVE HandlerShape'
    <2>1. Assigned(req[r], mem[r], clock) # Null /\ clock # Null
      BY <1>6, HandlerTypes, AssignedRow, NullAssumption DEF StageChange, Time
    <2>2. QED
      BY <1>6, <2>1 DEF StageChange
  <1>7. ASSUME NEW r \in Requests, Commit(r) PROVE HandlerShape'
    BY <1>7 DEF Commit
  <1>8. ASSUME NEW r \in Requests, Respond(r) PROVE HandlerShape'
    BY <1>8 DEF Respond
  <1>9. ASSUME NEW r \in Requests, GetEntryById(r) PROVE HandlerShape'
    BY <1>9 DEF GetEntryById, Owned
  <1>10. ASSUME NEW r \in Requests, RespondDetail(r) PROVE HandlerShape'
    BY <1>10 DEF RespondDetail
  <1>11. ASSUME NEW r \in Requests, ReadListClock(r) PROVE HandlerShape'
    BY <1>11, NullAssumption DEF ReadListClock, Time
  <1>12. ASSUME NEW r \in Requests, ListEntriesByUser(r) PROVE HandlerShape'
    BY <1>12 DEF ListEntriesByUser
  <1>13. CASE Tick \/ StepBack \/ UNCHANGED vars
    BY <1>13, ClockSteps
  <1>14. QED
    BY <1>1, <1>2, <1>3, <1>4, <1>5, <1>6, <1>7, <1>8, <1>9, <1>10, <1>11, <1>12, <1>13
    DEF Next, Step, RaiseEntryAccessError, RefuseStatus, RefuseEarly, RefuseFlush,
        LoseAnswer, Abort, Replies

LEMMA LockStep ==
  ASSUME TypeOK, HandlerShape, HoldsItsLock, [Next]_vars
  PROVE  HoldsItsLock'
  <1> USE DEF HoldsItsLock, At
  <1>1. ASSUME NEW r \in Requests, Begin(r) \/ Step(r) \/ LoseAnswer(r) \/ Abort(r)
        PROVE  HoldsItsLock'
    <2> DEFINE Holds(s) == pc[s] = "held" \/ (pc[s] = "staged" /\ req[s].op \in EditOps)
    <2>1. \A s \in Requests \ {r} : Holds(s)' <=> Holds(s)
      BY <1>1, OthersUntouched
    <2>2. \A s \in Requests \ {r} : Holds(s) => req[s].id \in EntryIds
      BY HandlerTypes DEF HandlerShape, EditOps
    <2>3. ASSUME locks' = [e \in EntryIds |-> IF locks[e] = r THEN Null ELSE locks[e]],
                 ~Holds(r)'
          PROVE  HoldsItsLock'
      BY <1>1, <2>1, <2>2, <2>3, OthersUntouched
    <2>4. ASSUME locks' = locks, Holds(r)' => Holds(r) /\ req'[r].id = req[r].id
          PROVE  HoldsItsLock'
      BY <1>1, <2>1, <2>4, OthersUntouched
    <2>5. ASSUME GetEntryForUpdate(r)
          PROVE  HoldsItsLock'
      <3>1. req[r].id \in EntryIds
        BY <2>5, HandlerTypes DEF GetEntryForUpdate, EditOps
      <3>2. req'[r] = req[r] /\ locks' = [locks EXCEPT ![req[r].id] = r]
        BY <2>5 DEF GetEntryForUpdate
      <3>3. \A s \in Requests \ {r} : Holds(s) => req[s].id # req[r].id
        BY <2>5, NullAssumption DEF GetEntryForUpdate
      <3>4. QED
        BY <1>1, <2>1, <2>2, <3>1, <3>2, <3>3, OthersUntouched DEF TypeOK
    <2>6. CASE Commit(r) \/ \E a : Fail(r, a)
      BY <2>3, <2>6 DEF Commit, Fail, Answer, Goto, EndTransaction, TypeOK
    <2>7. CASE Begin(r)
      BY <2>4, <2>7 DEF Begin, Goto, db, TypeOK
    <2>8. CASE StageCreate(r) \/ MissEntry(r) \/ StageChange(r) \/ Respond(r)
               \/ GetEntryById(r) \/ RespondDetail(r) \/ ReadListClock(r)
               \/ ListEntriesByUser(r)
      BY <2>4, <2>8 DEF StageCreate, MissEntry, StageChange, Respond, GetEntryById,
         RespondDetail, ReadListClock, ListEntriesByUser, Answer, Goto, db, TypeOK, EditOps
    <2>9. QED
      BY <1>1, <2>5, <2>6, <2>7, <2>8
      DEF Step, RaiseEntryAccessError, RefuseStatus, RefuseEarly, RefuseFlush,
          LoseAnswer, Abort
  <1>2. CASE Tick \/ StepBack \/ UNCHANGED vars
    BY <1>2, ClockSteps
  <1>3. QED
    BY <1>1, <1>2 DEF Next

\* A lock is taken by the lookup that loads the row and given up with the transaction.
LEMMA LockOriginStep ==
  ASSUME TypeOK, HandlerShape, LocksAreHeld, [Next]_vars
  PROVE  LocksAreHeld'
  <1> USE DEF LocksAreHeld, At
  <1>1. ASSUME NEW r \in Requests, Begin(r) \/ Step(r) \/ LoseAnswer(r) \/ Abort(r)
        PROVE  LocksAreHeld'
    <2> DEFINE Holds(s) == pc[s] = "held" \/ (pc[s] = "staged" /\ req[s].op \in EditOps)
    <2>1. \A s \in Requests \ {r} : (Holds(s)' <=> Holds(s)) /\ req'[s] = req[s]
      BY <1>1, OthersUntouched
    <2>2. \A e \in EntryIds : locks[e] \in Requests \cup {Null}
      BY DEF TypeOK
    <2>3. ASSUME locks' = [e \in EntryIds |-> IF locks[e] = r THEN Null ELSE locks[e]]
          PROVE  LocksAreHeld'
      BY <2>1, <2>2, <2>3
    <2>4. ASSUME locks' = locks, Holds(r) => Holds(r)' /\ req'[r].id = req[r].id
          PROVE  LocksAreHeld'
      BY <2>1, <2>2, <2>4
    <2>5. ASSUME GetEntryForUpdate(r)
          PROVE  LocksAreHeld'
      <3>1. req'[r] = req[r] /\ locks' = [locks EXCEPT ![req[r].id] = r]
        BY <2>5 DEF GetEntryForUpdate
      <3>2. pc'[r] = "held" /\ pc[r] = "begin"
        BY <2>5 DEF GetEntryForUpdate, Goto, TypeOK
      <3>3. QED
        BY <2>1, <2>2, <3>1, <3>2 DEF TypeOK
    <2>6. CASE Commit(r) \/ \E a : Fail(r, a)
      BY <2>3, <2>6 DEF Commit, Fail, EndTransaction
    <2>7. CASE Begin(r)
      BY <2>4, <2>7 DEF Begin, db
    <2>8. CASE \/ StageCreate(r) \/ MissEntry(r) \/ Respond(r) \/ GetEntryById(r)
               \/ RespondDetail(r) \/ ReadListClock(r) \/ ListEntriesByUser(r)
      BY <2>4, <2>8 DEF StageCreate, MissEntry, Respond, GetEntryById, RespondDetail,
         ReadListClock, ListEntriesByUser, db
    <2>9. CASE StageChange(r)
      BY <2>4, <2>9 DEF StageChange, Goto, db, TypeOK
    <2>10. QED
      BY <1>1, <2>5, <2>6, <2>7, <2>8, <2>9
      DEF Step, RaiseEntryAccessError, RefuseStatus, RefuseEarly, RefuseFlush,
          LoseAnswer, Abort
  <1>2. CASE Tick \/ StepBack \/ UNCHANGED vars
    BY <1>2, ClockSteps
  <1>3. QED
    BY <1>1, <1>2 DEF Next

LEMMA CommitShape ==
  ASSUME TypeOK, HandlerShape, NEW r \in Requests, Commit(r)
  PROVE  /\ req[r].id \in EntryIds
         /\ born' = born \cup {req[r].id}
         /\ table' = [table EXCEPT ![req[r].id] = Flushed(r)]
         /\ table'[req[r].id] = Flushed(r)
         /\ \A e \in EntryIds : e # req[r].id => table'[e] = table[e]
         /\ req' = req /\ mem' = mem /\ now' = now /\ reply' = reply
         /\ pc' = [pc EXCEPT ![r] = "committed"]
         /\ pc[r] = "staged"
         /\ req[r].op \in EditOps \cup {"create"}
  BY FlushedRow DEF Commit, Goto, TypeOK, At

LEMMA IdsStep ==
  ASSUME TypeOK, HandlerShape, IdsAreTaken, [Next]_vars
  PROVE  IdsAreTaken'
  <1> USE DEF IdsAreTaken, Exists
  <1>1. ASSUME NEW r \in Requests, Begin(r) PROVE IdsAreTaken'
    BY <1>1 DEF Begin, Admissible, Goto, db, TypeOK, TargetOps, EditOps
  <1>2. ASSUME NEW r \in Requests, Commit(r) PROVE IdsAreTaken'
    BY <1>2, CommitShape DEF TypeOK
  <1>3. ASSUME NEW r \in Requests, Step(r) \/ LoseAnswer(r) \/ Abort(r), ~Commit(r)
        PROVE  IdsAreTaken'
    <2>1. table' = table /\ born' = born /\ req' = req
      BY <1>3 DEF Step, StageCreate, GetEntryForUpdate, MissEntry, RaiseEntryAccessError,
         RefuseStatus, RefuseEarly, StageChange, RefuseFlush, Respond, GetEntryById,
         RespondDetail, ReadListClock, ListEntriesByUser, LoseAnswer, Abort, Fail, db
    <2>2. pc[r] # "idle"
      BY <1>3 DEF Step, StageCreate, GetEntryForUpdate, MissEntry, RaiseEntryAccessError,
         RefuseStatus, RefuseEarly, StageChange, RefuseFlush, Respond, GetEntryById,
         RespondDetail, ReadListClock, ListEntriesByUser, LoseAnswer, Abort, At
    <2>3. QED
      BY <1>3, <2>1, <2>2, OthersUntouched
  <1>4. CASE Tick \/ StepBack \/ UNCHANGED vars
    BY <1>4, ClockSteps
  <1>5. QED
    BY <1>1, <1>2, <1>3, <1>4 DEF Next

LEMMA NewIdsStep ==
  ASSUME TypeOK, HandlerShape, IdsAreTaken, NewIdsAreFresh, [Next]_vars
  PROVE  NewIdsAreFresh'
  <1> USE DEF NewIdsAreFresh, Creating, At
  <1>1. ASSUME NEW r \in Requests, Begin(r) PROVE NewIdsAreFresh'
    <2>1. req'[r].op = "create" =>
            /\ req'[r].id \notin born
            /\ \A s \in Requests : Creating(s) => req'[r].id # req[s].id
      <3>1. PICK f \in Form : Admissible(f) /\ req' = [req EXCEPT ![r] = f]
        BY <1>1 DEF Begin
      <3>2. req'[r] = f
        BY <3>1 DEF TypeOK
      <3>3. f.op = "create" => f.id \in Unissued
        BY <3>1 DEF Admissible, TargetOps, EditOps
      <3>4. QED
        BY <3>2, <3>3 DEF Unissued
    <2>2. born' = born /\ pc' = [pc EXCEPT ![r] = "begin"] /\ ~Creating(r)
      BY <1>1 DEF Begin, db, Goto
    <2>3. QED
      BY <1>1, <2>1, <2>2, OthersUntouched DEF TypeOK
  <1>2. ASSUME NEW r \in Requests, StageCreate(r) PROVE NewIdsAreFresh'
    <2>1. /\ born' = born /\ req' = req /\ Creating(r)
          /\ mem'[r] = NewRow(req'[r], now'[r])
      BY <1>2 DEF StageCreate, db, Read, ReadClock, TypeOK
    <2>2. QED
      BY <1>2, <2>1, OthersUntouched DEF Step
  <1>3. ASSUME NEW r \in Requests, Commit(r) PROVE NewIdsAreFresh'
    <2>1. ~Creating(r)' /\ \A s \in Requests \ {r} : Creating(s)' => Creating(s)
      BY <1>3, CommitShape DEF TypeOK
    <2>2. CASE req[r].op = "create"
      <3>1. Creating(r)
        BY <1>3, <2>2, CommitShape
      <3>2. QED
        BY <1>3, <2>1, <3>1, CommitShape DEF TypeOK
    <2>3. CASE req[r].op \in EditOps
      <3>1. req[r].id \in born
        BY <1>3, <2>3, CommitShape DEF IdsAreTaken, TargetOps
      <3>2. born' = born \cup {req[r].id}
        BY <1>3, CommitShape
      <3>3. born' = born
        BY <3>1, <3>2
      <3>4. QED
        BY <1>3, <2>1, <3>3, CommitShape DEF TypeOK
    <2>4. QED
      BY <1>3, <2>2, <2>3, CommitShape
  <1>4. ASSUME NEW r \in Requests, Step(r) \/ LoseAnswer(r) \/ Abort(r),
               ~Commit(r), ~StageCreate(r)
        PROVE  NewIdsAreFresh'
    <2>1. /\ born' = born /\ req' = req /\ ~Creating(r)'
      BY <1>4 DEF Step, GetEntryForUpdate, MissEntry, RaiseEntryAccessError, RefuseStatus,
         RefuseEarly, StageChange, RefuseFlush, Respond, GetEntryById, RespondDetail,
         ReadListClock, ListEntriesByUser, LoseAnswer, Abort, Fail, Answer, Goto, db,
         TypeOK, EditOps
    <2>2. QED
      BY <1>4, <2>1, OthersUntouched
  <1>5. CASE Tick \/ StepBack \/ UNCHANGED vars
    BY <1>5, ClockSteps
  <1>6. QED
    BY <1>1, <1>2, <1>3, <1>4, <1>5 DEF Next

-----------------------------------------------------------------------------
(* The locked copy                                                         *)

\* A commit leaves the rows that other mutations have locked alone.
LEMMA CommitSparesLockedRows ==
  ASSUME TypeOK, HandlerShape, HoldsItsLock, IdsAreTaken, NewIdsAreFresh,
         NEW r \in Requests, Commit(r),
         NEW s \in Requests, s # r, pc[s] = "held" \/ At(s, "staged", EditOps)
  PROVE  table'[req[s].id] = table[req[s].id]
  <1>1. req[s].id \in EntryIds /\ req[s].id \in born
    BY HandlerTypes DEF HandlerShape, At, IdsAreTaken, EditOps, TargetOps
  <1>2. req[s].id # req[r].id
    <2>1. CASE req[r].op = "create"
      BY <1>1, <2>1, CommitShape DEF NewIdsAreFresh, Creating, At
    <2>2. CASE req[r].op \in EditOps
      BY <2>2, CommitShape DEF HoldsItsLock, At
    <2>3. QED
      BY <2>1, <2>2, CommitShape
  <1>3. QED
    BY <1>1, <1>2, CommitShape

LEMMA CopyStep ==
  ASSUME TypeOK, HandlerShape, HoldsItsLock, IdsAreTaken, NewIdsAreFresh,
         CopyIsStored, [Next]_vars
  PROVE  CopyIsStored'
  <1> USE DEF CopyIsStored, At, Owned
  <1>1. ASSUME NEW r \in Requests, Begin(r) PROVE CopyIsStored'
    BY <1>1, OthersUntouched DEF Begin, db, Goto, TypeOK
  <1>2. ASSUME NEW r \in Requests, GetEntryForUpdate(r) PROVE CopyIsStored'
    BY <1>2, OthersUntouched DEF GetEntryForUpdate, Goto, Read, TypeOK, Step
  <1>3. ASSUME NEW r \in Requests, StageChange(r) PROVE CopyIsStored'
    <2>1. /\ table' = table /\ req' = req
          /\ mem'[r] = Assigned(req[r], mem[r], clock)
          /\ now'[r] = clock
          /\ Owned(r)
          /\ mem[r] = table[req[r].id]
          /\ pc'[r] = "staged"
      BY <1>3 DEF StageChange, db, Goto, Read, ReadClock, TypeOK
    <2>2. QED
      BY <1>3, <2>1, OthersUntouched DEF Step
  <1>4. ASSUME NEW r \in Requests, Commit(r) PROVE CopyIsStored'
    BY <1>4, CommitShape, CommitSparesLockedRows DEF TypeOK
  <1>5. ASSUME NEW r \in Requests, Step(r) \/ LoseAnswer(r) \/ Abort(r),
               ~Commit(r), ~GetEntryForUpdate(r), ~StageChange(r)
        PROVE  CopyIsStored'
    <2>1. /\ table' = table /\ req' = req
          /\ pc'[r] # "held" /\ (pc'[r] = "staged" => req[r].op = "create")
      BY <1>5 DEF Step, StageCreate, MissEntry, RaiseEntryAccessError, RefuseStatus,
         RefuseEarly, RefuseFlush, Respond, GetEntryById, RespondDetail, ReadListClock,
         ListEntriesByUser, LoseAnswer, Abort, Fail, Answer, Goto, db, TypeOK
    <2>2. QED
      BY <1>5, <2>1, OthersUntouched DEF EditOps
  <1>6. CASE Tick \/ StepBack \/ UNCHANGED vars
    BY <1>6, ClockSteps
  <1>7. QED
    BY <1>1, <1>2, <1>3, <1>4, <1>5, <1>6 DEF Next

LEMMA LegalStep ==
  ASSUME TypeOK, HandlerShape, HoldsItsLock, IdsAreTaken, NewIdsAreFresh,
         CopyIsStored, StagedChangeIsLegal, [Next]_vars
  PROVE  StagedChangeIsLegal'
  <1> USE DEF StagedChangeIsLegal, At
  <1>1. ASSUME NEW r \in Requests, Begin(r) PROVE StagedChangeIsLegal'
    BY <1>1, OthersUntouched DEF Begin, db, Goto, TypeOK
  <1>2. ASSUME NEW r \in Requests, StageChange(r) PROVE StagedChangeIsLegal'
    <2>1. /\ table' = table /\ req' = req /\ now'[r] = clock
          /\ mem[r] = table[req[r].id]
          /\ StatusAllows(req[r].op, mem[r].status)
          /\ req[r].op = "check_in" => ~TooEarly(mem[r], clock)
      BY <1>2 DEF StageChange, db, ReadClock, TypeOK, CopyIsStored
    <2>2. QED
      BY <1>2, <2>1, OthersUntouched DEF Step
  <1>3. ASSUME NEW r \in Requests, Commit(r) PROVE StagedChangeIsLegal'
    BY <1>3, CommitShape, CommitSparesLockedRows DEF TypeOK
  <1>4. ASSUME NEW r \in Requests, Step(r) \/ LoseAnswer(r) \/ Abort(r),
               ~Commit(r), ~StageChange(r)
        PROVE  StagedChangeIsLegal'
    <2>1. /\ table' = table /\ req' = req
          /\ pc'[r] = "staged" => req[r].op = "create"
      BY <1>4 DEF Step, StageCreate, GetEntryForUpdate, MissEntry, RaiseEntryAccessError,
         RefuseStatus, RefuseEarly, RefuseFlush, Respond, GetEntryById, RespondDetail,
         ReadListClock, ListEntriesByUser, LoseAnswer, Abort, Fail, Answer, Goto, db, TypeOK
    <2>2. QED
      BY <1>4, <2>1, OthersUntouched DEF EditOps
  <1>5. CASE Tick \/ StepBack \/ UNCHANGED vars
    BY <1>5, ClockSteps
  <1>6. QED
    BY <1>1, <1>2, <1>3, <1>4, <1>5 DEF Next

-----------------------------------------------------------------------------
(* Commits                                                                 *)

\* What each operation's commit does to its row.
LEMMA CommitEffect ==
  ASSUME TypeOK, HandlerShape, NewIdsAreFresh, CopyIsStored, StagedChangeIsLegal,
         NEW r \in Requests, Commit(r)
  PROVE  LET old == table[req[r].id]
             new == table'[req[r].id]
         IN  \/ /\ req[r].op = "create"
                /\ old = Null
                /\ req[r].id \notin born
                /\ new = NewRow(req[r], now[r])
                /\ new = mem[r]
             \/ /\ req[r].op = "delete"
                /\ old \in Row /\ old.status = "waiting"
                /\ new = Null
             \/ /\ req[r].op \in EditOps \ {"delete"}
                /\ old \in Row /\ new \in Row
                /\ StatusAllows(req[r].op, old.status)
                /\ req[r].op = "check_in" => ~TooEarly(old, now[r])
                /\ new = Assigned(req[r], old, now[r])
                /\ new = mem[r]
  <1> DEFINE old == table[req[r].id]
             new == table'[req[r].id]
  <1>1. At(r, "staged", EditOps \cup {"create"}) /\ Flushable(r)
    BY DEF Commit
  <1>2. /\ new = Flushed(r)
        /\ req[r].id \in EntryIds
        /\ req[r] \in Form
        /\ now[r] \in Time
    BY <1>1, CommitShape, HandlerTypes DEF At
  <1>3. CASE req[r].op = "create"
    BY <1>1, <1>2, <1>3, FlushedRow DEF NewIdsAreFresh, Creating, At, Exists
  <1>4. CASE req[r].op \in EditOps
    <2>1. At(r, "staged", EditOps)
      BY <1>1, <1>4 DEF At
    <2>2. /\ Owned(r)
          /\ mem[r] = Assigned(req[r], old, now[r])
          /\ StatusAllows(req[r].op, old.status)
          /\ req[r].op = "check_in" => ~TooEarly(old, now[r])
      BY <2>1 DEF CopyIsStored, StagedChangeIsLegal
    <2>3. old \in Row
      BY <1>2, <2>2 DEF Owned, TypeOK
    <2>4. CASE req[r].op = "delete"
      BY <1>1, <1>2, <2>2, <2>3, <2>4, FlushedRow DEF StatusAllows
    <2>5. CASE req[r].op \in EditOps \ {"delete"}
      <3>1. new = Assigned(req[r], old, now[r])
        BY <1>1, <1>2, <2>5, FlushedRow
      <3>2. new \in Row
        BY <1>2, <1>4, <2>3, <3>1, AssignedRow
      <3>3. QED
        BY <2>2, <2>3, <2>5, <3>1, <3>2
    <2>6. QED
      BY <1>4, <2>4, <2>5 DEF EditOps
  <1>5. QED
    BY <1>1, <1>3, <1>4 DEF At

\* A commit on a resolved row only ever changes its comment.
LEMMA CommitKeepsHistory ==
  ASSUME TypeOK, HandlerShape, NewIdsAreFresh, CopyIsStored, StagedChangeIsLegal,
         NEW r \in Requests, Commit(r)
  PROVE  KeepsHistory
  <1> DEFINE e   == req[r].id
             old == table[e]
             new == table'[e]
  <1>1. ASSUME old # Null, old.status \in Outcomes
        PROVE  /\ new # Null
               /\ new.owner   = old.owner
               /\ new.details = old.details
               /\ new.status  = old.status
               /\ new.created = old.created
               /\ new.checked = old.checked
    <2>1. /\ req[r].op \in EditOps \ {"delete"}
          /\ old \in Row /\ new \in Row
          /\ StatusAllows(req[r].op, old.status)
          /\ new = Assigned(req[r], old, now[r])
      BY <1>1, CommitEffect DEF Outcomes
    <2>2. req[r].op = "comment"
      BY <1>1, <2>1 DEF StatusAllows, Outcomes
    <2>3. req[r] \in Form /\ now[r] \in Time
      BY CommitShape, HandlerTypes
    <2>4. QED
      BY <2>1, <2>2, <2>3, AssignedRow, NullAssumption
  <1>2. \A x \in EntryIds : x # e => table'[x] = table[x]
    BY CommitShape
  <1>3. QED
    BY <1>1, <1>2, CommitShape DEF KeepsHistory, Exists

LEMMA HistoryStep ==
  ASSUME TypeOK, HandlerShape, NewIdsAreFresh, CopyIsStored, StagedChangeIsLegal,
         [Next]_vars
  PROVE  KeepsHistory
  <1>1. CASE \E r \in Requests : Commit(r)
    BY <1>1, CommitKeepsHistory
  <1>2. CASE ~ \E r \in Requests : Commit(r)
    BY <1>2, OnlyCommitWrites DEF KeepsHistory, Exists
  <1>3. QED
    BY <1>1, <1>2

LEMMA RowStep ==
  ASSUME TypeOK, HandlerShape, NewIdsAreFresh, CopyIsStored, StagedChangeIsLegal,
         NoEarlyResolution, [Next]_vars
  PROVE  NoEarlyResolution'
  <1> USE DEF NoEarlyResolution, Exists
  <1>1. ASSUME NEW r \in Requests, Commit(r) PROVE NoEarlyResolution'
    <2> DEFINE old == table[req[r].id]
               new == table'[req[r].id]
    <2>1. req[r] \in Form /\ now[r] \in Time /\ req[r].id \in EntryIds
      BY <1>1, CommitShape, HandlerTypes
    <2>2. CASE req[r].op = "create"
      <3>1. new = NewRow(req[r], now[r])
        BY <1>1, <2>2, CommitEffect DEF EditOps
      <3>2. new.status = "waiting" /\ new.checked = Null
        BY <2>1, <2>2, <3>1, NewRowIsRow
      <3>3. QED
        BY <1>1, <3>2, CommitShape
    <2>3. CASE req[r].op = "delete"
      <3>1. new = Null
        BY <1>1, <2>3, CommitEffect
      <3>2. QED
        BY <1>1, <3>1, CommitShape
    <2>4. CASE req[r].op \in EditOps \ {"delete"}
      <3>1. /\ old \in Row /\ new \in Row
            /\ req[r].op = "check_in" => ~TooEarly(old, now[r])
            /\ new = Assigned(req[r], old, now[r])
        BY <1>1, <2>4, CommitEffect DEF EditOps
      <3>2. CASE req[r].op = "check_in"
        <4>1. /\ new.status = req[r].result /\ new.checked = now[r]
              /\ new.created = old.created /\ req[r].result \in Outcomes
          BY <2>1, <2>4, <3>1, <3>2, AssignedRow, FormShape
        <4>2. new.checked # Null /\ new.checked >= new.created + WaitPeriod
          BY <2>1, <3>1, <3>2, <4>1, NullAssumption, WaitPeriodAssumption, ClockAssumption
          DEF TooEarly, Time, Row
        <4>3. QED
          BY <1>1, <4>1, <4>2, CommitShape DEF Outcomes
      <3>3. CASE req[r].op # "check_in"
        <4>1. /\ new.status = old.status /\ new.checked = old.checked
              /\ new.created = old.created
          BY <2>1, <2>4, <3>1, <3>3, AssignedRow
        <4>2. old # Null
          BY <3>1, NullAssumption
        <4>3. QED
          BY <1>1, <2>1, <4>1, <4>2, CommitShape
      <3>4. QED
        BY <3>2, <3>3
    <2>5. QED
      BY <1>1, <2>2, <2>3, <2>4, CommitShape
  <1>2. CASE ~ \E r \in Requests : Commit(r)
    BY <1>2, OnlyCommitWrites
  <1>3. QED
    BY <1>1, <1>2

-----------------------------------------------------------------------------
(* What clients were told                                                  *)

\* A successful check-in was already one before the step, or commits in it.
LEMMA CheckedInOrigin ==
  ASSUME TypeOK, HandlerShape, [Next]_vars, NEW s \in Requests, CheckedIn(s)'
  PROVE  \/ Commit(s) /\ req[s].op = "check_in" /\ req' = req /\ mem' = mem
         \/ CheckedIn(s) /\ req'[s] = req[s] /\ mem'[s] = mem[s]
  <1> USE DEF CheckedIn
  <1>1. ASSUME NEW r \in Requests, Begin(r) PROVE r # s
    BY <1>1 DEF Begin, Goto, TypeOK
  <1>2. ASSUME NEW r \in Requests, Step(r) \/ LoseAnswer(r) \/ Abort(r), r = s, ~Commit(s)
        PROVE  CheckedIn(s) /\ req'[s] = req[s] /\ mem'[s] = mem[s]
    BY <1>2 DEF Step, StageCreate, GetEntryForUpdate, MissEntry, RaiseEntryAccessError,
       RefuseStatus, RefuseEarly, StageChange, RefuseFlush, Respond, GetEntryById,
       RespondDetail, ReadListClock, ListEntriesByUser, LoseAnswer, Abort, Fail, Answer,
       Goto, At, TypeOK, HandlerShape
  <1>3. ASSUME Commit(s)
        PROVE  req[s].op = "check_in" /\ req' = req /\ mem' = mem
    BY <1>3 DEF Commit
  <1>4. CASE Tick \/ StepBack \/ UNCHANGED vars
    BY <1>4, ClockSteps
  <1>5. ASSUME NEW r \in Requests, Begin(r) \/ Step(r) \/ LoseAnswer(r) \/ Abort(r), r # s
        PROVE  CheckedIn(s) /\ req'[s] = req[s] /\ mem'[s] = mem[s]
    BY <1>5, OthersUntouched
  <1>6. QED
    BY <1>1, <1>2, <1>3, <1>4, <1>5 DEF Next

LEMMA ConfirmedStep ==
  ASSUME TypeOK, HandlerShape, NewIdsAreFresh, CopyIsStored, StagedChangeIsLegal,
         ConfirmedCheckInIsDurable, [Next]_vars
  PROVE  ConfirmedCheckInIsDurable'
  <1> SUFFICES ASSUME NEW s \in Requests, CheckedIn(s)'
               PROVE  /\ Exists(req[s].id)'
                      /\ (/\ table[req[s].id].status  = req[s].result
                          /\ table[req[s].id].status  = mem[s].status
                          /\ table[req[s].id].checked = mem[s].checked
                          /\ table[req[s].id].details = mem[s].details
                          /\ table[req[s].id].owner   = mem[s].owner)'
    BY DEF ConfirmedCheckInIsDurable
  <1>1. CASE Commit(s) /\ req[s].op = "check_in" /\ req' = req /\ mem' = mem
    <2>1. req[s] \in Form /\ now[s] \in Time
      BY <1>1, CommitShape, HandlerTypes
    <2>2. /\ table[req[s].id] \in Row /\ table'[req[s].id] \in Row
          /\ table'[req[s].id] = Assigned(req[s], table[req[s].id], now[s])
          /\ table'[req[s].id] = mem[s]
      BY <1>1, CommitEffect
    <2>3. Assigned(req[s], table[req[s].id], now[s]).status = req[s].result
      BY <1>1, <2>1, <2>2, AssignedRow DEF EditOps
    <2>4. QED
      BY <1>1, <2>2, <2>3, NullAssumption DEF Exists
  <1>2. CASE CheckedIn(s) /\ req'[s] = req[s] /\ mem'[s] = mem[s]
    <2>1. req[s].id \in EntryIds /\ req[s].result \in Outcomes
      BY <1>2, HandlerTypes, FormShape DEF CheckedIn
    <2>2. KeepsHistory
      BY HistoryStep
    <2>3. QED
      BY <1>2, <2>1, <2>2 DEF ConfirmedCheckInIsDurable, KeepsHistory, Exists
  <1>3. QED
    BY <1>1, <1>2, CheckedInOrigin

LEMMA WinnerStep ==
  ASSUME TypeOK, HandlerShape, NewIdsAreFresh, CopyIsStored, StagedChangeIsLegal,
         ConfirmedCheckInIsDurable, SingleCheckInWinner, [Next]_vars
  PROVE  SingleCheckInWinner'
  <1>1. ASSUME NEW r \in Requests, NEW s \in Requests, Commit(r), req[r].op = "check_in",
               CheckedIn(s), req[s].id = req[r].id
        PROVE  FALSE
    <2>1. table[req[r].id].status = "waiting"
      BY <1>1, CommitEffect DEF StatusAllows, EditOps
    <2>2. req[s].result \in Outcomes
      BY <1>1, HandlerTypes, FormShape DEF CheckedIn
    <2>3. QED
      BY <1>1, <2>1, <2>2 DEF ConfirmedCheckInIsDurable, Outcomes
  <1>2. ASSUME NEW r \in Requests, NEW s \in Requests, r # s, Commit(r), Commit(s)
        PROVE  FALSE
    BY <1>2 DEF Commit, At, Goto, TypeOK
  <1>3. ASSUME NEW r \in Requests, NEW s \in Requests, r # s,
               CheckedIn(r)', CheckedIn(s)', (req[r].id = req[s].id)'
        PROVE  FALSE
    BY <1>1, <1>2, <1>3, CheckedInOrigin DEF SingleCheckInWinner
  <1>4. QED
    BY <1>3 DEF SingleCheckInWinner

\* A taken id never gets a row again, nor its row another owner.
LEMMA TakenIdsKeepTheirOwner ==
  ASSUME TypeOK, HandlerShape, NewIdsAreFresh, CopyIsStored, StagedChangeIsLegal,
         [Next]_vars, NEW e \in EntryIds, e \in born, table'[e] # Null
  PROVE  table[e] # Null /\ table'[e].owner = table[e].owner
  <1>1. ASSUME NEW r \in Requests, Commit(r), e = req[r].id
        PROVE  table[e] # Null /\ table'[e].owner = table[e].owner
    <2>1. req[r].op # "create" /\ table'[req[r].id] # Null
      BY <1>1, CommitEffect DEF EditOps
    <2>2. /\ req[r].op \in EditOps /\ table[e] \in Row
          /\ table'[e] = Assigned(req[r], table[e], now[r])
      BY <1>1, <2>1, CommitEffect
    <2>3. req[r] \in Form /\ now[r] \in Time
      BY <1>1, CommitShape, HandlerTypes
    <2>4. QED
      BY <2>2, <2>3, AssignedRow, NullAssumption
  <1>2. ASSUME NEW r \in Requests, Commit(r), e # req[r].id
        PROVE  table'[e] = table[e]
    BY <1>2, CommitShape
  <1>3. QED
    BY <1>1, <1>2, OnlyCommitWrites

LEMMA MissStep ==
  ASSUME TypeOK, HandlerShape, IdsAreTaken, NewIdsAreFresh, CopyIsStored,
         StagedChangeIsLegal, MissesStayMisses, [Next]_vars
  PROVE  MissesStayMisses'
  <1> SUFFICES ASSUME NEW s \in Requests, pc'[s] = "missed", Owned(s)'
               PROVE  FALSE
    BY DEF MissesStayMisses
  <1>1. pc[s] # "idle" /\ req[s].op \in TargetOps /\ ~Owned(s) /\ req'[s] = req[s]
    <2>1. ASSUME NEW r \in Requests, Begin(r), r = s PROVE FALSE
      BY <2>1 DEF Begin, Goto, TypeOK
    <2>2. ASSUME NEW r \in Requests, Step(r) \/ LoseAnswer(r) \/ Abort(r), r = s
          PROVE  MissEntry(s)
      BY <2>2 DEF Step, StageCreate, GetEntryForUpdate, RaiseEntryAccessError,
         RefuseStatus, RefuseEarly, StageChange, Commit, RefuseFlush, Respond,
         GetEntryById, RespondDetail, ReadListClock, ListEntriesByUser, LoseAnswer,
         Abort, Fail, Answer, Goto, TypeOK
    <2>3. CASE MissEntry(s)
      BY <2>3 DEF MissEntry, At
    <2>4. ASSUME NEW r \in Requests, Begin(r) \/ Step(r) \/ LoseAnswer(r) \/ Abort(r), r # s
          PROVE  pc[s] = "missed" /\ req'[s] = req[s]
      BY <2>4, OthersUntouched
    <2>5. CASE Tick \/ StepBack \/ UNCHANGED vars
      BY <2>5, ClockSteps DEF MissesStayMisses, HandlerShape
    <2>6. QED
      BY <2>1, <2>2, <2>3, <2>4, <2>5 DEF Next, MissesStayMisses, HandlerShape
  <1>2. req[s].id \in EntryIds /\ req[s].id \in born
    BY <1>1, HandlerTypes DEF IdsAreTaken, TargetOps, EditOps
  <1>3. QED
    BY <1>1, <1>2, TakenIdsKeepTheirOwner DEF Owned

LEMMA RefusalStep ==
  ASSUME TypeOK, HandlerShape, IdsAreTaken, NewIdsAreFresh, CopyIsStored,
         StagedChangeIsLegal, MissesStayMisses, RefusalsStayTrue, [Next]_vars
  PROVE  RefusalsStayTrue'
  <1> DEFINE Told(s) ==
        /\ pc[s] = "done"
        /\ \/ reply[s] \in {"not_found", "forbidden"}
           \/ reply[s] = "invalid_entry_status" /\ req[s].op # "comment"
      True(s) ==
        /\ reply[s] = "not_found" => ~Exists(req[s].id)
        /\ reply[s] = "forbidden" =>
             (Exists(req[s].id) => table[req[s].id].owner # req[s].user)
        /\ reply[s] = "invalid_entry_status" /\ req[s].op # "comment" =>
             Exists(req[s].id) /\ table[req[s].id].status \in Outcomes
  <1>1. SUFFICES ASSUME NEW s \in Requests, Told(s)'
                 PROVE  True(s)'
    BY DEF RefusalsStayTrue
  <1>2. ASSUME NEW r \in Requests, Begin(r), r = s PROVE FALSE
    BY <1>1, <1>2 DEF Begin, Goto, TypeOK
  <1>3. ASSUME RaiseEntryAccessError(s)
        PROVE  True(s)'
    <2>1. /\ table' = table /\ req' = req /\ ~Owned(s)
          /\ reply'[s] = IF table[req[s].id] # Null THEN "forbidden" ELSE "not_found"
      BY <1>3 DEF RaiseEntryAccessError, Fail, Answer, At, TypeOK, MissesStayMisses
    <2>2. QED
      BY <2>1 DEF Owned, Exists
  <1>4. ASSUME RefuseStatus(s)
        PROVE  True(s)'
    <2>1. /\ table' = table /\ req' = req
          /\ reply'[s] = "invalid_entry_status"
          /\ Owned(s) /\ mem[s] = table[req[s].id]
          /\ ~StatusAllows(req[s].op, mem[s].status)
      BY <1>4 DEF RefuseStatus, Fail, Answer, At, TypeOK, CopyIsStored
    <2>2. mem[s] \in Row
      BY <1>4, HandlerTypes DEF RefuseStatus, At
    <2>3. QED
      BY <2>1, <2>2 DEF Owned, Exists, StatusAllows, Row, Statuses
  <1>5. ASSUME NEW r \in Requests, Step(r) \/ LoseAnswer(r) \/ Abort(r), r = s,
               ~RaiseEntryAccessError(s), ~RefuseStatus(s)
        PROVE  FALSE
    BY <1>1, <1>5 DEF Step, StageCreate, GetEntryForUpdate, MissEntry, RefuseEarly,
       StageChange, Commit, RefuseFlush, Respond, GetEntryById, RespondDetail,
       ReadListClock, ListEntriesByUser, LoseAnswer, Abort, Fail, Answer, Goto, TypeOK
  <1>6. ASSUME UNCHANGED <<pc[s], req[s], reply[s]>>
        PROVE  True(s)'
    <2>1. Told(s) /\ True(s)
      BY <1>1, <1>6 DEF RefusalsStayTrue
    <2>2. req[s].op \in TargetOps
      BY <2>1 DEF HandlerShape, TargetOps
    <2>3. req[s].id \in EntryIds /\ req[s].id \in born
      BY <2>1, <2>2, HandlerTypes DEF IdsAreTaken, TargetOps, EditOps
    <2>4. table'[req[s].id] # Null =>
            table[req[s].id] # Null /\ table'[req[s].id].owner = table[req[s].id].owner
      BY <2>3, TakenIdsKeepTheirOwner
    <2>5. table[req[s].id] # Null /\ table[req[s].id].status \in Outcomes =>
            table'[req[s].id] # Null /\ table'[req[s].id].status = table[req[s].id].status
      BY <2>3, HistoryStep DEF KeepsHistory, Exists
    <2>6. QED
      BY <1>6, <2>1, <2>4, <2>5 DEF Exists
  <1>7. ASSUME NEW r \in Requests, Begin(r) \/ Step(r) \/ LoseAnswer(r) \/ Abort(r), r # s
        PROVE  UNCHANGED <<pc[s], req[s], reply[s]>>
    BY <1>7, OthersUntouched
  <1>8. CASE Tick \/ StepBack \/ UNCHANGED vars
    BY <1>6, <1>8, ClockSteps
  <1>9. QED
    BY <1>2, <1>3, <1>4, <1>5, <1>6, <1>7, <1>8 DEF Next

-----------------------------------------------------------------------------
(* Clock readings and invitations                                          *)

\* A handler keeps its clock reading, makes a new one or drops it.
LEMMA ReadingOrigin ==
  ASSUME TypeOK, [Next]_vars, NEW s \in Requests
  PROVE  now'[s] \in {now[s], clock, Null}
  <1>1. ASSUME NEW r \in Requests, Begin(r) \/ Step(r) \/ LoseAnswer(r) \/ Abort(r)
        PROVE  now' \in {now, [now EXCEPT ![r] = clock], [now EXCEPT ![r] = Null]}
    BY <1>1 DEF Begin, Step, StageCreate, GetEntryForUpdate, MissEntry,
       RaiseEntryAccessError, RefuseStatus, RefuseEarly, StageChange, Commit, RefuseFlush,
       Respond, GetEntryById, RespondDetail, ReadListClock, ListEntriesByUser, LoseAnswer,
       Abort, Fail, ReadClock
  <1>2. CASE Tick \/ StepBack \/ UNCHANGED vars
    BY <1>2, ClockSteps
  <1>3. QED
    BY <1>1, <1>2 DEF Next, TypeOK

\* The handlers leave the clock alone, and only StepBack sets it back.
LEMMA ClockIsKept ==
  ASSUME TypeOK, [Next]_vars
  PROVE  /\ clock' \in Nat /\ clock \in Nat
         /\ clock' = clock \/ Tick \/ StepBack
         /\ ~ClockMayStepBack => clock <= clock'
  <1>1. ASSUME NEW r \in Requests, Begin(r) \/ Step(r) \/ LoseAnswer(r) \/ Abort(r)
        PROVE  clock' = clock
    BY <1>1 DEF Begin, Step, StageCreate, GetEntryForUpdate, MissEntry,
       RaiseEntryAccessError, RefuseStatus, RefuseEarly, StageChange, Commit, RefuseFlush,
       Respond, GetEntryById, RespondDetail, ReadListClock, ListEntriesByUser, LoseAnswer,
       Abort, Fail
  <1>2. clock \in Nat
    BY ClockAssumption DEF TypeOK, Time
  <1>3. CASE Tick
    BY <1>2, <1>3 DEF Tick
  <1>4. CASE StepBack
    BY <1>2, <1>4 DEF StepBack
  <1>5. QED
    BY <1>1, <1>2, <1>3, <1>4 DEF Next, vars

\* A stored row was stored before, or is the new row of a creation.
LEMMA RowOrigin ==
  ASSUME TypeOK, HandlerShape, NewIdsAreFresh, CopyIsStored, StagedChangeIsLegal,
         [Next]_vars, NEW e \in EntryIds, table'[e] # Null
  PROVE  \/ table[e] # Null /\ table'[e].created = table[e].created
         \/ /\ e \notin born
            /\ \E r \in Requests : now[r] \in Time /\ table'[e].created = now[r]
  <1>1. ASSUME NEW r \in Requests, Commit(r), e = req[r].id
        PROVE  \/ table[e] # Null /\ table'[e].created = table[e].created
               \/ e \notin born /\ now[r] \in Time /\ table'[e].created = now[r]
    <2>1. req[r] \in Form /\ now[r] \in Time
      BY <1>1, CommitShape, HandlerTypes
    <2>2. CASE req[r].op = "create"
      <3>1. e \notin born /\ table'[e] = NewRow(req[r], now[r])
        BY <1>1, <2>2, CommitEffect DEF EditOps
      <3>2. QED
        BY <2>1, <3>1 DEF NewRow
    <2>3. CASE req[r].op \in EditOps
      <3>1. table[e] \in Row /\ table'[e] = Assigned(req[r], table[e], now[r])
        BY <1>1, <2>3, CommitEffect DEF EditOps
      <3>2. QED
        BY <2>1, <2>3, <3>1, AssignedRow, NullAssumption
    <2>4. QED
      BY <1>1, <2>2, <2>3, CommitShape
  <1>2. ASSUME NEW r \in Requests, Commit(r), e # req[r].id
        PROVE  table'[e] = table[e]
    BY <1>2, CommitShape
  <1>3. QED
    BY <1>1, <1>2, OnlyCommitWrites

\* So was its updated_at, unless it is the stamp of the change committed now.
LEMMA StampOrigin ==
  ASSUME TypeOK, HandlerShape, NewIdsAreFresh, CopyIsStored, StagedChangeIsLegal,
         [Next]_vars, NEW e \in EntryIds, table'[e] # Null
  PROVE  \/ table[e] # Null /\ table'[e].updated = table[e].updated
         \/ \E r \in Requests : now[r] \in Time /\ table'[e].updated = now[r]
  <1>1. ASSUME NEW r \in Requests, Commit(r), e = req[r].id
        PROVE  now[r] \in Time /\ table'[e].updated = now[r]
    <2>1. req[r] \in Form /\ now[r] \in Time
      BY <1>1, CommitShape, HandlerTypes
    <2>2. CASE req[r].op = "create"
      <3>1. table'[e] = NewRow(req[r], now[r])
        BY <1>1, <2>2, CommitEffect DEF EditOps
      <3>2. QED
        BY <2>1, <3>1 DEF NewRow
    <2>3. CASE req[r].op \in EditOps
      <3>1. /\ table[e] \in Row /\ table'[e] = Assigned(req[r], table[e], now[r])
            /\ req[r].op \in {"update", "check_in", "comment"}
        BY <1>1, <2>3, CommitEffect DEF EditOps
      <3>2. QED
        BY <2>1, <3>1 DEF Assigned, Row
    <2>4. QED
      BY <1>1, <2>2, <2>3, CommitShape
  <1>2. ASSUME NEW r \in Requests, Commit(r), e # req[r].id
        PROVE  table'[e] = table[e]
    BY <1>2, CommitShape
  <1>3. QED
    BY <1>1, <1>2, OnlyCommitWrites

\* Ids stay taken.
LEMMA TakenIdsStayTaken ==
  ASSUME TypeOK, HandlerShape, [Next]_vars
  PROVE  born \subseteq born'
  <1>1. CASE \E r \in Requests : Commit(r)
    BY <1>1, CommitShape
  <1>2. CASE ~ \E r \in Requests : Commit(r)
    BY <1>2, OnlyCommitWrites
  <1>3. QED
    BY <1>1, <1>2

LEMMA PastStep ==
  ASSUME TypeOK, HandlerShape, HoldsItsLock, IdsAreTaken, NewIdsAreFresh,
         CopyIsStored, StagedChangeIsLegal, ReadingsArePast, [Next]_vars
  PROVE  ReadingsArePast'
  <1> SUFFICES ASSUME ~ClockMayStepBack
               PROVE  /\ \A s \in Requests : now'[s] # Null => now'[s] <= clock'
                      /\ \A e \in EntryIds : table'[e] # Null =>
                           table'[e].created <= clock' /\ table'[e].updated <= clock'
                      /\ \A s \in Requests : At(s, "staged", EditOps)' =>
                           /\ (table[req[s].id].created <= now[s])'
                           /\ (table[req[s].id].updated <= now[s])'
    BY DEF ReadingsArePast, ReadingFollowsRow, Exists
  <1> USE DEF ReadingsArePast, ReadingFollowsRow, Exists
  <1>1. clock \in Nat /\ clock' \in Nat /\ clock <= clock'
    BY ClockIsKept
  <1>2. ASSUME NEW s \in Requests, now'[s] # Null PROVE now'[s] <= clock'
    <2>1. now[s] # Null => now[s] \in Nat
      BY DEF TypeOK, Time
    <2>2. QED
      BY <1>1, <1>2, <2>1, ReadingOrigin
  <1>3. ASSUME NEW e \in EntryIds, table'[e] # Null PROVE table'[e].created <= clock'
    <2>1. CASE table[e] # Null /\ table'[e].created = table[e].created
      <3>1. table[e].created \in Nat
        BY <2>1 DEF TypeOK, Row, Time
      <3>2. QED
        BY <1>1, <2>1, <3>1
    <2>2. CASE \E r \in Requests : now[r] \in Time /\ table'[e].created = now[r]
      BY <1>1, <2>2, NullAssumption DEF Time
    <2>3. QED
      BY <1>3, <2>1, <2>2, RowOrigin
  <1>4. ASSUME NEW e \in EntryIds, table'[e] # Null PROVE table'[e].updated <= clock'
    <2>1. CASE table[e] # Null /\ table'[e].updated = table[e].updated
      <3>1. table[e].updated \in Nat
        BY <2>1 DEF TypeOK, Row, Time
      <3>2. QED
        BY <1>1, <2>1, <3>1
    <2>2. CASE \E r \in Requests : now[r] \in Time /\ table'[e].updated = now[r]
      BY <1>1, <2>2, NullAssumption DEF Time
    <2>3. QED
      BY <1>4, <2>1, <2>2, StampOrigin
  <1>5. ASSUME NEW s \in Requests, At(s, "staged", EditOps)'
        PROVE  /\ table'[req'[s].id].created <= now'[s]
               /\ table'[req'[s].id].updated <= now'[s]
    <2>1. CASE StageChange(s)
      <3>1. /\ Owned(s) /\ table' = table /\ req' = req /\ now'[s] = clock
            /\ req[s].id \in EntryIds
        BY <2>1, HandlerTypes
           DEF StageChange, At, CopyIsStored, ReadClock, db, TypeOK, EditOps
      <3>2. QED
        BY <3>1 DEF Owned
    <2>2. CASE /\ At(s, "staged", EditOps) /\ req'[s] = req[s] /\ now'[s] = now[s]
               /\ table'[req[s].id] = table[req[s].id]
      BY <2>2
    <2>3. ASSUME NEW r \in Requests, Begin(r) \/ Step(r) \/ LoseAnswer(r) \/ Abort(r),
                 r = s, ~StageChange(s)
          PROVE  FALSE
      BY <1>5, <2>3 DEF Begin, Step, StageCreate, GetEntryForUpdate, MissEntry,
         RaiseEntryAccessError, RefuseStatus, RefuseEarly, Commit, RefuseFlush, Respond,
         GetEntryById, RespondDetail, ReadListClock, ListEntriesByUser, LoseAnswer, Abort,
         Fail, Answer, Goto, At, TypeOK, EditOps
    <2>4. ASSUME NEW r \in Requests, Begin(r) \/ Step(r) \/ LoseAnswer(r) \/ Abort(r), r # s
          PROVE  /\ At(s, "staged", EditOps) /\ req'[s] = req[s] /\ now'[s] = now[s]
                 /\ table'[req[s].id] = table[req[s].id]
      <3>1. At(s, "staged", EditOps) /\ req'[s] = req[s] /\ now'[s] = now[s]
        BY <1>5, <2>4, OthersUntouched DEF At
      <3>2. CASE \E q \in Requests : Commit(q)
        <4>1. PICK q \in Requests : Commit(q)
          BY <3>2
        <4>2. q # s
          BY <1>5, <4>1, CommitShape DEF At, TypeOK
        <4>3. QED
          BY <3>1, <4>1, <4>2, CommitSparesLockedRows
      <3>3. QED
        BY <3>1, <3>2, OnlyCommitWrites
    <2>5. CASE Tick \/ StepBack \/ UNCHANGED vars
      BY <1>5, <2>2, <2>5, ClockSteps DEF At
    <2>6. QED
      BY <2>1, <2>2, <2>3, <2>4, <2>5 DEF Next
  <1>6. QED
    BY <1>2, <1>3, <1>4, <1>5

LEMMA KnownRowStep ==
  ASSUME TypeOK, HandlerShape, IdsAreTaken, NewIdsAreFresh, CopyIsStored,
         StagedChangeIsLegal, AnswersKnowTheirRow, [Next]_vars
  PROVE  AnswersKnowTheirRow'
  <1> SUFFICES ASSUME NEW s \in Requests, pc'[s] \in {"read", "committed"}
               PROVE  /\ req'[s].id \in born'
                      /\ table'[req'[s].id] # Null =>
                           table'[req'[s].id].created = mem'[s].created
    BY DEF AnswersKnowTheirRow, Exists
  <1>1. CASE Commit(s)
    <2>1. req' = req /\ mem' = mem /\ req[s].id \in born'
      BY <1>1, CommitShape
    <2>2. table'[req[s].id] # Null => table'[req[s].id] = mem[s]
      BY <1>1, CommitEffect
    <2>3. QED
      BY <2>1, <2>2
  <1>2. CASE GetEntryById(s)
    <2>1. /\ table' = table /\ born' = born /\ req' = req
          /\ Owned(s) /\ mem'[s] = table[req[s].id] /\ req[s].id \in EntryIds
      BY <1>2, HandlerTypes DEF GetEntryById, db, Read, At, TypeOK
    <2>2. QED
      BY <2>1 DEF Owned, IdsAreTaken, Exists
  <1>3. CASE pc[s] \in {"read", "committed"} /\ req'[s] = req[s] /\ mem'[s] = mem[s]
    <2>1. req[s].id \in born /\ req[s].id \in EntryIds
      BY <1>3 DEF AnswersKnowTheirRow, TypeOK
    <2>2. table'[req[s].id] # Null =>
            /\ table[req[s].id] # Null
            /\ table'[req[s].id].created = table[req[s].id].created
      BY <2>1, RowOrigin
    <2>3. QED
      BY <1>3, <2>1, <2>2, TakenIdsStayTaken DEF AnswersKnowTheirRow, Exists
  <1>4. ASSUME NEW r \in Requests, Begin(r) \/ Step(r) \/ LoseAnswer(r) \/ Abort(r), r = s,
               ~Commit(s), ~GetEntryById(s)
        PROVE  FALSE
    BY <1>4 DEF Begin, Step, StageCreate, GetEntryForUpdate, MissEntry,
       RaiseEntryAccessError, RefuseStatus, RefuseEarly, StageChange, RefuseFlush, Respond,
       RespondDetail, ReadListClock, ListEntriesByUser, LoseAnswer, Abort, Fail, Answer,
       Goto, TypeOK
  <1>5. ASSUME NEW r \in Requests, Begin(r) \/ Step(r) \/ LoseAnswer(r) \/ Abort(r), r # s
        PROVE  pc[s] \in {"read", "committed"} /\ req'[s] = req[s] /\ mem'[s] = mem[s]
    BY <1>5, OthersUntouched
  <1>6. CASE Tick \/ StepBack \/ UNCHANGED vars
    BY <1>3, <1>6, ClockSteps
  <1>7. QED
    BY <1>1, <1>2, <1>3, <1>4, <1>5, <1>6 DEF Next

\* A bucket is an invitation only when the wait is over.
LEMMA InvitingBucket ==
  ASSUME NEW row, NEW t, Bucket(row, t) = "needs_check_in"
  PROVE  row.created + WaitPeriod <= t
  BY DEF Bucket, Outcomes

\* Only an answer invites, and only to check in entries whose wait is over.
LEMMA InvitationOrigin ==
  ASSUME TypeOK, HandlerShape, IdsAreTaken, ReadingsArePast, AnswersKnowTheirRow,
         ~ClockMayStepBack, [Next]_vars, NEW e \in invited', e \notin invited
  PROVE  /\ e \in born
         /\ table' = table
         /\ table[e] # Null => table[e].created + WaitPeriod <= clock
  <1> DEFINE Eligible == e \in born /\ (table[e] # Null => table[e].created + WaitPeriod <= clock)
  <1>1. clock \in Nat /\ WaitPeriod \in Nat
    BY ClockIsKept, WaitPeriodAssumption
  <1>2. ASSUME NEW r \in Requests, pc[r] \in {"read", "committed"}, NEW t \in Nat, t <= clock,
               Show([x \in {req[r].id} |-> Bucket(mem[r], t)])
        PROVE  Eligible
    <2>1. e = req[r].id /\ Bucket(mem[r], t) = "needs_check_in"
      BY <1>2 DEF Show
    <2>2. mem[r].created + WaitPeriod <= t
      BY <2>1, InvitingBucket
    <2>3. mem[r].created \in Nat
      BY <1>2, HandlerTypes DEF Row, Time
    <2>4. mem[r].created + WaitPeriod <= clock
      BY <1>1, <1>2, <2>2, <2>3
    <2>5. QED
      BY <1>2, <2>1, <2>4 DEF AnswersKnowTheirRow, Exists
  <1>3. ASSUME NEW r \in Requests, Respond(r) PROVE Eligible /\ table' = table
    <2>1. now[r] \in Nat /\ now[r] <= clock
      BY <1>3, HandlerTypes, NullAssumption DEF Respond, ReadingsArePast, Time
    <2>2. Show([x \in {req[r].id} |-> Bucket(mem[r], now[r])])
      BY <1>3 DEF Respond
    <2>3. QED
      BY <1>2, <1>3, <2>1, <2>2 DEF Respond, db
  <1>4. ASSUME NEW r \in Requests, RespondDetail(r) PROVE Eligible /\ table' = table
    <2>1. pc[r] = "read" /\ Show([x \in {req[r].id} |-> Bucket(mem[r], clock)])
      BY <1>4 DEF RespondDetail
    <2>2. pc[r] \in {"read", "committed"} /\ clock <= clock
      BY <1>1, <2>1
    <2>3. Eligible
      BY <1>1, <1>2, <2>1, <2>2
    <2>4. QED
      BY <1>4, <2>3 DEF RespondDetail, db
  <1>5. ASSUME NEW r \in Requests, ListEntriesByUser(r) PROVE Eligible /\ table' = table
    <2> DEFINE mine == {x \in EntryIds : table[x] # Null /\ table[x].owner = req[r].user}
    <2>1. e \in mine /\ Bucket(table[e], now[r]) = "needs_check_in"
      BY <1>5 DEF ListEntriesByUser, Show
    <2>2. now[r] \in Nat /\ now[r] <= clock
      BY <1>5, HandlerTypes, NullAssumption DEF ListEntriesByUser, ReadingsArePast, Time
    <2>3. table[e].created + WaitPeriod <= now[r]
      BY <2>1, InvitingBucket
    <2>4. table[e].created \in Nat
      BY <2>1 DEF TypeOK, Row, Time
    <2>5. table[e].created + WaitPeriod <= clock
      BY <1>1, <2>2, <2>3, <2>4
    <2>6. QED
      BY <1>5, <2>1, <2>5 DEF IdsAreTaken, Exists, ListEntriesByUser, db
  <1>6. ASSUME NEW r \in Requests, Begin(r) \/ Step(r) \/ LoseAnswer(r) \/ Abort(r),
               ~Respond(r), ~RespondDetail(r), ~ListEntriesByUser(r)
        PROVE  invited' = invited
    BY <1>6 DEF Begin, Step, StageCreate, GetEntryForUpdate, MissEntry,
       RaiseEntryAccessError, RefuseStatus, RefuseEarly, StageChange, Commit, RefuseFlush,
       GetEntryById, ReadListClock, LoseAnswer, Abort, Fail, history
  <1>7. CASE Tick \/ StepBack \/ UNCHANGED vars
    BY <1>7, ClockSteps
  <1>8. QED
    BY <1>3, <1>4, <1>5, <1>6, <1>7 DEF Next

LEMMA InvitationsStep ==
  ASSUME TypeOK, HandlerShape, IdsAreTaken, NewIdsAreFresh, CopyIsStored,
         StagedChangeIsLegal, ReadingsArePast, AnswersKnowTheirRow, InvitationsStand,
         [Next]_vars
  PROVE  InvitationsStand'
  <1> SUFFICES ASSUME ~ClockMayStepBack, NEW e \in invited'
               PROVE  /\ e \in born'
                      /\ table'[e] # Null => table'[e].created + WaitPeriod <= clock'
    BY DEF InvitationsStand, Exists
  <1>1. e \in born /\ (table[e] # Null => table[e].created + WaitPeriod <= clock)
    <2>1. CASE e \in invited
      BY <2>1 DEF InvitationsStand, Exists
    <2>2. CASE e \notin invited
      BY <2>2, InvitationOrigin
    <2>3. QED
      BY <2>1, <2>2
  <1>2. e \in EntryIds
    BY <1>1 DEF TypeOK
  <1>3. table'[e] # Null => table[e] # Null /\ table'[e].created = table[e].created
    BY <1>1, <1>2, RowOrigin
  <1>4. table[e] # Null => table[e].created \in Nat
    BY <1>2 DEF TypeOK, Row, Time
  <1>5. clock \in Nat /\ clock' \in Nat /\ clock <= clock' /\ WaitPeriod \in Nat
    BY ClockIsKept, WaitPeriodAssumption
  <1>6. QED
    BY <1>1, <1>3, <1>4, <1>5, TakenIdsStayTaken

LEMMA HeardStep ==
  ASSUME TypeOK, HeardIsInvited, [Next]_vars
  PROVE  HeardIsInvited'
  <1> SUFFICES ASSUME NEW s \in Requests, heard'[s]
               PROVE  pc'[s] # "idle" /\ req'[s].op = "check_in" /\ req'[s].id \in invited'
    BY DEF HeardIsInvited
  <1>1. invited \subseteq invited'
    <2>1. ASSUME NEW r \in Requests, Begin(r) \/ Step(r) \/ LoseAnswer(r) \/ Abort(r)
          PROVE  invited \subseteq invited'
      BY <2>1 DEF Begin, Step, StageCreate, GetEntryForUpdate, MissEntry,
         RaiseEntryAccessError, RefuseStatus, RefuseEarly, StageChange, Commit, RefuseFlush,
         Respond, GetEntryById, RespondDetail, ReadListClock, ListEntriesByUser, LoseAnswer,
         Abort, Fail, Show, history
    <2>2. CASE Tick \/ StepBack \/ UNCHANGED vars
      BY <2>2, ClockSteps
    <2>3. QED
      BY <2>1, <2>2 DEF Next
  <1>2. ASSUME Begin(s)
        PROVE  pc'[s] # "idle" /\ req'[s].op = "check_in" /\ req'[s].id \in invited'
    BY <1>1, <1>2 DEF Begin, Goto, TypeOK
  <1>3. ASSUME heard'[s] = heard[s], req'[s] = req[s], pc[s] # "idle" => pc'[s] # "idle"
        PROVE  pc'[s] # "idle" /\ req'[s].op = "check_in" /\ req'[s].id \in invited'
    BY <1>1, <1>3 DEF HeardIsInvited
  <1>4. ASSUME Step(s) \/ LoseAnswer(s) \/ Abort(s)
        PROVE  heard'[s] = heard[s] /\ req'[s] = req[s] /\ pc'[s] # "idle"
    BY <1>4 DEF Step, StageCreate, GetEntryForUpdate, MissEntry, RaiseEntryAccessError,
       RefuseStatus, RefuseEarly, StageChange, Commit, RefuseFlush, Respond, GetEntryById,
       RespondDetail, ReadListClock, ListEntriesByUser, LoseAnswer, Abort, Fail, Answer,
       Goto, history, TypeOK
  <1>5. ASSUME NEW r \in Requests, Begin(r) \/ Step(r) \/ LoseAnswer(r) \/ Abort(r), r # s
        PROVE  heard'[s] = heard[s] /\ req'[s] = req[s] /\ pc'[s] = pc[s]
    BY <1>5, OthersUntouched
  <1>6. CASE Tick \/ StepBack \/ UNCHANGED vars
    BY <1>3, <1>6, ClockSteps
  <1>7. QED
    BY <1>2, <1>3, <1>4, <1>5, <1>6 DEF Next

\* A check-in of an entry that the client saw as eligible finds it eligible.
LEMMA HonouredStep ==
  ASSUME TypeOK, HandlerShape, CopyIsStored, InvitationsStand, HeardIsInvited,
         InvitationIsHonoured, [Next]_vars
  PROVE  InvitationIsHonoured'
  <1> SUFFICES ASSUME ~ClockMayStepBack, NEW s \in Requests, heard'[s],
                      reply'[s] = "early_check_in"
               PROVE  FALSE
    BY DEF InvitationIsHonoured
  <1>1. CASE heard'[s] = heard[s] /\ reply'[s] = reply[s]
    BY <1>1 DEF InvitationIsHonoured
  <1>2. CASE RefuseEarly(s)
    <2>1. heard[s] /\ pc[s] = "held" /\ TooEarly(mem[s], clock)
      BY <1>2 DEF RefuseEarly, At, Fail, history
    <2>2. req[s].id \in invited /\ table[req[s].id] # Null /\ mem[s] = table[req[s].id]
      BY <2>1 DEF HeardIsInvited, CopyIsStored, Owned
    <2>3. mem[s].created + WaitPeriod <= clock
      BY <2>2 DEF InvitationsStand, Exists
    <2>4. mem[s].created \in Nat /\ clock \in Nat /\ WaitPeriod \in Nat
      BY <2>1, HandlerTypes, ClockIsKept, WaitPeriodAssumption DEF Row, Time
    <2>5. QED
      BY <2>1, <2>3, <2>4 DEF TooEarly
  <1>3. ASSUME Begin(s) PROVE FALSE
    BY <1>3 DEF Begin, TypeOK
  <1>4. ASSUME Step(s) \/ LoseAnswer(s) \/ Abort(s), ~RefuseEarly(s)
        PROVE  heard'[s] = heard[s] /\ reply'[s] = reply[s]
    BY <1>4 DEF Step, StageCreate, GetEntryForUpdate, MissEntry, RaiseEntryAccessError,
       RefuseStatus, StageChange, Commit, RefuseFlush, Respond, GetEntryById,
       RespondDetail, ReadListClock, ListEntriesByUser, LoseAnswer, Abort, Fail, Answer,
       history, TypeOK
  <1>5. ASSUME NEW r \in Requests, Begin(r) \/ Step(r) \/ LoseAnswer(r) \/ Abort(r), r # s
        PROVE  heard'[s] = heard[s] /\ reply'[s] = reply[s]
    BY <1>5, OthersUntouched
  <1>6. CASE Tick \/ StepBack \/ UNCHANGED vars
    BY <1>1, <1>6, ClockSteps
  <1>7. QED
    BY <1>1, <1>2, <1>3, <1>4, <1>5, <1>6 DEF Next

-----------------------------------------------------------------------------
(* The invariant                                                           *)

LEMMA InvariantInit == Init => IInv
  <1> SUFFICES ASSUME Init PROVE IInv
    OBVIOUS
  <1>1. TypeOK
    BY ClockAssumption DEF Init, TypeOK, Places, Replies, Time
  <1>2. HandlerShape /\ HoldsItsLock /\ LocksAreHeld /\ IdsAreTaken /\ NewIdsAreFresh
    BY DEF Init, HandlerShape, HoldsItsLock, LocksAreHeld, IdsAreTaken, NewIdsAreFresh, Creating,
       CheckedIn, At, Exists
  <1>3. CopyIsStored /\ StagedChangeIsLegal /\ MissesStayMisses
    BY DEF Init, CopyIsStored, StagedChangeIsLegal, MissesStayMisses, At
  <1>4. NoEarlyResolution /\ ConfirmedCheckInIsDurable /\ SingleCheckInWinner
        /\ RefusalsStayTrue
    BY DEF Init, NoEarlyResolution, ConfirmedCheckInIsDurable, SingleCheckInWinner,
       RefusalsStayTrue, CheckedIn, Exists
  <1>5. ReadingsArePast /\ AnswersKnowTheirRow /\ InvitationsStand /\ HeardIsInvited
        /\ InvitationIsHonoured
    BY DEF Init, ReadingsArePast, ReadingFollowsRow, AnswersKnowTheirRow, InvitationsStand, HeardIsInvited,
       InvitationIsHonoured, At, Exists
  <1>6. QED
    BY <1>1, <1>2, <1>3, <1>4, <1>5 DEF IInv

LEMMA InvariantStep == IInv /\ [Next]_vars => IInv'
  <1> SUFFICES ASSUME IInv, [Next]_vars PROVE IInv'
    OBVIOUS
  <1>1. TypeOK' /\ HandlerShape'
    BY TypeStep, ShapeStep DEF IInv
  <1>2. HoldsItsLock' /\ LocksAreHeld' /\ IdsAreTaken' /\ NewIdsAreFresh'
    BY LockStep, LockOriginStep, IdsStep, NewIdsStep DEF IInv
  <1>3. CopyIsStored' /\ StagedChangeIsLegal'
    BY CopyStep, LegalStep DEF IInv
  <1>4. MissesStayMisses' /\ RefusalsStayTrue'
    BY MissStep, RefusalStep DEF IInv
  <1>5. NoEarlyResolution' /\ ConfirmedCheckInIsDurable' /\ SingleCheckInWinner'
    BY RowStep, ConfirmedStep, WinnerStep DEF IInv
  <1>6. ReadingsArePast' /\ AnswersKnowTheirRow'
    BY PastStep, KnownRowStep DEF IInv
  <1>7. InvitationsStand' /\ HeardIsInvited' /\ InvitationIsHonoured'
    BY InvitationsStep, HeardStep, HonouredStep DEF IInv
  <1>8. QED
    BY <1>1, <1>2, <1>3, <1>4, <1>5, <1>6, <1>7 DEF IInv

\* Every reachable state satisfies the inductive invariant: locks, locked copies,
\* stored rows and given answers agree at every point of every interleaving.
THEOREM InvariantHolds == Spec => []IInv
  BY InvariantInit, InvariantStep, PTL DEF Spec

-----------------------------------------------------------------------------
(* The safety properties                                                   *)

\* Every variable keeps its type in every reachable state.
THEOREM TypeCorrect == Spec => []TypeOK
  BY InvariantHolds, PTL DEF IInv

\* No lost update: what a mutation checked, writes and answers with is the stored
\* row with only its own columns changed, and its clock reading is no older than that
\* row, for any number of concurrent requests.
THEOREM NoLostUpdate == Spec => []LockedCopyIsCurrent
  <1>1. IInv => LockedCopyIsCurrent
    BY DEF IInv, ReadingsArePast, LockedCopyIsCurrent
  <1>2. QED
    BY <1>1, InvariantHolds, PTL

\* No entry is ever stored as resolved before its wait is over.
THEOREM WaitIsKept == Spec => []NoEarlyResolution
  BY InvariantHolds, PTL DEF IInv

\* A check-in that was answered with success is durable.
THEOREM CheckInIsDurable == Spec => []ConfirmedCheckInIsDurable
  BY InvariantHolds, PTL DEF IInv

\* Concurrent check-ins of one entry have at most one winner.
THEOREM OneCheckInWins == Spec => []SingleCheckInWinner
  BY InvariantHolds, PTL DEF IInv

\* A 403, a 404 or a 409 stays true of the entry after it was sent.
THEOREM RefusalsAreTruthful == Spec => []RefusalsStayTrue
  BY InvariantHolds, PTL DEF IInv

\* No chain and no cycle of requests waiting for row locks, with any number of
\* requests and entries: the holder a request waits for is at work.
THEOREM WaitsDoNotChain == Spec => []NoWaitCycle
  <1>1. ASSUME IInv
        PROVE  NoWaitCycle
    <2> SUFFICES ASSUME NEW r \in Requests, Waits(r)
                 PROVE  LET holder == locks[req[r].id]
                        IN  /\ pc[holder] \in {"held", "staged"} /\ req[holder].id = req[r].id
                            /\ \A e \in EntryIds : locks[e] = holder => e = req[r].id
      BY DEF NoWaitCycle
    <2>1. req[r].id \in EntryIds /\ locks[req[r].id] # Null
      BY <1>1, HandlerTypes DEF IInv, Waits, At, EditOps
    <2>2. QED
      BY <1>1, <2>1 DEF IInv, LocksAreHeld, At
  <1>2. QED
    BY <1>1, InvariantHolds, PTL

\* No validated mutation is turned into a 500 by the table's CHECK constraints: none
\* at all while the clock does not step back, no creation, deletion or check-in ever.
THEOREM StagedWritesAreAccepted == Spec => []StagedWriteIsAccepted
  <1>1. ASSUME IInv, NEW r \in Requests, pc[r] = "staged",
               ~ClockMayStepBack \/ req[r].op \in {"create", "delete", "check_in"}
        PROVE  Flushable(r)
    <2> DEFINE old == table[req[r].id]
    <2>1. /\ req[r] \in Form /\ req[r].id \in EntryIds /\ now[r] \in Time
          /\ req[r].op \in EditOps \cup {"create"}
      BY <1>1, HandlerTypes DEF IInv, HandlerShape, EditOps
    <2>2. CASE req[r].op = "create"
      <3>1. At(r, "staged", {"create"})
        BY <1>1, <2>2 DEF At
      <3>2. old = Null /\ mem[r] = NewRow(req[r], now[r])
        BY <1>1, <2>1, <3>1 DEF IInv, NewIdsAreFresh, Creating, IdsAreTaken, Exists
      <3>3. QED
        BY <2>1, <2>2, <3>2, NewRowIsRow DEF Flushable, Flushed
    <2>3. CASE req[r].op = "delete"
      BY <2>3 DEF Flushable
    <2>4. CASE req[r].op \in EditOps \ {"delete"}
      <3> DEFINE new == Assigned(req[r], old, now[r])
      <3>1. At(r, "staged", EditOps)
        BY <1>1, <2>4 DEF At
      <3>2. /\ old \in Row /\ StatusAllows(req[r].op, old.status)
            /\ req[r].op = "check_in" => ~TooEarly(old, now[r])
        BY <1>1, <2>1, <3>1 DEF IInv, CopyIsStored, Owned, TypeOK, StagedChangeIsLegal
      <3>3. /\ old # Null /\ new.created = old.created
            /\ req[r].op # "check_in" => new.status = old.status /\ new.checked = old.checked
            /\ req[r].op = "check_in" => new.status = req[r].result /\ new.checked = now[r]
        BY <2>1, <2>4, <3>2, AssignedRow, NullAssumption
      <3>4. new.updated = now[r]
        BY <2>4, <3>2 DEF Assigned, EditOps, Row
      <3>5. old.created <= now[r]
        <4>1. CASE req[r].op = "check_in"
          <5>1. old.created \in Nat /\ now[r] \in Nat
            BY <2>1, <3>2 DEF Row, Time
          <5>2. ~(now[r] < old.created + WaitPeriod)
            BY <3>2, <4>1 DEF TooEarly
          <5>3. QED
            BY <5>1, <5>2, WaitPeriodAssumption
        <4>2. CASE req[r].op # "check_in"
          <5>1. ~ClockMayStepBack
            BY <1>1, <2>4, <4>2 DEF EditOps
          <5>2. QED
            BY <1>1, <3>1, <5>1 DEF IInv, ReadingsArePast
        <4>3. QED
          BY <4>1, <4>2
      <3>6. old.created \in Nat /\ now[r] \in Nat /\ now[r] # Null
        BY <2>1, <3>2, NullAssumption DEF Row, Time
      <3>7. SatisfiesChecks(new)
        <4>1. CASE req[r].op = "check_in"
          <5>1. new.status # "waiting"
            BY <2>1, <3>3, <4>1, FormShape DEF Outcomes
          <5>2. QED
            BY <3>3, <3>4, <3>5, <3>6, <4>1, <5>1 DEF SatisfiesChecks
        <4>2. CASE req[r].op # "check_in"
          <5>1. /\ old.status = "waiting" => old.checked = Null
                /\ old.status # "waiting" =>
                     old.checked # Null /\ old.checked >= old.created + WaitPeriod
            BY <1>1, <2>1, <3>3 DEF IInv, NoEarlyResolution, Exists
          <5>2. old.checked # Null => old.checked \in Nat
            BY <3>2 DEF Row, Time
          <5>3. old.checked # Null => old.checked >= old.created
            BY <3>6, <5>1, <5>2, WaitPeriodAssumption
          <5>4. QED
            BY <3>3, <3>4, <3>5, <3>6, <4>2, <5>1, <5>3 DEF SatisfiesChecks
        <4>3. QED
          BY <4>1, <4>2
      <3>8. QED
        BY <2>4, <3>3, <3>7 DEF Flushable, Flushed, EditOps
    <2>5. QED
      BY <2>1, <2>2, <2>3, <2>4 DEF EditOps
  <1>2. IInv => StagedWriteIsAccepted
    BY <1>1 DEF StagedWriteIsAccepted
  <1>3. QED
    BY <1>2, InvariantHolds, PTL

\* While the clock does not step back, whoever was shown that an entry can be checked
\* in is never told that it is too early, in any interleaving.
THEOREM InvitationsAreHonoured == Spec => []InvitationIsHonoured
  BY InvariantHolds, PTL DEF IInv

\* Resolved entries are history: no step removes or rewrites one.
THEOREM HistoryIsKept == Spec => ResolvedIsHistory
  <1>1. IInv /\ [Next]_vars => [KeepsHistory]_vars
    BY HistoryStep DEF IInv
  <1>2. QED
    BY <1>1, InvariantHolds, PTL DEF Spec, ResolvedIsHistory

-----------------------------------------------------------------------------
(* Refinement: the service implements EntryLifecycle                       *)

AbstractEntries == [e \in EntryIds |-> Abstract(table[e])]
AbstractDeleted == {e \in born : table[e] = Null}

LEMMA AbstractOfRow ==
  ASSUME NEW row \in Row
  PROVE  /\ row # Null
         /\ Abstract(row) # Null
         /\ Abstract(row) =
              [owner   |-> row.owner,   details |-> row.details, status  |-> row.status,
               comment |-> row.comment, created |-> row.created, checked |-> row.checked]
         /\ Abstract(row) \in Summary
  <1>1. row # Null
    BY NullAssumption
  <1>2. Abstract(row) \in Summary
    BY <1>1 DEF Abstract, Row, Summary
  <1>3. QED
    BY <1>1, <1>2, NullAssumption DEF Abstract

LEMMA InitImplements == Init => Lifecycle!Init
  BY DEF Init, Lifecycle!Init, Abstract

LEMMA LifecycleStep ==
  ASSUME NEW e \in EntryIds,
         \/ Lifecycle!Create(e) \/ Lifecycle!Edit(e) \/ Lifecycle!Delete(e)
         \/ Lifecycle!Resolve(e) \/ Lifecycle!Reflect(e)
  PROVE  Lifecycle!Next
  BY DEF Lifecycle!Next

\* Each commit is one operation of the lifecycle on its row.
LEMMA CommitImplements ==
  ASSUME IInv, NEW r \in Requests, Commit(r)
  PROVE  Lifecycle!Next
  <1> DEFINE e   == req[r].id
             old == table[e]
             new == table'[e]
             f   == req[r]
  <1>1. /\ e \in EntryIds
        /\ f \in Form
        /\ now[r] \in Time
        /\ table' = [table EXCEPT ![e] = new]
        /\ table \in [EntryIds -> Row \cup {Null}]
        /\ born' = born \cup {e}
        /\ old # Null => e \in born
    BY CommitShape, HandlerTypes DEF IInv, TypeOK, IdsAreTaken, Exists
  <1>2. AbstractEntries' = [AbstractEntries EXCEPT ![e] = Abstract(new)]
    BY <1>1 DEF AbstractEntries
  <1>3. AbstractEntries[e] = Abstract(old)
    BY <1>1 DEF AbstractEntries
  <1>4. /\ AbstractDeleted \subseteq EntryIds /\ AbstractDeleted' \subseteq EntryIds
        /\ \A x \in EntryIds \ {e} : x \in AbstractDeleted' <=> x \in AbstractDeleted
        /\ e \in AbstractDeleted' <=> new = Null
        /\ e \in AbstractDeleted <=> e \in born /\ old = Null
    <2>1. born \subseteq EntryIds /\ born' \subseteq EntryIds
      BY <1>1 DEF IInv, TypeOK
    <2>2. \A x \in EntryIds \ {e} : table'[x] = table[x] /\ (x \in born' <=> x \in born)
      BY <1>1
    <2>3. QED
      BY <1>1, <2>1, <2>2 DEF AbstractDeleted
  <1>5. CASE f.op = "create"
    <2>1. old = Null /\ e \notin born /\ new = NewRow(f, now[r])
      BY <1>5, CommitEffect DEF IInv, EditOps
    <2>2. new \in Row
      BY <1>1, <1>5, <2>1, NewRowIsRow
    <2>3. Abstract(new) = [owner   |-> f.user, details |-> f.details, status  |-> "waiting",
                           comment |-> Null, created |-> now[r], checked |-> Null]
      BY <2>1, <2>2, AbstractOfRow DEF NewRow
    <2>4. AbstractEntries[e] = Null /\ e \notin AbstractDeleted
      BY <1>3, <2>1 DEF Abstract, AbstractDeleted
    <2>5. AbstractDeleted' = AbstractDeleted
      BY <1>4, <2>1, <2>2, AbstractOfRow
    <2>6. f.user \in Users /\ f.details \in Details
      BY <1>1, <1>5, FormShape
    <2>7. Lifecycle!Create(e)
      BY <1>1, <1>2, <2>3, <2>4, <2>5, <2>6
      DEF Lifecycle!Create, AbstractEntries, AbstractDeleted
    <2>8. QED
      BY <1>1, LifecycleStep, <2>7
  <1>6. CASE f.op = "delete"
    <2>1. old \in Row /\ old.status = "waiting" /\ new = Null
      BY <1>6, CommitEffect DEF IInv
    <2>2. Lifecycle!Waiting(e)
      BY <1>1, <1>3, <2>1, AbstractOfRow DEF Lifecycle!Waiting, AbstractEntries
    <2>3. AbstractEntries' = [AbstractEntries EXCEPT ![e] = Null]
      BY <1>2, <2>1 DEF Abstract
    <2>4. AbstractDeleted' = AbstractDeleted \cup {e}
      BY <1>1, <1>4, <2>1
    <2>5. PICK x \in EntryIds : x = e
      BY <1>1
    <2>6. Lifecycle!Delete(x)
      BY <2>2, <2>3, <2>4, <2>5
      DEF Lifecycle!Delete, Lifecycle!Waiting, AbstractEntries, AbstractDeleted
    <2>7. QED
      BY <2>6, LifecycleStep
  <1>7. CASE f.op \in EditOps \ {"delete"}
    <2>1. /\ old \in Row /\ new \in Row
          /\ StatusAllows(f.op, old.status)
          /\ f.op = "check_in" => ~TooEarly(old, now[r])
          /\ new = Assigned(f, old, now[r])
      BY <1>7, CommitEffect DEF IInv, EditOps
    <2>2. AbstractDeleted' = AbstractDeleted
      <3>1. old # Null /\ new # Null
        BY <2>1, AbstractOfRow
      <3>2. QED
        BY <1>4, <3>1
    <2>3. AbstractEntries[e] =
            [owner   |-> old.owner,   details |-> old.details, status  |-> old.status,
             comment |-> old.comment, created |-> old.created, checked |-> old.checked]
      BY <1>3, <2>1, AbstractOfRow
    <2>4. Abstract(new) =
            [owner   |-> new.owner,   details |-> new.details, status  |-> new.status,
             comment |-> new.comment, created |-> new.created, checked |-> new.checked]
      BY <2>1, AbstractOfRow
    <2>5. /\ AbstractEntries[e] # Null
          /\ AbstractEntries[e].status = old.status
          /\ AbstractEntries[e].created = old.created
          /\ AbstractEntries[e] \in Summary
      BY <1>3, <2>1, AbstractOfRow
    <2>6. CASE f.op = "update"
      <3>1. f.details \in Details
        BY <1>1, <2>6, FormShape
      <3>2. Abstract(new) = [AbstractEntries[e] EXCEPT !.details = f.details]
        <4>1. /\ new.owner = old.owner /\ new.details = f.details /\ new.status = old.status
              /\ new.comment = old.comment /\ new.created = old.created
              /\ new.checked = old.checked
          BY <2>1, <2>6 DEF Assigned, Row
        <4>2. QED
          BY <2>3, <2>4, <4>1
      <3>3. Lifecycle!Waiting(e)
        BY <1>1, <2>1, <2>5, <2>6 DEF Lifecycle!Waiting, AbstractEntries, StatusAllows
      <3>4. Lifecycle!Edit(e)
        BY <1>2, <2>2, <3>1, <3>2, <3>3
        DEF Lifecycle!Edit, AbstractEntries, AbstractDeleted
      <3>5. QED
        BY <1>1, LifecycleStep, <3>4
    <2>7. CASE f.op = "check_in"
      <3>1. f.result \in Outcomes /\ f.comment \in Comments \cup {Null}
        BY <1>1, <2>7, FormShape
      <3>2. Abstract(new) = [AbstractEntries[e] EXCEPT !.status  = f.result,
                                                       !.comment = f.comment,
                                                       !.checked = now[r]]
        <4>1. /\ new.owner = old.owner /\ new.details = old.details /\ new.status = f.result
              /\ new.comment = f.comment /\ new.created = old.created
              /\ new.checked = now[r]
          BY <2>1, <2>7 DEF Assigned, Row
        <4>2. [AbstractEntries[e] EXCEPT !.status  = f.result,
                                         !.comment = f.comment,
                                         !.checked = now[r]]
              = [owner   |-> old.owner, details |-> old.details, status  |-> f.result,
                 comment |-> f.comment, created |-> old.created, checked |-> now[r]]
          <5> DEFINE rec(x, y, z) ==
                [owner   |-> old.owner, details |-> old.details, status  |-> x,
                 comment |-> y,         created |-> old.created, checked |-> z]
          <5>1. AbstractEntries[e] = rec(old.status, old.comment, old.checked)
            BY <2>3
          <5>2. [rec(old.status, old.comment, old.checked) EXCEPT !.status = f.result]
                  = rec(f.result, old.comment, old.checked)
            OBVIOUS
          <5>3. [rec(f.result, old.comment, old.checked) EXCEPT !.comment = f.comment]
                  = rec(f.result, f.comment, old.checked)
            OBVIOUS
          <5>4. [rec(f.result, f.comment, old.checked) EXCEPT !.checked = now[r]]
                  = rec(f.result, f.comment, now[r])
            OBVIOUS
          <5> HIDE DEF rec, AbstractEntries, e, f, old
          <5>5. [AbstractEntries[e] EXCEPT !.status  = f.result,
                                           !.comment = f.comment,
                                           !.checked = now[r]]
                  = rec(f.result, f.comment, now[r])
            BY <5>1, <5>2, <5>3, <5>4
          <5>6. QED
            BY <5>5 DEF rec
        <4>3. QED
          BY <2>4, <4>1, <4>2
      <3>3. Lifecycle!Waiting(e)
        BY <1>1, <2>1, <2>5, <2>7 DEF Lifecycle!Waiting, AbstractEntries, StatusAllows
      <3>4. now[r] >= AbstractEntries[e].created + WaitPeriod
        BY <1>1, <2>1, <2>5, <2>7, WaitPeriodAssumption, ClockAssumption
        DEF TooEarly, Row, Time
      <3>5. Lifecycle!Resolve(e)
        <4>1. AbstractEntries' = [AbstractEntries EXCEPT ![e].status  = f.result,
                                                         ![e].comment = f.comment,
                                                         ![e].checked = now[r]]
          BY <1>2, <3>2
        <4>2. /\ f.result \in Lifecycle!Outcomes
              /\ f.comment \in Comments \cup {Null}
              /\ now[r] \in Time
          BY <1>1, <3>1 DEF Lifecycle!Outcomes, Outcomes
        <4>3. \E o \in Lifecycle!Outcomes, c \in Comments \cup {Null}, t \in Time :
                /\ t >= AbstractEntries[e].created + WaitPeriod
                /\ AbstractEntries' = [AbstractEntries EXCEPT ![e].status  = o,
                                                             ![e].comment = c,
                                                             ![e].checked = t]
          <5> HIDE DEF AbstractEntries, e, f
          <5>1. QED
            BY <3>4, <4>1, <4>2, Zenon
        <4>4. QED
          BY <2>2, <3>3, <4>3, Zenon
          DEF Lifecycle!Resolve, AbstractEntries, AbstractDeleted
      <3>6. QED
        BY <1>1, LifecycleStep, <3>5
    <2>8. CASE f.op = "comment"
      <3>1. f.comment \in Comments \cup {Null}
        BY <1>1, <2>8, FormShape
      <3>2. Abstract(new) = [AbstractEntries[e] EXCEPT !.comment = f.comment]
        <4>1. /\ new.owner = old.owner /\ new.details = old.details /\ new.status = old.status
              /\ new.comment = f.comment /\ new.created = old.created
              /\ new.checked = old.checked
          BY <2>1, <2>8 DEF Assigned, Row
        <4>2. QED
          BY <2>3, <2>4, <4>1
      <3>3. Lifecycle!Resolved(e)
        BY <1>1, <2>1, <2>5, <2>8
        DEF Lifecycle!Resolved, Lifecycle!Outcomes, AbstractEntries, StatusAllows, Outcomes
      <3>4. Lifecycle!Reflect(e)
        BY <1>2, <2>2, <3>1, <3>2, <3>3
        DEF Lifecycle!Reflect, AbstractEntries, AbstractDeleted
      <3>5. QED
        BY <1>1, LifecycleStep, <3>4
    <2>9. QED
      BY <1>7, <2>6, <2>7, <2>8 DEF EditOps
  <1>8. QED
    BY <1>5, <1>6, <1>7, CommitShape DEF IInv, EditOps

LEMMA StepImplements ==
  IInv /\ [Next]_vars => [Lifecycle!Next]_(Lifecycle!vars)
  <1> SUFFICES ASSUME IInv, [Next]_vars
               PROVE  [Lifecycle!Next]_(Lifecycle!vars)
    OBVIOUS
  <1>1. CASE \E r \in Requests : Commit(r)
    BY <1>1, CommitImplements
  <1>2. CASE ~ \E r \in Requests : Commit(r)
    BY <1>2, OnlyCommitWrites DEF Lifecycle!vars
  <1>3. QED
    BY <1>1, <1>2

\* The concurrent service, with its locks, refusals, failures and lost answers,
\* implements the one-step-per-operation lifecycle.
THEOREM ServiceImplementsLifecycle == Spec => ImplementsLifecycle
  BY InitImplements, StepImplements, InvariantHolds, PTL
  DEF Spec, ImplementsLifecycle, Lifecycle!Spec

=============================================================================
