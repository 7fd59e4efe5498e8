--------------------------- MODULE ExampleService ---------------------------
(***************************************************************************)
(* The opportunity-cost API: concurrent requests that create, list, change *)
(* and delete users' examples ("one coffee, 450 cents").                   *)
(*                                                                         *)
(* The transactions are those of the entry API (EntryService), without a   *)
(* status: READ COMMITTED, a row lock held from the owned lookup to the    *)
(* commit.  What is new is that the ORM's UPDATE names only the columns    *)
(* whose value differs from the one it loaded, so the row a commit leaves  *)
(* is put together from the request and from what is stored.  The times    *)
(* of creation and change order the lists and are left out.                *)
(***************************************************************************)
EXTENDS Integers

CONSTANTS
  Users,       \* accounts
  ExampleIds,  \* the uuids the model can issue; each is issued once
  Requests,    \* request slots
  Labels,      \* (label, unit_name) pairs, trimmed and not blank
  Values,      \* dollar_value_cents
  Null

ASSUME ValuesAssumption == Values \subseteq Nat \ {0}

VARIABLES
  examples,  \* opportunity_cost_examples: the committed row of each id, or Null
  born,      \* ids that have been the key of a committed row (history)
  locks,     \* the request whose transaction holds the row's lock, or Null
  pc,        \* where each request's handler is
  req,       \* the validated request each slot is handling
  loaded,    \* the row as the handler loaded it, or Null
  reply      \* what the client was last told

exampleVars == <<examples, born, locks, pc, req, loaded, reply>>

-----------------------------------------------------------------------------
Content == [label : Labels, value : Values]
Example == [owner : Users, label : Labels, value : Values]

LockingOps == {"update", "delete"}

CreateForm == [op : {"create"}, user : Users, id : ExampleIds, content : Content]
ListForm   == [op : {"list"}, user : Users]
UpdateForm == [op : {"update"}, user : Users, id : ExampleIds, content : Content]
DeleteForm == [op : {"delete"}, user : Users, id : ExampleIds]
Form       == CreateForm \cup ListForm \cup UpdateForm \cup DeleteForm

\* Null stands for SQL's NULL, Python's None and a free lock: a value of its own.
ASSUME NullAssumption == Null \notin Requests \cup Example \cup Form

Places  == {"idle", "begin", "missed", "held", "committed", "done"}
Replies == {"none", "ok", "forbidden", "not_found", "error"}

ExamplesTypeOK ==
  /\ examples \in [ExampleIds -> Example \cup {Null}]
  /\ born \in SUBSET ExampleIds
  /\ locks \in [ExampleIds -> Requests \cup {Null}]
  /\ pc \in [Requests -> Places]
  /\ req \in [Requests -> Form \cup {Null}]
  /\ loaded \in [Requests -> Example \cup {Null}]
  /\ reply \in [Requests -> Replies]

At(r, place, ops) == pc[r] = place /\ req[r].op \in ops

Goto(r, place) == pc' = [pc EXCEPT ![r] = place]

Owned(r) == /\ examples[req[r].id] # Null
            /\ examples[req[r].id].owner = req[r].user

EndTransaction(r) ==
  locks' = [x \in ExampleIds |-> IF locks[x] = r THEN Null ELSE locks[x]]

Answer(r, answer) ==
  /\ Goto(r, "done")
  /\ reply' = [reply EXCEPT ![r] = answer]
  /\ loaded' = [loaded EXCEPT ![r] = Null]

\* Mutant: the handler raises without rolling back.
FailWithoutRollback(r, answer) ==
  /\ Answer(r, answer)
  /\ UNCHANGED <<examples, born, locks, req>>

\* Raising in the handler: roll back, send the error.
Fail(r, answer) ==
  /\ Answer(r, answer)
  /\ EndTransaction(r)
  /\ UNCHANGED <<examples, born, req>>

-----------------------------------------------------------------------------
\* uuid4 names an id no row and no other creation has.
Unissued == ExampleIds \ (born \cup {req[s].id : s \in {t \in Requests :
                                       At(t, "begin", {"create"})}})

\* A client names only ids a response has shown it.
Admissible(f) ==
  CASE f.op = "create"         -> f.id \in Unissued
    [] f.op \in LockingOps     -> f.id \in born
    [] OTHER                   -> TRUE

Begin(r) ==
  /\ pc[r] = "idle"
  /\ \E f \in Form : Admissible(f) /\ req' = [req EXCEPT ![r] = f]
  /\ Goto(r, "begin")
  /\ UNCHANGED <<examples, born, locks, loaded, reply>>

\* The client has used the answer; the slot is free for another request.
Close(r) ==
  /\ pc[r] = "done"
  /\ Goto(r, "idle")
  /\ req' = [req EXCEPT ![r] = Null]
  /\ reply' = [reply EXCEPT ![r] = "none"]
  /\ UNCHANGED <<examples, born, locks, loaded>>

\* Mutant: a plain SELECT, without FOR UPDATE.
GetExampleWithoutLock(r) ==
  /\ At(r, "begin", LockingOps)
  /\ Owned(r)
  /\ loaded' = [loaded EXCEPT ![r] = examples[req[r].id]]
  /\ Goto(r, "held")
  /\ UNCHANGED <<examples, born, locks, req, reply>>

\* get_opportunity_cost_example_for_update
GetExampleForUpdate(r) ==
  /\ At(r, "begin", LockingOps)
  /\ Owned(r)
  /\ locks[req[r].id] = Null
  /\ locks' = [locks EXCEPT ![req[r].id] = r]
  /\ loaded' = [loaded EXCEPT ![r] = examples[req[r].id]]
  /\ Goto(r, "held")
  /\ UNCHANGED <<examples, born, req, reply>>

\* Mutant: FOR UPDATE SKIP LOCKED - a locked row looks missing.
MissLockedExample(r) ==
  /\ At(r, "begin", LockingOps)
  /\ Owned(r) => locks[req[r].id] # Null
  /\ Goto(r, "missed")
  /\ UNCHANGED <<examples, born, locks, req, loaded, reply>>

\* The owned lookup finds no row.
MissExample(r) ==
  /\ At(r, "begin", LockingOps)
  /\ ~Owned(r)
  /\ Goto(r, "missed")
  /\ UNCHANGED <<examples, born, locks, req, loaded, reply>>

\* _raise_example_access_error: a second query tells 403 from 404.
RaiseExampleAccessError(r) ==
  /\ pc[r] = "missed"
  /\ Fail(r, IF examples[req[r].id] # Null THEN "forbidden" ELSE "not_found")

\* The row the flush leaves: an INSERT writes all of it, an UPDATE only what
\* differs from the loaded row.
Flushed(r) ==
  CASE req[r].op = "delete" -> Null
    [] req[r].op = "create" -> [owner |-> req[r].user,
                                label |-> req[r].content.label,
                                value |-> req[r].content.value]
    [] OTHER ->
         LET new == req[r].content
             row == examples[req[r].id]
         IN  [owner |-> row.owner,
              label |-> IF new.label # loaded[r].label THEN new.label ELSE row.label,
              value |-> IF new.value # loaded[r].value THEN new.value ELSE row.value]

\* INSERT needs a free key, UPDATE its row; a DELETE of no row is only a warning.
Flushable(r) ==
  CASE req[r].op = "create" -> examples[req[r].id] = Null
    [] req[r].op = "update" -> examples[req[r].id] # Null
    [] OTHER                -> TRUE

\* Stage the change, flush and commit.
Commit(r) ==
  /\ At(r, "begin", {"create"}) \/ At(r, "held", LockingOps)
  /\ Flushable(r)
  /\ examples' = [examples EXCEPT ![req[r].id] = Flushed(r)]
  /\ born' = born \cup {req[r].id}
  /\ EndTransaction(r)
  /\ Goto(r, "committed")
  /\ UNCHANGED <<req, loaded, reply>>

\* The answer is built from the entity, that is from the request's content.
Respond(r) ==
  /\ pc[r] = "committed"
  /\ Answer(r, "ok")
  /\ UNCHANGED <<examples, born, locks, req>>

\* list_opportunity_cost_examples: one SELECT, no transaction to end.
ListExamples(r) ==
  /\ At(r, "begin", {"list"})
  /\ Answer(r, "ok")
  /\ UNCHANGED <<examples, born, locks, req>>

\* An exception at any await: connection lost, statement failed, cancelled; also
\* an answer lost after the commit.
Abort(r) ==
  /\ pc[r] \in {"begin", "missed", "held", "committed"}
  /\ Fail(r, "error")

-----------------------------------------------------------------------------
ExamplesInit ==
  /\ examples = [x \in ExampleIds |-> Null]
  /\ born     = {}
  /\ locks    = [x \in ExampleIds |-> Null]
  /\ pc       = [r \in Requests |-> "idle"]
  /\ req      = [r \in Requests |-> Null]
  /\ loaded   = [r \in Requests |-> Null]
  /\ reply    = [r \in Requests |-> "none"]

ExampleStep(r) ==
  \/ Begin(r) \/ Close(r) \/ GetExampleForUpdate(r)
  \/ MissExample(r) \/ RaiseExampleAccessError(r) \/ Commit(r) \/ Respond(r)
  \/ ListExamples(r) \/ Abort(r)

ExamplesNext == \E r \in Requests : ExampleStep(r)

ExamplesSpec == ExamplesInit /\ [][ExamplesNext]_exampleVars

-----------------------------------------------------------------------------
(* What the API promises                                                   *)

\* What a refusal says was true and stays true, although 403 and 404 come from a
\* second query after the owned lookup missed: an example answered with 404 is
\* gone for good, one answered with 403 is somebody else's.
RefusalsStayTrue ==
  \A r \in Requests : pc[r] = "done" =>
    /\ reply[r] = "not_found" => examples[req[r].id] = Null
    /\ reply[r] = "forbidden" =>
         (examples[req[r].id] # Null => examples[req[r].id].owner # req[r].user)

\* r waits in FOR UPDATE.
Waits(r) == At(r, "begin", LockingOps) /\ Owned(r) /\ locks[req[r].id] # Null

\* Waits do not chain: whoever waits for a row waits for a transaction that is at
\* work on that row, holds no other and so waits for nothing.
NoWaitCycle ==
  \A r \in Requests : Waits(r) =>
    LET holder == locks[req[r].id]
    IN  /\ pc[holder] = "held" /\ req[holder].id = req[r].id
        /\ \A x \in ExampleIds : locks[x] = holder => x = req[r].id

\* An update stores what it answers: the row its commit leaves is the requester's
\* and has exactly the label and the value of the response, never a mixture of
\* two updates' columns.
UpdateStoresItsAnswer(r) ==
  At(r, "held", {"update"}) /\ pc'[r] = "committed" =>
    examples'[req[r].id] = [owner |-> req[r].user,
                            label |-> req[r].content.label,
                            value |-> req[r].content.value]

UpdatesAreWhole == [][\A r \in Requests : UpdateStoresItsAnswer(r)]_exampleVars

-----------------------------------------------------------------------------
(* The inductive invariant behind them                                     *)

HandlerShape ==
  \A r \in Requests :
    /\ pc[r] # "idle" => req[r] # Null
    /\ pc[r] \in {"missed", "held"} => req[r].op \in LockingOps
    /\ pc[r] = "committed" => req[r].op \in LockingOps \cup {"create"}
    /\ pc[r] = "done" /\ reply[r] \in {"forbidden", "not_found"} =>
         req[r].op \in LockingOps

\* From the locking lookup to the commit the row is locked, owned and unchanged.
HeldRowIsCurrent ==
  \A r \in Requests : pc[r] = "held" =>
    /\ locks[req[r].id] = r
    /\ Owned(r)
    /\ loaded[r] = examples[req[r].id]

\* No lock outlives the transaction that took it.
LocksAreHeld ==
  \A x \in ExampleIds : locks[x] # Null => pc[locks[x]] = "held" /\ req[locks[x]].id = x

IdsAreTaken ==
  /\ \A x \in ExampleIds : examples[x] # Null => x \in born
  /\ \A r \in Requests :
       pc[r] # "idle" /\ req[r].op \in LockingOps => req[r].id \in born

NewIdsAreFresh ==
  /\ \A r \in Requests : At(r, "begin", {"create"}) => req[r].id \notin born
  /\ \A r, s \in Requests :
       At(r, "begin", {"create"}) /\ At(s, "begin", {"create"})
       /\ req[r].id = req[s].id => r = s

MissesStayMisses == \A r \in Requests : pc[r] = "missed" => ~Owned(r)

ExamplesInv ==
  /\ ExamplesTypeOK
  /\ HandlerShape
  /\ HeldRowIsCurrent
  /\ IdsAreTaken
  /\ NewIdsAreFresh
  /\ MissesStayMisses
  /\ RefusalsStayTrue
=============================================================================
