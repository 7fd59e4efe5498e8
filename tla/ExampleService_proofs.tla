----------------------- MODULE ExampleService_proofs -----------------------
(***************************************************************************)
(* Proofs about ExampleService, for any users, examples and number of      *)
(* concurrent requests.                                                    *)
(***************************************************************************)
EXTENDS ExampleService, TLAPS

-----------------------------------------------------------------------------
(* The data                                                                *)

\* What the payload of each operation carries.
LEMMA FormShape ==
  ASSUME NEW f \in Form
  PROVE  /\ f.op \in LockingOps \cup {"create", "list"}
         /\ f.user \in Users
         /\ f.op # "list" => f.id \in ExampleIds
         /\ f.op \in {"create", "update"} => f.content \in Content
         /\ f # Null
  BY NullAssumption DEF Form, CreateForm, ListForm, UpdateForm, DeleteForm, LockingOps

\* A row is not NULL.
LEMMA RowIsNotNull == ASSUME NEW row \in Example PROVE row # Null
  BY NullAssumption

\* The request of a handler that works on an example names its key.
LEMMA RequestShape ==
  ASSUME ExamplesInv, NEW r \in Requests, pc[r] # "idle"
  PROVE  /\ req[r] \in Form
         /\ req[r].user \in Users
         /\ req[r].op \in LockingOps \cup {"create", "list"}
         /\ req[r].op # "list" => req[r].id \in ExampleIds
         /\ req[r].op \in {"create", "update"} => req[r].content \in Content
  <1>1. req[r] \in Form
    BY DEF ExamplesInv, ExamplesTypeOK, HandlerShape
  <1>2. QED
    BY <1>1, FormShape

\* What a commit writes is a row of the requester, as the request describes it,
\* or nothing at all after a deletion: the row the handler loaded under the lock
\* is still the stored one.
LEMMA FlushedRow ==
  ASSUME ExamplesInv, NEW r \in Requests,
         At(r, "begin", {"create"}) \/ At(r, "held", LockingOps)
  PROVE  /\ req[r].op = "delete" => Flushed(r) = Null
         /\ req[r].op # "delete" =>
              /\ Flushed(r) = [owner |-> req[r].user,
                               label |-> req[r].content.label,
                               value |-> req[r].content.value]
              /\ Flushed(r) \in Example
  <1>1. /\ req[r].user \in Users
        /\ req[r].op \in {"create", "update", "delete"}
        /\ req[r].op # "delete" => req[r].content \in Content
    BY RequestShape DEF At, LockingOps
  <1>2. CASE req[r].op = "delete"
    BY <1>2 DEF Flushed
  <1>3. CASE req[r].op = "create"
    BY <1>1, <1>3 DEF Flushed, Content, Example
  <1>4. CASE req[r].op = "update"
    <2>1. At(r, "held", LockingOps)
      BY <1>4 DEF At
    <2>2. loaded[r] = examples[req[r].id] /\ examples[req[r].id].owner = req[r].user
      BY <2>1 DEF At, ExamplesInv, HeldRowIsCurrent, Owned
    <2>3. Flushed(r) = [owner |-> req[r].user,
                        label |-> req[r].content.label,
                        value |-> req[r].content.value]
      BY <1>4, <2>2 DEF Flushed
    <2>4. QED
      BY <1>1, <1>4, <2>3 DEF Content, Example
  <1>5. QED
    BY <1>1, <1>2, <1>3, <1>4

-----------------------------------------------------------------------------
(* The steps that leave the table as it is                                 *)

\* A slot takes a request.
LEMMA BeginKeepsInv ==
  ASSUME ExamplesInv, NEW r \in Requests, Begin(r)
  PROVE  ExamplesInv'
  <1> USE DEF ExamplesInv
  <1>1. PICK f \in Form : Admissible(f) /\ req' = [req EXCEPT ![r] = f]
    BY DEF Begin
  <1>2. f.op \in LockingOps \cup {"create", "list"} /\ f # Null
    BY FormShape
  <1>3. /\ pc' = [pc EXCEPT ![r] = "begin"]
        /\ UNCHANGED <<examples, born, locks, loaded, reply>>
    BY DEF Begin, Goto
  <1>4. ExamplesTypeOK'
    BY <1>1, <1>3 DEF ExamplesTypeOK, Places
  <1>5. /\ pc'[r] = "begin" /\ req'[r] = f
        /\ \A s \in Requests \ {r} : pc'[s] = pc[s] /\ req'[s] = req[s]
    BY <1>1, <1>3 DEF ExamplesTypeOK
  <1>6. HandlerShape'
    BY <1>2, <1>3, <1>5 DEF HandlerShape
  <1>7. HeldRowIsCurrent'
    BY <1>3, <1>5 DEF HeldRowIsCurrent, Owned
  <1>8. IdsAreTaken'
    <2>1. f.op \in LockingOps => f.id \in born
      BY <1>1 DEF Admissible, LockingOps
    <2>2. QED
      BY <1>3, <1>5, <2>1 DEF IdsAreTaken
  <1>9. NewIdsAreFresh'
    <2>1. f.op = "create" =>
            /\ f.id \notin born
            /\ \A s \in Requests : At(s, "begin", {"create"}) => req[s].id # f.id
      BY <1>1 DEF Admissible, Unissued, LockingOps
    <2>2. \A s \in Requests \ {r} : At(s, "begin", {"create"})' <=> At(s, "begin", {"create"})
      BY <1>5 DEF At
    <2>3. At(r, "begin", {"create"})' => f.op = "create" /\ req'[r].id = f.id
      BY <1>5 DEF At
    <2>4. ASSUME NEW s \in Requests, At(s, "begin", {"create"})'
          PROVE  req'[s].id \notin born'
      BY <1>3, <1>5, <2>1, <2>2, <2>3, <2>4 DEF NewIdsAreFresh
    <2>5. ASSUME NEW s \in Requests, NEW t \in Requests, s # t,
                 At(s, "begin", {"create"})', At(t, "begin", {"create"})'
          PROVE  req'[s].id # req'[t].id
      BY <1>5, <2>1, <2>2, <2>3, <2>5 DEF NewIdsAreFresh
    <2>6. QED
      BY <2>4, <2>5 DEF NewIdsAreFresh
  <1>10. MissesStayMisses' /\ RefusalsStayTrue'
    BY <1>3, <1>5 DEF MissesStayMisses, RefusalsStayTrue, Owned
  <1>11. QED
    BY <1>4, <1>6, <1>7, <1>8, <1>9, <1>10

\* A slot is free again.
LEMMA CloseKeepsInv ==
  ASSUME ExamplesInv, NEW r \in Requests, Close(r)
  PROVE  ExamplesInv'
  <1> USE DEF ExamplesInv
  <1>1. /\ pc' = [pc EXCEPT ![r] = "idle"]
        /\ req' = [req EXCEPT ![r] = Null]
        /\ reply' = [reply EXCEPT ![r] = "none"]
        /\ UNCHANGED <<examples, born, locks, loaded>>
    BY DEF Close, Goto
  <1>2. ExamplesTypeOK'
    BY <1>1 DEF ExamplesTypeOK, Places, Replies
  <1>3. /\ pc'[r] = "idle"
        /\ \A s \in Requests \ {r} :
             pc'[s] = pc[s] /\ req'[s] = req[s] /\ reply'[s] = reply[s]
    BY <1>1 DEF ExamplesTypeOK
  <1>4. HandlerShape' /\ HeldRowIsCurrent'
    BY <1>1, <1>3 DEF HandlerShape, HeldRowIsCurrent, Owned
  <1>5. IdsAreTaken' /\ NewIdsAreFresh'
    BY <1>1, <1>3 DEF IdsAreTaken, NewIdsAreFresh, At
  <1>6. MissesStayMisses' /\ RefusalsStayTrue'
    BY <1>1, <1>3 DEF MissesStayMisses, RefusalsStayTrue, Owned
  <1>7. QED
    BY <1>2, <1>4, <1>5, <1>6

\* The owned lookup locks the row and loads it.
LEMMA GetExampleForUpdateKeepsInv ==
  ASSUME ExamplesInv, NEW r \in Requests, GetExampleForUpdate(r)
  PROVE  ExamplesInv'
  <1> USE DEF ExamplesInv
  <1>1. /\ pc[r] = "begin" /\ req[r].op \in LockingOps
        /\ Owned(r)
        /\ locks[req[r].id] = Null
        /\ locks' = [locks EXCEPT ![req[r].id] = r]
        /\ loaded' = [loaded EXCEPT ![r] = examples[req[r].id]]
        /\ pc' = [pc EXCEPT ![r] = "held"]
        /\ UNCHANGED <<examples, born, req, reply>>
    BY DEF GetExampleForUpdate, At, Goto
  <1>2. req[r].id \in ExampleIds
    BY <1>1, RequestShape DEF LockingOps
  <1>3. examples[req[r].id] \in Example
    BY <1>1, <1>2 DEF ExamplesTypeOK, Owned
  <1>4. ExamplesTypeOK'
    BY <1>1, <1>2, <1>3 DEF ExamplesTypeOK, Places
  <1>5. /\ pc'[r] = "held" /\ loaded'[r] = examples[req[r].id]
        /\ locks'[req[r].id] = r
        /\ \A s \in Requests \ {r} : pc'[s] = pc[s] /\ loaded'[s] = loaded[s]
        /\ \A x \in ExampleIds \ {req[r].id} : locks'[x] = locks[x]
    BY <1>1, <1>2 DEF ExamplesTypeOK
  <1>6. HandlerShape'
    BY <1>1, <1>5 DEF HandlerShape
  <1>7. HeldRowIsCurrent'
    <2> SUFFICES ASSUME NEW s \in Requests, pc'[s] = "held"
                 PROVE  /\ locks'[req'[s].id] = s
                        /\ Owned(s)'
                        /\ loaded'[s] = examples'[req'[s].id]
      BY DEF HeldRowIsCurrent
    <2>1. CASE s = r
      BY <1>1, <1>5, <2>1 DEF Owned
    <2>2. CASE s # r
      <3>1. /\ pc[s] = "held" /\ locks[req[s].id] = s /\ Owned(s)
            /\ loaded[s] = examples[req[s].id]
            /\ req[s].op \in LockingOps
        BY <1>5, <2>2 DEF HeldRowIsCurrent, HandlerShape
      <3>2. req[s].id \in ExampleIds
        BY <3>1, RequestShape DEF LockingOps
      <3>3. req[s].id # req[r].id
        BY <1>1, <3>1, NullAssumption
      <3>4. QED
        BY <1>1, <1>5, <2>2, <3>1, <3>2, <3>3 DEF Owned
    <2>3. QED
      BY <2>1, <2>2
  <1>8. IdsAreTaken' /\ NewIdsAreFresh'
    BY <1>1, <1>5 DEF IdsAreTaken, NewIdsAreFresh, At
  <1>9. MissesStayMisses' /\ RefusalsStayTrue'
    BY <1>1, <1>5 DEF MissesStayMisses, RefusalsStayTrue, Owned
  <1>10. QED
    BY <1>4, <1>6, <1>7, <1>8, <1>9

\* The owned lookup misses: what it did not find it will not find later.
LEMMA MissExampleKeepsInv ==
  ASSUME ExamplesInv, NEW r \in Requests, MissExample(r)
  PROVE  ExamplesInv'
  <1> USE DEF ExamplesInv
  <1>1. /\ pc[r] = "begin" /\ req[r].op \in LockingOps
        /\ ~Owned(r)
        /\ pc' = [pc EXCEPT ![r] = "missed"]
        /\ UNCHANGED <<examples, born, locks, req, loaded, reply>>
    BY DEF MissExample, At, Goto
  <1>2. ExamplesTypeOK'
    BY <1>1 DEF ExamplesTypeOK, Places
  <1>3. pc'[r] = "missed" /\ \A s \in Requests \ {r} : pc'[s] = pc[s]
    BY <1>1 DEF ExamplesTypeOK
  <1>4. HandlerShape' /\ HeldRowIsCurrent'
    BY <1>1, <1>3 DEF HandlerShape, HeldRowIsCurrent, Owned
  <1>5. IdsAreTaken' /\ NewIdsAreFresh'
    BY <1>1, <1>3 DEF IdsAreTaken, NewIdsAreFresh, At
  <1>6. MissesStayMisses' /\ RefusalsStayTrue'
    BY <1>1, <1>3 DEF MissesStayMisses, RefusalsStayTrue, Owned
  <1>7. QED
    BY <1>2, <1>4, <1>5, <1>6

\* An answer, with or without a lock to give back: the answering request is done,
\* the others keep their locks, and a refusal is one the table bears out.
LEMMA AnswerKeepsInv ==
  ASSUME ExamplesInv, NEW r \in Requests, NEW answer \in Replies,
         pc[r] # "idle",
         Answer(r, answer),
         EndTransaction(r) \/ UNCHANGED locks,
         UNCHANGED <<examples, born, req>>,
         answer \in {"forbidden", "not_found"} => req[r].op \in LockingOps,
         answer = "not_found" => examples[req[r].id] = Null,
         answer = "forbidden" =>
           (examples[req[r].id] # Null => examples[req[r].id].owner # req[r].user)
  PROVE  ExamplesInv'
  <1> USE DEF ExamplesInv
  <1>1. /\ pc' = [pc EXCEPT ![r] = "done"]
        /\ reply' = [reply EXCEPT ![r] = answer]
        /\ loaded' = [loaded EXCEPT ![r] = Null]
    BY DEF Answer, Goto
  <1>2. /\ locks' \in [ExampleIds -> Requests \cup {Null}]
        /\ \A x \in ExampleIds : locks[x] # r => locks'[x] = locks[x]
    BY DEF EndTransaction, ExamplesTypeOK
  <1>3. ExamplesTypeOK'
    BY <1>1, <1>2 DEF ExamplesTypeOK, Places, Replies
  <1>4. /\ pc'[r] = "done" /\ reply'[r] = answer
        /\ \A s \in Requests \ {r} :
             pc'[s] = pc[s] /\ reply'[s] = reply[s] /\ loaded'[s] = loaded[s]
    BY <1>1 DEF ExamplesTypeOK
  <1>5. HandlerShape'
    BY <1>4 DEF HandlerShape
  <1>6. HeldRowIsCurrent'
    <2> SUFFICES ASSUME NEW s \in Requests, pc'[s] = "held"
                 PROVE  /\ locks'[req'[s].id] = s
                        /\ Owned(s)'
                        /\ loaded'[s] = examples'[req'[s].id]
      BY DEF HeldRowIsCurrent
    <2>1. /\ s # r /\ pc[s] = "held" /\ locks[req[s].id] = s /\ Owned(s)
          /\ loaded[s] = examples[req[s].id] /\ req[s].op \in LockingOps
      BY <1>4 DEF HeldRowIsCurrent, HandlerShape
    <2>2. req[s].id \in ExampleIds
      BY <2>1, RequestShape DEF LockingOps
    <2>3. QED
      BY <1>2, <1>4, <2>1, <2>2 DEF Owned
  <1>7. IdsAreTaken' /\ NewIdsAreFresh'
    BY <1>4 DEF IdsAreTaken, NewIdsAreFresh, At
  <1>8. MissesStayMisses' /\ RefusalsStayTrue'
    BY <1>4 DEF MissesStayMisses, RefusalsStayTrue, Owned
  <1>9. QED
    BY <1>3, <1>5, <1>6, <1>7, <1>8

-----------------------------------------------------------------------------
(* The commit                                                              *)

\* What every other request relies on: a commit does not touch a row somebody
\* else holds, gives nobody a row he was refused, and takes no id twice.
LEMMA CommitKeepsInv ==
  ASSUME ExamplesInv, NEW r \in Requests, Commit(r)
  PROVE  ExamplesInv'
  <1> USE DEF ExamplesInv
  <1> DEFINE x == req[r].id
  <1>1. /\ At(r, "begin", {"create"}) \/ At(r, "held", LockingOps)
        /\ examples' = [examples EXCEPT ![x] = Flushed(r)]
        /\ born' = born \cup {x}
        /\ locks' = [y \in ExampleIds |-> IF locks[y] = r THEN Null ELSE locks[y]]
        /\ pc' = [pc EXCEPT ![r] = "committed"]
        /\ UNCHANGED <<req, loaded, reply>>
    BY DEF Commit, EndTransaction, Goto
  <1>2. /\ pc[r] # "idle" /\ x \in ExampleIds
        /\ req[r].op \in {"create", "update", "delete"}
    BY <1>1, RequestShape DEF At, LockingOps
  <1>3. Flushed(r) \in Example \cup {Null}
    BY <1>1, <1>2, FlushedRow
  <1>4. ExamplesTypeOK'
    BY <1>1, <1>2, <1>3 DEF ExamplesTypeOK, Places
  <1>5. /\ pc'[r] = "committed" /\ examples'[x] = Flushed(r)
        /\ \A s \in Requests \ {r} : pc'[s] = pc[s]
        /\ \A y \in ExampleIds \ {x} : examples'[y] = examples[y]
        /\ \A y \in ExampleIds : locks[y] # r => locks'[y] = locks[y]
    BY <1>1, <1>2 DEF ExamplesTypeOK
  \* The owner of a stored row stays its owner, and a deleted id is not used again.
  <1>6. ASSUME NEW y \in ExampleIds, y \in born
        PROVE  /\ examples[y] = Null => examples'[y] = Null
               /\ examples'[y] # Null => examples'[y].owner = examples[y].owner
    <2>1. CASE y # x
      BY <1>5, <2>1
    <2>2. CASE y = x
      <3>1. At(r, "held", LockingOps)
        BY <1>1, <2>2, <1>6 DEF NewIdsAreFresh
      <3>2. examples[x] # Null /\ examples[x].owner = req[r].user
        BY <3>1 DEF At, HeldRowIsCurrent, Owned
      <3>3. QED
        BY <1>1, <1>5, <2>2, <3>2, FlushedRow
    <2>3. QED
      BY <2>1, <2>2
  <1>7. HandlerShape'
    BY <1>1, <1>5 DEF HandlerShape, At
  <1>8. HeldRowIsCurrent'
    <2> SUFFICES ASSUME NEW s \in Requests, pc'[s] = "held"
                 PROVE  /\ locks'[req'[s].id] = s
                        /\ Owned(s)'
                        /\ loaded'[s] = examples'[req'[s].id]
      BY DEF HeldRowIsCurrent
    <2>1. /\ s # r /\ pc[s] = "held" /\ locks[req[s].id] = s /\ Owned(s)
          /\ loaded[s] = examples[req[s].id] /\ req[s].op \in LockingOps
      BY <1>5 DEF HeldRowIsCurrent, HandlerShape
    <2>2. req[s].id \in ExampleIds /\ req[s].id \in born
      BY <2>1, RequestShape DEF LockingOps, IdsAreTaken
    <2>3. req[s].id # x
      <3>1. CASE At(r, "begin", {"create"})
        BY <2>2, <3>1 DEF NewIdsAreFresh
      <3>2. CASE At(r, "held", LockingOps)
        BY <2>1, <3>2 DEF HeldRowIsCurrent, At
      <3>3. QED
        BY <1>1, <3>1, <3>2
    <2>4. QED
      BY <1>1, <1>5, <2>1, <2>2, <2>3 DEF Owned
  <1>9. IdsAreTaken'
    <2>1. \A y \in ExampleIds : examples'[y] # Null => y \in born'
      BY <1>1, <1>5 DEF IdsAreTaken
    <2>2. ASSUME NEW s \in Requests, pc'[s] # "idle", req'[s].op \in LockingOps
          PROVE  req'[s].id \in born'
      <3>1. pc[s] # "idle" /\ req[s].op \in LockingOps
        BY <1>1, <1>2, <1>5, <2>2
      <3>2. QED
        BY <1>1, <3>1 DEF IdsAreTaken
    <2>3. QED
      BY <2>1, <2>2 DEF IdsAreTaken
  <1>10. NewIdsAreFresh'
    <2>1. ASSUME NEW s \in Requests, At(s, "begin", {"create"})'
          PROVE  s # r /\ At(s, "begin", {"create"}) /\ req[s].id \notin born'
      <3>1. s # r /\ At(s, "begin", {"create"})
        BY <1>1, <1>5, <2>1 DEF At
      <3>2. req[s].id # x
        <4>1. CASE At(r, "begin", {"create"})
          BY <3>1, <4>1 DEF NewIdsAreFresh
        <4>2. CASE At(r, "held", LockingOps)
          BY <3>1, <4>2 DEF NewIdsAreFresh, IdsAreTaken, At
        <4>3. QED
          BY <1>1, <4>1, <4>2
      <3>3. QED
        BY <1>1, <3>1, <3>2 DEF NewIdsAreFresh
    <2>2. QED
      BY <1>1, <2>1 DEF NewIdsAreFresh
  <1>11. MissesStayMisses'
    <2> SUFFICES ASSUME NEW s \in Requests, pc'[s] = "missed"
                 PROVE  ~Owned(s)'
      BY DEF MissesStayMisses
    <2>1. pc[s] = "missed" /\ ~Owned(s) /\ req[s].op \in LockingOps
      BY <1>5 DEF MissesStayMisses, HandlerShape
    <2>2. req[s].id \in ExampleIds /\ req[s].id \in born
      BY <2>1, RequestShape DEF LockingOps, IdsAreTaken
    <2>3. /\ examples[req[s].id] = Null => examples'[req[s].id] = Null
          /\ examples'[req[s].id] # Null =>
               examples'[req[s].id].owner = examples[req[s].id].owner
      BY <1>6, <2>2
    <2>4. QED
      BY <1>1, <2>1, <2>3 DEF Owned
  <1>12. RefusalsStayTrue'
    <2> SUFFICES ASSUME NEW s \in Requests, pc'[s] = "done",
                        reply'[s] \in {"forbidden", "not_found"}
                 PROVE  /\ reply'[s] = "not_found" => examples'[req'[s].id] = Null
                        /\ reply'[s] = "forbidden" =>
                             (examples'[req'[s].id] # Null =>
                                examples'[req'[s].id].owner # req'[s].user)
      BY DEF RefusalsStayTrue
    <2>1. pc[s] = "done" /\ reply[s] = reply'[s] /\ req[s].op \in LockingOps
      BY <1>1, <1>5 DEF HandlerShape
    <2>2. req[s].id \in ExampleIds /\ req[s].id \in born
      BY <2>1, RequestShape DEF LockingOps, IdsAreTaken
    <2>3. QED
      BY <1>1, <1>6, <2>1, <2>2 DEF RefusalsStayTrue
  <1>13. QED
    BY <1>4, <1>7, <1>8, <1>9, <1>10, <1>11, <1>12

-----------------------------------------------------------------------------
(* The theorems                                                            *)

\* The invariant holds when the service starts.
LEMMA InitInv == ExamplesInit => ExamplesInv
  BY DEF ExamplesInit, ExamplesInv, ExamplesTypeOK, HandlerShape, HeldRowIsCurrent,
     IdsAreTaken, NewIdsAreFresh, MissesStayMisses, RefusalsStayTrue, Places, Replies, At

\* Every step of a request keeps it.
LEMMA StepInv ==
  ASSUME ExamplesInv, NEW r \in Requests, ExampleStep(r)
  PROVE  ExamplesInv'
  <1>1. CASE Begin(r)
    BY <1>1, BeginKeepsInv
  <1>2. CASE Close(r)
    BY <1>2, CloseKeepsInv
  <1>3. CASE GetExampleForUpdate(r)
    BY <1>3, GetExampleForUpdateKeepsInv
  <1>4. CASE MissExample(r)
    BY <1>4, MissExampleKeepsInv
  <1>5. CASE RaiseExampleAccessError(r)
    <2> DEFINE answer == IF examples[req[r].id] # Null THEN "forbidden" ELSE "not_found"
    <2>1. pc[r] = "missed" /\ Fail(r, answer)
      BY <1>5 DEF RaiseExampleAccessError
    <2>2. req[r].op \in LockingOps /\ ~Owned(r)
      BY <2>1 DEF ExamplesInv, HandlerShape, MissesStayMisses
    <2>3. /\ answer \in Replies
          /\ answer = "not_found" => examples[req[r].id] = Null
          /\ answer = "forbidden" =>
               (examples[req[r].id] # Null => examples[req[r].id].owner # req[r].user)
      BY <2>2 DEF Owned, Replies
    <2>4. Answer(r, answer) /\ EndTransaction(r) /\ UNCHANGED <<examples, born, req>>
      BY <2>1 DEF Fail
    <2> HIDE DEF answer
    <2>5. QED
      BY <2>1, <2>2, <2>3, <2>4, AnswerKeepsInv
  <1>6. CASE Commit(r)
    BY <1>6, CommitKeepsInv
  <1>7. CASE Respond(r) \/ ListExamples(r)
    <2>1. pc[r] # "idle" /\ Answer(r, "ok") /\ UNCHANGED <<examples, born, locks, req>>
      BY <1>7 DEF Respond, ListExamples, At
    <2>2. "ok" \in Replies
      BY DEF Replies
    <2>3. QED
      BY <2>1, <2>2, AnswerKeepsInv
  <1>8. CASE Abort(r)
    <2>1. /\ pc[r] # "idle" /\ Answer(r, "error") /\ EndTransaction(r)
          /\ UNCHANGED <<examples, born, req>>
      BY <1>8 DEF Abort, Fail
    <2>2. "error" \in Replies
      BY DEF Replies
    <2>3. QED
      BY <2>1, <2>2, AnswerKeepsInv
  <1>9. QED
    BY <1>1, <1>2, <1>3, <1>4, <1>5, <1>6, <1>7, <1>8 DEF ExampleStep

\* The inductive invariant.
THEOREM Invariance == ExamplesSpec => []ExamplesInv
  <1>1. ExamplesInv /\ [ExamplesNext]_exampleVars => ExamplesInv'
    <2> SUFFICES ASSUME ExamplesInv, [ExamplesNext]_exampleVars
                 PROVE  ExamplesInv'
      OBVIOUS
    <2>1. CASE ExamplesNext
      BY <2>1, StepInv DEF ExamplesNext
    <2>2. CASE UNCHANGED exampleVars
      BY <2>2 DEF exampleVars, ExamplesInv, ExamplesTypeOK, HandlerShape,
         HeldRowIsCurrent, IdsAreTaken, NewIdsAreFresh, MissesStayMisses,
         RefusalsStayTrue, Owned, At
    <2>3. QED
      BY <2>1, <2>2
  <1>2. QED
    BY <1>1, InitInv, PTL DEF ExamplesSpec

\* The values of the variables stay in their types.
THEOREM ExamplesTypeCorrect == ExamplesSpec => []ExamplesTypeOK
  <1>1. ExamplesInv => ExamplesTypeOK
    BY DEF ExamplesInv
  <1>2. QED
    BY <1>1, Invariance, PTL

\* The 404 or 403 of _raise_example_access_error is true when it is chosen and
\* stays true, whatever the other requests do.
THEOREM RefusalsAreFinal == ExamplesSpec => []RefusalsStayTrue
  <1>1. ExamplesInv => RefusalsStayTrue
    BY DEF ExamplesInv
  <1>2. QED
    BY <1>1, Invariance, PTL

\* The row an update's commit leaves is the one its response describes, although
\* the UPDATE names only the columns that differ from the loaded row.
THEOREM UpdatesStoreTheirAnswers == ExamplesSpec => UpdatesAreWhole
  <1>1. ExamplesInv /\ [ExamplesNext]_exampleVars =>
          [\A r \in Requests : UpdateStoresItsAnswer(r)]_exampleVars
    <2> SUFFICES ASSUME ExamplesInv, NEW s \in Requests, ExampleStep(s),
                        NEW r \in Requests, At(r, "held", {"update"}),
                        pc'[r] = "committed"
                 PROVE  examples'[req[r].id] = [owner |-> req[r].user,
                                                label |-> req[r].content.label,
                                                value |-> req[r].content.value]
      BY DEF ExamplesNext, UpdateStoresItsAnswer
    <2>1. Commit(r)
      <3>1. pc \in [Requests -> Places] /\ pc[r] = "held"
        BY DEF ExamplesInv, ExamplesTypeOK, At
      <3>2. CASE Commit(s)
        <4>1. s = r
          BY <3>1, <3>2 DEF Commit, Goto
        <4>2. QED
          BY <3>2, <4>1
      <3>3. CASE ~Commit(s)
        <4>1. PICK place \in Places \ {"committed"} : pc' = [pc EXCEPT ![s] = place]
          BY <3>3 DEF ExampleStep, Begin, Close, GetExampleForUpdate, MissExample,
             RaiseExampleAccessError, Respond, ListExamples, Abort, Fail, Answer, Goto,
             Places
        <4>2. QED
          BY <3>1, <4>1
      <3>4. QED
        BY <3>2, <3>3
    <2>2. At(r, "held", LockingOps) /\ req[r].op # "delete" /\ req[r].id \in ExampleIds
      BY RequestShape DEF At, LockingOps
    <2>3. examples'[req[r].id] = Flushed(r)
      BY <2>1, <2>2 DEF Commit, ExamplesInv, ExamplesTypeOK
    <2>4. QED
      BY <2>2, <2>3, FlushedRow
  <1>2. QED
    BY <1>1, Invariance, PTL DEF ExamplesSpec, UpdatesAreWhole

\* A lock is taken by the lookup that loads the row and given up with the transaction.
LEMMA LocksStep ==
  ASSUME ExamplesInv, LocksAreHeld, [ExamplesNext]_exampleVars
  PROVE  LocksAreHeld'
  <1> USE DEF LocksAreHeld
  <1>1. /\ locks \in [ExampleIds -> Requests \cup {Null}]
        /\ pc \in [Requests -> Places] /\ DOMAIN req = Requests
    BY DEF ExamplesInv, ExamplesTypeOK
  <1>2. ASSUME NEW r \in Requests, ExampleStep(r)
        PROVE  LocksAreHeld'
    <2>1. \A s \in Requests \ {r} : pc'[s] = pc[s] /\ req'[s] = req[s]
      BY <1>1, <1>2 DEF ExampleStep, Begin, Close, GetExampleForUpdate, MissExample,
         RaiseExampleAccessError, Commit, Respond, ListExamples, Abort, Fail, Answer, Goto
    <2>2. ASSUME EndTransaction(r)
          PROVE  LocksAreHeld'
      BY <1>1, <2>1, <2>2 DEF EndTransaction
    <2>3. ASSUME locks' = locks, pc[r] # "held"
          PROVE  LocksAreHeld'
      BY <1>1, <2>1, <2>3
    <2>4. CASE GetExampleForUpdate(r)
      <3>1. /\ locks' = [locks EXCEPT ![req[r].id] = r] /\ req' = req
            /\ pc'[r] = "held" /\ pc[r] = "begin"
        BY <1>1, <2>4 DEF GetExampleForUpdate, Goto, At
      <3>2. QED
        BY <1>1, <2>1, <3>1
    <2>5. CASE Begin(r) \/ Close(r) \/ MissExample(r) \/ Respond(r) \/ ListExamples(r)
      BY <2>3, <2>5 DEF Begin, Close, MissExample, Respond, ListExamples, At
    <2>6. CASE RaiseExampleAccessError(r) \/ Commit(r) \/ Abort(r)
      BY <2>2, <2>6 DEF RaiseExampleAccessError, Commit, Abort, Fail
    <2>7. QED
      BY <1>2, <2>4, <2>5, <2>6 DEF ExampleStep
  <1>3. CASE UNCHANGED exampleVars
    BY <1>3 DEF exampleVars
  <1>4. QED
    BY <1>2, <1>3 DEF ExamplesNext

\* No chain and no cycle of requests waiting for row locks, with any number of
\* requests and examples: the holder a request waits for is at work.
THEOREM WaitsDoNotChain == ExamplesSpec => []NoWaitCycle
  <1>1. ExamplesInit => LocksAreHeld
    BY DEF ExamplesInit, LocksAreHeld
  <1>2. ExamplesInv /\ LocksAreHeld => NoWaitCycle
    <2> SUFFICES ASSUME ExamplesInv, LocksAreHeld, NEW r \in Requests, Waits(r)
                 PROVE  LET holder == locks[req[r].id]
                        IN  /\ pc[holder] = "held" /\ req[holder].id = req[r].id
                            /\ \A x \in ExampleIds : locks[x] = holder => x = req[r].id
      BY DEF NoWaitCycle
    <2>1. req[r].id \in ExampleIds /\ locks[req[r].id] # Null
      BY RequestShape DEF ExamplesInv, Waits, At, LockingOps
    <2>2. QED
      BY <2>1 DEF LocksAreHeld
  <1>3. QED
    BY <1>1, <1>2, LocksStep, Invariance, PTL DEF ExamplesSpec
=============================================================================
