--------------------------- MODULE SessionService ---------------------------
(***************************************************************************)
(* Accounts and login sessions: concurrent signup, login, session          *)
(* resolution (get_current_user) and logout requests against PostgreSQL.   *)
(*                                                                         *)
(* A handler runs to its next await as one step.  Reads take no lock.  An  *)
(* uncommitted INSERT or UPDATE of a user row makes every other writer of  *)
(* that row or its unique address wait until the transaction ends.         *)
(***************************************************************************)
EXTENDS Naturals, FiniteSets

CONSTANTS
  Emails,                     \* normalized addresses
  Passwords,
  Tokens,                     \* raw session tokens; digests are one to one
  Requests,                   \* request slots
  SessionTtl,                 \* session_ttl_seconds, in clock ticks
  LastUsedWriteInterval,      \* LAST_USED_WRITE_INTERVAL, in clock ticks
  MaxTokenGenerationAttempts,
  MaxClock,                   \* bound: the clock stops here
  Operations,                 \* bound: the operations clients ask for
  Null

ASSUME TtlAssumption      == SessionTtl \in Nat \ {0}
ASSUME IntervalAssumption == LastUsedWriteInterval \in Nat \ {0}
ASSUME AttemptsAssumption == MaxTokenGenerationAttempts \in Nat \ {0}
ASSUME BoundsAssumption   == MaxClock \in Nat

VARIABLES
  users,      \* the committed account of each email, or Null
  sessions,   \* the committed session of each token, or Null
  userWrite,  \* the request that has written an email's row, uncommitted, or Null
  clock,      \* what SystemClock.now() returns
  pc,         \* where each request's handler is
  req,        \* the validated request each slot is handling
  row,        \* the user or session entity the handler has read, or Null
  now,        \* the handler's reading of the clock, or Null
  minted,     \* the token of the session the handler has inserted, or Null
  tries,      \* token collisions the handler has met
  reply,      \* what the client was last told
  issued,     \* tokens ever generated (history)
  known,      \* tokens some response has carried in its cookie (history)
  refused,    \* tokens a response has declared invalid or logged out (history)
  hopeless    \* why the request, as it was sent, must not be accepted (history)

db      == <<users, sessions, userWrite>>
locals  == <<row, now, minted, tries>>
history == <<issued, known, refused, hopeless>>
vars    == <<users, sessions, userWrite, clock, pc, req, row, now, minted,
             tries, reply, issued, known, refused, hopeless>>

-----------------------------------------------------------------------------
(* Data                                                                    *)

Time      == 0 .. MaxClock
Deadlines == SessionTtl .. MaxClock + SessionTtl

\* `outdated` tells a password hash made with older parameters.
Account == [password : Passwords, outdated : BOOLEAN]
Session == [user : Emails, created : Time, used : Time, expires : Deadlines]

CredentialOps == {"signup", "login"}
CookieOps     == {"me", "logout"}
AuthRequest   == [op : CredentialOps, email : Emails, password : Passwords]
CookieRequest == [op : CookieOps, token : Tokens]
Form          == AuthRequest \cup CookieRequest

\* Null stands for SQL's NULL, Python's None and a free key: a value of its own.
ASSUME NullAssumption ==
  Null \notin Nat \cup Account \cup Session \cup Form \cup Tokens \cup Passwords
             \cup Requests \cup [user : Emails, expires : Deadlines]

Places  == {"idle", "begin", "looked", "writing", "inserting", "staged", "resolving",
            "found", "committed", "done"}
Replies == {"none", "ok", "duplicate_email", "invalid_credentials", "unauthorized",
            "internal_error", "failed"}

TypeOK ==
  /\ users \in [Emails -> Account \cup {Null}]
  /\ sessions \in [Tokens -> Session \cup {Null}]
  /\ userWrite \in [Emails -> Requests \cup {Null}]
  /\ clock \in Time
  /\ pc \in [Requests -> Places]
  /\ req \in [Requests -> Form \cup {Null}]
  /\ row \in [Requests -> Account \cup Session \cup {Null}]
  /\ now \in [Requests -> Time \cup {Null}]
  /\ minted \in [Requests -> Tokens \cup {Null}]
  /\ tries \in [Requests -> 0 .. MaxTokenGenerationAttempts - 1]
  /\ reply \in [Requests -> Replies]
  /\ issued \in SUBSET Tokens
  /\ known \in SUBSET Tokens
  /\ refused \in SUBSET Tokens
  /\ hopeless \in [Requests -> {"no", "outlived", "refused"}]

-----------------------------------------------------------------------------
(* Rows, places and answers                                                *)

\* Mutant: the new session is not marked as used.
NewSessionUnused(r) ==
  [user    |-> req[r].email, created |-> now[r],
   used    |-> Null,         expires |-> now[r] + SessionTtl]

\* add_session's row
NewSession(r) ==
  [user    |-> req[r].email, created |-> now[r],
   used    |-> now[r],       expires |-> now[r] + SessionTtl]

At(r, place, ops) == pc[r] = place /\ req[r].op \in ops

Goto(r, place) == pc' = [pc EXCEPT ![r] = place]

ReadClock(r) == now' = [now EXCEPT ![r] = clock]

\* The transaction of r ends: COMMIT and ROLLBACK both let the waiting writers go.
EndTransaction(r) ==
  userWrite' = [e \in Emails |-> IF userWrite[e] = r THEN Null ELSE userWrite[e]]

\* Whether the answer tells the client that its token is worthless now.
EndsToken(r, answer) ==
  \/ answer = "unauthorized"
  \/ answer = "ok" /\ req[r].op = "logout"

Answer(r, answer) ==
  /\ Goto(r, "done")
  /\ reply' = [reply EXCEPT ![r] = answer]
  /\ refused' = IF EndsToken(r, answer) THEN refused \cup {req[r].token} ELSE refused
  /\ row'    = [row    EXCEPT ![r] = Null]
  /\ now'    = [now    EXCEPT ![r] = Null]
  /\ tries'  = [tries  EXCEPT ![r] = 0]

\* Mutant: the handler raises without rolling back.
LeaveWithoutRollback(r, answer) ==
  /\ Answer(r, answer)
  /\ minted' = [minted EXCEPT ![r] = Null]
  /\ UNCHANGED <<db, clock, req, issued, known, hopeless>>

\* An answer that nothing was written for: errors roll back first, and what a
\* successful read leaves open the request's database session rolls back.
Leave(r, answer) ==
  /\ Answer(r, answer)
  /\ EndTransaction(r)
  /\ minted' = [minted EXCEPT ![r] = Null]
  /\ UNCHANGED <<users, sessions, clock, req, issued, known, hopeless>>

-----------------------------------------------------------------------------
(* A request arrives                                                       *)

\* The session's time is over, whatever its row says.
Outlived(t) ==
  /\ sessions[t] # Null
  /\ clock >= sessions[t].created + SessionTtl

\* Requests that may still draw a token.
Drawing == {r \in Requests : /\ pc[r] \in {"begin", "looked", "writing", "inserting"}
                             /\ req[r].op \in CredentialOps}

\* A browser presents only a cookie it was given.  Bound: credentials are sent
\* while the model has a token left for them.
Admissible(f) ==
  /\ f.op \in Operations
  /\ f.op \in CookieOps => f.token \in known
  /\ f.op \in CredentialOps => Cardinality(Tokens \ issued) > Cardinality(Drawing)

Begin(r) ==
  /\ pc[r] \in {"idle", "done"}
  /\ \E f \in Form :
       /\ Admissible(f)
       /\ req' = [req EXCEPT ![r] = f]
       /\ hopeless' = [hopeless EXCEPT ![r] =
            CASE f.op = "me" /\ f.token \in refused                         -> "refused"
              [] f.op = "me" /\ f.token \notin refused /\ Outlived(f.token) -> "outlived"
              [] OTHER                                                       -> "no"]
  /\ Goto(r, "begin")
  /\ minted' = [minted EXCEPT ![r] = Null]
  /\ reply' = [reply EXCEPT ![r] = "none"]
  /\ UNCHANGED <<db, clock, row, now, tries, issued, known, refused>>

-----------------------------------------------------------------------------
(* Signup and login                                                        *)

\* get_user_by_email
GetUserByEmail(r) ==
  /\ At(r, "begin", CredentialOps)
  /\ row' = [row EXCEPT ![r] = users[req[r].email]]
  /\ Goto(r, "looked")
  /\ UNCHANGED <<db, clock, req, now, minted, tries, reply, history>>

\* signup finds the account
RefuseSignup(r) ==
  /\ At(r, "looked", {"signup"})
  /\ row[r] # Null
  /\ Leave(r, "duplicate_email")

\* login finds no account, or the password does not verify
PasswordMatches(r) == row[r] # Null /\ row[r].password = req[r].password

RefuseLogin(r) ==
  /\ At(r, "looked", {"login"})
  /\ ~PasswordMatches(r)
  /\ Leave(r, "invalid_credentials")

\* The user row is written by a signup, and by a login that replaces an old hash.
WritesUser(r) == req[r].op = "signup" \/ row[r].outdated

\* The checks pass: read the clock, then flush what is staged.
AcceptCredentials(r) ==
  /\ \/ At(r, "looked", {"signup"}) /\ row[r] = Null
     \/ At(r, "looked", {"login"}) /\ PasswordMatches(r)
  /\ ReadClock(r)
  /\ Goto(r, IF WritesUser(r) THEN "writing" ELSE "inserting")
  /\ UNCHANGED <<db, clock, req, row, minted, tries, reply, history>>

\* Mutant: email has an index, but not a unique one.
WriteUserAlways(r) ==
  /\ At(r, "writing", CredentialOps)
  /\ userWrite[req[r].email] = Null
  /\ userWrite' = [userWrite EXCEPT ![req[r].email] = r]
  /\ Goto(r, "inserting")
  /\ UNCHANGED <<users, sessions, clock, req, locals, reply, history>>

\* Mutant: the account is committed before its session is staged.
WriteUserAndCommit(r) ==
  /\ At(r, "writing", CredentialOps)
  /\ userWrite[req[r].email] = Null
  /\ req[r].op = "signup" => users[req[r].email] = Null
  /\ users' = [users EXCEPT ![req[r].email] =
                 [password |-> req[r].password, outdated |-> FALSE]]
  /\ Goto(r, "inserting")
  /\ UNCHANGED <<sessions, userWrite, clock, req, locals, reply, history>>

\* The INSERT or UPDATE of the user row goes through once no other transaction
\* has it in hand, and an INSERT only if the address is still free.
WriteUser(r) ==
  /\ At(r, "writing", CredentialOps)
  /\ userWrite[req[r].email] = Null
  /\ req[r].op = "signup" => users[req[r].email] = Null
  /\ userWrite' = [userWrite EXCEPT ![req[r].email] = r]
  /\ Goto(r, "inserting")
  /\ UNCHANGED <<users, sessions, clock, req, locals, reply, history>>

\* uq_users_email refuses the INSERT: another signup committed first.
LoseEmailRace(r) ==
  /\ At(r, "writing", {"signup"})
  /\ userWrite[req[r].email] = Null
  /\ users[req[r].email] # Null
  /\ Leave(r, "duplicate_email")

\* Mutant: the digest column is not unique.
InsertAnySession(r) ==
  /\ At(r, "inserting", CredentialOps)
  /\ \E t \in Tokens :
       /\ t \notin issued \/ sessions[t] # Null
       /\ minted' = [minted EXCEPT ![r] = t]
       /\ issued' = issued \cup {t}
  /\ Goto(r, "staged")
  /\ UNCHANGED <<db, clock, req, row, now, tries, reply, known, refused, hopeless>>

\* The savepoint's INSERT of a session under a token never drawn before.
InsertSession(r) ==
  /\ At(r, "inserting", CredentialOps)
  /\ \E t \in Tokens \ issued :
       /\ minted' = [minted EXCEPT ![r] = t]
       /\ issued' = issued \cup {t}
  /\ Goto(r, "staged")
  /\ UNCHANGED <<db, clock, req, row, now, tries, reply, known, refused, hopeless>>

\* The token drawn is another session's: uq_sessions_token_hash refuses it.
Collides(r) ==
  /\ At(r, "inserting", CredentialOps)
  /\ \E t \in Tokens : sessions[t] # Null

\* Back to the savepoint, to try another token.
RetryToken(r) ==
  /\ Collides(r)
  /\ tries[r] + 1 < MaxTokenGenerationAttempts
  /\ tries' = [tries EXCEPT ![r] = @ + 1]
  /\ UNCHANGED <<db, clock, pc, req, row, now, minted, reply, history>>

\* SessionTokenCollisionError
GiveUpTokens(r) ==
  /\ Collides(r)
  /\ tries[r] + 1 = MaxTokenGenerationAttempts
  /\ Leave(r, "internal_error")

\* The transaction commits: the account or its new hash, and the session.
CommitCredentials(r) ==
  /\ At(r, "staged", CredentialOps)
  /\ users' = IF WritesUser(r)
                THEN [users EXCEPT ![req[r].email] =
                        [password |-> req[r].password, outdated |-> FALSE]]
                ELSE users
  /\ sessions' = [sessions EXCEPT ![minted[r]] = NewSession(r)]
  /\ EndTransaction(r)
  /\ Goto(r, "committed")
  /\ UNCHANGED <<clock, req, locals, reply, history>>

-----------------------------------------------------------------------------
(* Session resolution and logout                                           *)

\* resolve_session reads the clock first.
ReadClockFirst(r) ==
  /\ At(r, "begin", {"me"})
  /\ ReadClock(r)
  /\ Goto(r, "resolving")
  /\ UNCHANGED <<db, clock, req, row, minted, tries, reply, history>>

LooksUp(r) == At(r, "resolving", {"me"}) \/ At(r, "begin", {"logout"})

\* get_session_with_user_by_digest, delete_session_by_digest's SELECT
FindSession(r) ==
  /\ LooksUp(r)
  /\ sessions[req[r].token] # Null
  /\ row' = [row EXCEPT ![r] = sessions[req[r].token]]
  /\ Goto(r, "found")
  /\ UNCHANGED <<db, clock, req, now, minted, tries, reply, history>>

\* No row: resolution fails, logout has nothing to do and succeeds.
MissSession(r) ==
  /\ LooksUp(r)
  /\ sessions[req[r].token] = Null
  /\ Leave(r, IF req[r].op = "me" THEN "unauthorized" ELSE "ok")

Expired(r) == row[r].expires <= now[r]

\* The row was not used for LAST_USED_WRITE_INTERVAL.
Due(r) == now[r] >= row[r].used + LastUsedWriteInterval

\* Mutant: an expired session is rejected but not removed.
LeaveExpiredSession(r) ==
  /\ At(r, "found", {"me"})
  /\ Expired(r)
  /\ Goto(r, "committed")
  /\ UNCHANGED <<db, clock, req, locals, reply, history>>

\* DELETE of the row by its key, and commit; no row matching is no error.
DeleteExpiredSession(r) ==
  /\ At(r, "found", {"me"})
  /\ Expired(r)
  /\ sessions' = [sessions EXCEPT ![req[r].token] = Null]
  /\ Goto(r, "committed")
  /\ UNCHANGED <<users, userWrite, clock, req, locals, reply, history>>

\* A valid session used recently: nothing is written.
AcceptSession(r) ==
  /\ At(r, "found", {"me"})
  /\ ~Expired(r) /\ ~Due(r)
  /\ Leave(r, "ok")

Touchable(r) == At(r, "found", {"me"}) /\ ~Expired(r) /\ Due(r)

\* Mutant: activity extends the session.
TouchAndExtend(r) ==
  /\ Touchable(r)
  /\ sessions[req[r].token] # Null
  /\ sessions' = [sessions EXCEPT ![req[r].token].used    = now[r],
                                  ![req[r].token].expires = now[r] + SessionTtl]
  /\ Goto(r, "committed")
  /\ UNCHANGED <<users, userWrite, clock, req, locals, reply, history>>

\* UPDATE of last_used_at by the row's key, and commit.
TouchSession(r) ==
  /\ Touchable(r)
  /\ sessions[req[r].token] # Null
  /\ sessions' = [sessions EXCEPT ![req[r].token].used = now[r]]
  /\ Goto(r, "committed")
  /\ UNCHANGED <<users, userWrite, clock, req, locals, reply, history>>

\* The row is gone: the ORM's UPDATE matches none and raises StaleDataError.
TouchMissingSession(r) ==
  /\ Touchable(r)
  /\ sessions[req[r].token] = Null
  /\ Leave(r, "internal_error")

\* delete_session_by_digest's DELETE, and commit; no row matching is no error.
RevokeSession(r) ==
  /\ At(r, "found", {"logout"})
  /\ sessions' = [sessions EXCEPT ![req[r].token] = Null]
  /\ Goto(r, "committed")
  /\ UNCHANGED <<users, userWrite, clock, req, locals, reply, history>>

-----------------------------------------------------------------------------
(* Answers after a commit, failures, the clock                             *)

Outcome(r) == IF req[r].op = "me" /\ Expired(r) THEN "unauthorized" ELSE "ok"

\* The answer of a signup or a login carries the cookie.
Respond(r) ==
  /\ pc[r] = "committed"
  /\ Answer(r, Outcome(r))
  /\ known' = IF req[r].op \in CredentialOps THEN known \cup {minted[r]} ELSE known
  /\ UNCHANGED <<db, clock, req, minted, issued, hopeless>>

\* The commit happened, but its acknowledgement or the response is lost.
LoseAnswer(r) ==
  /\ pc[r] = "committed"
  /\ Leave(r, "failed")

\* Any exception before the commit: connection lost, statement failed, cancelled.
Abort(r) ==
  /\ pc[r] \notin {"idle", "committed", "done"}
  /\ Leave(r, "failed")

Tick ==
  /\ clock < MaxClock
  /\ clock' = clock + 1
  /\ UNCHANGED <<db, pc, req, locals, reply, history>>

\* The wall clock is set back: what it said of an end of life is void.
StepBack ==
  /\ clock > 0
  /\ clock' = clock - 1
  /\ hopeless' = [r \in Requests |-> IF hopeless[r] = "outlived" THEN "no" ELSE hopeless[r]]
  /\ UNCHANGED <<db, pc, req, locals, reply, issued, known, refused>>

-----------------------------------------------------------------------------
\* Accounts may exist from before, with password hashes of an older generation.
Init ==
  /\ users \in [Emails -> [password : Passwords, outdated : {TRUE}] \cup {Null}]
  /\ sessions   = [t \in Tokens |-> Null]
  /\ userWrite  = [e \in Emails |-> Null]
  /\ clock      = 0
  /\ pc         = [r \in Requests |-> "idle"]
  /\ req        = [r \in Requests |-> Null]
  /\ row        = [r \in Requests |-> Null]
  /\ now        = [r \in Requests |-> Null]
  /\ minted     = [r \in Requests |-> Null]
  /\ tries      = [r \in Requests |-> 0]
  /\ reply      = [r \in Requests |-> "none"]
  /\ issued     = {}
  /\ known      = {}
  /\ refused    = {}
  /\ hopeless   = [r \in Requests |-> "no"]

\* A step of r's handler, other than a failure.
Step(r) ==
  \/ GetUserByEmail(r) \/ RefuseSignup(r) \/ RefuseLogin(r) \/ AcceptCredentials(r)
  \/ WriteUser(r) \/ LoseEmailRace(r) \/ InsertSession(r)
  \/ RetryToken(r) \/ GiveUpTokens(r) \/ CommitCredentials(r)
  \/ ReadClockFirst(r) \/ FindSession(r) \/ MissSession(r) \/ DeleteExpiredSession(r)
  \/ AcceptSession(r) \/ TouchSession(r) \/ TouchMissingSession(r) \/ RevokeSession(r)
  \/ Respond(r)

Next ==
  \/ \E r \in Requests : Begin(r) \/ Step(r) \/ LoseAnswer(r) \/ Abort(r)
  \/ Tick
  \/ StepBack

Spec == Init /\ [][Next]_vars

\* Fairness.  The event loop resumes every handler whose database call has
\* returned, and PostgreSQL wakes the writers that wait for a transaction in the
\* order they came: one that can go on again and again goes on.
FairSpec ==
  /\ Spec
  /\ \A r \in Requests : WF_vars(Step(r)) /\ SF_vars(WriteUser(r) \/ LoseEmailRace(r))

-----------------------------------------------------------------------------
(* Safety                                                                  *)

Granted(r) == /\ pc[r] = "committed" \/ (pc[r] = "done" /\ reply[r] = "ok")
              /\ req[r].op \in CredentialOps

\* Once a client was told that its session is invalid, expired or logged out, no
\* request sent later with that token is accepted - not after a clock set back,
\* nor through an activity write that raced the deletion; and none sent after the
\* session's absolute lifetime is accepted, unless the clock is set back meanwhile.
RefusedStaysRefused ==
  \A r \in Requests : hopeless[r] # "no" => reply[r] # "ok"

\* A session lives exactly its TTL from its creation whatever the activity, and
\* no concurrent activity write breaks the table's CHECK constraints or dates a
\* use past the end.
SessionTimesAreSane ==
  \A t \in Tokens : sessions[t] # Null =>
    LET s == sessions[t]
    IN  /\ s.expires = s.created + SessionTtl
        /\ s.created <= s.used
        /\ s.used < s.expires

\* The cookie a signup or login hands out opens the account whose credentials
\* were given and no other, and no two of them hand out the same cookie.
CookieOpensOwnAccount ==
  /\ \A r \in Requests : Granted(r) =>
       /\ users[req[r].email] # Null
       /\ users[req[r].email].password = req[r].password
       /\ sessions[minted[r]] # Null => sessions[minted[r]].user = req[r].email
  /\ \A r, s \in Requests : Granted(r) /\ Granted(s) /\ minted[r] = minted[s] => r = s

\* Of concurrent signups with one address at most one succeeds, and every other
\* one is told that the address is taken only when it really is.
OneAccountPerEmail ==
  /\ \A r, s \in Requests :
       /\ Granted(r) /\ req[r].op = "signup"
       /\ Granted(s) /\ req[s].op = "signup"
       /\ req[r].email = req[s].email
       => r = s
  /\ \A r \in Requests : reply[r] = "duplicate_email" => users[req[r].email] # Null

\* Documented throttling: last_used_at is written at most once per interval.
WritesAreThrottled ==
  \A t \in Tokens :
    sessions[t] # Null /\ sessions'[t] # Null /\ sessions'[t].used # sessions[t].used
      => sessions'[t].used >= sessions[t].used + LastUsedWriteInterval

LastUsedIsThrottled == [][WritesAreThrottled]_vars

-----------------------------------------------------------------------------
(* Refinement and liveness                                                 *)

Public == INSTANCE Accounts
  WITH accounts <- [e \in Emails |-> IF users[e] = Null THEN Null ELSE users[e].password],
       live <- [t \in Tokens |-> IF sessions[t] = Null THEN Null
                  ELSE [user |-> sessions[t].user, expires |-> sessions[t].expires]]

\* Each commit is one abstract operation - an account never appears without its
\* first session - and activity writes, new hashes and failures are none.
ImplementsAccounts == Public!Spec

\* Every request is answered: no abandoned transaction keeps the writers of an
\* address waiting.
EveryRequestIsAnswered ==
  \A r \in Requests : (pc[r] = "begin") ~> (pc[r] = "done")
=============================================================================
