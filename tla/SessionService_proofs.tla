------------------------ MODULE SessionService_proofs ------------------------
(***************************************************************************)
(* Proofs about SessionService, for any accounts, tokens, numbers of       *)
(* concurrent requests, lifetimes and throttling intervals.                *)
(***************************************************************************)
EXTENDS SessionService, TLAPS

-----------------------------------------------------------------------------
(* The inductive invariant                                                 *)

\* What a request in its place is about; it was given the cookie it presents.
Placed(r) ==
  /\ pc[r] # "idle" =>
       \/ /\ req[r].op \in CredentialOps
          /\ req[r].email \in Emails /\ req[r].password \in Passwords
       \/ req[r].op \in CookieOps /\ req[r].token \in Tokens
  /\ reply[r] # "none" => pc[r] = "done"
  /\ pc[r] \in {"looked", "writing", "inserting", "staged"} => req[r].op \in CredentialOps
  /\ pc[r] \in {"writing", "inserting", "staged"} => now[r] \in Time
  /\ pc[r] = "resolving" => req[r].op = "me"
  /\ pc[r] = "found" => req[r].op \in CookieOps
  /\ pc[r] # "idle" /\ req[r].op \in CookieOps => req[r].token \in known
  /\ pc[r] \in {"resolving", "found", "committed"} /\ req[r].op = "me" => now[r] \in Time

\* The password a handler has seen is still the account's.
CopyIsCurrent(r) ==
  /\ pc[r] = "looked" =>
       /\ row[r] \in Account \cup {Null}
       /\ row[r] # Null => /\ users[req[r].email] # Null
                           /\ users[req[r].email].password = row[r].password
  /\ pc[r] \in {"writing", "inserting", "staged"} =>
       \/ req[r].op = "signup" /\ row[r] = Null
       \/ /\ req[r].op = "login" /\ row[r] \in Account /\ row[r].password = req[r].password
          /\ users[req[r].email] # Null
          /\ users[req[r].email].password = req[r].password
  /\ Granted(r) => /\ users[req[r].email] # Null
                   /\ users[req[r].email].password = req[r].password
  /\ reply[r] = "duplicate_email" => req[r].op = "signup" /\ users[req[r].email] # Null

\* Who has written a user row keeps it in hand until its transaction ends; the
\* address of an uncommitted signup stays free.
HoldsItsRow(r) ==
  /\ pc[r] = "writing" => WritesUser(r)
  /\ pc[r] \in {"inserting", "staged"} /\ WritesUser(r) =>
       /\ userWrite[req[r].email] = r
       /\ req[r].op = "signup" => users[req[r].email] = Null

OneSignupPerEmail ==
  \A r, s \in Requests :
    /\ Granted(r) /\ req[r].op = "signup"
    /\ Granted(s) /\ req[s].op = "signup"
    /\ req[r].email = req[s].email
    => r = s

\* A token belongs to the request that drew it; its session exists only from that
\* request's commit, and the client has it only after that.
TokensAreOwn ==
  /\ \A r \in Requests :
       /\ minted[r] # Null => minted[r] \in issued /\ pc[r] \in {"staged", "committed", "done"}
       /\ pc[r] = "staged" => /\ minted[r] \in issued \ known
                              /\ sessions[minted[r]] = Null
       /\ Granted(r) => minted[r] \in issued
       /\ Granted(r) /\ sessions[minted[r]] # Null =>
            sessions[minted[r]].user = req[r].email
  /\ \A r, s \in Requests : minted[r] # Null /\ minted[r] = minted[s] => r = s
  /\ \A t \in Tokens : sessions[t] # Null => t \in issued
  /\ known \subseteq issued /\ refused \subseteq known

\* The handler's copy of a session differs from the row at most in its last use.
SessionCopy(r) ==
  /\ pc[r] = "found" =>
       /\ row[r] \in Session
       /\ row[r].expires = row[r].created + SessionTtl /\ row[r].created <= row[r].used
       /\ sessions[req[r].token] # Null =>
            /\ sessions[req[r].token].created = row[r].created
            /\ sessions[req[r].token].expires = row[r].expires
  /\ pc[r] = "committed" =>
       /\ req[r].op = "logout" => sessions[req[r].token] = Null
       /\ req[r].op = "me" /\ Expired(r) => sessions[req[r].token] = Null

RefusedAreGone == \A t \in refused : sessions[t] = Null

\* Where a request sent with a token that is no longer good can be.
HopelessIsRefused(r) ==
  /\ hopeless[r] # "no" => pc[r] # "idle" /\ req[r].op = "me" /\ reply[r] # "ok"
  /\ hopeless[r] = "refused" =>
       req[r].token \in refused /\ pc[r] \in {"begin", "resolving", "done"}
  /\ hopeless[r] = "outlived" =>
       /\ pc[r] = "begin" /\ sessions[req[r].token] # Null =>
            sessions[req[r].token].expires <= clock
       /\ pc[r] = "resolving" /\ sessions[req[r].token] # Null =>
            sessions[req[r].token].expires <= now[r]
       /\ pc[r] \in {"found", "committed"} => Expired(r)

AllPlaced   == \A r \in Requests : Placed(r)
AllCurrent  == \A r \in Requests : CopyIsCurrent(r)
AllHold     == \A r \in Requests : HoldsItsRow(r)
AllCopies   == \A r \in Requests : SessionCopy(r)
AllHopeless == \A r \in Requests : HopelessIsRefused(r)

SessionInv ==
  /\ TypeOK
  /\ AllPlaced
  /\ AllCurrent
  /\ AllHold
  /\ OneSignupPerEmail
  /\ TokensAreOwn
  /\ SessionTimesAreSane
  /\ AllCopies
  /\ RefusedAreGone
  /\ AllHopeless

-----------------------------------------------------------------------------
(* The steps                                                               *)

\* An answer that nothing was written for.
LEMMA LeaveKeepsInv ==
  ASSUME SessionInv, NEW r \in Requests, NEW a \in Replies, Leave(r, a),
         pc[r] \notin {"idle", "done"}, a # "none",
         a = "duplicate_email" => req[r].op = "signup" /\ users[req[r].email] # Null,
         a = "ok" => req[r].op \in CookieOps /\ hopeless[r] = "no",
         EndsToken(r, a) => req[r].op \in CookieOps /\ sessions[req[r].token] = Null
  PROVE  SessionInv'
  <1>1. /\ pc'[r] = "done" /\ reply'[r] = a /\ minted'[r] = Null
        /\ \A s \in Requests : s # r =>
           /\ pc'[s] = pc[s] /\ row'[s] = row[s] /\ now'[s] = now[s]
           /\ minted'[s] = minted[s] /\ tries'[s] = tries[s] /\ reply'[s] = reply[s]
        /\ \/ refused' = refused
           \/ /\ req[r].op \in CookieOps /\ sessions[req[r].token] = Null
              /\ refused' = refused \cup {req[r].token}
        /\ \A e \in Emails : \A s \in Requests : s # r => (userWrite[e] = s => userWrite'[e] = s)
        /\ UNCHANGED <<users, sessions, clock, req, hopeless, issued, known>>
    BY DEF SessionInv, Leave, Answer, Goto, EndTransaction, TypeOK, EndsToken
  <1>2. TypeOK'
    <2>1. pc' \in [Requests -> Places]
      BY DEF SessionInv, TypeOK, Leave, Answer, Goto, Places
    <2>2. reply' \in [Requests -> Replies]
      BY DEF SessionInv, TypeOK, Leave, Answer
    <2>3. row' \in [Requests -> Account \cup Session \cup {Null}]
      BY DEF SessionInv, TypeOK, Leave, Answer
    <2>4. now' \in [Requests -> Time \cup {Null}]
      BY DEF SessionInv, TypeOK, Leave, Answer
    <2>5. minted' \in [Requests -> Tokens \cup {Null}]
      BY DEF SessionInv, TypeOK, Leave, Answer
    <2>6. tries' \in [Requests -> 0 .. MaxTokenGenerationAttempts - 1]
      BY AttemptsAssumption DEF SessionInv, TypeOK, Leave, Answer
    <2>7. userWrite' \in [Emails -> Requests \cup {Null}]
      BY DEF SessionInv, TypeOK, Leave, EndTransaction
    <2>8. refused' \in SUBSET Tokens
      BY <1>1 DEF SessionInv, TypeOK, AllPlaced, Placed, CredentialOps, CookieOps
    <2>9. QED
      BY <1>1, <2>1, <2>2, <2>3, <2>4, <2>5, <2>6, <2>7, <2>8 DEF SessionInv, TypeOK
  <1>3. AllPlaced'
    BY <1>1 DEF SessionInv, AllPlaced, Placed, TypeOK, CredentialOps, CookieOps
  <1>4. AllCurrent'
    BY <1>1 DEF SessionInv, AllCurrent, CopyIsCurrent, Granted, TypeOK, CredentialOps,
       CookieOps
  <1>5. AllHold'
    BY <1>1 DEF SessionInv, AllHold, HoldsItsRow, WritesUser, TypeOK, CredentialOps,
       CookieOps, AllPlaced, Placed
  <1>6. OneSignupPerEmail'
    BY <1>1 DEF SessionInv, OneSignupPerEmail, Granted, TypeOK, CredentialOps, CookieOps
  <1>7. TokensAreOwn'
    BY <1>1 DEF SessionInv, TokensAreOwn, Granted, TypeOK, CredentialOps, CookieOps,
       AllPlaced, Placed
  <1>8. SessionTimesAreSane'
    BY <1>1 DEF SessionInv, SessionTimesAreSane, TypeOK, CredentialOps, CookieOps
  <1>9. AllCopies'
    BY <1>1 DEF SessionInv, AllCopies, SessionCopy, Expired, TypeOK, CredentialOps,
       CookieOps
  <1>10. RefusedAreGone'
    BY <1>1 DEF SessionInv, RefusedAreGone, TypeOK, CredentialOps, CookieOps
  <1>11. AllHopeless'
    BY <1>1 DEF SessionInv, AllHopeless, HopelessIsRefused, Expired, TypeOK,
       CredentialOps, CookieOps
  <1>12. QED
    BY <1>2, <1>3, <1>4, <1>5, <1>6, <1>7, <1>8, <1>9, <1>10, <1>11 DEF SessionInv

\* A request is sent.
LEMMA BeginKeepsInv ==
  ASSUME SessionInv, NEW r \in Requests, Begin(r)
  PROVE  SessionInv'
  <1>1. /\ pc[r] \in {"idle", "done"} /\ pc'[r] = "begin" /\ minted'[r] = Null /\ reply'[r] = "none"
        /\ \A s \in Requests : s # r =>
           /\ pc'[s] = pc[s] /\ req'[s] = req[s] /\ minted'[s] = minted[s]
           /\ reply'[s] = reply[s] /\ hopeless'[s] = hopeless[s]
        /\ \/ /\ req'[r].op \in CredentialOps
              /\ req'[r].email \in Emails /\ req'[r].password \in Passwords
           \/ req'[r].op \in CookieOps /\ req'[r].token \in Tokens \cap known
        /\ hopeless'[r] # "no" => req'[r].op = "me"
        /\ hopeless'[r] = "refused" => req'[r].token \in refused
        /\ hopeless'[r] = "outlived" => Outlived(req'[r].token)
        /\ UNCHANGED <<users, sessions, userWrite, clock, row, now, tries, issued, known,
                      refused>>
    <2>1. PICK f \in Form :
            /\ Admissible(f)
            /\ req' = [req EXCEPT ![r] = f]
            /\ hopeless' = [hopeless EXCEPT ![r] =
                 CASE f.op = "me" /\ f.token \in refused -> "refused"
                   [] f.op = "me" /\ f.token \notin refused /\ Outlived(f.token) -> "outlived"
                   [] OTHER -> "no"]
      BY DEF Begin
    <2>2. req'[r] = f /\ \A s \in Requests : s # r => req'[s] = req[s]
      BY <2>1 DEF SessionInv, TypeOK
    <2>3. \/ f.op \in CredentialOps /\ f.email \in Emails /\ f.password \in Passwords
          \/ f.op \in CookieOps /\ f.token \in Tokens \cap known
      BY <2>1 DEF Admissible, Form, AuthRequest, CookieRequest, CookieOps, CredentialOps
    <2>4. /\ hopeless'[r] # "no" => f.op = "me"
          /\ hopeless'[r] = "refused" => f.token \in refused
          /\ hopeless'[r] = "outlived" => Outlived(f.token)
          /\ \A s \in Requests : s # r => hopeless'[s] = hopeless[s]
      <3>1. CASE f.op # "me"
        BY <2>1, <3>1 DEF SessionInv, TypeOK
      <3>2. CASE f.op = "me" /\ f.token \in refused
        BY <2>1, <3>2 DEF SessionInv, TypeOK
      <3>3. CASE f.op = "me" /\ f.token \notin refused /\ Outlived(f.token)
        BY <2>1, <3>3 DEF SessionInv, TypeOK
      <3>4. CASE f.op = "me" /\ f.token \notin refused /\ ~Outlived(f.token)
        BY <2>1, <3>4 DEF SessionInv, TypeOK
      <3>5. QED
        BY <3>1, <3>2, <3>3, <3>4
    <2>5. QED
      BY <2>2, <2>3, <2>4 DEF Begin, Goto, db, SessionInv, TypeOK
  <1>2. TypeOK'
    <2>1. pc' \in [Requests -> Places]
      BY DEF SessionInv, TypeOK, Begin, Goto, Places
    <2>2. req' \in [Requests -> Form \cup {Null}]
      BY DEF SessionInv, TypeOK, Begin, Goto
    <2>3. minted' \in [Requests -> Tokens \cup {Null}]
      BY DEF SessionInv, TypeOK, Begin, Goto
    <2>4. reply' \in [Requests -> Replies]
      BY DEF SessionInv, TypeOK, Begin, Replies
    <2>5. hopeless' \in [Requests -> {"no", "outlived", "refused"}]
      BY DEF SessionInv, TypeOK, Begin, Goto
    <2>6. QED
      BY <1>1, <2>1, <2>2, <2>3, <2>4, <2>5 DEF SessionInv, TypeOK
  <1>3. AllPlaced'
    BY <1>1 DEF SessionInv, AllPlaced, Placed, CredentialOps, CookieOps, TypeOK
  <1>4. AllCurrent'
    BY <1>1 DEF SessionInv, AllCurrent, CopyIsCurrent, Granted, AllPlaced, Placed,
       CredentialOps, CookieOps, TypeOK
  <1>5. AllHold'
    BY <1>1 DEF SessionInv, AllHold, HoldsItsRow, WritesUser, AllPlaced, Placed,
       CredentialOps, CookieOps, TypeOK
  <1>6. OneSignupPerEmail'
    BY <1>1 DEF SessionInv, OneSignupPerEmail, Granted, AllPlaced, Placed, CredentialOps,
       CookieOps, TypeOK
  <1>7. TokensAreOwn'
    BY <1>1 DEF SessionInv, TokensAreOwn, Granted, AllPlaced, Placed, CredentialOps,
       CookieOps, TypeOK
  <1>8. SessionTimesAreSane'
    BY <1>1 DEF SessionInv, SessionTimesAreSane, AllPlaced, Placed, CredentialOps,
       CookieOps, TypeOK
  <1>9. AllCopies'
    BY <1>1 DEF SessionInv, AllCopies, SessionCopy, Expired, AllPlaced, Placed,
       CredentialOps, CookieOps, TypeOK
  <1>10. RefusedAreGone'
    BY <1>1 DEF SessionInv, RefusedAreGone, AllPlaced, Placed, CredentialOps, CookieOps,
       TypeOK
  <1>11. AllHopeless'
    BY <1>1 DEF SessionInv, AllHopeless, HopelessIsRefused, Expired, AllPlaced, Placed,
       CredentialOps, CookieOps, TypeOK, SessionTimesAreSane, Outlived, Session,
       Deadlines, Time
  <1>12. QED
    BY <1>2, <1>3, <1>4, <1>5, <1>6, <1>7, <1>8, <1>9, <1>10, <1>11 DEF SessionInv

\* The account is looked up.
LEMMA GetUserKeepsInv ==
  ASSUME SessionInv, NEW r \in Requests, GetUserByEmail(r)
  PROVE  SessionInv'
  <1>1. /\ pc[r] = "begin" /\ req[r].op \in CredentialOps
        /\ pc'[r] = "looked" /\ row'[r] = users[req[r].email]
        /\ \A s \in Requests : s # r =>
           /\ pc'[s] = pc[s] /\ row'[s] = row[s]
        /\ UNCHANGED <<users, sessions, userWrite, clock, req, now, minted, tries, reply,
                      hopeless, issued, known, refused>>
    BY DEF SessionInv, TypeOK, GetUserByEmail, At, Goto, db, history
  <1>2. TypeOK'
    <2>1. pc' \in [Requests -> Places]
      BY DEF SessionInv, TypeOK, GetUserByEmail, Goto, Places
    <2>2. row' \in [Requests -> Account \cup Session \cup {Null}]
      BY DEF SessionInv, TypeOK, GetUserByEmail, Goto, At, AllPlaced, Placed, CredentialOps, CookieOps
    <2>3. QED
      BY <1>1, <2>1, <2>2 DEF SessionInv, TypeOK
  <1>3. AllPlaced'
    BY <1>1 DEF SessionInv, AllPlaced, Placed, CredentialOps, CookieOps, TypeOK
  <1>4. AllCurrent'
    BY <1>1 DEF SessionInv, AllCurrent, CopyIsCurrent, Granted, AllPlaced, Placed,
       CredentialOps, CookieOps, TypeOK
  <1>5. AllHold'
    BY <1>1 DEF SessionInv, AllHold, HoldsItsRow, WritesUser, AllPlaced, Placed,
       CredentialOps, CookieOps, TypeOK
  <1>6. OneSignupPerEmail'
    BY <1>1 DEF SessionInv, OneSignupPerEmail, Granted, AllPlaced, Placed, CredentialOps,
       CookieOps, TypeOK
  <1>7. TokensAreOwn'
    BY <1>1 DEF SessionInv, TokensAreOwn, Granted, AllPlaced, Placed, CredentialOps,
       CookieOps, TypeOK
  <1>8. SessionTimesAreSane'
    BY <1>1 DEF SessionInv, SessionTimesAreSane, AllPlaced, Placed, CredentialOps,
       CookieOps, TypeOK
  <1>9. AllCopies'
    BY <1>1 DEF SessionInv, AllCopies, SessionCopy, Expired, AllPlaced, Placed,
       CredentialOps, CookieOps, TypeOK
  <1>10. RefusedAreGone'
    BY <1>1 DEF SessionInv, RefusedAreGone, AllPlaced, Placed, CredentialOps, CookieOps,
       TypeOK
  <1>11. AllHopeless'
    BY <1>1 DEF SessionInv, AllHopeless, HopelessIsRefused, Expired, AllPlaced, Placed,
       CredentialOps, CookieOps, TypeOK
  <1>12. QED
    BY <1>2, <1>3, <1>4, <1>5, <1>6, <1>7, <1>8, <1>9, <1>10, <1>11 DEF SessionInv

\* The credentials pass.
LEMMA AcceptKeepsInv ==
  ASSUME SessionInv, NEW r \in Requests, AcceptCredentials(r)
  PROVE  SessionInv'
  <1>1. /\ pc[r] = "looked" /\ pc'[r] \in {"writing", "inserting"}
        /\ pc'[r] = "writing" <=> WritesUser(r)
        /\ \/ req[r].op = "signup" /\ row[r] = Null
           \/ req[r].op = "login" /\ row[r] # Null /\ row[r].password = req[r].password
        /\ now'[r] = clock
        /\ \A s \in Requests : s # r =>
           /\ pc'[s] = pc[s] /\ now'[s] = now[s]
        /\ UNCHANGED <<users, sessions, userWrite, clock, req, row, minted, tries, reply,
                      hopeless, issued, known, refused>>
    BY DEF SessionInv, TypeOK, AcceptCredentials, PasswordMatches, ReadClock, At, Goto,
       db, history
  <1>2. TypeOK'
    <2>1. pc' \in [Requests -> Places]
      BY DEF SessionInv, TypeOK, AcceptCredentials, Goto, Places
    <2>2. now' \in [Requests -> Time \cup {Null}]
      BY DEF SessionInv, TypeOK, AcceptCredentials, ReadClock, Goto
    <2>3. QED
      BY <1>1, <2>1, <2>2 DEF SessionInv, TypeOK
  <1>3. AllPlaced'
    BY <1>1 DEF SessionInv, AllPlaced, Placed, CredentialOps, CookieOps, TypeOK
  <1>4. AllCurrent'
    BY <1>1 DEF SessionInv, AllCurrent, CopyIsCurrent, Granted, AllPlaced, Placed,
       CredentialOps, CookieOps, TypeOK
  <1>5. AllHold'
    BY <1>1 DEF SessionInv, AllHold, HoldsItsRow, WritesUser, AllPlaced, Placed,
       CredentialOps, CookieOps, TypeOK
  <1>6. OneSignupPerEmail'
    BY <1>1 DEF SessionInv, OneSignupPerEmail, Granted, AllPlaced, Placed, CredentialOps,
       CookieOps, TypeOK
  <1>7. TokensAreOwn'
    BY <1>1 DEF SessionInv, TokensAreOwn, Granted, AllPlaced, Placed, CredentialOps,
       CookieOps, TypeOK
  <1>8. SessionTimesAreSane'
    BY <1>1 DEF SessionInv, SessionTimesAreSane, AllPlaced, Placed, CredentialOps,
       CookieOps, TypeOK
  <1>9. AllCopies'
    BY <1>1 DEF SessionInv, AllCopies, SessionCopy, Expired, AllPlaced, Placed,
       CredentialOps, CookieOps, TypeOK
  <1>10. RefusedAreGone'
    BY <1>1 DEF SessionInv, RefusedAreGone, AllPlaced, Placed, CredentialOps, CookieOps,
       TypeOK
  <1>11. AllHopeless'
    BY <1>1 DEF SessionInv, AllHopeless, HopelessIsRefused, Expired, AllPlaced, Placed,
       CredentialOps, CookieOps, TypeOK
  <1>12. QED
    BY <1>2, <1>3, <1>4, <1>5, <1>6, <1>7, <1>8, <1>9, <1>10, <1>11 DEF SessionInv

\* The user row is flushed.
LEMMA WriteUserKeepsInv ==
  ASSUME SessionInv, NEW r \in Requests, WriteUser(r)
  PROVE  SessionInv'
  <1>1. /\ pc[r] = "writing" /\ pc'[r] = "inserting" /\ req[r].op \in CredentialOps
        /\ userWrite[req[r].email] = Null /\ userWrite'[req[r].email] = r
        /\ \A e \in Emails : e # req[r].email => userWrite'[e] = userWrite[e]
        /\ req[r].op = "signup" => users[req[r].email] = Null
        /\ \A s \in Requests : s # r =>
           /\ pc'[s] = pc[s]
        /\ UNCHANGED <<users, sessions, clock, req, row, now, minted, tries, reply, hopeless,
                      issued, known, refused>>
    BY DEF SessionInv, TypeOK, WriteUser, At, Goto, locals, history, AllPlaced, Placed,
       CredentialOps, CookieOps
  <1>2. TypeOK'
    <2>1. pc' \in [Requests -> Places]
      BY DEF SessionInv, TypeOK, WriteUser, Goto, Places
    <2>2. userWrite' \in [Emails -> Requests \cup {Null}]
      BY DEF SessionInv, TypeOK, WriteUser, Goto
    <2>3. QED
      BY <1>1, <2>1, <2>2 DEF SessionInv, TypeOK
  <1>3. AllPlaced'
    BY <1>1 DEF SessionInv, AllPlaced, Placed, CredentialOps, CookieOps, TypeOK
  <1>4. AllCurrent'
    BY <1>1 DEF SessionInv, AllCurrent, CopyIsCurrent, Granted, AllPlaced, Placed,
       CredentialOps, CookieOps, TypeOK
  <1>5. AllHold'
    BY <1>1, NullAssumption DEF SessionInv, AllHold, HoldsItsRow, WritesUser, AllPlaced,
       Placed, CredentialOps, CookieOps, TypeOK
  <1>6. OneSignupPerEmail'
    BY <1>1 DEF SessionInv, OneSignupPerEmail, Granted, AllPlaced, Placed, CredentialOps,
       CookieOps, TypeOK
  <1>7. TokensAreOwn'
    BY <1>1 DEF SessionInv, TokensAreOwn, Granted, AllPlaced, Placed, CredentialOps,
       CookieOps, TypeOK
  <1>8. SessionTimesAreSane'
    BY <1>1 DEF SessionInv, SessionTimesAreSane, AllPlaced, Placed, CredentialOps,
       CookieOps, TypeOK
  <1>9. AllCopies'
    BY <1>1 DEF SessionInv, AllCopies, SessionCopy, Expired, AllPlaced, Placed,
       CredentialOps, CookieOps, TypeOK
  <1>10. RefusedAreGone'
    BY <1>1 DEF SessionInv, RefusedAreGone, AllPlaced, Placed, CredentialOps, CookieOps,
       TypeOK
  <1>11. AllHopeless'
    BY <1>1 DEF SessionInv, AllHopeless, HopelessIsRefused, Expired, AllPlaced, Placed,
       CredentialOps, CookieOps, TypeOK
  <1>12. QED
    BY <1>2, <1>3, <1>4, <1>5, <1>6, <1>7, <1>8, <1>9, <1>10, <1>11 DEF SessionInv

\* A session is inserted in the savepoint.
LEMMA InsertKeepsInv ==
  ASSUME SessionInv, NEW r \in Requests, InsertSession(r)
  PROVE  SessionInv'
  <1>1. /\ pc[r] = "inserting" /\ pc'[r] = "staged" /\ req[r].op \in CredentialOps
        /\ minted'[r] \in Tokens \ issued /\ issued' = issued \cup {minted'[r]}
        /\ \A s \in Requests : s # r =>
           /\ pc'[s] = pc[s] /\ minted'[s] = minted[s]
        /\ UNCHANGED <<users, sessions, userWrite, clock, req, row, now, tries, reply,
                      hopeless, known, refused>>
    BY DEF SessionInv, TypeOK, InsertSession, At, Goto, db
  <1>2. TypeOK'
    <2>1. pc' \in [Requests -> Places]
      BY DEF SessionInv, TypeOK, InsertSession, Goto, Places
    <2>2. minted' \in [Requests -> Tokens \cup {Null}]
      BY DEF SessionInv, TypeOK, InsertSession, Goto
    <2>3. issued' \in SUBSET Tokens
      BY DEF SessionInv, TypeOK, InsertSession, Goto
    <2>4. QED
      BY <1>1, <2>1, <2>2, <2>3 DEF SessionInv, TypeOK
  <1>3. AllPlaced'
    BY <1>1 DEF SessionInv, AllPlaced, Placed, CredentialOps, CookieOps, TypeOK
  <1>4. AllCurrent'
    BY <1>1 DEF SessionInv, AllCurrent, CopyIsCurrent, Granted, AllPlaced, Placed,
       CredentialOps, CookieOps, TypeOK
  <1>5. AllHold'
    BY <1>1 DEF SessionInv, AllHold, HoldsItsRow, WritesUser, AllPlaced, Placed,
       CredentialOps, CookieOps, TypeOK
  <1>6. OneSignupPerEmail'
    BY <1>1 DEF SessionInv, OneSignupPerEmail, Granted, AllPlaced, Placed, CredentialOps,
       CookieOps, TypeOK
  <1>7. TokensAreOwn'
    BY <1>1, NullAssumption DEF SessionInv, TokensAreOwn, Granted, AllPlaced, Placed,
       CredentialOps, CookieOps, TypeOK
  <1>8. SessionTimesAreSane'
    BY <1>1 DEF SessionInv, SessionTimesAreSane, AllPlaced, Placed, CredentialOps,
       CookieOps, TypeOK
  <1>9. AllCopies'
    BY <1>1 DEF SessionInv, AllCopies, SessionCopy, Expired, AllPlaced, Placed,
       CredentialOps, CookieOps, TypeOK
  <1>10. RefusedAreGone'
    BY <1>1 DEF SessionInv, RefusedAreGone, AllPlaced, Placed, CredentialOps, CookieOps,
       TypeOK
  <1>11. AllHopeless'
    BY <1>1 DEF SessionInv, AllHopeless, HopelessIsRefused, Expired, AllPlaced, Placed,
       CredentialOps, CookieOps, TypeOK
  <1>12. QED
    BY <1>2, <1>3, <1>4, <1>5, <1>6, <1>7, <1>8, <1>9, <1>10, <1>11 DEF SessionInv

\* Another token is tried.
LEMMA RetryKeepsInv ==
  ASSUME SessionInv, NEW r \in Requests, RetryToken(r)
  PROVE  SessionInv'
  <1>1. /\ UNCHANGED <<users, sessions, userWrite, clock, pc, req, row, now, minted, reply,
                      hopeless, issued, known, refused>>
    BY DEF SessionInv, RetryToken, db, history
  <1>2. TypeOK'
    <2>1. tries' \in [Requests -> 0 .. MaxTokenGenerationAttempts - 1]
      BY AttemptsAssumption DEF SessionInv, TypeOK, RetryToken
    <2>2. QED
      BY <1>1, <2>1 DEF SessionInv, TypeOK
  <1>3. AllPlaced'
    BY <1>1 DEF SessionInv, AllPlaced, Placed
  <1>4. AllCurrent'
    BY <1>1 DEF SessionInv, AllCurrent, CopyIsCurrent, Granted
  <1>5. AllHold'
    BY <1>1 DEF SessionInv, AllHold, HoldsItsRow, WritesUser
  <1>6. OneSignupPerEmail'
    BY <1>1 DEF SessionInv, OneSignupPerEmail, Granted
  <1>7. TokensAreOwn'
    BY <1>1 DEF SessionInv, TokensAreOwn, Granted
  <1>8. SessionTimesAreSane'
    BY <1>1 DEF SessionInv, SessionTimesAreSane
  <1>9. AllCopies'
    BY <1>1 DEF SessionInv, AllCopies, SessionCopy, Expired
  <1>10. RefusedAreGone'
    BY <1>1 DEF SessionInv, RefusedAreGone
  <1>11. AllHopeless'
    BY <1>1 DEF SessionInv, AllHopeless, HopelessIsRefused, Expired
  <1>12. QED
    BY <1>2, <1>3, <1>4, <1>5, <1>6, <1>7, <1>8, <1>9, <1>10, <1>11 DEF SessionInv

\* What the commit of a signup or a login changes.
LEMMA CommitEffect ==
  ASSUME SessionInv, NEW r \in Requests, CommitCredentials(r)
  PROVE  /\ pc[r] = "staged" /\ pc'[r] = "committed" /\ req[r].op \in CredentialOps
         /\ users'[req[r].email] # Null /\ users'[req[r].email].password = req[r].password
         /\ \A e \in Emails : e # req[r].email => users'[e] = users[e]
         /\ ~WritesUser(r) => users' = users
         /\ \A e \in Emails : users[e] # Null =>
            /\ users'[e] # Null /\ users'[e].password = users[e].password
         /\ users'[req[r].email] \in Account \cup {Null} /\ NewSession(r) \in Session /\ minted[r] \in Tokens
         /\ /\ sessions'[minted[r]] \in Session
            /\ sessions'[minted[r]] # Null /\ sessions'[minted[r]].user = req[r].email
            /\ sessions'[minted[r]].used = sessions'[minted[r]].created
            /\ sessions'[minted[r]].expires = sessions'[minted[r]].created + SessionTtl
         /\ \A t \in Tokens : t # minted[r] => sessions'[t] = sessions[t]
         /\ \A e \in Emails : \A s \in Requests : s # r => (userWrite[e] = s => userWrite'[e] = s)
         /\ \A s \in Requests : s # r =>
            /\ pc'[s] = pc[s]
         /\ UNCHANGED <<clock, req, row, now, minted, tries, reply, hopeless, issued, known,
                       refused>>
  <1>1. /\ pc[r] = "staged" /\ req[r].op \in CredentialOps
        /\ req[r].email \in Emails /\ req[r].password \in Passwords
        /\ now[r] \in Time /\ minted[r] \in Tokens
    BY DEF CommitCredentials, At, SessionInv, AllPlaced, Placed, CredentialOps, CookieOps, TypeOK,
       TokensAreOwn
  <1>2. \/ req[r].op = "signup" /\ WritesUser(r) /\ users[req[r].email] = Null
        \/ /\ users[req[r].email] # Null
           /\ users[req[r].email].password = req[r].password
    BY <1>1 DEF SessionInv, AllCurrent, CopyIsCurrent, AllHold, HoldsItsRow, WritesUser
  <1>3. /\ users'[req[r].email] # Null /\ users'[req[r].email].password = req[r].password
        /\ users'[req[r].email] \in Account \cup {Null}
        /\ \A e \in Emails : e # req[r].email => users'[e] = users[e]
        /\ ~WritesUser(r) => users' = users
    <2>1. CASE WritesUser(r)
      <3> DEFINE a == [password |-> req[r].password, outdated |-> FALSE]
      <3>1. a \in Account /\ a.password = req[r].password
        BY <1>1 DEF Account
      <3> HIDE DEF a
      <3>0. a # Null
        BY <3>1, NullAssumption
      <3>2. users' = [users EXCEPT ![req[r].email] = a]
        BY <2>1 DEF CommitCredentials, a
      <3>3. QED
        BY <1>1, <2>1, <3>0, <3>1, <3>2 DEF SessionInv, TypeOK
    <2>2. CASE ~WritesUser(r)
      <3>1. users' = users
        BY <2>2 DEF CommitCredentials
      <3>2. QED
        BY <1>1, <1>2, <2>2, <3>1 DEF SessionInv, TypeOK
    <2>3. QED
      BY <2>1, <2>2
  <1>4. /\ NewSession(r) \in Session /\ NewSession(r) # Null
        /\ NewSession(r).user = req[r].email /\ NewSession(r).used = NewSession(r).created
        /\ NewSession(r).expires = NewSession(r).created + SessionTtl
    BY <1>1, NullAssumption, TtlAssumption, BoundsAssumption
    DEF NewSession, Session, Time, Deadlines
  <1>5. sessions'[minted[r]] = NewSession(r)
    BY <1>1 DEF CommitCredentials, SessionInv, TypeOK
  <1>6. \A t \in Tokens : t # minted[r] => sessions'[t] = sessions[t]
    BY <1>1 DEF CommitCredentials, SessionInv, TypeOK
  <1>7. \A e \in Emails : users[e] # Null =>
          users'[e] # Null /\ users'[e].password = users[e].password
    BY <1>1, <1>2, <1>3
  <1>8. \A e \in Emails : \A s \in Requests :
          s # r => (userWrite[e] = s => userWrite'[e] = s)
    BY DEF CommitCredentials, EndTransaction
  <1>9. /\ pc'[r] = "committed" /\ \A s \in Requests : s # r => pc'[s] = pc[s]
        /\ UNCHANGED <<clock, req, row, now, minted, tries, reply, hopeless, issued, known,
                       refused>>
    BY DEF CommitCredentials, Goto, locals, history, SessionInv, TypeOK
  <1>10. QED
    BY <1>1, <1>3, <1>4, <1>5, <1>6, <1>7, <1>8, <1>9

\* A signup or a login commits.
LEMMA CommitKeepsInv ==
  ASSUME SessionInv, NEW r \in Requests, CommitCredentials(r)
  PROVE  SessionInv'
  <1>1. /\ pc[r] = "staged" /\ pc'[r] = "committed" /\ req[r].op \in CredentialOps
        /\ users'[req[r].email] # Null /\ users'[req[r].email].password = req[r].password
        /\ \A e \in Emails : e # req[r].email => users'[e] = users[e]
        /\ ~WritesUser(r) => users' = users
        /\ \A e \in Emails : users[e] # Null =>
           /\ users'[e] # Null /\ users'[e].password = users[e].password
        /\ users'[req[r].email] \in Account \cup {Null} /\ NewSession(r) \in Session /\ minted[r] \in Tokens
        /\ /\ sessions'[minted[r]] \in Session
           /\ sessions'[minted[r]] # Null /\ sessions'[minted[r]].user = req[r].email
           /\ sessions'[minted[r]].used = sessions'[minted[r]].created
           /\ sessions'[minted[r]].expires = sessions'[minted[r]].created + SessionTtl
        /\ \A t \in Tokens : t # minted[r] => sessions'[t] = sessions[t]
        /\ \A e \in Emails : \A s \in Requests : s # r => (userWrite[e] = s => userWrite'[e] = s)
        /\ \A s \in Requests : s # r =>
           /\ pc'[s] = pc[s]
        /\ UNCHANGED <<clock, req, row, now, minted, tries, reply, hopeless, issued, known,
                      refused>>
    BY CommitEffect
  <1>2. TypeOK'
    <2>1. pc' \in [Requests -> Places]
      BY DEF SessionInv, TypeOK, CommitCredentials, Goto, Places
    <2>2. users' \in [Emails -> Account \cup {Null}]
      BY <1>1 DEF SessionInv, TypeOK, CommitCredentials
    <2>3. sessions' \in [Tokens -> Session \cup {Null}]
      BY <1>1 DEF SessionInv, TypeOK, CommitCredentials
    <2>4. userWrite' \in [Emails -> Requests \cup {Null}]
      BY DEF SessionInv, TypeOK, CommitCredentials, EndTransaction, Goto
    <2>5. QED
      BY <1>1, <2>1, <2>2, <2>3, <2>4 DEF SessionInv, TypeOK
  <1>3. AllPlaced'
    BY <1>1 DEF SessionInv, AllPlaced, Placed, CredentialOps, CookieOps, TypeOK
  <1>4. AllCurrent'
    <2>1. ASSUME NEW s \in Requests PROVE CopyIsCurrent(s)'
      <3>1. \/ pc[s] = "idle" \/ req[s].email \in Emails \/ req[s].op \in CookieOps
        BY DEF SessionInv, AllPlaced, Placed
      <3>2. CASE s = r
        BY <1>1, <3>2 DEF CopyIsCurrent, Granted, SessionInv, AllPlaced, Placed
      <3>3. CASE s # r
        <4>1. /\ CopyIsCurrent(s) /\ Placed(s)
              /\ pc'[s] = pc[s] /\ row'[s] = row[s] /\ req'[s] = req[s] /\ reply'[s] = reply[s]
          BY <1>1, <3>3 DEF SessionInv, AllCurrent, AllPlaced
        <4>2. Granted(s)' <=> Granted(s)
          BY <4>1 DEF Granted
        <4>3. reply[s] = "duplicate_email" => req[s].op = "signup" /\ pc[s] = "done"
          BY <4>1 DEF CopyIsCurrent, Placed
        <4>4. QED
          BY <1>1, <3>1, <4>1, <4>2, <4>3
          DEF CopyIsCurrent, Placed, Granted, CredentialOps, CookieOps
      <3>4. QED
        BY <3>2, <3>3
    <2>2. QED
      BY <2>1 DEF AllCurrent
  <1>5. AllHold'
    BY <1>1 DEF SessionInv, AllHold, HoldsItsRow, WritesUser, AllPlaced, Placed,
       CredentialOps, CookieOps, TypeOK
  <1>6. OneSignupPerEmail'
    BY <1>1 DEF SessionInv, OneSignupPerEmail, Granted, AllPlaced, Placed, CredentialOps,
       CookieOps, TypeOK, AllCurrent, CopyIsCurrent, AllHold, HoldsItsRow, WritesUser
  <1>7. TokensAreOwn'
    <2>1. /\ minted[r] \in issued \ known /\ sessions[minted[r]] = Null /\ minted[r] # Null
          /\ \A s \in Requests : s # r => minted[s] # minted[r]
      BY <1>1, NullAssumption DEF SessionInv, TokensAreOwn, TypeOK
    <2>2. ASSUME NEW s \in Requests
          PROVE  /\ minted'[s] # Null => /\ minted'[s] \in issued'
                                       /\ pc'[s] \in {"staged", "committed", "done"}
                 /\ pc'[s] = "staged" => /\ minted'[s] \in issued' \ known'
                                        /\ sessions'[minted'[s]] = Null
                 /\ Granted(s)' => minted'[s] \in issued'
                 /\ Granted(s)' /\ sessions'[minted'[s]] # Null =>
                      sessions'[minted'[s]].user = req'[s].email
      <3>1. CASE s = r
        BY <1>1, <2>1, <3>1 DEF Granted
      <3>2. CASE s # r
        <4>1. minted'[s] = minted[s] /\ minted[s] # minted[r] /\ (Granted(s)' <=> Granted(s))
          BY <1>1, <2>1, <3>2 DEF Granted
        <4>2. minted[s] \in Tokens => sessions'[minted[s]] = sessions[minted[s]]
          BY <1>1, <4>1
        <4>3. QED
          BY <1>1, <3>2, <4>1, <4>2 DEF SessionInv, TokensAreOwn, TypeOK
      <3>3. QED
        BY <3>1, <3>2
    <2>3. /\ \A s, t \in Requests : minted'[s] # Null /\ minted'[s] = minted'[t] => s = t
          /\ known' \subseteq issued' /\ refused' \subseteq known'
      BY <1>1 DEF SessionInv, TokensAreOwn
    <2>4. \A t \in Tokens : sessions'[t] # Null => t \in issued'
      BY <1>1, <2>1 DEF SessionInv, TokensAreOwn
    <2>5. QED
      BY <2>2, <2>3, <2>4 DEF TokensAreOwn
  <1>8. SessionTimesAreSane'
    BY <1>1, TtlAssumption DEF SessionInv, SessionTimesAreSane, AllPlaced, Placed,
       CredentialOps, CookieOps, TypeOK, Session, Time, Deadlines
  <1>9. AllCopies'
    BY <1>1 DEF SessionInv, AllCopies, SessionCopy, Expired, AllPlaced, Placed,
       CredentialOps, CookieOps, TypeOK, TokensAreOwn
  <1>10. RefusedAreGone'
    BY <1>1 DEF SessionInv, RefusedAreGone, AllPlaced, Placed, CredentialOps, CookieOps,
       TypeOK, TokensAreOwn
  <1>11. AllHopeless'
    BY <1>1 DEF SessionInv, AllHopeless, HopelessIsRefused, Expired, AllPlaced, Placed,
       CredentialOps, CookieOps, TypeOK, TokensAreOwn
  <1>12. QED
    BY <1>2, <1>3, <1>4, <1>5, <1>6, <1>7, <1>8, <1>9, <1>10, <1>11 DEF SessionInv

\* Session resolution reads the clock.
LEMMA ReadClockKeepsInv ==
  ASSUME SessionInv, NEW r \in Requests, ReadClockFirst(r)
  PROVE  SessionInv'
  <1>1. /\ pc[r] = "begin" /\ req[r].op = "me"
        /\ pc'[r] = "resolving" /\ now'[r] = clock
        /\ \A s \in Requests : s # r =>
           /\ pc'[s] = pc[s] /\ now'[s] = now[s]
        /\ UNCHANGED <<users, sessions, userWrite, clock, req, row, minted, tries, reply,
                      hopeless, issued, known, refused>>
    BY DEF SessionInv, TypeOK, ReadClockFirst, ReadClock, At, Goto, db, history
  <1>2. TypeOK'
    <2>1. pc' \in [Requests -> Places]
      BY DEF SessionInv, TypeOK, ReadClockFirst, Goto, Places
    <2>2. now' \in [Requests -> Time \cup {Null}]
      BY DEF SessionInv, TypeOK, ReadClockFirst, ReadClock, Goto
    <2>3. QED
      BY <1>1, <2>1, <2>2 DEF SessionInv, TypeOK
  <1>3. AllPlaced'
    BY <1>1 DEF SessionInv, AllPlaced, Placed, CredentialOps, CookieOps, TypeOK
  <1>4. AllCurrent'
    BY <1>1 DEF SessionInv, AllCurrent, CopyIsCurrent, Granted, AllPlaced, Placed,
       CredentialOps, CookieOps, TypeOK
  <1>5. AllHold'
    BY <1>1 DEF SessionInv, AllHold, HoldsItsRow, WritesUser, AllPlaced, Placed,
       CredentialOps, CookieOps, TypeOK
  <1>6. OneSignupPerEmail'
    BY <1>1 DEF SessionInv, OneSignupPerEmail, Granted, AllPlaced, Placed, CredentialOps,
       CookieOps, TypeOK
  <1>7. TokensAreOwn'
    BY <1>1 DEF SessionInv, TokensAreOwn, Granted, AllPlaced, Placed, CredentialOps,
       CookieOps, TypeOK
  <1>8. SessionTimesAreSane'
    BY <1>1 DEF SessionInv, SessionTimesAreSane, AllPlaced, Placed, CredentialOps,
       CookieOps, TypeOK
  <1>9. AllCopies'
    BY <1>1 DEF SessionInv, AllCopies, SessionCopy, Expired, AllPlaced, Placed,
       CredentialOps, CookieOps, TypeOK
  <1>10. RefusedAreGone'
    BY <1>1 DEF SessionInv, RefusedAreGone, AllPlaced, Placed, CredentialOps, CookieOps,
       TypeOK
  <1>11. AllHopeless'
    BY <1>1 DEF SessionInv, AllHopeless, HopelessIsRefused, Expired, AllPlaced, Placed,
       CredentialOps, CookieOps, TypeOK
  <1>12. QED
    BY <1>2, <1>3, <1>4, <1>5, <1>6, <1>7, <1>8, <1>9, <1>10, <1>11 DEF SessionInv

\* A session is found.
LEMMA FindKeepsInv ==
  ASSUME SessionInv, NEW r \in Requests, FindSession(r)
  PROVE  SessionInv'
  <1>1. /\ \/ pc[r] = "resolving" /\ req[r].op = "me"
           \/ pc[r] = "begin" /\ req[r].op = "logout"
        /\ sessions[req[r].token] # Null
        /\ pc'[r] = "found" /\ row'[r] = sessions[req[r].token]
        /\ \A s \in Requests : s # r =>
           /\ pc'[s] = pc[s] /\ row'[s] = row[s]
        /\ UNCHANGED <<users, sessions, userWrite, clock, req, now, minted, tries, reply,
                      hopeless, issued, known, refused>>
    BY DEF SessionInv, TypeOK, FindSession, LooksUp, At, Goto, db, history
  <1>2. TypeOK'
    <2>1. pc' \in [Requests -> Places]
      BY DEF SessionInv, TypeOK, FindSession, Goto, Places
    <2>2. row' \in [Requests -> Account \cup Session \cup {Null}]
      BY DEF SessionInv, TypeOK, FindSession, Goto, LooksUp, At, AllPlaced, Placed, CredentialOps, CookieOps
    <2>3. QED
      BY <1>1, <2>1, <2>2 DEF SessionInv, TypeOK
  <1>3. AllPlaced'
    BY <1>1 DEF SessionInv, AllPlaced, Placed, CredentialOps, CookieOps, TypeOK
  <1>4. AllCurrent'
    BY <1>1 DEF SessionInv, AllCurrent, CopyIsCurrent, Granted, AllPlaced, Placed,
       CredentialOps, CookieOps, TypeOK
  <1>5. AllHold'
    BY <1>1 DEF SessionInv, AllHold, HoldsItsRow, WritesUser, AllPlaced, Placed,
       CredentialOps, CookieOps, TypeOK
  <1>6. OneSignupPerEmail'
    BY <1>1 DEF SessionInv, OneSignupPerEmail, Granted, AllPlaced, Placed, CredentialOps,
       CookieOps, TypeOK
  <1>7. TokensAreOwn'
    BY <1>1 DEF SessionInv, TokensAreOwn, Granted, AllPlaced, Placed, CredentialOps,
       CookieOps, TypeOK
  <1>8. SessionTimesAreSane'
    BY <1>1 DEF SessionInv, SessionTimesAreSane, AllPlaced, Placed, CredentialOps,
       CookieOps, TypeOK
  <1>9. AllCopies'
    BY <1>1 DEF SessionInv, AllCopies, SessionCopy, Expired, AllPlaced, Placed,
       CredentialOps, CookieOps, TypeOK, SessionTimesAreSane
  <1>10. RefusedAreGone'
    BY <1>1 DEF SessionInv, RefusedAreGone, AllPlaced, Placed, CredentialOps, CookieOps,
       TypeOK
  <1>11. AllHopeless'
    BY <1>1 DEF SessionInv, AllHopeless, HopelessIsRefused, Expired, AllPlaced, Placed,
       CredentialOps, CookieOps, TypeOK, RefusedAreGone
  <1>12. QED
    BY <1>2, <1>3, <1>4, <1>5, <1>6, <1>7, <1>8, <1>9, <1>10, <1>11 DEF SessionInv

\* A session is deleted: it has expired, or its user logs out.
LEMMA RemoveKeepsInv ==
  ASSUME SessionInv, NEW r \in Requests, DeleteExpiredSession(r) \/ RevokeSession(r)
  PROVE  SessionInv'
  <1>1. /\ pc[r] = "found" /\ pc'[r] = "committed"
        /\ \/ req[r].op = "me" /\ Expired(r)
           \/ req[r].op = "logout"
        /\ sessions'[req[r].token] = Null
        /\ \A t \in Tokens : t # req[r].token => sessions'[t] = sessions[t]
        /\ \A s \in Requests : s # r =>
           /\ pc'[s] = pc[s]
        /\ UNCHANGED <<users, userWrite, clock, req, row, now, minted, tries, reply,
                      hopeless, issued, known, refused>>
    BY DEF SessionInv, TypeOK, DeleteExpiredSession, RevokeSession, At, Goto, locals,
       history, AllPlaced, Placed, CredentialOps, CookieOps
  <1>2. TypeOK'
    <2>1. pc' \in [Requests -> Places]
      BY DEF SessionInv, TypeOK, DeleteExpiredSession, RevokeSession, Goto, Places
    <2>2. sessions' \in [Tokens -> Session \cup {Null}]
      BY DEF SessionInv, TypeOK, DeleteExpiredSession, RevokeSession
    <2>3. QED
      BY <1>1, <2>1, <2>2 DEF SessionInv, TypeOK
  <1>3. AllPlaced'
    BY <1>1 DEF SessionInv, AllPlaced, Placed, CredentialOps, CookieOps, TypeOK
  <1>4. AllCurrent'
    BY <1>1 DEF SessionInv, AllCurrent, CopyIsCurrent, Granted, AllPlaced, Placed,
       CredentialOps, CookieOps, TypeOK
  <1>5. AllHold'
    BY <1>1 DEF SessionInv, AllHold, HoldsItsRow, WritesUser, AllPlaced, Placed,
       CredentialOps, CookieOps, TypeOK
  <1>6. OneSignupPerEmail'
    BY <1>1 DEF SessionInv, OneSignupPerEmail, Granted, AllPlaced, Placed, CredentialOps,
       CookieOps, TypeOK
  <1>7. TokensAreOwn'
    BY <1>1 DEF SessionInv, TokensAreOwn, Granted, AllPlaced, Placed, CredentialOps,
       CookieOps, TypeOK
  <1>8. SessionTimesAreSane'
    BY <1>1 DEF SessionInv, SessionTimesAreSane, AllPlaced, Placed, CredentialOps,
       CookieOps, TypeOK
  <1>9. AllCopies'
    BY <1>1 DEF SessionInv, AllCopies, SessionCopy, Expired, AllPlaced, Placed,
       CredentialOps, CookieOps, TypeOK
  <1>10. RefusedAreGone'
    BY <1>1 DEF SessionInv, RefusedAreGone, AllPlaced, Placed, CredentialOps, CookieOps,
       TypeOK
  <1>11. AllHopeless'
    BY <1>1 DEF SessionInv, AllHopeless, HopelessIsRefused, Expired, AllPlaced, Placed,
       CredentialOps, CookieOps, TypeOK
  <1>12. QED
    BY <1>2, <1>3, <1>4, <1>5, <1>6, <1>7, <1>8, <1>9, <1>10, <1>11 DEF SessionInv

\* The last use of a session is written.
LEMMA TouchKeepsInv ==
  ASSUME SessionInv, NEW r \in Requests, TouchSession(r)
  PROVE  SessionInv'
  <1>1. /\ pc[r] = "found" /\ pc'[r] = "committed" /\ req[r].op = "me" /\ ~Expired(r) /\ Due(r)
        /\ sessions[req[r].token] # Null
        /\ sessions' \in [Tokens -> Session \cup {Null}]
        /\ sessions'[req[r].token] # Null /\ sessions'[req[r].token].used = now[r]
        /\ \A t \in Tokens : sessions[t] # Null =>
           /\ sessions'[t] # Null /\ sessions'[t].user = sessions[t].user
           /\ sessions'[t].created = sessions[t].created /\ sessions'[t].expires = sessions[t].expires
        /\ \A t \in Tokens : t # req[r].token => sessions'[t] = sessions[t]
        /\ \A s \in Requests : s # r =>
           /\ pc'[s] = pc[s]
        /\ UNCHANGED <<users, userWrite, clock, req, row, now, minted, tries, reply,
                      hopeless, issued, known, refused>>
    <2>1. /\ sessions[req[r].token] # Null
          /\ sessions' = [sessions EXCEPT ![req[r].token].used = now[r]]
      BY DEF TouchSession
    <2>2. req[r].token \in Tokens /\ now[r] \in Time
      BY DEF SessionInv, TouchSession, Touchable, At, AllPlaced, Placed, CredentialOps, CookieOps
    <2>3. /\ sessions[req[r].token] \in Session
          /\ [sessions[req[r].token] EXCEPT !.used = now[r]] \in Session
      BY <2>1, <2>2 DEF SessionInv, TypeOK, Session
    <2>4. /\ sessions'[req[r].token] # Null /\ sessions'[req[r].token].used = now[r]
          /\ sessions'[req[r].token].user = sessions[req[r].token].user
          /\ sessions'[req[r].token].created = sessions[req[r].token].created
          /\ sessions'[req[r].token].expires = sessions[req[r].token].expires
          /\ \A t \in Tokens : t # req[r].token => sessions'[t] = sessions[t]
      BY <2>1, <2>2, <2>3, NullAssumption DEF SessionInv, TypeOK, Session
    <2>5. sessions' \in [Tokens -> Session \cup {Null}]
      BY <2>1, <2>2, <2>3 DEF SessionInv, TypeOK
    <2>6. QED
      BY <2>1, <2>4, <2>5 DEF TouchSession, Touchable, At, Goto, locals, history, SessionInv, TypeOK
  <1>2. TypeOK'
    <2>1. pc' \in [Requests -> Places]
      BY DEF SessionInv, TypeOK, TouchSession, Goto, Places
    <2>2. sessions' \in [Tokens -> Session \cup {Null}]
      BY <1>1
    <2>3. QED
      BY <1>1, <2>1, <2>2 DEF SessionInv, TypeOK
  <1>3. AllPlaced'
    BY <1>1 DEF SessionInv, AllPlaced, Placed, CredentialOps, CookieOps, TypeOK
  <1>4. AllCurrent'
    BY <1>1 DEF SessionInv, AllCurrent, CopyIsCurrent, Granted, AllPlaced, Placed,
       CredentialOps, CookieOps, TypeOK
  <1>5. AllHold'
    BY <1>1 DEF SessionInv, AllHold, HoldsItsRow, WritesUser, AllPlaced, Placed,
       CredentialOps, CookieOps, TypeOK
  <1>6. OneSignupPerEmail'
    BY <1>1 DEF SessionInv, OneSignupPerEmail, Granted, AllPlaced, Placed, CredentialOps,
       CookieOps, TypeOK
  <1>7. TokensAreOwn'
    BY <1>1 DEF SessionInv, TokensAreOwn, Granted, AllPlaced, Placed, CredentialOps,
       CookieOps, TypeOK
  <1>8. SessionTimesAreSane'
    <2>1. /\ req[r].token \in Tokens /\ now[r] \in Time /\ row[r] \in Session
          /\ row[r].created <= row[r].used
          /\ sessions[req[r].token].created = row[r].created
          /\ sessions[req[r].token].expires = row[r].expires
      BY <1>1 DEF SessionInv, AllPlaced, Placed, AllCopies, SessionCopy, CredentialOps, CookieOps
    <2>2. row[r].created <= now[r] /\ now[r] < row[r].expires
      BY <1>1, <2>1, IntervalAssumption DEF Expired, Due, Session, Time, Deadlines
    <2>3. QED
      BY <1>1, <2>1, <2>2 DEF SessionInv, SessionTimesAreSane
  <1>9. AllCopies'
    BY <1>1 DEF SessionInv, AllCopies, SessionCopy, Expired, AllPlaced, Placed,
       CredentialOps, CookieOps, TypeOK
  <1>10. RefusedAreGone'
    BY <1>1 DEF SessionInv, RefusedAreGone, AllPlaced, Placed, CredentialOps, CookieOps,
       TypeOK
  <1>11. AllHopeless'
    BY <1>1 DEF SessionInv, AllHopeless, HopelessIsRefused, Expired, AllPlaced, Placed,
       CredentialOps, CookieOps, TypeOK
  <1>12. QED
    BY <1>2, <1>3, <1>4, <1>5, <1>6, <1>7, <1>8, <1>9, <1>10, <1>11 DEF SessionInv

\* The client is answered after the commit.
LEMMA RespondKeepsInv ==
  ASSUME SessionInv, NEW r \in Requests, Respond(r)
  PROVE  SessionInv'
  <1>1. /\ pc[r] = "committed" /\ pc'[r] = "done" /\ reply'[r] \in {"ok", "unauthorized"}
        /\ reply'[r] = "ok" /\ req[r].op = "me" => ~Expired(r)
        /\ \/ req[r].op \in CredentialOps /\ known' = known \cup {minted[r]}
           \/ req[r].op \notin CredentialOps /\ known' = known
        /\ \/ refused' = refused
           \/ /\ \/ req[r].op = "logout"
                 \/ req[r].op = "me" /\ Expired(r)
              /\ refused' = refused \cup {req[r].token}
        /\ \A s \in Requests : s # r =>
           /\ pc'[s] = pc[s] /\ row'[s] = row[s] /\ now'[s] = now[s]
           /\ tries'[s] = tries[s] /\ reply'[s] = reply[s]
        /\ UNCHANGED <<users, sessions, userWrite, clock, req, minted, hopeless, issued>>
    BY DEF SessionInv, TypeOK, Respond, Outcome, Answer, EndsToken, Goto, db
  <1>2. TypeOK'
    <2>1. pc' \in [Requests -> Places]
      BY DEF SessionInv, TypeOK, Respond, Answer, Goto, Places
    <2>2. reply' \in [Requests -> Replies]
      BY <1>1 DEF SessionInv, TypeOK, Respond, Answer, Replies
    <2>3. row' \in [Requests -> Account \cup Session \cup {Null}]
      BY DEF SessionInv, TypeOK, Respond, Answer
    <2>4. now' \in [Requests -> Time \cup {Null}]
      BY DEF SessionInv, TypeOK, Respond, Answer
    <2>5. tries' \in [Requests -> 0 .. MaxTokenGenerationAttempts - 1]
      BY AttemptsAssumption DEF SessionInv, TypeOK, Respond, Answer
    <2>6. known' \in SUBSET Tokens
      BY <1>1 DEF SessionInv, TypeOK, TokensAreOwn, Granted
    <2>7. refused' \in SUBSET Tokens
      BY <1>1 DEF SessionInv, TypeOK, AllPlaced, Placed, CredentialOps, CookieOps
    <2>8. QED
      BY <1>1, <2>1, <2>2, <2>3, <2>4, <2>5, <2>6, <2>7 DEF SessionInv, TypeOK
  <1>3. AllPlaced'
    BY <1>1 DEF SessionInv, AllPlaced, Placed, CredentialOps, CookieOps, TypeOK
  <1>4. AllCurrent'
    BY <1>1 DEF SessionInv, AllCurrent, CopyIsCurrent, Granted, AllPlaced, Placed,
       CredentialOps, CookieOps, TypeOK
  <1>5. AllHold'
    BY <1>1 DEF SessionInv, AllHold, HoldsItsRow, WritesUser, AllPlaced, Placed,
       CredentialOps, CookieOps, TypeOK
  <1>6. OneSignupPerEmail'
    BY <1>1 DEF SessionInv, OneSignupPerEmail, Granted, AllPlaced, Placed, CredentialOps,
       CookieOps, TypeOK
  <1>7. TokensAreOwn'
    <2>1. Granted(r) <=> req[r].op \in CredentialOps
      BY <1>1 DEF Granted
    <2>2. req[r].op \in CookieOps => req[r].token \in known
      BY <1>1 DEF SessionInv, AllPlaced, Placed
    <2>3. refused' \subseteq known' /\ known' \subseteq issued'
      BY <1>1, <2>1, <2>2 DEF SessionInv, TokensAreOwn, CookieOps
    <2>4. ASSUME NEW s \in Requests
          PROVE  /\ minted[s] # Null => minted[s] \in issued /\ pc'[s] \in {"staged", "committed", "done"}
                 /\ Granted(s)' => Granted(s)
                 /\ pc'[s] = "staged" => pc[s] = "staged" /\ s # r
      BY <1>1 DEF SessionInv, TokensAreOwn, Granted
    <2>5. ASSUME NEW s \in Requests, pc'[s] = "staged"
          PROVE  minted[s] \in issued \ known' /\ sessions[minted[s]] = Null
      <3>1. /\ s # r /\ minted[s] \in issued \ known /\ sessions[minted[s]] = Null
            /\ minted[s] # Null
        BY <2>4, <2>5, NullAssumption DEF SessionInv, TokensAreOwn, TypeOK
      <3>2. minted[s] # minted[r]
        BY <3>1 DEF SessionInv, TokensAreOwn
      <3>3. QED
        BY <1>1, <3>1, <3>2
    <2>6. QED
      BY <1>1, <2>3, <2>4, <2>5 DEF SessionInv, TokensAreOwn
  <1>8. SessionTimesAreSane'
    BY <1>1 DEF SessionInv, SessionTimesAreSane, AllPlaced, Placed, CredentialOps,
       CookieOps, TypeOK
  <1>9. AllCopies'
    BY <1>1 DEF SessionInv, AllCopies, SessionCopy, Expired, AllPlaced, Placed,
       CredentialOps, CookieOps, TypeOK
  <1>10. RefusedAreGone'
    BY <1>1 DEF SessionInv, RefusedAreGone, AllPlaced, Placed, CredentialOps, CookieOps,
       TypeOK, AllCopies, SessionCopy, Expired
  <1>11. AllHopeless'
    BY <1>1 DEF SessionInv, AllHopeless, HopelessIsRefused, Expired, AllPlaced, Placed,
       CredentialOps, CookieOps, TypeOK
  <1>12. QED
    BY <1>2, <1>3, <1>4, <1>5, <1>6, <1>7, <1>8, <1>9, <1>10, <1>11 DEF SessionInv

\* Time passes.
LEMMA TickKeepsInv ==
  ASSUME SessionInv, Tick
  PROVE  SessionInv'
  <1>1. /\ clock' = clock + 1 /\ clock' \in Time /\ clock \in Time
        /\ UNCHANGED <<users, sessions, userWrite, pc, req, row, now, minted, tries, reply,
                      hopeless, issued, known, refused>>
    BY BoundsAssumption DEF SessionInv, TypeOK, Tick, db, locals, history, Time
  <1>2. TypeOK'
    <2>1. clock' \in Time
      BY <1>1
    <2>2. QED
      BY <1>1, <2>1 DEF SessionInv, TypeOK
  <1>3. AllPlaced'
    BY <1>1 DEF SessionInv, AllPlaced, Placed
  <1>4. AllCurrent'
    BY <1>1 DEF SessionInv, AllCurrent, CopyIsCurrent, Granted
  <1>5. AllHold'
    BY <1>1 DEF SessionInv, AllHold, HoldsItsRow, WritesUser
  <1>6. OneSignupPerEmail'
    BY <1>1 DEF SessionInv, OneSignupPerEmail, Granted
  <1>7. TokensAreOwn'
    BY <1>1 DEF SessionInv, TokensAreOwn, Granted
  <1>8. SessionTimesAreSane'
    BY <1>1 DEF SessionInv, SessionTimesAreSane
  <1>9. AllCopies'
    BY <1>1 DEF SessionInv, AllCopies, SessionCopy, Expired
  <1>10. RefusedAreGone'
    BY <1>1 DEF SessionInv, RefusedAreGone
  <1>11. AllHopeless'
    BY <1>1 DEF SessionInv, AllHopeless, HopelessIsRefused, Expired, TypeOK, AllPlaced,
       Placed, CredentialOps, CookieOps, Session, Deadlines, Time
  <1>12. QED
    BY <1>2, <1>3, <1>4, <1>5, <1>6, <1>7, <1>8, <1>9, <1>10, <1>11 DEF SessionInv

\* The clock is set back.
LEMMA StepBackKeepsInv ==
  ASSUME SessionInv, StepBack
  PROVE  SessionInv'
  <1>1. /\ clock' \in Time
        /\ \A r \in Requests : /\ hopeless'[r] # "outlived"
                               /\ hopeless'[r] # "no" => hopeless'[r] = hopeless[r]
        /\ UNCHANGED <<users, sessions, userWrite, pc, req, row, now, minted, tries, reply,
                      issued, known, refused>>
    BY BoundsAssumption DEF SessionInv, TypeOK, StepBack, db, locals, Time
  <1>2. TypeOK'
    <2>1. clock' \in Time
      BY <1>1
    <2>2. hopeless' \in [Requests -> {"no", "outlived", "refused"}]
      BY DEF SessionInv, TypeOK, StepBack
    <2>3. QED
      BY <1>1, <2>1, <2>2 DEF SessionInv, TypeOK
  <1>3. AllPlaced'
    BY <1>1 DEF SessionInv, AllPlaced, Placed
  <1>4. AllCurrent'
    BY <1>1 DEF SessionInv, AllCurrent, CopyIsCurrent, Granted
  <1>5. AllHold'
    BY <1>1 DEF SessionInv, AllHold, HoldsItsRow, WritesUser
  <1>6. OneSignupPerEmail'
    BY <1>1 DEF SessionInv, OneSignupPerEmail, Granted
  <1>7. TokensAreOwn'
    BY <1>1 DEF SessionInv, TokensAreOwn, Granted
  <1>8. SessionTimesAreSane'
    BY <1>1 DEF SessionInv, SessionTimesAreSane
  <1>9. AllCopies'
    BY <1>1 DEF SessionInv, AllCopies, SessionCopy, Expired
  <1>10. RefusedAreGone'
    BY <1>1 DEF SessionInv, RefusedAreGone
  <1>11. AllHopeless'
    <2>1. ASSUME NEW r \in Requests PROVE HopelessIsRefused(r)'
      <3>1. HopelessIsRefused(r) /\ hopeless'[r] # "outlived"
        BY <1>1 DEF SessionInv, AllHopeless
      <3>2. CASE hopeless'[r] = "no"
        BY <3>2 DEF HopelessIsRefused
      <3>3. CASE hopeless'[r] = "refused"
        BY <1>1, <3>1, <3>3 DEF HopelessIsRefused
      <3>4. QED
        BY <1>2, <3>1, <3>2, <3>3 DEF TypeOK
    <2>2. QED
      BY <2>1 DEF AllHopeless
  <1>12. QED
    BY <1>2, <1>3, <1>4, <1>5, <1>6, <1>7, <1>8, <1>9, <1>10, <1>11 DEF SessionInv

-----------------------------------------------------------------------------
(* The invariant                                                           *)

\* No request, no session, and accounts from before.
LEMMA InitInv == ASSUME Init PROVE SessionInv
  <1>1. TypeOK
    <2>1. users \in [Emails -> Account \cup {Null}]
      BY DEF Init, Account
    <2>2. clock \in Time /\ tries \in [Requests -> 0 .. MaxTokenGenerationAttempts - 1]
      BY BoundsAssumption, AttemptsAssumption DEF Init, Time
    <2>3. QED
      BY <2>1, <2>2 DEF Init, TypeOK, Places, Replies
  <1>2. /\ \A r \in Requests : /\ pc[r] = "idle" /\ reply[r] = "none" /\ minted[r] = Null
                               /\ hopeless[r] = "no"
        /\ \A t \in Tokens : sessions[t] = Null
        /\ known = {} /\ refused = {} /\ issued = {}
    BY DEF Init
  <1>3. AllPlaced
    BY <1>2 DEF AllPlaced, Placed
  <1>4. AllCurrent
    BY <1>2 DEF AllCurrent, CopyIsCurrent, Granted
  <1>5. AllHold
    BY <1>2 DEF AllHold, HoldsItsRow
  <1>6. OneSignupPerEmail
    BY <1>2 DEF OneSignupPerEmail, Granted
  <1>7. TokensAreOwn
    BY <1>2 DEF TokensAreOwn, Granted
  <1>8. SessionTimesAreSane
    BY <1>2 DEF SessionTimesAreSane
  <1>9. AllCopies /\ RefusedAreGone
    BY <1>2 DEF AllCopies, SessionCopy, RefusedAreGone
  <1>10. AllHopeless
    BY <1>2 DEF AllHopeless, HopelessIsRefused
  <1>11. QED
    BY <1>1, <1>3, <1>4, <1>5, <1>6, <1>7, <1>8, <1>9, <1>10 DEF SessionInv

\* The answers that nothing was written for, by what the handler knows by then.
LEMMA RefusalKeepsInv ==
  ASSUME SessionInv, NEW r \in Requests,
         \/ RefuseSignup(r) \/ RefuseLogin(r) \/ LoseEmailRace(r) \/ GiveUpTokens(r)
         \/ MissSession(r) \/ AcceptSession(r) \/ TouchMissingSession(r)
         \/ LoseAnswer(r) \/ Abort(r)
  PROVE  SessionInv'
  <1>1. CASE RefuseSignup(r)
    <2>1. /\ Leave(r, "duplicate_email") /\ pc[r] = "looked" /\ req[r].op = "signup"
          /\ users[req[r].email] # Null
      BY <1>1 DEF RefuseSignup, At, SessionInv, AllCurrent, CopyIsCurrent
    <2>2. QED
      BY <2>1, LeaveKeepsInv DEF EndsToken, Replies
  <1>2. CASE RefuseLogin(r)
    <2>1. Leave(r, "invalid_credentials") /\ pc[r] = "looked" /\ req[r].op = "login"
      BY <1>2 DEF RefuseLogin, At
    <2>2. QED
      BY <2>1, LeaveKeepsInv DEF EndsToken, Replies
  <1>3. CASE LoseEmailRace(r)
    <2>1. /\ Leave(r, "duplicate_email") /\ pc[r] = "writing" /\ req[r].op = "signup"
          /\ users[req[r].email] # Null
      BY <1>3 DEF LoseEmailRace, At
    <2>2. QED
      BY <2>1, LeaveKeepsInv DEF EndsToken, Replies
  <1>4. CASE GiveUpTokens(r)
    <2>1. /\ Leave(r, "internal_error") /\ pc[r] = "inserting"
          /\ req[r].op \in {"signup", "login"}
      BY <1>4 DEF GiveUpTokens, Collides, At, CredentialOps
    <2>2. QED
      BY <2>1, LeaveKeepsInv DEF EndsToken, Replies
  <1>5. CASE MissSession(r)
    <2>1. /\ pc[r] \in {"resolving", "begin"} /\ sessions[req[r].token] = Null
          /\ \/ req[r].op = "me" /\ Leave(r, "unauthorized")
             \/ req[r].op = "logout" /\ Leave(r, "ok")
      BY <1>5 DEF MissSession, LooksUp, At
    <2>2. req[r].op = "logout" => hopeless[r] = "no"
      BY DEF SessionInv, AllHopeless, HopelessIsRefused
    <2>3. QED
      BY <2>1, <2>2, LeaveKeepsInv DEF EndsToken, Replies, CookieOps
  <1>6. CASE AcceptSession(r)
    <2>1. /\ pc[r] = "found" /\ req[r].op = "me" /\ ~Expired(r)
          /\ Leave(r, "ok")
      BY <1>6 DEF AcceptSession, At
    <2>2. hopeless[r] = "no"
      BY <2>1 DEF SessionInv, AllHopeless, HopelessIsRefused, TypeOK
    <2>3. QED
      BY <2>1, <2>2, LeaveKeepsInv DEF EndsToken, Replies, CookieOps
  <1>7. CASE TouchMissingSession(r)
    <2>1. Leave(r, "internal_error") /\ pc[r] = "found" /\ req[r].op = "me"
      BY <1>7 DEF TouchMissingSession, Touchable, At
    <2>2. QED
      BY <2>1, LeaveKeepsInv DEF EndsToken, Replies
  <1>8. CASE LoseAnswer(r) \/ Abort(r)
    <2>1. Leave(r, "failed") /\ pc[r] \notin {"idle", "done"}
      BY <1>8 DEF LoseAnswer, Abort
    <2>2. QED
      BY <2>1, LeaveKeepsInv DEF EndsToken, Replies
  <1>9. QED
    BY <1>1, <1>2, <1>3, <1>4, <1>5, <1>6, <1>7, <1>8

\* Nothing changes.
LEMMA StutterKeepsInv == ASSUME SessionInv, UNCHANGED vars PROVE SessionInv'
  <1>1. TypeOK'
    BY DEF SessionInv, TypeOK, vars
  <1>2. AllPlaced' /\ AllCurrent' /\ AllHold'
    BY DEF SessionInv, AllPlaced, Placed, AllCurrent, CopyIsCurrent, Granted, AllHold,
       HoldsItsRow, WritesUser, vars
  <1>3. OneSignupPerEmail' /\ TokensAreOwn'
    BY DEF SessionInv, OneSignupPerEmail, TokensAreOwn, Granted, vars
  <1>4. SessionTimesAreSane' /\ AllCopies' /\ RefusedAreGone' /\ AllHopeless'
    BY DEF SessionInv, SessionTimesAreSane, AllCopies, SessionCopy, Expired, RefusedAreGone,
       AllHopeless, HopelessIsRefused, vars
  <1>5. QED
    BY <1>1, <1>2, <1>3, <1>4 DEF SessionInv

\* Every action, by the lemma about it.
LEMMA StepKeepsInv == ASSUME SessionInv, [Next]_vars PROVE SessionInv'
  <1>1. ASSUME NEW r \in Requests, Begin(r) \/ Step(r) \/ LoseAnswer(r) \/ Abort(r)
        PROVE  SessionInv'
    <2>1. CASE Begin(r)
      BY <2>1, BeginKeepsInv
    <2>2. CASE GetUserByEmail(r)
      BY <2>2, GetUserKeepsInv
    <2>3. CASE AcceptCredentials(r)
      BY <2>3, AcceptKeepsInv
    <2>4. CASE WriteUser(r)
      BY <2>4, WriteUserKeepsInv
    <2>5. CASE InsertSession(r)
      BY <2>5, InsertKeepsInv
    <2>6. CASE RetryToken(r)
      BY <2>6, RetryKeepsInv
    <2>7. CASE CommitCredentials(r)
      BY <2>7, CommitKeepsInv
    <2>8. CASE ReadClockFirst(r)
      BY <2>8, ReadClockKeepsInv
    <2>9. CASE FindSession(r)
      BY <2>9, FindKeepsInv
    <2>10. CASE DeleteExpiredSession(r) \/ RevokeSession(r)
      BY <2>10, RemoveKeepsInv
    <2>11. CASE TouchSession(r)
      BY <2>11, TouchKeepsInv
    <2>12. CASE Respond(r)
      BY <2>12, RespondKeepsInv
    <2>13. CASE \/ RefuseSignup(r) \/ RefuseLogin(r) \/ LoseEmailRace(r) \/ GiveUpTokens(r)
                \/ MissSession(r) \/ AcceptSession(r) \/ TouchMissingSession(r)
                \/ LoseAnswer(r) \/ Abort(r)
      BY <2>13, RefusalKeepsInv
    <2>14. QED
      BY <1>1, <2>1, <2>2, <2>3, <2>4, <2>5, <2>6, <2>7, <2>8, <2>9, <2>10, <2>11, <2>12, <2>13
      DEF Step
  <1>2. CASE Tick
    BY <1>2, TickKeepsInv
  <1>3. CASE StepBack
    BY <1>3, StepBackKeepsInv
  <1>4. CASE UNCHANGED vars
    BY <1>4, StutterKeepsInv
  <1>5. QED
    BY <1>1, <1>2, <1>3, <1>4 DEF Next

\* Every reachable state satisfies the inductive invariant.
THEOREM SessionInvariant == Spec => []SessionInv
  <1>1. Init => SessionInv
    BY InitInv
  <1>2. SessionInv /\ [Next]_vars => SessionInv'
    BY StepKeepsInv
  <1>3. QED
    BY <1>1, <1>2, PTL DEF Spec

-----------------------------------------------------------------------------
(* The theorems                                                            *)

\* Every variable keeps its type.
THEOREM TypeCorrect == Spec => []TypeOK
  <1>1. SessionInv => TypeOK
    BY DEF SessionInv
  <1>2. QED
    BY <1>1, SessionInvariant, PTL

\* Of any number of concurrent signups with one address one succeeds, and who is
\* refused is refused rightly, whatever fails and in whatever order they commit.
THEOREM AddressesAreUnique == Spec => []OneAccountPerEmail
  <1>1. SessionInv => OneAccountPerEmail
    BY DEF SessionInv, OneSignupPerEmail, AllCurrent, CopyIsCurrent, OneAccountPerEmail
  <1>2. QED
    BY <1>1, SessionInvariant, PTL

\* Every cookie handed out is its own and opens the account whose credentials were
\* given.
THEOREM CookiesAreOwn == Spec => []CookieOpensOwnAccount
  <1>1. SessionInv => CookieOpensOwnAccount
    <2>1. ASSUME SessionInv, NEW r \in Requests, Granted(r)
          PROVE  /\ users[req[r].email] # Null
                 /\ users[req[r].email].password = req[r].password
                 /\ sessions[minted[r]] # Null => sessions[minted[r]].user = req[r].email
                 /\ minted[r] # Null
      BY <2>1, NullAssumption DEF SessionInv, AllCurrent, CopyIsCurrent, TokensAreOwn, TypeOK
    <2>2. QED
      BY <2>1 DEF CookieOpensOwnAccount, SessionInv, TokensAreOwn
  <1>2. QED
    BY <1>1, SessionInvariant, PTL

\* Activity never moves the end of a session, for any lifetime, interval and clock.
THEOREM TimesAreSane == Spec => []SessionTimesAreSane
  <1>1. SessionInv => SessionTimesAreSane
    BY DEF SessionInv
  <1>2. QED
    BY <1>1, SessionInvariant, PTL

\* A token that was refused or logged out, or is past its lifetime, is accepted for
\* no later request, however many others race with it.
THEOREM RefusalsLast == Spec => []RefusedStaysRefused
  <1>1. SessionInv => RefusedStaysRefused
    BY DEF SessionInv, AllHopeless, HopelessIsRefused, RefusedStaysRefused
  <1>2. QED
    BY <1>1, SessionInvariant, PTL

-----------------------------------------------------------------------------
(* Waiting for a user row                                                  *)

\* A user row is in the hands of the request that writes it, on its way from the
\* write to its commit, and of no transaction that is over.
RowsAreInHand ==
  \A e \in Emails : userWrite[e] # Null =>
    pc[userWrite[e]] \in {"inserting", "staged"} /\ req[userWrite[e]].email = e

\* The INSERT or UPDATE of r's user row waits for another transaction.
WaitsForRow(r) ==
  At(r, "writing", CredentialOps) /\ userWrite[req[r].email] # Null

LEMMA RowsInHandStep ==
  ASSUME SessionInv, RowsAreInHand, [Next]_vars
  PROVE  RowsAreInHand'
  <1> USE DEF RowsAreInHand
  <1>1. /\ userWrite \in [Emails -> Requests \cup {Null}]
        /\ pc \in [Requests -> Places] /\ DOMAIN req = Requests /\ Null \notin Requests
    BY NullAssumption DEF SessionInv, TypeOK
  <1>2. ASSUME NEW r \in Requests, Begin(r) \/ Step(r) \/ LoseAnswer(r) \/ Abort(r)
        PROVE  RowsAreInHand'
    <2>1. \A s \in Requests \ {r} : pc'[s] = pc[s] /\ req'[s] = req[s]
      BY <1>1, <1>2 DEF Begin, Step, LoseAnswer, Abort, GetUserByEmail, RefuseSignup,
         RefuseLogin, AcceptCredentials, WriteUser, LoseEmailRace, InsertSession,
         RetryToken, GiveUpTokens, CommitCredentials, ReadClockFirst, FindSession,
         MissSession, DeleteExpiredSession, AcceptSession, TouchSession,
         TouchMissingSession, RevokeSession, Respond, Leave, Answer, Goto, locals, db
    <2>2. ASSUME EndTransaction(r)
          PROVE  RowsAreInHand'
      BY <1>1, <2>1, <2>2 DEF EndTransaction
    <2>3. ASSUME userWrite' = userWrite, pc[r] \notin {"inserting", "staged"}
          PROVE  RowsAreInHand'
      BY <1>1, <2>1, <2>3
    <2>4. ASSUME userWrite' = userWrite, req' = req, pc'[r] \in {"inserting", "staged"}
          PROVE  RowsAreInHand'
      BY <1>1, <2>1, <2>4
    <2>5. CASE WriteUser(r)
      <3>1. /\ userWrite' = [userWrite EXCEPT ![req[r].email] = r] /\ req' = req
            /\ pc'[r] = "inserting" /\ pc[r] = "writing"
        BY <1>1, <2>5 DEF WriteUser, Goto, At
      <3>2. QED
        BY <1>1, <2>1, <3>1
    <2>6. CASE InsertSession(r) \/ RetryToken(r)
      BY <1>1, <2>4, <2>6 DEF InsertSession, RetryToken, Collides, Goto, At, db
    <2>7. CASE CommitCredentials(r) \/ RefuseSignup(r) \/ RefuseLogin(r)
               \/ LoseEmailRace(r) \/ GiveUpTokens(r) \/ MissSession(r)
               \/ AcceptSession(r) \/ TouchMissingSession(r) \/ Abort(r)
      BY <2>2, <2>7 DEF CommitCredentials, RefuseSignup, RefuseLogin, LoseEmailRace,
         GiveUpTokens, MissSession, AcceptSession, TouchMissingSession, Abort, Leave
    <2>8. CASE Begin(r) \/ GetUserByEmail(r) \/ AcceptCredentials(r) \/ ReadClockFirst(r)
               \/ FindSession(r) \/ DeleteExpiredSession(r) \/ TouchSession(r)
               \/ RevokeSession(r) \/ Respond(r) \/ LoseAnswer(r)
      BY <2>2, <2>3, <2>8 DEF Begin, GetUserByEmail, AcceptCredentials, ReadClockFirst,
         FindSession, DeleteExpiredSession, TouchSession, RevokeSession, Respond,
         LoseAnswer, Leave, At, LooksUp, Touchable, db
    <2>9. QED
      BY <1>2, <2>5, <2>6, <2>7, <2>8 DEF Step
  <1>3. CASE Tick \/ StepBack \/ UNCHANGED vars
    BY <1>3 DEF Tick, StepBack, vars, db
  <1>4. QED
    BY <1>2, <1>3 DEF Next

\* A signup or a login that waits for a user row waits for a transaction that is at
\* work between its write and its commit: no two wait for each other, and none waits
\* for a request that was answered, failed or was cancelled.
THEOREM WritersDoNotChain ==
  Spec => [](\A r \in Requests : WaitsForRow(r) =>
               LET holder == userWrite[req[r].email]
               IN  ~WaitsForRow(holder) /\ pc[holder] \in {"inserting", "staged"})
  <1>1. Init => RowsAreInHand
    BY DEF Init, RowsAreInHand
  <1>2. SessionInv /\ RowsAreInHand =>
          \A r \in Requests : WaitsForRow(r) =>
            LET holder == userWrite[req[r].email]
            IN  ~WaitsForRow(holder) /\ pc[holder] \in {"inserting", "staged"}
    <2> SUFFICES ASSUME SessionInv, RowsAreInHand, NEW r \in Requests, WaitsForRow(r)
                 PROVE  LET holder == userWrite[req[r].email]
                        IN  ~WaitsForRow(holder) /\ pc[holder] \in {"inserting", "staged"}
      OBVIOUS
    <2>1. req[r].email \in Emails
      BY DEF WaitsForRow, At, SessionInv, AllPlaced, Placed, CredentialOps, CookieOps
    <2>2. QED
      BY <2>1 DEF RowsAreInHand, WaitsForRow, At
  <1>3. QED
    BY <1>1, <1>2, RowsInHandStep, SessionInvariant, PTL DEF Spec

-----------------------------------------------------------------------------
(* The refinement                                                          *)

\* What the refinement mapping shows of the accounts and of the sessions.
Keys(accounts) == [e \in Emails |-> IF accounts[e] = Null THEN Null ELSE accounts[e].password]

Shown(rows) == [t \in Tokens |-> IF rows[t] = Null THEN Null
                  ELSE [user |-> rows[t].user, expires |-> rows[t].expires]]

\* The commit of a signup is the abstract SignUp, that of a login its LogIn.
LEMMA CommitIsSignUpOrLogIn ==
  ASSUME SessionInv, NEW r \in Requests, CommitCredentials(r)
  PROVE  Public!Next
  <1>0. SUFFICES ASSUME NEW e \in Emails, NEW t \in Tokens, e = req[r].email, t = minted[r]
                 PROVE  Public!Next
    BY DEF CommitCredentials, At, SessionInv, AllPlaced, Placed, CredentialOps, CookieOps, TypeOK,
       TokensAreOwn
  <1>1. /\ req[r].password \in Passwords
        /\ pc[r] = "staged" /\ sessions[t] = Null
        /\ \/ req[r].op = "signup" /\ users[e] = Null
           \/ req[r].op = "login" /\ users[e] # Null /\ users[e].password = req[r].password
    BY <1>0 DEF CommitCredentials, At, SessionInv, AllPlaced, Placed, CredentialOps, CookieOps,
       TypeOK, TokensAreOwn, AllCurrent, CopyIsCurrent, AllHold, HoldsItsRow, WritesUser
  <1>2. /\ users'[e] # Null /\ users'[e].password = req[r].password
        /\ \A d \in Emails : d # e => users'[d] = users[d]
        /\ sessions'[t] \in Session /\ sessions'[t] # Null /\ sessions'[t].user = e
        /\ \A u \in Tokens : u # t => sessions'[u] = sessions[u]
    BY <1>0, CommitEffect
  <1>3. Public!OpenSession(e, t)
    <2>1. sessions'[t].expires \in Deadlines
      BY <1>2 DEF Session
    <2>2. Shown(sessions)[t] = Null
      BY <1>1 DEF Shown
    <2>3. Shown(sessions') =
            [Shown(sessions) EXCEPT ![t] = [user |-> e, expires |-> sessions'[t].expires]]
      BY <1>1, <1>2 DEF Shown
    <2>4. QED
      BY <2>1, <2>2, <2>3 DEF Public!OpenSession, Shown
  <1>4. CASE users[e] = Null
    <2>1. /\ Keys(users)[e] = Null
          /\ Keys(users') = [Keys(users) EXCEPT ![e] = req[r].password]
      BY <1>1, <1>2, <1>4 DEF Keys
    <2>2. Public!SignUp(e, t)
      BY <1>1, <1>3, <2>1 DEF Public!SignUp, Keys
    <2>3. QED
      BY <1>1, <2>2 DEF Public!Next
  <1>5. CASE users[e] # Null
    <2>1. users[e].password = users'[e].password
      BY <1>1, <1>2, <1>5
    <2>2. users[e].password \in Passwords
      BY <1>1, <1>5
    <2>3. Keys(users)[e] # Null /\ Keys(users') = Keys(users)
      BY <1>1, <1>2, <1>5, <2>1, <2>2, NullAssumption DEF Keys
    <2>4. Public!LogIn(e, t)
      BY <1>3, <2>3 DEF Public!LogIn, Keys
    <2>5. QED
      BY <1>1, <2>4 DEF Public!Next
  <1>6. QED
    BY <1>4, <1>5

\* Deleting a session's row is EndSession, or nothing if another request was first.
LEMMA RemovalIsEndSession ==
  ASSUME SessionInv, NEW r \in Requests, DeleteExpiredSession(r) \/ RevokeSession(r)
  PROVE  Public!Next \/ UNCHANGED Public!vars
  <1>0. SUFFICES ASSUME NEW t \in Tokens, t = req[r].token
                 PROVE  Public!Next \/ UNCHANGED Public!vars
    BY DEF DeleteExpiredSession, RevokeSession, At, SessionInv, AllPlaced, Placed, CredentialOps,
       CookieOps
  <1>1. sessions' = [sessions EXCEPT ![t] = Null] /\ UNCHANGED users
    BY <1>0 DEF DeleteExpiredSession, RevokeSession
  <1>2. sessions'[t] = Null /\ \A u \in Tokens : u # t => sessions'[u] = sessions[u]
    BY <1>1 DEF SessionInv, TypeOK
  <1>3. CASE sessions[t] = Null
    BY <1>1, <1>2, <1>3 DEF Public!vars
  <1>4. CASE sessions[t] # Null
    <2>1. Shown(sessions)[t] = [user |-> sessions[t].user, expires |-> sessions[t].expires]
      BY <1>1, <1>4 DEF Shown
    <2>2. Shown(sessions)[t] # Null
      <3>1. sessions[t] \in Session
        BY <1>1, <1>4 DEF SessionInv, TypeOK
      <3>2. QED
        BY <2>1, <3>1, NullAssumption DEF Session
    <2>3. Shown(sessions') = [Shown(sessions) EXCEPT ![t] = Null]
      BY <1>1, <1>2 DEF Shown
    <2>4. Keys(users') = Keys(users)
      BY <1>1 DEF Keys
    <2>5. Public!EndSession(t)
      BY <2>2, <2>3, <2>4 DEF Public!EndSession, Shown, Keys
    <2>6. QED
      BY <1>1, <2>5 DEF Public!Next
  <1>5. QED
    BY <1>3, <1>4

\* An activity write changes nothing that the abstract specification shows.
LEMMA TouchIsInvisible ==
  ASSUME SessionInv, NEW r \in Requests, TouchSession(r)
  PROVE  UNCHANGED Public!vars
  <1>1. /\ req[r].token \in Tokens /\ sessions[req[r].token] \in Session
        /\ sessions[req[r].token] # Null /\ now[r] \in Time
        /\ sessions' = [sessions EXCEPT ![req[r].token].used = now[r]] /\ UNCHANGED users
    BY DEF TouchSession, Touchable, At, SessionInv, AllPlaced, Placed, CredentialOps, CookieOps,
       TypeOK
  <1>2. /\ sessions'[req[r].token].user = sessions[req[r].token].user
        /\ sessions'[req[r].token].expires = sessions[req[r].token].expires
        /\ sessions'[req[r].token] \in Session
        /\ \A u \in Tokens : u # req[r].token => sessions'[u] = sessions[u]
    BY <1>1 DEF SessionInv, TypeOK, Session
  <1>3. sessions'[req[r].token] # Null
    BY <1>2, NullAssumption
  <1>4. \A u \in Tokens : /\ sessions'[u] = Null <=> sessions[u] = Null
                          /\ sessions[u] # Null =>
                               /\ sessions'[u].user = sessions[u].user
                               /\ sessions'[u].expires = sessions[u].expires
    BY <1>1, <1>2, <1>3
  <1>5. QED
    BY <1>1, <1>4 DEF Public!vars

\* Concurrent handlers with read-then-write gaps, savepoints, lost answers and
\* failures do what one atomic signup, login or logout after another would.
THEOREM Refinement == Spec => ImplementsAccounts
  <1>1. Init => Public!Init
    <2>1. ASSUME Init
          PROVE  /\ \A e \in Emails : users[e] = Null \/ users[e].password \in Passwords
                 /\ \A t \in Tokens : sessions[t] = Null
      BY <2>1 DEF Init
    <2>2. QED
      BY <2>1 DEF Public!Init
  <1>2. ASSUME SessionInv, [Next]_vars
        PROVE  Public!Next \/ UNCHANGED Public!vars
    <2>1. CASE \E r \in Requests : CommitCredentials(r)
      BY <1>2, <2>1, CommitIsSignUpOrLogIn
    <2>2. CASE \E r \in Requests : DeleteExpiredSession(r) \/ RevokeSession(r)
      BY <1>2, <2>2, RemovalIsEndSession
    <2>3. CASE \E r \in Requests : TouchSession(r)
      BY <1>2, <2>3, TouchIsInvisible
    <2>4. CASE UNCHANGED <<users, sessions>>
      BY <2>4 DEF Public!vars
    <2>5. \/ \E r \in Requests : \/ CommitCredentials(r) \/ DeleteExpiredSession(r)
                                 \/ RevokeSession(r) \/ TouchSession(r)
          \/ UNCHANGED <<users, sessions>>
      BY <1>2 DEF Next, Step, Begin, GetUserByEmail, RefuseSignup, RefuseLogin,
         AcceptCredentials, WriteUser, LoseEmailRace, InsertSession, RetryToken, GiveUpTokens,
         ReadClockFirst, FindSession, MissSession, AcceptSession, TouchMissingSession, Respond,
         LoseAnswer, Abort, Leave, Tick, StepBack, db, vars
    <2>6. QED
      BY <2>1, <2>2, <2>3, <2>4, <2>5
  <1>3. SessionInv /\ [Next]_vars => [Public!Next]_(Public!vars)
    BY <1>2
  <1>4. QED
    BY <1>1, <1>3, SessionInvariant, PTL DEF Spec, ImplementsAccounts, Public!Spec
=============================================================================
