------------------------------ MODULE Accounts ------------------------------
(***************************************************************************)
(* What authentication promises, with every operation one step: an account *)
(* appears together with its first session, its password never changes, a  *)
(* session belongs to one account and ends at an instant fixed when it was *)
(* opened, unless it is ended earlier.  SessionService implements this.    *)
(***************************************************************************)
CONSTANTS
  Emails,      \* normalized addresses
  Passwords,
  Tokens,      \* session tokens; the server stores their digests
  Deadlines,   \* instants
  Null

VARIABLES
  accounts,    \* [Emails -> Passwords \cup {Null}]
  live         \* [Tokens -> Session \cup {Null}]: the sessions that exist

vars == <<accounts, live>>

Session == [user : Emails, expires : Deadlines]

TypeOK == /\ accounts \in [Emails -> Passwords \cup {Null}]
          /\ live \in [Tokens -> Session \cup {Null}]

OpenSession(e, t) ==
  /\ live[t] = Null
  /\ \E d \in Deadlines : live' = [live EXCEPT ![t] = [user |-> e, expires |-> d]]

SignUp(e, t) ==
  /\ accounts[e] = Null
  /\ \E p \in Passwords : accounts' = [accounts EXCEPT ![e] = p]
  /\ OpenSession(e, t)

LogIn(e, t) ==
  /\ accounts[e] # Null
  /\ OpenSession(e, t)
  /\ UNCHANGED accounts

EndSession(t) ==
  /\ live[t] # Null
  /\ live' = [live EXCEPT ![t] = Null]
  /\ UNCHANGED accounts

\* Accounts may exist from before; their old sessions are not followed.
Init ==
  /\ accounts \in [Emails -> Passwords \cup {Null}]
  /\ live = [t \in Tokens |-> Null]

Next ==
  \/ \E e \in Emails, t \in Tokens : SignUp(e, t) \/ LogIn(e, t)
  \/ \E t \in Tokens : EndSession(t)

Spec == Init /\ [][Next]_vars
=============================================================================
