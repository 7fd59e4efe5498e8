------------------------------ MODULE E2EData ------------------------------
(***************************************************************************)
(* The data of a browser-test run in the dedicated database: seeding,      *)
(* verification and cleanup, each one transaction.                         *)
(*                                                                         *)
(* A run owns two accounts, named by its id: "journey", which seeding      *)
(* creates under a fixed uuid together with two entries and two examples,  *)
(* and "signup", which the browser creates through the site.  An account   *)
(* stands for its row and everything that cascades from it.                *)
(***************************************************************************)
EXTENDS Integers

CONSTANTS
  RunIds,    \* E2E_RUN_ID values
  Specs,     \* (E2E_PASSWORD, E2E_SETUP_AT) pairs
  Phases,    \* E2E_VERIFY_PHASE values tried, of the four there are
  MaxRuns,   \* bound: runs of the supervisor, one after the other
  Null

Roles  == {"journey", "signup"}

\* What a run is given: E2EDataConfig and the verification phase.
Config == [id : RunIds, spec : Specs, phase : Phases]

\* by is the run that inserted the row, 0 for somebody else's; uuid says whether
\* its key is the run's own; progress is what the browser has done with it.
Account == [by : 0 .. MaxRuns, uuid : {"own", "other"}, spec : Specs,
            progress : {"fresh", "complete"}]

ASSUME PhasesAssumption == Phases \subseteq {"none", "auth-entry", "complete", "smoke"}
ASSUME RunsAssumption == MaxRuns \in Nat \ {0}
ASSUME AccountNullAssumption == Null \notin Account \cup Config

VARIABLE users   \* [RunIds \X Roles -> Account \cup {Null}], keyed by e-mail

Emails == RunIds \X Roles

UsersTypeOK == users \in [Emails -> Account \cup {Null}]

-----------------------------------------------------------------------------
\* An account, or one of its seeded records, that seeding cannot take for its own:
\* another key, another password or timestamp, or already used by a browser.
Conflicts(run) ==
  LET row == users[<<run.id, "journey">>]
  IN  /\ row # Null
      /\ row.uuid # "own" \/ row.spec # run.spec \/ row.progress # "fresh"

\* Mutant: the key is left to the column's default.
SeededWithoutKey(run, n) ==
  IF users[<<run.id, "journey">>] # Null THEN users
  ELSE [users EXCEPT ![<<run.id, "journey">>] =
          [by |-> n, uuid |-> Null, spec |-> run.spec, progress |-> "fresh"]]

\* setup_data: insert what is missing, keep what is there and matches.
Seeded(run, n) ==
  IF users[<<run.id, "journey">>] # Null THEN users
  ELSE [users EXCEPT ![<<run.id, "journey">>] =
          [by |-> n, uuid |-> "own", spec |-> run.spec, progress |-> "fresh"]]

\* Mutant: DELETE ... WHERE email LIKE 'e2e-%'.
CleanedByPattern(run) == [k \in Emails |-> Null]

\* cleanup_data: the journey account by key and e-mail, the signup one by e-mail.
Cleaned(run) ==
  [k \in Emails |->
     IF k[1] = run.id /\ users[k] # Null /\ (k[2] = "signup" \/ users[k].uuid = "own")
       THEN Null ELSE users[k]]

\* verify_auth_entry_data and verify_complete_journey_data
SignupProven(rows, run) ==
  /\ rows[<<run.id, "signup">>] # Null /\ rows[<<run.id, "signup">>].progress = "complete"
  /\ rows[<<run.id, "journey">>] # Null

JourneyProven(rows, run) ==
  /\ rows[<<run.id, "journey">>] # Null
  /\ rows[<<run.id, "journey">>].progress = "complete"

Proven(rows, run) ==
  /\ run.phase \in {"auth-entry", "smoke"} => SignupProven(rows, run)
  /\ run.phase \in {"complete", "smoke"} => JourneyProven(rows, run)

-----------------------------------------------------------------------------
(* The site under test (external): what a browser makes the backend store   *)

SignUp(run, n) ==
  /\ users[<<run.id, "signup">>] = Null
  /\ users' = [users EXCEPT ![<<run.id, "signup">>] =
       [by |-> n, uuid |-> "other", spec |-> run.spec, progress |-> "fresh"]]

UseAccount(run, role) ==
  /\ users[<<run.id, role>>] # Null
  /\ users[<<run.id, role>>].progress = "fresh"
  /\ users' = [users EXCEPT ![<<run.id, role>>].progress = "complete"]
=============================================================================
