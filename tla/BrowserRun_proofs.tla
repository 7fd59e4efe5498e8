-------------------------- MODULE BrowserRun_proofs --------------------------
(***************************************************************************)
(* Proofs about BrowserRun, for any runs, credentials, verification phases *)
(* and numbers of signals.                                                 *)
(***************************************************************************)
EXTENDS BrowserRun, TLAPS

-----------------------------------------------------------------------------
(* The inductive invariant                                                 *)

\* Calls before the data is seeded, and those between that and the end.
Unseeded == {"preflight", "prepare", "write_manifest", "seed"}
Ending   == {"restore", "stop", "clean", "report"}
Seeding  == {"install"} \cup Guarded \cup Ending

NoOwnRows == \A k \in Emails : users[k] # Null => users[k].by # runs

\* A run is under way under its own number; rows name the run that inserted them,
\* and what this run inserted has its id and, for the journey, its key.
RowsKnowTheirRun ==
  /\ pc = "off" => run = Null /\ runs = 0
  /\ pc # "off" => run \in Config /\ runs > 0
  /\ \A k \in Emails : users[k] # Null => users[k].by <= runs
  /\ pc # "off" => \A k \in Emails :
       users[k] # Null /\ users[k].by = runs =>
         k[1] = run.id /\ (k[2] = "journey" => users[k].uuid = "own")
  /\ pc \in Unseeded => NoOwnRows

\* Once seeding accepted it, the journey's account is the run's own.
JourneyIsOwn ==
  pc \in Seeding \/ proc["browser"] # "none" =>
    /\ pc # "off"
    /\ users[<<run.id, "journey">>] # Null => users[<<run.id, "journey">>].uuid = "own"

\* Which children there are at each call.
ChildrenByCall ==
  /\ pc \in {"off", "install", "start_backend"} \cup Unseeded =>
       children = {} /\ \A k \in Kinds : proc[k] = "none"
  /\ pc = "record_backend" =>
       children = {} /\ proc["frontend"] = "none" /\ proc["browser"] = "none"
  /\ pc = "start_frontend" =>
       children = {"backend"} /\ proc["frontend"] = "none" /\ proc["browser"] = "none"
  /\ pc = "record_frontend" => children = {"backend"} /\ proc["browser"] = "none"
  /\ pc \in {"wait", "open"} => children = Servers /\ proc["browser"] = "none"
  /\ pc = "browse" => children = Servers
  /\ pc = "verify" => children = Servers /\ proc["browser"] = "passed"
  /\ pc \in Ending => /\ Running("browser") => failure \in {"interrupt", "stop"}
                      /\ \A k \in Servers \ children : Running(k) => failure = "interrupt"
                      /\ failure = "none" => proc["browser"] = "passed"
                      /\ proc["browser"] # "none" => children = Servers

\* The finally block: what it attended to is down or its failure is noted.
StoppedOrNoted ==
  /\ pc \in {"off", "install"} \cup Unseeded \cup Guarded =>
       attended = {} /\ failure = "none" /\ ~uncleaned
  /\ pc = "restore" => attended = {} /\ ~uncleaned
  /\ pc \in {"clean", "report"} => attended = children
  /\ ~uncleaned => \A k \in attended : ~Running(k)

\* What verification saw stays so until the data is cleaned.
VerifiedBeforeCleaning ==
  /\ pc \in {"restore", "stop", "clean"} /\ failure = "none" => Proven(users, run)
  /\ pc = "report" /\ ~uncleaned =>
       NoOwnRows /\ (failure = "none" => Proven(found, run))

\* A signal outside the try block leaves only the report to do.
CutShape ==
  /\ pc \notin {"report", "ended"} => ~cut
  /\ pc = "report" /\ cut => uncleaned

\* How a run ends.
EndShape ==
  pc = "ended" =>
    /\ ~cut /\ ~uncleaned =>
         /\ \A k \in children : ~Running(k)
         /\ Running("browser") => failure \in {"interrupt", "stop"}
         /\ \A k \in Servers \ children : Running(k) => failure = "interrupt"
         /\ proc["browser"] # "none" => "backend" \in children
         /\ NoOwnRows
         /\ temp = "none"
    /\ status = 0 =>
         /\ ~cut /\ ~uncleaned /\ failure = "none"
         /\ proc["browser"] = "passed"
         /\ Proven(found, run)

\* The types, in three parts.
DataTypes ==
  /\ UsersTypeOK
  /\ run \in Config \cup {Null}
  /\ runs \in 0 .. MaxRuns
  /\ temp \in {"none", "empty", "manifest"}
  /\ found = Null \/ found \in [Emails -> Account \cup {Null}]

ProcessTypes ==
  /\ proc \in [Kinds -> {"none", "up", "serving", "passed", "failed", "gone"}]
  /\ attended \subseteq children /\ children \subseteq Servers
  /\ remaining \subseteq Servers
  /\ left \subseteq Kinds

ControlTypes ==
  /\ pc \in Calls
  /\ failure \in {"none", "command", "stack", "data", "start", "stop", "interrupt"}
  /\ uncleaned \in BOOLEAN /\ cut \in BOOLEAN
  /\ status \in {Null, 0, 1, CommandStatus, Killed}
  /\ signals \in 0 .. MaxSignals

\* The parts together are the type invariant.
LEMMA TypesAreTypeOK == TypeOK <=> DataTypes /\ ProcessTypes /\ ControlTypes
  BY DEF TypeOK, DataTypes, ProcessTypes, ControlTypes

RunInv ==
  /\ DataTypes
  /\ ProcessTypes
  /\ ControlTypes
  /\ RowsKnowTheirRun
  /\ JourneyIsOwn
  /\ ChildrenByCall
  /\ StoppedOrNoted
  /\ VerifiedBeforeCleaning
  /\ CutShape
  /\ EndShape

-----------------------------------------------------------------------------
(* The data                                                                *)

\* Null stands for no account only.
LEMMA AccountIsNotNull == ASSUME NEW a \in Account PROVE a # Null
  BY AccountNullAssumption

\* setup_data touches the journey's row only, and that only if it is missing.
LEMMA SeededRows ==
  ASSUME UsersTypeOK, run \in Config, runs \in 0 .. MaxRuns
  PROVE  /\ Seeded(run, runs) \in [Emails -> Account \cup {Null}]
         /\ <<run.id, "journey">> \in Emails
         /\ \A k \in Emails :
              \/ Seeded(run, runs)[k] = users[k]
              \/ /\ users[k] = Null /\ k[1] = run.id /\ k[2] = "journey"
                 /\ Seeded(run, runs)[k].by = runs /\ Seeded(run, runs)[k].uuid = "own"
         /\ users[<<run.id, "journey">>] # Null =>
              Seeded(run, runs)[<<run.id, "journey">>] = users[<<run.id, "journey">>]
         /\ users[<<run.id, "journey">>] = Null =>
              /\ Seeded(run, runs)[<<run.id, "journey">>].by = runs
              /\ Seeded(run, runs)[<<run.id, "journey">>].uuid = "own"
  <1> DEFINE j   == <<run.id, "journey">>
             row == [by |-> runs, uuid |-> "own", spec |-> run.spec, progress |-> "fresh"]
  <1>1. j \in Emails /\ row \in Account
    BY DEF Config, Emails, Roles, Account
  <1>2. CASE users[j] # Null
    BY <1>1, <1>2 DEF Seeded, UsersTypeOK
  <1>3. CASE users[j] = Null
    <2>1. Seeded(run, runs) = [users EXCEPT ![j] = row]
      BY <1>3 DEF Seeded
    <2> HIDE DEF row
    <2>2. Seeded(run, runs)[j] = row
      BY <1>1, <2>1 DEF UsersTypeOK
    <2>3. row.by = runs /\ row.uuid = "own"
      BY DEF row
    <2> HIDE DEF j
    <2>4. QED
      BY <1>1, <1>3, <2>1, <2>2, <2>3 DEF UsersTypeOK, j
  <1>4. QED
    BY <1>2, <1>3

\* cleanup_data removes nothing but accounts with the run's id: every signup, and
\* the journey if it has the run's key.
LEMMA CleanedRows ==
  ASSUME UsersTypeOK, NEW r \in Config
  PROVE  /\ Cleaned(r) \in [Emails -> Account \cup {Null}]
         /\ \A k \in Emails : Cleaned(r)[k] = Null \/ Cleaned(r)[k] = users[k]
         /\ \A k \in Emails :
              users[k] # Null /\ (k[1] # r.id \/ (k[2] = "journey" /\ users[k].uuid = "other"))
                => Cleaned(r)[k] = users[k]
         /\ \A k \in Emails :
              k[1] = r.id /\ (k[2] = "journey" => users[k].uuid = "own") => Cleaned(r)[k] = Null
  BY DEF Cleaned, UsersTypeOK, Emails, Roles

\* A browser signs up where nobody is, and uses accounts of its run.
LEMMA BrowsedRows ==
  ASSUME UsersTypeOK, NEW r \in Config, NEW n \in 0 .. MaxRuns,
         SignUp(r, n) \/ \E role \in Roles : UseAccount(r, role)
  PROVE  /\ users' \in [Emails -> Account \cup {Null}]
         /\ \A k \in Emails : users[k] # Null =>
              /\ users'[k] # Null
              /\ users'[k].by = users[k].by /\ users'[k].uuid = users[k].uuid
              /\ users[k].progress = "complete" => users'[k].progress = "complete"
              /\ k[1] # r.id => users'[k] = users[k]
         /\ \A k \in Emails : users[k] = Null /\ users'[k] # Null =>
              k[1] = r.id /\ k[2] = "signup" /\ users'[k].by = n
  <1>1. CASE SignUp(r, n)
    <2> DEFINE e   == <<r.id, "signup">>
               row == [by |-> n, uuid |-> "other", spec |-> r.spec, progress |-> "fresh"]
    <2>1. e \in Emails /\ row \in Account /\ row.by = n
      BY DEF Config, Emails, Roles, Account
    <2>2. users[e] = Null /\ users' = [users EXCEPT ![e] = row]
      BY <1>1 DEF SignUp
    <2> HIDE DEF row, e
    <2>3. QED
      BY <2>1, <2>2 DEF UsersTypeOK, e
  <1>2. ASSUME NEW role \in Roles, UseAccount(r, role)
        PROVE  /\ users' \in [Emails -> Account \cup {Null}]
               /\ \A k \in Emails : users[k] # Null =>
                    /\ users'[k] # Null
                    /\ users'[k].by = users[k].by /\ users'[k].uuid = users[k].uuid
                    /\ users[k].progress = "complete" => users'[k].progress = "complete"
                    /\ k[1] # r.id => users'[k] = users[k]
               /\ \A k \in Emails : users[k] = Null => users'[k] = Null
    <2> DEFINE e   == <<r.id, role>>
               row == [users[e] EXCEPT !.progress = "complete"]
    <2>1. /\ e \in Emails /\ users[e] # Null
          /\ users' = [users EXCEPT ![e] = row]
      BY <1>2 DEF UseAccount, Config, Emails
    <2>2. /\ row \in Account
          /\ row.by = users[e].by /\ row.uuid = users[e].uuid /\ row.progress = "complete"
      <3>1. users[e] \in Account
        BY <2>1 DEF UsersTypeOK
      <3>2. QED
        BY <3>1 DEF Account
    <2>3. row # Null
      BY <2>2, AccountIsNotNull
    <2>4. e[1] = r.id
      OBVIOUS
    <2> HIDE DEF row, e
    <2>5. QED
      BY <2>1, <2>2, <2>3, <2>4 DEF UsersTypeOK
  <1>3. QED
    BY <1>1, <1>2

\* What is proven of a run's data stays proven while the browser goes on.
LEMMA BrowsingKeepsProof ==
  ASSUME UsersTypeOK, NEW r \in Config, NEW n \in 0 .. MaxRuns,
         SignUp(r, n) \/ \E role \in Roles : UseAccount(r, role),
         Proven(users, r)
  PROVE  Proven(users', r)
  <1>1. <<r.id, "journey">> \in Emails /\ <<r.id, "signup">> \in Emails
    BY DEF Config, Emails, Roles
  <1>2. \A k \in Emails : users[k] # Null =>
          /\ users'[k] # Null
          /\ users[k].progress = "complete" => users'[k].progress = "complete"
    BY BrowsedRows
  <1>3. QED
    BY <1>1, <1>2 DEF Proven, SignupProven, JourneyProven

\* The journey's address of any configuration is one of the addresses.
LEMMA JourneyIsEmail == ASSUME NEW r \in Config PROVE <<r.id, "journey">> \in Emails
  BY DEF Config, Emails, Roles

-----------------------------------------------------------------------------
(* The steps                                                               *)

\* The calls before the try block that only lead on to the next one.
LEMMA EarlyCallKeepsInv ==
  ASSUME RunInv, Preflight \/ Prepare \/ WriteManifest \/ InstallHandlers
  PROVE  RunInv'
  <1>1. /\ \/ pc = "preflight" /\ pc' = "prepare"
           \/ pc = "prepare" /\ pc' = "write_manifest"
           \/ pc = "write_manifest" /\ pc' = "seed"
           \/ pc = "install" /\ pc' = "start_backend"
        /\ temp' \in {temp, "manifest"}
        /\ UNCHANGED <<found, proc, children, attended, remaining, failure, uncleaned,
                       status, run, runs, left, signals, cut, users>>
    BY DEF Preflight, Prepare, WriteManifest, InstallHandlers, dataVars, procVars, tellVars,
       fixed, sigVars
  <1>2. DataTypes'
    BY <1>1 DEF RunInv, DataTypes, UsersTypeOK
  <1>3. ProcessTypes'
    BY <1>1 DEF RunInv, ProcessTypes
  <1>4. ControlTypes'
    BY <1>1 DEF RunInv, ControlTypes, Calls, Guarded
  <1>5. RowsKnowTheirRun'
    BY <1>1 DEF RunInv, RowsKnowTheirRun, Unseeded, NoOwnRows
  <1>6. JourneyIsOwn'
    BY <1>1 DEF RunInv, JourneyIsOwn, Seeding, Guarded, Ending
  <1>7. ChildrenByCall'
    BY <1>1 DEF RunInv, ChildrenByCall, Unseeded, Guarded, Ending, Running
  <1>8. StoppedOrNoted'
    BY <1>1 DEF RunInv, StoppedOrNoted, Unseeded, Guarded, Running
  <1>9. VerifiedBeforeCleaning'
    BY <1>1 DEF RunInv, VerifiedBeforeCleaning, NoOwnRows
  <1>10. CutShape'
    BY <1>1 DEF RunInv, CutShape
  <1>11. EndShape'
    BY <1>1 DEF RunInv, EndShape, NoOwnRows, Running
  <1>12. QED
    BY <1>2, <1>3, <1>4, <1>5, <1>6, <1>7, <1>8, <1>9, <1>10, <1>11 DEF RunInv

\* A run that ends before it has children.
LEMMA EarlyEndKeepsInv ==
  ASSUME RunInv, RefusePreflight \/ FailPrepare \/ RefuseSeed
  PROVE  RunInv'
  <1>1. /\ pc \in Unseeded /\ pc' = "ended"
        /\ temp' = "none" /\ status' \in {1, CommandStatus}
        /\ UNCHANGED <<found, proc, children, attended, remaining, failure, uncleaned, run,
                       runs, left, signals, cut, users>>
    BY DEF RefusePreflight, FailPrepare, RefuseSeed, dataVars, procVars, tellVars, fixed,
       sigVars, Exit, Unseeded
  <1>2. DataTypes'
    BY <1>1 DEF RunInv, DataTypes, UsersTypeOK
  <1>3. ProcessTypes'
    BY <1>1 DEF RunInv, ProcessTypes
  <1>4. ControlTypes'
    BY <1>1 DEF RunInv, ControlTypes, Calls, Guarded
  <1>5. RowsKnowTheirRun'
    BY <1>1 DEF RunInv, RowsKnowTheirRun, Unseeded, NoOwnRows
  <1>6. JourneyIsOwn'
    BY <1>1 DEF RunInv, JourneyIsOwn, Seeding, Guarded, Ending
  <1>7. ChildrenByCall'
    BY <1>1 DEF RunInv, ChildrenByCall, Unseeded, Guarded, Ending, Running
  <1>8. StoppedOrNoted'
    BY <1>1 DEF RunInv, StoppedOrNoted, Unseeded, Guarded, Running
  <1>9. VerifiedBeforeCleaning'
    BY <1>1 DEF RunInv, VerifiedBeforeCleaning, NoOwnRows
  <1>10. CutShape'
    BY <1>1 DEF RunInv, CutShape
  <1>11. EndShape'
    BY <1>1, StatusAssumption DEF RunInv, EndShape, NoOwnRows, Running, RowsKnowTheirRun,
       StoppedOrNoted,
       ChildrenByCall, CutShape, Unseeded, Kinds, Servers
  <1>12. QED
    BY <1>2, <1>3, <1>4, <1>5, <1>6, <1>7, <1>8, <1>9, <1>10, <1>11 DEF RunInv

\* An exception of the try block that leaves the children as they are.
LEMMA RaiseKeepsInv ==
  ASSUME RunInv,
         \/ FailToStart \/ FailReadiness \/ BrowserFailed \/ FailToStopBrowser
         \/ FailVerification \/ Interrupt
  PROVE  RunInv'
  <1>1. /\ pc \in Guarded /\ pc' = "restore"
        /\ failure' \in {"stack", "command", "data", "start", "stop", "interrupt"}
        /\ Running("browser") => failure' \in {"interrupt", "stop"}
        /\ \A k \in Servers \ children : Running(k) => failure' = "interrupt"
        /\ signals' \in 0 .. MaxSignals
        /\ UNCHANGED <<temp, found, proc, children, attended, remaining, uncleaned, status,
                       run, runs, left, cut, users>>
    BY SignalsAssumption DEF FailToStart, FailReadiness, BrowserFailed, FailToStopBrowser,
       FailVerification, Interrupt, dataVars, procVars, tellVars, fixed, sigVars, Raise,
       MaySignal, Guarded, Running, Servers, Kinds, RunInv, ControlTypes, ChildrenByCall
  <1>2. DataTypes'
    BY <1>1 DEF RunInv, DataTypes, UsersTypeOK, Guarded, Kinds
  <1>3. ProcessTypes'
    BY <1>1 DEF RunInv, ProcessTypes, Guarded, Kinds
  <1>4. ControlTypes'
    BY <1>1 DEF RunInv, ControlTypes, Calls, Guarded, Kinds
  <1>5. RowsKnowTheirRun'
    BY <1>1 DEF RunInv, RowsKnowTheirRun, Unseeded, NoOwnRows, Guarded, Kinds
  <1>6. JourneyIsOwn'
    BY <1>1 DEF RunInv, JourneyIsOwn, Seeding, Guarded, Ending, Kinds
  <1>7. ChildrenByCall'
    BY <1>1 DEF RunInv, ChildrenByCall, Unseeded, Guarded, Ending, Running, Kinds
  <1>8. StoppedOrNoted'
    BY <1>1 DEF RunInv, StoppedOrNoted, Unseeded, Guarded, Running, Kinds
  <1>9. VerifiedBeforeCleaning'
    BY <1>1 DEF RunInv, VerifiedBeforeCleaning, NoOwnRows, Guarded, Kinds
  <1>10. CutShape'
    BY <1>1 DEF RunInv, CutShape, Guarded, Kinds
  <1>11. EndShape'
    BY <1>1 DEF RunInv, EndShape, NoOwnRows, Running, Guarded, Kinds
  <1>12. QED
    BY <1>2, <1>3, <1>4, <1>5, <1>6, <1>7, <1>8, <1>9, <1>10, <1>11 DEF RunInv

\* A child is started.
LEMMA SpawnKeepsInv ==
  ASSUME RunInv, StartServers \/ OpenBrowser
  PROVE  RunInv'
  <1>1. /\ \/ /\ pc = "start_backend" /\ pc' = "record_backend"
              /\ proc' = [proc EXCEPT !["backend"] = "up"]
              /\ UNCHANGED <<children, remaining>>
           \/ /\ pc = "record_backend" /\ pc' = "start_frontend"
              /\ proc' = proc /\ children' = children \cup {"backend"} /\ remaining' = Servers
           \/ /\ pc = "start_frontend" /\ pc' = "record_frontend"
              /\ proc' = [proc EXCEPT !["frontend"] = "up"]
              /\ UNCHANGED <<children, remaining>>
           \/ /\ pc = "record_frontend" /\ pc' = "wait"
              /\ proc' = proc /\ children' = children \cup {"frontend"} /\ remaining' = Servers
           \/ /\ pc = "open" /\ pc' = "browse"
              /\ proc' = [proc EXCEPT !["browser"] = "up"]
              /\ UNCHANGED <<children, remaining>>
        /\ pc \in Guarded /\ pc' \in Guarded
        /\ UNCHANGED <<temp, found, attended, failure, uncleaned, status, run, runs, left,
                       signals, cut, users>>
    BY DEF StartServers, OpenBrowser, dataVars, procVars, tellVars, fixed, sigVars, Spawn,
       Record, Guarded
  <1>2. DataTypes'
    BY <1>1 DEF RunInv, DataTypes, UsersTypeOK
  <1>3. ProcessTypes'
    BY <1>1 DEF RunInv, ProcessTypes, Kinds, Servers
  <1>4. ControlTypes'
    BY <1>1 DEF RunInv, ControlTypes, Calls, Guarded
  <1>5. RowsKnowTheirRun'
    BY <1>1 DEF RunInv, RowsKnowTheirRun, Unseeded, NoOwnRows, Guarded
  <1>6. JourneyIsOwn'
    BY <1>1 DEF RunInv, JourneyIsOwn, Seeding, Guarded, Ending, RowsKnowTheirRun
  <1>7. ChildrenByCall'
    BY <1>1 DEF RunInv, ChildrenByCall, Unseeded, Guarded, Ending, Running, ProcessTypes,
       Kinds,
       Servers
  <1>8. StoppedOrNoted'
    BY <1>1 DEF RunInv, StoppedOrNoted, Unseeded, Guarded, Running
  <1>9. VerifiedBeforeCleaning'
    BY <1>1 DEF RunInv, VerifiedBeforeCleaning, NoOwnRows, Guarded
  <1>10. CutShape'
    BY <1>1 DEF RunInv, CutShape, Guarded
  <1>11. EndShape'
    BY <1>1 DEF RunInv, EndShape, NoOwnRows, Running, Guarded
  <1>12. QED
    BY <1>2, <1>3, <1>4, <1>5, <1>6, <1>7, <1>8, <1>9, <1>10, <1>11 DEF RunInv

\* Seeding.
LEMMA SeedKeepsInv ==
  ASSUME RunInv, SeedData
  PROVE  RunInv'
  <1>1. /\ pc = "seed" /\ pc' = "install" /\ ~Conflicts(run)
        /\ users' = Seeded(run, runs)
        /\ run \in Config /\ runs \in 0 .. MaxRuns
        /\ UNCHANGED <<temp, found, proc, children, attended, remaining, failure, uncleaned,
                       status, run, runs, left, signals, cut>>
    BY DEF SeedData, dataVars, procVars, tellVars, fixed, sigVars, RunInv, DataTypes,
       RowsKnowTheirRun
  <1>2. DataTypes'
    BY <1>1, SeededRows DEF RunInv, DataTypes, UsersTypeOK
  <1>3. ProcessTypes'
    BY <1>1 DEF RunInv, ProcessTypes
  <1>4. ControlTypes'
    BY <1>1 DEF RunInv, ControlTypes, Calls, Guarded
  <1>5. RowsKnowTheirRun'
    <2>1. \A k \in Emails :
            \/ users'[k] = users[k]
            \/ /\ k[1] = run.id /\ k[2] = "journey"
               /\ users'[k].by = runs /\ users'[k].uuid = "own"
      <3>1. UsersTypeOK
        BY DEF RunInv, DataTypes
      <3>2. \A k \in Emails :
              \/ Seeded(run, runs)[k] = users[k]
              \/ /\ k[1] = run.id /\ k[2] = "journey"
                 /\ Seeded(run, runs)[k].by = runs /\ Seeded(run, runs)[k].uuid = "own"
        BY Zenon, <1>1, <3>1, SeededRows
      <3>3. QED
        BY <1>1, <3>2
    <2>2. /\ run \in Config /\ runs > 0 /\ runs \in Int
          /\ \A k \in Emails : users[k] # Null => users[k].by <= runs /\ users[k].by # runs
      BY <1>1 DEF RunInv, RowsKnowTheirRun, Unseeded, NoOwnRows
    <2>3. \A k \in Emails : users'[k] # Null => users'[k].by <= runs
      BY <2>1, <2>2
    <2>4. \A k \in Emails : users'[k] # Null /\ users'[k].by = runs =>
            k[1] = run.id /\ (k[2] = "journey" => users'[k].uuid = "own")
      BY <2>1, <2>2
    <2>5. QED
      BY <1>1, <2>2, <2>3, <2>4 DEF RowsKnowTheirRun, Unseeded
  <1>6. JourneyIsOwn'
    BY <1>1, SeededRows DEF RunInv, JourneyIsOwn, Seeding, Guarded, Ending, DataTypes,
       Conflicts
  <1>7. ChildrenByCall'
    BY <1>1 DEF RunInv, ChildrenByCall, Unseeded, Guarded, Ending, Running
  <1>8. StoppedOrNoted'
    BY <1>1 DEF RunInv, StoppedOrNoted, Unseeded, Guarded, Running
  <1>9. VerifiedBeforeCleaning'
    BY <1>1 DEF RunInv, VerifiedBeforeCleaning, NoOwnRows
  <1>10. CutShape'
    BY <1>1 DEF RunInv, CutShape
  <1>11. EndShape'
    BY <1>1 DEF RunInv, EndShape, NoOwnRows, Running
  <1>12. QED
    BY <1>2, <1>3, <1>4, <1>5, <1>6, <1>7, <1>8, <1>9, <1>10, <1>11 DEF RunInv

\* The data is cleaned.
LEMMA CleanUpKeepsInv ==
  ASSUME RunInv, CleanUp
  PROVE  RunInv'
  <1>1. /\ pc = "clean" /\ pc' = "report"
        /\ users' = Cleaned(run) /\ found' = users
        /\ run \in Config
        /\ UNCHANGED <<temp, proc, children, attended, remaining, failure, uncleaned,
                       status, run, runs, left, signals, cut>>
    BY DEF CleanUp, dataVars, procVars, tellVars, fixed, sigVars, RunInv, DataTypes,
       RowsKnowTheirRun
  <1>2. DataTypes'
    BY <1>1, CleanedRows DEF RunInv, DataTypes, UsersTypeOK
  <1>3. ProcessTypes'
    BY <1>1 DEF RunInv, ProcessTypes
  <1>4. ControlTypes'
    BY <1>1 DEF RunInv, ControlTypes, Calls, Guarded
  <1>5. RowsKnowTheirRun'
    BY <1>1, CleanedRows DEF RunInv, RowsKnowTheirRun, Unseeded, NoOwnRows, DataTypes
  <1>6. JourneyIsOwn'
    BY <1>1, CleanedRows, JourneyIsEmail DEF RunInv, JourneyIsOwn, Seeding, Guarded,
       Ending, DataTypes
  <1>7. ChildrenByCall'
    BY <1>1 DEF RunInv, ChildrenByCall, Unseeded, Guarded, Ending, Running
  <1>8. StoppedOrNoted'
    BY <1>1 DEF RunInv, StoppedOrNoted, Unseeded, Guarded, Running
  <1>9. VerifiedBeforeCleaning'
    BY <1>1, CleanedRows DEF RunInv, VerifiedBeforeCleaning, NoOwnRows, DataTypes,
       RowsKnowTheirRun
  <1>10. CutShape'
    BY <1>1 DEF RunInv, CutShape
  <1>11. EndShape'
    BY <1>1 DEF RunInv, EndShape, NoOwnRows, Running
  <1>12. QED
    BY <1>2, <1>3, <1>4, <1>5, <1>6, <1>7, <1>8, <1>9, <1>10, <1>11 DEF RunInv

\* The cleaning is interrupted.
LEMMA InterruptCleanUpKeepsInv ==
  ASSUME RunInv, InterruptCleanUp
  PROVE  RunInv'
  <1>1. /\ pc = "clean" /\ pc' = "report"
        /\ users' \in {users, Cleaned(run)} /\ cut' = TRUE /\ uncleaned' = TRUE
        /\ run \in Config /\ signals' \in 0 .. MaxSignals
        /\ UNCHANGED <<temp, found, proc, children, attended, remaining, failure, status,
                       run, runs, left>>
    BY SignalsAssumption DEF InterruptCleanUp, dataVars, procVars, tellVars, fixed,
       sigVars, MaySignal,
       RunInv, DataTypes, ControlTypes, RowsKnowTheirRun
  <1>2. DataTypes'
    BY <1>1, CleanedRows DEF RunInv, DataTypes, UsersTypeOK
  <1>3. ProcessTypes'
    BY <1>1 DEF RunInv, ProcessTypes
  <1>4. ControlTypes'
    BY <1>1 DEF RunInv, ControlTypes, Calls, Guarded
  <1>5. RowsKnowTheirRun'
    BY <1>1, CleanedRows DEF RunInv, RowsKnowTheirRun, Unseeded, NoOwnRows, DataTypes
  <1>6. JourneyIsOwn'
    BY <1>1, CleanedRows, JourneyIsEmail DEF RunInv, JourneyIsOwn, Seeding, Guarded,
       Ending, DataTypes
  <1>7. ChildrenByCall'
    BY <1>1 DEF RunInv, ChildrenByCall, Unseeded, Guarded, Ending, Running
  <1>8. StoppedOrNoted'
    BY <1>1 DEF RunInv, StoppedOrNoted, Unseeded, Guarded, Running
  <1>9. VerifiedBeforeCleaning'
    BY <1>1 DEF RunInv, VerifiedBeforeCleaning, NoOwnRows
  <1>10. CutShape'
    BY <1>1 DEF RunInv, CutShape
  <1>11. EndShape'
    BY <1>1 DEF RunInv, EndShape, NoOwnRows, Running
  <1>12. QED
    BY <1>2, <1>3, <1>4, <1>5, <1>6, <1>7, <1>8, <1>9, <1>10, <1>11 DEF RunInv

\* The browser uses the site.
LEMMA BrowseKeepsInv ==
  ASSUME RunInv, BrowseSite
  PROVE  RunInv'
  <1>1. /\ pc # "off" /\ proc["browser"] # "none" /\ Running("backend") /\ pc' = pc
        /\ SignUp(run, runs) \/ \E role \in Roles : UseAccount(run, role)
        /\ run \in Config /\ runs \in 0 .. MaxRuns
        /\ UNCHANGED <<temp, found, proc, children, attended, remaining, failure, uncleaned,
                       status, run, runs, left, signals, cut>>
    BY DEF BrowseSite, dataVars, procVars, tellVars, fixed, sigVars, Running, RunInv,
       DataTypes, RowsKnowTheirRun, JourneyIsOwn
  <1>2. DataTypes'
    BY <1>1, BrowsedRows DEF RunInv, DataTypes, UsersTypeOK
  <1>3. ProcessTypes'
    BY <1>1 DEF RunInv, ProcessTypes
  <1>4. ControlTypes'
    BY <1>1 DEF RunInv, ControlTypes, Calls, Guarded
  <1>5. RowsKnowTheirRun'
    BY <1>1, BrowsedRows DEF RunInv, RowsKnowTheirRun, Unseeded, NoOwnRows, DataTypes,
       ChildrenByCall, Kinds
  <1>6. JourneyIsOwn'
    BY <1>1, BrowsedRows, JourneyIsEmail DEF RunInv, JourneyIsOwn, Seeding, Guarded,
       Ending, DataTypes
  <1>7. ChildrenByCall'
    BY <1>1 DEF RunInv, ChildrenByCall, Unseeded, Guarded, Ending, Running
  <1>8. StoppedOrNoted'
    BY <1>1 DEF RunInv, StoppedOrNoted, Unseeded, Guarded, Running
  <1>9. VerifiedBeforeCleaning'
    BY <1>1, BrowsingKeepsProof DEF RunInv, VerifiedBeforeCleaning, NoOwnRows, DataTypes,
       ChildrenByCall,
       StoppedOrNoted, Kinds, Servers, Ending
  <1>10. CutShape'
    BY <1>1 DEF RunInv, CutShape
  <1>11. EndShape'
    BY <1>1 DEF RunInv, EndShape, NoOwnRows, Running
  <1>12. QED
    BY <1>2, <1>3, <1>4, <1>5, <1>6, <1>7, <1>8, <1>9, <1>10, <1>11 DEF RunInv

\* A run begins.
LEMMA BeginKeepsInv ==
  ASSUME RunInv, BeginRun
  PROVE  RunInv'
  <1>1. /\ pc' = "preflight" /\ runs' = runs + 1 /\ runs' \in 1 .. MaxRuns /\ run' \in Config
        /\ temp' = "empty" /\ left' \subseteq Kinds /\ proc' = [k \in Kinds |-> "none"]
        /\ children' = {} /\ attended' = {} /\ remaining' = {}
        /\ failure' = "none" /\ uncleaned' = FALSE /\ status' = Null
        /\ signals' = 0 /\ cut' = FALSE /\ found' = Null
        /\ UNCHANGED <<users>>
    BY RunsAssumption DEF BeginRun, RunInv, DataTypes, ProcessTypes
  <1>2. DataTypes'
    BY <1>1 DEF RunInv, DataTypes, UsersTypeOK
  <1>3. ProcessTypes'
    BY <1>1 DEF RunInv, ProcessTypes, Servers
  <1>4. ControlTypes'
    <2>1. pc' \in Calls
      BY <1>1 DEF Calls
    <2>2. uncleaned' \in BOOLEAN /\ cut' \in BOOLEAN
      BY Zenon, <1>1
    <2>3. status' \in {Null, 0, 1, CommandStatus, Killed}
      BY Zenon, <1>1
    <2>4. signals' \in 0 .. MaxSignals
      BY <1>1, SignalsAssumption
    <2>5. failure' \in {"none", "command", "stack", "data", "start", "stop", "interrupt"}
      BY <1>1
    <2>6. QED
      BY <2>1, <2>2, <2>3, <2>4, <2>5 DEF ControlTypes
  <1>5. RowsKnowTheirRun'
    BY <1>1 DEF RunInv, RowsKnowTheirRun, Unseeded, NoOwnRows, DataTypes, UsersTypeOK,
       Account
  <1>6. JourneyIsOwn'
    BY <1>1 DEF RunInv, JourneyIsOwn, Seeding, Guarded, Ending, Kinds
  <1>7. ChildrenByCall'
    BY <1>1 DEF RunInv, ChildrenByCall, Unseeded, Guarded, Ending, Running
  <1>8. StoppedOrNoted'
    BY <1>1 DEF RunInv, StoppedOrNoted, Unseeded, Guarded, Running
  <1>9. VerifiedBeforeCleaning'
    BY <1>1 DEF RunInv, VerifiedBeforeCleaning, NoOwnRows
  <1>10. CutShape'
    BY <1>1 DEF RunInv, CutShape
  <1>11. EndShape'
    BY <1>1 DEF RunInv, EndShape, NoOwnRows, Running
  <1>12. QED
    BY <1>2, <1>3, <1>4, <1>5, <1>6, <1>7, <1>8, <1>9, <1>10, <1>11 DEF RunInv

\* The browser's success is seen.
LEMMA BrowserPassedKeepsInv ==
  ASSUME RunInv, BrowserPassed
  PROVE  RunInv'
  <1>1. /\ pc = "browse" /\ pc' = "verify" /\ proc["browser"] = "passed"
        /\ UNCHANGED <<temp, found, proc, children, attended, remaining, failure, uncleaned,
                       status, run, runs, left, signals, cut, users>>
    BY DEF BrowserPassed, dataVars, procVars, tellVars, fixed, sigVars
  <1>2. DataTypes'
    BY <1>1 DEF RunInv, DataTypes, UsersTypeOK
  <1>3. ProcessTypes'
    BY <1>1 DEF RunInv, ProcessTypes
  <1>4. ControlTypes'
    BY <1>1 DEF RunInv, ControlTypes, Calls, Guarded
  <1>5. RowsKnowTheirRun'
    BY <1>1 DEF RunInv, RowsKnowTheirRun, Unseeded, NoOwnRows
  <1>6. JourneyIsOwn'
    BY <1>1 DEF RunInv, JourneyIsOwn, Seeding, Guarded, Ending
  <1>7. ChildrenByCall'
    BY <1>1 DEF RunInv, ChildrenByCall, Unseeded, Guarded, Ending, Running
  <1>8. StoppedOrNoted'
    BY <1>1 DEF RunInv, StoppedOrNoted, Unseeded, Guarded, Running
  <1>9. VerifiedBeforeCleaning'
    BY <1>1 DEF RunInv, VerifiedBeforeCleaning, NoOwnRows
  <1>10. CutShape'
    BY <1>1 DEF RunInv, CutShape
  <1>11. EndShape'
    BY <1>1 DEF RunInv, EndShape, NoOwnRows, Running
  <1>12. QED
    BY <1>2, <1>3, <1>4, <1>5, <1>6, <1>7, <1>8, <1>9, <1>10, <1>11 DEF RunInv

\* The verification finds what the phase demands.
LEMMA VerifyDataKeepsInv ==
  ASSUME RunInv, VerifyData
  PROVE  RunInv'
  <1>1. /\ pc = "verify" /\ pc' = "restore" /\ Proven(users, run)
        /\ UNCHANGED <<temp, found, proc, children, attended, remaining, failure, uncleaned,
                       status, run, runs, left, signals, cut, users>>
    BY DEF VerifyData, dataVars, procVars, tellVars, fixed, sigVars
  <1>2. DataTypes'
    BY <1>1 DEF RunInv, DataTypes, UsersTypeOK
  <1>3. ProcessTypes'
    BY <1>1 DEF RunInv, ProcessTypes
  <1>4. ControlTypes'
    BY <1>1 DEF RunInv, ControlTypes, Calls, Guarded
  <1>5. RowsKnowTheirRun'
    BY <1>1 DEF RunInv, RowsKnowTheirRun, Unseeded, NoOwnRows
  <1>6. JourneyIsOwn'
    BY <1>1 DEF RunInv, JourneyIsOwn, Seeding, Guarded, Ending
  <1>7. ChildrenByCall'
    BY <1>1 DEF RunInv, ChildrenByCall, Unseeded, Guarded, Ending, Running, StoppedOrNoted
  <1>8. StoppedOrNoted'
    BY <1>1 DEF RunInv, StoppedOrNoted, Unseeded, Guarded, Running
  <1>9. VerifiedBeforeCleaning'
    BY <1>1 DEF RunInv, VerifiedBeforeCleaning, NoOwnRows
  <1>10. CutShape'
    BY <1>1 DEF RunInv, CutShape
  <1>11. EndShape'
    BY <1>1 DEF RunInv, EndShape, NoOwnRows, Running
  <1>12. QED
    BY <1>2, <1>3, <1>4, <1>5, <1>6, <1>7, <1>8, <1>9, <1>10, <1>11 DEF RunInv

\* The finally block begins.
LEMMA RestoreKeepsInv ==
  ASSUME RunInv, RestoreHandlers
  PROVE  RunInv'
  <1>1. /\ pc = "restore" /\ pc' = "stop"
        /\ UNCHANGED <<temp, found, proc, children, attended, remaining, failure, uncleaned,
                       status, run, runs, left, signals, cut, users>>
    BY DEF RestoreHandlers, dataVars, procVars, tellVars, fixed, sigVars
  <1>2. DataTypes'
    BY <1>1 DEF RunInv, DataTypes, UsersTypeOK
  <1>3. ProcessTypes'
    BY <1>1 DEF RunInv, ProcessTypes
  <1>4. ControlTypes'
    BY <1>1 DEF RunInv, ControlTypes, Calls, Guarded
  <1>5. RowsKnowTheirRun'
    BY <1>1 DEF RunInv, RowsKnowTheirRun, Unseeded, NoOwnRows
  <1>6. JourneyIsOwn'
    BY <1>1 DEF RunInv, JourneyIsOwn, Seeding, Guarded, Ending
  <1>7. ChildrenByCall'
    BY <1>1 DEF RunInv, ChildrenByCall, Unseeded, Guarded, Ending, Running
  <1>8. StoppedOrNoted'
    BY <1>1 DEF RunInv, StoppedOrNoted, Unseeded, Guarded, Running
  <1>9. VerifiedBeforeCleaning'
    BY <1>1 DEF RunInv, VerifiedBeforeCleaning, NoOwnRows
  <1>10. CutShape'
    BY <1>1 DEF RunInv, CutShape
  <1>11. EndShape'
    BY <1>1 DEF RunInv, EndShape, NoOwnRows, Running
  <1>12. QED
    BY <1>2, <1>3, <1>4, <1>5, <1>6, <1>7, <1>8, <1>9, <1>10, <1>11 DEF RunInv

\* The last child was attended to.
LEMMA StoppedKeepsInv ==
  ASSUME RunInv, Stopped
  PROVE  RunInv'
  <1>1. /\ pc = "stop" /\ pc' = "clean" /\ attended = children
        /\ UNCHANGED <<temp, found, proc, children, attended, remaining, failure, uncleaned,
                       status, run, runs, left, signals, cut, users>>
    BY DEF Stopped, dataVars, procVars, tellVars, fixed, sigVars
  <1>2. DataTypes'
    BY <1>1 DEF RunInv, DataTypes, UsersTypeOK
  <1>3. ProcessTypes'
    BY <1>1 DEF RunInv, ProcessTypes
  <1>4. ControlTypes'
    BY <1>1 DEF RunInv, ControlTypes, Calls, Guarded
  <1>5. RowsKnowTheirRun'
    BY <1>1 DEF RunInv, RowsKnowTheirRun, Unseeded, NoOwnRows
  <1>6. JourneyIsOwn'
    BY <1>1 DEF RunInv, JourneyIsOwn, Seeding, Guarded, Ending
  <1>7. ChildrenByCall'
    BY <1>1 DEF RunInv, ChildrenByCall, Unseeded, Guarded, Ending, Running
  <1>8. StoppedOrNoted'
    BY <1>1 DEF RunInv, StoppedOrNoted, Unseeded, Guarded, Running
  <1>9. VerifiedBeforeCleaning'
    BY <1>1 DEF RunInv, VerifiedBeforeCleaning, NoOwnRows
  <1>10. CutShape'
    BY <1>1 DEF RunInv, CutShape
  <1>11. EndShape'
    BY <1>1 DEF RunInv, EndShape, NoOwnRows, Running
  <1>12. QED
    BY <1>2, <1>3, <1>4, <1>5, <1>6, <1>7, <1>8, <1>9, <1>10, <1>11 DEF RunInv

\* The browser is stopped because a server exited or the time is over.
LEMMA StopBrowserKeepsInv ==
  ASSUME RunInv, StopBrowser
  PROVE  RunInv'
  <1>1. /\ pc = "browse" /\ pc' = "restore" /\ failure' = "stack"
        /\ proc' \in [Kinds -> {"none", "up", "serving", "passed", "failed", "gone"}]
        /\ ~Running("browser")' /\ \A k \in Servers : proc'[k] = proc[k]
        /\ proc'["browser"] # "none" => proc["browser"] # "none"
        /\ UNCHANGED <<temp, found, children, attended, remaining, uncleaned, status, run,
                       runs, left, signals, cut, users>>
    BY DEF StopBrowser, dataVars, procVars, tellVars, fixed, sigVars, Raise, Running, Kinds,
       Servers, RunInv, ProcessTypes
  <1>2. DataTypes'
    BY <1>1 DEF RunInv, DataTypes, UsersTypeOK
  <1>3. ProcessTypes'
    BY <1>1 DEF RunInv, ProcessTypes
  <1>4. ControlTypes'
    BY <1>1 DEF RunInv, ControlTypes, Calls, Guarded
  <1>5. RowsKnowTheirRun'
    BY <1>1 DEF RunInv, RowsKnowTheirRun, Unseeded, NoOwnRows
  <1>6. JourneyIsOwn'
    BY <1>1 DEF RunInv, JourneyIsOwn, Seeding, Guarded, Ending
  <1>7. ChildrenByCall'
    BY <1>1 DEF RunInv, ChildrenByCall, Unseeded, Guarded, Ending, Running
  <1>8. StoppedOrNoted'
    BY <1>1 DEF RunInv, StoppedOrNoted, Unseeded, Guarded, Running, ProcessTypes
  <1>9. VerifiedBeforeCleaning'
    BY <1>1 DEF RunInv, VerifiedBeforeCleaning, NoOwnRows
  <1>10. CutShape'
    BY <1>1 DEF RunInv, CutShape
  <1>11. EndShape'
    BY <1>1 DEF RunInv, EndShape, NoOwnRows, Running
  <1>12. QED
    BY <1>2, <1>3, <1>4, <1>5, <1>6, <1>7, <1>8, <1>9, <1>10, <1>11 DEF RunInv

\* The finally block stops a server.
LEMMA StopChildKeepsInv ==
  ASSUME RunInv, NEW k \in Servers, StopChild(k)
  PROVE  RunInv'
  <1>1. /\ pc = "stop" /\ pc' = pc /\ k \in children
        /\ attended' = attended \cup {k}
        /\ proc' = [proc EXCEPT ![k] = "gone"]
        /\ UNCHANGED <<temp, found, children, remaining, failure, uncleaned, status, run,
                       runs, left, signals, cut, users>>
    BY DEF StopChild, dataVars, procVars, tellVars, fixed, sigVars, NextToStop
  <1>2. DataTypes'
    BY <1>1 DEF RunInv, DataTypes, UsersTypeOK
  <1>3. ProcessTypes'
    BY <1>1 DEF RunInv, ProcessTypes, Kinds, Servers
  <1>4. ControlTypes'
    BY <1>1 DEF RunInv, ControlTypes, Calls, Guarded
  <1>5. RowsKnowTheirRun'
    BY <1>1 DEF RunInv, RowsKnowTheirRun, Unseeded, NoOwnRows
  <1>6. JourneyIsOwn'
    BY <1>1 DEF RunInv, JourneyIsOwn, Seeding, Guarded, Ending, ProcessTypes, Kinds, Servers
  <1>7. ChildrenByCall'
    BY <1>1 DEF RunInv, ChildrenByCall, Unseeded, Guarded, Ending, Running, ProcessTypes,
       Kinds,
       Servers
  <1>8. StoppedOrNoted'
    BY <1>1 DEF RunInv, StoppedOrNoted, Unseeded, Guarded, Running, ProcessTypes, Kinds,
       Servers
  <1>9. VerifiedBeforeCleaning'
    BY <1>1 DEF RunInv, VerifiedBeforeCleaning, NoOwnRows
  <1>10. CutShape'
    BY <1>1 DEF RunInv, CutShape
  <1>11. EndShape'
    BY <1>1 DEF RunInv, EndShape, NoOwnRows, Running
  <1>12. QED
    BY <1>2, <1>3, <1>4, <1>5, <1>6, <1>7, <1>8, <1>9, <1>10, <1>11 DEF RunInv

\* It fails to stop one, or cleanup fails, and notes it.
LEMMA FailToStopKeepsInv ==
  ASSUME RunInv, NEW k \in Servers, FailToStop(k) \/ FailCleanUp
  PROVE  RunInv'
  <1>1. /\ \/ pc = "stop" /\ pc' = pc /\ k \in children /\ attended' = attended \cup {k}
           \/ pc = "clean" /\ pc' = "report" /\ attended' = attended
        /\ uncleaned' = TRUE
        /\ UNCHANGED <<temp, found, proc, children, remaining, failure, status, run, runs,
                       left, signals, cut, users>>
    BY DEF FailToStop, FailCleanUp, dataVars, procVars, tellVars, fixed, sigVars, NextToStop
  <1>2. DataTypes'
    BY <1>1 DEF RunInv, DataTypes, UsersTypeOK
  <1>3. ProcessTypes'
    BY <1>1 DEF RunInv, ProcessTypes
  <1>4. ControlTypes'
    BY <1>1 DEF RunInv, ControlTypes, Calls, Guarded
  <1>5. RowsKnowTheirRun'
    BY <1>1 DEF RunInv, RowsKnowTheirRun, Unseeded, NoOwnRows
  <1>6. JourneyIsOwn'
    BY <1>1 DEF RunInv, JourneyIsOwn, Seeding, Guarded, Ending
  <1>7. ChildrenByCall'
    BY <1>1 DEF RunInv, ChildrenByCall, Unseeded, Guarded, Ending, Running
  <1>8. StoppedOrNoted'
    BY <1>1 DEF RunInv, StoppedOrNoted, Unseeded, Guarded, Running
  <1>9. VerifiedBeforeCleaning'
    BY <1>1 DEF RunInv, VerifiedBeforeCleaning, NoOwnRows
  <1>10. CutShape'
    BY <1>1 DEF RunInv, CutShape
  <1>11. EndShape'
    BY <1>1 DEF RunInv, EndShape, NoOwnRows, Running
  <1>12. QED
    BY <1>2, <1>3, <1>4, <1>5, <1>6, <1>7, <1>8, <1>9, <1>10, <1>11 DEF RunInv

\* A server is seen to serve.
LEMMA CheckReadyKeepsInv ==
  ASSUME RunInv, NEW k \in Servers, CheckReady(k)
  PROVE  RunInv'
  <1>1. /\ pc = "wait" /\ pc' \in {"wait", "open"} /\ remaining' = remaining \ {k}
        /\ UNCHANGED <<temp, found, proc, children, attended, failure, uncleaned, status,
                       run, runs, left, signals, cut, users>>
    BY DEF CheckReady, dataVars, procVars, tellVars, fixed, sigVars
  <1>2. DataTypes'
    BY <1>1 DEF RunInv, DataTypes, UsersTypeOK
  <1>3. ProcessTypes'
    BY <1>1 DEF RunInv, ProcessTypes
  <1>4. ControlTypes'
    BY <1>1 DEF RunInv, ControlTypes, Calls, Guarded
  <1>5. RowsKnowTheirRun'
    BY <1>1 DEF RunInv, RowsKnowTheirRun, Unseeded, NoOwnRows
  <1>6. JourneyIsOwn'
    BY <1>1 DEF RunInv, JourneyIsOwn, Seeding, Guarded, Ending
  <1>7. ChildrenByCall'
    BY <1>1 DEF RunInv, ChildrenByCall, Unseeded, Guarded, Ending, Running
  <1>8. StoppedOrNoted'
    BY <1>1 DEF RunInv, StoppedOrNoted, Unseeded, Guarded, Running
  <1>9. VerifiedBeforeCleaning'
    BY <1>1 DEF RunInv, VerifiedBeforeCleaning, NoOwnRows
  <1>10. CutShape'
    BY <1>1 DEF RunInv, CutShape
  <1>11. EndShape'
    BY <1>1 DEF RunInv, EndShape, NoOwnRows, Running
  <1>12. QED
    BY <1>2, <1>3, <1>4, <1>5, <1>6, <1>7, <1>8, <1>9, <1>10, <1>11 DEF RunInv

\* A child serves or ends by itself.
LEMMA ChildKeepsInv ==
  ASSUME RunInv, NEW k \in Kinds, NEW st \in {"serving", "passed", "failed", "gone"},
         /\ Running(k) /\ proc' = [proc EXCEPT ![k] = st]
         /\ UNCHANGED <<pc, temp, found, children, attended, remaining, failure, uncleaned,
                        status, run, runs, left, signals, cut, users>>
         /\ st = "serving" => k # "browser"
  PROVE  RunInv'
  <1>1. /\ proc'[k] = st /\ \A j \in Kinds \ {k} : proc'[j] = proc[j]
        /\ proc[k] \in {"up", "serving"}
        /\ DOMAIN proc' = Kinds
    BY DEF RunInv, ProcessTypes, Running
  <1>2. DataTypes'
    BY <1>1 DEF RunInv, DataTypes, UsersTypeOK, Kinds, Servers, ProcessTypes
  <1>3. ProcessTypes'
    BY <1>1 DEF RunInv, ProcessTypes, Kinds, Servers
  <1>4. ControlTypes'
    BY <1>1 DEF RunInv, ControlTypes, Calls, Guarded, Kinds, Servers, ProcessTypes
  <1>5. RowsKnowTheirRun'
    BY <1>1 DEF RunInv, RowsKnowTheirRun, Unseeded, NoOwnRows, Kinds, Servers, ProcessTypes
  <1>6. JourneyIsOwn'
    BY <1>1 DEF RunInv, JourneyIsOwn, Seeding, Guarded, Ending, Kinds, Servers, ProcessTypes
  <1>7. ChildrenByCall'
    BY <1>1 DEF RunInv, ChildrenByCall, Unseeded, Guarded, Ending, Running, Kinds, Servers,
       ProcessTypes
  <1>8. StoppedOrNoted'
    BY <1>1 DEF RunInv, StoppedOrNoted, Unseeded, Guarded, Running, Kinds, Servers,
       ProcessTypes
  <1>9. VerifiedBeforeCleaning'
    BY <1>1 DEF RunInv, VerifiedBeforeCleaning, NoOwnRows, Kinds, Servers, ProcessTypes
  <1>10. CutShape'
    BY <1>1 DEF RunInv, CutShape, Kinds, Servers, ProcessTypes
  <1>11. EndShape'
    BY <1>1 DEF RunInv, EndShape, NoOwnRows, Running, Kinds, Servers, ProcessTypes
  <1>12. QED
    BY <1>2, <1>3, <1>4, <1>5, <1>6, <1>7, <1>8, <1>9, <1>10, <1>11 DEF RunInv

\* main's end.
LEMMA ReportKeepsInv ==
  ASSUME RunInv, Report \/ FailToWriteLogs
  PROVE  RunInv'
  <1>1. /\ pc = "report" /\ pc' = "ended" /\ temp' = "none"
        /\ status' \in {0, 1, CommandStatus}
        /\ status' = 0 => failure = "none" /\ ~uncleaned
        /\ UNCHANGED <<found, proc, children, attended, remaining, failure, uncleaned, run,
                       runs, left, signals, cut, users>>
    BY StatusAssumption DEF Report, FailToWriteLogs, dataVars, procVars, tellVars, fixed,
       sigVars, Exit,
       ExitCode
  <1>2. DataTypes'
    BY <1>1 DEF RunInv, DataTypes, UsersTypeOK
  <1>3. ProcessTypes'
    BY <1>1 DEF RunInv, ProcessTypes
  <1>4. ControlTypes'
    BY <1>1 DEF RunInv, ControlTypes, Calls, Guarded
  <1>5. RowsKnowTheirRun'
    BY <1>1 DEF RunInv, RowsKnowTheirRun, Unseeded, NoOwnRows
  <1>6. JourneyIsOwn'
    BY <1>1 DEF RunInv, JourneyIsOwn, Seeding, Guarded, Ending
  <1>7. ChildrenByCall'
    BY <1>1 DEF RunInv, ChildrenByCall, Unseeded, Guarded, Ending, Running
  <1>8. StoppedOrNoted'
    BY <1>1 DEF RunInv, StoppedOrNoted, Unseeded, Guarded, Running
  <1>9. VerifiedBeforeCleaning'
    BY <1>1 DEF RunInv, VerifiedBeforeCleaning, NoOwnRows
  <1>10. CutShape'
    BY <1>1 DEF RunInv, CutShape
  <1>11. EndShape'
    BY <1>1 DEF RunInv, EndShape, NoOwnRows, Running, VerifiedBeforeCleaning, CutShape,
       ChildrenByCall, StoppedOrNoted, Ending, ControlTypes, Kinds, Servers
  <1>12. QED
    BY <1>2, <1>3, <1>4, <1>5, <1>6, <1>7, <1>8, <1>9, <1>10, <1>11 DEF RunInv

\* A signal outside the try block.
LEMMA SignalKeepsInv ==
  ASSUME RunInv, Unwind \/ Kill
  PROVE  RunInv'
  <1>1. /\ pc # "off" /\ pc' = "ended" /\ cut' = TRUE
        /\ temp' \in {"none", temp} /\ status' \in {1, Killed}
        /\ signals' \in 0 .. MaxSignals
        /\ UNCHANGED <<found, proc, children, attended, remaining, failure, uncleaned, run,
                       runs, left, users>>
    BY SignalsAssumption DEF Unwind, Kill, dataVars, procVars, tellVars, fixed, sigVars,
       Exit, MaySignal,
       RunInv, ControlTypes
  <1>2. DataTypes'
    BY <1>1 DEF RunInv, DataTypes, UsersTypeOK
  <1>3. ProcessTypes'
    BY <1>1 DEF RunInv, ProcessTypes
  <1>4. ControlTypes'
    BY <1>1 DEF RunInv, ControlTypes, Calls, Guarded, Killed
  <1>5. RowsKnowTheirRun'
    BY <1>1 DEF RunInv, RowsKnowTheirRun, Unseeded, NoOwnRows
  <1>6. JourneyIsOwn'
    BY <1>1 DEF RunInv, JourneyIsOwn, Seeding, Guarded, Ending
  <1>7. ChildrenByCall'
    BY <1>1 DEF RunInv, ChildrenByCall, Unseeded, Guarded, Ending, Running
  <1>8. StoppedOrNoted'
    BY <1>1 DEF RunInv, StoppedOrNoted, Unseeded, Guarded, Running
  <1>9. VerifiedBeforeCleaning'
    BY <1>1 DEF RunInv, VerifiedBeforeCleaning, NoOwnRows
  <1>10. CutShape'
    BY <1>1 DEF RunInv, CutShape
  <1>11. EndShape'
    BY <1>1 DEF RunInv, EndShape, NoOwnRows, Running, Killed
  <1>12. QED
    BY <1>2, <1>3, <1>4, <1>5, <1>6, <1>7, <1>8, <1>9, <1>10, <1>11 DEF RunInv

\* An empty database, or one with somebody else's account, and no run yet.
LEMMA InitInv == ASSUME Init PROVE RunInv
  <1>1. /\ pc = "off" /\ run = Null /\ runs = 0 /\ temp = "none"
        /\ proc = [k \in Kinds |-> "none"]
        /\ children = {} /\ attended = {} /\ remaining = {} /\ left = {}
        /\ failure = "none" /\ status = Null /\ signals = 0 /\ found = Null
    BY DEF Init
  <1>2. ~uncleaned /\ uncleaned \in BOOLEAN /\ ~cut /\ cut \in BOOLEAN
    BY Zenon DEF Init
  <1>3. UsersTypeOK /\ \A k \in Emails : users[k] # Null => users[k].by = 0
    <2>1. CASE users = [k \in Emails |-> Null]
      BY <2>1 DEF UsersTypeOK
    <2>2. ASSUME NEW i \in RunIds, NEW s \in Specs,
                 users = [k \in Emails |-> IF k = <<i, "journey">>
                   THEN [by |-> 0, uuid |-> "other", spec |-> s, progress |-> "fresh"]
                   ELSE Null]
          PROVE  UsersTypeOK /\ \A k \in Emails : users[k] # Null => users[k].by = 0
      <3>1. [by |-> 0, uuid |-> "other", spec |-> s, progress |-> "fresh"] \in Account
        BY RunsAssumption DEF Account
      <3>2. QED
        BY <2>2, <3>1 DEF UsersTypeOK
    <2>3. QED
      BY <2>1, <2>2 DEF Init
  <1>4. DataTypes
    BY <1>1, <1>3, RunsAssumption DEF DataTypes
  <1>5. ProcessTypes
    BY <1>1 DEF ProcessTypes
  <1>6. ControlTypes
    BY <1>1, <1>2, SignalsAssumption DEF ControlTypes, Calls
  <1>7. RowsKnowTheirRun
    BY <1>1, <1>3 DEF RowsKnowTheirRun, Unseeded
  <1>8. JourneyIsOwn
    BY <1>1 DEF JourneyIsOwn, Seeding, Guarded, Ending, Kinds
  <1>9. ChildrenByCall
    BY <1>1 DEF ChildrenByCall, Unseeded, Guarded, Ending
  <1>10. StoppedOrNoted /\ VerifiedBeforeCleaning /\ CutShape /\ EndShape
    BY <1>1, <1>2 DEF StoppedOrNoted, VerifiedBeforeCleaning, CutShape, EndShape
  <1>11. QED
    BY <1>4, <1>5, <1>6, <1>7, <1>8, <1>9, <1>10 DEF RunInv

\* The steps of the children, which only change what proc says of one of them.
LEMMA ChildrenKeepInv ==
  ASSUME RunInv,
         FinishBrowser \/ \E k \in Servers : Serve(k) \/ Crash(k)
  PROVE  RunInv'
  <1>1. ASSUME NEW k \in Servers, Serve(k) PROVE RunInv'
    <2>1. /\ k \in Kinds /\ k # "browser" /\ Running(k)
          /\ proc' = [proc EXCEPT ![k] = "serving"]
      BY <1>1 DEF Serve, Running, Kinds, Servers
    <2>2. UNCHANGED <<pc, temp, found, children, attended, remaining, failure, uncleaned,
                      status, run, runs, left, signals, cut, users>>
      BY <1>1 DEF Serve, dataVars, tellVars, fixed, sigVars
    <2>3. QED
      BY <2>1, <2>2, ChildKeepsInv
  <1>2. ASSUME NEW k \in Servers, Crash(k) PROVE RunInv'
    <2>1. k \in Kinds /\ Running(k) /\ proc' = [proc EXCEPT ![k] = "gone"]
      BY <1>2 DEF Crash, Kinds, Servers
    <2>2. UNCHANGED <<pc, temp, found, children, attended, remaining, failure, uncleaned,
                      status, run, runs, left, signals, cut, users>>
      BY <1>2 DEF Crash, dataVars, tellVars, fixed, sigVars
    <2>3. QED
      BY <2>1, <2>2, ChildKeepsInv
  <1>3. ASSUME FinishBrowser PROVE RunInv'
    <2>1. PICK s \in {"passed", "failed"} : proc' = [proc EXCEPT !["browser"] = s]
      BY <1>3 DEF FinishBrowser
    <2>2. /\ "browser" \in Kinds /\ Running("browser")
          /\ UNCHANGED <<pc, temp, found, children, attended, remaining, failure, uncleaned,
                         status, run, runs, left, signals, cut, users>>
      BY <1>3 DEF FinishBrowser, dataVars, tellVars, fixed, sigVars, Kinds
    <2>3. s \in {"serving", "passed", "failed", "gone"} /\ s # "serving"
      BY <2>1
    <2>4. QED
      BY <2>1, <2>2, <2>3, ChildKeepsInv
  <1>4. QED
    BY <1>1, <1>2, <1>3

\* Nothing changes.
LEMMA StutterKeepsInv == ASSUME RunInv, UNCHANGED vars PROVE RunInv'
  BY DEF vars, RunInv, DataTypes, UsersTypeOK, ProcessTypes, ControlTypes, RowsKnowTheirRun,
     NoOwnRows, JourneyIsOwn, ChildrenByCall, StoppedOrNoted, Running, VerifiedBeforeCleaning,
     CutShape, EndShape

\* Every action, by the lemma about it.
LEMMA StepKeepsInv == ASSUME RunInv, [Next]_vars PROVE RunInv'
  <1>1. CASE Preflight \/ Prepare \/ WriteManifest \/ InstallHandlers
    BY <1>1, EarlyCallKeepsInv
  <1>2. CASE RefusePreflight \/ FailPrepare \/ RefuseSeed
    BY <1>2, EarlyEndKeepsInv
  <1>3. CASE SeedData
    BY <1>3, SeedKeepsInv
  <1>4. CASE StartServers \/ OpenBrowser
    BY <1>4, SpawnKeepsInv
  <1>5. ASSUME NEW k \in Servers, CheckReady(k) PROVE RunInv'
    BY <1>5, CheckReadyKeepsInv
  <1>6. ASSUME NEW k \in Servers, StopChild(k) PROVE RunInv'
    BY <1>6, StopChildKeepsInv
  <1>7. ASSUME NEW k \in Servers, FailToStop(k) PROVE RunInv'
    BY <1>7, FailToStopKeepsInv
  <1>8. CASE FailCleanUp
    BY <1>8, FailToStopKeepsInv DEF Servers
  <1>9. CASE \/ FailToStart \/ FailReadiness \/ BrowserFailed \/ FailToStopBrowser
             \/ FailVerification \/ Interrupt
    BY <1>9, RaiseKeepsInv
  <1>10. CASE BrowserPassed
    BY <1>10, BrowserPassedKeepsInv
  <1>11. CASE StopBrowser
    BY <1>11, StopBrowserKeepsInv
  <1>12. CASE VerifyData
    BY <1>12, VerifyDataKeepsInv
  <1>13. CASE RestoreHandlers
    BY <1>13, RestoreKeepsInv
  <1>14. CASE Stopped
    BY <1>14, StoppedKeepsInv
  <1>15. CASE CleanUp
    BY <1>15, CleanUpKeepsInv
  <1>16. CASE Report \/ FailToWriteLogs
    BY <1>16, ReportKeepsInv
  <1>17. CASE BeginRun
    BY <1>17, BeginKeepsInv
  <1>18. CASE Unwind \/ Kill
    BY <1>18, SignalKeepsInv
  <1>19. CASE InterruptCleanUp
    BY <1>19, InterruptCleanUpKeepsInv
  <1>20. CASE FinishBrowser \/ \E k \in Servers : Serve(k) \/ Crash(k)
    BY <1>20, ChildrenKeepInv
  <1>21. CASE BrowseSite
    BY <1>21, BrowseKeepsInv
  <1>22. CASE UNCHANGED vars
    BY <1>22, StutterKeepsInv
  <1>23. QED
    BY <1>1, <1>2, <1>3, <1>4, <1>5, <1>6, <1>7, <1>8, <1>9, <1>10, <1>11, <1>12, <1>13, <1>14,
       <1>15, <1>16, <1>17, <1>18, <1>19, <1>20, <1>21, <1>22 DEF Next, Supervise, Environment

\* Every reachable state satisfies the inductive invariant.
THEOREM RunInvariant == Spec => []RunInv
  <1>1. Init => RunInv
    BY InitInv
  <1>2. RunInv /\ [Next]_vars => RunInv'
    BY StepKeepsInv
  <1>3. QED
    BY <1>1, <1>2, PTL DEF Spec

-----------------------------------------------------------------------------
(* The theorems                                                            *)

\* Every variable keeps its type.
THEOREM TypeCorrect == Spec => []TypeOK
  <1>1. RunInv => TypeOK
    BY TypesAreTypeOK DEF RunInv
  <1>2. QED
    BY <1>1, RunInvariant, PTL

\* However many runs, with whatever configurations, failures and signals: a run
\* whose finally block failed in no step and that no signal hit outside run_stack's
\* try block leaves no server it recorded, no account and no temporary directory;
\* its browser runs on only after a signal or a failed attempt to stop it, an
\* unrecorded server only after a signal.
THEOREM NothingIsLeft == Spec => []RunLeavesNothing
  <1>1. RunInv => RunLeavesNothing
    BY DEF RunInv, EndShape, NoOwnRows, RunLeavesNothing, OwnRows
  <1>2. QED
    BY <1>1, RunInvariant, PTL

\* main returns 0 for nothing less than a browser that passed and data that were
\* proven, with everything removed again.
THEOREM SuccessIsTrue == Spec => []ExitTellsTheTruth
  <1>1. ASSUME RunInv, pc = "ended", status = 0
        PROVE  /\ proc["browser"] = "passed"
               /\ Proven(found, run)
               /\ OwnRows = {}
               /\ temp = "none"
               /\ \A k \in Kinds : ~Running(k)
    <2>1. /\ ~cut /\ ~uncleaned /\ failure = "none"
          /\ proc["browser"] = "passed" /\ Proven(found, run)
      BY <1>1 DEF RunInv, EndShape
    <2>2. NoOwnRows /\ temp = "none" /\ \A k \in Kinds : ~Running(k)
      BY <1>1, <2>1 DEF RunInv, EndShape, Kinds
    <2>3. QED
      BY <2>1, <2>2 DEF NoOwnRows, OwnRows
  <1>2. RunInv => ExitTellsTheTruth
    BY <1>1 DEF ExitTellsTheTruth
  <1>3. QED
    BY <1>2, RunInvariant, PTL

\* No run changes an account that is not its own, whichever runs came before it
\* and wherever they were cut off.
THEOREM OthersAreKept == Spec => OnlyOwnRowsChange
  <1>1. ASSUME RunInv, [Next]_vars, run # Null
        PROVE  KeepsOthersRows
    <2>1. /\ UsersTypeOK /\ runs \in 0 .. MaxRuns
          /\ run \in Config
      BY <1>1 DEF RunInv, DataTypes
    <2>2. CASE SeedData
      <3>1. \A k \in Emails : Seeded(run, runs)[k] = users[k] \/ users[k] = Null
        BY Zenon, <2>1, SeededRows
      <3>2. QED
        BY <2>2, <3>1 DEF SeedData, KeepsOthersRows
    <2>3. CASE CleanUp \/ InterruptCleanUp
      BY <2>1, <2>3, CleanedRows DEF CleanUp, InterruptCleanUp, KeepsOthersRows
    <2>4. CASE BrowseSite
      <3>1. /\ proc["browser"] # "none"
            /\ SignUp(run, runs) \/ \E role \in Roles : UseAccount(run, role)
        BY <2>4 DEF BrowseSite
      <3>2. \A k \in Emails : users[k] # Null /\ k[1] # run.id => users'[k] = users[k]
        BY <2>1, <3>1, BrowsedRows
      <3>3. \A k \in Emails : users[k] # Null /\ k[1] = run.id /\ k[2] = "journey" =>
              users[k].uuid # "other"
        BY <1>1, <3>1 DEF RunInv, JourneyIsOwn, Emails, Roles
      <3>4. QED
        BY <3>2, <3>3 DEF KeepsOthersRows
    <2>5. CASE UNCHANGED users
      BY <2>5 DEF KeepsOthersRows
    <2>6. SeedData \/ CleanUp \/ InterruptCleanUp \/ BrowseSite \/ UNCHANGED users
      BY <1>1 DEF Next, Supervise, Environment, vars, dataVars, procVars, BeginRun, Preflight,
         RefusePreflight, Prepare, FailPrepare, WriteManifest, RefuseSeed, InstallHandlers,
         StartServers, Spawn, Record, CheckReady, StopChild, FailToStop, FailToStart,
         FailReadiness, OpenBrowser, BrowserPassed, BrowserFailed, StopBrowser,
         FailToStopBrowser, VerifyData, FailVerification, RestoreHandlers, Stopped, FailCleanUp, Report, FailToWriteLogs, Interrupt, Unwind,
         Kill, Serve, Crash, FinishBrowser
    <2>7. QED
      BY <2>2, <2>3, <2>4, <2>5, <2>6
  <1>2. RunInv /\ [Next]_vars => [run # Null => KeepsOthersRows]_vars
    BY <1>1
  <1>3. QED
    BY <1>2, RunInvariant, PTL DEF Spec, OnlyOwnRowsChange
=============================================================================
