----------------------------- MODULE BrowserRun -----------------------------
(***************************************************************************)
(* The end-to-end supervisor: seed the data, start two servers, wait for   *)
(* them, run a browser against them, verify, stop everything, clean up -   *)
(* while any child may exit, hang or fail and signals arrive at any line.  *)
(*                                                                         *)
(* The supervisor is one sequential process; pc is the call it is in.  Its *)
(* try block reaches from "start" to "verify"; a handler turns SIGINT and  *)
(* SIGTERM into KeyboardInterrupt there.  Outside it SIGTERM kills the     *)
(* supervisor and SIGINT unwinds it.                                       *)
(*                                                                         *)
(* A child is the process Popen returned, the leader of its group.  What a *)
(* leader that exits by itself leaves running of its group is left out:    *)
(* nobody signals the group of a leader that is gone (stop_process).       *)
(***************************************************************************)
EXTENDS E2EData, FiniteSets

CONSTANTS
  CommandStatus,  \* the nonzero exit status of a failing command
  MaxSignals      \* bound: signals sent to one supervisor

\* The status of a process that SIGTERM killed, as a shell shows it.
Killed == 143

ASSUME StatusAssumption == CommandStatus \in Nat \ {0, 1, Killed}
ASSUME SignalsAssumption == MaxSignals \in Nat

VARIABLES
  pc,        \* the call the supervisor is in
  run,       \* its configuration
  runs,      \* how many runs were begun (history)
  temp,      \* its temporary directory: none, empty or with the manifest
  proc,      \* the state of each child
  children,  \* the servers appended to run_stack's list
  attended,  \* those of them the finally block has dealt with
  remaining, \* the readiness checks that have not passed
  failure,   \* the exception that left the try block, or "none"
  uncleaned, \* whether cleanup_failure is set
  status,    \* the exit status of main, or Null
  signals,   \* signals sent to this supervisor
  cut,       \* whether one of them hit outside the try block (history)
  left,      \* kinds of processes of earlier supervisors that still run
  found      \* the users' rows just before cleanup (history)

vars == <<users, pc, run, runs, temp, proc, children, attended, remaining, failure, uncleaned,
          status, signals, cut, left, found>>

Servers == {"backend", "frontend"}
Kinds   == Servers \cup {"browser"}

Guarded == {"start_backend", "record_backend", "start_frontend", "record_frontend",
            "wait", "open", "browse", "verify"}
Calls   == {"off", "preflight", "prepare", "write_manifest", "seed", "install",
            "restore", "stop", "clean", "report", "ended"} \cup Guarded

TypeOK ==
  /\ UsersTypeOK
  /\ pc \in Calls
  /\ run \in Config \cup {Null}
  /\ runs \in 0 .. MaxRuns
  /\ temp \in {"none", "empty", "manifest"}
  /\ proc \in [Kinds -> {"none", "up", "serving", "passed", "failed", "gone"}]
  /\ attended \subseteq children /\ children \subseteq Servers
  /\ remaining \subseteq Servers
  /\ failure \in {"none", "command", "stack", "data", "start", "stop", "interrupt"}
  /\ uncleaned \in BOOLEAN /\ cut \in BOOLEAN
  /\ status \in {Null, 0, 1, CommandStatus, Killed}
  /\ signals \in 0 .. MaxSignals
  /\ left \subseteq Kinds
  /\ found = Null \/ found \in [Emails -> Account \cup {Null}]

Running(k) == proc[k] \in {"up", "serving"}
Exited(k)  == proc[k] \in {"passed", "failed", "gone"}

dataVars == <<users, temp, found>>
procVars == <<proc, children, attended, remaining>>
tellVars == <<failure, uncleaned, status>>
fixed    == <<run, runs, left>>
sigVars  == <<signals, cut>>

\* main returns or raises: the temporary directory is removed.
Exit(code) ==
  /\ pc' = "ended"
  /\ status' = code
  /\ temp' = "none"

\* The body of the try block raises.
Raise(error) ==
  /\ pc' = "restore"
  /\ failure' = error
  /\ UNCHANGED <<uncleaned, status>>

-----------------------------------------------------------------------------
(* Before the try block                                                    *)

\* main: _generated_environment, load_config.
BeginRun ==
  /\ pc \in {"off", "ended"}
  /\ runs < MaxRuns
  /\ runs' = runs + 1
  /\ run' \in Config
  /\ pc' = "preflight"
  /\ temp' = "empty"
  /\ left' = left \cup {k \in Kinds : Running(k)}
  /\ proc' = [k \in Kinds |-> "none"]
  /\ children' = {} /\ attended' = {} /\ remaining' = {}
  /\ failure' = "none" /\ uncleaned' = FALSE /\ status' = Null
  /\ signals' = 0 /\ cut' = FALSE /\ found' = Null
  /\ UNCHANGED users

PortsFree == left \cap Servers = {}

Preflight ==
  /\ pc = "preflight"
  /\ PortsFree
  /\ pc' = "prepare"
  /\ UNCHANGED <<dataVars, procVars, tellVars, fixed, sigVars>>

\* ensure_port_free, or a missing tool.
RefusePreflight ==
  /\ pc = "preflight"
  /\ Exit(1)
  /\ UNCHANGED <<users, found, procVars, failure, uncleaned, fixed, sigVars>>

Prepare ==
  /\ pc = "prepare"
  /\ pc' = "write_manifest"
  /\ UNCHANGED <<dataVars, procVars, tellVars, fixed, sigVars>>

\* Migrations, build or listing exit with a status of their own.
FailPrepare ==
  /\ pc = "prepare"
  /\ Exit(CommandStatus)
  /\ UNCHANGED <<users, found, procVars, failure, uncleaned, fixed, sigVars>>

\* run_setup records the cleanup scope before it touches the database.
WriteManifest ==
  /\ pc = "write_manifest"
  /\ temp' = "manifest"
  /\ pc' = "seed"
  /\ UNCHANGED <<users, found, procVars, tellVars, fixed, sigVars>>

SeedData ==
  /\ pc = "seed"
  /\ ~Conflicts(run)
  /\ users' = Seeded(run, runs)
  /\ pc' = "install"
  /\ UNCHANGED <<temp, found, procVars, tellVars, fixed, sigVars>>

\* A conflict, a wrong migration head or a database error: rolled back, raised.
RefuseSeed ==
  /\ pc = "seed"
  /\ Exit(1)
  /\ UNCHANGED <<users, found, procVars, failure, uncleaned, fixed, sigVars>>

InstallHandlers ==
  /\ pc = "install"
  /\ pc' = "start_backend"
  /\ UNCHANGED <<dataVars, procVars, tellVars, fixed, sigVars>>

-----------------------------------------------------------------------------
(* The try block                                                           *)

Spawn(k, here, next) ==
  /\ pc = here
  /\ proc' = [proc EXCEPT ![k] = "up"]
  /\ pc' = next
  /\ UNCHANGED <<dataVars, children, attended, remaining, tellVars, fixed, sigVars>>

\* children.append(_start_process(...))
Record(k, here, next) ==
  /\ pc = here
  /\ children' = children \cup {k}
  /\ remaining' = Servers
  /\ pc' = next
  /\ UNCHANGED <<dataVars, proc, attended, tellVars, fixed, sigVars>>

StartServers ==
  \/ Spawn("backend", "start_backend", "record_backend")
  \/ Record("backend", "record_backend", "start_frontend")
  \/ Spawn("frontend", "start_frontend", "record_frontend")
  \/ Record("frontend", "record_frontend", "wait")

\* Popen raises: nothing was started.
FailToStart ==
  /\ pc \in {"start_backend", "start_frontend", "open"}
  /\ Raise("start")
  /\ UNCHANGED <<dataVars, procVars, fixed, sigVars>>

CheckReady(k) ==
  /\ pc = "wait"
  /\ k \in remaining /\ proc[k] = "serving"
  /\ remaining' = remaining \ {k}
  /\ pc' = IF remaining' = {} THEN "open" ELSE "wait"
  /\ UNCHANGED <<dataVars, proc, children, attended, tellVars, fixed, sigVars>>

\* wait_for_readiness sees a child's exit, or its deadline passes.
FailReadiness ==
  /\ pc = "wait"
  /\ remaining # {}
  /\ Raise("stack")
  /\ UNCHANGED <<dataVars, procVars, fixed, sigVars>>

OpenBrowser == Spawn("browser", "open", "browse")

\* Mutant: the browser's exit is what counts, not its status.
BrowserEnded ==
  /\ pc = "browse" /\ Exited("browser")
  /\ pc' = "verify"
  /\ UNCHANGED <<dataVars, procVars, tellVars, fixed, sigVars>>

BrowserPassed ==
  /\ pc = "browse" /\ proc["browser"] = "passed"
  /\ pc' = "verify"
  /\ UNCHANGED <<dataVars, procVars, tellVars, fixed, sigVars>>

BrowserFailed ==
  /\ pc = "browse" /\ proc["browser"] = "failed"
  /\ Raise("command")
  /\ UNCHANGED <<dataVars, procVars, fixed, sigVars>>

\* Mutant: the browser is waited for without end.
NoDeadline == FALSE

\* The run's 120 seconds may be over whenever the supervisor looks.
DeadlinePassed == TRUE

\* Mutant: the browser is left to the operating system.
AbandonBrowser ==
  /\ pc = "browse"
  /\ DeadlinePassed \/ \E k \in Servers : Exited(k)
  /\ Raise("stack")
  /\ UNCHANGED <<dataVars, procVars, fixed, sigVars>>

\* A server exited or the deadline passed: stop_process(browser), then raise.
StopBrowser ==
  /\ pc = "browse"
  /\ DeadlinePassed \/ \E k \in Servers : Exited(k)
  /\ proc' = [proc EXCEPT !["browser"] = IF Running("browser") THEN "gone" ELSE @]
  /\ Raise("stack")
  /\ UNCHANGED <<dataVars, children, attended, remaining, fixed, sigVars>>

\* That stop_process raises, as in FailToStop: its error leaves the try block
\* in place of the StackError, and no list holds the browser, which runs on.
FailToStopBrowser ==
  /\ pc = "browse"
  /\ DeadlinePassed \/ \E k \in Servers : Exited(k)
  /\ Running("browser")
  /\ Raise("stop")
  /\ UNCHANGED <<dataVars, procVars, fixed, sigVars>>

VerifyData ==
  /\ pc = "verify"
  /\ Proven(users, run)
  /\ pc' = "restore"
  /\ UNCHANGED <<dataVars, procVars, tellVars, fixed, sigVars>>

\* Not proven, or the database does not answer.
FailVerification ==
  /\ pc = "verify"
  /\ Raise("data")
  /\ UNCHANGED <<dataVars, procVars, fixed, sigVars>>

-----------------------------------------------------------------------------
(* The finally block and the end of main                                   *)

RestoreHandlers ==
  /\ pc = "restore"
  /\ pc' = "stop"
  /\ UNCHANGED <<dataVars, procVars, tellVars, fixed, sigVars>>

\* The child whose turn it is: the last one started.
NextToStop(k) ==
  /\ k \in children \ attended
  /\ k = "frontend" \/ "frontend" \notin children \ attended

\* stop_process; a child that has exited is only reaped.
StopChild(k) ==
  /\ pc = "stop" /\ NextToStop(k)
  /\ attended' = attended \cup {k}
  /\ proc' = [proc EXCEPT ![k] = "gone"]
  /\ UNCHANGED <<dataVars, pc, children, remaining, tellVars, fixed, sigVars>>

\* killpg fails, or the child outlives SIGKILL's grace period.
FailToStop(k) ==
  /\ pc = "stop" /\ NextToStop(k)
  /\ Running(k)
  /\ attended' = attended \cup {k}
  /\ uncleaned' = TRUE
  /\ UNCHANGED <<dataVars, pc, proc, children, remaining, failure, status, fixed, sigVars>>

Stopped ==
  /\ pc = "stop" /\ attended = children
  /\ pc' = "clean"
  /\ UNCHANGED <<dataVars, procVars, tellVars, fixed, sigVars>>

\* run_cleanup
CleanUp ==
  /\ pc = "clean"
  /\ users' = Cleaned(run)
  /\ found' = users
  /\ pc' = "report"
  /\ UNCHANGED <<temp, procVars, tellVars, fixed, sigVars>>

FailCleanUp ==
  /\ pc = "clean"
  /\ uncleaned' = TRUE
  /\ pc' = "report"
  /\ UNCHANGED <<dataVars, procVars, failure, status, fixed, sigVars>>

\* The run's own failure is raised even if the cleanup failed too.
ExitCode ==
  CASE failure = "command"              -> CommandStatus
    [] failure = "none" /\ ~uncleaned   -> 0
    [] OTHER                            -> 1

Report ==
  /\ pc = "report"
  /\ Exit(ExitCode)
  /\ UNCHANGED <<users, found, procVars, failure, uncleaned, fixed, sigVars>>

\* _write_failure_logs raises: its error is the one main's caller sees.
FailToWriteLogs ==
  /\ pc = "report"
  /\ failure # "none" \/ uncleaned
  /\ Exit(1)
  /\ UNCHANGED <<users, found, procVars, failure, uncleaned, fixed, sigVars>>

-----------------------------------------------------------------------------
(* Signals                                                                 *)

MaySignal == /\ pc \notin {"off", "ended"}
             /\ signals < MaxSignals
             /\ signals' = signals + 1

\* handle_signal raises KeyboardInterrupt in the try block.
Interrupt ==
  /\ pc \in Guarded
  /\ MaySignal
  /\ Raise("interrupt")
  /\ UNCHANGED <<dataVars, procVars, fixed, cut>>

\* KeyboardInterrupt where nothing but main catches it.
Unwind ==
  /\ pc \notin Guarded \cup {"clean"}
  /\ MaySignal
  /\ cut' = TRUE
  /\ Exit(1)
  /\ UNCHANGED <<users, found, procVars, failure, uncleaned, fixed>>

\* KeyboardInterrupt while run_cleanup works: one of its failures.  The
\* transaction is rolled back, or was already committed.
InterruptCleanUp ==
  /\ pc = "clean"
  /\ MaySignal
  /\ cut' = TRUE
  /\ users' \in {users, Cleaned(run)}
  /\ uncleaned' = TRUE
  /\ pc' = "report"
  /\ UNCHANGED <<temp, found, procVars, failure, status, fixed>>

\* SIGTERM under its default action: nothing more is executed.
Kill ==
  /\ pc \notin Guarded \cup {"restore"}
  /\ MaySignal
  /\ cut' = TRUE
  /\ pc' = "ended"
  /\ status' = Killed
  /\ UNCHANGED <<dataVars, procVars, failure, uncleaned, fixed>>

-----------------------------------------------------------------------------
(* The children (external)                                                 *)

Serve(k) ==
  /\ proc[k] = "up"
  /\ proc' = [proc EXCEPT ![k] = "serving"]
  /\ UNCHANGED <<dataVars, pc, children, attended, remaining, tellVars, fixed, sigVars>>

Crash(k) ==
  /\ Running(k)
  /\ proc' = [proc EXCEPT ![k] = "gone"]
  /\ UNCHANGED <<dataVars, pc, children, attended, remaining, tellVars, fixed, sigVars>>

FinishBrowser ==
  /\ Running("browser")
  /\ \E s \in {"passed", "failed"} : proc' = [proc EXCEPT !["browser"] = s]
  /\ UNCHANGED <<dataVars, pc, children, attended, remaining, tellVars, fixed, sigVars>>

\* The browser uses the site; also a request that was on its way when it exited.
BrowseSite ==
  /\ proc["browser"] # "none" /\ proc["backend"] = "serving"
  /\ SignUp(run, runs) \/ \E role \in Roles : UseAccount(run, role)
  /\ UNCHANGED <<temp, found, pc, procVars, tellVars, fixed, sigVars>>

-----------------------------------------------------------------------------
\* The database is empty, or somebody's account has a run's e-mail address.
Init ==
  /\ users \in {[k \in Emails |-> Null]} \cup
       {[k \in Emails |-> IF k = <<i, "journey">>
            THEN [by |-> 0, uuid |-> "other", spec |-> s, progress |-> "fresh"]
            ELSE Null] : i \in RunIds, s \in Specs}
  /\ pc = "off" /\ run = Null /\ runs = 0 /\ temp = "none"
  /\ proc = [k \in Kinds |-> "none"]
  /\ children = {} /\ attended = {} /\ remaining = {}
  /\ failure = "none" /\ uncleaned = FALSE /\ status = Null
  /\ signals = 0 /\ cut = FALSE /\ left = {} /\ found = Null

\* What the supervisor does by itself.
Supervise ==
  \/ Preflight \/ RefusePreflight \/ Prepare \/ FailPrepare \/ WriteManifest
  \/ SeedData \/ RefuseSeed \/ InstallHandlers \/ StartServers
  \/ \E k \in Servers : CheckReady(k) \/ StopChild(k) \/ FailToStop(k)
  \/ FailToStart \/ FailReadiness \/ OpenBrowser \/ BrowserPassed \/ BrowserFailed
  \/ StopBrowser \/ FailToStopBrowser \/ VerifyData \/ FailVerification \/ RestoreHandlers \/ Stopped
  \/ CleanUp \/ FailCleanUp \/ Report \/ FailToWriteLogs

Environment ==
  \/ BeginRun \/ Interrupt \/ Unwind \/ InterruptCleanUp \/ Kill
  \/ \E k \in Servers : Serve(k) \/ Crash(k)
  \/ FinishBrowser \/ BrowseSite

Next == Supervise \/ Environment

Spec == Init /\ [][Next]_vars

\* Fairness.  The supervisor runs; its waits have deadlines, so it always has a
\* next step.  Nothing makes a server serve or a browser finish.
FairSpec == Spec /\ WF_vars(Supervise)

-----------------------------------------------------------------------------
(* Properties                                                              *)

OwnRows == {k \in Emails : users[k] # Null /\ users[k].by = runs}

\* However a run ends - success, a failing command, a crashed server, a timeout, a
\* failed verification, a signal in the try block - the servers it recorded are
\* down and its accounts gone; the browser runs on only if a signal ended the try
\* block or stopping it failed, and a server that was not recorded only if a
\* signal did; provided that no signal hit outside the try block and no step of
\* the finally block failed.  (check_e2e_residue.main looks for the same things.)
RunLeavesNothing ==
  pc = "ended" /\ ~cut /\ ~uncleaned =>
    /\ \A k \in children : ~Running(k)
    /\ Running("browser") => failure \in {"interrupt", "stop"}
    /\ \A k \in Servers \ children : Running(k) => failure = "interrupt"
    /\ OwnRows = {}
    /\ temp = "none"

\* Exit status 0 means that the browser passed, that what its phase demands was in
\* the database when the data was cleaned, and that nothing is left.
ExitTellsTheTruth ==
  pc = "ended" /\ status = 0 =>
    /\ proc["browser"] = "passed"
    /\ Proven(found, run)
    /\ OwnRows = {}
    /\ temp = "none"
    /\ \A k \in Kinds : ~Running(k)

\* No step changes an account of another run, or one whose e-mail address is the
\* run's but whose key is not.
KeepsOthersRows ==
  \A k \in Emails :
    users[k] # Null /\ (k[1] # run.id \/ (k[2] = "journey" /\ users[k].uuid = "other")) =>
      users'[k] = users[k]

OnlyOwnRowsChange == [][run # Null => KeepsOthersRows]_vars

\* Once it has handlers to restore, a run ends, even if its servers never become
\* ready and its browser never exits.
EveryRunEnds == pc \in Guarded ~> pc = "ended"

\* run_stack's docstring: "always stop children and clean run-owned data" - here
\* only for runs that had recorded both servers, whose every attempt to stop a
\* child and to clean up worked, and that no signal hit outside the try block.
AlwaysStopsChildren ==
  pc = "ended" /\ ~cut /\ ~uncleaned /\ failure # "stop" /\ children = Servers =>
    \A k \in Kinds : ~Running(k)
=============================================================================
