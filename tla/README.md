# Penny Saved: specifications, model checks and proofs

Penny Saved records impulse purchases: a user enters what they feel like
buying, waits 48 hours, checks in ("saved" or "purchased") and sees what the
money saved would have paid for. The backend is FastAPI with async SQLAlchemy
over PostgreSQL (`backend/app`), the client is React with TanStack Query
(`frontend/src`), and a few scripts operate it (`operations/`, `scripts/`).

This directory holds TLA+ modules that model the program, TLC configurations
that check them on small instances, and TLAPS proofs of their main results for
every value of the constants. `PROJECT.json` lists components, runs, theorems,
hazards, the mutated definitions that show each property can fail, and the
source lines behind every definition.

    tlc -workers 2 -config EntryRaces.cfg MCEntryService.tla     # a run
    tlapm EntryService_proofs.tla                                # the proofs

## 1. Inventory

| Component | State | Operations | Hard behaviour | What makes it correct |
|---|---|---|---|---|
| **Entry API** (`services/entries.py`, `repositories/entries.py`) | table `impulse_purchase_entries`; row locks; the ORM entity of each request | create, list, detail, update, delete, check-in, edit comment | requests interleave at each `await`; `SELECT ... FOR UPDATE`; a second query after a miss; failures and cancellations at any await; lost commit acknowledgements; a wall clock read at different moments | no lost update, one check-in wins, nothing is resolved early, history is not rewritten, refusals are true, everybody is answered |
| **Accounts and sessions** (`services/auth.py`, `services/sessions.py`) | tables `users`, `sessions`; uncommitted inserts; cookies in browsers | signup, login (with rehash), session resolution with expiry and activity writes, logout | read-then-insert races settled by unique constraints; savepoint retries of token collisions; activity writes racing deletion | one account per address, account and session appear together, a cookie opens its own account, refused tokens stay refused, lifetime is absolute |
| **Authentication rate limit** (`core/rate_limits.py`, `api/dependencies.py`) | table `rate_limit_counters` | one attempt consumes two counters concurrently; each transaction sweeps old rows, then upserts | row locks and deadlocks between sweepers; clock readings older than the commit; one of two calls failing | no number given twice, none admitted over a limit, sweeping invisible, an honest `Retry-After` |
| **Opportunity costs** (`services/opportunity_costs.py`, `repositories/opportunity_costs.py`) | table `opportunity_cost_examples`, row locks, the loaded entity | create, list, update, delete | as entries, without statuses; a flush writes only the columns that differ from the loaded row | truthful refusals, no update lost or mixed with another |
| **Statistics** (`services/statistics.py`) | none (reads) | summary over a calendar interval, equivalents | two statements see two snapshots while entries and examples change; check-in times older than their commit; month arithmetic with clamped days; decimal rounding | totals are those of one set of entries, intervals are the calendar's, equivalents are nearest, only the user's own examples |
| **Client cache** (`frontend/src/features/*/queries.ts`, `sessionExpiry.ts`, `AccountControl.tsx`, `AuthForm.tsx`, the route guards) | query cache, session-expiry flag, in-flight requests, the route | queries, mutations, logout, expiry, login | answers late, lost and out of order; sessions that end; logout, expiry and login crossing them | an answered change is shown, nothing of an ended session comes back, a signed-out tab stays so |
| **End-to-end stack** (`scripts/e2e_stack.py`) | child processes, run-owned data, signal handlers | setup, start, poll, stop, clean up | exits, hangs and signals in any order; cleanup steps that fail | children stopped and data cleaned, the exit status true, the run ends |
| **End-to-end data** (`backend/app/scripts/e2e_data.py`) | a run's accounts and what cascades from them | setup, verification, cleanup | rows of killed runs and of others under the run's names | no other account is touched |
| **Process lifecycle** (`db/session.py`, `api/routes/health.py`) | dependency state, engine, readiness gauge | startup, shutdown, readiness probe | none that the started server can show (section 7) | the gauge says what the process can do |
| **Release** (`operations/update.sh`, the restore rehearsal) | release directories, `current`/`.next` links, schema revision, backups | build, validate, back up, migrate, activate, restart, health wait | interrupted at any line and run again | a retry is refused or can succeed |
| HTTP boundary, configuration, logging, metrics, migrations, demo data, pages and styles | none that evolves, or a lock around single statements | | | see section 7 |

Interactions. Every handler depends on `get_db_session`, which rolls back
whatever is open when the request ends. Signup and login pass through the rate
limit, whose transactions are their own. Entries, examples and statistics
depend on session resolution for the user. Statistics reads entries and
examples. The client turns a 401 of any of them into a session expiry, except
that of `/auth/me`, which it turns into "nobody is signed in". The stack
supervisor starts the backend and the frontend against a database that the data
script fills, verifies and empties.

## 2. Modules

| Module | What it is |
|---|---|
| `EntryLifecycle` | abstract: what the entry API promises, each operation one step |
| `EntryService`, `EntryService_proofs` | the seven handlers as interleaved transactions; implements `EntryLifecycle` |
| `Accounts` | abstract: accounts and live sessions, each operation one step |
| `SessionService`, `SessionService_proofs` | signup, login, resolution and logout as interleaved transactions; implements `Accounts` |
| `FixedWindow` | abstract: the in-memory reference store of the rate limit |
| `RateLimit`, `RateLimit_proofs` | attempts, their two concurrent calls, sweeping and upserting transactions; implements `FixedWindow` |
| `ExampleService`, `ExampleService_proofs` | the four opportunity-cost handlers as interleaved transactions |
| `CalendarRanges`, `CalendarRanges_proofs` | the statistics' calendar arithmetic as pure functions, with a reference definition |
| `StatisticsService`, `StatisticsService_proofs` | the summary, composed with `ExampleService` (shared variables) and `EntryLifecycle` (instance) |
| `E2EData` | the data of a browser-test run: seeding, verification, cleanup |
| `BrowserRun`, `BrowserRun_proofs` | the stack supervisor with its children and signals, over `E2EData` |
| `ClientCache`, `ClientCache_proofs` | one browser tab: its cache, its requests, its sessions |
| `MC...` | symmetry sets and value definitions for TLC |

### How state and actions correspond to the code

A *step* of a handler is everything between two awaits: Python runs it without
interruption, and what the database does in one statement is one step too. A
request's place (`pc`) is the await at which it is suspended. The database is
READ COMMITTED, the engine's default: a plain SELECT sees the rows committed
when it runs; `FOR UPDATE`, `INSERT ... ON CONFLICT` and unique keys wait for
the transaction in the way; COMMIT and ROLLBACK release everything.

**EntryService.** `table` is the committed table, `locks` the row locks,
`mem` the entity a handler holds, `now` its clock reading. `GetEntryForUpdate`
is the repository function of that name; `RefuseStatus`, `RefuseEarly` and
`StageChange` are the code between the lock and the commit of update, delete,
check-in and comment; `Commit`/`RefuseFlush` the flush with the table's CHECK
constraints; `Respond` the response built from the entity after the commit.
`MissEntry` and `RaiseEntryAccessError` are the two queries behind a 403 or a
404. `Fail` is every `except BaseException: rollback; raise` and
`get_db_session`'s cleanup; `Abort` raises at any await before the commit,
`LoseAnswer` after it. `born`, `invited` and `heard` are history. As an ORM
flush writes only the assigned columns, `Flushed` applies them to the *stored*
row; that this makes no difference is `LockedCopyIsCurrent`, which also says that
the clock was read under the lock and not before it.

**SessionService.** `users` and `sessions` are the committed tables and
`userWrite` the uncommitted write of a user row (a signup's INSERT, a login's
rehash). `AcceptCredentials` reads the clock, `WriteUser`/`LoseEmailRace` are
the flush of the user row against `uq_users_email`, `InsertSession`,
`RetryToken` and `GiveUpTokens` the savepoint loop around the session's INSERT,
`CommitCredentials` the single commit of both. `FindSession` and
`MissSession` look a token up; `DeleteExpiredSession`, `TouchSession` and
`RevokeSession` write by primary key the row that was read without a lock,
which may be gone by then (`TouchMissingSession`: the ORM's stale-data error).
`issued`, `known`, `refused`, `hopeless` are history.

**RateLimit.** `counters` is the committed table, `owner` the transaction that
holds each row. `Begin` reads the clock once and starts the two gathered calls;
`SweepRow` is the DELETE reaching one row, `Upsert` the INSERT ... ON CONFLICT
with its CASE expressions (`Counted`), `TakeEffect` the commit, `Fail` the
rollback. `Admit`, `Throttle` and `FailAttempt` are what `asyncio.gather` makes
of the two calls. `buried` (history) is the last swept counter of each key.
Signup and login have disjoint buckets, so one of them is modelled.

**ExampleService and StatisticsService.** `examples`, `locks` and `loaded` are
the table, its row locks and each handler's entity; `Flushed` writes the
columns in which the request differs from `loaded`, as the ORM's UPDATE does. A
summary is `ReadSummaryClock`, `AggregateStatistics` (one SELECT over the
entries) and `ListSummaryExamples` (another over the examples). Around it
`ChangeExamples` is any step of `ExampleService`, and `ChangeEntry` an edit,
deletion or check-in of `EntryLifecycle`, whose check-in time the handler read
up to `CommitDelay` clock steps before the commit. `CalendarRanges` has
`_subtract_calendar_months` and `statistics_interval_for` next to a
definition of the calendar's ranges that uses neither. Timestamps of examples
are left out. Decimals: a total divided by a value is rounded twice in the code
(28 digits, then tenths); for the ranges the columns allow, the first rounding
cannot move a result across a tenth, so `Equivalent` rounds once.

**E2EData and BrowserRun.** `pc` is the call the supervisor is in, from
`main`'s configuration to its exit status; `Guarded` are the calls inside
`run_stack`'s try block, where a signal is a `KeyboardInterrupt` (`Interrupt`).
Elsewhere SIGTERM kills (`Kill`) and SIGINT unwinds (`Unwind`,
`InterruptCleanUp`). `proc` is the state of each child, the process that Popen
returned and the leader of its group; `children` is the list that `run_stack`'s
finally block stops. Popen and `children.append` are two steps (`Spawn`,
`Record`), and Popen may raise (`FailToStart`); the browser is never appended.
`stop_process` may raise wherever it is called: killpg fails, or the child outlives
SIGKILL's grace period. For a server that is `FailToStop`, which the finally block
collects; for the browser it is `FailToStopBrowser`, which leaves the try block
and the browser running. `users` maps each e-mail address of the run to an account row, which
stands for itself and all that cascades from it: `Conflicts`, `Seeded`,
`Proven` and `Cleaned` are what the data script's transactions test and
write. The children are external: they may serve, crash, finish or hang.

**ClientCache.** `cache` holds for each query key which session's data it is,
at which version, whether it is invalidated, and whether a query or a
mutation's answer wrote it; `fetch`, `change`, `login` and `logout` are the
requests in flight, each with the session whose cookie it carried. `Touched` and
`Written` are the `onSuccess` handlers: what they invalidate, and which of them
write the answer under the detail key. `Promised` is not the code but the frontend
plan: the views that a change is to reach; `told` (history) holds what each
answered change thereby told the tab of the views it held. `ReportExpiry` is `reportSessionExpiry`
with the coordinator's listener, `LogoutAnswered` the finally block of
`handleLogout`, `LoginAnswered` the `submit` of the form, `MeAnswered` the
guards around `/auth/me`. `Render` aborts the query of a view that is left and
starts that of one that is entered. TanStack Query is external and modelled
from its use: `clear` cancels queries and not mutations, an invalidation
restarts observed queries unless they load for the first time, leaving a
view aborts its query. A 401 is decided when it is delivered (a session that
has ended stays ended, so this is the same), and a failure of the network may
happen on the way there or back.

## 3. Runs

| Run | Question | Properties |
|---|---|---|
| `entry_races` | two users' requests on one entry, failing anywhere, against the atomic lifecycle | `TypeOK`, `LockedCopyIsCurrent`, `ConfirmedCheckInIsDurable`, `SingleCheckInWinner`, `RefusalsStayTrue`, `NoWaitCycle`, `InvitationIsHonoured`, `ImplementsLifecycle` |
| `entry_clock` | a clock that is set back between any two steps; waiting for locks | `NoEarlyResolution`, `StagedWriteIsAccepted`, `ResolvedIsHistory`, `EveryRequestIsAnswered` |
| `signup_races` | concurrent signups, logins and logouts of two addresses | `OneAccountPerEmail`, `CookieOpensOwnAccount`, `ImplementsAccounts`, `EveryRequestIsAnswered` |
| `session_expiry` | expiry, activity writes and logout of one session, with a clock set back | `TypeOK`, `RefusedStaysRefused`, `SessionTimesAreSane` |
| `session_throttle` | a documented promise that the code does not keep (section 6) | `LastUsedIsThrottled` (violated) |
| `rate_limit` | concurrent attempts of seconds made of ticks, a lagging clock; sweeping, waiting and deadlocking transactions, lost commits | `TypeOK`, `AdmittedWithinLimits`, `RetryAfterIsHonest`, `ImplementsFixedWindow`, `EveryAttemptIsAnswered` |
| `money_races` | a summary while an entry is checked in and examples are created, updated and deleted | `TypeOK`, `RefusalsStayTrue`, `NoWaitCycle`, `SummaryIsExact`, `EquivalentsAreNearest`, `ShownExamplesAreCurrent`, `UpdatesAreWhole` |
| `browser_run` | two supervisors one after the other; crashes, hangs, failures, a signal anywhere | `TypeOK`, `RunLeavesNothing`, `ExitTellsTheTruth`, `OnlyOwnRowsChange`, `EveryRunEnds` |
| `browser_interrupted` | a documented promise that the code does not keep (section 6) | `AlwaysStopsChildren` (violated) |
| `client_cache` | two sessions of one tab and a change in flight across them | `TypeOK`, `AnsweredChangeIsShown`, `EndedSessionIsForgotten`, `SignedOutStaysOut` |
| `client_detail` | a documented promise that the code does not keep (section 6) | `AnsweredChangeReachesEveryView` (violated) |
| `client_logout` | a documented promise that the code does not keep (section 6) | `GuestHoldsNoPrivateData` (violated) |

### Bounds, and why they are enough

Clocks are bounded (`MaxClock`, or the sequence `Instants`) and sets of actors finite.

* Entries: one entry, two slots that handle request after request. The rows of
  the table do not interact: no handler touches two, and the list reads each
  by itself. Two slots give every pairwise race; two users give 403; two details tell an
  edit from its absence; a wait of one tick with two ticks of clock gives
  before, at and after the deadline. A slot starts again after its answer, so
  sequences are not bounded, except that an id is issued once. `entry_clock` has
  one user, one value of the details and no comments: its questions are about
  the order of clock readings and about waiting, which do not depend on them.
* Sessions: the clock runs to `SessionTtl` + 2 in `session_expiry`, and three
  slots let two activity writes race a deletion there. `Operations` names the
  requests a run asks for, `Tokens` bounds the number of sessions.
  `Admissible` keeps a token in reserve for every request that may still draw
  one. Two transactions that draw the *same* new token at the same moment are
  left out (256 random bits); a draw of an existing one is modelled. `signup_races`
  has two addresses and two passwords, so that a session of the wrong account
  could be told from one of the right account.
* Rate limit: two attempts (four calls) for one address and one account, limits of
  one, and counters already open at the start with their numbers used up or
  not. A second has two ticks, so that rounding shows, and a window one second.
  The retention is as long as the lag, one tick, the extreme that the assumption allows. Of
  the windows open at the start one ends at once, so that it is soon swept, and one
  blocks to the end: sweeps, waiting, deadlocks and late readings all
  happen in the one instance.
* Money: one example, one entry, one summary slot and two example slots, of which two are
  in flight at once (`MaxInFlight`). The instants are a leap day and two
  positions of the 31st of May: "the last three months" of the last starts, by
  clamping, exactly at the first. Price 5 over value 100 is half a tenth, over
  value 3 it is not. `MCStatisticsService` also has TLC compare the month
  arithmetic with the reference for every date of four years and every range.
  Entries start out created and waiting: no summary sees them before that.
* Browser: one row per (run id, role), two ids so that the next run may have the same
  or another one, two phases, one signal per run. Nothing in a third run depends on more
  than what the second left.
* Client: one user, the two keys that different pages show and that different
  changes touch, one change, two sessions. A second user adds no behaviour that
  the properties tell apart from a second session of one user, since data is
  versioned per account and `cache` records the session; `client_logout` has two
  users, and both it and `client_detail` have every key, page and kind of change. Two changes at once with two
  sessions are beyond TLC and left to the proof.

`CHECK_DEADLOCK FALSE` appears where a behaviour really ends: the tokens of
`signup_races`, the attempts of `rate_limit` and the runs of the
supervisor are used up. Symmetry is used in runs without liveness properties only.

### Fairness, and why the code justifies it

* *Weak fairness of each handler's steps* (`Step(r)`, `Answer(a)`): the event
  loop resumes every coroutine whose database call has returned. No request has
  to arrive, fail or be cancelled.
* *Strong fairness of the steps that wait for a row* (`GetEntryForUpdate`,
  `WriteUser`/`LoseEmailRace`): a row lock may be taken by others
  again and again, but PostgreSQL grants it in the order of arrival. In `RateLimit`
  weak fairness of each call (`Consume`) is enough, because there are finitely many
  attempts.
* *Weak fairness of `\E c : Deadlocked(c) /\ Fail(c)`* in `RateLimit`: PostgreSQL's
  deadlock detector aborts some transaction of every ring. Rings are reachable:
  each transaction holds the rows it has swept while it waits for the next
  row. The DELETE's row order is unspecified, so any order is modelled. Without
  this conjunct `EveryAttemptIsAnswered` fails.
* *Weak fairness of `Supervise`* in `BrowserRun`: the supervisor is one process,
  and each of its waits for a child has a deadline (`FailReadiness`, `StopBrowser`,
  `FailToStopBrowser`, `FailToStop`), so it always has a next step. The database calls of seeding,
  verification and cleanup have no deadline in the code; that they return, with or
  without an error, is assumed. Nothing is assumed of the
  children, of signals or of the user who starts the next run.
* `StatisticsService` and `ClientCache` state no fairness: no liveness is claimed
  for a summary (two reads that wait for nothing) or for a tab (requests may be lost).

## 4. What the checks show

* **Entries.** Row locks held to the commit make every mutation act on the row
  it validated, and while the clock does not step back at an instant no earlier
  than the row's last change. Of two check-ins one wins and its confirmation is durable. The
  second query of the 403/404 decision can see a different database state than
  the first, but never one that makes the answer false. The dashboard's
  `created + 48h <= now` and the handler's `now < created + 48h` are exact
  complements, so an offered check-in is not refused while the clock does not
  step back. If it does, the wait is still kept and no stored history changes,
  and the CHECK constraints refuse no creation, deletion or check-in; only an
  edit made before the entry's own creation instant ends as a 500. A handler locks
  one row and gives it up with its transaction, so who waits for a row waits for
  somebody at work on it, never for one who waits in turn.
* **Sessions.** The unique constraints settle the signup race, and the single
  commit makes account and first session appear together. A token that was
  refused stays refused although activity writes use the row they read
  earlier: an UPDATE never brings a deleted row back.
* **Rate limit.** The upsert's row lock gives each call its own number. A sweep
  cannot take a counter that a call with an older reading still counts in,
  provided the reading lags by no more than the retention. `Retry-After`
  outlasts every window that blocked the attempt, and not by a whole second.
* **Opportunity costs and statistics.** Because the locking lookup reloads the row,
  an UPDATE of only the changed columns never mixes two updates. A
  summary's sums and counts are those of one set of entries, which holds all that were
  resolved in the range before it was asked, although the entries change
  between its steps; its examples may be newer than its totals, and each
  equivalent is right for the total of the same answer. The clamped month
  arithmetic is the calendar's. Across a month's last days the start of an
  interval can move back by hours while its date stays (29 February at noon
  is three months before both 29 May at noon and 31 May at noon).
* **Stack supervisor.** Whatever child crashes or hangs, a run ends, and unless
  a signal hit outside the try block or a cleanup step failed it leaves neither
  a server it recorded nor a row. The browser outlives it only after a signal in the
  try block (a finding) or when stopping it failed, and a server between Popen and
  append only after a signal. Exit status 0 is never wrong. No run
  changes an account that is not its own, a killed predecessor's included. What a
  kill outside the try block leaves stays until somebody looks (`cut`,
  `left`), and the next run refuses a busy port or conflicting data.
* **Client.** Whenever a change has been answered, what a view still holds of the
  time before it is marked to be read again, in whatever order queries and
  changes are answered: every view that the plan promises, except `detail` after a
  check-in or a comment, which is the finding `client_detail`. A view in its first load holds
  nothing yet, so there is nothing to mark. Nothing read under a session that
  the tab saw end comes back, and no late answer signs the tab in again.

One behaviour of the client is wrong without contradicting a document, so it is
listed as a hazard and not in a run: a 401 of a mutation sent under the previous session
signs out the next one (`sessionExpiry.ts:39`).

## 5. What is proved

All proofs hold for every value of the constants that meets the named ASSUMEs.

**`EntryService_proofs`** (assumes a positive wait and that `Null` is apart
from the data). `InvariantHolds` proves the inductive invariant `IInv` and
the theorems read the properties off it: `TypeCorrect`, `NoLostUpdate`, `WaitIsKept`,
`CheckInIsDurable`, `OneCheckInWins`, `RefusalsAreTruthful`, `StagedWritesAreAccepted`,
`InvitationsAreHonoured`, `WaitsDoNotChain`, and `HistoryIsKept` and
`ServiceImplementsLifecycle` for its steps. The properties are not
inductive by themselves; `IInv` adds

* `HandlerShape`: what a handler has at hand at each place;
* `HoldsItsLock`: a mutation past its read holds its row's lock. With it a commit
  of another request cannot touch the row, which is why the copy stays
  current;
* `StagedChangeIsLegal`: what was validated still holds of the stored row when
  the change is flushed, which gives early resolution and history;
* `IdsAreTaken` and `NewIdsAreFresh`: an id is used by one creation and never again, so
  "not found" is final and a row never changes owner;
* `MissesStayMisses`: after a miss the row can only be absent or another's;
* `CopyIsStored` and `ReadingFollowsRow`, the two parts of `LockedCopyIsCurrent`: the
  copy in memory is the stored row, and while the clock does not step back the
  reading that validates and stamps a change is no earlier than the row's `updated_at`;
* `ReadingsArePast`: while the clock does not step back no reading, no creation
  time and no `updated_at` is in the future, and a staged change was stamped after its row's creation,
  so the CHECK constraints accept it. With a clock set back this is lost for edits,
  and `StagedChangeIsLegal` still gives it for check-ins;
* `AnswersKnowTheirRow`, `InvitationsStand` and `HeardIsInvited`: an answer built from
  memory after the commit shows a row of the stored row's age, so an entry shown
  as ready for check-in is old enough now, and at every later reading, in
  particular at that of the check-in which follows;
* `LocksAreHeld`: the converse of `HoldsItsLock`. A locked row's holder is at work on
  that row, so it is not waiting, and a request holds no second row.

Only `Commit` writes the table (`OnlyCommitWrites`), so each property needs
one real case (`CommitEffect`, `CommitSparesLockedRows`), and the refinement maps each
commit to the abstract operation of its request and every other step to a stutter.

**`SessionService_proofs`** (assumes positive lifetimes and attempts, and that
`Null` is apart from the data). `SessionInvariant` proves `SessionInv`; from it follow
`TypeCorrect`, `AddressesAreUnique`, `CookiesAreOwn`, `TimesAreSane`,
`RefusalsLast`, `WritersDoNotChain` and `Refinement` (of `Accounts`). The invariant adds to the properties

* `Placed`: what a request has at hand at each place;
* `CopyIsCurrent`: the password a handler has seen is still the account's;
  `HoldsItsRow`: who has written a user row holds it until its transaction
  ends, and the address of an uncommitted signup stays free, so of two signups one
  commits (`OneSignupPerEmail`);
* `TokensAreOwn`: a token belongs to the one request that drew it, its session
  exists only from that request's commit, and a client has it only after that;
* `SessionCopy`: a session read without a lock agrees with the stored row in all
  but `last_used_at`, or the row is gone. This is what makes the unlocked
  activity write harmless;
* `RefusedAreGone` and `HopelessIsRefused`: a refused token names no row, and a
  request that was sent with a token no longer good will find no row or an
  expired one wherever it is.

`WritersDoNotChain` needs one part more (`RowsAreInHand`): a user row that somebody has
written and not committed is in the hands of a request between its write and its
commit, which waits for no user row.

Only the commit of credentials, a touch, and the two deletions write the tables;
the refinement maps these to the abstract operations and the rest to stutters.

**`RateLimit_proofs`** (assumes positive limits and window, disjoint addresses
and accounts, and `LagAssumption`: no attempt is in progress, and no clock set
back, for as long as `_STALE_RETENTION`, a day). `TypeCorrect`, `LimitsHold` and
`StoreImplementsFixedWindow`, and `RetryAfterKeepsItsWord`. The argument: a running call's reading is within
`Lag` of the latest reading (`ReadingsAreRecent`), a swept row ended more than
the retention before the latest reading (`BuriedIsOver`), so the call would have
started a new window on the swept row just as it does on none
(`SweepingIsInvisible`). A staged row is `Counted` of the committed one
(`StagedIsNext`, by the row lock, `RowsAreHeldForAReason`), hence greater than
every number given out (`NumbersAreUsed`), hence nobody's (`NumbersGrow`). For
Retry-After: a call is counted in a window that was open at its reading
(`WindowsHoldTheirReadings`), and the answer is the longest delay of those that
blocked (`ToldTheLongestDelay`), rounded up to seconds. So a reading at or after
the instant announced lies behind the end of each window that blocked.

**`ExampleService_proofs`**. `ExamplesTypeCorrect`, `RefusalsAreFinal`,
`UpdatesStoreTheirAnswers`, `WaitsDoNotChain`, by `ExamplesInv`: as for entries, from the locking
lookup to the commit the row is locked, owned and equal to `loaded`
(`HeldRowIsCurrent`), so writing the columns that differ from `loaded` writes
the whole request; and ids are used once, so a 404 is final. `LocksAreHeld`, as for
entries, is inductive beside it.

**`CalendarRanges_proofs`**. `IntervalsAreTheRanges`: for every valid instant
and range the interval of the code contains exactly the instants the reference
covers; `RangesAreNested`: a longer range covers all that a shorter one does,
clamped days included. The heart is that the zero-based month index with
`\div` and `%` names the month the reference chooses, and that the clamped day is
its latest.

**`StatisticsService_proofs`**. `CompositionRunsExamples`: the composition's
steps are steps of `ExampleService` or leave it alone, so
`RefusalsAreFinalBesideSummaries`, `UpdatesStoreTheirAnswersBesideSummaries` and
`WaitsDoNotChainBesideSummaries` follow from its own theorems;
`EntriesFollowTheirLifecycle` says the same of its entries and `EntryLifecycle`. `TotalsAreExact`: resolved entries never change
(by the lifecycle), so the set a summary selected witnesses the property for ever
after; that selecting by the interval is selecting by the calendar is
`IntervalsAreTheRanges`. `ShownExamplesAreTheUsers`. `EquivalentIsNearest`
states the rounding for every total and every positive value.

The section "Sums" is about the aggregate query. Its sum is a fold of the
community modules, a recursive function on the subsets of the rows that is
picked by CHOOSE. That such a function exists is proved by induction on the size
of the subsets, written out as "take the least size at which it fails"
(`LeastOfNaturals`, from the library's well-foundedness of `<`), because the
library's induction rules take the formula as an operator: `PartialSumsExist`,
`SumIsDefined`. In the same way `SumsInAnyOrder` shows that the sum does not
depend on which row CHOOSE picks first, `SumsAgree` that a subset's sum is its own
affair, and with them `EntriesCountOnce` that one more resolved entry adds its
price and one to the avoided purchases, or one to the others. `SumsGrow` and
`RangesAreNested` give `WiderRangesTotalMore`: a longer range never shows less. All of this needs that there
are finitely many entry ids (`EntryIdsAssumption`: a uuid has 128 bits). With it
`AnswerInv` is inductive beside `SummaryInv`: totals are natural numbers from the
first query on, stored values are positive, and the answer is rounded from the
totals it is sent with. This gives `SummariesTypeCorrect` and `AnswersAreNearest`.

**`BrowserRun_proofs`**. `TypeCorrect`, `NothingIsLeft`, `SuccessIsTrue` and
`OthersAreKept`, by `RunInv`: the rows of the current run have its id
(`RowsKnowTheirRun`) and its journey account its own key (`JourneyIsOwn`), so
cleanup by id and key removes all of them and no others; which children may
run at each call (`ChildrenByCall`); from the finally block on each server is
stopped or the failure noted (`StoppedOrNoted`), and a browser that still runs has a signal or a
failed stop to show for it; what a verified run had in the
database stays until it is cleaned (`VerifiedBeforeCleaning`); and what a
signal outside the try block, or the end, leaves (`CutShape`, `EndShape`).

**`ClientCache_proofs`** (assumes the assumptions of `ClientCache` on its
constants). `TabTypeCorrect`, `ChangesAreShown`, `EndedSessionsAreForgotten` and
`EndedSessionsStayOut` for any number of users, changes and sessions, by
`CacheInv`: requests name sessions that existed (`SessionsExist`); nothing is
sent under a login's session before its answer (`LoginIsFresh`); sessions the
tab saw end are over, and nothing answered or cached is of one (`EndedIsOver`);
only observed queries are fetched, so an invalidation restarts those in flight
for the views shown (`FetchesAreObserved`); versions never run ahead of the
server, nor a query's answer behind what is due to its view (`VersionsAgree`, where `Due` is
what the tab was told except of `detail` by a check-in or a comment), and a view behind what
is due to it is marked (`DueIsShown`); and
edits come before the resolution, so what a check-in or a comment writes under
the detail key is no older than any edit (`EditsComeFirst`). The exception is
needed: `client_detail` shows the full promise violated. The types bound every
version by the number of changes, which takes an invariant of its own, `VersionInv`:
a change counts as spent (`Spent`) from when the server has made it, the server makes it once, and
an account's data, and what is cached or answered of it, is never ahead of the
changes spent (`NothingIsAhead`). For the cardinality of `Spent` the changes must
be finitely many (`ChangesAssumption`).

**Only model-checked.** Every invariant and every action property that a passing
run checks has a theorem, and so have the refinements of `EntryLifecycle`, `Accounts`
and `FixedWindow`. What is left to TLC is liveness: `EveryRequestIsAnswered` (for
entries and for sessions), `EveryAttemptIsAnswered` and `EveryRunEnds` speak of
fairness and of ENABLED, which the prover does not handle. For the first,
`WaitsDoNotChain` and `WritersDoNotChain` prove the safety part, that nobody
waits in a ring or for an abandoned transaction.

## 6. Findings

* `session_throttle`: development/DEV-008 says `last_used_at` "is updated at most
  once per hour". `resolve_session` compares the clock with a value it read
  without a lock, so two requests that both read the old value both write, and
  the second write follows the first by less than the interval. Nothing else
  depends on the throttle: the value still satisfies `SessionTimesAreSane`.
* `browser_interrupted`: `run_stack`'s docstring says "Run the complete stack and
  always stop children and clean run-owned data". The browser has a session of
  its own and is held by a local variable only; on a signal while it runs
  nothing stops it. The property excludes every other way a child may be left
  (a server between Popen and append, a signal outside the try block, a
  stop that failed, the browser's own included).
* `client_detail`: the frontend plan (`implementation/2-frontend-implementation-plan.md`,
  97-98) says "check-in/comment mutation invalidates dashboard and affected detail", and
  DEV-014 (432-433) asks to prevent late responses from replacing a newer success.
  The `onSuccess` of both mutations (`queries.ts`, 153 and 181) writes the
  answer under the detail key, invalidates the dashboard and neither cancels nor
  invalidates the detail query. A detail query that the server answered before the check-in
  and that arrives after it puts the old state back, with no mark.
* `client_logout`: the frontend plan says the client "clears auth-dependent cached
  data" on a 401, the README that logout and expiry clear it.
  `getCurrentSession` turns the 401 of `/auth/me` into `null` without a report:
  the tab shows the login page with the user's data still cached, and the next
  login keeps it. A mutation in flight at a logout, answered after `clear()`,
  also writes its answer into the guest's cache.

## 7. Not modelled

* *Process lifecycle and readiness*: uvicorn answers no request before startup has finished
  and shuts down only after its requests, so the 503 of a starting or stopping
  process and a probe that outlives the shutdown cannot happen in the server
  this repository starts. What is left is a flag that a probe sets.
* *Release and restore*: a shell script under a lock, one command after another;
  what an interruption leaves is read off the order of its lines, it refuses to
  go on over what an earlier run left, and it rolls nothing back. Two hazards are listed.
* *HTTP boundary* (body limit, origin, proxy): decided from one request alone.
* *Configuration, logging, error envelopes*: no state that evolves.
* *Metrics*: single statements under one lock.
* *Migrations*: their constraints are in the row definitions.
* *Demo data*: a development tool that runs alone in one transaction.
* *Pages and styles*: rendering. The route guards are in `ClientCache`.

Within the modelled components: password hashing and token digests are
one-to-one functions, keyed rate-limit digests distinct keys. In `BrowserRun` the
signup address is assumed to be nobody else's, and unapproved script or phase
values and details of the manifest are among the failures before the try block. What a child's
leader leaves running of its group when it exits by itself is left out: `stop_process`
signals no group whose leader is gone. In
`ClientCache` several tabs, which share one cookie, and the dropping of
unobserved data after minutes are left out; so is `UnsavedChangesPrompt`, which may
keep a page with unsaved input open after its user was signed out (no property speaks
of the page of a signed-out tab); a visitor without a session is one
whose session has already ended.

## 8. Plan

Done: all of the modules above, and a theorem for every safety property that the runs
check. What remains, in order of use: several tabs in `ClientCache`, whose
logouts and logins change each other's cookie; a supervisor that starts while
another runs.
