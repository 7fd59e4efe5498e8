---------------------------- MODULE ClientCache ----------------------------
(***************************************************************************)
(* One browser tab: its query cache, the requests it has in flight, and    *)
(* the session they were sent under.  Queries and changes (the mutations)  *)
(* are answered in any order, late, or not at all, while the user moves    *)
(* between pages, logs out and in again, and sessions end on the server.   *)
(*                                                                         *)
(* Data is a version per account, raised by every change the server makes; *)
(* "detail" is one entry of EntryOwner.  A request carries the session its *)
(* cookie named when it was sent.  How a query is fetched, cancelled and   *)
(* invalidated is TanStack Query's, whose dropping of unobserved data after *)
(* minutes is left out, and so is UnsavedChangesPrompt, which may keep a   *)
(* page whose user is gone from being left.  No other tab shares the       *)
(* cookie.                                                                 *)
(***************************************************************************)
EXTENDS Integers, FiniteSets

CONSTANTS
  Users,
  EntryOwner,   \* the account that the entry of "detail" belongs to
  Changes,      \* bound: changes submitted in one behaviour
  Kinds,        \* the kinds of changes that may be submitted
  Keys,         \* the query keys of the instance
  Pages,        \* the routes of the instance, /login among them
  MaxSessions,  \* bound: logins in one behaviour, the first one included
  Guest,        \* /auth/me is cached as null
  Unknown       \* /auth/me is pending or failed

ASSUME OwnerAssumption == EntryOwner \in Users
ASSUME KeysAssumption == Keys \subseteq {"dashboard", "detail", "stats", "examples"}
ASSUME ChangesAssumption == IsFiniteSet(Changes)
ASSUME KindsAssumption == Kinds \subseteq {"create", "update", "delete", "checkIn", "comment", "example"}
ASSUME PagesAssumption == "login" \in Pages /\ Pages \subseteq {"login", "dashboard", "new", "entry", "settings"}
ASSUME SessionsAssumption == MaxSessions \in Nat \ {0}
ASSUME GuestAssumption == Guest \notin Users /\ Unknown \notin Users

VARIABLES
  account,      \* whose login each session is
  opened, live, \* sessions created so far, and those the server accepts
  data,         \* the version of each account's data
  entry,        \* the entry's status in the database
  cookie,       \* the session the browser presents, 0 for none
  me,           \* the cached /auth/me
  page,         \* the route
  cache,        \* what the cache holds under each key
  fetch,        \* the query in flight for each key
  change,       \* the changes submitted
  login, logout,\* the authentication requests in flight
  expiryActive, \* the module variable of sessionExpiry.ts
  told,         \* what answered changes told the tab of views it held (history)
  ended         \* sessions whose end the tab acted upon (history)

vars == <<account, opened, live, data, entry, cookie, me, page, cache, fetch, change, login,
          logout, expiryActive, told, ended>>

Sessions == 1 .. MaxSessions
Queries  == Keys \cup {"me"}

\* The keys a page observes, and the page a change is submitted from.
PageKeys == [login |-> {}, dashboard |-> {"dashboard", "stats"}, new |-> {},
             entry |-> {"detail"}, settings |-> {"examples"}]
FormPage == [create |-> "new", update |-> "entry", delete |-> "dashboard",
             checkIn |-> "entry", comment |-> "entry", example |-> "settings"]

\* Mutant: a check-in that forgets the statistics.
TouchedWithoutStats ==
          [create  |-> {"dashboard"}, update  |-> {"detail", "dashboard"},
           delete  |-> {"dashboard"}, checkIn |-> {"dashboard"},
           comment |-> {"dashboard"}, example |-> {"examples", "stats"}]

\* What onSuccess invalidates, and the kinds whose answer it writes under
\* "detail".
Touched == [create  |-> {"dashboard"}, update  |-> {"detail", "dashboard"},
            delete  |-> {"dashboard"}, checkIn |-> {"dashboard", "stats"},
            comment |-> {"dashboard"}, example |-> {"examples", "stats"}]
Written == {"update", "checkIn", "comment"}

\* The views a change is promised to reach: 2-frontend-implementation-plan.md:95-98,
\* 150, 154 and 158.  A deletion removes "detail".
Promised == [create  |-> {"dashboard"}, update  |-> {"dashboard", "detail"},
             delete  |-> {"dashboard"}, checkIn |-> {"dashboard", "detail", "stats"},
             comment |-> {"dashboard", "detail"}, example |-> {"examples", "stats"}]

EntryKinds == {"update", "delete", "checkIn", "comment"}
Needs      == [update |-> "waiting", delete |-> "waiting", checkIn |-> "waiting",
               comment |-> "resolved"]
Becomes    == [update |-> "waiting", delete |-> "gone", checkIn |-> "resolved",
               comment |-> "resolved"]

Absent    == [held |-> FALSE]
Idle      == [phase |-> "idle"]
Asked(s)  == [phase |-> "asked", as |-> s]
Answer(s, result, v) == [phase |-> "answered", as |-> s, result |-> result, version |-> v]

Versions == 0 .. Cardinality(Changes)
Notice == [kind : Kinds, key : Keys, user : Users, version : Versions]
Held == [held : {TRUE}, as : Sessions, version : Versions, old : BOOLEAN,
         from : {"query", "change"}]
Answers == [phase : {"answered"}, as : 0 .. MaxSessions, version : Versions,
            result : {"ok", "conflict"}]
InFlight == {Idle} \cup {Asked(s) : s \in 0 .. MaxSessions} \cup Answers

TypeOK ==
  /\ account \in [Sessions -> Users]
  /\ opened \in 0 .. MaxSessions /\ live \subseteq 1 .. opened
  /\ data \in [Users -> Versions]
  /\ entry \in {"waiting", "resolved", "gone"}
  /\ cookie \in 0 .. opened
  /\ me \in Users \cup {Guest, Unknown}
  /\ page \in Pages
  /\ \A k \in Keys : cache[k] \in {Absent} \cup Held
  /\ \A k \in Queries : fetch[k] \in InFlight
  /\ \A m \in Changes : change[m].kind \in Kinds \cup {"none"} /\ change[m].request \in InFlight
  /\ login \in InFlight /\ logout \in InFlight
  /\ expiryActive \in BOOLEAN
  /\ told \subseteq Notice
  /\ ended \subseteq Sessions

serverVars == <<opened, live, data, entry>>
authVars   == <<login, logout>>
history    == <<told, ended>>

Observed(m, p) == IF m \in Users THEN PageKeys[p] \cap Keys ELSE {}
Active == Observed(me, page)

\* A tab loaded on any page.  A visitor without a session is one whose session
\* has ended: SessionEnds may be the first step.
Init ==
  /\ account \in [Sessions -> Users]
  /\ opened = 1 /\ live = {1} /\ cookie = 1
  /\ data = [u \in Users |-> 0]
  /\ entry \in {"waiting", "resolved"}
  /\ me = Unknown
  /\ page \in Pages
  /\ cache = [k \in Keys |-> Absent]
  /\ fetch = [k \in Queries |-> IF k = "me" THEN Asked(cookie) ELSE Idle]
  /\ change = [m \in Changes |-> [kind |-> "none", request |-> Idle]]
  /\ login = Idle /\ logout = Idle
  /\ expiryActive = FALSE
  /\ told = {}
  /\ ended = {}

-----------------------------------------------------------------------------
(* Rendering.                                                              *)

\* A render with the user m on page p, the browser presenting s: the keys no
\* longer observed have their fetch aborted; one that is newly observed is
\* fetched if it is missing or invalidated.
Render(m, p, s, c, f) ==
  /\ me' = m /\ page' = p /\ cache' = c
  /\ fetch' = [k \in Queries |->
                CASE k = "me" -> f[k]
                  [] k \in Keys \ Observed(m, p) -> Idle
                  [] k \in Observed(m, p) \ Active /\ (~c[k].held \/ c[k].old) -> Asked(s)
                  [] OTHER -> f[k]]

\* Mutant: the user is gone, the data stays.
SignedOutKeepingData == Render(Guest, "login", cookie, cache, [k \in Queries |-> Idle])

\* Mutant: the data is removed and the queries on their way are not cancelled.
SignedOutStillFetching == Render(Guest, "login", cookie, [k \in Keys |-> Absent], fetch)

\* queryClient.clear(), /auth/me cached as null, and the login page.
SignedOut == Render(Guest, "login", cookie, [k \in Keys |-> Absent], [k \in Queries |-> Idle])

\* invalidateQueries for every key of K: an observed query starts again,
\* unless it is being fetched for the first time.
Invalidate(K, c, f) ==
  /\ cache' = [k \in Keys |-> IF k \in K /\ c[k].held THEN [c[k] EXCEPT !.old = TRUE] ELSE c[k]]
  /\ fetch' = [k \in Queries |->
                IF k \in K \cap Active /\ (c[k].held \/ f[k] = Idle) THEN Asked(cookie) ELSE f[k]]

\* The user follows a link.
Navigate(p) ==
  /\ me \in Users
  /\ p \in Pages \ {"login", page}
  /\ Render(me, p, cookie, cache, fetch)
  /\ UNCHANGED <<account, serverVars, cookie, change, authVars, expiryActive, history>>

\* A stale query is fetched again: on mount, reconnection or a retry button.
Refetch(k) ==
  /\ k \in Active \cup {"me"}
  /\ fetch[k] = Idle
  /\ fetch' = [fetch EXCEPT ![k] = Asked(cookie)]
  /\ UNCHANGED <<account, serverVars, cookie, me, page, cache, change, authVars, expiryActive,
                 history>>

-----------------------------------------------------------------------------
(* Queries.                                                                *)

\* A request sent without a session, or under one that has ended, which no
\* session recovers from: its answer is a 401 whenever it comes.
Unauthorized(request) == request.phase = "asked" /\ request.as \notin live

Readable(k, s) == k = "detail" => entry # "gone" /\ account[s] = EntryOwner

ServerAnswersQuery(k) ==
  LET s == fetch[k].as IN
  /\ fetch[k].phase = "asked"
  /\ s \in live
  /\ Readable(k, s)
  /\ fetch' = [fetch EXCEPT ![k] = Answer(s, "ok", data[account[s]])]
  /\ UNCHANGED <<account, serverVars, cookie, me, page, cache, change, authVars, expiryActive,
                 history>>

\* runProtectedRequest for a query that brought its data.
QueryAnswered(k) ==
  /\ fetch[k].phase = "answered"
  /\ cache' = [cache EXCEPT ![k] = [held |-> TRUE, as |-> fetch[k].as,
                                    version |-> fetch[k].version, old |-> FALSE, from |-> "query"]]
  /\ fetch' = [fetch EXCEPT ![k] = Idle]
  /\ UNCHANGED <<account, serverVars, cookie, me, page, change, authVars, expiryActive, history>>

\* An error keeps what is cached, as invalidated: a failure on the way there
\* or back, a 404, or a 401 after an expiry was reported.
QueryFailed(k) ==
  /\ fetch[k].phase = "asked"
  /\ cache' = [cache EXCEPT ![k] = IF @.held THEN [@ EXCEPT !.old = TRUE] ELSE @]
  /\ fetch' = [fetch EXCEPT ![k] = Idle]
  /\ UNCHANGED <<account, serverVars, cookie, me, page, change, authVars, expiryActive, history>>

\* reportSessionExpiry and its listener, for a request sent under s.
ReportExpiry(s) ==
  /\ ~expiryActive
  /\ expiryActive' = TRUE
  /\ SignedOut
  /\ ended' = ended \cup ({s} \cap Sessions)
  /\ UNCHANGED <<account, serverVars, cookie, authVars, told>>

QueryUnauthorized(k) ==
  /\ Unauthorized(fetch[k])
  /\ ReportExpiry(fetch[k].as)
  /\ UNCHANGED change

\* getCurrentSession: a user, null for a 401, or an error that hides the page.
MeAnswered ==
  LET answer == fetch["me"]
      done   == [fetch EXCEPT !["me"] = Idle]
  IN
  /\ \/ /\ answer.phase = "answered"
        /\ \E p \in Pages \ {"login"} :
             /\ page # "login" => p = page
             /\ Render(account[answer.as], p, cookie, cache, done)
     \/ /\ Unauthorized(answer)
        /\ Render(Guest, "login", cookie, cache, done)
     \/ /\ answer.phase = "asked"
        /\ Render(Unknown, page, cookie, cache, done)
  /\ UNCHANGED <<account, serverVars, cookie, change, authVars, expiryActive, history>>

-----------------------------------------------------------------------------
(* Changes: useMutation, with no retry.                                    *)

Submit(m, kind) ==
  /\ change[m].kind = "none"
  /\ me \in Users
  /\ page = FormPage[kind]
  /\ \A k \in Active \cap {"dashboard", "detail"} : cache[k].held
  /\ change' = [change EXCEPT ![m] = [kind |-> kind, request |-> Asked(cookie)]]
  /\ UNCHANGED <<account, serverVars, cookie, me, page, cache, fetch, authVars, expiryActive,
                 history>>

Permitted(kind, u) == kind \in EntryKinds => u = EntryOwner /\ entry = Needs[kind]

\* The server makes the change, or refuses it.
ServerAnswersChange(m) ==
  LET kind == change[m].kind
      s    == change[m].request.as
      Reply(result, v) == change' = [change EXCEPT ![m].request = Answer(s, result, v)]
  IN
  /\ change[m].request.phase = "asked"
  /\ s \in live
  /\ \/ /\ Permitted(kind, account[s])
        /\ data' = [data EXCEPT ![account[s]] = @ + 1]
        /\ entry' = IF kind \in EntryKinds THEN Becomes[kind] ELSE entry
        /\ Reply("ok", data[account[s]] + 1)
     \/ /\ kind \in EntryKinds
        /\ account[s] = EntryOwner
        /\ entry # "gone"
        /\ entry # Needs[kind] \/ kind = "checkIn"
        /\ Reply("conflict", 0)
        /\ UNCHANGED <<data, entry>>
  /\ UNCHANGED <<account, opened, live, cookie, me, page, cache, fetch, authVars, expiryActive,
                 history>>

\* Mutant: a change that failed or was answered is sent once more.
DoneByRetrying(m) == change' = [change EXCEPT ![m].request = Asked(cookie)]

Done(m) == change' = [change EXCEPT ![m].request = Idle]

\* onSuccess: the answer is written under "detail", or "detail" is removed,
\* and the keys of the kind are invalidated, wherever the user is by then.
ChangeAnswered(m) ==
  LET kind   == change[m].kind
      answer == change[m].request
      c == [cache EXCEPT !["detail"] =
             IF kind \in Written
             THEN [held |-> TRUE, as |-> answer.as, version |-> answer.version, old |-> FALSE,
                   from |-> "change"]
             ELSE IF kind = "delete" THEN Absent ELSE @]
      f == IF kind = "delete" THEN [fetch EXCEPT !["detail"] = Idle] ELSE fetch
      Told(k) == k \in Promised[kind] /\ c[k].held
  IN
  /\ answer.phase = "answered" /\ answer.result = "ok"
  /\ Invalidate(Touched[kind], c, f)
  /\ told' = told \cup {[kind |-> kind, key |-> k, user |-> account[answer.as],
                         version |-> answer.version] : k \in {k \in Keys : Told(k)}}
  /\ Done(m)
  /\ UNCHANGED <<account, serverVars, cookie, me, page, authVars, expiryActive, ended>>

\* The page's handler of a refusal: the entry's state is read again.
ChangeRefused(m) ==
  /\ change[m].request.phase = "answered" /\ change[m].request.result = "conflict"
  /\ Invalidate({"detail", "dashboard"}, cache, fetch)
  /\ Done(m)
  /\ UNCHANGED <<account, serverVars, cookie, me, page, authVars, expiryActive, history>>

\* An error on the way there or back (the change may have been made), a refusal
\* of another kind (the settings page then reads its list: Refetch), or a
\* 401 after an expiry was reported.
ChangeFailed(m) ==
  /\ change[m].request # Idle
  /\ Done(m)
  /\ UNCHANGED <<account, serverVars, cookie, me, page, cache, fetch, authVars, expiryActive,
                 history>>

ChangeUnauthorized(m) ==
  /\ Unauthorized(change[m].request)
  /\ ReportExpiry(change[m].request.as)
  /\ Done(m)

-----------------------------------------------------------------------------
(* Logging out and in.                                                     *)

ClickLogout ==
  /\ me \in Users
  /\ logout = Idle
  /\ logout' = Asked(cookie)
  /\ UNCHANGED <<account, serverVars, cookie, me, page, cache, fetch, change, login,
                 expiryActive, history>>

ServerAnswersLogout ==
  /\ logout.phase = "asked"
  /\ live' = live \ {logout.as}
  /\ logout' = Answer(logout.as, "ok", 0)
  /\ UNCHANGED <<account, opened, data, entry, cookie, me, page, cache, fetch, change, login,
                 expiryActive, history>>

\* The finally block of handleLogout: after the answer, or an error on the way
\* there or back.
LogoutAnswered ==
  /\ logout # Idle
  /\ \/ /\ logout.phase = "answered"
        /\ cookie' = 0
        /\ ended' = ended \cup ({logout.as} \cap Sessions)
     \/ UNCHANGED <<cookie, ended>>
  /\ logout' = Idle
  /\ expiryActive' = FALSE
  /\ SignedOut
  /\ UNCHANGED <<account, serverVars, change, login, told>>

SubmitLogin ==
  /\ me = Guest /\ page = "login"
  /\ login = Idle
  /\ opened < MaxSessions
  /\ login' = Asked(cookie)
  /\ UNCHANGED <<account, serverVars, cookie, me, page, cache, fetch, change, logout,
                 expiryActive, history>>

ServerAnswersLogin ==
  /\ login.phase = "asked"
  /\ opened' = opened + 1
  /\ live' = live \cup {opened'}
  /\ login' = Answer(opened', "ok", 0)
  /\ UNCHANGED <<account, data, entry, cookie, me, page, cache, fetch, change, logout,
                 expiryActive, history>>

\* submit of AuthForm: the user is cached, and the cache is kept as it is.
LoginAnswered ==
  /\ login # Idle
  /\ login' = Idle
  /\ \/ /\ login.phase = "answered"
        /\ cookie' = login.as
        /\ expiryActive' = FALSE
        /\ \E p \in Pages \ {"login"} : Render(account[login.as], p, login.as, cache, fetch)
     \/ /\ UNCHANGED <<cookie, me, page, cache, fetch, expiryActive>>
  /\ UNCHANGED <<account, serverVars, change, logout, history>>

\* A session ends on the server: its lifetime is over, or it was revoked.
SessionEnds(s) ==
  /\ s \in live
  /\ live' = live \ {s}
  /\ UNCHANGED <<account, opened, data, entry, cookie, me, page, cache, fetch, change, authVars,
                 expiryActive, history>>

-----------------------------------------------------------------------------
Next ==
  \/ \E p \in Pages : Navigate(p)
  \/ \E k \in Queries : Refetch(k) \/ ServerAnswersQuery(k)
  \/ \E k \in Keys : QueryAnswered(k) \/ QueryFailed(k) \/ QueryUnauthorized(k)
  \/ MeAnswered
  \/ \E m \in Changes : \/ \E kind \in Kinds : Submit(m, kind)
                        \/ ServerAnswersChange(m)
                        \/ ChangeAnswered(m) \/ ChangeRefused(m)
                        \/ ChangeFailed(m) \/ ChangeUnauthorized(m)
  \/ ClickLogout \/ ServerAnswersLogout \/ LogoutAnswered
  \/ SubmitLogin \/ ServerAnswersLogin \/ LoginAnswered
  \/ \E s \in Sessions : SessionEnds(s)

Spec == Init /\ [][Next]_vars

-----------------------------------------------------------------------------
(* What holds.                                                             *)

\* The view that t is about is not behind it, or marked to be read again.
Shown(t) ==
  LET c == cache[t.key] IN
  c.held /\ account[c.as] = t.user /\ c.version < t.version => c.old

\* "detail" after a check-in or a comment.
WrittenUnmarked(t) == t.key = "detail" /\ t.kind \in {"checkIn", "comment"}

\* A view that was shown when a change of the same account was answered does
\* not stay behind it: data older than the change is marked to be read again,
\* in whatever order changes and queries were answered and wherever the user
\* went.  This is every promise but one, which AnsweredChangeReachesEveryView
\* shows to be broken: "detail" after a check-in or a comment.
\* queries.ts: the onSuccess of every mutation.
AnsweredChangeIsShown == \A t \in told : ~WrittenUnmarked(t) => Shown(t)

\* Once the tab has acted upon the end of a session, nothing it read under
\* that session is in the cache again, late answers included.
\* SessionExpiryCoordinator.tsx:16 and AccountControl.tsx:33, clear().
EndedSessionIsForgotten ==
  \A k \in Keys : cache[k].held /\ cache[k].from = "query" => cache[k].as \notin ended

\* A tab that acted upon the end of its session is not signed in by it again:
\* not by an answer of /auth/me that was on its way, nor by a login, logout
\* or expiry that crosses it.
\* SessionExpiryCoordinator.tsx:16 and AccountControl.tsx:33, then null.
SignedOutStaysOut == me \in Users => cookie \notin ended

(* What the documents say and the code does not do.                        *)

\* The whole promise.  2-frontend-implementation-plan.md:97: "check-in/comment
\* mutation invalidates dashboard and affected detail"; DEV-014:432: "prevent late
\* responses from replacing a newer success".
AnsweredChangeReachesEveryView == \A t \in told : Shown(t)

\* A signed-out tab holds nobody's data.  README.md:196: a logout "clears all
\* frontend query data"; 2-frontend-implementation-plan.md:77: every 401 "clears
\* auth-dependent cached data".
GuestHoldsNoPrivateData == me = Guest => \A k \in Keys : ~cache[k].held
=============================================================================
