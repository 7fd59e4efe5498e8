-------------------------- MODULE ClientCache_proofs --------------------------
(***************************************************************************)
(* Proofs about ClientCache, for any users, keys, pages, kinds and numbers *)
(* of changes, and any number of sessions.                                 *)
(***************************************************************************)
EXTENDS ClientCache, FiniteSetTheorems, TLAPS

-----------------------------------------------------------------------------
(* The inductive invariant                                                 *)

\* The shape of the data, with any version at all.
Cached    == [held : {TRUE}, as : Sessions, version : Nat, old : BOOLEAN,
              from : {"query", "change"}]
Replies   == [phase : {"answered"}, as : 0 .. MaxSessions, version : Nat,
              result : {"ok", "conflict"}]
Requested == {Idle} \cup {Asked(s) : s \in 0 .. MaxSessions} \cup Replies

ServerShape ==
  /\ account \in [Sessions -> Users]
  /\ opened \in Sessions /\ live \subseteq 1 .. opened
  /\ data \in [Users -> Nat]
  /\ ended \subseteq 1 .. opened
  /\ cookie \in 0 .. opened

TabShape ==
  /\ me \in Users \cup {Guest, Unknown}
  /\ cache \in [Keys -> {Absent} \cup Cached]
  /\ fetch \in [Queries -> Requested]
  /\ change \in [Changes -> [kind : Kinds \cup {"none"}, request : Requested]]
  /\ login \in Requested /\ logout \in Requested
  /\ told \subseteq [kind : Kinds, key : Keys, user : Users, version : Nat]

Answered(request) == request.phase = "answered"
Executed(m)       == Answered(change[m].request) /\ change[m].request.result = "ok"

\* No request in flight carries the cookie of session s.
Unused(s) ==
  /\ \A k \in Queries : fetch[k] # Idle => fetch[k].as # s
  /\ \A m \in Changes : change[m].request # Idle => change[m].request.as # s
  /\ logout # Idle => logout.as # s

\* A request names a session that existed when it was sent; the server answers
\* under sessions only, and a logout's answer is the end of its session.
SessionsExist ==
  /\ \A k \in Queries : fetch[k] # Idle => fetch[k].as \in 0 .. opened
  /\ \A k \in Queries : Answered(fetch[k]) => fetch[k].as \in Sessions
  /\ \A m \in Changes : change[m].request # Idle => change[m].request.as \in 0 .. opened
  /\ \A m \in Changes : Answered(change[m].request) => change[m].request.as \in Sessions
  /\ logout # Idle => logout.as \in 0 .. opened
  /\ Answered(logout) => logout.as \notin live

\* A login opens a new session, under which nothing is sent until the browser has
\* the answer.
LoginIsFresh ==
  /\ login.phase = "asked" => opened < MaxSessions
  /\ Answered(login) =>
       /\ login.as \in 1 .. opened /\ login.as \notin ended /\ login.as # cookie
       /\ Unused(login.as)

\* Sessions that the tab saw end are over, and nothing answered or cached is of
\* one of them; the browser may still present one, but is nobody with it.
EndedIsOver ==
  /\ ended \cap live = {}
  /\ \A k \in Queries : Answered(fetch[k]) => fetch[k].as \notin ended
  /\ \A k \in Keys : cache[k].held /\ cache[k].from = "query" => cache[k].as \notin ended
  /\ cookie \in ended => fetch["me"] \in {Idle, Asked(cookie)} /\ me \notin Users

\* Only observed queries are fetched.
FetchesAreObserved == \A k \in Keys : fetch[k] # Idle => k \in Active

\* What the tab was told of the views that the answer of a change marks.
Due == {t \in told : ~WrittenUnmarked(t)}

\* No version the tab was told of is ahead of the server, and no answer on its way
\* to a query is behind what is due.
VersionsAgree ==
  /\ \A t \in told : t.version <= data[t.user]
  /\ \A m \in Changes : Executed(m) =>
       change[m].request.version <= data[account[change[m].request.as]]
  /\ \A k \in Keys : Answered(fetch[k]) =>
       \A t \in Due : t.key = k /\ t.user = account[fetch[k].as] =>
         t.version <= fetch[k].version

\* A request in flight has a kind, and only its owner changes the entry.
ChangeShape ==
  /\ \A m \in Changes : change[m].request # Idle => change[m].kind \in Kinds
  /\ \A m \in Changes : Executed(m) /\ change[m].kind \in EntryKinds =>
       account[change[m].request.as] = EntryOwner

\* The entry is edited before it is resolved, never after, so what a check-in or a
\* comment writes under "detail" is no older than any edit.
EditsComeFirst ==
  \A m \in Changes : Executed(m) /\ change[m].kind \in {"checkIn", "comment"} =>
    /\ entry # "waiting"
    /\ account[change[m].request.as] = EntryOwner
    /\ \A t \in Due : t.key = "detail" /\ t.user = EntryOwner =>
         t.version <= change[m].request.version
    /\ \A n \in Changes : Executed(n) /\ change[n].kind = "update" =>
         change[n].request.version <= change[m].request.version

DueIsShown ==
  \A t \in Due : /\ cache[t.key].held
                 /\ account[cache[t.key].as] = t.user
                 /\ cache[t.key].version < t.version
                 => cache[t.key].old

CacheInv ==
  /\ ServerShape
  /\ TabShape
  /\ SessionsExist
  /\ LoginIsFresh
  /\ EndedIsOver
  /\ FetchesAreObserved
  /\ VersionsAgree
  /\ ChangeShape
  /\ EditsComeFirst
  /\ DueIsShown

-----------------------------------------------------------------------------
(* Every step keeps it.  The first step of each proof says what the action *)
(* changes; then one step for each part of the invariant.                  *)

\* "me" is the one query that is not of a page, and a guest is not a user.
LEMMA Apart == "me" \notin Keys /\ Guest \notin Users /\ Unknown \notin Users
  BY KeysAssumption, GuestAssumption

LEMMA RequestShape ==
  /\ Idle \in Requested
  /\ \A s \in 0 .. MaxSessions : Asked(s) \in Requested
  /\ \A s \in 0 .. MaxSessions, v \in Nat, result \in {"ok", "conflict"} :
       Answer(s, result, v) \in Requested
  /\ \A q \in Requested :
       \/ q = Idle
       \/ q.phase = "asked" /\ q.as \in 0 .. MaxSessions
       \/ q.phase = "answered" /\ q.as \in 0 .. MaxSessions /\ q.version \in Nat
  /\ Idle.phase = "idle"
  <1>1. Idle \in Requested /\ Idle.phase = "idle"
    BY DEF Requested, Idle
  <1>2. \A s \in 0 .. MaxSessions : Asked(s) \in Requested
    BY DEF Requested
  <1>3. \A s \in 0 .. MaxSessions, v \in Nat, result \in {"ok", "conflict"} :
          Answer(s, result, v) \in Requested
    BY DEF Requested, Answer, Replies
  <1>4. \A q \in Requested :
          \/ q = Idle
          \/ q.phase = "asked" /\ q.as \in 0 .. MaxSessions
          \/ q.phase = "answered" /\ q.as \in 0 .. MaxSessions /\ q.version \in Nat
    BY DEF Requested, Asked, Replies
  <1>5. QED
    BY <1>1, <1>2, <1>3, <1>4

LEMMA SessionRange ==
  ASSUME ServerShape
  PROVE  /\ MaxSessions \in Nat /\ opened \in Nat /\ opened <= MaxSessions
         /\ live \subseteq Sessions /\ ended \subseteq Sessions
         /\ cookie \in 0 .. MaxSessions /\ cookie \in 0 .. opened
         /\ \A s \in 0 .. opened : s \in Sessions => s \in 1 .. opened
  <1>1. MaxSessions \in Nat /\ opened \in Nat /\ opened <= MaxSessions
    BY SessionsAssumption DEF ServerShape, Sessions
  <1>2. /\ 1 .. opened \subseteq Sessions /\ 0 .. opened \subseteq 0 .. MaxSessions
        /\ \A s \in 0 .. opened : s \in Sessions => s \in 1 .. opened
    BY <1>1 DEF Sessions
  <1>3. QED
    BY <1>1, <1>2 DEF ServerShape

\* Cached data that is to be read again.
Marked(c) == [c EXCEPT !.old = TRUE]

LEMMA CachedShape ==
  /\ \A c \in {Absent} \cup Cached : c.held \in BOOLEAN /\ (c.held <=> c \in Cached)
  /\ Absent.held = FALSE
  /\ \A c \in Cached : Marked(c) \in Cached
  /\ \A c \in Cached :
       /\ Marked(c).old = TRUE /\ Marked(c).held = TRUE
       /\ Marked(c).as = c.as /\ Marked(c).version = c.version
       /\ Marked(c).from = c.from
  <1>1. Absent.held = FALSE
    BY DEF Absent
  <1>2. \A c \in Cached : c.held = TRUE
    BY DEF Cached
  <1>3. \A c \in Cached : Marked(c) \in Cached
    BY DEF Cached, Marked
  <1>4. \A c \in Cached :
          /\ Marked(c).old = TRUE /\ Marked(c).held = TRUE
          /\ Marked(c).as = c.as /\ Marked(c).version = c.version
          /\ Marked(c).from = c.from
    BY DEF Cached, Marked
  <1>5. QED
    BY <1>1, <1>2, <1>3, <1>4

\* clear() leaves nothing, and a signed-out tab observes nothing.
LEMMA SignedOutEffect ==
  ASSUME SignedOut
  PROVE  /\ me' = Guest
         /\ cache' = [k \in Keys |-> Absent]
         /\ fetch' = [k \in Queries |-> Idle]
  BY Apart DEF SignedOut, Render, Observed, Queries

LEMMA TouchedViews ==
  /\ \A kind \in Kinds, k \in Keys :
       k \in Promised[kind] =>
         \/ k \in Touched[kind]
         \/ k = "detail" /\ kind \in {"checkIn", "comment"}
  /\ "detail" \in Touched["update"]
  /\ \A kind \in Kinds : "detail" \in Touched[kind] => kind = "update"
  <1>1. \A kind \in Kinds, k \in Keys :
          k \in Promised[kind] =>
            \/ k \in Touched[kind]
            \/ k = "detail" /\ kind \in {"checkIn", "comment"}
    BY KindsAssumption DEF Promised, Touched
  <1>2. "detail" \in Touched["update"]
    BY DEF Touched
  <1>3. \A kind \in Kinds : "detail" \in Touched[kind] => kind = "update"
    BY KindsAssumption DEF Touched
  <1>4. QED
    BY <1>1, <1>2, <1>3

\* What is due is of a key, a user and a version.
LEMMA DueShape ==
  ASSUME TabShape
  PROVE  \A t \in Due : t \in told /\ t.key \in Keys /\ t.user \in Users /\ t.version \in Nat
  BY DEF TabShape, Due

\* Marking what is cached leaves what is due shown,
LEMMA MarkingShows ==
  ASSUME CacheInv, UNCHANGED <<account, Due>>,
         \A k \in Keys :
           /\ cache'[k].held = cache[k].held
           /\ cache[k].held =>
                /\ cache'[k].as = cache[k].as /\ cache'[k].version = cache[k].version
                /\ cache[k].old => cache'[k].old
  PROVE  DueIsShown'
  BY DueShape DEF CacheInv, DueIsShown

\* and so does forgetting it.
LEMMA ForgettingShows ==
  ASSUME CacheInv, UNCHANGED Due, cache' = [k \in Keys |-> Absent]
  PROVE  DueIsShown'
  BY DueShape, CachedShape DEF CacheInv, DueIsShown

\* A link is followed: queries of the new page are sent, others aborted.
LEMMA NavigateKeepsInv ==
  ASSUME CacheInv, NEW p \in Pages, Navigate(p)
  PROVE  CacheInv'
  <1>1. me' = me
    BY DEF CacheInv, Navigate, Render, serverVars, authVars, history
  <1>2. fetch' \in [Queries -> Requested]
    BY RequestShape, SessionRange, Apart DEF CacheInv, TabShape, Navigate, Render, Queries,
       Observed
  <1>3. fetch'["me"] = fetch["me"]
    BY Apart DEF Navigate, Render, Queries, Observed
  <1>4. \A k \in Keys : fetch'[k] \in {Idle, fetch[k], Asked(cookie)}
    BY Apart DEF Navigate, Render, Queries
  <1>5. \A k \in Keys : fetch'[k] # Idle => k \in Active'
    BY Apart DEF Navigate, Render, Queries, Active, Observed
  <1>6. UNCHANGED <<account, opened, live, data, entry, cookie, cache, change, login,
                   logout, expiryActive, told, Due, ended>>
    BY DEF Due, CacheInv, Navigate, Render, serverVars, authVars, history
  <1>7. ServerShape'
    BY <1>1, <1>2, <1>3, <1>4, <1>5, <1>6 DEF CacheInv, ServerShape, Queries, Idle, Asked
  <1>8. TabShape'
    BY <1>1, <1>2, <1>3, <1>4, <1>5, <1>6 DEF CacheInv, TabShape, Queries, Idle, Asked
  <1>9. SessionsExist'
    BY <1>1, <1>2, <1>3, <1>4, <1>5, <1>6 DEF CacheInv, SessionsExist, ServerShape,
       Answered, Queries, Idle, Asked
  <1>10. LoginIsFresh'
    BY <1>1, <1>2, <1>3, <1>4, <1>5, <1>6 DEF CacheInv, LoginIsFresh, ServerShape,
       SessionsExist, Answered, Unused, Queries, Idle, Asked
  <1>11. EndedIsOver'
    BY <1>1, <1>2, <1>3, <1>4, <1>5, <1>6 DEF CacheInv, EndedIsOver, ServerShape,
       SessionsExist, Answered, Queries, Idle, Asked
  <1>12. FetchesAreObserved'
    BY <1>1, <1>2, <1>3, <1>4, <1>5, <1>6 DEF CacheInv, FetchesAreObserved, Active, Queries,
       Idle, Asked
  <1>13. VersionsAgree'
    BY <1>1, <1>2, <1>3, <1>4, <1>5, <1>6 DEF CacheInv, VersionsAgree, ServerShape,
       TabShape, SessionsExist, Answered, Executed, Queries, Idle, Asked
  <1>14. ChangeShape'
    BY <1>1, <1>2, <1>3, <1>4, <1>5, <1>6 DEF CacheInv, ChangeShape, Answered, Executed,
       Queries, Idle, Asked
  <1>15. EditsComeFirst'
    BY <1>1, <1>2, <1>3, <1>4, <1>5, <1>6 DEF CacheInv, EditsComeFirst, Answered, Executed,
       Queries, Idle, Asked
  <1>16. DueIsShown'
    BY <1>1, <1>2, <1>3, <1>4, <1>5, <1>6 DEF CacheInv, DueIsShown, ServerShape, TabShape,
       Queries, Idle, Asked
  <1>17. QED
    BY <1>7, <1>8, <1>9, <1>10, <1>11, <1>12, <1>13, <1>14, <1>15, <1>16 DEF CacheInv

\* A query is sent again.
LEMMA RefetchKeepsInv ==
  ASSUME CacheInv, NEW j \in Queries, Refetch(j)
  PROVE  CacheInv'
  <1>1. fetch' \in [Queries -> Requested]
    BY RequestShape, SessionRange DEF CacheInv, TabShape, Refetch, Queries
  <1>2. fetch'[j] = Asked(cookie)
    BY DEF CacheInv, TabShape, Refetch
  <1>3. \A k \in Queries : k # j => fetch'[k] = fetch[k]
    BY DEF CacheInv, TabShape, Refetch
  <1>4. j # "me" => j \in Active
    BY DEF CacheInv, Refetch, serverVars, authVars, history
  <1>5. UNCHANGED <<account, opened, live, data, entry, cookie, me, page, cache, change,
                   login, logout, expiryActive, told, Due, ended>>
    BY DEF Due, CacheInv, Refetch, serverVars, authVars, history
  <1>6. ServerShape'
    BY <1>1, <1>2, <1>3, <1>4, <1>5 DEF CacheInv, ServerShape, Idle, Asked, Queries
  <1>7. TabShape'
    BY <1>1, <1>2, <1>3, <1>4, <1>5 DEF CacheInv, TabShape, Idle, Asked, Queries
  <1>8. SessionsExist'
    BY <1>1, <1>2, <1>3, <1>4, <1>5 DEF CacheInv, SessionsExist, ServerShape, Answered,
       Idle, Asked, Queries
  <1>9. LoginIsFresh'
    BY <1>1, <1>2, <1>3, <1>4, <1>5 DEF CacheInv, LoginIsFresh, ServerShape, SessionsExist,
       Answered, Unused, Idle, Asked, Queries
  <1>10. EndedIsOver'
    BY <1>1, <1>2, <1>3, <1>4, <1>5 DEF CacheInv, EndedIsOver, ServerShape, SessionsExist,
       Answered, Idle, Asked, Queries
  <1>11. FetchesAreObserved'
    BY <1>1, <1>2, <1>3, <1>4, <1>5, Apart DEF CacheInv, FetchesAreObserved, Active, Idle,
       Asked, Queries
  <1>12. VersionsAgree'
    BY <1>1, <1>2, <1>3, <1>4, <1>5 DEF CacheInv, VersionsAgree, ServerShape, TabShape,
       SessionsExist, Answered, Executed, Idle, Asked, Queries
  <1>13. ChangeShape'
    BY <1>1, <1>2, <1>3, <1>4, <1>5 DEF CacheInv, ChangeShape, Answered, Executed, Idle,
       Asked, Queries
  <1>14. EditsComeFirst'
    BY <1>1, <1>2, <1>3, <1>4, <1>5 DEF CacheInv, EditsComeFirst, Answered, Executed, Idle,
       Asked, Queries
  <1>15. DueIsShown'
    BY <1>1, <1>2, <1>3, <1>4, <1>5 DEF CacheInv, DueIsShown, ServerShape, TabShape, Idle,
       Asked, Queries
  <1>16. QED
    BY <1>6, <1>7, <1>8, <1>9, <1>10, <1>11, <1>12, <1>13, <1>14, <1>15 DEF CacheInv

\* The server answers a query.
LEMMA ServerAnswersQueryKeepsInv ==
  ASSUME CacheInv, NEW j \in Queries, ServerAnswersQuery(j)
  PROVE  CacheInv'
  <1>1. fetch[j].phase = "asked"
    BY DEF CacheInv, ServerAnswersQuery, serverVars, authVars, history
  <1>2. fetch[j].as \in live
    BY DEF CacheInv, ServerAnswersQuery, serverVars, authVars, history
  <1>3. fetch[j].as \in Sessions
    BY SessionRange, <1>2 DEF CacheInv
  <1>4. data[account[fetch[j].as]] \in Nat
    BY <1>3 DEF CacheInv, ServerShape
  <1>5. fetch' \in [Queries -> Requested]
    BY RequestShape, SessionRange, <1>3, <1>4 DEF TabShape, CacheInv, ServerAnswersQuery,
       Sessions
  <1>6. fetch'[j] = Answer(fetch[j].as, "ok", data[account[fetch[j].as]])
    BY DEF CacheInv, TabShape, ServerAnswersQuery
  <1>7. \A k \in Queries : k # j => fetch'[k] = fetch[k]
    BY DEF CacheInv, TabShape, ServerAnswersQuery
  <1>8. UNCHANGED <<account, opened, live, data, entry, cookie, me, page, cache, change,
                   login, logout, expiryActive, told, Due, ended>>
    BY DEF Due, CacheInv, ServerAnswersQuery, serverVars, authVars, history
  <1>9. ServerShape'
    BY <1>1, <1>2, <1>3, <1>4, <1>5, <1>6, <1>7, <1>8 DEF CacheInv, ServerShape, Idle,
       Answer, Asked, Queries
  <1>10. TabShape'
    BY <1>1, <1>2, <1>3, <1>4, <1>5, <1>6, <1>7, <1>8 DEF CacheInv, TabShape, Idle, Answer,
       Asked, Queries
  <1>11. SessionsExist'
    BY <1>1, <1>2, <1>3, <1>4, <1>5, <1>6, <1>7, <1>8, SessionsAssumption DEF CacheInv,
       SessionsExist, ServerShape, Answered, Idle, Answer, Asked, Queries
  <1>12. LoginIsFresh'
    BY <1>1, <1>2, <1>3, <1>4, <1>5, <1>6, <1>7, <1>8 DEF CacheInv, LoginIsFresh,
       ServerShape, SessionsExist, Answered, Unused, Idle, Answer, Asked, Queries
  <1>13. EndedIsOver'
    BY <1>1, <1>2, <1>3, <1>4, <1>5, <1>6, <1>7, <1>8 DEF CacheInv, EndedIsOver,
       ServerShape, SessionsExist, Answered, Idle, Answer, Asked, Queries
  <1>14. FetchesAreObserved'
    BY <1>1, <1>2, <1>3, <1>4, <1>5, <1>6, <1>7, <1>8 DEF CacheInv, FetchesAreObserved,
       Active, Idle, Answer, Asked, Queries
  <1>15. VersionsAgree'
    <2>1. \A k \in Keys : Answered(fetch'[k]) =>
            \A t \in Due' : t.key = k /\ t.user = account'[fetch'[k].as] =>
              t.version <= fetch'[k].version
      <3> SUFFICES ASSUME NEW k \in Keys, Answered(fetch'[k]),
                          NEW t \in Due, t.key = k, t.user = account[fetch'[k].as]
                   PROVE  t.version <= fetch'[k].version
        BY <1>8
      <3>1. CASE k = j
        <4>1. t.user = account[fetch[j].as]
              /\ fetch'[k].version = data[account[fetch[j].as]]
          BY <1>6, <3>1 DEF Answer
        <4>2. t.version <= data[t.user]
          BY DEF CacheInv, VersionsAgree, Due
        <4>3. QED
          BY <4>1, <4>2
      <3>2. CASE k # j
        BY <1>7, <3>2 DEF CacheInv, VersionsAgree, Queries
      <3>3. QED
        BY <3>1, <3>2
    <2>2. \A m \in Changes : Executed(m)' => Executed(m)
      BY <1>8 DEF Executed
    <2>3. QED
      BY <1>8, <2>1, <2>2 DEF CacheInv, VersionsAgree
  <1>16. ChangeShape'
    BY <1>1, <1>2, <1>3, <1>4, <1>5, <1>6, <1>7, <1>8 DEF CacheInv, ChangeShape, Answered,
       Executed, Idle, Answer, Asked, Queries
  <1>17. EditsComeFirst'
    BY <1>1, <1>2, <1>3, <1>4, <1>5, <1>6, <1>7, <1>8 DEF CacheInv, EditsComeFirst,
       Answered, Executed, Idle, Answer, Asked, Queries
  <1>18. DueIsShown'
    BY <1>1, <1>2, <1>3, <1>4, <1>5, <1>6, <1>7, <1>8 DEF CacheInv, DueIsShown,
       ServerShape, TabShape, Idle, Answer, Asked, Queries
  <1>19. QED
    BY <1>9, <1>10, <1>11, <1>12, <1>13, <1>14, <1>15, <1>16, <1>17, <1>18 DEF CacheInv

\* A query's answer is cached.
LEMMA QueryAnsweredKeepsInv ==
  ASSUME CacheInv, NEW j \in Keys, QueryAnswered(j)
  PROVE  CacheInv'
  <1>1. Answered(fetch[j])
    BY DEF CacheInv, QueryAnswered, Answered, serverVars, authVars, history
  <1>2. fetch[j].as \in Sessions /\ fetch[j].version \in Nat
    BY RequestShape, <1>1 DEF CacheInv, TabShape, SessionsExist, Answered, Queries, Idle
  <1>3. fetch' \in [Queries -> Requested]
    BY RequestShape DEF CacheInv, TabShape, ServerShape, QueryAnswered, Queries
  <1>4. fetch'[j] = Idle
    BY DEF CacheInv, TabShape, QueryAnswered, Queries
  <1>5. \A k \in Queries : k # j => fetch'[k] = fetch[k]
    BY DEF CacheInv, TabShape, QueryAnswered
  <1>6. cache' \in [Keys -> {Absent} \cup Cached]
    BY <1>2 DEF CacheInv, TabShape, QueryAnswered, Cached
  <1>7. cache'[j] = [held |-> TRUE, as |-> fetch[j].as,
            version |-> fetch[j].version, old |-> FALSE, from |-> "query"]
    BY DEF CacheInv, TabShape, QueryAnswered
  <1>8. \A k \in Keys : k # j => cache'[k] = cache[k]
    BY DEF CacheInv, TabShape, QueryAnswered
  <1>9. UNCHANGED <<account, opened, live, data, entry, cookie, me, page, change, login,
                   logout, expiryActive, told, Due, ended>>
    BY DEF Due, CacheInv, QueryAnswered, Answered, serverVars, authVars, history
  <1>10. ServerShape'
    BY <1>1, <1>2, <1>3, <1>4, <1>5, <1>6, <1>7, <1>8, <1>9 DEF CacheInv, ServerShape, Idle,
       Queries
  <1>11. TabShape'
    BY <1>1, <1>2, <1>3, <1>4, <1>5, <1>6, <1>7, <1>8, <1>9 DEF CacheInv, TabShape, Idle,
       Queries
  <1>12. SessionsExist'
    BY <1>1, <1>2, <1>3, <1>4, <1>5, <1>6, <1>7, <1>8, <1>9 DEF CacheInv, SessionsExist,
       ServerShape, Answered, Idle, Queries
  <1>13. LoginIsFresh'
    BY <1>1, <1>2, <1>3, <1>4, <1>5, <1>6, <1>7, <1>8, <1>9 DEF CacheInv, LoginIsFresh,
       ServerShape, SessionsExist, Answered, Unused, Idle, Queries
  <1>14. EndedIsOver'
    BY <1>1, <1>2, <1>3, <1>4, <1>5, <1>6, <1>7, <1>8, <1>9 DEF CacheInv, EndedIsOver,
       ServerShape, SessionsExist, Answered, Idle, Queries
  <1>15. FetchesAreObserved'
    BY <1>1, <1>2, <1>3, <1>4, <1>5, <1>6, <1>7, <1>8, <1>9 DEF CacheInv,
       FetchesAreObserved, Active, Idle, Queries
  <1>16. VersionsAgree'
    BY <1>1, <1>2, <1>3, <1>4, <1>5, <1>6, <1>7, <1>8, <1>9 DEF CacheInv, VersionsAgree,
       ServerShape, TabShape, SessionsExist, Answered, Executed, Idle, Queries
  <1>17. ChangeShape'
    BY <1>1, <1>2, <1>3, <1>4, <1>5, <1>6, <1>7, <1>8, <1>9 DEF CacheInv, ChangeShape,
       Answered, Executed, Idle, Queries
  <1>18. EditsComeFirst'
    BY <1>1, <1>2, <1>3, <1>4, <1>5, <1>6, <1>7, <1>8, <1>9 DEF CacheInv, EditsComeFirst,
       Answered, Executed, Idle, Queries
  <1>19. DueIsShown'
    <2> SUFFICES ASSUME NEW t \in Due, cache'[t.key].held,
                        account[cache'[t.key].as] = t.user,
                        cache'[t.key].version < t.version
                 PROVE  cache'[t.key].old
      BY <1>9 DEF DueIsShown
    <2>1. t.key \in Keys /\ t.version \in Nat
      BY DueShape DEF CacheInv
    <2>2. CASE t.key = j
      <3>1. t.user = account[fetch[j].as] /\ fetch[j].version < t.version
        BY <1>7, <2>2
      <3>2. Answered(fetch[j]) /\ fetch[j].version \in Nat
        BY <1>1, <1>2 DEF Answered
      <3>3. t.version <= fetch[j].version
        BY <2>1, <2>2, <3>1, <3>2 DEF CacheInv, VersionsAgree
      <3>4. QED
        BY <2>1, <3>1, <3>2, <3>3
    <2>3. CASE t.key # j
      BY <1>8, <2>1, <2>3 DEF CacheInv, DueIsShown
    <2>4. QED
      BY <2>2, <2>3
  <1>20. QED
    BY <1>10, <1>11, <1>12, <1>13, <1>14, <1>15, <1>16, <1>17, <1>18, <1>19 DEF CacheInv

\* A query fails.
LEMMA QueryFailedKeepsInv ==
  ASSUME CacheInv, NEW j \in Keys, QueryFailed(j)
  PROVE  CacheInv'
  <1>1. fetch' \in [Queries -> Requested]
    BY RequestShape DEF CacheInv, TabShape, ServerShape, QueryFailed, Queries
  <1>2. fetch'[j] = Idle
    BY DEF CacheInv, TabShape, QueryFailed, Queries
  <1>3. \A k \in Queries : k # j => fetch'[k] = fetch[k]
    BY DEF CacheInv, TabShape, QueryFailed
  <1>4. cache' \in [Keys -> {Absent} \cup Cached]
    BY CachedShape DEF CacheInv, TabShape, QueryFailed, Marked
  <1>5. \A k \in Keys : cache'[k].held = cache[k].held
    BY DEF CacheInv, TabShape, QueryFailed, Cached, Absent
  <1>6. \A k \in Keys : cache[k].held =>
          /\ cache'[k].as = cache[k].as /\ cache'[k].version = cache[k].version
          /\ cache'[k].from = cache[k].from /\ (cache[k].old => cache'[k].old)
    BY DEF CacheInv, TabShape, QueryFailed, Cached, Absent
  <1>7. UNCHANGED <<account, opened, live, data, entry, cookie, me, page, change, login,
                   logout, expiryActive, told, Due, ended>>
    BY DEF Due, CacheInv, QueryFailed, serverVars, authVars, history
  <1>8. ServerShape'
    BY <1>1, <1>2, <1>3, <1>4, <1>5, <1>6, <1>7 DEF CacheInv, ServerShape, Idle, Queries
  <1>9. TabShape'
    BY <1>1, <1>2, <1>3, <1>4, <1>5, <1>6, <1>7 DEF CacheInv, TabShape, Idle, Queries
  <1>10. SessionsExist'
    BY <1>1, <1>2, <1>3, <1>4, <1>5, <1>6, <1>7 DEF CacheInv, SessionsExist, ServerShape,
       Answered, Idle, Queries
  <1>11. LoginIsFresh'
    BY <1>1, <1>2, <1>3, <1>4, <1>5, <1>6, <1>7 DEF CacheInv, LoginIsFresh, ServerShape,
       SessionsExist, Answered, Unused, Idle, Queries
  <1>12. EndedIsOver'
    BY <1>1, <1>2, <1>3, <1>4, <1>5, <1>6, <1>7 DEF CacheInv, EndedIsOver, ServerShape,
       SessionsExist, Answered, Idle, Queries
  <1>13. FetchesAreObserved'
    BY <1>1, <1>2, <1>3, <1>4, <1>5, <1>6, <1>7 DEF CacheInv, FetchesAreObserved, Active,
       Idle, Queries
  <1>14. VersionsAgree'
    BY <1>1, <1>2, <1>3, <1>4, <1>5, <1>6, <1>7 DEF CacheInv, VersionsAgree, ServerShape,
       TabShape, SessionsExist, Answered, Executed, Idle, Queries
  <1>15. ChangeShape'
    BY <1>1, <1>2, <1>3, <1>4, <1>5, <1>6, <1>7 DEF CacheInv, ChangeShape, Answered,
       Executed, Idle, Queries
  <1>16. EditsComeFirst'
    BY <1>1, <1>2, <1>3, <1>4, <1>5, <1>6, <1>7 DEF CacheInv, EditsComeFirst, Answered,
       Executed, Idle, Queries
  <1>17. DueIsShown'
    BY <1>5, <1>6, <1>7, MarkingShows
  <1>18. QED
    BY <1>8, <1>9, <1>10, <1>11, <1>12, <1>13, <1>14, <1>15, <1>16, <1>17 DEF CacheInv

\* A query is answered with 401: the tab signs out.
LEMMA QueryUnauthorizedKeepsInv ==
  ASSUME CacheInv, NEW j \in Keys, QueryUnauthorized(j)
  PROVE  CacheInv'
  <1>1. me' = Guest
    BY SignedOutEffect DEF ReportExpiry, QueryUnauthorized
  <1>2. cache' = [k \in Keys |-> Absent]
    BY SignedOutEffect DEF ReportExpiry, QueryUnauthorized
  <1>3. fetch' = [k \in Queries |-> Idle]
    BY SignedOutEffect DEF ReportExpiry, QueryUnauthorized
  <1>4. fetch[j].phase = "asked" /\ fetch[j].as \notin live
    BY DEF CacheInv, QueryUnauthorized, ReportExpiry, Unauthorized, serverVars, authVars,
       history
  <1>5. ended' = ended \cup ({fetch[j].as} \cap Sessions)
    BY DEF CacheInv, QueryUnauthorized, ReportExpiry, Unauthorized, serverVars, authVars,
       history
  <1>6. fetch[j].as \in 0 .. opened
    BY <1>4 DEF CacheInv, SessionsExist, Queries, Idle
  <1>7. ended' \subseteq 1 .. opened
    BY <1>5, <1>6, SessionRange DEF CacheInv, ServerShape
  <1>8. ended' \cap live = {}
    BY <1>4, <1>5 DEF CacheInv, ServerShape, SessionsExist, EndedIsOver, LoginIsFresh,
       Unused, Answered, Idle, Queries, Sessions
  <1>9. Answered(login) => login.as \notin ended'
    BY <1>4, <1>5 DEF CacheInv, ServerShape, SessionsExist, EndedIsOver, LoginIsFresh,
       Unused, Answered, Idle, Queries, Sessions
  <1>10. UNCHANGED <<account, opened, live, data, entry, cookie, change, login, logout,
                   told, Due>>
    BY DEF Due, CacheInv, QueryUnauthorized, ReportExpiry, Unauthorized, serverVars, authVars,
       history
  <1>11. ServerShape'
    BY <1>1, <1>2, <1>3, <1>4, <1>5, <1>6, <1>7, <1>8, <1>9, <1>10, SessionRange DEF
       CacheInv, ServerShape, Idle, Absent, Queries
  <1>12. TabShape'
    BY <1>1, <1>2, <1>3, <1>4, <1>5, <1>6, <1>7, <1>8, <1>9, <1>10, RequestShape DEF
       CacheInv, TabShape, Idle, Absent, Queries
  <1>13. SessionsExist'
    BY <1>1, <1>2, <1>3, <1>4, <1>5, <1>6, <1>7, <1>8, <1>9, <1>10 DEF CacheInv,
       SessionsExist, ServerShape, Answered, Idle, Absent, Queries
  <1>14. LoginIsFresh'
    BY <1>1, <1>2, <1>3, <1>4, <1>5, <1>6, <1>7, <1>8, <1>9, <1>10, Apart DEF CacheInv,
       LoginIsFresh, ServerShape, SessionsExist, Answered, Unused, Idle, Absent, Queries
  <1>15. EndedIsOver'
    BY <1>1, <1>2, <1>3, <1>4, <1>5, <1>6, <1>7, <1>8, <1>9, <1>10, Apart, SessionRange DEF
       CacheInv, EndedIsOver, ServerShape, SessionsExist, Answered, Idle, Absent, Queries
  <1>16. FetchesAreObserved'
    BY <1>1, <1>2, <1>3, <1>4, <1>5, <1>6, <1>7, <1>8, <1>9, <1>10 DEF CacheInv,
       FetchesAreObserved, Active, Idle, Absent, Queries
  <1>17. VersionsAgree'
    BY <1>1, <1>2, <1>3, <1>4, <1>5, <1>6, <1>7, <1>8, <1>9, <1>10 DEF CacheInv,
       VersionsAgree, ServerShape, TabShape, SessionsExist, Answered, Executed, Idle,
       Absent, Queries
  <1>18. ChangeShape'
    BY <1>1, <1>2, <1>3, <1>4, <1>5, <1>6, <1>7, <1>8, <1>9, <1>10 DEF CacheInv,
       ChangeShape, Answered, Executed, Idle, Absent, Queries
  <1>19. EditsComeFirst'
    BY <1>1, <1>2, <1>3, <1>4, <1>5, <1>6, <1>7, <1>8, <1>9, <1>10 DEF CacheInv,
       EditsComeFirst, Answered, Executed, Idle, Absent, Queries
  <1>20. DueIsShown'
    BY <1>2, <1>10, ForgettingShows
  <1>21. QED
    BY <1>11, <1>12, <1>13, <1>14, <1>15, <1>16, <1>17, <1>18, <1>19, <1>20 DEF CacheInv

\* A change is answered with 401: the tab signs out.
LEMMA ChangeUnauthorizedKeepsInv ==
  ASSUME CacheInv, NEW n \in Changes, ChangeUnauthorized(n)
  PROVE  CacheInv'
  <1>1. /\ me' = Guest
        /\ cache' = [k \in Keys |-> Absent]
        /\ fetch' = [k \in Queries |-> Idle]
        /\ change[n].request.phase = "asked"
        /\ change[n].request.as \notin live
        /\ ended' = ended \cup ({change[n].request.as} \cap Sessions)
        /\ change[n].request.as \in 0 .. opened
        /\ ended' \subseteq 1 .. opened
        /\ ended' \cap live = {}
        /\ Answered(login) => login.as \notin ended'
        /\ \A m \in Changes : /\ change'[m].kind = change[m].kind
                             /\ change'[m].request \in {Idle, change[m].request}
        /\ change' \in [Changes -> [kind : Kinds \cup {"none"}, request : Requested]]
        /\ change'[n].kind = change[n].kind
        /\ change'[n].request = Idle
        /\ \A m \in Changes : m # n => change'[m] = change[m]
        /\ UNCHANGED <<account, opened, live, data, entry, cookie, login, logout, told, Due>>
    <2>1. me' = Guest
      BY SignedOutEffect DEF ReportExpiry, ChangeUnauthorized
    <2>2. cache' = [k \in Keys |-> Absent]
      BY SignedOutEffect DEF ReportExpiry, ChangeUnauthorized
    <2>3. fetch' = [k \in Queries |-> Idle]
      BY SignedOutEffect DEF ReportExpiry, ChangeUnauthorized
    <2>4. change[n].request.phase = "asked"
      BY DEF CacheInv, ChangeUnauthorized, ReportExpiry, Unauthorized, serverVars, authVars,
         history
    <2>5. change[n].request.as \notin live
      BY DEF CacheInv, ChangeUnauthorized, ReportExpiry, Unauthorized, serverVars, authVars,
         history
    <2>6. ended' = ended \cup ({change[n].request.as} \cap Sessions)
      BY DEF CacheInv, ChangeUnauthorized, ReportExpiry, Unauthorized, serverVars, authVars,
         history
    <2>7. change[n].request.as \in 0 .. opened
      BY <2>4 DEF CacheInv, SessionsExist, Idle
    <2>8. ended' \subseteq 1 .. opened
      BY <2>6, <2>7, SessionRange DEF CacheInv, ServerShape
    <2>9. ended' \cap live = {}
      BY <2>4, <2>5, <2>6 DEF CacheInv, ServerShape, SessionsExist, EndedIsOver,
         LoginIsFresh, Unused, Answered, Idle, Queries, Sessions
    <2>10. Answered(login) => login.as \notin ended'
      BY <2>4, <2>5, <2>6 DEF CacheInv, ServerShape, SessionsExist, EndedIsOver,
         LoginIsFresh, Unused, Answered, Idle, Queries, Sessions
    <2>11. \A m \in Changes : /\ change'[m].kind = change[m].kind
                            /\ change'[m].request \in {Idle, change[m].request}
      BY DEF CacheInv, TabShape, ChangeUnauthorized, Done
    <2>12. change' \in [Changes -> [kind : Kinds \cup {"none"}, request : Requested]]
      BY RequestShape DEF CacheInv, TabShape, ChangeUnauthorized, Done
    <2>13. change'[n].kind = change[n].kind
      BY DEF CacheInv, TabShape, ChangeUnauthorized, Done
    <2>14. change'[n].request = Idle
      BY DEF CacheInv, TabShape, ChangeUnauthorized, Done
    <2>15. \A m \in Changes : m # n => change'[m] = change[m]
      BY DEF CacheInv, TabShape, ChangeUnauthorized, Done
    <2>16. UNCHANGED <<account, opened, live, data, entry, cookie, login, logout, told, Due>>
      BY DEF Due, CacheInv, ChangeUnauthorized, ReportExpiry, Unauthorized, serverVars, authVars,
         history
    <2>17. QED
      BY <2>1, <2>2, <2>3, <2>4, <2>5, <2>6, <2>7, <2>8, <2>9, <2>10, <2>11, <2>12, <2>13,
         <2>14, <2>15, <2>16
  <1>2. ServerShape'
    BY <1>1, SessionRange DEF CacheInv, ServerShape, Idle, Absent, Queries
  <1>3. TabShape'
    BY <1>1, RequestShape DEF CacheInv, TabShape, Idle, Absent, Queries
  <1>4. SessionsExist'
    BY <1>1 DEF CacheInv, SessionsExist, ServerShape, Answered, Idle, Absent, Queries
  <1>5. LoginIsFresh'
    BY <1>1, Apart DEF CacheInv, LoginIsFresh, ServerShape, SessionsExist, Answered, Unused,
       Idle, Absent, Queries
  <1>6. EndedIsOver'
    BY <1>1, Apart, SessionRange DEF CacheInv, EndedIsOver, ServerShape, SessionsExist,
       Answered, Idle, Absent, Queries
  <1>7. FetchesAreObserved'
    BY <1>1 DEF CacheInv, FetchesAreObserved, Active, Idle, Absent, Queries
  <1>8. VersionsAgree'
    BY <1>1 DEF CacheInv, VersionsAgree, ServerShape, TabShape, SessionsExist, Answered,
       Executed, Idle, Absent, Queries
  <1>9. ChangeShape'
    BY <1>1 DEF CacheInv, ChangeShape, Answered, Executed, Idle, Absent, Queries
  <1>10. EditsComeFirst'
    <2>1. /\ \A m \in Changes : Executed(m)' => Executed(m) /\ change'[m] = change[m]
          /\ UNCHANGED <<account, entry, Due>>
      BY <1>1 DEF Executed, Answered, Idle
    <2>2. QED
      BY <2>1 DEF CacheInv, EditsComeFirst
  <1>11. DueIsShown'
    BY <1>1, ForgettingShows
  <1>12. QED
    BY <1>2, <1>3, <1>4, <1>5, <1>6, <1>7, <1>8, <1>9, <1>10, <1>11 DEF CacheInv

\* A logout ends in the tab, answered or not.
LEMMA LogoutAnsweredKeepsInv ==
  ASSUME CacheInv, LogoutAnswered
  PROVE  CacheInv'
  <1>1. me' = Guest
    BY SignedOutEffect DEF LogoutAnswered
  <1>2. cache' = [k \in Keys |-> Absent]
    BY SignedOutEffect DEF LogoutAnswered
  <1>3. fetch' = [k \in Queries |-> Idle]
    BY SignedOutEffect DEF LogoutAnswered
  <1>4. logout' = Idle
    BY DEF CacheInv, LogoutAnswered, Answered, serverVars, authVars, history
  <1>5. \/ cookie' = cookie /\ ended' = ended
        \/ /\ Answered(logout) /\ cookie' = 0
           /\ ended' = ended \cup ({logout.as} \cap Sessions)
    BY DEF CacheInv, LogoutAnswered, Answered, serverVars, authVars, history
  <1>6. Answered(logout) => logout.as \in 0 .. opened
    BY DEF CacheInv, SessionsExist, Answered, Idle
  <1>7. ended' \subseteq 1 .. opened
    BY <1>5, <1>6, SessionRange DEF CacheInv, ServerShape
  <1>8. ended' \cap live = {}
    BY <1>5 DEF CacheInv, ServerShape, SessionsExist, EndedIsOver, LoginIsFresh, Unused,
       Answered, Idle, Queries, Sessions
  <1>9. Answered(login) => login.as \notin ended'
    BY <1>5 DEF CacheInv, ServerShape, SessionsExist, EndedIsOver, LoginIsFresh, Unused,
       Answered, Idle, Queries, Sessions
  <1>10. UNCHANGED <<account, opened, live, data, entry, change, login, told, Due>>
    BY DEF Due, CacheInv, LogoutAnswered, Answered, serverVars, authVars, history
  <1>11. ServerShape'
    BY <1>1, <1>2, <1>3, <1>4, <1>5, <1>6, <1>7, <1>8, <1>9, <1>10, SessionRange DEF
       CacheInv, ServerShape, Idle, Absent, Queries
  <1>12. TabShape'
    BY <1>1, <1>2, <1>3, <1>4, <1>5, <1>6, <1>7, <1>8, <1>9, <1>10, RequestShape DEF
       CacheInv, TabShape, Idle, Absent, Queries
  <1>13. SessionsExist'
    BY <1>1, <1>2, <1>3, <1>4, <1>5, <1>6, <1>7, <1>8, <1>9, <1>10 DEF CacheInv,
       SessionsExist, ServerShape, Answered, Idle, Absent, Queries
  <1>14. LoginIsFresh'
    BY <1>1, <1>2, <1>3, <1>4, <1>5, <1>6, <1>7, <1>8, <1>9, <1>10, Apart DEF CacheInv,
       LoginIsFresh, ServerShape, SessionsExist, Answered, Unused, Idle, Absent, Queries
  <1>15. EndedIsOver'
    BY <1>1, <1>2, <1>3, <1>4, <1>5, <1>6, <1>7, <1>8, <1>9, <1>10, Apart, SessionRange DEF
       CacheInv, EndedIsOver, ServerShape, SessionsExist, Answered, Idle, Absent, Queries
  <1>16. FetchesAreObserved'
    BY <1>1, <1>2, <1>3, <1>4, <1>5, <1>6, <1>7, <1>8, <1>9, <1>10 DEF CacheInv,
       FetchesAreObserved, Active, Idle, Absent, Queries
  <1>17. VersionsAgree'
    BY <1>1, <1>2, <1>3, <1>4, <1>5, <1>6, <1>7, <1>8, <1>9, <1>10 DEF CacheInv,
       VersionsAgree, ServerShape, TabShape, SessionsExist, Answered, Executed, Idle,
       Absent, Queries
  <1>18. ChangeShape'
    BY <1>1, <1>2, <1>3, <1>4, <1>5, <1>6, <1>7, <1>8, <1>9, <1>10 DEF CacheInv,
       ChangeShape, Answered, Executed, Idle, Absent, Queries
  <1>19. EditsComeFirst'
    BY <1>1, <1>2, <1>3, <1>4, <1>5, <1>6, <1>7, <1>8, <1>9, <1>10 DEF CacheInv,
       EditsComeFirst, Answered, Executed, Idle, Absent, Queries
  <1>20. DueIsShown'
    BY <1>2, <1>10, ForgettingShows
  <1>21. QED
    BY <1>11, <1>12, <1>13, <1>14, <1>15, <1>16, <1>17, <1>18, <1>19, <1>20 DEF CacheInv

\* /auth/me is answered or fails.
LEMMA MeAnsweredKeepsInv ==
  ASSUME CacheInv, MeAnswered
  PROVE  CacheInv'
  <1>1. cookie' = cookie
    BY DEF MeAnswered
  <1>2. me' \in Users \cup {Guest, Unknown}
    BY SessionRange DEF CacheInv, ServerShape, SessionsExist, Answered, MeAnswered, Render,
       Queries
  <1>3. me' \in Users => Answered(fetch["me"])
    BY Apart DEF MeAnswered, Render, Answered
  <1>4. fetch' \in [Queries -> Requested]
    BY RequestShape, SessionRange, Apart DEF CacheInv, TabShape, MeAnswered, Render,
       Queries, Observed
  <1>5. fetch'["me"] = Idle
    BY Apart DEF CacheInv, TabShape, MeAnswered, Render, Queries, Observed
  <1>6. \A k \in Keys : fetch'[k] \in {Idle, fetch[k], Asked(cookie')}
    BY Apart, <1>1 DEF CacheInv, TabShape, MeAnswered, Render, Queries, Observed
  <1>7. \A k \in Keys : fetch'[k] # Idle => k \in Active'
    BY Apart DEF CacheInv, TabShape, MeAnswered, Render, Queries, Observed, Active
  <1>8. UNCHANGED <<account, opened, live, data, entry, cookie, cache, change, login,
                   logout, expiryActive, told, Due, ended>>
    BY DEF Due, CacheInv, MeAnswered, Render, serverVars, authVars, history
  <1>9. ServerShape'
    BY <1>1, <1>2, <1>3, <1>4, <1>5, <1>6, <1>7, <1>8 DEF CacheInv, ServerShape, Queries,
       Idle, Asked
  <1>10. TabShape'
    BY <1>1, <1>2, <1>3, <1>4, <1>5, <1>6, <1>7, <1>8 DEF CacheInv, TabShape, Queries, Idle,
       Asked
  <1>11. SessionsExist'
    BY <1>1, <1>2, <1>3, <1>4, <1>5, <1>6, <1>7, <1>8 DEF CacheInv, SessionsExist,
       ServerShape, Answered, Queries, Idle, Asked
  <1>12. LoginIsFresh'
    BY <1>1, <1>2, <1>3, <1>4, <1>5, <1>6, <1>7, <1>8 DEF CacheInv, LoginIsFresh,
       ServerShape, SessionsExist, Answered, Unused, Queries, Idle, Asked
  <1>13. EndedIsOver'
    BY <1>1, <1>2, <1>3, <1>4, <1>5, <1>6, <1>7, <1>8, Apart DEF CacheInv, EndedIsOver,
       ServerShape, SessionsExist, Answered, Queries, Idle, Asked
  <1>14. FetchesAreObserved'
    BY <1>1, <1>2, <1>3, <1>4, <1>5, <1>6, <1>7, <1>8 DEF CacheInv, FetchesAreObserved,
       Active, Queries, Idle, Asked
  <1>15. VersionsAgree'
    BY <1>1, <1>2, <1>3, <1>4, <1>5, <1>6, <1>7, <1>8 DEF CacheInv, VersionsAgree,
       ServerShape, TabShape, SessionsExist, Answered, Executed, Queries, Idle, Asked
  <1>16. ChangeShape'
    BY <1>1, <1>2, <1>3, <1>4, <1>5, <1>6, <1>7, <1>8 DEF CacheInv, ChangeShape, Answered,
       Executed, Queries, Idle, Asked
  <1>17. EditsComeFirst'
    BY <1>1, <1>2, <1>3, <1>4, <1>5, <1>6, <1>7, <1>8 DEF CacheInv, EditsComeFirst,
       Answered, Executed, Queries, Idle, Asked
  <1>18. DueIsShown'
    BY <1>1, <1>2, <1>3, <1>4, <1>5, <1>6, <1>7, <1>8 DEF CacheInv, DueIsShown,
       ServerShape, TabShape, Queries, Idle, Asked
  <1>19. QED
    BY <1>9, <1>10, <1>11, <1>12, <1>13, <1>14, <1>15, <1>16, <1>17, <1>18 DEF CacheInv

\* A login is answered or fails.
LEMMA LoginAnsweredKeepsInv ==
  ASSUME CacheInv, LoginAnswered
  PROVE  CacheInv'
  <1>1. login' = Idle /\ login' \in Requested
    BY RequestShape DEF LoginAnswered
  <1>2. \/ cookie' = cookie /\ me' = me
        \/ Answered(login) /\ cookie' = login.as /\ me' \in Users
    BY SessionRange DEF CacheInv, ServerShape, LoginIsFresh, Answered, LoginAnswered,
       Render, Sessions
  <1>3. cookie' \in 0 .. opened /\ cookie' \in 0 .. MaxSessions
    BY <1>2, SessionRange DEF CacheInv, LoginIsFresh
  <1>4. fetch' \in [Queries -> Requested]
    BY RequestShape, SessionRange, Apart DEF CacheInv, TabShape, LoginAnswered, Render,
       Queries, Observed, LoginIsFresh, Answered
  <1>5. fetch'["me"] = fetch["me"]
    BY Apart DEF CacheInv, TabShape, LoginAnswered, Render, Queries, Observed
  <1>6. \A k \in Keys : fetch'[k] \in {Idle, fetch[k], Asked(cookie')}
    BY Apart DEF CacheInv, TabShape, LoginAnswered, Render, Queries, Observed
  <1>7. \A k \in Keys : fetch'[k] # Idle => k \in Active'
    BY Apart DEF CacheInv, TabShape, LoginAnswered, Render, Queries, Observed, Active,
       FetchesAreObserved
  <1>8. UNCHANGED <<account, opened, live, data, entry, cache, change, logout, told, Due,
                   ended>>
    BY DEF Due, CacheInv, LoginAnswered, Render, serverVars, authVars, history
  <1>9. ServerShape'
    BY <1>1, <1>2, <1>3, <1>4, <1>5, <1>6, <1>7, <1>8 DEF CacheInv, ServerShape, Queries,
       Idle, Asked
  <1>10. TabShape'
    BY <1>1, <1>2, <1>3, <1>4, <1>5, <1>6, <1>7, <1>8 DEF CacheInv, TabShape, Queries, Idle,
       Asked
  <1>11. SessionsExist'
    BY <1>1, <1>2, <1>3, <1>4, <1>5, <1>6, <1>7, <1>8 DEF CacheInv, SessionsExist,
       ServerShape, Answered, Queries, Idle, Asked
  <1>12. LoginIsFresh'
    BY <1>1, <1>2, <1>3, <1>4, <1>5, <1>6, <1>7, <1>8 DEF CacheInv, LoginIsFresh,
       ServerShape, SessionsExist, Answered, Unused, Queries, Idle, Asked
  <1>13. EndedIsOver'
    BY <1>1, <1>2, <1>3, <1>4, <1>5, <1>6, <1>7, <1>8, Apart DEF CacheInv, EndedIsOver,
       ServerShape, SessionsExist, Answered, Queries, Idle, Asked, LoginIsFresh
  <1>14. FetchesAreObserved'
    BY <1>1, <1>2, <1>3, <1>4, <1>5, <1>6, <1>7, <1>8 DEF CacheInv, FetchesAreObserved,
       Active, Queries, Idle, Asked
  <1>15. VersionsAgree'
    BY <1>1, <1>2, <1>3, <1>4, <1>5, <1>6, <1>7, <1>8 DEF CacheInv, VersionsAgree,
       ServerShape, TabShape, SessionsExist, Answered, Executed, Queries, Idle, Asked
  <1>16. ChangeShape'
    BY <1>1, <1>2, <1>3, <1>4, <1>5, <1>6, <1>7, <1>8 DEF CacheInv, ChangeShape, Answered,
       Executed, Queries, Idle, Asked
  <1>17. EditsComeFirst'
    BY <1>1, <1>2, <1>3, <1>4, <1>5, <1>6, <1>7, <1>8 DEF CacheInv, EditsComeFirst,
       Answered, Executed, Queries, Idle, Asked
  <1>18. DueIsShown'
    BY <1>1, <1>2, <1>3, <1>4, <1>5, <1>6, <1>7, <1>8 DEF CacheInv, DueIsShown,
       ServerShape, TabShape, Queries, Idle, Asked
  <1>19. QED
    BY <1>9, <1>10, <1>11, <1>12, <1>13, <1>14, <1>15, <1>16, <1>17, <1>18 DEF CacheInv

\* A change is submitted.
LEMMA SubmitKeepsInv ==
  ASSUME CacheInv, NEW n \in Changes, NEW kind \in Kinds, Submit(n, kind)
  PROVE  CacheInv'
  <1>1. change' \in [Changes -> [kind : Kinds \cup {"none"}, request : Requested]]
    BY RequestShape, SessionRange DEF CacheInv, TabShape, Submit
  <1>2. change'[n] = [kind |-> kind, request |-> Asked(cookie)]
    BY DEF CacheInv, TabShape, Submit
  <1>3. \A m \in Changes : m # n => change'[m] = change[m]
    BY DEF CacheInv, TabShape, Submit
  <1>4. UNCHANGED <<account, opened, live, data, entry, cookie, me, page, cache, fetch,
                   login, logout, expiryActive, told, Due, ended>>
    BY DEF Due, CacheInv, Submit, serverVars, authVars, history
  <1>5. ServerShape'
    BY <1>1, <1>2, <1>3, <1>4 DEF CacheInv, ServerShape, Idle, Asked
  <1>6. TabShape'
    BY <1>1, <1>2, <1>3, <1>4 DEF CacheInv, TabShape, Idle, Asked
  <1>7. SessionsExist'
    BY <1>1, <1>2, <1>3, <1>4 DEF CacheInv, SessionsExist, ServerShape, Answered, Idle,
       Asked
  <1>8. LoginIsFresh'
    BY <1>1, <1>2, <1>3, <1>4 DEF CacheInv, LoginIsFresh, ServerShape, SessionsExist,
       Answered, Unused, Idle, Asked
  <1>9. EndedIsOver'
    BY <1>1, <1>2, <1>3, <1>4 DEF CacheInv, EndedIsOver, ServerShape, SessionsExist,
       Answered, Idle, Asked
  <1>10. FetchesAreObserved'
    BY <1>1, <1>2, <1>3, <1>4 DEF CacheInv, FetchesAreObserved, Active, Idle, Asked
  <1>11. VersionsAgree'
    BY <1>1, <1>2, <1>3, <1>4 DEF CacheInv, VersionsAgree, ServerShape, TabShape,
       SessionsExist, Answered, Executed, Idle, Asked
  <1>12. ChangeShape'
    BY <1>1, <1>2, <1>3, <1>4 DEF CacheInv, ChangeShape, Answered, Executed, Idle, Asked
  <1>13. EditsComeFirst'
    BY <1>1, <1>2, <1>3, <1>4 DEF CacheInv, EditsComeFirst, Answered, Executed, Idle, Asked
  <1>14. DueIsShown'
    BY <1>1, <1>2, <1>3, <1>4 DEF CacheInv, DueIsShown, ServerShape, TabShape, Idle, Asked
  <1>15. QED
    BY <1>5, <1>6, <1>7, <1>8, <1>9, <1>10, <1>11, <1>12, <1>13, <1>14 DEF CacheInv

\* A change fails, or its answer is lost.
LEMMA ChangeFailedKeepsInv ==
  ASSUME CacheInv, NEW n \in Changes, ChangeFailed(n)
  PROVE  CacheInv'
  <1>1. \A m \in Changes : /\ change'[m].kind = change[m].kind
                          /\ change'[m].request \in {Idle, change[m].request}
    BY DEF CacheInv, TabShape, ChangeFailed, Done
  <1>2. change' \in [Changes -> [kind : Kinds \cup {"none"}, request : Requested]]
    BY RequestShape DEF CacheInv, TabShape, ChangeFailed, Done
  <1>3. change'[n].kind = change[n].kind
    BY DEF CacheInv, TabShape, ChangeFailed, Done
  <1>4. change'[n].request = Idle
    BY DEF CacheInv, TabShape, ChangeFailed, Done
  <1>5. \A m \in Changes : m # n => change'[m] = change[m]
    BY DEF CacheInv, TabShape, ChangeFailed, Done
  <1>6. UNCHANGED <<account, opened, live, data, entry, cookie, me, page, cache, fetch,
                   login, logout, expiryActive, told, Due, ended>>
    BY DEF Due, CacheInv, ChangeFailed, serverVars, authVars, history
  <1>7. ServerShape'
    BY <1>1, <1>2, <1>3, <1>4, <1>5, <1>6 DEF CacheInv, ServerShape, Idle
  <1>8. TabShape'
    BY <1>1, <1>2, <1>3, <1>4, <1>5, <1>6 DEF CacheInv, TabShape, Idle
  <1>9. SessionsExist'
    BY <1>1, <1>2, <1>3, <1>4, <1>5, <1>6 DEF CacheInv, SessionsExist, ServerShape,
       Answered, Idle
  <1>10. LoginIsFresh'
    BY <1>1, <1>2, <1>3, <1>4, <1>5, <1>6 DEF CacheInv, LoginIsFresh, ServerShape,
       SessionsExist, Answered, Unused, Idle
  <1>11. EndedIsOver'
    BY <1>1, <1>2, <1>3, <1>4, <1>5, <1>6 DEF CacheInv, EndedIsOver, ServerShape,
       SessionsExist, Answered, Idle
  <1>12. FetchesAreObserved'
    BY <1>1, <1>2, <1>3, <1>4, <1>5, <1>6 DEF CacheInv, FetchesAreObserved, Active, Idle
  <1>13. VersionsAgree'
    BY <1>1, <1>2, <1>3, <1>4, <1>5, <1>6 DEF CacheInv, VersionsAgree, ServerShape,
       TabShape, SessionsExist, Answered, Executed, Idle
  <1>14. ChangeShape'
    BY <1>1, <1>2, <1>3, <1>4, <1>5, <1>6 DEF CacheInv, ChangeShape, Answered, Executed,
       Idle
  <1>15. EditsComeFirst'
    BY <1>1, <1>2, <1>3, <1>4, <1>5, <1>6 DEF CacheInv, EditsComeFirst, Answered, Executed,
       Idle
  <1>16. DueIsShown'
    BY <1>1, <1>2, <1>3, <1>4, <1>5, <1>6 DEF CacheInv, DueIsShown, ServerShape, TabShape,
       Idle
  <1>17. QED
    BY <1>7, <1>8, <1>9, <1>10, <1>11, <1>12, <1>13, <1>14, <1>15, <1>16 DEF CacheInv

\* A logout is sent.
LEMMA ClickLogoutKeepsInv ==
  ASSUME CacheInv, ClickLogout
  PROVE  CacheInv'
  <1>1. logout' = Asked(cookie)
    BY DEF CacheInv, ClickLogout, serverVars, authVars, history
  <1>2. UNCHANGED <<account, opened, live, data, entry, cookie, me, page, cache, fetch,
                   change, login, expiryActive, told, Due, ended>>
    BY DEF Due, CacheInv, ClickLogout, serverVars, authVars, history
  <1>3. ServerShape'
    BY <1>1, <1>2 DEF CacheInv, ServerShape, Idle, Asked
  <1>4. TabShape'
    BY <1>1, <1>2, RequestShape, SessionRange DEF CacheInv, TabShape, Idle, Asked
  <1>5. SessionsExist'
    BY <1>1, <1>2, SessionRange DEF CacheInv, SessionsExist, ServerShape, Answered, Idle,
       Asked
  <1>6. LoginIsFresh'
    BY <1>1, <1>2 DEF CacheInv, LoginIsFresh, ServerShape, SessionsExist, Answered, Unused,
       Idle, Asked
  <1>7. EndedIsOver'
    BY <1>1, <1>2 DEF CacheInv, EndedIsOver, ServerShape, SessionsExist, Answered, Idle,
       Asked
  <1>8. FetchesAreObserved'
    BY <1>1, <1>2 DEF CacheInv, FetchesAreObserved, Active, Idle, Asked
  <1>9. VersionsAgree'
    BY <1>1, <1>2 DEF CacheInv, VersionsAgree, ServerShape, TabShape, SessionsExist,
       Answered, Executed, Idle, Asked
  <1>10. ChangeShape'
    BY <1>1, <1>2 DEF CacheInv, ChangeShape, Answered, Executed, Idle, Asked
  <1>11. EditsComeFirst'
    BY <1>1, <1>2 DEF CacheInv, EditsComeFirst, Answered, Executed, Idle, Asked
  <1>12. DueIsShown'
    BY <1>1, <1>2 DEF CacheInv, DueIsShown, ServerShape, TabShape, Idle, Asked
  <1>13. QED
    BY <1>3, <1>4, <1>5, <1>6, <1>7, <1>8, <1>9, <1>10, <1>11, <1>12 DEF CacheInv

\* The server ends a session at its user's request.
LEMMA ServerAnswersLogoutKeepsInv ==
  ASSUME CacheInv, ServerAnswersLogout
  PROVE  CacheInv'
  <1>1. logout # Idle
    BY DEF CacheInv, ServerAnswersLogout, Idle, serverVars, authVars, history
  <1>2. live' = live \ {logout.as}
    BY DEF CacheInv, ServerAnswersLogout, Idle, serverVars, authVars, history
  <1>3. logout' = Answer(logout.as, "ok", 0)
    BY DEF CacheInv, ServerAnswersLogout, Idle, serverVars, authVars, history
  <1>4. logout' \in Requested
    BY RequestShape, <1>1, <1>3 DEF CacheInv, TabShape
  <1>5. UNCHANGED <<account, opened, data, entry, cookie, me, page, cache, fetch, change,
                   login, expiryActive, told, Due, ended>>
    BY DEF Due, CacheInv, ServerAnswersLogout, Idle, serverVars, authVars, history
  <1>6. ServerShape'
    BY <1>1, <1>2, <1>3, <1>4, <1>5 DEF CacheInv, ServerShape, Idle, Answer
  <1>7. TabShape'
    BY <1>1, <1>2, <1>3, <1>4, <1>5 DEF CacheInv, TabShape, Idle, Answer
  <1>8. SessionsExist'
    BY <1>1, <1>2, <1>3, <1>4, <1>5 DEF CacheInv, SessionsExist, ServerShape, Answered,
       Idle, Answer
  <1>9. LoginIsFresh'
    BY <1>1, <1>2, <1>3, <1>4, <1>5 DEF CacheInv, LoginIsFresh, ServerShape, SessionsExist,
       Answered, Unused, Idle, Answer
  <1>10. EndedIsOver'
    BY <1>1, <1>2, <1>3, <1>4, <1>5 DEF CacheInv, EndedIsOver, ServerShape, SessionsExist,
       Answered, Idle, Answer
  <1>11. FetchesAreObserved'
    BY <1>1, <1>2, <1>3, <1>4, <1>5 DEF CacheInv, FetchesAreObserved, Active, Idle, Answer
  <1>12. VersionsAgree'
    BY <1>1, <1>2, <1>3, <1>4, <1>5 DEF CacheInv, VersionsAgree, ServerShape, TabShape,
       SessionsExist, Answered, Executed, Idle, Answer
  <1>13. ChangeShape'
    BY <1>1, <1>2, <1>3, <1>4, <1>5 DEF CacheInv, ChangeShape, Answered, Executed, Idle,
       Answer
  <1>14. EditsComeFirst'
    BY <1>1, <1>2, <1>3, <1>4, <1>5 DEF CacheInv, EditsComeFirst, Answered, Executed, Idle,
       Answer
  <1>15. DueIsShown'
    BY <1>1, <1>2, <1>3, <1>4, <1>5 DEF CacheInv, DueIsShown, ServerShape, TabShape, Idle,
       Answer
  <1>16. QED
    BY <1>6, <1>7, <1>8, <1>9, <1>10, <1>11, <1>12, <1>13, <1>14, <1>15 DEF CacheInv

\* A login is sent.
LEMMA SubmitLoginKeepsInv ==
  ASSUME CacheInv, SubmitLogin
  PROVE  CacheInv'
  <1>1. opened < MaxSessions
    BY DEF CacheInv, SubmitLogin, serverVars, authVars, history
  <1>2. login' = Asked(cookie)
    BY DEF CacheInv, SubmitLogin, serverVars, authVars, history
  <1>3. login' \in Requested
    BY RequestShape, SessionRange DEF CacheInv, SubmitLogin
  <1>4. UNCHANGED <<account, opened, live, data, entry, cookie, me, page, cache, fetch,
                   change, logout, expiryActive, told, Due, ended>>
    BY DEF Due, CacheInv, SubmitLogin, serverVars, authVars, history
  <1>5. ServerShape'
    BY <1>1, <1>2, <1>3, <1>4 DEF CacheInv, ServerShape, Asked
  <1>6. TabShape'
    BY <1>1, <1>2, <1>3, <1>4 DEF CacheInv, TabShape, Asked
  <1>7. SessionsExist'
    BY <1>1, <1>2, <1>3, <1>4 DEF CacheInv, SessionsExist, ServerShape, Answered, Asked
  <1>8. LoginIsFresh'
    BY <1>1, <1>2, <1>3, <1>4 DEF CacheInv, LoginIsFresh, ServerShape, SessionsExist,
       Answered, Unused, Asked
  <1>9. EndedIsOver'
    BY <1>1, <1>2, <1>3, <1>4 DEF CacheInv, EndedIsOver, ServerShape, SessionsExist,
       Answered, Asked
  <1>10. FetchesAreObserved'
    BY <1>1, <1>2, <1>3, <1>4 DEF CacheInv, FetchesAreObserved, Active, Asked
  <1>11. VersionsAgree'
    BY <1>1, <1>2, <1>3, <1>4 DEF CacheInv, VersionsAgree, ServerShape, TabShape,
       SessionsExist, Answered, Executed, Asked
  <1>12. ChangeShape'
    BY <1>1, <1>2, <1>3, <1>4 DEF CacheInv, ChangeShape, Answered, Executed, Asked
  <1>13. EditsComeFirst'
    BY <1>1, <1>2, <1>3, <1>4 DEF CacheInv, EditsComeFirst, Answered, Executed, Asked
  <1>14. DueIsShown'
    BY <1>1, <1>2, <1>3, <1>4 DEF CacheInv, DueIsShown, ServerShape, TabShape, Asked
  <1>15. QED
    BY <1>5, <1>6, <1>7, <1>8, <1>9, <1>10, <1>11, <1>12, <1>13, <1>14 DEF CacheInv

\* The server opens a session.
LEMMA ServerAnswersLoginKeepsInv ==
  ASSUME CacheInv, ServerAnswersLogin
  PROVE  CacheInv'
  <1>1. opened' = opened + 1
    BY DEF CacheInv, ServerAnswersLogin, serverVars, authVars, history
  <1>2. live' = live \cup {opened'}
    BY DEF CacheInv, ServerAnswersLogin, serverVars, authVars, history
  <1>3. login' = Answer(opened', "ok", 0)
    BY DEF CacheInv, ServerAnswersLogin, serverVars, authVars, history
  <1>4. opened' \in Sessions
    BY <1>1, SessionRange DEF CacheInv, LoginIsFresh, ServerAnswersLogin, Sessions
  <1>5. login' \in Requested
    BY <1>3, <1>4, RequestShape, SessionRange DEF CacheInv, Sessions
  <1>6. \A s \in 0 .. opened : s \in 0 .. opened' /\ s # opened'
    BY <1>1, SessionRange DEF CacheInv
  <1>7. UNCHANGED <<account, data, entry, cookie, me, page, cache, fetch, change, logout,
                   expiryActive, told, Due, ended>>
    BY DEF Due, CacheInv, ServerAnswersLogin, serverVars, authVars, history
  <1>8. ServerShape'
    BY <1>1, <1>2, <1>3, <1>4, <1>5, <1>6, <1>7, SessionRange DEF CacheInv, ServerShape,
       Answer, Idle
  <1>9. TabShape'
    BY <1>1, <1>2, <1>3, <1>4, <1>5, <1>6, <1>7 DEF CacheInv, TabShape, Answer, Idle
  <1>10. SessionsExist'
    BY <1>1, <1>2, <1>3, <1>4, <1>5, <1>6, <1>7, SessionRange DEF CacheInv, SessionsExist,
       ServerShape, Answered, Answer, Idle
  <1>11. LoginIsFresh'
    BY <1>1, <1>2, <1>3, <1>4, <1>5, <1>6, <1>7, SessionRange DEF CacheInv, LoginIsFresh,
       ServerShape, SessionsExist, Answered, Unused, Answer, Idle
  <1>12. EndedIsOver'
    BY <1>1, <1>2, <1>3, <1>4, <1>5, <1>6, <1>7 DEF CacheInv, EndedIsOver, ServerShape,
       SessionsExist, Answered, Answer, Idle
  <1>13. FetchesAreObserved'
    BY <1>1, <1>2, <1>3, <1>4, <1>5, <1>6, <1>7 DEF CacheInv, FetchesAreObserved, Active,
       Answer, Idle
  <1>14. VersionsAgree'
    BY <1>1, <1>2, <1>3, <1>4, <1>5, <1>6, <1>7 DEF CacheInv, VersionsAgree, ServerShape,
       TabShape, SessionsExist, Answered, Executed, Answer, Idle
  <1>15. ChangeShape'
    BY <1>1, <1>2, <1>3, <1>4, <1>5, <1>6, <1>7 DEF CacheInv, ChangeShape, Answered,
       Executed, Answer, Idle
  <1>16. EditsComeFirst'
    BY <1>1, <1>2, <1>3, <1>4, <1>5, <1>6, <1>7 DEF CacheInv, EditsComeFirst, Answered,
       Executed, Answer, Idle
  <1>17. DueIsShown'
    BY <1>1, <1>2, <1>3, <1>4, <1>5, <1>6, <1>7 DEF CacheInv, DueIsShown, ServerShape,
       TabShape, Answer, Idle
  <1>18. QED
    BY <1>8, <1>9, <1>10, <1>11, <1>12, <1>13, <1>14, <1>15, <1>16, <1>17 DEF CacheInv

\* A session ends on the server.
LEMMA SessionEndsKeepsInv ==
  ASSUME CacheInv, NEW z \in Sessions, SessionEnds(z)
  PROVE  CacheInv'
  <1>1. live' = live \ {z}
    BY DEF CacheInv, SessionEnds, serverVars, authVars, history
  <1>2. UNCHANGED <<account, opened, data, entry, cookie, me, page, cache, fetch, change,
                   login, logout, expiryActive, told, Due, ended>>
    BY DEF Due, CacheInv, SessionEnds, serverVars, authVars, history
  <1>3. ServerShape'
    BY <1>1, <1>2 DEF CacheInv, ServerShape
  <1>4. TabShape'
    BY <1>1, <1>2 DEF CacheInv, TabShape
  <1>5. SessionsExist'
    BY <1>1, <1>2 DEF CacheInv, SessionsExist, ServerShape, Answered
  <1>6. LoginIsFresh'
    BY <1>1, <1>2 DEF CacheInv, LoginIsFresh, ServerShape, SessionsExist, Answered, Unused
  <1>7. EndedIsOver'
    BY <1>1, <1>2 DEF CacheInv, EndedIsOver, ServerShape, SessionsExist, Answered
  <1>8. FetchesAreObserved'
    BY <1>1, <1>2 DEF CacheInv, FetchesAreObserved, Active
  <1>9. VersionsAgree'
    BY <1>1, <1>2 DEF CacheInv, VersionsAgree, ServerShape, TabShape, SessionsExist,
       Answered, Executed
  <1>10. ChangeShape'
    BY <1>1, <1>2 DEF CacheInv, ChangeShape, Answered, Executed
  <1>11. EditsComeFirst'
    BY <1>1, <1>2 DEF CacheInv, EditsComeFirst, Answered, Executed
  <1>12. DueIsShown'
    BY <1>1, <1>2 DEF CacheInv, DueIsShown, ServerShape, TabShape
  <1>13. QED
    BY <1>3, <1>4, <1>5, <1>6, <1>7, <1>8, <1>9, <1>10, <1>11, <1>12 DEF CacheInv

\* A change is refused: the entry and the dashboard are read again.
LEMMA ChangeRefusedKeepsInv ==
  ASSUME CacheInv, NEW n \in Changes, ChangeRefused(n)
  PROVE  CacheInv'
  <1>1. /\ fetch' \in [Queries -> Requested]
        /\ fetch'["me"] = fetch["me"]
        /\ \A k \in Keys : fetch'[k] \in {fetch[k], Asked(cookie)}
        /\ \A k \in Keys : fetch'[k] # Idle => k \in Active
        /\ cache' \in [Keys -> {Absent} \cup Cached]
        /\ \A k \in Keys :
             /\ cache'[k].held = cache[k].held
             /\ cache[k].held =>
                  /\ cache'[k].as = cache[k].as /\ cache'[k].version = cache[k].version
                  /\ cache'[k].from = cache[k].from /\ (cache[k].old => cache'[k].old)
        /\ \A m \in Changes : change'[m].kind = change[m].kind
        /\ change' \in [Changes -> [kind : Kinds \cup {"none"}, request : Requested]]
        /\ change'[n].request = Idle
        /\ \A m \in Changes : change'[m].request # Idle => change'[m] = change[m]
        /\ \A k \in Queries : Answered(fetch'[k]) => fetch'[k] = fetch[k]
        /\ \A k \in Queries : fetch'[k] # Idle => fetch'[k] = fetch[k] \/ fetch'[k].as = cookie
        /\ \A m \in Changes : Answered(change'[m].request) => change'[m] = change[m]
        /\ \A m \in Changes : Executed(m)' => Executed(m) /\ change'[m] = change[m]
        /\ UNCHANGED <<account, opened, live, data, entry, cookie, me, page, login, logout,
                      expiryActive, told, Due, ended>>
    <2>1. fetch' \in [Queries -> Requested]
      BY RequestShape, SessionRange DEF ChangeRefused, CacheInv, TabShape, Invalidate
    <2>2. fetch'["me"] = fetch["me"]
      BY Apart DEF ChangeRefused, Queries, CacheInv, TabShape, Invalidate, Active, Observed
    <2>3. \A k \in Keys : fetch'[k] \in {fetch[k], Asked(cookie)}
      BY DEF ChangeRefused, Queries, CacheInv, TabShape, Invalidate
    <2>4. \A k \in Keys : fetch'[k] # Idle => k \in Active
      BY DEF ChangeRefused, Queries, FetchesAreObserved, CacheInv, TabShape, Invalidate
    <2>5. cache' \in [Keys -> {Absent} \cup Cached]
      BY CachedShape DEF ChangeRefused, Marked, CacheInv, TabShape, Invalidate
    <2>6. \A k \in Keys :
            /\ cache'[k].held = cache[k].held
            /\ cache[k].held =>
                 /\ cache'[k].as = cache[k].as /\ cache'[k].version = cache[k].version
                 /\ cache'[k].from = cache[k].from /\ (cache[k].old => cache'[k].old)
      BY CachedShape DEF ChangeRefused, Cached, Absent, CacheInv, TabShape, Invalidate
    <2>7. \A m \in Changes : change'[m].kind = change[m].kind
      BY DEF CacheInv, TabShape, ChangeRefused, Done
    <2>8. change' \in [Changes -> [kind : Kinds \cup {"none"}, request : Requested]]
      BY RequestShape DEF CacheInv, TabShape, ChangeRefused, Done
    <2>9. change'[n].request = Idle
      BY DEF CacheInv, TabShape, ChangeRefused, Done
    <2>10. \A m \in Changes : change'[m].request # Idle => change'[m] = change[m]
      BY <2>9 DEF CacheInv, TabShape, ChangeRefused, Done
    <2>11. \A k \in Queries : Answered(fetch'[k]) => fetch'[k] = fetch[k]
      BY <2>2, <2>3 DEF Queries, Answered, Idle, Asked
    <2>12. \A k \in Queries : fetch'[k] # Idle => fetch'[k] = fetch[k] \/ fetch'[k].as = cookie
      BY <2>2, <2>3 DEF Queries, Idle, Asked
    <2>13. \A m \in Changes : Answered(change'[m].request) => change'[m] = change[m]
      BY <2>9, <2>10 DEF Answered, Idle
    <2>14. \A m \in Changes : Executed(m)' => Executed(m) /\ change'[m] = change[m]
      BY <2>13 DEF Executed
    <2>15. UNCHANGED <<account, opened, live, data, entry, cookie, me, page, login, logout,
                     expiryActive, told, Due, ended>>
      BY DEF Due, CacheInv, ChangeRefused, serverVars, authVars, history
    <2>16. QED
      BY <2>1, <2>2, <2>3, <2>4, <2>5, <2>6, <2>7, <2>8, <2>9, <2>10, <2>11, <2>12, <2>13,
         <2>14, <2>15
  <1>2. ServerShape'
    BY <1>1 DEF CacheInv, ServerShape
  <1>3. TabShape'
    BY <1>1 DEF CacheInv, TabShape
  <1>4. SessionsExist'
    BY <1>1, SessionRange DEF CacheInv, SessionsExist
  <1>5. LoginIsFresh'
    BY <1>1 DEF CacheInv, LoginIsFresh, Unused
  <1>6. EndedIsOver'
    BY <1>1, Apart DEF CacheInv, EndedIsOver, Queries
  <1>7. FetchesAreObserved'
    BY <1>1 DEF CacheInv, FetchesAreObserved, Active
  <1>8. VersionsAgree'
    BY <1>1, Apart DEF CacheInv, VersionsAgree, Queries
  <1>9. ChangeShape'
    BY <1>1 DEF CacheInv, ChangeShape
  <1>10. EditsComeFirst'
    BY <1>1 DEF CacheInv, EditsComeFirst
  <1>11. DueIsShown'
    BY <1>1, MarkingShows
  <1>12. QED
    BY <1>2, <1>3, <1>4, <1>5, <1>6, <1>7, <1>8, <1>9, <1>10, <1>11 DEF CacheInv

\* A change's answer arrives: it is written, and what it touches is read again.
LEMMA ChangeAnsweredKeepsInv ==
  ASSUME CacheInv, NEW n \in Changes, ChangeAnswered(n)
  PROVE  CacheInv'
  <1> DEFINE kind   == change[n].kind
             answer == change[n].request
             u      == account[answer.as]
             c == [cache EXCEPT !["detail"] =
                    IF kind \in Written
                    THEN [held |-> TRUE, as |-> answer.as, version |-> answer.version,
                          old |-> FALSE, from |-> "change"]
                    ELSE IF kind = "delete" THEN Absent ELSE @]
             f == IF kind = "delete" THEN [fetch EXCEPT !["detail"] = Idle] ELSE fetch
             Told(k) == k \in Promised[kind] /\ c[k].held
             new == {[kind |-> kind, key |-> k, user |-> u, version |-> answer.version] :
                       k \in {k \in Keys : Told(k)}}
  <1> HIDE DEF c, f, Told, new
  <1>1. /\ Executed(n)
        /\ answer.as \in Sessions /\ answer.version \in Nat /\ u \in Users /\ kind \in Kinds
        /\ \A k \in Keys :
             \/ c[k] = cache[k]
             \/ k = "detail" /\ c[k] = Absent
             \/ /\ k = "detail" /\ c[k] \in Cached /\ kind \in Written
                /\ c[k].held /\ c[k].as = answer.as /\ c[k].version = answer.version
                /\ c[k].from = "change"
        /\ \A k \in Keys : c[k] \in {Absent} \cup Cached
        /\ \A k \in Keys :
             cache'[k] = IF k \in Touched[kind] /\ c[k].held THEN Marked(c[k]) ELSE c[k]
        /\ cache' \in [Keys -> {Absent} \cup Cached]
        /\ \A k \in Keys : c[k].held \in BOOLEAN /\ (c[k].held => c[k] \in Cached)
        /\ \A k \in Keys : cache'[k].held = c[k].held
        /\ \A k \in Keys : c[k].held =>
             /\ cache'[k].as = c[k].as /\ cache'[k].version = c[k].version
             /\ cache'[k].from = c[k].from /\ (k \in Touched[kind] => cache'[k].old)
        /\ \A k \in Keys : k \notin Touched[kind] => cache'[k] = c[k]
        /\ \A k \in Keys :
             fetch'[k] = IF k \in Touched[kind] \cap Active /\ (c[k].held \/ f[k] = Idle)
                           THEN Asked(cookie) ELSE f[k]
        /\ \A k \in Queries : f[k] \in {Idle, fetch[k]}
        /\ f["me"] = fetch["me"]
        /\ fetch' \in [Queries -> Requested]
        /\ fetch'["me"] = fetch["me"]
        /\ \A k \in Keys : fetch'[k] \in {Idle, fetch[k], Asked(cookie)}
        /\ \A k \in Keys : fetch'[k] # Idle => k \in Active
        /\ told' = told \cup new
        /\ \A t \in new : /\ t \in [kind : Kinds, key : Keys, user : Users, version : Nat]
                          /\ t.user = u /\ t.version = answer.version
        /\ \A t \in Due' \ Due : t \in new
        /\ \A t \in Due' \ Due : t.key \in Touched[kind] /\ ~Answered(fetch'[t.key])
        /\ \A t \in Due' \ Due : t.key = "detail" => kind = "update"
        /\ \A m \in Changes : change'[m].kind = change[m].kind
        /\ change' \in [Changes -> [kind : Kinds \cup {"none"}, request : Requested]]
        /\ change'[n].request = Idle
        /\ \A m \in Changes : change'[m].request # Idle => change'[m] = change[m]
        /\ \A k \in Queries : Answered(fetch'[k]) => fetch'[k] = fetch[k]
        /\ \A k \in Queries : fetch'[k] # Idle => fetch'[k] = fetch[k] \/ fetch'[k].as = cookie
        /\ \A m \in Changes : Answered(change'[m].request) => change'[m] = change[m]
        /\ \A m \in Changes : Executed(m)' => Executed(m) /\ change'[m] = change[m]
        /\ UNCHANGED <<account, opened, live, data, entry, cookie, me, page, login, logout,
                      expiryActive, ended>>
    <2>1. Executed(n)
      BY DEF ChangeAnswered, Executed, Answered
    <2>2. answer.as \in Sessions /\ answer.version \in Nat /\ u \in Users /\ kind \in Kinds
      BY RequestShape, <2>1 DEF CacheInv, TabShape, ServerShape, SessionsExist, ChangeShape,
         Executed, Answered, Idle
    <2>3. \A k \in Keys :
            \/ c[k] = cache[k]
            \/ k = "detail" /\ c[k] = Absent
            \/ /\ k = "detail" /\ c[k] \in Cached /\ kind \in Written
               /\ c[k].held /\ c[k].as = answer.as /\ c[k].version = answer.version
               /\ c[k].from = "change"
      BY <2>2 DEF CacheInv, TabShape, Cached, c
    <2>4. \A k \in Keys : c[k] \in {Absent} \cup Cached
      BY <2>3 DEF CacheInv, TabShape
    <2>5. \A k \in Keys :
            cache'[k] = IF k \in Touched[kind] /\ c[k].held THEN Marked(c[k]) ELSE c[k]
      BY DEF ChangeAnswered, Invalidate, Marked, c, f
    <2>6. cache' \in [Keys -> {Absent} \cup Cached]
      BY <2>4, CachedShape DEF ChangeAnswered, Invalidate, Marked, c, f
    <2>7. \A k \in Keys : c[k].held \in BOOLEAN /\ (c[k].held => c[k] \in Cached)
      BY <2>4, CachedShape
    <2>8. \A k \in Keys : cache'[k].held = c[k].held
      BY <2>5, <2>7, CachedShape
    <2>9. \A k \in Keys : c[k].held =>
            /\ cache'[k].as = c[k].as /\ cache'[k].version = c[k].version
            /\ cache'[k].from = c[k].from /\ (k \in Touched[kind] => cache'[k].old)
      BY <2>5, <2>7, CachedShape
    <2>10. \A k \in Keys : k \notin Touched[kind] => cache'[k] = c[k]
      BY <2>5
    <2>11. \A k \in Keys :
            fetch'[k] = IF k \in Touched[kind] \cap Active /\ (c[k].held \/ f[k] = Idle)
                          THEN Asked(cookie) ELSE f[k]
      BY DEF ChangeAnswered, Invalidate, Queries, c, f
    <2>12. \A k \in Queries : f[k] \in {Idle, fetch[k]}
      BY DEF CacheInv, TabShape, f
    <2>13. f["me"] = fetch["me"]
      BY DEF CacheInv, TabShape, f, Queries
    <2>14. fetch' \in [Queries -> Requested]
      BY <2>12, RequestShape, SessionRange DEF c, f, ChangeAnswered, CacheInv, TabShape,
         Invalidate
    <2>15. fetch'["me"] = fetch["me"]
      BY <2>13, Apart DEF ChangeAnswered, Invalidate, Queries, Active, Observed, c, f
    <2>16. \A k \in Keys : fetch'[k] \in {Idle, fetch[k], Asked(cookie)}
      BY <2>11, <2>12 DEF Queries
    <2>17. \A k \in Keys : fetch'[k] # Idle => k \in Active
      BY <2>11, <2>12 DEF CacheInv, FetchesAreObserved, Queries
    <2>18. told' = told \cup new
      BY DEF ChangeAnswered, Told, c, new
    <2>19. \A t \in new : /\ t \in [kind : Kinds, key : Keys, user : Users, version : Nat]
                          /\ t.user = u /\ t.version = answer.version
                          /\ t.kind = kind /\ Told(t.key)
      BY <2>2 DEF new
    <2>20. \A t \in Due' \ Due : t \in new /\ ~WrittenUnmarked(t)
      BY <2>18 DEF Due
    <2>21. \A t \in Due' \ Due : t.key \in Touched[kind] /\ ~Answered(fetch'[t.key])
      <3> SUFFICES ASSUME NEW t \in Due' \ Due
                   PROVE  t.key \in Touched[kind] /\ ~Answered(fetch'[t.key])
        OBVIOUS
      <3>1. t.key \in Keys /\ t.kind = kind /\ Told(t.key) /\ ~WrittenUnmarked(t)
        BY <2>19, <2>20
      <3>2. t.key \in Touched[kind]
        BY <2>2, <3>1, TouchedViews DEF Told, WrittenUnmarked
      <3>3. ~Answered(fetch'[t.key])
        BY <2>11, <2>12, <3>1, <3>2 DEF CacheInv, FetchesAreObserved, Queries, Answered,
           Idle, Asked, Told
      <3>4. QED
        BY <3>2, <3>3
    <2>22. \A t \in Due' \ Due : t.key = "detail" => kind = "update"
      BY <2>2, <2>21, TouchedViews
    <2>23. \A m \in Changes : change'[m].kind = change[m].kind
      BY DEF CacheInv, TabShape, ChangeAnswered, Done
    <2>24. change' \in [Changes -> [kind : Kinds \cup {"none"}, request : Requested]]
      BY RequestShape DEF CacheInv, TabShape, ChangeAnswered, Done
    <2>25. change'[n].request = Idle
      BY DEF CacheInv, TabShape, ChangeAnswered, Done
    <2>26. \A m \in Changes : change'[m].request # Idle => change'[m] = change[m]
      BY <2>25 DEF CacheInv, TabShape, ChangeAnswered, Done
    <2>27. \A k \in Queries : Answered(fetch'[k]) => fetch'[k] = fetch[k]
      BY <2>15, <2>16 DEF Queries, Answered, Idle, Asked
    <2>28. \A k \in Queries : fetch'[k] # Idle => fetch'[k] = fetch[k] \/ fetch'[k].as = cookie
      BY <2>15, <2>16 DEF Queries, Idle, Asked
    <2>29. \A m \in Changes : Answered(change'[m].request) => change'[m] = change[m]
      BY <2>25, <2>26 DEF Answered, Idle
    <2>30. \A m \in Changes : Executed(m)' => Executed(m) /\ change'[m] = change[m]
      BY <2>29 DEF Executed
    <2>31. UNCHANGED <<account, opened, live, data, entry, cookie, me, page, login, logout,
                     expiryActive, ended>>
      BY DEF CacheInv, ChangeAnswered, serverVars, authVars, history
    <2>32. QED
      BY <2>1, <2>2, <2>3, <2>4, <2>5, <2>6, <2>7, <2>8, <2>9, <2>10, <2>11, <2>12, <2>13,
         <2>14, <2>15, <2>16, <2>17, <2>18, <2>19, <2>20, <2>21, <2>22, <2>23, <2>24, <2>25,
         <2>26, <2>27, <2>28, <2>29, <2>30, <2>31
  <1>2. ServerShape'
    BY <1>1 DEF CacheInv, ServerShape
  <1>3. TabShape'
    BY <1>1 DEF CacheInv, TabShape
  <1>4. SessionsExist'
    <2>1. /\ \A k \in Queries : fetch'[k] # Idle => fetch'[k] = fetch[k] \/ fetch'[k].as = cookie
          /\ \A k \in Queries : Answered(fetch'[k]) => fetch'[k] = fetch[k]
          /\ \A m \in Changes : change'[m].request # Idle => change'[m] = change[m]
          /\ \A m \in Changes : Answered(change'[m].request) => change'[m] = change[m]
          /\ UNCHANGED <<opened, live, cookie, logout>>
      BY <1>1
    <2>2. QED
      BY <2>1, SessionRange DEF CacheInv, SessionsExist
  <1>5. LoginIsFresh'
    BY <1>1 DEF CacheInv, LoginIsFresh, Unused
  <1>6. EndedIsOver'
    BY <1>1, Apart, CachedShape DEF CacheInv, EndedIsOver, Queries
  <1>7. FetchesAreObserved'
    BY <1>1 DEF CacheInv, FetchesAreObserved, Active
  <1>8. VersionsAgree'
    <2>1. answer.version <= data[u] /\ answer.version \in Nat /\ u \in Users
      BY <1>1 DEF CacheInv, VersionsAgree
    <2>2. /\ told' = told \cup new
          /\ \A t \in new : t.user = u /\ t.version = answer.version
          /\ UNCHANGED data
      BY <1>1
    <2>3. \A t \in told' : t.version <= data'[t.user]
      BY <2>1, <2>2 DEF CacheInv, VersionsAgree
    <2>4. \A m \in Changes : Executed(m)' =>
            change'[m].request.version <= data'[account'[change'[m].request.as]]
      BY <1>1 DEF CacheInv, VersionsAgree
    <2>5. ASSUME NEW k \in Keys, Answered(fetch'[k]),
                 NEW t \in Due', t.key = k, t.user = account'[fetch'[k].as]
          PROVE  t.version <= fetch'[k].version
      <3>1. t \in Due /\ fetch'[k] = fetch[k] /\ account' = account
        BY <1>1, <2>5 DEF Queries
      <3>2. QED
        BY <2>5, <3>1 DEF CacheInv, VersionsAgree
    <2>6. QED
      BY <2>3, <2>4, <2>5 DEF VersionsAgree
  <1>9. ChangeShape'
    <2>1. /\ \A m \in Changes : change'[m].request # Idle => change'[m] = change[m]
          /\ \A m \in Changes : Executed(m)' => Executed(m) /\ change'[m] = change[m]
          /\ UNCHANGED account
      BY <1>1
    <2>2. QED
      BY <2>1 DEF CacheInv, ChangeShape
  <1>10. EditsComeFirst'
    <2>1. /\ \A m \in Changes : Executed(m)' => Executed(m) /\ change'[m] = change[m]
          /\ UNCHANGED <<account, entry>>
      BY <1>1
    <2>2. ASSUME NEW m \in Changes, Executed(m), change[m].kind \in {"checkIn", "comment"},
                 NEW t \in Due', t.key = "detail", t.user = EntryOwner
          PROVE  t.version <= change[m].request.version
      <3>1. CASE t \notin Due
        <4>1. kind = "update" /\ Executed(n) /\ t.version = answer.version
          BY <1>1, <2>2, <3>1
        <4>2. QED
          BY <2>2, <4>1 DEF CacheInv, EditsComeFirst
      <3>2. CASE t \in Due
        BY <2>2, <3>2 DEF CacheInv, EditsComeFirst
      <3>3. QED
        BY <3>1, <3>2
    <2>3. QED
      BY <2>1, <2>2 DEF CacheInv, EditsComeFirst
  <1>11. DueIsShown'
    <2> SUFFICES ASSUME NEW t \in Due', cache'[t.key].held,
                        account[cache'[t.key].as] = t.user,
                        cache'[t.key].version < t.version
                 PROVE  cache'[t.key].old
      BY <1>1 DEF DueIsShown
    <2>1. t.key \in Keys /\ t.version \in Nat
      BY <1>3 DEF TabShape, Due
    <2>2. CASE t.key \in Touched[kind]
      BY <1>1, <2>1, <2>2
    <2>3. CASE t.key \notin Touched[kind]
      <3>1. t \in Due /\ cache'[t.key] = c[t.key]
        BY <1>1, <2>1, <2>3
      <3>2. CASE c[t.key] = cache[t.key]
        BY <3>1, <3>2 DEF CacheInv, DueIsShown
      <3>3. CASE c[t.key] = Absent
        BY <3>1, <3>3, CachedShape
      <3>4. CASE /\ t.key = "detail" /\ kind \in Written
                 /\ c[t.key].as = answer.as /\ c[t.key].version = answer.version
        <4>1. kind \in {"checkIn", "comment"}
          BY <2>3, <3>4, TouchedViews DEF Written
        <4>2. u = EntryOwner
          BY <1>1, <4>1 DEF CacheInv, EditsComeFirst
        <4>3. t.user = EntryOwner
          BY <3>1, <3>4, <4>2
        <4>4. t.version <= answer.version
          BY <1>1, <3>1, <3>4, <4>1, <4>3 DEF CacheInv, EditsComeFirst
        <4>5. QED
          BY <1>1, <2>1, <3>1, <3>4, <4>4
      <3>5. QED
        BY <1>1, <2>1, <3>2, <3>3, <3>4
    <2>4. QED
      BY <2>2, <2>3
  <1>12. QED
    BY <1>2, <1>3, <1>4, <1>5, <1>6, <1>7, <1>8, <1>9, <1>10, <1>11 DEF CacheInv

\* The server makes a change or refuses it.
LEMMA ServerAnswersChangeKeepsInv ==
  ASSUME CacheInv, NEW n \in Changes, ServerAnswersChange(n)
  PROVE  CacheInv'
  <1> DEFINE kind == change[n].kind
             s    == change[n].request.as
             u    == account[s]
  <1>1. /\ change[n].request.phase = "asked" /\ s \in live
        /\ s \in Sessions /\ u \in Users
        /\ data[u] \in Nat
        /\ data' \in [Users -> Nat]
        /\ \A w \in Users : data[w] <= data'[w]
        /\ \/ change'[n].request = Answer(s, "ok", data'[u])
           \/ change'[n].request = Answer(s, "conflict", 0)
        /\ s \in 0 .. MaxSessions /\ data'[u] \in Nat
        /\ change'[n].request \in Requested
        /\ change'[n].request # Idle /\ change'[n].request.as = s
        /\ change' \in [Changes -> [kind : Kinds \cup {"none"}, request : Requested]]
        /\ change'[n].kind = kind /\ kind \in Kinds
        /\ \A m \in Changes : m # n => change'[m] = change[m]
        /\ entry # "waiting" => entry' # "waiting"
        /\ change'[n].request.result = "ok" =>
             /\ kind \in EntryKinds => u = EntryOwner
             /\ kind = "update" => entry = "waiting"
             /\ kind \in {"checkIn", "comment"} => entry' # "waiting"
             /\ data[u] < data'[u] /\ change'[n].request.version = data'[u]
        /\ UNCHANGED <<account, opened, live, cookie, me, page, cache, fetch, login, logout,
                      expiryActive, told, Due, ended>>
    <2>1. change[n].request.phase = "asked" /\ s \in live
      BY DEF CacheInv, ServerAnswersChange, serverVars, authVars, history
    <2>2. s \in Sessions /\ u \in Users
      BY <2>1, SessionRange DEF CacheInv, ServerShape
    <2>3. data[u] \in Nat
      BY <2>2 DEF CacheInv, ServerShape
    <2>4. data' \in [Users -> Nat]
      BY <2>2, <2>3 DEF CacheInv, ServerShape, ServerAnswersChange
    <2>5. \A w \in Users : data[w] <= data'[w]
      BY <2>2, <2>3 DEF CacheInv, ServerShape, ServerAnswersChange
    <2>6. \/ change'[n].request = Answer(s, "ok", data'[u])
          \/ change'[n].request = Answer(s, "conflict", 0)
      BY <2>2, <2>3 DEF CacheInv, ServerShape, TabShape, ServerAnswersChange
    <2>7. s \in 0 .. MaxSessions /\ data'[u] \in Nat
      BY <2>2, <2>4, SessionRange DEF CacheInv, Sessions
    <2>8. change'[n].request \in Requested
      BY <2>6, <2>7, RequestShape
    <2>9. change'[n].request # Idle /\ change'[n].request.as = s
      BY <2>6 DEF Answer, Idle
    <2>10. change' \in [Changes -> [kind : Kinds \cup {"none"}, request : Requested]]
      BY <2>8 DEF CacheInv, TabShape, ServerAnswersChange
    <2>11. change'[n].kind = kind /\ kind \in Kinds
      BY <2>1 DEF CacheInv, TabShape, ServerAnswersChange, ChangeShape, Idle
    <2>12. \A m \in Changes : m # n => change'[m] = change[m]
      BY DEF CacheInv, TabShape, ServerAnswersChange
    <2>13. entry # "waiting" => entry' # "waiting"
      BY DEF ServerAnswersChange, Permitted, Needs, Becomes, EntryKinds
    <2>14. change'[n].request.result = "ok" =>
            /\ kind \in EntryKinds => u = EntryOwner
            /\ kind = "update" => entry = "waiting"
            /\ kind \in {"checkIn", "comment"} => entry' # "waiting"
            /\ data[u] < data'[u] /\ change'[n].request.version = data'[u]
      BY <2>2, <2>3, <2>6 DEF CacheInv, ServerShape, TabShape, ServerAnswersChange,
         Permitted, Needs, Becomes, EntryKinds, Answer
    <2>15. UNCHANGED <<account, opened, live, cookie, me, page, cache, fetch, login, logout,
                     expiryActive, told, Due, ended>>
      BY DEF Due, CacheInv, ServerAnswersChange, serverVars, authVars, history
    <2>16. QED
      BY <2>1, <2>2, <2>3, <2>4, <2>5, <2>6, <2>7, <2>8, <2>9, <2>10, <2>11, <2>12, <2>13,
         <2>14, <2>15
  <1>2. ServerShape'
    BY <1>1 DEF CacheInv, ServerShape, Answer, Idle
  <1>3. TabShape'
    BY <1>1 DEF CacheInv, TabShape, Answer, Idle
  <1>4. SessionsExist'
    BY <1>1, SessionRange DEF CacheInv, SessionsExist, Idle
  <1>5. LoginIsFresh'
    BY <1>1 DEF CacheInv, LoginIsFresh, Unused, Idle
  <1>6. EndedIsOver'
    BY <1>1 DEF CacheInv, EndedIsOver, Queries
  <1>7. FetchesAreObserved'
    BY <1>1 DEF CacheInv, FetchesAreObserved, Active
  <1>8. VersionsAgree'
    <2>1. \A t \in told : t.version <= data'[t.user]
      <3>1. ASSUME NEW t \in told
            PROVE  t.version \in Nat /\ t.user \in Users /\ t.version <= data[t.user]
        BY DEF CacheInv, TabShape, VersionsAgree
      <3>2. QED
        BY <1>1, <3>1 DEF CacheInv, ServerShape
    <2>2. ASSUME NEW m \in Changes, Executed(m)'
          PROVE  change'[m].request.version <= data'[account[change'[m].request.as]]
      <3>1. CASE m = n
        BY <1>1, <2>2, <3>1 DEF CacheInv, ServerShape, Executed
      <3>2. CASE m # n
        <4>1. Executed(m) /\ change'[m] = change[m]
          BY <1>1, <2>2, <3>2 DEF Executed
        <4>2. change[m].request.as \in Sessions /\ change[m].request.version \in Nat
          BY <4>1, RequestShape DEF CacheInv, SessionsExist, TabShape, Executed, Answered, Idle
        <4>3. account[change[m].request.as] \in Users
          BY <4>2 DEF CacheInv, ServerShape
        <4>4. QED
          BY <1>1, <4>1, <4>2, <4>3 DEF CacheInv, ServerShape, VersionsAgree
      <3>3. QED
        BY <3>1, <3>2
    <2>3. QED
      BY <1>1, <2>1, <2>2 DEF CacheInv, VersionsAgree
  <1>9. ChangeShape'
    BY <1>1 DEF CacheInv, ChangeShape, Executed
  <1>10. EditsComeFirst'
    <2> SUFFICES ASSUME NEW m \in Changes, Executed(m)', change'[m].kind \in {"checkIn", "comment"}
                 PROVE  /\ entry' # "waiting"
                        /\ account[change'[m].request.as] = EntryOwner
                        /\ \A t \in Due : t.key = "detail" /\ t.user = EntryOwner =>
                             t.version <= change'[m].request.version
                        /\ \A i \in Changes : Executed(i)' /\ change'[i].kind = "update" =>
                             change'[i].request.version <= change'[m].request.version
      BY <1>1 DEF EditsComeFirst
    <2>1. CASE m # n
      <3>1. Executed(m) /\ change'[m] = change[m]
        BY <1>1, <2>1 DEF Executed
      <3>2. entry # "waiting"
        BY <3>1 DEF CacheInv, EditsComeFirst
      <3>3. ASSUME NEW i \in Changes, Executed(i)', change'[i].kind = "update"
            PROVE  Executed(i) /\ change'[i] = change[i]
        BY <1>1, <3>2, <3>3 DEF Executed
      <3>4. QED
        BY <1>1, <3>1, <3>2, <3>3 DEF CacheInv, EditsComeFirst
    <2>2. CASE m = n
      <3>1. u = EntryOwner /\ change'[n].request.version = data'[u] /\ data[u] < data'[u]
        BY <1>1, <2>2 DEF Executed, EntryKinds
      <3>2. ASSUME NEW i \in Changes, Executed(i)', change'[i].kind = "update"
            PROVE  change'[i].request.version <= change'[n].request.version
        <4>1. i # n
          BY <1>1, <2>2, <3>2
        <4>2. Executed(i) /\ change'[i] = change[i]
          BY <1>1, <4>1, <3>2 DEF Executed
        <4>3. change[i].request.version \in Nat
          BY <4>2, RequestShape DEF CacheInv, TabShape, Executed, Answered, Idle
        <4>4. change[i].request.version <= data[u]
          BY <3>1, <3>2, <4>2 DEF CacheInv, VersionsAgree, ChangeShape, EntryKinds
        <4>5. QED
          BY <1>1, <3>1, <4>2, <4>3, <4>4 DEF CacheInv, ServerShape
      <3>3. \A t \in Due : t.key = "detail" /\ t.user = EntryOwner => t.version <= data'[u]
        <4>1. ASSUME NEW t \in told
              PROVE  t.version \in Nat /\ t.version <= data[t.user]
          BY DEF CacheInv, TabShape, VersionsAgree
        <4>2. QED
          BY <1>1, <3>1, <4>1 DEF CacheInv, ServerShape, Due
      <3>4. QED
        BY <1>1, <2>2, <3>1, <3>2, <3>3 DEF Executed
    <2>3. QED
      BY <2>1, <2>2
  <1>11. DueIsShown'
    BY <1>1 DEF CacheInv, DueIsShown
  <1>12. QED
    BY <1>2, <1>3, <1>4, <1>5, <1>6, <1>7, <1>8, <1>9, <1>10, <1>11 DEF CacheInv

-----------------------------------------------------------------------------
(* The theorems                                                            *)

\* A tab that has just loaded satisfies the invariant.
LEMMA InitInv == ASSUME Init PROVE CacheInv
  <1>1. ServerShape
    BY SessionsAssumption DEF Init, ServerShape, Sessions
  <1>2. TabShape
    <2>1. Asked(cookie) \in Requested
      BY <1>1, SessionRange, RequestShape
    <2>2. fetch \in [Queries -> Requested]
      BY <2>1, RequestShape DEF Init
    <2>3. change \in [Changes -> [kind : Kinds \cup {"none"}, request : Requested]]
      BY RequestShape DEF Init
    <2>4. QED
      BY <2>2, <2>3, RequestShape DEF Init, TabShape
  <1>3. \A k \in Queries : fetch[k] # Idle => k = "me" /\ fetch[k] = Asked(cookie)
    BY DEF Init
  <1>4. SessionsExist
    BY <1>1, <1>3, SessionRange DEF Init, SessionsExist, Answered, Idle, Asked
  <1>5. LoginIsFresh
    BY DEF Init, LoginIsFresh, Answered, Idle
  <1>6. EndedIsOver
    BY <1>3, CachedShape DEF Init, EndedIsOver, Answered, Idle, Asked
  <1>7. FetchesAreObserved
    BY <1>3, Apart DEF Init, FetchesAreObserved, Queries
  <1>8. VersionsAgree
    BY <1>3, Apart DEF Init, Due, VersionsAgree, Executed, Answered, Idle, Queries
  <1>9. ChangeShape
    BY DEF Init, ChangeShape, Executed, Answered, Idle
  <1>10. EditsComeFirst
    BY DEF Init, Due, EditsComeFirst, Executed, Answered, Idle
  <1>11. DueIsShown
    BY DEF Init, Due, DueIsShown
  <1>12. QED
    BY <1>1, <1>2, <1>4, <1>5, <1>6, <1>7, <1>8, <1>9, <1>10, <1>11 DEF CacheInv

\* So does every state after a step that changes nothing,
LEMMA StutterKeepsInv == ASSUME CacheInv, UNCHANGED vars PROVE CacheInv'
  <1>1. ServerShape' /\ TabShape'
    BY DEF CacheInv, vars, ServerShape, TabShape
  <1>2. SessionsExist' /\ LoginIsFresh'
    BY DEF CacheInv, vars, SessionsExist, LoginIsFresh, Unused
  <1>3. EndedIsOver' /\ FetchesAreObserved'
    BY DEF CacheInv, vars, EndedIsOver, FetchesAreObserved, Active
  <1>4. VersionsAgree' /\ ChangeShape' /\ EditsComeFirst' /\ DueIsShown'
    BY DEF CacheInv, vars, VersionsAgree, ChangeShape, EditsComeFirst, DueIsShown, Due,
       Executed
  <1>5. QED
    BY <1>1, <1>2, <1>3, <1>4 DEF CacheInv

\* and every state after an action of the tab, the browser or the server.
LEMMA StepKeepsInv == ASSUME CacheInv, [Next]_vars PROVE CacheInv'
  <1>1. ASSUME NEW p \in Pages, Navigate(p) PROVE CacheInv'
    BY <1>1, NavigateKeepsInv
  <1>2. ASSUME NEW k \in Queries, Refetch(k) \/ ServerAnswersQuery(k) PROVE CacheInv'
    BY <1>2, RefetchKeepsInv, ServerAnswersQueryKeepsInv
  <1>3. ASSUME NEW k \in Keys, QueryAnswered(k) \/ QueryFailed(k) \/ QueryUnauthorized(k)
        PROVE  CacheInv'
    BY <1>3, QueryAnsweredKeepsInv, QueryFailedKeepsInv, QueryUnauthorizedKeepsInv
  <1>4. ASSUME NEW m \in Changes, NEW kind \in Kinds, Submit(m, kind) PROVE CacheInv'
    BY <1>4, SubmitKeepsInv
  <1>5. ASSUME NEW m \in Changes,
               \/ ServerAnswersChange(m) \/ ChangeAnswered(m) \/ ChangeRefused(m)
               \/ ChangeFailed(m) \/ ChangeUnauthorized(m)
        PROVE  CacheInv'
    BY <1>5, ServerAnswersChangeKeepsInv, ChangeAnsweredKeepsInv, ChangeRefusedKeepsInv,
       ChangeFailedKeepsInv, ChangeUnauthorizedKeepsInv
  <1>6. CASE ClickLogout \/ ServerAnswersLogout \/ LogoutAnswered
    BY <1>6, ClickLogoutKeepsInv, ServerAnswersLogoutKeepsInv, LogoutAnsweredKeepsInv
  <1>7. CASE SubmitLogin \/ ServerAnswersLogin \/ LoginAnswered \/ MeAnswered
    BY <1>7, SubmitLoginKeepsInv, ServerAnswersLoginKeepsInv, LoginAnsweredKeepsInv,
       MeAnsweredKeepsInv
  <1>8. ASSUME NEW s \in Sessions, SessionEnds(s) PROVE CacheInv'
    BY <1>8, SessionEndsKeepsInv
  <1>9. CASE UNCHANGED vars
    BY <1>9, StutterKeepsInv
  <1>10. QED
    BY <1>1, <1>2, <1>3, <1>4, <1>5, <1>6, <1>7, <1>8, <1>9 DEF Next

\* The invariant holds of the tab and the server in every reachable state.
THEOREM CacheInvariant == Spec => []CacheInv
  <1>1. Init => CacheInv
    BY InitInv
  <1>2. CacheInv /\ [Next]_vars => CacheInv'
    BY StepKeepsInv
  <1>3. QED
    BY <1>1, <1>2, PTL DEF Spec

\* Whatever order changes and queries are answered in, and however many there
\* are, what a view still holds of the time before an answered change is marked to
\* be read again: the dashboard, the statistics and the examples after every change
\* that is promised to reach them, and "detail" after an edit.  Of "detail" after a
\* check-in or a comment, which the code writes and does not mark, it says nothing.
THEOREM ChangesAreShown == Spec => []AnsweredChangeIsShown
  <1>1. CacheInv => AnsweredChangeIsShown
    BY DEF CacheInv, DueIsShown, Due, Shown, AnsweredChangeIsShown
  <1>2. QED
    BY <1>1, CacheInvariant, PTL

\* No late answer brings back what was read under a session that the tab saw end.
THEOREM EndedSessionsAreForgotten == Spec => []EndedSessionIsForgotten
  <1>1. CacheInv => EndedSessionIsForgotten
    BY DEF CacheInv, EndedIsOver, EndedSessionIsForgotten
  <1>2. QED
    BY <1>1, CacheInvariant, PTL

\* No late answer signs the tab in again under a session that it saw end.
THEOREM EndedSessionsStayOut == Spec => []SignedOutStaysOut
  <1>1. CacheInv => SignedOutStaysOut
    BY DEF CacheInv, EndedIsOver, SignedOutStaysOut
  <1>2. QED
    BY <1>1, CacheInvariant, PTL

-----------------------------------------------------------------------------
(* Versions                                                                *)

\* Changes that were submitted and that the server will not make any more: it has
\* answered them, or the request came to nothing.
Spent == {m \in Changes : change[m].kind # "none" /\ change[m].request.phase # "asked"}

\* The server makes a change at most once, so an account's data has at most as many
\* versions as changes are spent; what is cached or on its way is one of them.
NothingIsAhead ==
  /\ \A u \in Users : data[u] <= Cardinality(Spent)
  /\ \A k \in Keys : cache[k].held => cache[k].version <= data[account[cache[k].as]]
  /\ \A k \in Queries : Answered(fetch[k]) =>
       fetch[k].version <= data[account[fetch[k].as]]
  /\ \A m \in Changes : Answered(change[m].request) =>
       change[m].request.version <= data[account[change[m].request.as]]
  /\ Answered(login) => login.version = 0
  /\ Answered(logout) => logout.version = 0

\* What CacheInv leaves open: the route, the entry's status, the flag, and a change
\* not yet submitted.
RestShape ==
  /\ page \in Pages
  /\ entry \in {"waiting", "resolved", "gone"}
  /\ expiryActive \in BOOLEAN
  /\ \A m \in Changes : change[m].kind = "none" => change[m].request = Idle

VersionInv == NothingIsAhead /\ RestShape

\* What the answer to a change leaves alone.
LEMMA ChangeAnsweredEffect ==
  ASSUME NEW n \in Changes, ChangeAnswered(n)
  PROVE  UNCHANGED <<account, data, entry, page, login, logout, expiryActive>>
  BY DEF ChangeAnswered, serverVars, authVars

\* What is cached after a step was cached before, or came with an answer.
LEMMA CacheOrigin ==
  ASSUME CacheInv, [Next]_vars, NEW k \in Keys, cache'[k].held
  PROVE  \/ /\ cache[k].held
            /\ cache'[k].as = cache[k].as /\ cache'[k].version = cache[k].version
         \/ /\ Answered(fetch[k])
            /\ cache'[k].as = fetch[k].as /\ cache'[k].version = fetch[k].version
         \/ \E m \in Changes :
              /\ Answered(change[m].request)
              /\ cache'[k].as = change[m].request.as
              /\ cache'[k].version = change[m].request.version
  <1> DEFINE Kept(c) == c.held /\ cache'[k].as = c.as /\ cache'[k].version = c.version
  <1>1. cache \in [Keys -> {Absent} \cup Cached]
    BY DEF CacheInv, TabShape
  <1>2. CASE UNCHANGED cache
    BY <1>2
  <1>3. CASE \E j \in Keys : QueryAnswered(j)
    BY <1>1, <1>3 DEF QueryAnswered, Answered
  <1>4. CASE \E j \in Keys : QueryFailed(j)
    <2>1. PICK j \in Keys :
            cache' = [cache EXCEPT ![j] = IF @.held THEN [@ EXCEPT !.old = TRUE] ELSE @]
      BY <1>4 DEF QueryFailed
    <2>2. cache'[k] = cache[k] \/ (cache[k].held /\ cache'[k] = Marked(cache[k]))
      BY <1>1, <2>1 DEF Marked
    <2>3. QED
      BY <1>1, <2>2, CachedShape
  <1>5. CASE SignedOut
    BY <1>5, SignedOutEffect, CachedShape
  <1>6. ASSUME NEW K, NEW c, NEW f, c[k] \in {Absent} \cup Cached, Invalidate(K, c, f)
        PROVE  Kept(c[k])
    <2>1. cache'[k] = c[k] \/ (c[k].held /\ cache'[k] = Marked(c[k]))
      BY <1>6 DEF Invalidate, Marked
    <2>2. QED
      BY <1>6, <2>1, CachedShape
  <1>7. CASE \E m \in Changes : ChangeRefused(m)
    <2>1. Invalidate({"detail", "dashboard"}, cache, fetch)
      BY <1>7 DEF ChangeRefused
    <2>2. QED
      BY <1>1, <1>6, <2>1
  <1>8. CASE \E m \in Changes : ChangeAnswered(m)
    <2>1. PICK m \in Changes : ChangeAnswered(m)
      BY <1>8
    <2> DEFINE kind   == change[m].kind
               answer == change[m].request
               c == [cache EXCEPT !["detail"] =
                      IF kind \in Written
                      THEN [held |-> TRUE, as |-> answer.as, version |-> answer.version,
                            old |-> FALSE, from |-> "change"]
                      ELSE IF kind = "delete" THEN Absent ELSE @]
               f == IF kind = "delete" THEN [fetch EXCEPT !["detail"] = Idle] ELSE fetch
    <2>2. Answered(answer) /\ Invalidate(Touched[kind], c, f)
      BY <2>1 DEF ChangeAnswered, Answered
    <2>3. answer.as \in Sessions /\ answer.version \in Nat
      BY <2>2, RequestShape DEF CacheInv, TabShape, SessionsExist, Answered, Idle
    <2> DEFINE new == [held |-> TRUE, as |-> answer.as, version |-> answer.version,
                       old |-> FALSE, from |-> "change"]
    <2>4. c[k] \in {cache[k], Absent, new}
      BY <1>1
    <2> HIDE DEF c, f
    <2>5. c[k] \in {Absent} \cup Cached
      <3>1. new \in Cached
        BY <2>3 DEF Cached
      <3>2. QED
        BY <1>1, <2>4, <3>1
    <2>6. Kept(c[k])
      BY <1>6, <2>2, <2>5
    <2>7. QED
      BY <2>2, <2>4, <2>6, CachedShape
  <1>9. QED
    <2>1. CASE Next
      <3>1. CASE \E m \in Changes :
                   ServerAnswersChange(m) \/ ChangeFailed(m) \/ \E kind \in Kinds : Submit(m, kind)
        BY <1>2, <3>1 DEF ServerAnswersChange, ChangeFailed, Submit
      <3>2. CASE (\E p \in Pages : Navigate(p)) \/ MeAnswered \/ LoginAnswered
        BY <1>2, <3>2 DEF Navigate, MeAnswered, LoginAnswered, Render
      <3>3. CASE \E j \in Queries : Refetch(j) \/ ServerAnswersQuery(j)
        BY <1>2, <3>3 DEF Refetch, ServerAnswersQuery
      <3>4. CASE \/ ClickLogout \/ ServerAnswersLogout \/ SubmitLogin \/ ServerAnswersLogin
                 \/ \E s \in Sessions : SessionEnds(s)
        BY <1>2, <3>4 DEF ClickLogout, ServerAnswersLogout, SubmitLogin, ServerAnswersLogin,
           SessionEnds
      <3>5. CASE \/ \E j \in Keys : QueryUnauthorized(j)
                 \/ \E m \in Changes : ChangeUnauthorized(m)
                 \/ LogoutAnswered
        BY <1>5, <3>5 DEF QueryUnauthorized, ChangeUnauthorized, ReportExpiry, LogoutAnswered
      <3>6. QED
        BY <1>3, <1>4, <1>7, <1>8, <2>1, <3>1, <3>2, <3>3, <3>4, <3>5 DEF Next
    <2>2. CASE UNCHANGED vars
      BY <1>2, <2>2 DEF vars
    <2>3. QED
      BY <2>1, <2>2

\* An answer on its way to a query was on its way before, or has the version of now.
LEMMA FetchOrigin ==
  ASSUME CacheInv, [Next]_vars, NEW k \in Queries, Answered(fetch'[k])
  PROVE  \/ fetch'[k] = fetch[k]
         \/ fetch'[k].version = data[account[fetch'[k].as]]
  <1>1. fetch \in [Queries -> Requested]
    BY DEF CacheInv, TabShape
  <1>2. ~Answered(Idle) /\ \A s : ~Answered(Asked(s))
    BY DEF Answered, Idle, Asked
  <1>3. ASSUME NEW m, NEW p, NEW s, NEW c, NEW f, Render(m, p, s, c, f)
        PROVE  fetch'[k] = f[k]
    BY <1>2, <1>3 DEF Render
  <1>4. ASSUME NEW K, NEW c, NEW f, Invalidate(K, c, f)
        PROVE  fetch'[k] = f[k]
    BY <1>2, <1>4 DEF Invalidate
  <1>5. CASE UNCHANGED fetch
    BY <1>5
  <1>6. CASE SignedOut
    BY <1>2, <1>6, SignedOutEffect
  <1>7. CASE (\E p \in Pages : Navigate(p)) \/ LoginAnswered
    BY <1>3, <1>5, <1>7 DEF Navigate, LoginAnswered
  <1>8. CASE MeAnswered
    <2> DEFINE done == [fetch EXCEPT !["me"] = Idle]
    <2>1. fetch'[k] = done[k]
      BY <1>3, <1>8 DEF MeAnswered
    <2>2. QED
      BY <1>1, <1>2, <2>1
  <1>9. CASE \E j \in Queries : Refetch(j)
    BY <1>1, <1>2, <1>9 DEF Refetch
  <1>10. CASE \E j \in Queries : ServerAnswersQuery(j)
    BY <1>1, <1>10 DEF ServerAnswersQuery, Answer
  <1>11. CASE \E j \in Keys : QueryAnswered(j) \/ QueryFailed(j)
    BY <1>1, <1>2, <1>11 DEF QueryAnswered, QueryFailed
  <1>12. CASE \E m \in Changes : ChangeAnswered(m)
    <2>1. PICK m \in Changes : ChangeAnswered(m)
      BY <1>12
    <2> DEFINE kind   == change[m].kind
               answer == change[m].request
               c == [cache EXCEPT !["detail"] =
                      IF kind \in Written
                      THEN [held |-> TRUE, as |-> answer.as, version |-> answer.version,
                            old |-> FALSE, from |-> "change"]
                      ELSE IF kind = "delete" THEN Absent ELSE @]
               f == IF kind = "delete" THEN [fetch EXCEPT !["detail"] = Idle] ELSE fetch
    <2>2. Invalidate(Touched[kind], c, f)
      BY <2>1 DEF ChangeAnswered
    <2>3. f[k] \in {Idle, fetch[k]}
      BY <1>1
    <2> HIDE DEF c, f
    <2>4. fetch'[k] = f[k]
      BY <1>4, <2>2
    <2>5. QED
      BY <1>2, <2>3, <2>4
  <1>13. CASE \E m \in Changes : ChangeRefused(m)
    BY <1>4, <1>13 DEF ChangeRefused
  <1>14. QED
    <2>1. CASE Next
      <3>1. CASE \E m \in Changes :
                   ServerAnswersChange(m) \/ ChangeFailed(m) \/ \E kind \in Kinds : Submit(m, kind)
        BY <1>5, <3>1 DEF ServerAnswersChange, ChangeFailed, Submit
      <3>2. CASE \/ ClickLogout \/ ServerAnswersLogout \/ SubmitLogin \/ ServerAnswersLogin
                 \/ \E s \in Sessions : SessionEnds(s)
        BY <1>5, <3>2 DEF ClickLogout, ServerAnswersLogout, SubmitLogin, ServerAnswersLogin,
           SessionEnds
      <3>3. CASE \/ \E j \in Keys : QueryUnauthorized(j)
                 \/ \E m \in Changes : ChangeUnauthorized(m)
                 \/ LogoutAnswered
        BY <1>6, <3>3 DEF QueryUnauthorized, ChangeUnauthorized, ReportExpiry, LogoutAnswered
      <3>4. QED
        BY <1>7, <1>8, <1>9, <1>10, <1>11, <1>12, <1>13, <2>1, <3>1, <3>2, <3>3 DEF Next
    <2>2. CASE UNCHANGED vars
      BY <1>5, <2>2 DEF vars
    <2>3. QED
      BY <2>1, <2>2

\* Only the server's answer to a change changes data.
LEMMA DataOrigin ==
  ASSUME CacheInv, [Next]_vars
  PROVE  /\ UNCHANGED account
         /\ UNCHANGED data \/ \E m \in Changes : ServerAnswersChange(m)
  <1>1. CASE \E m \in Changes : \/ \E kind \in Kinds : Submit(m, kind)
                                \/ ServerAnswersChange(m)
                                \/ ChangeAnswered(m) \/ ChangeRefused(m)
                                \/ ChangeFailed(m) \/ ChangeUnauthorized(m)
    <2>1. CASE \E m \in Changes : ServerAnswersChange(m)
      BY <2>1 DEF ServerAnswersChange
    <2>2. CASE \E m \in Changes : \/ \E kind \in Kinds : Submit(m, kind)
                                  \/ ChangeAnswered(m) \/ ChangeRefused(m)
                                  \/ ChangeFailed(m) \/ ChangeUnauthorized(m)
      BY <2>2, ChangeAnsweredEffect DEF Submit, ChangeRefused, ChangeFailed,
         ChangeUnauthorized, ReportExpiry, serverVars
    <2>3. QED
      BY <1>1, <2>1, <2>2
  <1>2. CASE \/ \E p \in Pages : Navigate(p)
             \/ \E k \in Queries : Refetch(k) \/ ServerAnswersQuery(k)
             \/ \E k \in Keys : QueryAnswered(k) \/ QueryFailed(k) \/ QueryUnauthorized(k)
             \/ MeAnswered
    BY <1>2 DEF Navigate, Refetch, ServerAnswersQuery, QueryAnswered, QueryFailed,
       QueryUnauthorized, ReportExpiry, MeAnswered, serverVars
  <1>3. CASE \/ ClickLogout \/ ServerAnswersLogout \/ LogoutAnswered
             \/ SubmitLogin \/ ServerAnswersLogin \/ LoginAnswered
             \/ \E s \in Sessions : SessionEnds(s)
    BY <1>3 DEF ClickLogout, ServerAnswersLogout, LogoutAnswered, SubmitLogin,
       ServerAnswersLogin, LoginAnswered, SessionEnds, serverVars
  <1>4. CASE UNCHANGED vars
    BY <1>4 DEF vars
  <1>5. QED
    BY <1>1, <1>2, <1>3, <1>4 DEF Next

\* A step that is not the server's answer spends changes and unspends none: what is
\* still on its way was on its way before, and a request is new only if it is asked.
LEMMA ChangeOrigin ==
  ASSUME CacheInv, RestShape, [Next]_vars, \A m \in Changes : ~ServerAnswersChange(m)
  PROVE  /\ Spent \subseteq Spent'
         /\ \A m \in Changes :
              /\ Answered(change'[m].request) => change'[m] = change[m]
              /\ change'[m].kind = "none" => change'[m].request = Idle
  <1> DEFINE Quiet == /\ Spent \subseteq Spent'
                      /\ \A m \in Changes :
                           /\ Answered(change'[m].request) => change'[m] = change[m]
                           /\ change'[m].kind = "none" => change'[m].request = Idle
  <1>1. change \in [Changes -> [kind : Kinds \cup {"none"}, request : Requested]]
    BY DEF CacheInv, TabShape
  <1>2. CASE UNCHANGED change
    BY <1>2 DEF RestShape, Spent
  <1>3. ASSUME NEW n \in Changes, Done(n)
        PROVE  Quiet
    <2>1. change' = [change EXCEPT ![n].request = Idle]
      BY <1>3 DEF Done
    <2>2. /\ change'[n].kind = change[n].kind /\ change'[n].request = Idle
          /\ \A m \in Changes \ {n} : change'[m] = change[m]
      BY <1>1, <2>1
    <2>3. QED
      BY <2>2 DEF RestShape, Spent, Answered, Idle
  <1>4. ASSUME NEW n \in Changes, NEW kind \in Kinds, Submit(n, kind)
        PROVE  Quiet
    <2>1. /\ change[n].kind = "none"
          /\ change' = [change EXCEPT ![n] = [kind |-> kind, request |-> Asked(cookie)]]
      BY <1>4 DEF Submit
    <2>2. kind # "none"
      BY KindsAssumption
    <2>3. /\ change'[n].kind = kind /\ change'[n].request = Asked(cookie)
          /\ \A m \in Changes \ {n} : change'[m] = change[m]
      BY <1>1, <2>1
    <2>4. QED
      BY <2>1, <2>2, <2>3 DEF RestShape, Spent, Answered, Asked
  <1>5. CASE \E m \in Changes : \/ ChangeAnswered(m) \/ ChangeRefused(m)
                                \/ ChangeFailed(m) \/ ChangeUnauthorized(m)
    BY <1>3, <1>5 DEF ChangeAnswered, ChangeRefused, ChangeFailed, ChangeUnauthorized
  <1>6. CASE \/ \E p \in Pages : Navigate(p)
             \/ \E k \in Queries : Refetch(k) \/ ServerAnswersQuery(k)
             \/ \E k \in Keys : QueryAnswered(k) \/ QueryFailed(k) \/ QueryUnauthorized(k)
             \/ MeAnswered
    BY <1>2, <1>6 DEF Navigate, Refetch, ServerAnswersQuery, QueryAnswered, QueryFailed,
       QueryUnauthorized, MeAnswered
  <1>7. CASE \/ ClickLogout \/ ServerAnswersLogout \/ LogoutAnswered
             \/ SubmitLogin \/ ServerAnswersLogin \/ LoginAnswered
             \/ \E s \in Sessions : SessionEnds(s)
    BY <1>2, <1>7 DEF ClickLogout, ServerAnswersLogout, LogoutAnswered, SubmitLogin,
       ServerAnswersLogin, LoginAnswered, SessionEnds
  <1>8. CASE UNCHANGED vars
    BY <1>2, <1>8 DEF vars
  <1>9. QED
    BY <1>2, <1>3, <1>4, <1>5, <1>6, <1>7, <1>8 DEF Next

\* The server's answer spends one change and raises one account's data by at most one.
LEMMA ServerAnswerSpends ==
  ASSUME CacheInv, RestShape, NEW n \in Changes, ServerAnswersChange(n)
  PROVE  /\ n \notin Spent /\ Spent' = Spent \cup {n}
         /\ \A u \in Users : data'[u] \in {data[u], data[u] + 1}
         /\ change'[n].request.version \in {0, data'[account[change'[n].request.as]]}
         /\ \A m \in Changes \ {n} : change'[m] = change[m]
         /\ change'[n].kind # "none"
  <1> DEFINE s == change[n].request.as
  <1>1. change \in [Changes -> [kind : Kinds \cup {"none"}, request : Requested]]
    BY DEF CacheInv, TabShape
  <1>2. change[n].request.phase = "asked" /\ s \in live
    BY DEF ServerAnswersChange
  <1>3. change[n].kind # "none"
    BY <1>2 DEF RestShape, Idle
  <1>4. s \in Sessions /\ account[s] \in Users /\ data \in [Users -> Nat]
    BY <1>2, SessionRange DEF CacheInv, ServerShape
  <1>5. \/ /\ data' = [data EXCEPT ![account[s]] = @ + 1]
           /\ change' = [change EXCEPT ![n].request = Answer(s, "ok", data[account[s]] + 1)]
        \/ /\ data' = data
           /\ change' = [change EXCEPT ![n].request = Answer(s, "conflict", 0)]
    BY DEF ServerAnswersChange
  <1>6. account' = account
    BY DEF ServerAnswersChange
  <1>7. PICK result, v :
          /\ change' = [change EXCEPT ![n].request = Answer(s, result, v)]
          /\ v = 0 \/ v = data'[account[s]]
    BY <1>4, <1>5
  <1>8. /\ change'[n].kind = change[n].kind /\ change'[n].request = Answer(s, result, v)
        /\ \A m \in Changes \ {n} : change'[m] = change[m]
    BY <1>1, <1>7
  <1>9. /\ change'[n].request.phase = "answered" /\ change'[n].request.as = s
        /\ change'[n].request.version = v
    BY <1>8 DEF Answer
  <1>10. n \notin Spent /\ Spent' = Spent \cup {n}
    BY <1>2, <1>3, <1>8, <1>9 DEF Spent
  <1>11. \A u \in Users : data'[u] \in {data[u], data[u] + 1}
    BY <1>4, <1>5
  <1>12. QED
    BY <1>3, <1>6, <1>7, <1>8, <1>9, <1>10, <1>11

\* Every route is one of the instance's, and the status one of the entry's.
LEMMA RouteStep ==
  ASSUME RestShape, [Next]_vars
  PROVE  /\ page' \in Pages
         /\ entry' \in {"waiting", "resolved", "gone"}
         /\ expiryActive' \in BOOLEAN
  <1> USE PagesAssumption DEF RestShape
  <1>1. ASSUME NEW n \in Changes, ServerAnswersChange(n)
        PROVE  /\ UNCHANGED <<page, expiryActive>>
               /\ entry' \in {"waiting", "resolved", "gone"}
    BY <1>1 DEF ServerAnswersChange, EntryKinds, Becomes
  <1>2. CASE \/ \E p \in Pages : Navigate(p)
             \/ \E k \in Queries : Refetch(k) \/ ServerAnswersQuery(k)
             \/ \E k \in Keys : QueryAnswered(k) \/ QueryFailed(k) \/ QueryUnauthorized(k)
             \/ MeAnswered
    BY <1>2 DEF Navigate, Refetch, ServerAnswersQuery, QueryAnswered, QueryFailed,
       QueryUnauthorized, ReportExpiry, MeAnswered, Render, SignedOut, serverVars
  <1>3. CASE \E m \in Changes : \/ \E kind \in Kinds : Submit(m, kind)
                                \/ ServerAnswersChange(m)
                                \/ ChangeAnswered(m) \/ ChangeRefused(m)
                                \/ ChangeFailed(m) \/ ChangeUnauthorized(m)
    BY <1>1, <1>3, ChangeAnsweredEffect DEF Submit, ChangeRefused, ChangeFailed,
       ChangeUnauthorized, ReportExpiry, SignedOut, Render, serverVars
  <1>4. CASE \/ ClickLogout \/ ServerAnswersLogout \/ LogoutAnswered
             \/ SubmitLogin \/ ServerAnswersLogin \/ LoginAnswered
             \/ \E s \in Sessions : SessionEnds(s)
    BY <1>4 DEF ClickLogout, ServerAnswersLogout, LogoutAnswered, SubmitLogin,
       ServerAnswersLogin, LoginAnswered, SessionEnds, Render, SignedOut, serverVars
  <1>5. CASE UNCHANGED vars
    BY <1>5 DEF vars
  <1>6. QED
    BY <1>2, <1>3, <1>4, <1>5 DEF Next

\* The answers of a login and a logout carry no data.
LEMMA AuthStep ==
  ASSUME NothingIsAhead, [Next]_vars
  PROVE  /\ Answered(login') => login'.version = 0
         /\ Answered(logout') => logout'.version = 0
  <1> USE DEF NothingIsAhead, Answered
  <1>1. CASE ClickLogout \/ ServerAnswersLogout \/ LogoutAnswered
    BY <1>1 DEF ClickLogout, ServerAnswersLogout, LogoutAnswered, Asked, Answer, Idle
  <1>2. CASE SubmitLogin \/ ServerAnswersLogin \/ LoginAnswered
    BY <1>2 DEF SubmitLogin, ServerAnswersLogin, LoginAnswered, Asked, Answer, Idle
  <1>3. CASE UNCHANGED <<login, logout>>
    BY <1>3
  <1>4. CASE \E m \in Changes : \/ \E kind \in Kinds : Submit(m, kind)
                                \/ ServerAnswersChange(m)
                                \/ ChangeAnswered(m) \/ ChangeRefused(m)
                                \/ ChangeFailed(m) \/ ChangeUnauthorized(m)
    BY <1>3, <1>4, ChangeAnsweredEffect DEF Submit, ServerAnswersChange, ChangeRefused,
       ChangeFailed, ChangeUnauthorized, ReportExpiry, authVars
  <1>5. CASE \/ \E p \in Pages : Navigate(p)
             \/ \E k \in Queries : Refetch(k) \/ ServerAnswersQuery(k)
             \/ \E k \in Keys : QueryAnswered(k) \/ QueryFailed(k) \/ QueryUnauthorized(k)
             \/ MeAnswered
             \/ \E s \in Sessions : SessionEnds(s)
    BY <1>3, <1>5 DEF Navigate, Refetch, ServerAnswersQuery, QueryAnswered, QueryFailed,
       QueryUnauthorized, ReportExpiry, MeAnswered, SessionEnds, authVars
  <1>6. CASE UNCHANGED vars
    BY <1>3, <1>6 DEF vars
  <1>7. QED
    BY <1>1, <1>2, <1>4, <1>5, <1>6 DEF Next

\* No step puts a version anywhere that the server does not have.
LEMMA VersionStep ==
  ASSUME CacheInv, CacheInv', VersionInv, [Next]_vars
  PROVE  VersionInv'
  <1> USE DEF VersionInv
  <1>1. account' = account /\ account \in [Sessions -> Users]
        /\ data \in [Users -> Nat] /\ data' \in [Users -> Nat]
    BY DataOrigin DEF CacheInv, ServerShape
  <1>2. IsFiniteSet(Spent) /\ Cardinality(Spent) \in Nat
    <2>1. Spent \subseteq Changes
      BY DEF Spent
    <2>2. QED
      BY <2>1, ChangesAssumption, FS_Subset, FS_CardinalityType
  <1>3. /\ \A u \in Users : data[u] <= data'[u] /\ data'[u] <= Cardinality(Spent')
        /\ \A m \in Changes : Answered(change'[m].request) =>
             change'[m].request.version <= data'[account[change'[m].request.as]]
        /\ \A m \in Changes : change'[m].kind = "none" => change'[m].request = Idle
    <2>1. CASE \E m \in Changes : ServerAnswersChange(m)
      <3>1. PICK n \in Changes : ServerAnswersChange(n)
        BY <2>1
      <3>2. /\ n \notin Spent /\ Spent' = Spent \cup {n}
            /\ \A u \in Users : data'[u] \in {data[u], data[u] + 1}
            /\ change'[n].request.version \in {0, data'[account[change'[n].request.as]]}
            /\ \A m \in Changes \ {n} : change'[m] = change[m]
            /\ change'[n].kind # "none"
        BY <1>1, <3>1, ServerAnswerSpends
      <3>3. Cardinality(Spent') = Cardinality(Spent) + 1
        BY <1>2, <3>2, FS_AddElement
      <3>4. \A u \in Users : data[u] <= data'[u] /\ data'[u] <= Cardinality(Spent')
        BY <1>1, <1>2, <3>2, <3>3 DEF NothingIsAhead
      <3>5. ASSUME NEW m \in Changes, Answered(change'[m].request)
            PROVE  change'[m].request.version <= data'[account[change'[m].request.as]]
        <4>1. change'[m].request.as \in Sessions
          BY <3>5 DEF CacheInv, SessionsExist
        <4>2. data'[account[change'[m].request.as]] \in Nat
          BY <1>1, <4>1
        <4>3. CASE m = n
          BY <3>2, <4>2, <4>3
        <4>4. CASE m # n
          <5>1. change'[m] = change[m] /\ change'[m].request.version \in Nat
            BY <3>2, <3>5, <4>4, RequestShape DEF CacheInv, TabShape, Answered, Idle
          <5>2. change[m].request.version <= data[account[change[m].request.as]]
            BY <3>5, <5>1 DEF NothingIsAhead
          <5>3. QED
            BY <1>1, <3>4, <4>1, <4>2, <5>1, <5>2
        <4>5. QED
          BY <4>3, <4>4
      <3>6. \A m \in Changes : change'[m].kind = "none" => change'[m].request = Idle
        BY <3>2 DEF RestShape
      <3>7. QED
        BY <3>4, <3>5, <3>6
    <2>2. CASE \A m \in Changes : ~ServerAnswersChange(m)
      <3>1. /\ Spent \subseteq Spent'
            /\ \A m \in Changes :
                 /\ Answered(change'[m].request) => change'[m] = change[m]
                 /\ change'[m].kind = "none" => change'[m].request = Idle
        BY <2>2, ChangeOrigin
      <3>2. data' = data
        BY <2>2, DataOrigin
      <3>3. IsFiniteSet(Spent') /\ Cardinality(Spent') \in Nat
        <4>1. Spent' \subseteq Changes
          BY DEF Spent
        <4>2. QED
          BY <4>1, ChangesAssumption, FS_Subset, FS_CardinalityType
      <3>4. Cardinality(Spent) <= Cardinality(Spent')
        BY <3>1, <3>3, FS_Subset
      <3>5. \A u \in Users : data[u] <= data'[u] /\ data'[u] <= Cardinality(Spent')
        BY <1>1, <1>2, <3>2, <3>3, <3>4 DEF NothingIsAhead
      <3>6. QED
        BY <3>1, <3>2, <3>5 DEF NothingIsAhead
    <2>3. QED
      BY <2>1, <2>2
  <1>4. ASSUME NEW k \in Keys, cache'[k].held
        PROVE  cache'[k].version <= data'[account[cache'[k].as]]
    <2>1. cache'[k].as \in Sessions /\ cache'[k].version \in Nat
      BY <1>4, CachedShape DEF CacheInv, TabShape, Cached
    <2>2. cache'[k].version <= data[account[cache'[k].as]]
      <3>1. k \in Queries
        BY DEF Queries
      <3>2. QED
        BY <1>4, <3>1, CacheOrigin DEF NothingIsAhead
    <2>3. QED
      BY <1>1, <1>3, <2>1, <2>2
  <1>5. ASSUME NEW k \in Queries, Answered(fetch'[k])
        PROVE  fetch'[k].version <= data'[account[fetch'[k].as]]
    <2>1. fetch'[k].as \in Sessions /\ fetch'[k].version \in Nat
      BY <1>5, RequestShape DEF CacheInv, TabShape, SessionsExist, Answered, Idle
    <2>2. fetch'[k].version <= data[account[fetch'[k].as]]
      BY <1>1, <1>5, <2>1, FetchOrigin DEF NothingIsAhead
    <2>3. QED
      BY <1>1, <1>3, <2>1, <2>2
  <1>6. NothingIsAhead'
    BY <1>1, <1>3, <1>4, <1>5, AuthStep DEF NothingIsAhead, Answered
  <1>7. RestShape'
    BY <1>3, RouteStep DEF RestShape
  <1>8. QED
    BY <1>6, <1>7

\* The versions stay those of the server.
LEMMA VersionInvariance == Spec => []VersionInv
  <1>1. Init => VersionInv
    <2> SUFFICES ASSUME Init PROVE VersionInv
      OBVIOUS
    <2>1. Spent = {}
      BY DEF Init, Spent
    <2>2. Cardinality(Spent) = 0
      BY <2>1, FS_EmptySet
    <2>3. NothingIsAhead
      BY <2>2, CachedShape DEF Init, NothingIsAhead, Answered, Idle, Asked
    <2>4. RestShape
      BY DEF Init, RestShape
    <2>5. QED
      BY <2>3, <2>4 DEF VersionInv
  <1>2. QED
    BY <1>1, VersionStep, CacheInvariant, PTL DEF Spec

\* The tab, its cache and its requests keep their types; in particular no version
\* exceeds the number of changes submitted, for the server makes none twice.
THEOREM TabTypeCorrect == Spec => []TypeOK
  <1>1. CacheInv /\ VersionInv => TypeOK
    <2> SUFFICES ASSUME CacheInv, VersionInv PROVE TypeOK
      OBVIOUS
    <2> DEFINE N == Cardinality(Changes)
    <2>1. /\ IsFiniteSet(Spent) /\ Cardinality(Spent) \in Nat /\ N \in Nat
          /\ Cardinality(Spent) <= N
      <3>1. Spent \subseteq Changes
        BY DEF Spent
      <3>2. QED
        BY <3>1, ChangesAssumption, FS_Subset, FS_CardinalityType
    <2>2. Versions = 0 .. N
      BY DEF Versions
    <2> HIDE DEF N
    <2>3. data \in [Users -> Versions]
      <3>1. \A u \in Users : data[u] \in Nat /\ data[u] <= N
        BY <2>1 DEF CacheInv, ServerShape, VersionInv, NothingIsAhead
      <3>2. QED
        BY <2>1, <2>2, <3>1 DEF CacheInv, ServerShape
    <2>4. ASSUME NEW s \in Sessions, NEW v \in Nat, v <= data[account[s]]
          PROVE  v \in Versions
      <3>1. data[account[s]] \in Versions
        BY <2>3 DEF CacheInv, ServerShape
      <3>2. QED
        BY <2>1, <2>2, <2>4, <3>1
    <2>5. ASSUME NEW q \in Requested, Answered(q) => q.version \in Versions
          PROVE  q \in InFlight
      BY <2>5 DEF Requested, Replies, InFlight, Answers, Answered
    <2>6. ASSUME NEW k \in Keys
          PROVE  cache[k] \in {Absent} \cup Held
      <3>1. cache[k] \in {Absent} \cup Cached
        BY DEF CacheInv, TabShape
      <3>2. ASSUME cache[k] \in Cached
            PROVE  cache[k].version \in Versions
        BY <2>4, <3>2, CachedShape DEF Cached, VersionInv, NothingIsAhead
      <3>3. QED
        BY <3>1, <3>2 DEF Cached, Held
    <2>7. ASSUME NEW k \in Queries
          PROVE  fetch[k] \in InFlight
      <3>1. fetch[k] \in Requested
        BY DEF CacheInv, TabShape
      <3>2. ASSUME Answered(fetch[k])
            PROVE  fetch[k].version \in Versions
        <4>1. fetch[k].as \in Sessions /\ fetch[k].version \in Nat
          BY <3>1, <3>2, RequestShape DEF CacheInv, SessionsExist, Answered, Idle
        <4>2. QED
          BY <2>4, <3>2, <4>1 DEF VersionInv, NothingIsAhead
      <3>3. QED
        BY <2>5, <3>1, <3>2
    <2>8. ASSUME NEW m \in Changes
          PROVE  change[m].kind \in Kinds \cup {"none"} /\ change[m].request \in InFlight
      <3>1. change[m].kind \in Kinds \cup {"none"} /\ change[m].request \in Requested
        BY DEF CacheInv, TabShape
      <3>2. ASSUME Answered(change[m].request)
            PROVE  change[m].request.version \in Versions
        <4>1. change[m].request.as \in Sessions /\ change[m].request.version \in Nat
          BY <3>1, <3>2, RequestShape DEF CacheInv, SessionsExist, Answered, Idle
        <4>2. QED
          BY <2>4, <3>2, <4>1 DEF VersionInv, NothingIsAhead
      <3>3. QED
        BY <2>5, <3>1, <3>2
    <2>9. login \in InFlight /\ logout \in InFlight
      <3>1. 0 \in Versions
        BY <2>1, <2>2
      <3>2. QED
        BY <2>5, <3>1 DEF CacheInv, TabShape, VersionInv, NothingIsAhead
    <2>10. told \subseteq Notice
      <3>1. ASSUME NEW t \in told
            PROVE  /\ t \in [kind : Kinds, key : Keys, user : Users, version : Nat]
                   /\ t.version <= data[t.user]
        BY DEF CacheInv, TabShape, VersionsAgree
      <3>2. ASSUME NEW t \in told PROVE t.version \in Versions
        BY <2>1, <2>2, <2>3, <3>1
      <3>3. QED
        BY <3>1, <3>2 DEF Notice
    <2>11. /\ opened \in 0 .. MaxSessions /\ live \subseteq 1 .. opened
           /\ cookie \in 0 .. opened /\ ended \subseteq Sessions
           /\ account \in [Sessions -> Users] /\ me \in Users \cup {Guest, Unknown}
      BY SessionRange DEF CacheInv, ServerShape, TabShape
    <2>12. QED
      BY <2>3, <2>6, <2>7, <2>8, <2>9, <2>10, <2>11 DEF TypeOK, VersionInv, RestShape
  <1>2. QED
    BY <1>1, CacheInvariant, VersionInvariance, PTL
=============================================================================
