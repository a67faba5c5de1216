-------------------------- MODULE RankedFeedsProofs --------------------------
(***************************************************************************)
(* Proofs about RankedFeeds for any feeds, limits, loads and clock bound:  *)
(* type correctness, that background refreshes never overlap, and that      *)
(* rows are only served that were known good within their limit.           *)
(***************************************************************************)
EXTENDS RankedFeeds, TLAPS

\* Init and every step keep the state of its type.
LEMMA InitTyped == Init => TypeOK
<1> SUFFICES ASSUME Init PROVE TypeOK
  OBVIOUS
<1>1. load \in [Loads -> Load]
  BY DEF Init, Load, LoadIdle
<1>2. task \in [Loads -> [Feeds -> Steps]]
  BY DEF Init, Steps
<1>3. disk \in [Feeds -> Int \cup {None}]
  BY FeedsAssumption DEF Init
<1> QED BY <1>1, <1>2, <1>3 DEF Init, TypeOK, Nothing

\* The parts of TypeOK the steps of a load or loader can disturb.
LoadTyped == load \in [Loads -> Load]
TaskTyped == task \in [Loads -> [Feeds -> Steps]]

LEMMA IdleIsLoad == LoadIdle \in Load
BY DEF LoadIdle, Load

\* The steps of a load keep the state of its type.
LEMMA LoadStepTyped ==
  ASSUME TypeOK, NEW r \in Loads, LoadStep(r) \/ StartPage(r)
  PROVE  TypeOK'
<1> USE FeedsAssumption DEF TypeOK
<1>i. LoadIdle \in Load /\ load[r] \in Load
  <2>1. load[r] \in Load
    OBVIOUS
  <2> QED BY <2>1, IdleIsLoad
<1>c. [f \in Feeds |-> "cache"] \in [Feeds -> Steps] /\ [f \in Feeds |-> "out"] \in [Feeds -> Steps]
  BY DEF Steps
<1>f. now + Cooldown \in Nat
  OBVIOUS
<1>1. CASE StartPage(r)
  <2>1. [LoadIdle EXCEPT !.kind = "page", !.step = "look", !.at = now] \in Load
    BY DEF LoadIdle, Load
  <2> QED BY <1>1, <2>1 DEF StartPage, feedVars, refreshVars
<1>2. CASE StartLoaders(r)
  <2>1. [load[r] EXCEPT !.step = "loaders", !.at = now] \in Load
    BY <1>i DEF Load
  <2>2. load' = [load EXCEPT ![r] = [load[r] EXCEPT !.step = "loaders", !.at = now]]
    BY <1>2 DEF StartLoaders
  <2> QED BY <1>2, <1>c, <2>1, <2>2 DEF StartLoaders, feedVars, refreshVars
<1>3. CASE ServeStale(r)
  BY <1>3, <1>i DEF ServeStale, ServingStale, feedVars, refreshVars
<1>4. CASE ServeAndRefresh(r)
  <2>1. [LoadIdle EXCEPT !.kind = "refresh", !.step = "loaders", !.at = now] \in Load
    BY DEF LoadIdle, Load
  <2> QED BY <1>4, <1>c, <2>1 DEF ServeAndRefresh, ServingStale, feedVars
<1>5. CASE ServeUnrefreshed(r)
  BY <1>5, <1>i, <1>f DEF ServeUnrefreshed, ServingStale, Finish, feedVars
<1>6. CASE Release(r)
  <2>1. PICK end \in [{f \in Feeds : At(r, f, "fetch")} -> {"resolved", "failed", "done"}] :
          /\ task' = [task EXCEPT ![r] =
               [f \in Feeds |-> IF At(r, f, "hit") THEN "done" ELSE end[f]]]
          /\ IF \E f \in DOMAIN end : end[f] = "done" THEN Outcome(r, FALSE) ELSE UNCHANGED load
    BY <1>6 DEF Release
  <2>2. \A f \in Feeds : (IF At(r, f, "hit") THEN "done" ELSE end[f]) \in Steps
    <3> TAKE f \in Feeds
    <3>1. task[r][f] \in Waiting
      BY <1>6 DEF Release
    <3> QED BY <2>1, <3>1 DEF At, Waiting, Steps, Ended
  <2>3. TaskTyped'
    BY <2>1, <2>2 DEF TaskTyped
  <2>4. LoadTyped'
    <3>1. \A x \in {"none", "good", "bad"} : [load[r] EXCEPT !.outcome = x] \in Load
      BY <1>i DEF Load
    <3>2. CASE UNCHANGED load
      BY <3>2 DEF LoadTyped
    <3>3. CASE Outcome(r, FALSE)
      <4>1. CASE load[r].kind = "refresh"
        <5>1. load' = [load EXCEPT ![r] = [load[r] EXCEPT !.outcome = "bad"]]
          BY <3>3, <4>1 DEF Outcome
        <5> QED BY <5>1, <3>1 DEF LoadTyped
      <4>2. CASE load[r].kind # "refresh"
        BY <3>3, <4>2 DEF Outcome, LoadTyped
      <4> QED BY <4>1, <4>2
    <3> QED BY <2>1, <3>2, <3>3
  <2>5. lock' \in [Feeds -> Loads \cup {None}]
    BY <1>6 DEF Release
  <2> QED BY <1>6, <2>3, <2>4, <2>5 DEF Release, refreshVars, TaskTyped, LoadTyped
<1>7. CASE EndPage(r)
  BY <1>7, <1>i, <1>c DEF EndPage, Leave, feedVars, refreshVars
<1>8. CASE EndRefresh(r)
  <2>1. nextAllowed' \in Nat /\ refreshing' \in BOOLEAN
    BY <1>8, <1>f DEF EndRefresh, Finish
  <2> QED BY <1>8, <1>i, <1>c, <2>1 DEF EndRefresh, Leave, feedVars
<1> QED BY <1>1, <1>2, <1>3, <1>4, <1>5, <1>6, <1>7, <1>8 DEF LoadStep

\* The steps of a loader keep the state of its type.
LEMMA TaskStepTyped ==
  ASSUME TypeOK, NEW r \in Loads, NEW f \in Feeds, TaskStep(r, f)
  PROVE  TypeOK'
<1> USE FeedsAssumption DEF TypeOK
<1>i. load[r] \in Load /\ load[r].at \in Nat
  BY DEF Load
<1>b. \A step \in Steps : Become(r, f, step) => TaskTyped'
  BY DEF Become, TaskTyped
<1>p. \A payload \in Payload :
        Put(r, f, payload) => cache' \in [Feeds -> Cached \cup {None}]
  BY <1>i DEF Put, Cached
<1>s. {"disk", "fetch", "hit", "restored", "remember", "done"} \subseteq Steps
  BY DEF Steps, Waiting, Ended
<1>o. \A live \in BOOLEAN : Outcome(r, live) => LoadTyped'
  <2> TAKE live \in BOOLEAN
  <2> HAVE Outcome(r, live)
  <2>1. CASE load[r].kind = "refresh"
    <3> DEFINE x == IF live /\ load[r].outcome # "bad" THEN "good" ELSE "bad"
    <3>1. load' = [load EXCEPT ![r] = [load[r] EXCEPT !.outcome = x]]
      BY <2>1 DEF Outcome
    <3>2. [load[r] EXCEPT !.outcome = x] \in Load
      BY <1>i DEF Load
    <3> QED BY <3>1, <3>2 DEF LoadTyped
  <2>2. CASE load[r].kind # "refresh"
    BY <2>2 DEF Outcome, LoadTyped
  <2> QED BY <2>1, <2>2
<1>1. CASE CacheHit(r, f)
  <2>1. lock' \in [Feeds -> Loads \cup {None}]
    BY <1>1 DEF CacheHit
  <2> QED BY <1>1, <1>b, <1>s, <2>1 DEF CacheHit, TaskTyped, refreshVars
<1>2. CASE CacheMiss(r, f)
  <2>1. (IF f \in attempted THEN "fetch" ELSE "disk") \in Steps
    BY <1>s
  <2> QED BY <1>2, <1>b, <2>1 DEF CacheMiss, TaskTyped, refreshVars
<1>3. CASE NotOnDisk(r, f)
  BY <1>3, <1>b, <1>s DEF NotOnDisk, TaskTyped, feedVars, refreshVars
<1>4. CASE Restore(r, f)
  <2>1. disk[f] \in Int /\ disk[f] \in Payload
    BY <1>4 DEF Restore, OnDisk, Payload
  <2>2. lastGood' \in [Feeds -> Int \cup {None}]
    BY <1>4, <1>i, <2>1 DEF Restore
  <2>3. cache' \in [Feeds -> Cached \cup {None}]
    BY <1>4, <1>p, <2>1 DEF Restore
  <2> QED BY <1>4, <1>b, <1>s, <2>2, <2>3 DEF Restore, TaskTyped, refreshVars
<1>5. CASE StoreLive(r, f)
  <2>1. cache' \in [Feeds -> Cached \cup {None}]
    BY <1>5, <1>p DEF StoreLive, Payload
  <2>2. lastLive' \in [Feeds -> Nat \cup {None}]
    BY <1>5, <1>i DEF StoreLive
  <2>3. LoadTyped'
    BY <1>5, <1>o DEF StoreLive
  <2> QED BY <1>5, <1>b, <1>s, <2>1, <2>2, <2>3 DEF StoreLive, TaskTyped, LoadTyped, refreshVars
<1>6. CASE StoreFailed(r, f)
  <2>1. cache' \in [Feeds -> Cached \cup {None}]
    BY <1>6, <1>p DEF StoreFailed, Payload
  <2>2. LoadTyped'
    BY <1>6, <1>o DEF StoreFailed
  <2> QED BY <1>6, <1>b, <1>s, <2>1, <2>2 DEF StoreFailed, TaskTyped, LoadTyped, refreshVars
<1>7. CASE Remember(r, f)
  <2>1. disk' \in [Feeds -> Int \cup {None}]
    BY <1>7 DEF Remember
  <2>2. lastGood' \in [Feeds -> Int \cup {None}]
    BY <1>7, <1>i DEF Remember
  <2> QED BY <1>7, <1>b, <1>s, <2>1, <2>2 DEF Remember, TaskTyped, refreshVars
<1> QED BY <1>1, <1>2, <1>3, <1>4, <1>5, <1>6, <1>7 DEF TaskStep

LEMMA NextTyped == TypeOK /\ [Next]_vars => TypeOK'
<1> SUFFICES ASSUME TypeOK, [Next]_vars PROVE TypeOK'
  OBVIOUS
<1>1. CASE \E r \in Loads : StartPage(r) \/ LoadStep(r)
  BY <1>1, LoadStepTyped
<1>2. CASE \E r \in Loads, f \in Feeds : TaskStep(r, f)
  BY <1>2, TaskStepTyped
<1>3. CASE Tick
  BY <1>3 DEF Tick, TypeOK, feedVars, refreshVars
<1>4. CASE UNCHANGED vars
  BY <1>4 DEF vars, TypeOK, feedVars, refreshVars
<1> QED BY <1>1, <1>2, <1>3, <1>4 DEF Next

\* Every reachable state of the ranked feeds is of its type.
THEOREM TypeCorrect == Spec => []TypeOK
<1>1. Init => TypeOK
  BY InitTyped
<1>2. TypeOK /\ [Next]_vars => TypeOK'
  BY NextTyped
<1> QED BY <1>1, <1>2, PTL DEF Spec

-----------------------------------------------------------------------------
\* A refresh is never under way unless _RANKED_REFRESH_IN_FLIGHT says so.
RefreshInv ==
  /\ \A r \in Loads : load[r].kind = "refresh" => refreshing
  /\ RefreshesApart

\* The kind of a load changes only when it starts or ends.
LEMMA KindsKept ==
  ASSUME TypeOK, NEW r \in Loads, NEW f \in Feeds, TaskStep(r, f)
  PROVE  /\ \A q \in Loads : load'[q].kind = load[q].kind
         /\ UNCHANGED refreshing
<1> USE DEF TypeOK
<1>o. \A live \in BOOLEAN : Outcome(r, live) => \A q \in Loads : load'[q].kind = load[q].kind
  BY DEF Outcome, Load
<1>1. CASE StoreLive(r, f) \/ StoreFailed(r, f)
  BY <1>1, <1>o DEF StoreLive, StoreFailed, refreshVars
<1>2. CASE ~ (StoreLive(r, f) \/ StoreFailed(r, f))
  BY <1>2 DEF TaskStep, CacheHit, CacheMiss, NotOnDisk, Restore, Remember, refreshVars
<1> QED BY <1>1, <1>2

\* A load that starts or ends leaves at most one refresh.
LEMMA LoadStepApart ==
  ASSUME TypeOK, RefreshInv, NEW r \in Loads, LoadStep(r) \/ StartPage(r)
  PROVE  RefreshInv'
<1> USE DEF TypeOK, RefreshInv, RefreshesApart
<1>1. CASE StartPage(r)
  BY <1>1 DEF StartPage, LoadIdle, refreshVars
<1>2. CASE StartLoaders(r)
  <2>1. \A q \in Loads : load'[q].kind = load[q].kind
    BY <1>2 DEF StartLoaders, Load
  <2> QED BY <1>2, <2>1 DEF StartLoaders, refreshVars
<1>3. CASE ServeStale(r)
  BY <1>3 DEF ServeStale, LoadIdle, refreshVars
<1>4. CASE ServeAndRefresh(r)
  BY <1>4 DEF ServeAndRefresh, MayRefresh, LoadIdle
<1>5. CASE ServeUnrefreshed(r)
  BY <1>5 DEF ServeUnrefreshed, MayRefresh, LoadIdle
<1>6. CASE Release(r)
  <2>1. \A q \in Loads : load'[q].kind = load[q].kind
    BY <1>6 DEF Release, Outcome, Load
  <2> QED BY <1>6, <2>1 DEF Release, refreshVars
<1>7. CASE EndPage(r)
  BY <1>7 DEF EndPage, Leave, LoadIdle, refreshVars
<1>8. CASE EndRefresh(r)
  BY <1>8 DEF EndRefresh, Leave, LoadIdle
<1> QED BY <1>1, <1>2, <1>3, <1>4, <1>5, <1>6, <1>7, <1>8 DEF LoadStep

\* Two background refreshes never run at once, for any number of pages that
\* find the feeds stale and however refreshes end (_try_begin_ranked_refresh,
\* _finish_ranked_refresh).
THEOREM NeverTwoRefreshes == Spec => []RefreshesApart
<1>1. Init => RefreshInv
  BY DEF Init, RefreshInv, RefreshesApart, LoadIdle
<1>2. TypeOK /\ RefreshInv /\ [Next]_vars => RefreshInv'
  <2> SUFFICES ASSUME TypeOK, RefreshInv, [Next]_vars PROVE RefreshInv'
    OBVIOUS
  <2>1. CASE \E r \in Loads : StartPage(r) \/ LoadStep(r)
    BY <2>1, LoadStepApart
  <2>2. CASE \E r \in Loads, f \in Feeds : TaskStep(r, f)
    BY <2>2, KindsKept DEF RefreshInv, RefreshesApart
  <2>3. CASE Tick
    BY <2>3 DEF Tick, RefreshInv, RefreshesApart, refreshVars
  <2>4. CASE UNCHANGED vars
    BY <2>4 DEF vars, RefreshInv, RefreshesApart, refreshVars
  <2> QED BY <2>1, <2>2, <2>3, <2>4 DEF Next
<1>3. RefreshInv => RefreshesApart
  BY DEF RefreshInv
<1> QED BY <1>1, <1>2, <1>3, TypeCorrect, PTL DEF Spec
-----------------------------------------------------------------------------
(* What is served is known good.                                           *)

\* Loads do not run ahead of the clock, and only started loaders are anywhere.
ReadingsPast ==
  /\ \A r \in Loads : load[r].at <= now
  /\ \A r \in Loads : load[r].kind = "idle" => load[r].step = "idle"
  /\ \A r \in Loads : load[r].step # "loaders" => \A f \in Feeds : task[r][f] = "out"
  /\ \A f \in Feeds : lastGood[f] # None => lastGood[f] <= now

\* A loader that is about to remember the time of its load had live rows then.
RemembersLive(r, f) ==
  task[r][f] = "remember" => lastLive[f] # None /\ load[r].at <= lastLive[f]

HasRows(f) == cache[f] # None /\ cache[f].payload # None

\* Rows were not too old for their feed when they were put in the cache, and a
\* feed's last good time is not past its rows and what was live.
RowsKnown(f) ==
  HasRows(f) =>
    /\ cache[f].at <= cache[f].payload + MaxAge[f]
    /\ lastGood[f] # None =>
         \/ lastGood[f] <= cache[f].payload
         \/ lastLive[f] # None /\ lastGood[f] <= lastLive[f]

KnownInvariant ==
  /\ ReadingsPast
  /\ \A r \in Loads, f \in Feeds : RemembersLive(r, f)
  /\ \A f \in Feeds : RowsKnown(f)

\* A load keeps its reading and its step while its loaders are under way.
LEMMA LoadersKeepReading ==
  ASSUME TypeOK, NEW r \in Loads, NEW live \in BOOLEAN, Outcome(r, live)
  PROVE  \A q \in Loads : /\ load'[q].at = load[q].at /\ load'[q].step = load[q].step
                          /\ load'[q].kind = load[q].kind
BY DEF TypeOK, Outcome, Load

\* Loads that start, end, or are answered at the barrier leave it so.
LEMMA KnownLoadStep ==
  ASSUME TypeOK, KnownInvariant, NEW r \in Loads, StartPage(r) \/ LoadStep(r)
  PROVE  KnownInvariant'
<1> USE DEF TypeOK, KnownInvariant
<1>0. now' = now /\ cache' = cache /\ lastGood' = lastGood /\ lastLive' = lastLive
  BY DEF StartPage, LoadStep, StartLoaders, ServeStale, ServeAndRefresh, ServeUnrefreshed,
     ServingStale, Release, EndPage, EndRefresh, feedVars
<1>1. \A f \in Feeds : RowsKnown(f)'
  BY <1>0 DEF RowsKnown, HasRows
<1>2. \A f \in Feeds : lastGood'[f] # None => lastGood'[f] <= now'
  BY <1>0 DEF ReadingsPast
<1>3. ASSUME NEW step, NEW at, at \in {load[r].at, now, 0},
             \A q \in Loads \ {r} : load'[q] = load[q] /\ task'[q] = task[q],
             load'[r].step = step, load'[r].at = at,
             load'[r].kind = "idle" => step = "idle",
             \A f \in Feeds : task'[r][f] # "remember",
             step # "loaders" => \A f \in Feeds : task'[r][f] = "out"
      PROVE  KnownInvariant'
  <2>1. at <= now
    BY <1>3 DEF ReadingsPast
  <2>2. \A q \in Loads : load'[q].at <= now'
    BY <1>0, <1>3, <2>1 DEF ReadingsPast
  <2>3. \A q \in Loads : load'[q].step # "loaders" => \A f \in Feeds : task'[q][f] = "out"
    BY <1>3 DEF ReadingsPast
  <2>4. \A q \in Loads, f \in Feeds : RemembersLive(q, f)'
    BY <1>0, <1>3 DEF RemembersLive
  <2>5. \A q \in Loads : load'[q].kind = "idle" => load'[q].step = "idle"
    BY <1>3 DEF ReadingsPast
  <2> QED BY <1>1, <1>2, <2>2, <2>3, <2>4, <2>5 DEF ReadingsPast
<1>4. CASE StartPage(r)
  <2>1. /\ load'[r].step = "look" /\ load'[r].at = now /\ task' = task
        /\ load'[r].kind = "page"
        /\ \A q \in Loads \ {r} : load'[q] = load[q]
    BY <1>4 DEF StartPage, LoadIdle
  <2>2. load[r].kind = "idle"
    BY <1>4 DEF StartPage, Running
  <2>3. \A f \in Feeds : task[r][f] = "out"
    BY <2>2 DEF ReadingsPast
  <2> QED BY <1>3, <2>1, <2>3
<1>5. CASE StartLoaders(r)
  <2>1. load[r].kind # "idle"
    BY <1>5 DEF StartLoaders, Looking, ReadingsPast
  <2>2. /\ load'[r].step = "loaders" /\ load'[r].at = now /\ load'[r].kind = load[r].kind
        /\ \A q \in Loads \ {r} : load'[q] = load[q]
    BY <1>5 DEF StartLoaders, Load
  <2>3. /\ \A q \in Loads \ {r} : task'[q] = task[q]
        /\ \A f \in Feeds : task'[r][f] = "cache"
    BY <1>5 DEF StartLoaders
  <2> QED BY <1>3, <2>1, <2>2, <2>3
<1>6. CASE ServeAndRefresh(r)
  <2>1. /\ load'[r].step = "loaders" /\ load'[r].at = now /\ load'[r].kind = "refresh"
        /\ \A q \in Loads \ {r} : load'[q] = load[q]
    BY <1>6 DEF ServeAndRefresh, LoadIdle
  <2>2. /\ \A q \in Loads \ {r} : task'[q] = task[q]
        /\ \A f \in Feeds : task'[r][f] = "cache"
    BY <1>6 DEF ServeAndRefresh
  <2> QED BY <1>3, <2>1, <2>2
<1>9. CASE ServeStale(r) \/ ServeUnrefreshed(r)
  <2>1. load' = [load EXCEPT ![r] = LoadIdle] /\ task' = task
    BY <1>9 DEF ServeStale, ServeUnrefreshed
  <2>2. /\ load'[r].step = "idle" /\ load'[r].at = 0
        /\ \A q \in Loads \ {r} : load'[q] = load[q]
    BY <2>1 DEF LoadIdle
  <2>3. load[r].step = "look"
    BY <1>9 DEF ServeStale, ServeUnrefreshed, ServingStale, Looking
  <2>4. \A f \in Feeds : task[r][f] = "out"
    BY <2>3 DEF ReadingsPast
  <2> QED BY <1>3, <2>1, <2>2, <2>4
<1>7. CASE Release(r)
  <2>1. PICK end \in [{f \in Feeds : At(r, f, "fetch")} -> {"resolved", "failed", "done"}] :
          /\ task' = [task EXCEPT ![r] =
               [f \in Feeds |-> IF At(r, f, "hit") THEN "done" ELSE end[f]]]
          /\ IF \E f \in DOMAIN end : end[f] = "done" THEN Outcome(r, FALSE) ELSE UNCHANGED load
    BY <1>7 DEF Release
  <2>2. \A f \in Feeds : task'[r][f] \in {"resolved", "failed", "done"}
    <3> TAKE f \in Feeds
    <3>1. At(r, f, "hit") \/ At(r, f, "fetch")
      BY <1>7 DEF Release, Waiting, At
    <3>2. task'[r][f] = IF At(r, f, "hit") THEN "done" ELSE end[f]
      BY <2>1
    <3> QED BY <2>1, <3>1, <3>2
  <2>3. \A q \in Loads : /\ load'[q].at = load[q].at /\ load'[q].step = load[q].step
                         /\ load'[q].kind = load[q].kind
    BY <2>1, LoadersKeepReading
  <2>4. \A q \in Loads \ {r} : task'[q] = task[q]
    BY <2>1
  <2>5. load[r].step = "loaders"
    BY <1>7 DEF Release
  <2>6. ReadingsPast'
    <3>1. \A q \in Loads : load'[q].step # "loaders" => \A f \in Feeds : task'[q][f] = "out"
      <4> SUFFICES ASSUME NEW q \in Loads, load'[q].step # "loaders", NEW f \in Feeds
                   PROVE  task'[q][f] = "out"
        OBVIOUS
      <4>1. q # r /\ load[q].step # "loaders"
        BY <2>3, <2>5
      <4> QED BY <2>4, <4>1 DEF ReadingsPast
    <3>2. /\ \A q \in Loads : load'[q].at <= now'
          /\ \A q \in Loads : load'[q].kind = "idle" => load'[q].step = "idle"
      BY <1>0, <2>3 DEF ReadingsPast
    <3> QED BY <1>2, <3>1, <3>2 DEF ReadingsPast
  <2>7. \A q \in Loads, f \in Feeds : RemembersLive(q, f)'
    BY <1>0, <2>2, <2>3, <2>4 DEF RemembersLive
  <2> QED BY <1>1, <2>6, <2>7
<1>8. CASE EndPage(r) \/ EndRefresh(r)
  <2>1. /\ load'[r].step = "idle" /\ load'[r].at = 0
        /\ \A q \in Loads \ {r} : load'[q] = load[q] /\ task'[q] = task[q]
        /\ \A f \in Feeds : task'[r][f] = "out"
    BY <1>8 DEF EndPage, EndRefresh, Leave, LoadIdle
  <2> QED BY <1>3, <2>1
<1> QED BY <1>4, <1>5, <1>6, <1>7, <1>8, <1>9 DEF LoadStep

\* A loader restores rows at their age, stores live ones at the time of its
\* load, and remembers that time when it has.
LEMMA KnownTaskStep ==
  ASSUME TypeOK, KnownInvariant, NEW r \in Loads, NEW f \in Feeds, TaskStep(r, f)
  PROVE  KnownInvariant'
<1> USE FeedsAssumption, NoPayload DEF TypeOK, KnownInvariant
<1>a. load[r].at \in Nat /\ load[r].at <= now
  BY DEF Load, ReadingsPast
<1>b. now' = now
  BY DEF TaskStep, CacheHit, CacheMiss, NotOnDisk, Restore, StoreLive, StoreFailed, Remember
<1>c. \A q \in Loads : /\ load'[q].at = load[q].at /\ load'[q].step = load[q].step
                       /\ load'[q].kind = load[q].kind
  BY LoadersKeepReading DEF TaskStep, CacheHit, CacheMiss, NotOnDisk, Restore, StoreLive,
     StoreFailed, Remember
<1>d. PICK step : task' = [task EXCEPT ![r][f] = step]
  BY DEF TaskStep, CacheHit, CacheMiss, NotOnDisk, Restore, StoreLive, StoreFailed,
     Remember, Become
<1>e. load[r].step = "loaders"
  <2>1. task[r][f] # "out"
    BY DEF TaskStep, CacheHit, CacheMiss, NotOnDisk, Restore, StoreLive, StoreFailed,
       Remember, At
  <2> QED BY <2>1 DEF ReadingsPast
<1>f. \A q \in Loads, g \in Feeds : q # r \/ g # f => task'[q][g] = task[q][g]
  BY <1>d
<1>g. ASSUME NEW q \in Loads, load'[q].step # "loaders", NEW g \in Feeds
      PROVE  task'[q][g] = "out"
  <2>1. q # r /\ load[q].step # "loaders"
    BY <1>c, <1>e, <1>g
  <2> QED BY <1>f, <2>1 DEF ReadingsPast
<1>h. ASSUME NEW good, lastGood' = [lastGood EXCEPT ![f] = good], good \in Int, good <= now
      PROVE  ReadingsPast'
  BY <1>b, <1>c, <1>g, <1>h DEF ReadingsPast
<1>i. ASSUME lastGood' = lastGood PROVE ReadingsPast'
  BY <1>b, <1>c, <1>g, <1>i DEF ReadingsPast
<1>j. ASSUME lastLive' = lastLive, task'[r][f] # "remember"
      PROVE  \A q \in Loads, g \in Feeds : RemembersLive(q, g)'
  BY <1>c, <1>f, <1>j DEF RemembersLive
<1>1. CASE CacheHit(r, f) \/ CacheMiss(r, f) \/ NotOnDisk(r, f)
  <2>1. UNCHANGED <<cache, lastGood, lastLive>>
    BY <1>1 DEF CacheHit, CacheMiss, NotOnDisk, feedVars
  <2>2. task'[r][f] # "remember"
    BY <1>1 DEF CacheHit, CacheMiss, NotOnDisk, Become
  <2>3. \A g \in Feeds : RowsKnown(g)'
    BY <2>1 DEF RowsKnown, HasRows
  <2> QED BY <1>i, <1>j, <2>1, <2>2, <2>3
<1>2. CASE Restore(r, f)
  <2>1. /\ disk[f] \in Int /\ disk[f] <= now /\ now - disk[f] <= MaxAge[f]
        /\ MaxAge[f] \in Nat
    BY <1>2 DEF Restore, OnDisk
  <2>2. PICK good : good = load[r].at - (now - disk[f])
    OBVIOUS
  <2>3. /\ good \in Int /\ good <= disk[f] /\ good <= now
    BY <1>a, <2>1, <2>2
  <2>4. /\ lastGood' = [lastGood EXCEPT ![f] = good]
        /\ cache' = [cache EXCEPT ![f] = [at |-> load[r].at, payload |-> disk[f]]]
        /\ lastLive' = lastLive
    BY <1>2, <2>2 DEF Restore, Put
  <2>5. task'[r][f] # "remember"
    BY <1>2 DEF Restore, Become
  <2>6. load[r].at <= disk[f] + MaxAge[f]
    BY <1>a, <2>1
  <2>7. /\ cache'[f].at = load[r].at /\ cache'[f].payload = disk[f] /\ lastGood'[f] = good
    BY <2>4
  <2>8. RowsKnown(f)'
    BY <2>3, <2>6, <2>7 DEF RowsKnown
  <2>9. \A g \in Feeds \ {f} : RowsKnown(g)'
    BY <2>4 DEF RowsKnown, HasRows
  <2> QED BY <1>h, <1>j, <2>3, <2>4, <2>5, <2>8, <2>9
<1>3. CASE StoreLive(r, f)
  <2>1. /\ cache' = [cache EXCEPT ![f] = [at |-> load[r].at, payload |-> now]]
        /\ lastGood' = lastGood
    BY <1>3 DEF StoreLive, Put
  <2>2. /\ \A g \in Feeds \ {f} : lastLive'[g] = lastLive[g]
        /\ lastLive'[f] \in Nat /\ load[r].at <= lastLive'[f]
        /\ lastLive[f] # None => lastLive[f] <= lastLive'[f]
    BY <1>3, <1>a DEF StoreLive
  <2>3. cache'[f].at = load[r].at /\ cache'[f].payload = now
    BY <2>1
  <2>4. lastGood[f] # None => lastGood[f] <= now
    BY DEF ReadingsPast
  <2>5. MaxAge[f] \in Nat /\ load[r].at <= now + MaxAge[f]
    BY <1>a
  <2>6. RowsKnown(f)'
    BY <2>1, <2>3, <2>4, <2>5 DEF RowsKnown
  <2>7. \A g \in Feeds \ {f} : RowsKnown(g)'
    BY <2>1, <2>2 DEF RowsKnown, HasRows
  <2>8. \A q \in Loads, g \in Feeds : RemembersLive(q, g)'
    <3> TAKE q \in Loads, g \in Feeds
    <3>1. CASE g # f
      BY <1>c, <1>f, <2>2, <3>1 DEF RemembersLive
    <3>2. CASE g = f /\ q = r
      BY <1>c, <2>2, <3>2 DEF RemembersLive
    <3>3. CASE g = f /\ q # r
      <4>1. RemembersLive(q, f) /\ task'[q][f] = task[q][f] /\ load'[q].at = load[q].at
        BY <1>c, <1>f, <3>3
      <4>2. load[q].at \in Nat /\ lastLive[f] \in Nat \cup {None}
        BY DEF Load
      <4> QED BY <2>2, <3>3, <4>1, <4>2 DEF RemembersLive
    <3> QED BY <3>1, <3>2, <3>3
  <2> QED BY <1>i, <2>1, <2>6, <2>7, <2>8
<1>4. CASE StoreFailed(r, f)
  <2>1. /\ lastGood' = lastGood /\ lastLive' = lastLive /\ task'[r][f] # "remember"
    BY <1>4 DEF StoreFailed, Become
  <2>2. \/ cache' = cache
        \/ cache' = [cache EXCEPT ![f] = [at |-> load[r].at, payload |-> None]]
    BY <1>4 DEF StoreFailed, Put
  <2>3. \A g \in Feeds : RowsKnown(g)'
    BY <2>1, <2>2 DEF RowsKnown, HasRows
  <2> QED BY <1>i, <1>j, <2>1, <2>3
<1>5. CASE Remember(r, f)
  <2>1. /\ lastGood' = [lastGood EXCEPT ![f] = load[r].at]
        /\ cache' = cache /\ lastLive' = lastLive
    BY <1>5 DEF Remember
  <2>2. task'[r][f] # "remember"
    BY <1>5 DEF Remember, Become
  <2>3. lastLive[f] # None /\ load[r].at <= lastLive[f]
    BY <1>5 DEF Remember, At, RemembersLive
  <2>4. RowsKnown(f)'
    BY <2>1, <2>3 DEF RowsKnown, HasRows
  <2>5. \A g \in Feeds \ {f} : RowsKnown(g)'
    BY <2>1 DEF RowsKnown, HasRows
  <2>6. load[r].at \in Int /\ load[r].at <= now
    BY <1>a
  <2>7. ReadingsPast'
    BY <1>h, <2>1, <2>6
  <2> QED BY <1>j, <2>1, <2>2, <2>4, <2>5, <2>7
<1> QED BY <1>1, <1>2, <1>3, <1>4, <1>5 DEF TaskStep

\* What is fresh or servable now is then as young as it should be.
LEMMA KnownIsServable == TypeOK /\ KnownInvariant => ServedKnownGood
<1> SUFFICES ASSUME TypeOK, KnownInvariant, NEW f \in Feeds, HasRows(f),
                    FreshAt(f, now) \/ Servable(f, now)
             PROVE  KnownGood(f)
  BY DEF ServedKnownGood, HasRows
<1>1. /\ cache[f].at \in Nat /\ cache[f].payload \in Int
      /\ lastGood[f] \in Int \cup {None} /\ lastLive[f] \in Nat \cup {None}
      /\ now \in Nat /\ MaxAge[f] \in Nat /\ CacheSeconds \in Nat \ {0}
  BY FeedsAssumption DEF TypeOK, HasRows, Cached, Payload
<1>2. RowsKnown(f)
  BY DEF KnownInvariant
<1>3. CASE FreshAt(f, now)
  BY <1>1, <1>2, <1>3 DEF FreshAt, RowsKnown, KnownGood
<1>4. CASE Servable(f, now)
  BY <1>1, <1>2, <1>4 DEF Servable, RowsKnown, KnownGood
<1> QED BY <1>3, <1>4

\* A page is only ever shown rows that were good, or live, within the hard limit
\* of their feed and the cache's minute: over restarts, failed refreshes, and
\* loaders of any number of loads that overtake each other.
THEOREM ServedIsKnown == Spec => []ServedKnownGood
<1>1. Init => KnownInvariant
  BY DEF Init, KnownInvariant, ReadingsPast, RemembersLive, RowsKnown, HasRows, Nothing, LoadIdle
<1>2. TypeOK /\ KnownInvariant /\ [Next]_vars => KnownInvariant'
  <2> SUFFICES ASSUME TypeOK, KnownInvariant, [Next]_vars PROVE KnownInvariant'
    OBVIOUS
  <2>1. CASE \E r \in Loads : StartPage(r) \/ LoadStep(r)
    BY <2>1, KnownLoadStep
  <2>2. CASE \E r \in Loads, f \in Feeds : TaskStep(r, f)
    BY <2>2, KnownTaskStep
  <2>3. CASE Tick
    <3>1. UNCHANGED <<cache, lastGood, load, task, lastLive>> /\ now' = now + 1 /\ now \in Nat
      BY <2>3 DEF Tick, feedVars, TypeOK
    <3>2. ReadingsPast'
      BY <3>1 DEF KnownInvariant, ReadingsPast, TypeOK, Load
    <3> QED BY <3>1, <3>2 DEF KnownInvariant, RemembersLive, RowsKnown, HasRows
  <2>4. CASE UNCHANGED vars
    BY <2>4 DEF vars, feedVars, KnownInvariant, ReadingsPast, RemembersLive, RowsKnown, HasRows
  <2> QED BY <2>1, <2>2, <2>3, <2>4 DEF Next
<1> QED BY <1>1, <1>2, KnownIsServable, TypeCorrect, PTL DEF Spec
=============================================================================
