------------------------------ MODULE RankedFeeds ------------------------------
(***************************************************************************)
(* The ranked market feeds of the root page                                *)
(* (application/jupiter_market_feed_service.py): one cache per feed with    *)
(* its lock, the last good time of each, a file of last known good feeds   *)
(* (application/ranked_market_feed_store.py) that is read once per process, *)
(* stale feeds served while a background thread refreshes them, and the    *)
(* barrier at which the loader threads of one load meet, so that one of    *)
(* them resolves the pairs of all.                                         *)
(*                                                                         *)
(* A load is a page's or a background refresh.  A loader thread may be      *)
(* overtaken between any two of its accesses to what the threads share;    *)
(* what it does under a feed's lock is one step, but for the wait at the   *)
(* barrier, which a loader that found its feed in the cache enters with    *)
(* the lock in its hands.  The loaders of one load read the clock together. *)
(***************************************************************************)
EXTENDS Integers

CONSTANTS
  Feeds,         \* the ranked feeds, numbered in the order of specs
  Loads,         \* loads that may run at once
  CacheSeconds,  \* the minute a cached feed is fresh
  MaxAge,        \* per feed, the hard age limit: five or ten minutes
  Cooldown,      \* the minute without refresh after a failed one
  MaxTime,       \* bound on the clock
  SavedBefore,   \* how long before the start the file may have been written
  None           \* nothing

ASSUME FeedsAssumption ==
  /\ Feeds \subseteq Nat
  /\ CacheSeconds \in Nat \ {0} /\ MaxAge \in [Feeds -> Nat]
  /\ Cooldown \in Nat /\ MaxTime \in Nat /\ SavedBefore \in Nat
  /\ None \notin Int /\ None \notin Loads

VARIABLES
  now,          \* the clock
  cache,        \* _CACHE_AT and _CACHE_PAYLOAD of each feed
  lock,         \* the load whose loader holds the feed's cache lock, or None
  lastGood,     \* _RANKED_LAST_GOOD_AT
  disk,         \* saved_at of each feed in ranked-market-feeds-v1.json
  attempted,    \* _RANKED_MARKET_BOOTSTRAP_ATTEMPTED
  refreshing,   \* _RANKED_REFRESH_IN_FLIGHT
  nextAllowed,  \* _RANKED_REFRESH_NEXT_ALLOWED_AT
  load,         \* the loads
  task,         \* how far the loader of each feed of each load is
  lastLive      \* history: the last reading at which the provider had the feed

feedVars == <<cache, lock, lastGood, disk, attempted>>
refreshVars == <<refreshing, nextAllowed>>
vars == <<now, feedVars, refreshVars, load, task, lastLive>>

\* What a feed's loader returns: rows recorded as good at a time, or a
\* message that there are none.
Payload == Int \cup {None}
Cached == [at : Nat, payload : Payload]

ASSUME NoPayload == None \notin Cached

\* At the barrier with the feed's lock, or asking the provider and then at the
\* barrier: nothing is shared on that way.
Waiting == {"hit", "fetch"}
Ended   == {"done", "restored"}
Steps   == {"out", "cache", "disk", "resolved", "failed", "remember"}
             \cup Waiting \cup Ended

Load == [kind : {"idle", "page", "refresh"}, step : {"idle", "look", "loaders"},
         at : Nat, outcome : {"none", "good", "bad"}]
LoadIdle == [kind |-> "idle", step |-> "idle", at |-> 0, outcome |-> "none"]

TypeOK ==
  /\ now \in Nat
  /\ cache \in [Feeds -> Cached \cup {None}]
  /\ lock \in [Feeds -> Loads \cup {None}]
  /\ lastGood \in [Feeds -> Int \cup {None}]
  /\ disk \in [Feeds -> Int \cup {None}]
  /\ attempted \subseteq Feeds
  /\ refreshing \in BOOLEAN /\ nextAllowed \in Nat
  /\ load \in [Loads -> Load]
  /\ task \in [Loads -> [Feeds -> Steps]]
  /\ lastLive \in [Feeds -> Nat \cup {None}]

Nothing == [f \in Feeds |-> None]

\* The process starts with what earlier ones saved, each feed when it could be.
Init ==
  /\ now = 0
  /\ cache = Nothing /\ lock = Nothing /\ lastGood = Nothing
  /\ disk \in [Feeds -> (-SavedBefore .. 0) \cup {None}]
  /\ attempted = {} /\ refreshing = FALSE /\ nextAllowed = 0
  /\ load = [r \in Loads |-> LoadIdle]
  /\ task = [r \in Loads |-> [f \in Feeds |-> "out"]]
  /\ lastLive = Nothing

-----------------------------------------------------------------------------
(* Loads (load_jupiter_ranked_market_feeds).                               *)

Running(r) == load[r].kind # "idle"

StartPage(r) ==
  /\ ~ Running(r)
  /\ load' = [load EXCEPT ![r] = [LoadIdle EXCEPT !.kind = "page", !.step = "look", !.at = now]]
  /\ UNCHANGED <<now, feedVars, refreshVars, task, lastLive>>

\* _ranked_stale_is_servable.
Servable(f, t) ==
  lastGood[f] # None /\ lastGood[f] <= t /\ t - lastGood[f] <= MaxAge[f]

\* _ranked_stale_group_snapshot: a feed that may be shown although its minute
\* is over.  It goes through the feeds in their order, takes the lock of each
\* for a moment, and stops at the first that may not be shown.
Passes(r, f) == cache[f] # None /\ cache[f].at <= load[r].at /\ Servable(f, load[r].at)
Looked(r) == {f \in Feeds : \A g \in Feeds : g < f => Passes(r, g)}
Due(r) == \E f \in Feeds : load[r].at - cache[f].at >= CacheSeconds
StaleGroup(r) == (\A f \in Feeds : Passes(r, f)) /\ Due(r)
Looking(r) == load[r].step = "look" /\ \A f \in Looked(r) : lock[f] = None

\* No group to serve, or none due: the loaders are started.
StartLoaders(r) ==
  /\ Looking(r) /\ ~ StaleGroup(r)
  /\ load' = [load EXCEPT ![r].step = "loaders", ![r].at = now]
  /\ task' = [task EXCEPT ![r] = [f \in Feeds |-> "cache"]]
  /\ UNCHANGED <<now, feedVars, refreshVars, lastLive>>

\* Mutant: whoever serves stale feeds has them refreshed.
MayBegin(t) == t >= nextAllowed

\* _try_begin_ranked_refresh.
MayRefresh(t) == ~ refreshing /\ t >= nextAllowed

\* The page is answered with what is in the cache.
ServingStale(r) ==
  /\ Looking(r) /\ StaleGroup(r)
  /\ UNCHANGED <<now, feedVars, lastLive>>

ServeStale(r) ==
  /\ ServingStale(r) /\ ~ MayRefresh(load[r].at)
  /\ load' = [load EXCEPT ![r] = LoadIdle]
  /\ UNCHANGED <<refreshVars, task>>

\* A thread loads the feeds anew; it takes the place of the page that is
\* answered.
ServeAndRefresh(r) ==
  /\ ServingStale(r) /\ MayRefresh(load[r].at)
  /\ refreshing' = TRUE
  /\ load' = [load EXCEPT ![r] =
       [LoadIdle EXCEPT !.kind = "refresh", !.step = "loaders", !.at = now]]
  /\ task' = [task EXCEPT ![r] = [f \in Feeds |-> "cache"]]
  /\ UNCHANGED nextAllowed

\* _finish_ranked_refresh.
Finish(failed) ==
  /\ refreshing' = FALSE
  /\ nextAllowed' = IF failed THEN now + Cooldown ELSE 0

\* The thread could not be started.
ServeUnrefreshed(r) ==
  /\ ServingStale(r) /\ MayRefresh(load[r].at)
  /\ Finish(TRUE)
  /\ load' = [load EXCEPT ![r] = LoadIdle]
  /\ UNCHANGED task

LoadersEnded(r) == load[r].step = "loaders" /\ \A f \in Feeds : task[r][f] \in Ended
Leave(r) ==
  /\ load' = [load EXCEPT ![r] = LoadIdle]
  /\ task' = [task EXCEPT ![r] = [f \in Feeds |-> "out"]]

\* The page has the feeds, or the exception of one.
EndPage(r) ==
  /\ LoadersEnded(r) /\ load[r].kind = "page"
  /\ Leave(r)
  /\ UNCHANGED <<now, feedVars, refreshVars, lastLive>>

\* Feeds the loaders found in the cache or restored have no outcome; a
\* refresh without any has failed.
EndRefresh(r) ==
  /\ LoadersEnded(r) /\ load[r].kind = "refresh"
  /\ Finish(load[r].outcome # "good")
  /\ Leave(r)
  /\ UNCHANGED <<now, feedVars, lastLive>>

-----------------------------------------------------------------------------
(* The loader of one feed (load_jupiter_trending_feed and its likes).      *)

At(r, f, step) == task[r][f] = step
Become(r, f, step) == task' = [task EXCEPT ![r][f] = step]
Put(r, f, payload) ==
  cache' = [cache EXCEPT ![f] = [at |-> load[r].at, payload |-> payload]]

FreshAt(f, t) ==
  cache[f] # None /\ t >= cache[f].at /\ t - cache[f].at < CacheSeconds

\* Mutant: a cached feed is returned without a word to the barrier.
CacheHitUnshared(r, f) ==
  /\ At(r, f, "cache") /\ lock[f] = None /\ FreshAt(f, load[r].at)
  /\ Become(r, f, "done")
  /\ UNCHANGED <<now, feedVars, refreshVars, load, lastLive>>

\* The lock is kept until all loaders of the load are at the barrier.
CacheHit(r, f) ==
  /\ At(r, f, "cache") /\ lock[f] = None /\ FreshAt(f, load[r].at)
  /\ lock' = [lock EXCEPT ![f] = r]
  /\ Become(r, f, "hit")
  /\ UNCHANGED <<now, cache, lastGood, disk, attempted, refreshVars, load, lastLive>>

\* RankedMarketFeedStore.load: the file keeps the time of its rows.
OnDisk(f) == disk[f] # None /\ disk[f] <= now /\ now - disk[f] <= MaxAge[f]

\* The first loader of the feed in this process goes to the file
\* (_load_ranked_market_bootstrap_once), any other to the provider.
CacheMiss(r, f) ==
  /\ At(r, f, "cache") /\ lock[f] = None /\ ~ FreshAt(f, load[r].at)
  /\ attempted' = attempted \cup {f}
  /\ Become(r, f, IF f \in attempted THEN "fetch" ELSE "disk")
  /\ UNCHANGED <<now, cache, lock, lastGood, disk, refreshVars, load, lastLive>>

NotOnDisk(r, f) ==
  /\ At(r, f, "disk") /\ ~ OnDisk(f)
  /\ Become(r, f, "fetch")
  /\ UNCHANGED <<now, feedVars, refreshVars, load, lastLive>>

\* Mutant: restored rows are as good as new.
RestoreAsNew(r, f) ==
  /\ At(r, f, "disk") /\ OnDisk(f) /\ lock[f] = None
  /\ Put(r, f, disk[f])
  /\ lastGood' = [lastGood EXCEPT ![f] = load[r].at]
  /\ Become(r, f, "restored")
  /\ UNCHANGED <<now, lock, disk, attempted, refreshVars, load, lastLive>>

\* The loader returns what it restored, and does not go to the barrier.
Restore(r, f) ==
  /\ At(r, f, "disk") /\ OnDisk(f) /\ lock[f] = None
  /\ Put(r, f, disk[f])
  /\ lastGood' = [lastGood EXCEPT ![f] = load[r].at - (now - disk[f])]
  /\ Become(r, f, "restored")
  /\ UNCHANGED <<now, lock, disk, attempted, refreshVars, load, lastLive>>

\* A page's load has no outcomes.
Outcome(r, live) ==
  load' = IF load[r].kind = "refresh"
    THEN [load EXCEPT ![r].outcome = IF live /\ @ # "bad" THEN "good" ELSE "bad"]
    ELSE load

\* The provider answered each with a ranking, with none, or with an exception
\* that run turns into a skip_if_unregistered; the last loader at the barrier
\* resolves the pairs of all, or fails for all; those that had a lock give
\* it back.
Release(r) ==
  /\ load[r].step = "loaders" /\ \A f \in Feeds : task[r][f] \in Waiting
  /\ \E end \in [{f \in Feeds : At(r, f, "fetch")} -> {"resolved", "failed", "done"}] :
       /\ task' = [task EXCEPT ![r] =
            [f \in Feeds |-> IF At(r, f, "hit") THEN "done" ELSE end[f]]]
       /\ IF \E f \in DOMAIN end : end[f] = "done" THEN Outcome(r, FALSE) ELSE UNCHANGED load
  /\ lock' = [f \in Feeds |-> IF At(r, f, "hit") THEN None ELSE lock[f]]
  /\ UNCHANGED <<now, cache, lastGood, disk, attempted, refreshVars, lastLive>>

StoreLive(r, f) ==
  /\ At(r, f, "resolved") /\ lock[f] = None
  /\ Put(r, f, now)
  /\ Become(r, f, "remember")
  /\ lastLive' = [lastLive EXCEPT ![f] =
       IF @ = None \/ @ < load[r].at THEN load[r].at ELSE @]
  /\ Outcome(r, TRUE)
  /\ UNCHANGED <<now, lock, lastGood, disk, attempted, refreshVars>>

\* preserve_last_good.
PreserveLastGood(r, f) == cache[f] # None /\ Servable(f, load[r].at)

StoreFailed(r, f) ==
  /\ At(r, f, "failed") /\ lock[f] = None
  /\ IF PreserveLastGood(r, f) THEN UNCHANGED cache ELSE Put(r, f, None)
  /\ Become(r, f, "done")
  /\ Outcome(r, FALSE)
  /\ UNCHANGED <<now, lock, lastGood, disk, attempted, refreshVars, lastLive>>

\* _remember_ranked_last_good, after the lock was given back, and
\* RankedMarketFeedStore.save; a file that cannot be written stays.  This
\* process reads a feed's record once: what it saves later is for the next
\* process, which starts with any.
Remember(r, f) ==
  /\ At(r, f, "remember")
  /\ lastGood' = [lastGood EXCEPT ![f] = load[r].at]
  /\ \/ UNCHANGED disk
     \/ (\E q \in Loads : At(q, f, "disk")) /\ disk' = [disk EXCEPT ![f] = now]
  /\ Become(r, f, "done")
  /\ UNCHANGED <<now, cache, lock, attempted, refreshVars, load, lastLive>>

-----------------------------------------------------------------------------

Tick ==
  /\ now < MaxTime
  /\ now' = now + 1
  /\ UNCHANGED <<feedVars, refreshVars, load, task, lastLive>>

LoadStep(r) ==
  \/ StartLoaders(r) \/ ServeStale(r) \/ ServeAndRefresh(r) \/ ServeUnrefreshed(r)
  \/ Release(r) \/ EndPage(r) \/ EndRefresh(r)

TaskStep(r, f) ==
  \/ CacheHit(r, f) \/ CacheMiss(r, f)
  \/ NotOnDisk(r, f) \/ Restore(r, f)
  \/ StoreLive(r, f) \/ StoreFailed(r, f) \/ Remember(r, f)

Next ==
  \/ \E r \in Loads : StartPage(r) \/ LoadStep(r)
  \/ \E r \in Loads, f \in Feeds : TaskStep(r, f)
  \/ Tick

\* Of a load's threads one that can run does, requests to the provider end
\* (timeout=10), files are written.  Nobody has to visit and time need not pass.
Fairness ==
  \A r \in Loads : WF_vars(LoadStep(r)) /\ WF_vars(\E f \in Feeds : TaskStep(r, f))

Spec == Init /\ [][Next]_vars /\ Fairness

-----------------------------------------------------------------------------
(* Properties.                                                             *)

\* "Remember the original observation time without resetting persistent LKG
\* age": the rows a page that comes now would be shown were recorded as good, or
\* the provider had the feed, less than the feed's hard limit and the cache's
\* minute ago - over restarts, failed refreshes and whatever loaders overtake
\* each other.
KnownGood(f) ==
  \/ now - cache[f].payload < MaxAge[f] + CacheSeconds
  \/ lastLive[f] # None /\ now - lastLive[f] < MaxAge[f] + CacheSeconds

ServedKnownGood ==
  \A f \in Feeds :
    /\ cache[f] # None /\ cache[f].payload # None
    /\ FreshAt(f, now) \/ Servable(f, now)
    => KnownGood(f)

\* A background refresh begins only when none is under way
\* (_try_begin_ranked_refresh), whichever pages find the feeds stale, however
\* the last one ended.
RefreshesApart ==
  \A r, q \in Loads : load[r].kind = "refresh" /\ load[q].kind = "refresh" => r = q

\* A loader that returned what it restored from disk while others of its load
\* wait for it at the barrier.
LeftWaiting(r) ==
  \E f, g \in Feeds : At(r, f, "restored") /\ task[r][g] \in Waiting

\* Whatever mix of cached, failed, raising and resolving loaders a load has,
\* they meet at the barrier and the load ends: it never stands still for good
\* unless another load runs beside it or some of its feeds, not all, were
\* restored from disk.
LoneLoadReturns ==
  \A r \in Loads :
    []<>(~ Running(r) \/ (\E q \in Loads \ {r} : Running(q)) \/ LeftWaiting(r))

\* "failures never block Discovery rendering" (load_jupiter_trending_feed):
\* every load ends.
EveryLoadReturns == \A r \in Loads : Running(r) ~> ~ Running(r)
=============================================================================
