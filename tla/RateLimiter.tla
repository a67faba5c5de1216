---------------------------- MODULE RateLimiter ----------------------------
(***************************************************************************)
(* The rate limiter of application/token_workspace_rate_limit.py on either *)
(* of its stores: dictionaries of one process, or sorted sets in Redis     *)
(* that all replicas share.  In memory a check is one step, made inside    *)
(* the event loop.  With Redis the check is sent, the script runs, and the *)
(* reply comes or does not: redis-py sends a command again after a timeout *)
(* or a broken connection, and the earlier one may still run, late.        *)
(*                                                                         *)
(* Both stores forget: events by age, whole keys by a time to live         *)
(* (PEXPIRE), buckets when they have not been touched for a window.        *)
(***************************************************************************)
EXTENDS Sequences, Naturals, FiniteSets

CONSTANTS
  Keys, Requests,
  CheckLists,    \* the lists of keys _checks_for_request may return
  Limit, Window, \* the rule of each key
  MaxBuckets,    \* DEXSATO_RATE_LIMIT_MAX_BUCKETS
  Grace,         \* what PEXPIRE adds to the window
  MaxAttempts,   \* how often the client sends one check
  MaxLost,       \* how many timeouts a behaviour has
  MaxTime        \* the model's bound on the clock

KeysIn(cs) == {cs[i] : i \in DOMAIN cs}

ASSUME LimiterAssumption ==
  /\ CheckLists \subseteq Seq(Keys) \ {<<>>}
  /\ Limit \in [Keys -> Nat \ {0}] /\ Window \in [Keys -> Nat \ {0}]
  /\ IsFiniteSet(Keys) /\ IsFiniteSet(Requests)
  /\ MaxBuckets \in Nat \ {0} /\ Grace \in Nat
  /\ MaxAttempts \in Nat \ {0} /\ MaxLost \in Nat /\ MaxTime \in Nat

VARIABLES
  mode,      \* DEXSATO_RATE_LIMIT_STORE
  now,       \* the store's clock: time.monotonic, or TIME of Redis
  events,    \* the deque, or sorted set, of each key
  until,     \* when the bucket, or the key, is dropped
  pc,        \* where each request stands
  checks,    \* the keys it is counted under, in the order they are checked
  attempts,  \* how often its check was sent
  stray,     \* checks given up by the client that Redis may still run
  lost,      \* timeouts so far
  verdict, answer,
  told,      \* the key that refused a request, when, and the Retry-After
  spent      \* history: every event ever consumed

storeVars == <<mode, now, events, until, spent>>
clientVars == <<checks, attempts, stray, lost>>
vars == <<storeVars, clientVars, pc, verdict, answer, told>>

Abstract == INSTANCE SlidingWindow
              WITH AskSets <- {KeysIn(cs) : cs \in CheckLists}

Event  == Requests \X Nat
Notice == [key : Keys, asked : Nat, retry : Nat]

TypeOK ==
  /\ mode \in {"memory", "redis"} /\ now \in 0..MaxTime
  /\ events \in [Keys -> SUBSET Event] /\ until \in [Keys -> Nat]
  /\ pc \in [Requests -> {"new", "wait", "ran", "done"}]
  /\ checks \in [Requests -> CheckLists \cup {<<>>}]
  /\ attempts \in [Requests -> 0..MaxAttempts]
  /\ stray \in [Requests -> 0..MaxAttempts] /\ lost \in 0..MaxLost
  /\ verdict \in [Requests -> {"none", "pass", "limited", "capacity"}]
  /\ answer \in [Requests -> {"none", "pass", "limited", "capacity", "unavailable"}]
  /\ told \in [Requests -> SUBSET Notice]
  /\ spent \in [Keys -> SUBSET Event]

Init ==
  /\ mode \in {"memory", "redis"} /\ now = 0
  /\ events = [k \in Keys |-> {}] /\ until = [k \in Keys |-> 0]
  /\ pc = [r \in Requests |-> "new"] /\ checks = [r \in Requests |-> <<>>]
  /\ attempts = [r \in Requests |-> 0] /\ stray = [r \in Requests |-> 0]
  /\ lost = 0
  /\ verdict = [r \in Requests |-> "none"]
  /\ answer = [r \in Requests |-> "none"]
  /\ told = [r \in Requests |-> {}]
  /\ spent = [k \in Keys |-> {}]

-----------------------------------------------------------------------------
(* One evaluation of a list of keys, the same in both stores.              *)

\* What is left of a key once idle buckets (or expired keys) are dropped and
\* the events at or before the cutoff removed.
Fresh(k) == {e \in events[k] : now < until[k] /\ e[2] + Window[k] > now}

\* Mutant: one event too many.
FullBeyond(k) == Cardinality(Fresh(k)) > Limit[k]
Full(k) == Cardinality(Fresh(k)) >= Limit[k]

\* The first key of the list that refuses.
RefusedAt(cs, i) ==
  i \in DOMAIN cs /\ Full(cs[i]) /\ \A j \in 1..(i - 1) : ~ Full(cs[j])
Passes(cs) == \A k \in KeysIn(cs) : ~ Full(k)

\* Keys are pruned as the loop reaches them; in memory idle buckets are
\* dropped before.
Kept(k)  == IF mode = "memory" /\ now >= until[k] THEN {} ELSE events[k]
Pruned(ks) == [k \in Keys |-> IF k \in ks THEN Fresh(k) ELSE Kept(k)]

\* Mutant: a key is consumed from as soon as it has passed.
ConsumeOnTheWay(r, cs, n) ==
  LET ks == {cs[i] : i \in 1..(n - 1)} IN
  /\ events' = [k \in Keys |-> IF k \in ks THEN Fresh(k) \cup {<<r, now>>} ELSE Kept(k)]
  /\ spent' = [k \in Keys |-> IF k \in ks THEN spent[k] \cup {<<r, now>>} ELSE spent[k]]

\* A refusal, at the key of index n, consumes nothing.
ConsumeNothing(r, cs, n) ==
  /\ events' = Pruned({cs[i] : i \in 1..n})
  /\ UNCHANGED spent

\* Mutant: the time to live is set when the key is created, and stays.
LifetimeFromFirst(k) ==
  IF Fresh(k) # {} THEN until[k] ELSE now + Window[k]

\* last_seen and max_window of a bucket, or PEXPIRE.
Lifetime(k) == now + Window[k] + (IF mode = "redis" THEN Grace ELSE 0)

\* An event under every key, all at one time.
Consume(r, cs) ==
  /\ events' = [k \in Keys |-> IF k \in KeysIn(cs) THEN Fresh(k) \cup {<<r, now>>}
                                                   ELSE Kept(k)]
  /\ until' = [k \in Keys |-> IF k \in KeysIn(cs) THEN Lifetime(k) ELSE until[k]]
  /\ spent' = [k \in Keys |-> IF k \in KeysIn(cs) THEN spent[k] \cup {<<r, now>>}
                                                  ELSE spent[k]]

\* Mutant: the wait is counted from the latest event.
RetryFromLatest(k) ==
  CHOOSE t \in {e[2] + Window[k] : e \in Fresh(k)} :
    \A e \in Fresh(k) : e[2] + Window[k] <= t

\* Retry-After: until the oldest event leaves the window.
RetryAt(k) ==
  CHOOSE t \in {e[2] + Window[k] : e \in Fresh(k)} :
    \A e \in Fresh(k) : t <= e[2] + Window[k]

Notify(r, k) ==
  told' = [told EXCEPT ![r] = {[key |-> k, asked |-> now, retry |-> RetryAt(k)]}]

-----------------------------------------------------------------------------
(* The store of one process.                                               *)

Live == {k \in Keys : events[k] # {} /\ now < until[k]}

\* Mutant: a request is taken to need one new bucket.
RoomForOne(cs) == Cardinality(Live) + 1 <= MaxBuckets \/ KeysIn(cs) \subseteq Live
RoomFor(cs) == Cardinality(Live \cup KeysIn(cs)) <= MaxBuckets

Arrive(r, cs, a) ==
  /\ mode = "memory" /\ pc[r] = "new"
  /\ pc' = [pc EXCEPT ![r] = "done"]
  /\ checks' = [checks EXCEPT ![r] = cs]
  /\ verdict' = [verdict EXCEPT ![r] = a] /\ answer' = [answer EXCEPT ![r] = a]
  /\ UNCHANGED <<mode, now, attempts, stray, lost>>

MemoryPass(r, cs) ==
  /\ Passes(cs) /\ RoomFor(cs)
  /\ Consume(r, cs)
  /\ Arrive(r, cs, "pass")
  /\ UNCHANGED told

\* A refusal counts as a use of the bucket.
MemoryRefuse(r, cs) == \E i \in DOMAIN cs :
  /\ RefusedAt(cs, i)
  /\ ConsumeNothing(r, cs, i) /\ Notify(r, cs[i])
  /\ until' = [until EXCEPT ![cs[i]] = now + Window[cs[i]]]
  /\ Arrive(r, cs, "limited")

\* limiter_capacity: every bucket is in use, and one more is needed.
MemoryFull(r, cs) ==
  /\ Passes(cs) /\ ~ RoomFor(cs)
  /\ events' = Pruned(KeysIn(cs))
  /\ Arrive(r, cs, "capacity")
  /\ UNCHANGED <<until, spent, told>>

-----------------------------------------------------------------------------
(* The Redis store: the client's call and the script.                      *)

Send(r, cs) ==
  /\ mode = "redis" /\ pc[r] = "new"
  /\ pc' = [pc EXCEPT ![r] = "wait"]
  /\ checks' = [checks EXCEPT ![r] = cs]
  /\ attempts' = [attempts EXCEPT ![r] = 1]
  /\ UNCHANGED <<storeVars, stray, lost, verdict, answer, told>>

Ran(r, v) ==
  /\ pc[r] = "wait"
  /\ pc' = [pc EXCEPT ![r] = "ran"]
  /\ verdict' = [verdict EXCEPT ![r] = v]
  /\ UNCHANGED <<mode, now, clientVars, answer>>

ScriptPasses(r) ==
  /\ Passes(checks[r])
  /\ Consume(r, checks[r])
  /\ Ran(r, "pass")
  /\ UNCHANGED told

ScriptRefuses(r) == \E i \in DOMAIN checks[r] :
  /\ RefusedAt(checks[r], i)
  /\ ConsumeNothing(r, checks[r], i) /\ Notify(r, checks[r][i])
  /\ Ran(r, "limited")
  /\ UNCHANGED until

Reply(r) ==
  /\ pc[r] = "ran"
  /\ pc' = [pc EXCEPT ![r] = "done"]
  /\ answer' = [answer EXCEPT ![r] = verdict[r]]
  /\ UNCHANGED <<storeVars, clientVars, verdict, told>>

\* What the client waited for in vain may still run, or has run.
Timeout(r) ==
  /\ pc[r] \in {"wait", "ran"}
  /\ lost < MaxLost /\ lost' = lost + 1
  /\ stray' = [stray EXCEPT ![r] = IF pc[r] = "wait" THEN @ + 1 ELSE @]
  /\ UNCHANGED <<storeVars, checks, verdict, told>>

\* socket_timeout, or the connection is lost: the command is sent again.
Resend(r) ==
  /\ attempts[r] < MaxAttempts /\ Timeout(r)
  /\ pc' = [pc EXCEPT ![r] = "wait"]
  /\ attempts' = [attempts EXCEPT ![r] = @ + 1]
  /\ UNCHANGED answer

\* RateLimitStoreUnavailable: 503, and the request goes no further.
Unavailable(r) ==
  /\ attempts[r] = MaxAttempts /\ Timeout(r)
  /\ pc' = [pc EXCEPT ![r] = "done"]
  /\ answer' = [answer EXCEPT ![r] = "unavailable"]
  /\ UNCHANGED attempts

Stray(r) ==
  /\ stray[r] > 0
  /\ stray' = [stray EXCEPT ![r] = @ - 1]
  /\ UNCHANGED <<mode, now, pc, checks, attempts, lost, verdict, answer, told>>

StrayPasses(r) ==
  /\ Passes(checks[r])
  /\ Consume(r, checks[r])
  /\ Stray(r)

StrayRefuses(r) == \E i \in DOMAIN checks[r] :
  /\ RefusedAt(checks[r], i)
  /\ ConsumeNothing(r, checks[r], i)
  /\ Stray(r)
  /\ UNCHANGED until

Tick ==
  /\ now < MaxTime
  /\ now' = now + 1
  /\ UNCHANGED <<mode, events, until, spent, clientVars, pc, verdict, answer, told>>

RedisStep(r) ==
  \/ \E cs \in CheckLists : Send(r, cs)
  \/ ScriptPasses(r) \/ ScriptRefuses(r) \/ Reply(r) \/ Resend(r)
  \/ Unavailable(r) \/ StrayPasses(r) \/ StrayRefuses(r)

Next ==
  \/ \E r \in Requests :
       \/ \E cs \in CheckLists :
            MemoryPass(r, cs) \/ MemoryRefuse(r, cs) \/ MemoryFull(r, cs)
       \/ RedisStep(r)
  \/ Tick

Spec == Init /\ [][Next]_vars

-----------------------------------------------------------------------------
(* Properties.                                                             *)

\* Whatever the store has dropped - old events, idle buckets, expired keys -
\* it has forgotten nothing that the window still counts.
NothingForgotten ==
  \A k \in Keys : \A e \in spent[k] :
    e[2] + Window[k] > now => e \in events[k] /\ now < until[k]

\* A burst is bounded: over no stretch of a key's window are more events
\* consumed under it than its limit, with lost replies and late scripts.
WithinLimit ==
  \A k \in Keys, t \in 0..now :
    Cardinality({e \in spent[k] : e[2] <= t /\ t < e[2] + Window[k]}) <= Limit[k]

\* "consume one event only if all pass": at any time a request has consumed
\* under all of its keys or under none, and one that was answered pass has
\* been counted under each of them.
Charged(r, k) == {e[2] : e \in {f \in spent[k] : f[1] = r}}
AllOrNothing ==
  \A r \in Requests :
    /\ \A k \in Keys \ KeysIn(checks[r]) : Charged(r, k) = {}
    /\ \A k, l \in KeysIn(checks[r]) : Charged(r, k) = Charged(r, l)
    /\ answer[r] = "pass" => \A k \in KeysIn(checks[r]) : Charged(r, k) # {}
    /\ answer[r] \in {"limited", "capacity"} /\ attempts[r] <= 1 =>
         \A k \in Keys : Charged(r, k) = {}

\* Retry-After is exact for the key that refused: unless others come first,
\* there is room at that time, and there is none before.
RetryAfterExact ==
  \A r \in Requests : \A n \in told[r] :
    LET Left(t) == {e \in spent[n.key] : e[2] <= n.asked /\ e[2] + Window[n.key] > t}
    IN  /\ Cardinality(Left(n.retry)) < Limit[n.key]
        /\ \A t \in n.asked..(n.retry - 1) : Cardinality(Left(t)) >= Limit[n.key]

\* DEXSATO_RATE_LIMIT_MAX_BUCKETS bounds the memory store, although one
\* request may add several buckets.
BucketsBounded ==
  mode = "memory" => Cardinality({k \in Keys : events[k] # {}}) <= MaxBuckets

\* Both stores implement the sliding window.
ImplementsWindow == Abstract!Spec
=============================================================================
