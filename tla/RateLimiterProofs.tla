------------------------- MODULE RateLimiterProofs -------------------------
(***************************************************************************)
(* Proofs about RateLimiter, for all keys, rules, requests, bounds on      *)
(* buckets and numbers of attempts, on either store.  The windows speak of *)
(* every event ever consumed, the stores only of those they have kept:     *)
(* Remembered says that nothing still in its window was dropped, nor will  *)
(* be before it has left it.  The two stores then change it in four ways   *)
(* only (lemma StoreSteps).                                                *)
(***************************************************************************)
EXTENDS RateLimiter, FiniteSetTheorems, TLAPS

\* What a step may do to the store.
Consuming == \E r \in Requests, cs \in CheckLists :
  /\ Passes(cs) /\ Consume(r, cs)
  /\ mode = "memory" => RoomFor(cs)
  /\ UNCHANGED <<mode, now>>
Pruning == \E ks \in SUBSET Keys :
  /\ events' = Pruned(ks)
  /\ \/ until' = until
     \/ \E k \in Keys : until' = [until EXCEPT ![k] = now + Window[k]]
  /\ UNCHANGED <<mode, now, spent>>
Quiet == UNCHANGED storeVars

\* Who stands where: a request that has not come has no keys and no attempt,
\* one that is under way has no answer, and every command that may still run
\* was sent.
ClientOK ==
  \A r \in Requests :
    /\ mode = "memory" => attempts[r] = 0
    /\ pc[r] = "new" => checks[r] = <<>> /\ attempts[r] = 0
    /\ pc[r] # "new" => checks[r] \in CheckLists
    /\ pc[r] # "done" => answer[r] = "none"
    /\ pc[r] = "ran" => verdict[r] \in {"pass", "limited"}
    /\ stray[r] + (IF pc[r] \in {"wait", "ran"} THEN 1 ELSE 0) <= attempts[r]

Remembered ==
  \A k \in Keys : \A e \in spent[k] :
    /\ e[2] <= now
    /\ e[2] + Window[k] > now => e \in events[k] /\ e[2] + Window[k] <= until[k]

Finite == \A k \in Keys : events[k] \subseteq spent[k] /\ IsFiniteSet(spent[k])

Buckets == {k \in Keys : events[k] # {}}

-----------------------------------------------------------------------------
(* Keys of a list, and the least element of a set of times.                *)

LEMMA KeysAreKeys ==
  ASSUME NEW cs \in CheckLists
  PROVE  /\ KeysIn(cs) \subseteq Keys /\ KeysIn(cs) # {}
         /\ \A i \in DOMAIN cs : cs[i] \in Keys
<1>1. cs \in Seq(Keys) /\ cs # <<>>
  BY LimiterAssumption
<1>2. \A i \in DOMAIN cs : cs[i] \in Keys
  BY <1>1
<1>3. 1 \in DOMAIN cs
  BY <1>1
<1> QED BY <1>2, <1>3 DEF KeysIn

LEMMA KeysInNone == KeysIn(<<>>) = {}
BY DEF KeysIn

\* Among finitely many events there is an earliest one.
LEMMA Earliest ==
  ASSUME NEW S, S \subseteq Event, IsFiniteSet(S), S # {}
  PROVE  \E m \in S : \A x \in S : m[2] <= x[2]
<1> DEFINE Below(e) == {x \in S : x[2] < e[2]}
<1> DEFINE Family == {Below(e) : e \in S}
<1>0. \A e \in S : e[2] \in Nat
  BY DEF Event
<1>1. Family \subseteq FiniteSubsetsOf(S)
  BY FS_Subset DEF FiniteSubsetsOf
<1>2. Family # {}
  OBVIOUS
<1>3. PICK A \in Family : \A B \in Family : ~(<<B, A>> \in StrictSubsetOrdering(S))
  <2> HIDE DEF Family
  <2> QED BY <1>1, <1>2, FS_StrictSubsetOrderingWellFounded, WFMin, Zenon
<1>4. PICK m \in S : A = Below(m)
  OBVIOUS
<1>5. ASSUME NEW x \in S, x[2] < m[2] PROVE FALSE
  <2>1. Below(x) \in Family
    OBVIOUS
  <2>2. x \in A /\ x \notin Below(x)
    BY <1>0, <1>4, <1>5
  <2>3. ASSUME NEW y \in Below(x) PROVE y \in A
    BY <1>0, <1>4, <1>5
  <2>4. <<Below(x), A>> \in StrictSubsetOrdering(S)
    BY <2>2, <2>3, <1>4 DEF StrictSubsetOrdering
  <2> QED BY <2>1, <2>4, <1>3
<1> QED BY <1>0, <1>5

\* The Retry-After time of a key that has an event in its window.
LEMMA RetryKnown ==
  ASSUME TypeOK, Finite, NEW k \in Keys, Fresh(k) # {}
  PROVE  /\ RetryAt(k) \in Nat
         /\ \E e \in Fresh(k) : RetryAt(k) = e[2] + Window[k]
         /\ \A e \in Fresh(k) : RetryAt(k) <= e[2] + Window[k]
<1>1. Fresh(k) \subseteq Event /\ IsFiniteSet(Fresh(k)) /\ Window[k] \in Nat
  <2>1. Fresh(k) \subseteq spent[k] /\ IsFiniteSet(spent[k])
    BY DEF Fresh, Finite
  <2>2. IsFiniteSet(Fresh(k))
    BY <2>1, FS_Subset
  <2> QED BY <2>1, <2>2, LimiterAssumption DEF TypeOK
<1>2. PICK m \in Fresh(k) : \A x \in Fresh(k) : m[2] <= x[2]
  BY <1>1, Earliest
<1>3. \A x \in Fresh(k) : x[2] \in Nat
  BY <1>1 DEF Event
<1>4. \E t \in {e[2] + Window[k] : e \in Fresh(k)} : \A e \in Fresh(k) : t <= e[2] + Window[k]
  <2>1. m[2] + Window[k] \in {e[2] + Window[k] : e \in Fresh(k)}
    OBVIOUS
  <2>2. \A e \in Fresh(k) : m[2] + Window[k] <= e[2] + Window[k]
    BY <1>1, <1>2, <1>3
  <2> QED BY <2>1, <2>2
<1>5. /\ RetryAt(k) \in {e[2] + Window[k] : e \in Fresh(k)}
      /\ \A e \in Fresh(k) : RetryAt(k) <= e[2] + Window[k]
  BY <1>4, Zenon DEF RetryAt
<1>6. PICK e \in Fresh(k) : RetryAt(k) = e[2] + Window[k]
  BY <1>5
<1>7. e[2] + Window[k] \in Nat
  BY <1>1, <1>3
<1> QED BY <1>5, <1>6, <1>7

\* A key that refuses has an event in its window.
LEMMA FullNotEmpty ==
  ASSUME NEW k \in Keys, Full(k)
  PROVE  Fresh(k) # {}
<1>1. Limit[k] \in Nat \ {0}
  BY LimiterAssumption
<1> QED BY <1>1, FS_EmptySet DEF Full

-----------------------------------------------------------------------------
(* The types.                                                              *)

LEMMA ClockTyped == TypeOK => now \in Nat
BY LimiterAssumption DEF TypeOK

\* What an evaluation leaves of the store is of its type.
LEMMA PrunedTyped ==
  ASSUME TypeOK, NEW ks
  PROVE  Pruned(ks) \in [Keys -> SUBSET Event]
<1>1. \A k \in Keys : events[k] \in SUBSET Event
  BY DEF TypeOK
<1>2. \A k \in Keys : Fresh(k) \in SUBSET Event /\ Kept(k) \in SUBSET Event
  BY <1>1 DEF Fresh, Kept
<1> QED BY <1>2 DEF Pruned

LEMMA ConsumeTyped ==
  ASSUME TypeOK, NEW r \in Requests, NEW cs \in CheckLists, Consume(r, cs)
  PROVE  /\ events' \in [Keys -> SUBSET Event] /\ until' \in [Keys -> Nat]
         /\ spent' \in [Keys -> SUBSET Event]
<1>1. \A k \in Keys : /\ events[k] \in SUBSET Event /\ spent[k] \in SUBSET Event
                      /\ until[k] \in Nat
  BY DEF TypeOK
<1>2. <<r, now>> \in Event
  BY ClockTyped DEF Event
<1>3. \A k \in Keys : Fresh(k) \in SUBSET Event /\ Kept(k) \in SUBSET Event
  BY <1>1 DEF Fresh, Kept
<1>4. \A k \in Keys : Lifetime(k) \in Nat
  BY ClockTyped, LimiterAssumption DEF Lifetime
<1>5. events' \in [Keys -> SUBSET Event]
  <2>1. \A k \in Keys : (IF k \in KeysIn(cs) THEN Fresh(k) \cup {<<r, now>>} ELSE Kept(k))
                         \in SUBSET Event
    BY <1>2, <1>3
  <2> QED BY <2>1 DEF Consume
<1>6. until' \in [Keys -> Nat]
  <2>1. \A k \in Keys : (IF k \in KeysIn(cs) THEN Lifetime(k) ELSE until[k]) \in Nat
    BY <1>1, <1>4
  <2> QED BY <2>1 DEF Consume
<1>7. spent' \in [Keys -> SUBSET Event]
  <2>1. \A k \in Keys : (IF k \in KeysIn(cs) THEN spent[k] \cup {<<r, now>>} ELSE spent[k])
                         \in SUBSET Event
    BY <1>1, <1>2
  <2> QED BY <2>1 DEF Consume
<1> QED BY <1>5, <1>6, <1>7

LEMMA NotifyTyped ==
  ASSUME TypeOK, Finite, NEW r \in Requests, NEW k \in Keys, Full(k), Notify(r, k)
  PROVE  told' \in [Requests -> SUBSET Notice]
<1>1. RetryAt(k) \in Nat
  BY FullNotEmpty, RetryKnown
<1>2. {[key |-> k, asked |-> now, retry |-> RetryAt(k)]} \in SUBSET Notice
  BY <1>1, ClockTyped DEF Notice
<1> QED BY <1>2 DEF Notify, TypeOK

-----------------------------------------------------------------------------
(* Types and the clients, step by step.                                    *)

CInv == TypeOK /\ ClientOK

LEMMA ClientInit == Init => CInv
<1> SUFFICES ASSUME Init PROVE CInv
  OBVIOUS
<1>1. TypeOK
  BY LimiterAssumption DEF Init, TypeOK, Event
<1>2. ClientOK
  BY DEF Init, ClientOK
<1> QED BY <1>1, <1>2 DEF CInv

\* A request that a store answered at once.
LEMMA ArriveStep ==
  ASSUME CInv, NEW r \in Requests, NEW cs \in CheckLists,
         NEW a \in {"pass", "limited", "capacity"}, Arrive(r, cs, a),
         events' \in [Keys -> SUBSET Event], until' \in [Keys -> Nat],
         spent' \in [Keys -> SUBSET Event], told' \in [Requests -> SUBSET Notice]
  PROVE  CInv'
<1>1. TypeOK'
  BY Zenon DEF CInv, Arrive, TypeOK
<1>2. ClientOK'
  BY DEF CInv, Arrive, TypeOK, ClientOK
<1> QED BY <1>1, <1>2 DEF CInv

\* A script that ran.
LEMMA RanStep ==
  ASSUME CInv, NEW r \in Requests, NEW v \in {"pass", "limited"}, Ran(r, v),
         events' \in [Keys -> SUBSET Event], until' \in [Keys -> Nat],
         spent' \in [Keys -> SUBSET Event], told' \in [Requests -> SUBSET Notice]
  PROVE  CInv'
<1>1. TypeOK'
  BY Zenon DEF CInv, Ran, TypeOK, clientVars
<1>2. ClientOK'
  BY DEF CInv, Ran, TypeOK, ClientOK, clientVars
<1> QED BY <1>1, <1>2 DEF CInv

\* A late script whose client no longer waits for it.
LEMMA StrayStep ==
  ASSUME CInv, NEW r \in Requests, Stray(r),
         events' \in [Keys -> SUBSET Event], until' \in [Keys -> Nat],
         spent' \in [Keys -> SUBSET Event]
  PROVE  CInv'
<1>1. stray' \in [Requests -> 0..MaxAttempts]
  BY LimiterAssumption DEF CInv, Stray, TypeOK
<1>2. TypeOK'
  BY <1>1, Zenon DEF CInv, Stray, TypeOK
<1>3. ClientOK'
  BY LimiterAssumption DEF CInv, Stray, TypeOK, ClientOK
<1> QED BY <1>2, <1>3 DEF CInv

\* The client's own steps.
LEMMA ClientStep ==
  ASSUME CInv, NEW r \in Requests,
         \/ \E cs \in CheckLists : Send(r, cs)
         \/ Reply(r) \/ Resend(r) \/ Unavailable(r)
  PROVE  CInv' /\ Quiet
<1>1. CASE \E cs \in CheckLists : Send(r, cs)
  <2> PICK cs \in CheckLists : Send(r, cs)
    BY <1>1
  <2>1. attempts' \in [Requests -> 0..MaxAttempts]
    BY LimiterAssumption DEF CInv, Send, TypeOK
  <2>2. TypeOK'
    BY <2>1, Zenon DEF CInv, Send, TypeOK, storeVars
  <2>3. ClientOK'
    BY LimiterAssumption DEF CInv, Send, TypeOK, ClientOK, storeVars
  <2> QED BY <2>2, <2>3 DEF CInv, Send, Quiet
<1>2. CASE Reply(r)
  <2>1. verdict[r] \in {"pass", "limited"}
    BY <1>2 DEF CInv, Reply, ClientOK
  <2>2. TypeOK'
    BY <1>2, <2>1, Zenon DEF CInv, Reply, TypeOK, storeVars, clientVars
  <2>3. ClientOK'
    BY <1>2, LimiterAssumption DEF CInv, Reply, TypeOK, ClientOK, storeVars, clientVars
  <2> QED BY <1>2, <2>2, <2>3 DEF CInv, Reply, Quiet
<1>3. ASSUME Timeout(r)
      PROVE  /\ lost' \in 0..MaxLost
             /\ stray' \in [Requests -> 0..MaxAttempts]
             /\ stray'[r] <= attempts[r]
             /\ \A q \in Requests : q # r => stray'[q] = stray[q]
  BY <1>3, LimiterAssumption DEF CInv, Timeout, TypeOK, ClientOK
<1>4. CASE Resend(r)
  <2>1. attempts' \in [Requests -> 0..MaxAttempts]
    BY <1>4, LimiterAssumption DEF CInv, Resend, TypeOK
  <2>2. TypeOK'
    BY <1>3, <1>4, <2>1, Zenon DEF CInv, Resend, Timeout, TypeOK, storeVars
  <2>3. ClientOK'
    BY <1>3, <1>4, LimiterAssumption DEF CInv, Resend, Timeout, TypeOK, ClientOK, storeVars
  <2> QED BY <1>4, <2>2, <2>3 DEF CInv, Resend, Timeout, Quiet
<1>5. CASE Unavailable(r)
  <2>2. TypeOK'
    BY <1>3, <1>5, Zenon DEF CInv, Unavailable, Timeout, TypeOK, storeVars
  <2>3. ClientOK'
    BY <1>3, <1>5, LimiterAssumption DEF CInv, Unavailable, Timeout, TypeOK, ClientOK, storeVars
  <2> QED BY <1>5, <2>2, <2>3 DEF CInv, Unavailable, Timeout, Quiet
<1> QED BY <1>1, <1>2, <1>4, <1>5

\* Every step keeps the types and the clients in order, and changes the store
\* in one of four ways.
LEMMA StoreSteps ==
  ASSUME CInv, Finite, [Next]_vars
  PROVE  CInv' /\ (Consuming \/ Pruning \/ Quiet \/ Tick)
<1> USE DEF CInv
<1>1. ASSUME NEW r \in Requests, NEW cs \in CheckLists, MemoryPass(r, cs)
      PROVE  CInv' /\ Consuming
  <2>1. CInv'
    <3>1. told' \in [Requests -> SUBSET Notice]
      BY <1>1 DEF MemoryPass, TypeOK
    <3> QED BY <1>1, <3>1, ConsumeTyped, ArriveStep DEF MemoryPass
  <2>2. Consuming
    BY <1>1 DEF MemoryPass, Consuming, Arrive
  <2> QED BY <2>1, <2>2
<1>2. ASSUME NEW r \in Requests, NEW cs \in CheckLists, MemoryRefuse(r, cs)
      PROVE  CInv' /\ Pruning
  <2> PICK i \in DOMAIN cs :
        /\ RefusedAt(cs, i) /\ ConsumeNothing(r, cs, i) /\ Notify(r, cs[i])
        /\ until' = [until EXCEPT ![cs[i]] = now + Window[cs[i]]]
        /\ Arrive(r, cs, "limited")
    BY <1>2 DEF MemoryRefuse
  <2> DEFINE ks == {cs[j] : j \in 1..i}
  <2>1. cs[i] \in Keys /\ Full(cs[i]) /\ ks \subseteq Keys
    <3>1. cs \in Seq(Keys)
      BY LimiterAssumption
    <3> QED BY <3>1 DEF RefusedAt
  <2>2. told' \in [Requests -> SUBSET Notice]
    BY <2>1, NotifyTyped
  <2>3. events' = Pruned(ks) /\ spent' = spent
    BY DEF ConsumeNothing
  <2>4. until' \in [Keys -> Nat]
    <3>1. now + Window[cs[i]] \in Nat
      BY <2>1, ClockTyped, LimiterAssumption
    <3> QED BY <3>1 DEF TypeOK
  <2>5. CInv'
    <3>1. events' \in [Keys -> SUBSET Event] /\ spent' \in [Keys -> SUBSET Event]
      BY <2>3, PrunedTyped DEF TypeOK
    <3> QED BY <3>1, <2>2, <2>4, ArriveStep
  <2>6. Pruning
    BY <2>1, <2>3 DEF Pruning, Arrive
  <2> QED BY <2>5, <2>6
<1>3. ASSUME NEW r \in Requests, NEW cs \in CheckLists, MemoryFull(r, cs)
      PROVE  CInv' /\ Pruning
  <2>1. events' = Pruned(KeysIn(cs)) /\ UNCHANGED <<until, spent, told>>
        /\ Arrive(r, cs, "capacity")
    BY <1>3 DEF MemoryFull
  <2>2. CInv'
    <3>1. /\ events' \in [Keys -> SUBSET Event] /\ spent' \in [Keys -> SUBSET Event]
          /\ until' \in [Keys -> Nat] /\ told' \in [Requests -> SUBSET Notice]
      BY <2>1, PrunedTyped DEF TypeOK
    <3> QED BY <3>1, <2>1, ArriveStep
  <2>3. Pruning
    BY <2>1, KeysAreKeys DEF Pruning, Arrive
  <2> QED BY <2>2, <2>3
<1>4. ASSUME NEW r \in Requests, ScriptPasses(r)
      PROVE  CInv' /\ Consuming
  <2>1. Consume(r, checks[r]) /\ Ran(r, "pass") /\ UNCHANGED told /\ Passes(checks[r])
    BY <1>4 DEF ScriptPasses
  <2>2. checks[r] \in CheckLists /\ mode # "memory"
    BY <2>1 DEF Ran, ClientOK, TypeOK
  <2>3. CInv'
    <3>1. told' \in [Requests -> SUBSET Notice]
      BY <2>1 DEF TypeOK
    <3> QED BY <2>1, <2>2, <3>1, ConsumeTyped, RanStep
  <2>4. Consuming
    BY <2>1, <2>2 DEF Consuming, Ran
  <2> QED BY <2>3, <2>4
<1>5. ASSUME NEW r \in Requests, ScriptRefuses(r)
      PROVE  CInv' /\ Pruning
  <2> DEFINE cs == checks[r]
  <2> PICK i \in DOMAIN cs :
        /\ RefusedAt(cs, i) /\ ConsumeNothing(r, cs, i) /\ Notify(r, cs[i])
        /\ Ran(r, "limited") /\ UNCHANGED until
    BY <1>5 DEF ScriptRefuses
  <2> DEFINE ks == {cs[j] : j \in 1..i}
  <2>0. cs \in CheckLists
    BY DEF Ran, ClientOK, TypeOK
  <2>1. cs[i] \in Keys /\ Full(cs[i]) /\ ks \subseteq Keys
    <3>1. cs \in Seq(Keys)
      BY <2>0, LimiterAssumption
    <3> QED BY <3>1 DEF RefusedAt
  <2>2. told' \in [Requests -> SUBSET Notice]
    BY <2>1, NotifyTyped
  <2>3. events' = Pruned(ks) /\ spent' = spent
    BY DEF ConsumeNothing
  <2>5. CInv'
    <3>1. /\ events' \in [Keys -> SUBSET Event] /\ spent' \in [Keys -> SUBSET Event]
          /\ until' \in [Keys -> Nat]
      BY <2>3, PrunedTyped DEF TypeOK
    <3> QED BY <3>1, <2>2, RanStep
  <2>6. Pruning
    BY <2>1, <2>3 DEF Pruning, Ran
  <2> QED BY <2>5, <2>6
<1>6. ASSUME NEW r \in Requests, StrayPasses(r)
      PROVE  CInv' /\ Consuming
  <2>1. Consume(r, checks[r]) /\ Stray(r) /\ Passes(checks[r])
    BY <1>6 DEF StrayPasses
  <2>2. checks[r] \in CheckLists /\ mode # "memory"
    <3>1. stray[r] > 0 /\ stray[r] \in Nat /\ attempts[r] \in Nat
      BY <2>1, LimiterAssumption DEF Stray, TypeOK
    <3>2. attempts[r] # 0
      BY <3>1 DEF ClientOK
    <3> QED BY <3>2 DEF ClientOK
  <2>3. CInv'
    BY <2>1, <2>2, ConsumeTyped, StrayStep
  <2>4. Consuming
    BY <2>1, <2>2 DEF Consuming, Stray
  <2> QED BY <2>3, <2>4
<1>7. ASSUME NEW r \in Requests, StrayRefuses(r)
      PROVE  CInv' /\ Pruning
  <2> DEFINE cs == checks[r]
  <2> PICK i \in DOMAIN cs :
        ConsumeNothing(r, cs, i) /\ Stray(r) /\ UNCHANGED until
    BY <1>7 DEF StrayRefuses
  <2> DEFINE ks == {cs[j] : j \in 1..i}
  <2>0. cs \in CheckLists
    BY LimiterAssumption DEF Stray, ClientOK, TypeOK
  <2>1. ks \subseteq Keys
    <3>1. cs \in Seq(Keys)
      BY <2>0, LimiterAssumption
    <3> QED BY <3>1
  <2>3. events' = Pruned(ks) /\ spent' = spent
    BY DEF ConsumeNothing
  <2>5. CInv'
    <3>1. /\ events' \in [Keys -> SUBSET Event] /\ spent' \in [Keys -> SUBSET Event]
          /\ until' \in [Keys -> Nat]
      BY <2>3, PrunedTyped DEF TypeOK
    <3> QED BY <3>1, StrayStep
  <2>6. Pruning
    BY <2>1, <2>3 DEF Pruning, Stray
  <2> QED BY <2>5, <2>6
<1>8. ASSUME Tick PROVE CInv'
  <2>1. now' \in 0..MaxTime
    BY <1>8, LimiterAssumption DEF Tick, TypeOK
  <2>2. TypeOK'
    BY <1>8, <2>1, Zenon DEF Tick, TypeOK, clientVars
  <2>3. ClientOK'
    BY <1>8 DEF Tick, ClientOK, clientVars
  <2> QED BY <2>2, <2>3
<1>9. CASE UNCHANGED vars
  <2>1. TypeOK' /\ ClientOK'
    BY <1>9 DEF vars, storeVars, clientVars, TypeOK, ClientOK
  <2> QED BY <1>9, <2>1 DEF vars, Quiet
<1>10. ASSUME NEW r \in Requests, RedisStep(r)
       PROVE  CInv' /\ (Consuming \/ Pruning \/ Quiet)
  <2>1. \/ \E cs \in CheckLists : Send(r, cs)
        \/ Reply(r) \/ Resend(r) \/ Unavailable(r)
        \/ ScriptPasses(r) \/ ScriptRefuses(r) \/ StrayPasses(r) \/ StrayRefuses(r)
    BY <1>10 DEF RedisStep
  <2>2. CASE \/ \E cs \in CheckLists : Send(r, cs)
             \/ Reply(r) \/ Resend(r) \/ Unavailable(r)
    <3> HIDE DEF CInv
    <3> QED BY <2>2, ClientStep
  <2> HIDE DEF CInv
  <2> QED BY <2>1, <2>2, <1>4, <1>5, <1>6, <1>7
<1> HIDE DEF CInv
<1> QED BY <1>1, <1>2, <1>3, <1>8, <1>9, <1>10 DEF Next

-----------------------------------------------------------------------------
(* What the store remembers.                                               *)

StoreOK == Remembered /\ Finite

LEMMA StoreInit == Init => StoreOK /\ WithinLimit /\ BucketsBounded
<1> SUFFICES ASSUME Init PROVE StoreOK /\ WithinLimit /\ BucketsBounded
  OBVIOUS
<1>1. \A k \in Keys : spent[k] = {} /\ events[k] = {}
  BY DEF Init
<1>2. Remembered /\ Finite
  BY <1>1, FS_EmptySet DEF Remembered, Finite
<1>3. WithinLimit
  <2> SUFFICES ASSUME NEW k \in Keys, NEW t \in 0..now
               PROVE  Cardinality({e \in spent[k] : e[2] <= t /\ t < e[2] + Window[k]})
                        <= Limit[k]
    BY DEF WithinLimit
  <2> DEFINE Then == {e \in spent[k] : e[2] <= t /\ t < e[2] + Window[k]}
  <2>1. Then = {}
    BY <1>1
  <2>2. 0 <= Limit[k]
    BY LimiterAssumption
  <2> HIDE DEF Then
  <2>3. Cardinality(Then) = 0
    BY <2>1, FS_EmptySet
  <2> QED BY <2>2, <2>3 DEF Then
<1>4. BucketsBounded
  <2>1. Buckets = {}
    BY <1>1 DEF Buckets
  <2>2. Cardinality(Buckets) = 0
    BY <2>1, FS_EmptySet
  <2>3. 0 <= MaxBuckets
    BY LimiterAssumption
  <2> QED BY <2>2, <2>3 DEF BucketsBounded, Buckets
<1> QED BY <1>2, <1>3, <1>4 DEF StoreOK

\* The key's times, as numbers.
LEMMA Times ==
  ASSUME CInv, NEW k \in Keys
  PROVE  /\ now \in Nat /\ until[k] \in Nat /\ Window[k] \in Nat \ {0}
         /\ Limit[k] \in Nat \ {0}
         /\ \A e \in spent[k] : e[2] \in Nat
         /\ \A r \in Requests : <<r, now>>[2] = now
<1>1. spent[k] \subseteq Event /\ until[k] \in Nat
  BY DEF CInv, TypeOK
<1> QED BY <1>1, ClockTyped, LimiterAssumption DEF CInv, Event

\* What is still in its window is what an evaluation counts.
LEMMA FreshIsRecent ==
  ASSUME CInv, StoreOK, NEW k \in Keys
  PROVE  Fresh(k) = {e \in spent[k] : e[2] + Window[k] > now}
<1>1. \A e \in Fresh(k) : e \in spent[k] /\ e[2] + Window[k] > now
  BY DEF Fresh, StoreOK, Finite
<1>2. ASSUME NEW e \in spent[k], e[2] + Window[k] > now PROVE e \in Fresh(k)
  <2>1. e \in events[k] /\ e[2] + Window[k] <= until[k]
    BY <1>2 DEF StoreOK, Remembered
  <2>2. now < until[k]
    BY <1>2, <2>1, Times
  <2> QED BY <1>2, <2>1, <2>2 DEF Fresh
<1> QED BY <1>1, <1>2

\* Dropping buckets and old events loses nothing that counts.
LEMMA KeptRecent ==
  ASSUME CInv, StoreOK, NEW k \in Keys
  PROVE  /\ Kept(k) \subseteq events[k] /\ Fresh(k) \subseteq Kept(k)
<1>1. Kept(k) \subseteq events[k]
  BY DEF Kept
<1>2. ASSUME NEW e \in Fresh(k) PROVE e \in Kept(k)
  BY <1>2, Times DEF Fresh, Kept
<1> QED BY <1>1, <1>2

LEMMA StoreStep ==
  ASSUME CInv, StoreOK, Consuming \/ Pruning \/ Quiet \/ Tick
  PROVE  StoreOK'
<1>1. CASE Consuming
  <2> PICK r \in Requests, cs \in CheckLists : Consume(r, cs) /\ UNCHANGED <<mode, now>>
    BY <1>1 DEF Consuming
  <2> SUFFICES ASSUME NEW k \in Keys
               PROVE  /\ events'[k] \subseteq spent'[k] /\ IsFiniteSet(spent'[k])
                      /\ \A e \in spent'[k] :
                           /\ e[2] <= now
                           /\ e[2] + Window[k] > now =>
                                e \in events'[k] /\ e[2] + Window[k] <= until'[k]
    BY DEF StoreOK, Remembered, Finite
  <2>1. CASE k \in KeysIn(cs)
    <3>1. /\ events'[k] = Fresh(k) \cup {<<r, now>>}
          /\ spent'[k] = spent[k] \cup {<<r, now>>}
          /\ until'[k] = Lifetime(k)
      BY <2>1 DEF Consume
    <3>2. IsFiniteSet(spent'[k])
      <4>1. IsFiniteSet(spent[k])
        BY DEF StoreOK, Finite
      <4>2. IsFiniteSet(spent[k] \cup {<<r, now>>})
        BY <4>1, FS_AddElement
      <4> QED BY <3>1, <4>2
    <3>3. events'[k] \subseteq spent'[k]
      BY <3>1, FreshIsRecent
    <3>4. until'[k] >= now + Window[k]
      BY <3>1, Times, LimiterAssumption DEF Lifetime
    <3>5. ASSUME NEW e \in spent'[k]
          PROVE  /\ e[2] <= now
                 /\ e[2] + Window[k] > now =>
                      e \in events'[k] /\ e[2] + Window[k] <= until'[k]
      <4>1. until'[k] \in Nat
        BY <3>1, Times, LimiterAssumption DEF Lifetime
      <4>2. CASE e = <<r, now>>
        BY <3>1, <3>4, <4>2, Times
      <4>3. CASE e \in spent[k]
        <5>1. e[2] <= now /\ e[2] \in Nat
          BY <4>3, Times DEF StoreOK, Remembered
        <5>2. e[2] + Window[k] > now => e \in Fresh(k)
          BY <4>3, FreshIsRecent
        <5> QED BY <3>1, <3>4, <4>1, <5>1, <5>2, Times
      <4> QED BY <3>1, <4>2, <4>3
    <3> QED BY <3>2, <3>3, <3>5
  <2>2. CASE k \notin KeysIn(cs)
    <3>1. events'[k] = Kept(k) /\ spent'[k] = spent[k] /\ until'[k] = until[k]
      BY <2>2 DEF Consume, TypeOK, CInv
    <3>2. events'[k] \subseteq spent'[k] /\ IsFiniteSet(spent'[k])
      BY <3>1, KeptRecent DEF StoreOK, Finite
    <3>3. ASSUME NEW e \in spent[k]
          PROVE  /\ e[2] <= now
                 /\ e[2] + Window[k] > now => e \in Kept(k) /\ e[2] + Window[k] <= until[k]
      BY KeptRecent, FreshIsRecent DEF StoreOK, Remembered
    <3> QED BY <3>1, <3>2, <3>3
  <2> QED BY <2>1, <2>2
<1>2. CASE Pruning
  <2> PICK ks \in SUBSET Keys :
        /\ events' = Pruned(ks) /\ UNCHANGED <<mode, now, spent>>
        /\ \/ until' = until
           \/ \E k \in Keys : until' = [until EXCEPT ![k] = now + Window[k]]
    BY <1>2 DEF Pruning
  <2> SUFFICES ASSUME NEW k \in Keys
               PROVE  /\ events'[k] \subseteq spent[k] /\ IsFiniteSet(spent[k])
                      /\ \A e \in spent[k] :
                           /\ e[2] <= now
                           /\ e[2] + Window[k] > now =>
                                e \in events'[k] /\ e[2] + Window[k] <= until'[k]
    BY DEF StoreOK, Remembered, Finite
  <2>1. Fresh(k) \subseteq events'[k] /\ events'[k] \subseteq events[k]
    <3>1. events'[k] = IF k \in ks THEN Fresh(k) ELSE Kept(k)
      BY DEF Pruned
    <3>2. Fresh(k) \subseteq events[k]
      BY DEF Fresh
    <3> QED BY <3>1, <3>2, KeptRecent
  <2>2. until'[k] = until[k] \/ until'[k] = now + Window[k]
    BY DEF CInv, TypeOK
  <2>3. ASSUME NEW e \in spent[k]
        PROVE  /\ e[2] <= now
               /\ e[2] + Window[k] > now =>
                    e \in events'[k] /\ e[2] + Window[k] <= until'[k]
    <3>1. e[2] <= now /\ e[2] \in Nat
      BY <2>3, Times DEF StoreOK, Remembered
    <3>2. ASSUME e[2] + Window[k] > now
          PROVE  e \in Fresh(k) /\ e[2] + Window[k] <= until[k]
      BY <3>2, FreshIsRecent DEF StoreOK, Remembered
    <3> QED BY <2>1, <2>2, <3>1, <3>2, Times
  <2> QED BY <2>1, <2>3 DEF StoreOK, Finite
<1>3. CASE Quiet
  BY <1>3 DEF Quiet, storeVars, StoreOK, Remembered, Finite
<1>4. CASE Tick
  <2> SUFFICES ASSUME NEW k \in Keys, NEW e \in spent[k]
               PROVE  /\ e[2] <= now + 1
                      /\ e[2] + Window[k] > now + 1 =>
                           e \in events[k] /\ e[2] + Window[k] <= until[k]
    BY <1>4 DEF Tick, StoreOK, Remembered, Finite
  <2>1. e[2] <= now /\ e[2] \in Nat
    BY Times DEF StoreOK, Remembered
  <2>2. e[2] + Window[k] > now => e \in events[k] /\ e[2] + Window[k] <= until[k]
    BY DEF StoreOK, Remembered
  <2> QED BY <2>1, <2>2, Times
<1> QED BY <1>1, <1>2, <1>3, <1>4

-----------------------------------------------------------------------------
(* The bounds.                                                             *)

LEMMA LimitStep ==
  ASSUME CInv, StoreOK, WithinLimit, Consuming \/ Pruning \/ Quiet \/ Tick
  PROVE  WithinLimit'
<1> DEFINE At(k, t) == {e \in spent[k] : e[2] <= t /\ t < e[2] + Window[k]}
<1>0. \A k \in Keys, t \in 0..now : Cardinality(At(k, t)) <= Limit[k]
  BY DEF WithinLimit
<1>1. CASE Consuming
  <2> PICK r \in Requests, cs \in CheckLists :
        Passes(cs) /\ Consume(r, cs) /\ UNCHANGED <<mode, now>>
    BY <1>1 DEF Consuming
  <2> SUFFICES ASSUME NEW k \in Keys, NEW t \in 0..now
               PROVE  Cardinality({e \in spent'[k] : e[2] <= t /\ t < e[2] + Window[k]})
                        <= Limit[k]
    BY DEF WithinLimit
  <2> DEFINE New == {e \in spent'[k] : e[2] <= t /\ t < e[2] + Window[k]}
  <2>1. CASE k \in KeysIn(cs) /\ t = now
    <3>1. spent'[k] = spent[k] \cup {<<r, now>>}
      BY <2>1 DEF Consume
    <3>2. New \subseteq Fresh(k) \cup {<<r, now>>}
      BY <2>1, <3>1, FreshIsRecent, Times
    <3>3. IsFiniteSet(Fresh(k))
      BY FS_Subset, FreshIsRecent DEF StoreOK, Finite
    <3>4. Cardinality(Fresh(k)) < Limit[k] /\ Cardinality(Fresh(k)) \in Nat
      <4>1. Cardinality(Fresh(k)) \in Nat
        BY <3>3, FS_CardinalityType
      <4> QED BY <2>1, <4>1, Times DEF Passes, Full
    <3>5. /\ IsFiniteSet(Fresh(k) \cup {<<r, now>>})
          /\ Cardinality(Fresh(k) \cup {<<r, now>>}) <= Limit[k]
      <4> DEFINE F == Fresh(k)
      <4> DEFINE x == <<r, now>>
      <4>1. IsFiniteSet(F) /\ Cardinality(F) < Limit[k] /\ Cardinality(F) \in Nat
        BY <3>3, <3>4
      <4> HIDE DEF F, x
      <4>2. IsFiniteSet(F \cup {x})
        BY <4>1, FS_AddElement
      <4>3. Cardinality(F \cup {x}) \in {Cardinality(F), Cardinality(F) + 1}
        BY <4>1, FS_AddElement
      <4>4. Cardinality(F \cup {x}) <= Limit[k]
        BY <4>1, <4>3, Times
      <4> QED BY <4>2, <4>4 DEF F, x
    <3>6. /\ Cardinality(New) <= Cardinality(Fresh(k) \cup {<<r, now>>})
          /\ Cardinality(New) \in Nat
      BY <3>2, <3>5, FS_Subset, FS_CardinalityType
    <3>7. Cardinality(Fresh(k) \cup {<<r, now>>}) \in Nat
      BY <3>5, FS_CardinalityType
    <3> QED BY <3>5, <3>6, <3>7, Times
  <2>2. CASE ~ (k \in KeysIn(cs) /\ t = now)
    <3>1. New = At(k, t)
      <4>1. spent'[k] = spent[k] \/ (spent'[k] = spent[k] \cup {<<r, now>>} /\ t # now)
        BY <2>2 DEF Consume
      <4>2. t # now => ~ (now <= t)
        BY Times
      <4> QED BY <4>1, <4>2, Times
    <3> QED BY <3>1, <1>0
  <2> QED BY <2>1, <2>2
<1>2. CASE Pruning
  BY <1>2 DEF Pruning, WithinLimit
<1>3. CASE Quiet
  BY <1>3 DEF Quiet, storeVars, WithinLimit
<1>4. CASE Tick
  <2> SUFFICES ASSUME NEW k \in Keys, NEW t \in 0..(now + 1)
               PROVE  Cardinality(At(k, t)) <= Limit[k]
    BY <1>4 DEF Tick, WithinLimit
  <2>1. CASE t \in 0..now
    BY <2>1, <1>0
  <2>2. CASE t = now + 1
    <3>1. At(k, t) \subseteq At(k, now)
      BY <2>2, Times DEF StoreOK, Remembered
    <3>2. IsFiniteSet(At(k, now)) /\ Cardinality(At(k, now)) <= Limit[k]
      <4>1. IsFiniteSet(spent[k]) /\ At(k, now) \subseteq spent[k]
        BY DEF StoreOK, Finite
      <4> QED BY <4>1, <1>0, FS_Subset, Times
    <3> HIDE DEF At
    <3>3. /\ Cardinality(At(k, t)) <= Cardinality(At(k, now))
          /\ Cardinality(At(k, t)) \in Nat /\ Cardinality(At(k, now)) \in Nat
      BY <3>1, <3>2, FS_Subset, FS_CardinalityType
    <3> QED BY <3>2, <3>3, Times
  <2> QED BY <2>1, <2>2, Times
<1> QED BY <1>1, <1>2, <1>3, <1>4

LEMMA BucketsStep ==
  ASSUME CInv, StoreOK, BucketsBounded, Consuming \/ Pruning \/ Quiet \/ Tick
  PROVE  BucketsBounded'
<1>0. IsFiniteSet(Keys) /\ MaxBuckets \in Nat
  BY LimiterAssumption
<1>1. ASSUME NEW S \in SUBSET Keys, NEW T \in SUBSET S, Cardinality(S) <= MaxBuckets
      PROVE  Cardinality(T) <= MaxBuckets
  <2>1. IsFiniteSet(S) /\ IsFiniteSet(T)
    BY <1>0, FS_Subset
  <2>2. /\ Cardinality(T) <= Cardinality(S)
        /\ Cardinality(T) \in Nat /\ Cardinality(S) \in Nat
    BY <2>1, FS_Subset, FS_CardinalityType
  <2> QED BY <1>1, <2>2, <1>0
<1>2. CASE Consuming /\ mode = "memory"
  <2> PICK r \in Requests, cs \in CheckLists :
        RoomFor(cs) /\ Consume(r, cs) /\ UNCHANGED <<mode, now>>
    BY <1>2 DEF Consuming
  <2>1. Live \cup KeysIn(cs) \in SUBSET Keys
    BY KeysAreKeys DEF Live
  <2>2. {k \in Keys : events'[k] # {}} \subseteq Live \cup KeysIn(cs)
    <3> SUFFICES ASSUME NEW k \in Keys, k \notin KeysIn(cs), k \notin Live
                 PROVE  events'[k] = {}
      OBVIOUS
    <3>1. events'[k] = Kept(k)
      BY DEF Consume
    <3>2. events[k] = {} \/ now >= until[k]
      BY Times DEF Live
    <3> QED BY <1>2, <3>1, <3>2 DEF Kept
  <2>3. Cardinality({k \in Keys : events'[k] # {}}) <= MaxBuckets
    BY <1>1, <2>1, <2>2 DEF RoomFor
  <2> QED BY <2>3 DEF BucketsBounded
<1>3. CASE Consuming /\ mode # "memory"
  BY <1>3 DEF Consuming, BucketsBounded
<1>4. CASE Pruning
  <2>1. mode' = mode /\ \A k \in Keys : events'[k] \subseteq events[k]
    <3>1. \A k \in Keys : Fresh(k) \subseteq events[k] /\ Kept(k) \subseteq events[k]
      BY DEF Fresh, Kept
    <3> QED BY <1>4, <3>1 DEF Pruning, Pruned
  <2>2. {k \in Keys : events'[k] # {}} \in SUBSET Buckets /\ Buckets \in SUBSET Keys
    BY <2>1 DEF Buckets
  <2> QED BY <1>1, <2>1, <2>2 DEF BucketsBounded, Buckets
<1>5. CASE Quiet \/ Tick
  BY <1>5 DEF Quiet, Tick, storeVars, BucketsBounded
<1> QED BY <1>2, <1>3, <1>4, <1>5

-----------------------------------------------------------------------------
(* The abstract window.                                                    *)

LEMMA RoomIsNotFull ==
  ASSUME CInv, StoreOK, NEW k \in Keys
  PROVE  Abstract!Room(k) <=> ~ Full(k)
<1>1. Fresh(k) = Abstract!Recent(k)
  BY FreshIsRecent DEF Abstract!Recent
<1>2. IsFiniteSet(spent[k]) /\ Fresh(k) \in SUBSET spent[k]
  BY FreshIsRecent DEF StoreOK, Finite
<1>3. IsFiniteSet(Fresh(k))
  BY <1>2, FS_Subset
<1>4. Cardinality(Fresh(k)) \in Nat
  BY <1>3, FS_CardinalityType
<1>5. Cardinality(Fresh(k)) < Limit[k] <=> ~ (Cardinality(Fresh(k)) >= Limit[k])
  BY <1>4, Times
<1>6. Abstract!Cardinality(Fresh(k)) = Cardinality(Fresh(k))
  BY DEF Abstract!Cardinality, Cardinality
<1> QED BY <1>1, <1>5, <1>6 DEF Abstract!Room, Full

\* A list that passes is granted, or charged; one that is refused has a key
\* without room.
LEMMA AskedTogether ==
  ASSUME CInv, StoreOK, NEW cs \in CheckLists
  PROVE  /\ KeysIn(cs) \in {KeysIn(c) : c \in CheckLists}
         /\ Passes(cs) => \A k \in KeysIn(cs) : Abstract!Room(k)
         /\ (\E i \in DOMAIN cs : RefusedAt(cs, i)) => \E k \in KeysIn(cs) : ~ Abstract!Room(k)
<1>1. ASSUME Passes(cs) PROVE \A k \in KeysIn(cs) : Abstract!Room(k)
  BY <1>1, KeysAreKeys, RoomIsNotFull DEF Passes
<1>2. ASSUME NEW i \in DOMAIN cs, RefusedAt(cs, i)
      PROVE  \E k \in KeysIn(cs) : ~ Abstract!Room(k)
  <2>1. cs[i] \in Keys /\ cs[i] \in KeysIn(cs) /\ Full(cs[i])
    BY <1>2, KeysAreKeys DEF RefusedAt, KeysIn
  <2> QED BY <2>1, RoomIsNotFull
<1> QED BY <1>1, <1>2

\* The memory store lacks a place only for keys it has not seen lately.
LEMMA NoPlaceLeft ==
  ASSUME CInv, StoreOK, BucketsBounded, mode = "memory",
         NEW cs \in CheckLists, ~ RoomFor(cs)
  PROVE  \E k \in KeysIn(cs) : Abstract!Recent(k) = {}
<1>1. SUFFICES ASSUME \A k \in KeysIn(cs) : Abstract!Recent(k) # {} PROVE FALSE
  OBVIOUS
<1>2. KeysIn(cs) \subseteq Live
  <2> SUFFICES ASSUME NEW k \in KeysIn(cs) PROVE k \in Live
    OBVIOUS
  <2>1. k \in Keys
    BY KeysAreKeys
  <2>2. Fresh(k) # {}
    BY <1>1, <2>1, FreshIsRecent DEF Abstract!Recent
  <2> QED BY <2>1, <2>2 DEF Fresh, Live
<1>3. Live \cup KeysIn(cs) = Live /\ Live \in SUBSET Buckets /\ Buckets \in SUBSET Keys
  BY <1>2 DEF Live, Buckets
<1>4. IsFiniteSet(Buckets) /\ Cardinality(Buckets) <= MaxBuckets
  BY <1>3, FS_Subset, LimiterAssumption DEF BucketsBounded, Buckets
<1>5. IsFiniteSet(Live) /\ Cardinality(Live) <= Cardinality(Buckets)
  BY <1>3, <1>4, FS_Subset
<1>6. Cardinality(Live) \in Nat /\ Cardinality(Buckets) \in Nat /\ MaxBuckets \in Nat
  BY <1>4, <1>5, FS_CardinalityType, LimiterAssumption
<1> QED BY <1>3, <1>4, <1>5, <1>6 DEF RoomFor

LEMMA WindowStep ==
  ASSUME CInv, StoreOK, BucketsBounded, [Next]_vars
  PROVE  [Abstract!Next]_(Abstract!vars)
<1> DEFINE Asks == {KeysIn(c) : c \in CheckLists}
<1> DEFINE Goal == [Abstract!Next]_(Abstract!vars)
<1>0. ASSUME NEW r \in Requests
      PROVE  /\ pc[r] # "done" => answer[r] = "none"
             /\ pc[r] \in {"wait", "ran"} => checks[r] \in CheckLists
             /\ pc[r] = "ran" => verdict[r] # "none"
             /\ stray[r] > 0 => checks[r] \in CheckLists
  <2>1. stray[r] \in Nat /\ attempts[r] \in Nat
    BY LimiterAssumption DEF CInv, TypeOK
  <2>2. stray[r] > 0 => attempts[r] # 0
    BY <2>1 DEF CInv, ClientOK
  <2> QED BY <2>2 DEF CInv, ClientOK
<1>1. ASSUME NEW r \in Requests, NEW ks \in Asks, \A k \in ks : Abstract!Room(k),
             answer[r] = "none", now' = now,
             spent' = [k \in Keys |-> IF k \in ks THEN spent[k] \cup {<<r, now>>}
                                      ELSE spent[k]],
             verdict' = [verdict EXCEPT ![r] = "pass"],
             answer' = answer \/ answer' = [answer EXCEPT ![r] = "pass"]
      PROVE  Goal
  <2>1. Abstract!Grant(r, ks)
    BY <1>1 DEF Abstract!Grant, Abstract!Spend, Abstract!Decide
  <2> QED BY <1>1, <2>1 DEF Abstract!Next
<1>2. ASSUME NEW r \in Requests, NEW cs \in CheckLists,
             \E i \in DOMAIN cs : RefusedAt(cs, i),
             answer[r] = "none", now' = now, spent' = spent,
             verdict' = [verdict EXCEPT ![r] = "limited"],
             answer' = answer \/ answer' = [answer EXCEPT ![r] = "limited"]
      PROVE  Goal
  <2>1. Abstract!Refuse(r, KeysIn(cs)) /\ KeysIn(cs) \in Asks
    BY <1>2, AskedTogether DEF Abstract!Refuse, Abstract!Decide
  <2> QED BY <2>1 DEF Abstract!Next
<1>3. ASSUME NEW r \in Requests, NEW cs \in CheckLists, MemoryPass(r, cs) PROVE Goal
  <2>1. KeysIn(cs) \in Asks /\ \A k \in KeysIn(cs) : Abstract!Room(k)
    BY <1>3, AskedTogether DEF MemoryPass
  <2> QED BY <1>0, <1>1, <1>3, <2>1 DEF MemoryPass, Arrive, Consume
<1>4. ASSUME NEW r \in Requests, NEW cs \in CheckLists, MemoryRefuse(r, cs) PROVE Goal
  BY <1>0, <1>2, <1>4 DEF MemoryRefuse, Arrive, ConsumeNothing
<1>5. ASSUME NEW r \in Requests, NEW cs \in CheckLists, MemoryFull(r, cs) PROVE Goal
  <2>1. \E k \in KeysIn(cs) : Abstract!Recent(k) = {}
    BY <1>5, NoPlaceLeft DEF MemoryFull, Arrive
  <2>2. Abstract!NoPlace(r, KeysIn(cs)) /\ KeysIn(cs) \in Asks
    BY <1>0, <1>5, <2>1 DEF MemoryFull, Arrive, Abstract!NoPlace, Abstract!Decide
  <2> QED BY <2>2 DEF Abstract!Next
<1>6. ASSUME NEW r \in Requests, ScriptPasses(r) PROVE Goal
  <2>1. checks[r] \in CheckLists /\ answer[r] = "none"
    BY <1>0, <1>6 DEF ScriptPasses, Ran
  <2>2. KeysIn(checks[r]) \in Asks /\ \A k \in KeysIn(checks[r]) : Abstract!Room(k)
    BY <1>6, <2>1, AskedTogether DEF ScriptPasses
  <2> QED BY <1>1, <1>6, <2>1, <2>2 DEF ScriptPasses, Ran, Consume
<1>7. ASSUME NEW r \in Requests, ScriptRefuses(r) PROVE Goal
  <2>1. checks[r] \in CheckLists /\ answer[r] = "none"
    BY <1>0, <1>7 DEF ScriptRefuses, Ran
  <2> QED BY <1>2, <1>7, <2>1 DEF ScriptRefuses, Ran, ConsumeNothing
<1>8. ASSUME NEW r \in Requests, StrayPasses(r) PROVE Goal
  <2>1. checks[r] \in CheckLists
    BY <1>0, <1>8 DEF StrayPasses, Stray
  <2>2. KeysIn(checks[r]) \in Asks /\ \A k \in KeysIn(checks[r]) : Abstract!Room(k)
    BY <1>8, <2>1, AskedTogether DEF StrayPasses
  <2>3. Abstract!Charge(r, KeysIn(checks[r]))
    BY <1>8, <2>2 DEF StrayPasses, Stray, Consume, Abstract!Charge, Abstract!Spend
  <2> QED BY <2>2, <2>3 DEF Abstract!Next
<1>9. ASSUME NEW r \in Requests, Reply(r) PROVE Goal
  <2>1. Abstract!Deliver(r)
    BY <1>0, <1>9 DEF Reply, storeVars, Abstract!Deliver
  <2> QED BY <2>1 DEF Abstract!Next
<1>10. ASSUME NEW r \in Requests, Unavailable(r) PROVE Goal
  <2>1. Abstract!GiveUp(r)
    BY <1>0, <1>10 DEF Unavailable, Timeout, storeVars, Abstract!GiveUp
  <2> QED BY <2>1 DEF Abstract!Next
<1>11. ASSUME NEW r \in Requests, Resend(r) \/ StrayRefuses(r) \/ \E cs \in CheckLists : Send(r, cs)
       PROVE  Goal
  BY <1>11 DEF Resend, Timeout, StrayRefuses, Stray, ConsumeNothing, Send, storeVars,
               Abstract!vars
<1>12. ASSUME Tick PROVE Goal
  BY <1>12 DEF Tick, Abstract!Tick, Abstract!Next
<1>13. ASSUME UNCHANGED vars PROVE Goal
  BY <1>13 DEF vars, storeVars, Abstract!vars
<1>14. ASSUME NEW r \in Requests, RedisStep(r) PROVE Goal
  <2> HIDE DEF Goal
  <2> QED BY <1>14, <1>6, <1>7, <1>8, <1>9, <1>10, <1>11 DEF RedisStep
<1> HIDE DEF Goal
<1>15. Goal
  BY <1>3, <1>4, <1>5, <1>12, <1>13, <1>14 DEF Next
<1> QED BY <1>15 DEF Goal

-----------------------------------------------------------------------------
(* Theorems.                                                               *)

IInv == CInv /\ StoreOK /\ WithinLimit /\ BucketsBounded

LEMMA Inductive ==
  /\ Init => IInv
  /\ IInv /\ [Next]_vars => IInv'
<1>1. Init => IInv
  BY ClientInit, StoreInit DEF IInv
<1>2. ASSUME IInv, [Next]_vars PROVE IInv'
  <2>1. CInv' /\ (Consuming \/ Pruning \/ Quiet \/ Tick)
    BY <1>2, StoreSteps DEF IInv, StoreOK
  <2>2. StoreOK'
    BY <1>2, <2>1, StoreStep DEF IInv
  <2>3. WithinLimit'
    BY <1>2, <2>1, LimitStep DEF IInv
  <2>4. BucketsBounded'
    BY <1>2, <2>1, BucketsStep DEF IInv
  <2> QED BY <2>1, <2>2, <2>3, <2>4 DEF IInv
<1> QED BY <1>1, <1>2

LEMMA Invariant == Spec => []IInv
BY Inductive, PTL DEF Spec

\* Every reachable state is of its type.
THEOREM TypeCorrect == Spec => []TypeOK
<1>1. IInv => TypeOK
  BY DEF IInv, CInv
<1> QED BY <1>1, Invariant, PTL

\* Whatever a store drops - old events, idle buckets, expired keys - it has
\* forgotten nothing that a window still counts.
THEOREM ForgetsNothing == Spec => []NothingForgotten
<1>1. ASSUME IInv PROVE NothingForgotten
  <2> SUFFICES ASSUME NEW k \in Keys, NEW e \in spent[k], e[2] + Window[k] > now
               PROVE  e \in events[k] /\ now < until[k]
    BY DEF NothingForgotten
  <2>1. e \in Fresh(k)
    BY <1>1, FreshIsRecent DEF IInv
  <2> QED BY <2>1 DEF Fresh
<1> QED BY <1>1, Invariant, PTL

\* In no stretch of a key's window are more events consumed than its limit,
\* for any rules and any number of requests, lost replies and late scripts.
THEOREM LimitHolds == Spec => []WithinLimit
<1>1. IInv => WithinLimit
  BY DEF IInv
<1> QED BY <1>1, Invariant, PTL

\* The memory store never has more buckets than it may.
THEOREM BucketsHold == Spec => []BucketsBounded
<1>1. IInv => BucketsBounded
  BY DEF IInv
<1> QED BY <1>1, Invariant, PTL

\* Both stores implement the abstract sliding window.
THEOREM Refinement == Spec => ImplementsWindow
<1>1. Init => Abstract!Init
  BY DEF Init, Abstract!Init
<1>2. IInv /\ [Next]_vars => [Abstract!Next]_(Abstract!vars)
  BY WindowStep DEF IInv
<1> QED BY <1>1, <1>2, Invariant, PTL DEF Spec, ImplementsWindow, Abstract!Spec

-----------------------------------------------------------------------------
(* Paying under all keys or none.                                          *)

\* Where a request stands with its payments.
PaidOK ==
  \A r \in Requests :
    /\ \A k \in Keys \ KeysIn(checks[r]) : Charged(r, k) = {}
    /\ \A k, l \in KeysIn(checks[r]) : Charged(r, k) = Charged(r, l)
    /\ answer[r] = "pass" \/ (pc[r] = "ran" /\ verdict[r] = "pass") =>
         \A k \in KeysIn(checks[r]) : Charged(r, k) # {}
    /\ /\ attempts[r] <= 1
       /\ \/ pc[r] = "wait" \/ answer[r] \in {"limited", "capacity"}
          \/ pc[r] = "ran" /\ verdict[r] = "limited"
       => stray[r] = 0 /\ \A k \in Keys : Charged(r, k) = {}

LEMMA ChargedMore ==
  ASSUME NEW r \in Requests, NEW cs \in CheckLists, Consume(r, cs),
         NEW q \in Requests, NEW k \in Keys
  PROVE  Charged(q, k)' = IF q = r /\ k \in KeysIn(cs) THEN Charged(q, k) \cup {now}
                                                       ELSE Charged(q, k)
<1>1. spent'[k] = IF k \in KeysIn(cs) THEN spent[k] \cup {<<r, now>>} ELSE spent[k]
  BY DEF Consume
<1>2. <<r, now>>[1] = r /\ <<r, now>>[2] = now
  OBVIOUS
<1>3. CASE q = r /\ k \in KeysIn(cs)
  <2>1. \A x : x \in Charged(q, k)' <=> x \in Charged(q, k) \cup {now}
    BY <1>1, <1>2, <1>3 DEF Charged
  <2> QED BY <1>3, <2>1
<1>4. CASE ~ (q = r /\ k \in KeysIn(cs))
  <2>1. \A x : x \in Charged(q, k)' <=> x \in Charged(q, k)
    BY <1>1, <1>2, <1>4 DEF Charged
  <2> QED BY <1>4, <2>1
<1> QED BY <1>3, <1>4

LEMMA ChargedSame ==
  ASSUME spent' = spent, NEW q \in Requests, NEW k \in Keys
  PROVE  Charged(q, k)' = Charged(q, k)
BY DEF Charged

LEMMA PaidInit == Init => PaidOK
<1> SUFFICES ASSUME Init PROVE PaidOK
  OBVIOUS
<1>1. \A r \in Requests : /\ KeysIn(checks[r]) = {} /\ stray[r] = 0
                          /\ pc[r] = "new" /\ answer[r] = "none"
  BY KeysInNone DEF Init
<1>2. \A r \in Requests, k \in Keys : Charged(r, k) = {}
  BY DEF Init, Charged
<1> QED BY <1>1, <1>2 DEF PaidOK

LEMMA PaidStep ==
  ASSUME CInv, PaidOK, [Next]_vars
  PROVE  PaidOK'
<1> DEFINE Paid(q) ==
      /\ \A k \in Keys \ KeysIn(checks[q]) : Charged(q, k) = {}
      /\ \A k, l \in KeysIn(checks[q]) : Charged(q, k) = Charged(q, l)
      /\ answer[q] = "pass" \/ (pc[q] = "ran" /\ verdict[q] = "pass") =>
           \A k \in KeysIn(checks[q]) : Charged(q, k) # {}
      /\ /\ attempts[q] <= 1
         /\ \/ pc[q] = "wait" \/ answer[q] \in {"limited", "capacity"}
            \/ pc[q] = "ran" /\ verdict[q] = "limited"
         => stray[q] = 0 /\ \A k \in Keys : Charged(q, k) = {}
<1> DEFINE Same(q) ==
      /\ checks'[q] = checks[q] /\ answer'[q] = answer[q] /\ pc'[q] = pc[q]
      /\ verdict'[q] = verdict[q] /\ attempts'[q] = attempts[q] /\ stray'[q] = stray[q]
<1>0. \A q \in Requests : Paid(q)
  BY DEF PaidOK
<1>1. SUFFICES ASSUME NEW q \in Requests PROVE Paid(q)'
  BY DEF PaidOK
<1>2. /\ attempts[q] \in Nat /\ stray[q] \in Nat
      /\ stray[q] + (IF pc[q] \in {"wait", "ran"} THEN 1 ELSE 0) <= attempts[q]
      /\ pc[q] = "new" => checks[q] = <<>> /\ attempts[q] = 0
      /\ pc[q] # "done" => answer[q] = "none"
      /\ mode = "memory" => attempts[q] = 0
      /\ KeysIn(checks[q]) \subseteq Keys
  <2>1. checks[q] = <<>> \/ checks[q] \in CheckLists
    BY DEF CInv, ClientOK
  <2>2. KeysIn(checks[q]) \subseteq Keys
    BY <2>1, KeysInNone, KeysAreKeys
  <2> QED BY <2>2, LimiterAssumption DEF CInv, TypeOK, ClientOK
\* The request itself has not moved, and did not pay.
<1>3. ASSUME Same(q), \A k \in Keys : Charged(q, k)' = Charged(q, k)
      PROVE  Paid(q)'
  <2>1. KeysIn(checks[q])' = KeysIn(checks[q])
    BY <1>3 DEF KeysIn
  <2> QED BY <1>0, <1>2, <1>3, <2>1
<1>4. ASSUME NEW r \in Requests, NEW cs \in CheckLists, Arrive(r, cs, "pass"), Consume(r, cs)
      PROVE  Paid(q)'
  <2>1. CASE q # r
    <3>1. Same(q)
      BY <1>4, <2>1 DEF Arrive, CInv, TypeOK
    <3> QED BY <1>3, <1>4, <2>1, <3>1, ChargedMore
  <2>2. CASE q = r
    <3>1. checks'[q] = cs /\ answer'[q] = "pass" /\ pc'[q] = "done"
      BY <1>4, <2>2 DEF Arrive, CInv, TypeOK
    <3>2. KeysIn(checks[q])' = KeysIn(cs) /\ KeysIn(cs) \subseteq Keys
      BY <3>1, KeysAreKeys DEF KeysIn
    <3>3. \A k \in Keys : Charged(q, k) = {}
      BY <1>0, <1>2, <1>4, <2>2, KeysInNone DEF Arrive
    <3>4. \A k \in Keys : Charged(q, k)' = IF k \in KeysIn(cs) THEN {now} ELSE {}
      BY <1>4, <2>2, <3>3, ChargedMore
    <3> QED BY <3>1, <3>2, <3>4
  <2> QED BY <2>1, <2>2
<1>5. ASSUME NEW r \in Requests, NEW cs \in CheckLists,
             Arrive(r, cs, "limited") \/ Arrive(r, cs, "capacity"), spent' = spent
      PROVE  Paid(q)'
  <2>0. \A k \in Keys : Charged(q, k)' = Charged(q, k)
    BY <1>5, ChargedSame
  <2>1. CASE q # r
    <3>1. Same(q)
      BY <1>5, <2>1 DEF Arrive, CInv, TypeOK
    <3> QED BY <1>3, <2>0, <3>1
  <2>2. CASE q = r
    <3>1. /\ checks'[q] = cs /\ answer'[q] # "pass" /\ pc'[q] = "done"
          /\ stray'[q] = stray[q] /\ stray[q] = 0
      BY <1>2, <1>5, <2>2 DEF Arrive, CInv, TypeOK
    <3>2. KeysIn(checks[q])' = KeysIn(cs) /\ KeysIn(cs) \subseteq Keys
      BY <3>1, KeysAreKeys DEF KeysIn
    <3>3. \A k \in Keys : Charged(q, k) = {}
      BY <1>0, <1>2, <1>5, <2>2, KeysInNone DEF Arrive
    <3> QED BY <2>0, <3>1, <3>2, <3>3
  <2> QED BY <2>1, <2>2
<1>6. ASSUME NEW r \in Requests, Consume(r, checks[r]), checks[r] \in CheckLists,
             Ran(r, "pass") \/ Stray(r)
      PROVE  Paid(q)'
  <2>1. CASE q # r
    <3>1. Same(q)
      BY <1>6, <2>1 DEF Ran, Stray, clientVars, CInv, TypeOK
    <3> QED BY <1>3, <1>6, <2>1, <3>1, ChargedMore
  <2>2. CASE q = r
    <3>1. KeysIn(checks[q])' = KeysIn(checks[q])
      BY <1>6 DEF Ran, Stray, clientVars, KeysIn
    <3>2. \A k \in Keys : Charged(q, k)' = IF k \in KeysIn(checks[q])
                                           THEN Charged(q, k) \cup {now} ELSE Charged(q, k)
      BY <1>6, <2>2, ChargedMore
    <3>3. CASE Ran(r, "pass")
      <4>1. pc'[q] = "ran" /\ verdict'[q] = "pass" /\ answer'[q] = "none"
        BY <1>2, <2>2, <3>3 DEF Ran, CInv, TypeOK
      <4> QED BY <1>0, <1>2, <3>1, <3>2, <4>1
    <3>4. CASE Stray(r)
      <4>1. /\ pc'[q] = pc[q] /\ verdict'[q] = verdict[q] /\ answer'[q] = answer[q]
            /\ attempts'[q] = attempts[q] /\ stray[q] > 0
        BY <2>2, <3>4 DEF Stray, CInv, TypeOK
      <4>2. /\ \A k \in Keys \ KeysIn(checks[q]) : Charged(q, k)' = {}
            /\ \A k, l \in KeysIn(checks[q]) : Charged(q, k)' = Charged(q, l)'
            /\ \A k \in KeysIn(checks[q]) : Charged(q, k)' # {}
        BY <1>0, <1>2, <3>2
      <4>3. ~ /\ attempts'[q] <= 1
              /\ \/ pc'[q] = "wait" \/ answer'[q] \in {"limited", "capacity"}
                 \/ pc'[q] = "ran" /\ verdict'[q] = "limited"
        BY <1>0, <1>2, <4>1
      <4> QED BY <3>1, <4>2, <4>3
    <3> QED BY <1>6, <3>3, <3>4
  <2> QED BY <2>1, <2>2
<1>7. ASSUME NEW r \in Requests, spent' = spent,
             \/ Ran(r, "limited") \/ Stray(r) \/ Reply(r) \/ Resend(r) \/ Unavailable(r)
      PROVE  Paid(q)'
  <2>0. \A k \in Keys : Charged(q, k)' = Charged(q, k)
    BY <1>7, ChargedSame
  <2>1. CASE q # r
    <3>1. Same(q)
      BY <1>7, <2>1 DEF Ran, Stray, Reply, Resend, Unavailable, Timeout, clientVars, storeVars,
                        CInv, TypeOK
    <3> QED BY <1>3, <2>0, <3>1
  <2>2. CASE q = r
    <3>1. KeysIn(checks[q])' = KeysIn(checks[q])
      BY <1>7 DEF Ran, Stray, Reply, Resend, Unavailable, Timeout, clientVars, KeysIn
    <3>2. CASE Ran(r, "limited")
      <4>1. /\ pc[q] = "wait" /\ pc'[q] = "ran" /\ verdict'[q] = "limited"
            /\ answer'[q] = "none" /\ stray'[q] = stray[q] /\ attempts'[q] = attempts[q]
        BY <1>2, <2>2, <3>2 DEF Ran, clientVars, CInv, TypeOK
      <4> QED BY <1>0, <1>2, <2>0, <3>1, <4>1
    <3>3. CASE Stray(r)
      <4>1. /\ pc'[q] = pc[q] /\ verdict'[q] = verdict[q] /\ answer'[q] = answer[q]
            /\ attempts'[q] = attempts[q] /\ stray[q] > 0
        BY <2>2, <3>3 DEF Stray, CInv, TypeOK
      <4> QED BY <1>0, <1>2, <2>0, <3>1, <4>1
    <3>4. CASE Reply(r)
      <4>1. /\ pc[q] = "ran" /\ pc'[q] = "done" /\ answer'[q] = verdict[q]
            /\ stray'[q] = stray[q] /\ attempts'[q] = attempts[q]
            /\ verdict[q] \in {"pass", "limited"}
        BY <2>2, <3>4 DEF Reply, clientVars, CInv, TypeOK, ClientOK
      <4> QED BY <1>0, <1>2, <2>0, <3>1, <4>1
    <3>5. CASE Resend(r)
      <4>1. /\ pc'[q] = "wait" /\ answer'[q] = answer[q] /\ attempts'[q] = attempts[q] + 1
            /\ pc[q] \in {"wait", "ran"}
        BY <2>2, <3>5 DEF Resend, Timeout, CInv, TypeOK
      <4>2. attempts'[q] > 1 /\ answer'[q] = "none"
        BY <1>2, <4>1
      <4> QED BY <1>0, <1>2, <2>0, <3>1, <4>1, <4>2
    <3>6. CASE Unavailable(r)
      <4>1. pc'[q] = "done" /\ answer'[q] = "unavailable"
        BY <2>2, <3>6 DEF Unavailable, Timeout, CInv, TypeOK
      <4> QED BY <1>0, <1>2, <2>0, <3>1, <4>1
    <3> QED BY <1>7, <3>2, <3>3, <3>4, <3>5, <3>6
  <2> QED BY <2>1, <2>2
<1>8. ASSUME NEW r \in Requests, NEW cs \in CheckLists, Send(r, cs)
      PROVE  Paid(q)'
  <2>0. \A k \in Keys : Charged(q, k)' = Charged(q, k)
    BY <1>8, ChargedSame DEF Send, storeVars
  <2>1. CASE q # r
    <3>1. Same(q)
      BY <1>8, <2>1 DEF Send, CInv, TypeOK
    <3> QED BY <1>3, <2>0, <3>1
  <2>2. CASE q = r
    <3>1. /\ checks'[q] = cs /\ answer'[q] = "none" /\ pc'[q] = "wait"
          /\ stray'[q] = 0
      BY <1>2, <1>8, <2>2 DEF Send, CInv, TypeOK
    <3>2. KeysIn(checks[q])' = KeysIn(cs) /\ KeysIn(cs) \subseteq Keys
      BY <3>1, KeysAreKeys DEF KeysIn
    <3>3. \A k \in Keys : Charged(q, k) = {}
      BY <1>0, <1>2, <1>8, <2>2, KeysInNone DEF Send
    <3> QED BY <2>0, <3>1, <3>2, <3>3
  <2> QED BY <2>1, <2>2
<1>9. ASSUME Tick \/ UNCHANGED vars PROVE Paid(q)'
  <2>1. Same(q) /\ spent' = spent
    BY <1>9 DEF Tick, clientVars, vars, storeVars
  <2> QED BY <1>3, <2>1, ChargedSame
<1> HIDE DEF Paid
<1>10. ASSUME NEW r \in Requests, RedisStep(r) PROVE Paid(q)'
  <2>1. CASE ScriptPasses(r) \/ StrayPasses(r)
    <3>1. stray[r] \in Nat /\ attempts[r] \in Nat
      BY LimiterAssumption DEF CInv, TypeOK
    <3>2. stray[r] > 0 => attempts[r] # 0
      BY <3>1 DEF CInv, ClientOK
    <3>3. checks[r] \in CheckLists
      BY <2>1, <3>2 DEF CInv, ClientOK, ScriptPasses, Ran, StrayPasses, Stray
    <3> QED BY <1>6, <2>1, <3>3 DEF ScriptPasses, StrayPasses
  <2>2. CASE ScriptRefuses(r) \/ StrayRefuses(r)
    BY <1>7, <2>2 DEF ScriptRefuses, StrayRefuses, ConsumeNothing
  <2>3. CASE Reply(r) \/ Resend(r) \/ Unavailable(r)
    <3>1. spent' = spent
      BY <2>3 DEF Reply, Resend, Unavailable, Timeout, storeVars
    <3> QED BY <1>7, <2>3, <3>1
  <2> QED BY <1>8, <1>10, <2>1, <2>2, <2>3 DEF RedisStep
<1>11. ASSUME NEW r \in Requests, NEW cs \in CheckLists,
              MemoryPass(r, cs) \/ MemoryRefuse(r, cs) \/ MemoryFull(r, cs)
       PROVE  Paid(q)'
  BY <1>4, <1>5, <1>11 DEF MemoryPass, MemoryRefuse, MemoryFull, ConsumeNothing
<1> QED BY <1>9, <1>10, <1>11 DEF Next

\* A request has consumed under all of its keys or under none, in any order of
\* lost replies, repeated commands and late scripts.
THEOREM PaidTogether == Spec => []AllOrNothing
<1>1. Init => PaidOK
  BY PaidInit
<1>2. IInv /\ PaidOK /\ [Next]_vars => PaidOK'
  BY PaidStep DEF IInv
<1>3. IInv /\ PaidOK => AllOrNothing
  BY DEF PaidOK, AllOrNothing
<1> QED BY <1>1, <1>2, <1>3, Invariant, PTL DEF Spec

-----------------------------------------------------------------------------
(* Retry-After.                                                            *)

\* The events of a key that were consumed by n.asked and count after t.
LeftOver(n, t) == {e \in spent[n.key] : e[2] <= n.asked /\ e[2] + Window[n.key] > t}

Exact(n) ==
  /\ n.key \in Keys /\ n.asked \in Nat /\ n.retry \in Nat
  /\ n.asked <= now /\ n.asked < n.retry
  /\ Cardinality(LeftOver(n, n.retry)) < Limit[n.key]
  /\ \A t \in n.asked..(n.retry - 1) : Cardinality(LeftOver(n, t)) >= Limit[n.key]

ToldOK == \A r \in Requests : \A n \in told[r] : Exact(n)

\* A notice that is exact when it is given.
LEMMA NoticeExact ==
  ASSUME IInv, NEW k \in Keys, Full(k)
  PROVE  Exact([key |-> k, asked |-> now, retry |-> RetryAt(k)])
<1> DEFINE n == [key |-> k, asked |-> now, retry |-> RetryAt(k)]
<1> USE DEF IInv
<1>1. /\ RetryAt(k) \in Nat
      /\ \E e \in Fresh(k) : RetryAt(k) = e[2] + Window[k]
      /\ \A e \in Fresh(k) : RetryAt(k) <= e[2] + Window[k]
  BY FullNotEmpty, RetryKnown DEF CInv, StoreOK
<1>2. PICK first \in Fresh(k) : RetryAt(k) = first[2] + Window[k]
  BY <1>1
<1>3. /\ now \in Nat /\ Window[k] \in Nat /\ Limit[k] \in Nat
      /\ Fresh(k) = {e \in spent[k] : e[2] + Window[k] > now}
      /\ \A e \in spent[k] : e[2] \in Nat /\ e[2] <= now
  BY Times, FreshIsRecent DEF StoreOK, Remembered
<1>4. now < RetryAt(k)
  BY <1>2, <1>3
<1>5. IsFiniteSet(Fresh(k)) /\ Cardinality(Fresh(k)) \in Nat
  BY <1>3, FS_Subset, FS_CardinalityType DEF StoreOK, Finite
<1>6. Cardinality(Fresh(k)) <= Limit[k]
  <2>1. Fresh(k) = {e \in spent[k] : e[2] <= now /\ now < e[2] + Window[k]}
    BY <1>3
  <2>2. now \in 0..now
    BY <1>3
  <2> QED BY <2>1, <2>2 DEF WithinLimit
<1>7. Cardinality(LeftOver(n, RetryAt(k))) < Limit[k]
  <2>1. LeftOver(n, RetryAt(k)) \in SUBSET (Fresh(k) \ {first})
    BY <1>2, <1>3, <1>4 DEF LeftOver
  <2> DEFINE F == Fresh(k)
  <2>2. IsFiniteSet(F) /\ first \in F /\ Cardinality(F) \in Nat /\ Cardinality(F) <= Limit[k]
    BY <1>2, <1>5, <1>6
  <2> HIDE DEF F
  <2>3. IsFiniteSet(F \ {first}) /\ Cardinality(F \ {first}) = Cardinality(F) - 1
    BY <2>2, FS_RemoveElement
  <2> DEFINE L == LeftOver(n, RetryAt(k))
  <2>4. L \in SUBSET (F \ {first})
    BY <2>1 DEF F
  <2> HIDE DEF L, n
  <2>5. Cardinality(L) <= Cardinality(F \ {first}) /\ Cardinality(L) \in Nat
    BY <2>3, <2>4, FS_Subset, FS_CardinalityType
  <2> QED BY <1>3, <2>2, <2>3, <2>5 DEF L
<1>8. ASSUME NEW t \in now..(RetryAt(k) - 1)
      PROVE  Cardinality(LeftOver(n, t)) >= Limit[k]
  <2>1. LeftOver(n, t) = Fresh(k)
    <3>1. \A e \in Fresh(k) : e \in LeftOver(n, t)
      BY <1>1, <1>3 DEF LeftOver
    <3>2. \A e \in LeftOver(n, t) : e \in Fresh(k)
      BY <1>1, <1>3 DEF LeftOver
    <3> QED BY <3>1, <3>2
  <2> QED BY <2>1 DEF Full
<1> QED BY <1>1, <1>3, <1>4, <1>7, <1>8 DEF Exact

\* What comes later does not touch it: the key is full until n.retry, so no
\* event is added at the time of the refusal itself.
LEMMA ExactStays ==
  ASSUME IInv, NEW n \in Notice, Exact(n), Consuming \/ Pruning \/ Quiet \/ Tick
  PROVE  Exact(n)'
<1>1. now \in Nat /\ now' \in Nat /\ now <= now'
  <2>1. now \in Nat
    BY ClockTyped DEF IInv, CInv
  <2> QED BY <2>1 DEF Consuming, Pruning, Quiet, Tick, storeVars
<1>2. ASSUME NEW t \in Nat PROVE LeftOver(n, t)' = LeftOver(n, t)
  <2>1. CASE Consuming
    <3> PICK r \in Requests, cs \in CheckLists : Passes(cs) /\ Consume(r, cs) /\ now' = now
      BY <2>1 DEF Consuming
    <3>1. CASE n.key \in KeysIn(cs)
      <4>1. spent'[n.key] = spent[n.key] \cup {<<r, now>>}
        BY <3>1 DEF Consume, Exact
      <4>2. now # n.asked
        <5>1. SUFFICES ASSUME now = n.asked PROVE FALSE
          OBVIOUS
        <5>2. Fresh(n.key) = LeftOver(n, n.asked)
          <6>1. Fresh(n.key) = {e \in spent[n.key] : e[2] + Window[n.key] > now}
            BY FreshIsRecent DEF IInv, Exact
          <6>2. \A e \in spent[n.key] : e[2] <= now
            BY DEF IInv, StoreOK, Remembered, Exact
          <6> QED BY <5>1, <6>1, <6>2 DEF LeftOver
        <5>3. n.asked \in n.asked..(n.retry - 1)
          BY DEF Exact
        <5>4. Full(n.key)
          BY <5>2, <5>3 DEF Exact, Full
        <5> QED BY <3>1, <5>4 DEF Passes
      <4>3. n.asked \in Nat /\ ~ (now <= n.asked)
        BY <1>1, <4>2 DEF Exact
      <4>4. \A e : e \in LeftOver(n, t)' <=> e \in LeftOver(n, t)
        BY <4>1, <4>3 DEF LeftOver
      <4> QED BY <4>4
    <3>2. CASE n.key \notin KeysIn(cs)
      BY <3>2 DEF Consume, Exact, LeftOver
    <3> QED BY <3>1, <3>2
  <2>2. CASE Pruning \/ Quiet \/ Tick
    BY <2>2 DEF Pruning, Quiet, Tick, storeVars, LeftOver
  <2> QED BY <2>1, <2>2
<1>3. n.asked..(n.retry - 1) \subseteq Nat /\ n.retry \in Nat
  BY DEF Exact
<1>4. /\ Cardinality(LeftOver(n, n.retry))' < Limit[n.key]
      /\ \A t \in n.asked..(n.retry - 1) : Cardinality(LeftOver(n, t)') >= Limit[n.key]
  BY <1>2, <1>3 DEF Exact
<1> QED BY <1>1, <1>4 DEF Exact

LEMMA ToldStep ==
  ASSUME IInv, ToldOK, [Next]_vars
  PROVE  ToldOK'
<1>0. Consuming \/ Pruning \/ Quiet \/ Tick
  BY StoreSteps DEF IInv, StoreOK
<1>1. \A r \in Requests : \A n \in told[r] : Exact(n)'
  <2>1. \A r \in Requests : told[r] \subseteq Notice
    BY DEF IInv, CInv, TypeOK
  <2> QED BY <1>0, <2>1, ExactStays DEF ToldOK
<1>2. CASE told' = told
  BY <1>1, <1>2 DEF ToldOK
<1>3. ASSUME NEW r \in Requests, NEW k \in Keys, Full(k), Notify(r, k), spent' = spent, now' = now
      PROVE  ToldOK'
  <2> DEFINE n == [key |-> k, asked |-> now, retry |-> RetryAt(k)]
  <2>1. Exact(n) /\ n \in Notice
    <3>1. Exact(n)
      BY <1>3, NoticeExact
    <3> QED BY <3>1 DEF Exact, Notice
  <2>3. \A q \in Requests : told'[q] = IF q = r THEN {n} ELSE told[q]
    BY <1>3 DEF Notify, IInv, CInv, TypeOK
  <2>5. ASSUME NEW q \in Requests, NEW m \in told'[q] PROVE Exact(m)'
    <3> HIDE DEF n
    <3>1. m = n \/ m \in told[q]
      BY <2>3, <2>5
    <3>2. CASE m \in told[q]
      BY <1>1, <3>2
    <3>3. CASE m = n
      <4>1. Exact(m) /\ m \in Notice
        BY <2>1, <3>3
      <4> QED BY <1>0, <4>1, ExactStays
    <3> QED BY <3>1, <3>2, <3>3
  <2> QED BY <2>5 DEF ToldOK
<1>4. \/ told' = told
      \/ \E r \in Requests, k \in Keys :
           Full(k) /\ Notify(r, k) /\ spent' = spent /\ now' = now
  <2>1. ASSUME NEW r \in Requests, NEW cs \in CheckLists, NEW i \in DOMAIN cs,
               RefusedAt(cs, i), ConsumeNothing(r, cs, i), Notify(r, cs[i]), now' = now
        PROVE  \E q \in Requests, k \in Keys :
                 Full(k) /\ Notify(q, k) /\ spent' = spent /\ now' = now
    <3>1. cs[i] \in Keys /\ Full(cs[i]) /\ spent' = spent
      BY <2>1, KeysAreKeys DEF RefusedAt, ConsumeNothing
    <3> QED BY <2>1, <3>1
  <2>2. ASSUME NEW r \in Requests, NEW cs \in CheckLists, MemoryRefuse(r, cs)
        PROVE  \E q \in Requests, k \in Keys :
                 Full(k) /\ Notify(q, k) /\ spent' = spent /\ now' = now
    BY <2>1, <2>2 DEF MemoryRefuse, Arrive
  <2>3. ASSUME NEW r \in Requests, ScriptRefuses(r)
        PROVE  \E q \in Requests, k \in Keys :
                 Full(k) /\ Notify(q, k) /\ spent' = spent /\ now' = now
    <3>1. checks[r] \in CheckLists
      BY <2>3 DEF ScriptRefuses, Ran, IInv, CInv, ClientOK
    <3> QED BY <2>1, <2>3, <3>1 DEF ScriptRefuses, Ran
  <2>4. ASSUME NEW r \in Requests, NEW cs \in CheckLists, MemoryPass(r, cs) \/ MemoryFull(r, cs)
        PROVE  told' = told
    BY <2>4 DEF MemoryPass, MemoryFull
  <2>5. ASSUME NEW r \in Requests,
               \/ \E cs \in CheckLists : Send(r, cs)
               \/ ScriptPasses(r) \/ Reply(r) \/ Resend(r)
               \/ Unavailable(r) \/ StrayPasses(r) \/ StrayRefuses(r)
        PROVE  told' = told
    BY <2>5 DEF Send, ScriptPasses, Reply, Resend, Unavailable, Timeout, StrayPasses,
                StrayRefuses, Stray
  <2>6. ASSUME Tick \/ UNCHANGED vars PROVE told' = told
    BY <2>6 DEF Tick, vars
  <2> QED BY <2>2, <2>3, <2>4, <2>5, <2>6 DEF Next, RedisStep
<1> QED BY <1>2, <1>3, <1>4

\* Retry-After is exact for the key that refused, whatever else comes or is
\* dropped: unless others come first there is room at that time, and none before.
THEOREM RetryIsExact == Spec => []RetryAfterExact
<1>1. Init => ToldOK
  BY DEF Init, ToldOK
<1>2. IInv /\ ToldOK /\ [Next]_vars => ToldOK'
  BY ToldStep
<1>3. ToldOK => RetryAfterExact
  BY DEF ToldOK, Exact, LeftOver, RetryAfterExact
<1> QED BY <1>1, <1>2, <1>3, Invariant, PTL DEF Spec
=============================================================================
