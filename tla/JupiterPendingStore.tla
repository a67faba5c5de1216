------------------------ MODULE JupiterPendingStore ------------------------
(***************************************************************************)
(* The Redis store that the replicas of the swap service share             *)
(* (application/jupiter_pending_store.py).  Every Lua script runs          *)
(* atomically in Redis and is one action here; the caller passes its own   *)
(* reading t of its clock, as the scripts take ARGV[1], while Redis        *)
(* expires keys by its own clock, `now'.                                   *)
(*                                                                         *)
(* A sorted set is a function from member to score in which 0 stands for a *)
(* member that is not there: every score the code adds is later than the   *)
(* clock, hence positive.                                                  *)
(***************************************************************************)
EXTENDS Naturals, FiniteSets

CONSTANTS
  Wallets, Tokens,      \* wallet and token addresses
  ReservationIds,       \* uuid4 names of reservations
  RequestIds,           \* requestId of a Jupiter order
  Digests,              \* sha256 of a wallet-signed transaction
  Executors,            \* an execution's owner token: one execution at a time
  None,                 \* an absent key, or no digest yet
  AdmissionLimit,       \* PENDING_ADMISSION_LIMIT
  WalletLimit,          \* MAX_PENDING_ORDERS_PER_WALLET
  WalletTokenLimit,     \* MAX_PENDING_ORDERS_PER_WALLET_TOKEN
  MaxPending,           \* MAX_PENDING_ORDERS
  ReservationTtl,       \* RESERVATION_TTL_SECONDS
  LockTtl               \* EXECUTION_LOCK_TTL_MS

ASSUME LimitsAssumption ==
  /\ AdmissionLimit \in Nat \ {0} /\ WalletLimit \in Nat \ {0}
  /\ WalletTokenLimit \in Nat \ {0} /\ MaxPending \in Nat \ {0}
  /\ ReservationTtl \in Nat \ {0} /\ LockTtl \in Nat \ {0}

VARIABLES
  now,          \* the clock of Redis
  index,        \* the sorted sets, by key
  reservation,  \* reservation:<id>
  pending,      \* pending:<request id>
  lock          \* execute:<request id>

storeVars == <<index, reservation, pending, lock>>

-----------------------------------------------------------------------------
(* Keys and members.                                                       *)

Active         == <<"active">>
PendingIndex   == <<"pending_index">>
WalletKey(w)   == <<"wallet", w>>
PairKey(w, tk) == <<"wallet_token", w, tk>>

IndexKeys == {Active, PendingIndex} \cup {WalletKey(w) : w \in Wallets}
               \cup {PairKey(p[1], p[2]) : p \in Wallets \X Tokens}

\* The three sets that admission counts, and those an order is in.
AdmissionKeys(w, tk) == {Active, WalletKey(w), PairKey(w, tk)}
OrderKeys(w, tk)     == AdmissionKeys(w, tk) \cup {PendingIndex}

ReservationMember(x) == <<"r", x>>
OrderMember(r)       == <<"o", r>>
Members == {ReservationMember(x) : x \in ReservationIds}
             \cup {OrderMember(r) : r \in RequestIds}

\* `expires' is by the clock of the caller, `ttlEnd' by that of Redis.
ReservationRecord == [wallet : Wallets, token : Tokens, expires : Nat, ttlEnd : Nat]
PendingRecord == [wallet : Wallets, token : Tokens, expires : Nat,
                  digest : Digests \cup {None}, ttlEnd : Nat]
LockRecord == [owner : Executors, ttlEnd : Nat]

ASSUME NoneAssumption ==
  /\ None \notin Digests
  /\ None \notin ReservationRecord \cup PendingRecord \cup LockRecord

StoreTypeOK ==
  /\ now \in Nat
  /\ index \in [IndexKeys -> [Members -> Nat]]
  /\ reservation \in [ReservationIds -> ReservationRecord \cup {None}]
  /\ pending \in [RequestIds -> PendingRecord \cup {None}]
  /\ lock \in [RequestIds -> LockRecord \cup {None}]

StoreInit ==
  /\ now = 0
  /\ index = [k \in IndexKeys |-> [m \in Members |-> 0]]
  /\ reservation = [x \in ReservationIds |-> None]
  /\ pending = [r \in RequestIds |-> None]
  /\ lock = [r \in RequestIds |-> None]

-----------------------------------------------------------------------------
(* The sorted-set commands, applied to the sets of `keys' at once.         *)

ZCard(ix, k) == Cardinality({m \in Members : ix[k][m] > 0})

ZRemRangeByScore(ix, keys, t) ==
  [k \in IndexKeys |-> [m \in Members |->
     IF k \in keys /\ ix[k][m] <= t THEN 0 ELSE ix[k][m]]]

ZSet(ix, keys, member, score) ==
  [k \in IndexKeys |-> [m \in Members |->
     IF k \in keys /\ m = member THEN score ELSE ix[k][m]]]

ZAdd(ix, keys, member, score) == ZSet(ix, keys, member, score)
ZRem(ix, keys, member)        == ZSet(ix, keys, member, 0)

-----------------------------------------------------------------------------
(* RedisJupiterPendingStore.reserve: the verdict of _RESERVE_LUA on the     *)
(* pruned sets, and what the script leaves behind for it.                  *)

\* Mutant: the pair's limit compared with > instead of >=.
ReserveVerdictAdmitsOneMore(ix, w, tk) ==
  CASE ZCard(ix, Active) >= AdmissionLimit          -> "GLOBAL_LIMIT"
    [] ZCard(ix, WalletKey(w)) >= WalletLimit       -> "WALLET_LIMIT"
    [] ZCard(ix, PairKey(w, tk)) > WalletTokenLimit -> "WALLET_TOKEN_LIMIT"
    [] OTHER                                        -> "OK"

ReserveVerdict(ix, w, tk) ==
  CASE ZCard(ix, Active) >= AdmissionLimit             -> "GLOBAL_LIMIT"
    [] ZCard(ix, Active) < AdmissionLimit
       /\ ZCard(ix, WalletKey(w)) >= WalletLimit       -> "WALLET_LIMIT"
    [] ZCard(ix, Active) < AdmissionLimit
       /\ ZCard(ix, WalletKey(w)) < WalletLimit
       /\ ZCard(ix, PairKey(w, tk)) >= WalletTokenLimit -> "WALLET_TOKEN_LIMIT"
    [] OTHER                                           -> "OK"

\* Mutant: the reading is rounded up before the sets are pruned by it.
PrunedForReserveEarly(t, w, tk) == ZRemRangeByScore(index, AdmissionKeys(w, tk), t + 1)

PrunedForReserve(t, w, tk) == ZRemRangeByScore(index, AdmissionKeys(w, tk), t)

ReserveOK(t, x, w, tk) ==
  LET pruned == PrunedForReserve(t, w, tk) IN
  /\ ReserveVerdict(pruned, w, tk) = "OK"
  /\ index' = ZAdd(pruned, AdmissionKeys(w, tk), ReservationMember(x),
                   t + ReservationTtl)
  /\ reservation' = [reservation EXCEPT ![x] =
       [wallet |-> w, token |-> tk, expires |-> t + ReservationTtl,
        ttlEnd |-> now + ReservationTtl]]
  /\ UNCHANGED <<pending, lock>>

ReserveRefused(t, w, tk) ==
  LET pruned == PrunedForReserve(t, w, tk) IN
  /\ ReserveVerdict(pruned, w, tk) # "OK"
  /\ index' = pruned
  /\ UNCHANGED <<reservation, pending, lock>>

(* RedisJupiterPendingStore.release_reservation is a GET and then           *)
(* _RELEASE_RESERVATION_LUA with the wallet and token the GET returned.     *)
ReleaseReservation(x, w, tk) ==
  /\ index' = ZRem(index, AdmissionKeys(w, tk), ReservationMember(x))
  /\ reservation' = [reservation EXCEPT ![x] = None]
  /\ UNCHANGED <<pending, lock>>

-----------------------------------------------------------------------------
(* RedisJupiterPendingStore.commit.  The reservation key decides whether   *)
(* the slot is still held; its member in the sorted sets is not looked at. *)

HeldFor(x, w, tk) ==
  reservation[x] # None /\ reservation[x].wallet = w /\ reservation[x].token = tk

\* Mutant: EXISTS is not asked before the order is written.
CommitVerdictOverwrites(ix, x, r, w, tk) ==
  CASE reservation[x] = None                               -> "RESERVATION_MISSING"
    [] reservation[x] # None /\ ~ HeldFor(x, w, tk)        -> "RESERVATION_MISMATCH"
    [] HeldFor(x, w, tk)
       /\ ZCard(ix, PendingIndex) >= MaxPending            -> "HARD_LIMIT"
    [] OTHER                                               -> "OK"

CommitVerdict(ix, x, r, w, tk) ==
  CASE reservation[x] = None                               -> "RESERVATION_MISSING"
    [] reservation[x] # None /\ ~ HeldFor(x, w, tk)        -> "RESERVATION_MISMATCH"
    [] HeldFor(x, w, tk) /\ pending[r] # None              -> "DUPLICATE_REQUEST"
    [] HeldFor(x, w, tk) /\ pending[r] = None
       /\ ZCard(ix, PendingIndex) >= MaxPending            -> "HARD_LIMIT"
    [] OTHER                                               -> "OK"

PrunedForCommit(t, w, tk) == ZRemRangeByScore(index, OrderKeys(w, tk), t)

CommitOK(t, x, r, w, tk, expires) ==
  LET pruned == PrunedForCommit(t, w, tk) IN
  /\ CommitVerdict(pruned, x, r, w, tk) = "OK"
  /\ index' = ZAdd(ZRem(pruned, AdmissionKeys(w, tk), ReservationMember(x)),
                   OrderKeys(w, tk), OrderMember(r), expires)
  /\ reservation' = [reservation EXCEPT ![x] = None]
  /\ pending' = [pending EXCEPT ![r] =
       [wallet |-> w, token |-> tk, expires |-> expires, digest |-> None,
        ttlEnd |-> now + (expires - t)]]
  /\ UNCHANGED lock

CommitRefused(t, x, r, w, tk) ==
  LET pruned == PrunedForCommit(t, w, tk) IN
  /\ CommitVerdict(pruned, x, r, w, tk) # "OK"
  /\ index' = pruned
  /\ UNCHANGED <<reservation, pending, lock>>

-----------------------------------------------------------------------------
(* RedisJupiterPendingStore.begin_execution.  On a digest mismatch the     *)
(* script takes the lock and gives it back before it returns.              *)

\* Mutant: the digest recorded before is not compared.
BeginVerdictAnyDigest(r, d) ==
  CASE pending[r] = None                    -> "MISSING"
    [] pending[r] # None /\ lock[r] # None  -> "EXECUTING"
    [] OTHER                                -> "OK"

BeginVerdict(r, d) ==
  CASE pending[r] = None                                 -> "MISSING"
    [] pending[r] # None /\ lock[r] # None               -> "EXECUTING"
    [] pending[r] # None /\ lock[r] = None
       /\ pending[r].digest \notin {None, d}             -> "DIGEST_MISMATCH"
    [] OTHER                                             -> "OK"

BeginExecutionOK(r, d, e) ==
  /\ BeginVerdict(r, d) = "OK"
  /\ lock' = [lock EXCEPT ![r] = [owner |-> e, ttlEnd |-> now + LockTtl]]
  /\ pending' = [pending EXCEPT ![r] = [@ EXCEPT !.digest = d]]
  /\ UNCHANGED <<index, reservation>>

BeginExecutionRefused(r, d) ==
  /\ BeginVerdict(r, d) # "OK"
  /\ UNCHANGED storeVars

HoldsLock(r, e) == lock[r] # None /\ lock[r].owner = e

\* Mutant: DEL without comparing the token.
LockWithoutOwnerCheck(r, e) == [lock EXCEPT ![r] = None]

\* The DEL of a lock, only when it still holds the caller's token.
LockWithout(r, e) == IF HoldsLock(r, e) THEN [lock EXCEPT ![r] = None] ELSE lock

(* RedisJupiterPendingStore.release_execution.                             *)
ReleaseExecution(r, e) ==
  /\ lock' = LockWithout(r, e)
  /\ UNCHANGED <<index, reservation, pending>>

\* Mutant: the wallet and pair sets keep the completed order.
CompleteKeepsWalletSets(r, e, w, tk) ==
  /\ index' = ZRem(index, {Active, PendingIndex}, OrderMember(r))
  /\ pending' = [pending EXCEPT ![r] = None]
  /\ lock' = LockWithout(r, e)
  /\ UNCHANGED reservation

\* Mutant: the pending key outlives the completion.
CompleteKeepsOrder(r, e, w, tk) ==
  /\ index' = ZRem(index, OrderKeys(w, tk), OrderMember(r))
  /\ lock' = LockWithout(r, e)
  /\ UNCHANGED <<pending, reservation>>

(* RedisJupiterPendingStore.complete.                                      *)
CompleteExecution(r, e, w, tk) ==
  /\ index' = ZRem(index, OrderKeys(w, tk), OrderMember(r))
  /\ pending' = [pending EXCEPT ![r] = None]
  /\ lock' = LockWithout(r, e)
  /\ UNCHANGED reservation

-----------------------------------------------------------------------------
(* Redis drops each key whose time to live has passed.                     *)

Unexpired(f, t) ==
  [i \in DOMAIN f |-> IF f[i] # None /\ f[i].ttlEnd <= t THEN None ELSE f[i]]

Advance ==
  /\ now' = now + 1
  /\ reservation' = Unexpired(reservation, now + 1)
  /\ pending' = Unexpired(pending, now + 1)
  /\ lock' = Unexpired(lock, now + 1)
  /\ UNCHANGED index
=============================================================================
