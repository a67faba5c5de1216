---------------------------- MODULE JupiterSwap ----------------------------
(***************************************************************************)
(* The swap service of a multi-replica deployment                          *)
(* (application/jupiter_swap_service.py with DEXSATO_PENDING_STORE=redis): *)
(* requests that prepare an order and requests that execute it run in the  *)
(* threads of any replica, share the Redis store of JupiterPendingStore    *)
(* and, in one-shot mode, the gate file of OneShotSwapGate.                *)
(*                                                                         *)
(* A request is a process that runs one call at a time and whose program   *)
(* counter stands between two of its effects on shared state: a Lua        *)
(* script, an operation on the gate file, the provider's answer.  It may   *)
(* stop for good between any two (Crash): the replica dies, or Redis does  *)
(* not answer and the exception ends the call.                             *)
(***************************************************************************)
EXTENDS JupiterPendingStore

CONSTANTS
  Preparers,        \* calls of prepare_jupiter_swap that may run at once
  OneShot,          \* whether DEXSATO_JUPITER_ONE_SHOT_MODE is in force
  OneShotPair,      \* <<wallet, token>> the gate is written for
  GateTtl,          \* the gate's ten minutes
  OrderLifetimes,   \* how long a Jupiter order may be given to live
  ClockLag,         \* how far a replica's clock may be behind that of Redis
  ClockLead,        \* how far it may be ahead
  RepeatIds,        \* whether the provider may give out a request id again
  MaxTime           \* the model's bound on the clock

ASSUME SwapAssumption ==
  /\ OneShot \in BOOLEAN /\ RepeatIds \in BOOLEAN
  /\ GateTtl \in Nat /\ MaxTime \in Nat
  /\ ClockLag \in Nat /\ ClockLead \in Nat
  /\ OrderLifetimes \subseteq Nat \ {0}
  /\ None \notin Wallets /\ None \notin Tokens
  /\ None \notin ReservationIds /\ None \notin RequestIds

\* The clocks of two replicas differ by less than the 30 seconds of a slot.
ASSUME SkewAssumption == ClockLag + ClockLead < ReservationTtl

VARIABLES
  gate, gateTemp,   \* see OneShotSwapGate
  prep,             \* the state of each preparing call
  exec,             \* the state of each executing call
  receipt,          \* the receipt verifier: idle, or the step it is at
  issued,           \* request ids the provider has given out
  repeated,         \* history: those it has given out again
  sent,             \* <<request, digest>> posted to the provider
  settled,          \* the provider's final answers a call took in, by request
  late              \* history: what calls have outlived, slots or locks

Gate == INSTANCE OneShotSwapGate WITH
          GateRequestIds <- RequestIds, GateDigests <- Digests,
          NoBinding <- None

gateVars  == <<gate, gateTemp>>
idVars    == <<issued, repeated>>
worldVars == <<idVars, sent, settled>>
vars == <<now, storeVars, gateVars, prep, exec, receipt, worldVars, late>>

-----------------------------------------------------------------------------
PrepSteps == {"idle", "reserve", "order", "bind", "bindTemp", "bindReplace",
              "commit", "abort", "release"}
ExecSteps == {"idle", "begin", "consume", "consumeTemp", "consumeReplace",
              "post", "waiting", "complete", "record", "recordTemp",
              "recordReplace", "release"}
ReceiptSteps == {"idle", "fetch", "temp", "replace"}

Seen == Gate!GateRecord \cup {None}   \* a call's copy of the gate file

PrepRecord == [step : PrepSteps, wallet : Wallets \cup {None},
               token : Tokens \cup {None}, slot : ReservationIds \cup {None},
               request : RequestIds \cup {None}, read : Nat, seen : Seen]
ExecRecord == [step : ExecSteps, request : RequestIds \cup {None},
               digest : Digests \cup {None}, wallet : Wallets \cup {None},
               token : Tokens \cup {None}, seen : Seen]

PrepIdle == [step |-> "idle", wallet |-> None, token |-> None, slot |-> None,
             request |-> None, read |-> 0, seen |-> None]
ExecIdle == [step |-> "idle", request |-> None, digest |-> None,
             wallet |-> None, token |-> None, seen |-> None]
ReceiptIdle == [step |-> "idle", seen |-> None]

Answers == {"Success", "Failed"}

TypeOK ==
  /\ StoreTypeOK
  /\ Gate!GateTypeOK
  /\ prep \in [Preparers -> PrepRecord]
  /\ exec \in [Executors -> ExecRecord]
  /\ receipt \in [step : ReceiptSteps, seen : Seen]
  /\ issued \subseteq RequestIds /\ repeated \subseteq RequestIds
  /\ sent \subseteq RequestIds \X Digests
  /\ settled \in [RequestIds -> SUBSET Answers]
  /\ late \subseteq {"slot", "lock"}

Init ==
  /\ StoreInit
  /\ Gate!GateInit
  /\ prep = [p \in Preparers |-> PrepIdle]
  /\ exec = [e \in Executors |-> ExecIdle]
  /\ receipt = ReceiptIdle
  /\ issued = {} /\ repeated = {}
  /\ sent = {}
  /\ settled = [r \in RequestIds |-> {}]
  /\ late = {}

\* What the clock of a replica may show.
Clocks == {t \in 0..(now + ClockLead) : now <= t + ClockLag}

PrepAt(p, step)    == prep[p].step = step
PrepGoto(p, step)  == prep' = [prep EXCEPT ![p].step = step]
PrepEnd(p)         == prep' = [prep EXCEPT ![p] = PrepIdle]
ExecAt(e, step)    == exec[e].step = step
ExecGoto(e, step)  == exec' = [exec EXCEPT ![e].step = step]
ExecEnd(e)         == exec' = [exec EXCEPT ![e] = ExecIdle]

OnlyPrep    == UNCHANGED <<now, exec, receipt, sent, settled, late>>
OnlyExec    == UNCHANGED <<now, prep, receipt, idVars, late>>

-----------------------------------------------------------------------------
(* prepare_jupiter_swap.                                                   *)

\* Validation and, in one-shot mode, require_one_shot_armed.
BeginPrepare(p, w, tk) ==
  /\ PrepAt(p, "idle")
  /\ OneShot => /\ <<w, tk>> = OneShotPair
                /\ \E t \in Clocks : Gate!ArmedAt(t)
  /\ prep' = [prep EXCEPT ![p] =
       [PrepIdle EXCEPT !.step = "reserve", !.wallet = w, !.token = tk]]
  /\ OnlyPrep /\ UNCHANGED <<storeVars, gateVars, idVars>>

\* uuid4: a name no live reservation, set or call still uses.
FreshSlot(x) ==
  /\ reservation[x] = None
  /\ \A k \in IndexKeys : index[k][ReservationMember(x)] = 0
  /\ \A p \in Preparers : prep[p].slot # x

ReserveSlot(p) ==
  /\ PrepAt(p, "reserve")
  /\ \E t \in Clocks :
       \/ \E x \in ReservationIds :
            /\ FreshSlot(x)
            /\ ReserveOK(t, x, prep[p].wallet, prep[p].token)
            /\ prep' = [prep EXCEPT ![p].step = "order", ![p].slot = x]
       \/ /\ ReserveRefused(t, prep[p].wallet, prep[p].token)
          /\ PrepEnd(p)
  /\ OnlyPrep /\ UNCHANGED <<gateVars, idVars>>

\* The provider's order, accepted by every check.  The clock is read here; the
\* reading is carried over the binding of the gate to the commit.
OrderAccepted(p) ==
  /\ PrepAt(p, "order")
  /\ \E r \in RequestIds, t \in Clocks :
       /\ r \in issued => RepeatIds
       /\ issued' = issued \cup {r}
       /\ repeated' = repeated \cup ({r} \cap issued)
       /\ prep' = [prep EXCEPT ![p].request = r, ![p].read = t,
                               ![p].step = IF OneShot THEN "bind" ELSE "commit"]
  /\ OnlyPrep /\ UNCHANGED <<storeVars, gateVars>>

\* No answer, or one that fails a check.
OrderRefused(p) ==
  /\ PrepAt(p, "order")
  /\ PrepGoto(p, "abort")
  /\ OnlyPrep /\ UNCHANGED <<storeVars, gateVars, idVars>>

\* bind_one_shot: read the gate, then write it in two steps.
BindRead(p) ==
  /\ PrepAt(p, "bind")
  /\ IF Gate!MayBind(gate)
       THEN prep' = [prep EXCEPT ![p].step = "bindTemp", ![p].seen = gate]
       ELSE PrepGoto(p, "abort")
  /\ OnlyPrep /\ UNCHANGED <<storeVars, gateVars, idVars>>

BindTemp(p) ==
  /\ PrepAt(p, "bindTemp")
  /\ \/ Gate!CreateTemp /\ PrepGoto(p, "bindReplace")
     \/ gateTemp /\ PrepGoto(p, "abort") /\ UNCHANGED gateVars
  /\ OnlyPrep /\ UNCHANGED <<storeVars, idVars>>

BindReplace(p) ==
  /\ PrepAt(p, "bindReplace")
  /\ Gate!ReplaceGate(Gate!Bound(prep[p].seen, prep[p].request))
  /\ prep' = [prep EXCEPT ![p].step = "commit", ![p].seen = None]
  /\ OnlyPrep /\ UNCHANGED <<storeVars, idVars>>

\* _commit_pending_slot with the clock read when the answer was checked.
CommitSlot(p) ==
  /\ PrepAt(p, "commit")
  /\ LET x == prep[p].slot  r == prep[p].request  t == prep[p].read
         w == prep[p].wallet  tk == prep[p].token
     IN \/ /\ \E life \in OrderLifetimes : CommitOK(t, x, r, w, tk, t + life)
           /\ PrepEnd(p)
        \/ CommitRefused(t, x, r, w, tk) /\ PrepGoto(p, "abort")
  /\ OnlyPrep /\ UNCHANGED <<gateVars, idVars>>

\* _release_pending_slot: a GET, then the script.
ReleaseRead(p) ==
  /\ PrepAt(p, "abort")
  /\ IF reservation[prep[p].slot] = None THEN PrepEnd(p)
                                         ELSE PrepGoto(p, "release")
  /\ OnlyPrep /\ UNCHANGED <<storeVars, gateVars, idVars>>

ReleaseSlot(p) ==
  /\ PrepAt(p, "release")
  /\ ReleaseReservation(prep[p].slot, prep[p].wallet, prep[p].token)
  /\ PrepEnd(p)
  /\ OnlyPrep /\ UNCHANGED <<gateVars, idVars>>

-----------------------------------------------------------------------------
(* execute_jupiter_swap.                                                   *)

\* _load_pending_order and the checks on the signed transaction.
LoadOrder(e, r, d) ==
  /\ ExecAt(e, "idle")
  /\ pending[r] # None
  /\ \E t \in Clocks : pending[r].expires > t
  /\ exec' = [exec EXCEPT ![e] =
       [ExecIdle EXCEPT !.step = "begin", !.request = r, !.digest = d,
                        !.wallet = pending[r].wallet, !.token = pending[r].token]]
  /\ OnlyExec /\ UNCHANGED <<storeVars, gateVars, sent, settled>>

\* _begin_pending_execution.
BeginExecution(e) ==
  /\ ExecAt(e, "begin")
  /\ \/ /\ BeginExecutionOK(exec[e].request, exec[e].digest, e)
        /\ ExecGoto(e, IF OneShot THEN "consume" ELSE "post")
     \/ BeginExecutionRefused(exec[e].request, exec[e].digest) /\ ExecEnd(e)
  /\ OnlyExec /\ UNCHANGED <<gateVars, sent, settled>>

\* consume_one_shot.  A gate that does not match releases the lock; a
\* temporary file in the way is no GateRejected, and ends the call.
ConsumeRead(e) ==
  /\ ExecAt(e, "consume")
  /\ LET r == exec[e].request  d == exec[e].digest
     IN \/ /\ Gate!MayConsume(gate, r)
           /\ exec' = [exec EXCEPT ![e].step = "consumeTemp", ![e].seen = gate]
        \/ Gate!MayRetryConsumed(gate, r, d) /\ ExecGoto(e, "post")
        \/ /\ ~ (Gate!MayConsume(gate, r) \/ Gate!MayRetryConsumed(gate, r, d))
           /\ ExecGoto(e, "release")
  /\ OnlyExec /\ UNCHANGED <<storeVars, gateVars, sent, settled>>

ConsumeTemp(e) ==
  /\ ExecAt(e, "consumeTemp")
  /\ \/ Gate!CreateTemp /\ ExecGoto(e, "consumeReplace")
     \/ gateTemp /\ ExecEnd(e) /\ UNCHANGED gateVars
  /\ OnlyExec /\ UNCHANGED <<storeVars, sent, settled>>

ConsumeReplace(e) ==
  /\ ExecAt(e, "consumeReplace")
  /\ Gate!ReplaceGate(Gate!Consumed(exec[e].seen, exec[e].digest))
  /\ exec' = [exec EXCEPT ![e].step = "post", ![e].seen = None]
  /\ OnlyExec /\ UNCHANGED <<storeVars, sent, settled>>

\* The POST to Jupiter leaves the server.
PostTransaction(e) ==
  /\ ExecAt(e, "post")
  /\ sent' = sent \cup {<<exec[e].request, exec[e].digest>>}
  /\ ExecGoto(e, "waiting")
  /\ OnlyExec /\ UNCHANGED <<storeVars, gateVars, settled>>

\* A transport error, a timeout or an invalid answer.
AnswerUnusable(e) ==
  /\ ExecAt(e, "waiting")
  /\ ExecGoto(e, "release")
  /\ OnlyExec /\ UNCHANGED <<storeVars, gateVars, sent, settled>>

AnswerSuccess(e) ==
  /\ ExecAt(e, "waiting")
  /\ ExecGoto(e, "complete")
  /\ OnlyExec /\ UNCHANGED <<storeVars, gateVars, sent, settled>>

\* The last lines of execute_jupiter_swap set `executing' and `completed' on
\* the order.  _RedisPendingOrder has neither and takes no new attribute, so
\* the call ends there: nothing is released, completed or recorded.
AnswerFailed(e) ==
  /\ ExecAt(e, "waiting")
  /\ settled' = [settled EXCEPT ![exec[e].request] = @ \cup {"Failed"}]
  /\ ExecEnd(e)
  /\ OnlyExec /\ UNCHANGED <<storeVars, gateVars, sent>>

\* _complete_pending_execution.
Complete(e) ==
  /\ ExecAt(e, "complete")
  /\ CompleteExecution(exec[e].request, e, exec[e].wallet, exec[e].token)
  /\ settled' = [settled EXCEPT ![exec[e].request] = @ \cup {"Success"}]
  /\ IF OneShot THEN ExecGoto(e, "record") ELSE ExecEnd(e)
  /\ OnlyExec /\ UNCHANGED <<gateVars, sent>>

\* record_one_shot(path, "Success"): nothing catches its exceptions.
RecordRead(e) ==
  /\ ExecAt(e, "record")
  /\ IF Gate!MayRecord(gate)
       THEN exec' = [exec EXCEPT ![e].step = "recordTemp", ![e].seen = gate]
       ELSE ExecEnd(e)
  /\ OnlyExec /\ UNCHANGED <<storeVars, gateVars, sent, settled>>

RecordTemp(e) ==
  /\ ExecAt(e, "recordTemp")
  /\ \/ Gate!CreateTemp /\ ExecGoto(e, "recordReplace")
     \/ gateTemp /\ ExecEnd(e) /\ UNCHANGED gateVars
  /\ OnlyExec /\ UNCHANGED <<storeVars, sent, settled>>

RecordReplace(e) ==
  /\ ExecAt(e, "recordReplace")
  /\ Gate!ReplaceGate(Gate!Recorded(exec[e].seen, "Success"))
  /\ ExecEnd(e)
  /\ OnlyExec /\ UNCHANGED <<storeVars, sent, settled>>

\* _release_pending_execution.
Release(e) ==
  /\ ExecAt(e, "release")
  /\ ReleaseExecution(exec[e].request, e)
  /\ ExecEnd(e)
  /\ OnlyExec /\ UNCHANGED <<gateVars, sent, settled>>

-----------------------------------------------------------------------------
(* The operator's commands, failures and time.                             *)

ArmGate ==
  /\ OneShot
  /\ Gate!Arm(now)
  /\ UNCHANGED <<now, storeVars, prep, exec, receipt, worldVars, late>>

\* jupiter_one_shot_receipt.verify: read, ask the chain, write.
VerifyRead ==
  /\ receipt.step = "idle"
  /\ Gate!MayVerify(gate)
  /\ receipt' = [step |-> "fetch", seen |-> gate]
  /\ UNCHANGED <<now, storeVars, gateVars, prep, exec, worldVars, late>>

VerifyFetch ==
  /\ receipt.step = "fetch"
  /\ receipt' \in {ReceiptIdle, [receipt EXCEPT !.step = "temp"]}
  /\ UNCHANGED <<now, storeVars, gateVars, prep, exec, worldVars, late>>

VerifyTemp ==
  /\ receipt.step = "temp"
  /\ \/ Gate!CreateTemp /\ receipt' = [receipt EXCEPT !.step = "replace"]
     \/ gateTemp /\ receipt' = ReceiptIdle /\ UNCHANGED gateVars
  /\ UNCHANGED <<now, storeVars, prep, exec, worldVars, late>>

VerifyReplace ==
  /\ receipt.step = "replace"
  /\ Gate!ReplaceGate(Gate!Verified(receipt.seen))
  /\ receipt' = ReceiptIdle
  /\ UNCHANGED <<now, storeVars, prep, exec, worldVars, late>>

CrashPrepare(p) ==
  /\ ~ PrepAt(p, "idle")
  /\ PrepEnd(p)
  /\ OnlyPrep /\ UNCHANGED <<storeVars, gateVars, idVars>>

CrashExecute(e) ==
  /\ ~ ExecAt(e, "idle")
  /\ ExecEnd(e)
  /\ OnlyExec /\ UNCHANGED <<storeVars, gateVars, sent, settled>>

\* A call that still runs is about to outlive its slot, or its lock.  Requests
\* to the provider time out after 12 and 20 seconds, slots and locks after 30
\* and 45; but a timeout bounds each read of an answer, not the call.  A slot
\* has lapsed once the fastest clock of a replica may take its place for
\* expired, which is never after Redis drops its key.
SlotLapsing ==
  \E p \in Preparers :
    /\ ~ PrepAt(p, "idle") /\ ~ PrepAt(p, "reserve")
    /\ reservation[prep[p].slot] # None
    /\ reservation[prep[p].slot].expires <= now + 1 + ClockLead

LockLapsing ==
  \E e \in Executors :
    /\ ~ ExecAt(e, "idle") /\ ~ ExecAt(e, "begin")
    /\ HoldsLock(exec[e].request, e)
    /\ lock[exec[e].request].ttlEnd <= now + 1

Outlived == {what \in {"slot", "lock"} :
               \/ what = "slot" /\ SlotLapsing
               \/ what = "lock" /\ OneShot /\ LockLapsing}

Tick ==
  /\ now < MaxTime
  /\ late' = late \cup Outlived
  /\ Advance
  /\ UNCHANGED <<gateVars, prep, exec, receipt, worldVars>>

PrepareStep(p) ==
  \/ \E w \in Wallets, tk \in Tokens : BeginPrepare(p, w, tk)
  \/ ReserveSlot(p) \/ OrderAccepted(p) \/ OrderRefused(p)
  \/ BindRead(p) \/ BindTemp(p) \/ BindReplace(p)
  \/ CommitSlot(p) \/ ReleaseRead(p) \/ ReleaseSlot(p)
  \/ CrashPrepare(p)

ExecuteStep(e) ==
  \/ \E r \in RequestIds, d \in Digests : LoadOrder(e, r, d)
  \/ BeginExecution(e)
  \/ ConsumeRead(e) \/ ConsumeTemp(e) \/ ConsumeReplace(e)
  \/ PostTransaction(e)
  \/ AnswerUnusable(e) \/ AnswerSuccess(e) \/ AnswerFailed(e)
  \/ Complete(e)
  \/ RecordRead(e) \/ RecordTemp(e) \/ RecordReplace(e)
  \/ Release(e)
  \/ CrashExecute(e)

OperatorStep == ArmGate \/ VerifyRead \/ VerifyFetch \/ VerifyTemp \/ VerifyReplace

Next ==
  \/ \E p \in Preparers : PrepareStep(p)
  \/ \E e \in Executors : ExecuteStep(e)
  \/ OperatorStep
  \/ Tick

Spec == Init /\ [][Next]_vars

-----------------------------------------------------------------------------
(* Properties.                                                             *)

\* No order is ever posted to the provider under two signed transactions,
\* however retries, lapsed locks, crashes and expiries interleave
\* (begin_execution: the first digest locked is the order's digest), unless
\* the provider gave its id to a second order after the first was gone.
OneDigestPerOrder ==
  \A r \in RequestIds \ repeated, d1, d2 \in Digests :
    <<r, d1>> \in sent /\ <<r, d2>> \in sent => d1 = d2

\* A digest an order is bound to: posted, being executed, or on record.
Pinned(r, d) ==
  \/ <<r, d>> \in sent
  \/ \E e \in Executors :
       /\ exec[e].request = r /\ exec[e].digest = d
       /\ exec[e].step \notin {"idle", "begin"}
  \/ pending[r] # None /\ pending[r].digest = d

\* No digest is bound, nobody executes, no order is stored.
Untouched(r) ==
  /\ pending[r] = None
  /\ \A e \in Executors : exec[e].request # r
  /\ \A d \in Digests : <<r, d>> \notin sent

\* Why OneDigestPerOrder is inductive, for an id given out once: all that is
\* bound to the order agrees, an order on record without a digest is bound to
\* none, and an id that no order has been committed under yet belongs to at
\* most one call.
PinInvariant ==
  /\ \A r \in RequestIds \ repeated :
       /\ \A d1, d2 \in Digests : Pinned(r, d1) /\ Pinned(r, d2) => d1 = d2
       /\ pending[r] # None /\ pending[r].digest = None
            => \A d \in Digests : ~ Pinned(r, d)
       /\ r \notin issued => Untouched(r)
  /\ \A p \in Preparers, r \in RequestIds \ repeated :
       prep[p].request = r =>
         /\ r \in issued
         /\ Untouched(r)
         /\ \A q \in Preparers : prep[q].request = r => q = p

\* A record that no replica may take for expired yet, by whatever its clock
\* shows.
Current(s) == s # None /\ s.expires > now + ClockLead

HeldSlots(held(_)) ==
  Cardinality({x \in ReservationIds : Current(reservation[x]) /\ held(reservation[x])})
    + Cardinality({r \in RequestIds : Current(pending[r]) /\ held(pending[r])})

\* MAX_PENDING_ORDERS_PER_WALLET_TOKEN: the unexpired reservations and orders
\* of a wallet and token never exceed their limit, whatever the clocks of the
\* replicas show, as long as no call has outlived its slot: sets and keys
\* expire by different clocks, and commit asks for the reservation's key only.
PairCapacityInTime ==
  \/ "slot" \in late
  \/ \A w \in Wallets, tk \in Tokens :
       HeldSlots(LAMBDA s : s.wallet = w /\ s.token = tk) <= WalletTokenLimit

\* The same of the other limits of admission.  However late calls commit, the
\* orders meet MAX_PENDING_ORDERS, which commit checks a second time.
CapacityInTime ==
  /\ Cardinality({r \in RequestIds : Current(pending[r])}) <= MaxPending
  /\ \/ "slot" \in late
     \/ /\ HeldSlots(LAMBDA s : TRUE) <= AdmissionLimit
        /\ \A w \in Wallets : HeldSlots(LAMBDA s : s.wallet = w) <= WalletLimit
  /\ PairCapacityInTime

\* A member that still counts against a limit, by the fastest clock of a
\* replica even, stands for a reservation or an order that still exists: no
\* capacity is held by something already gone.
SlotsBacked ==
  \A k \in IndexKeys :
    /\ \A x \in ReservationIds :
         index[k][ReservationMember(x)] > now + ClockLead => reservation[x] # None
    /\ \A r \in RequestIds \ repeated :
         index[k][OrderMember(r)] > now + ClockLead => pending[r] # None

\* A lock that has not lapsed is only ever removed by the execution that
\* holds it: one whose own lock lapsed, or that finished late, leaves a
\* successor's lock alone (the owner checks of the release scripts).
LockTakenBackByOwner ==
  [][\A e \in Executors, r \in RequestIds :
       HoldsLock(r, e) /\ lock'[r] # lock[r]
         => \/ now' >= lock[r].ttlEnd
            \/ exec[e].request = r /\ exec'[e] # exec[e]]_vars

\* An order under review keeps its terms for as long as it exists: no commit
\* replaces it, and a signed digest once recorded is never exchanged.
PendingNeverReplaced ==
  [][\A r \in RequestIds :
       pending[r] # None /\ pending'[r] # None
         => /\ pending'[r] = [pending[r] EXCEPT !.digest = pending'[r].digest]
            /\ pending[r].digest # None => pending'[r].digest = pending[r].digest]_vars

\* Once an execution was told that its order is confirmed and has completed
\* it, no execution of that order starts again.
ConfirmedNotRestarted ==
  [][\A r \in RequestIds \ repeated :
       "Success" \in settled[r] /\ lock[r] = None => lock'[r] = None]_vars

\* The same of an order whose execution was told that it failed.
\* JupiterSwapExpired is "Raised when an order is unknown, expired, or already
\* completed", and the last lines of execute_jupiter_swap mean to mark the
\* failed order completed.
FailedNotRestarted ==
  [][\A r \in RequestIds :
       "Failed" \in settled[r] /\ lock[r] = None => lock'[r] = None]_vars

\* In one-shot mode a single signed transaction of a single order ever
\* leaves the server, although requests race for a gate file without a lock:
\* the store's limit for the pair keeps two of them from binding at once, as
\* long as no preparing call has outlived its slot.  Executions may be as slow
\* as they like and outlive their locks.
OneShotSingleTransactionInTime ==
  OneShot => "slot" \in late \/ \A s1, s2 \in sent : s1 = s2

SentIsApproved ==
  OneShot => \A s \in sent :
    gate.attempts = 1 /\ s = <<gate.request, gate.signed>>

\* "The gate is consumed before the first execute request": while every call
\* ends before its slot and its lock lapse, whatever was posted is what the
\* gate file says was approved, and it stays said.
SentIsApprovedInTime == late # {} \/ SentIsApproved

GateRank(status) ==
  CASE status = "ABSENT" -> 0 [] status = "ARMED" -> 1 [] status = "BOUND" -> 2
    [] status = "CONSUMED" -> 3
    [] status \in {"FINALIZATION_PENDING", "FAILED"} -> 4
    [] status = "FINALIZED_VERIFIED" -> 5

\* "ARMED -> BOUND -> CONSUMED -> FINALIZATION_PENDING -> FINALIZED_VERIFIED":
\* while every call ends in time no write from a stale copy of the gate file
\* takes it back.
GateNeverRevertsInTime ==
  [][late # {} \/ GateRank(gate'.status) >= GateRank(gate.status)]_vars
=============================================================================
