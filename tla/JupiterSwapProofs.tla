------------------------- MODULE JupiterSwapProofs -------------------------
(***************************************************************************)
(* What holds of JupiterSwap for every number of replicas, calls, orders   *)
(* and transactions, every limit and time to live, and any lag or lead of  *)
(* the replicas' clocks.                                                   *)
(***************************************************************************)
EXTENDS JupiterSwap, FiniteSetTheorems, TLAPS

IndexType == [IndexKeys -> [Members -> Nat]]

\* Every key an operation names is a key of the index.
LEMMA ZSetType ==
  ASSUME NEW ix \in IndexType, NEW keys, NEW member, NEW score \in Nat
  PROVE  ZSet(ix, keys, member, score) \in IndexType
BY DEF ZSet, IndexType

LEMMA ZRemType ==
  ASSUME NEW ix \in IndexType, NEW keys, NEW member
  PROVE  ZRem(ix, keys, member) \in IndexType
BY ZSetType DEF ZRem

LEMMA ZAddType ==
  ASSUME NEW ix \in IndexType, NEW keys, NEW member, NEW score \in Nat
  PROVE  ZAdd(ix, keys, member, score) \in IndexType
BY ZSetType DEF ZAdd

LEMMA PruneType ==
  ASSUME NEW ix \in IndexType, NEW keys, NEW t
  PROVE  ZRemRangeByScore(ix, keys, t) \in IndexType
BY DEF ZRemRangeByScore, IndexType

-----------------------------------------------------------------------------
(* The store's scripts keep its type.                                      *)

LEMMA ReserveType ==
  ASSUME StoreTypeOK, LimitsAssumption, UNCHANGED now,
         NEW t \in Nat, NEW x \in ReservationIds,
         NEW w \in Wallets, NEW tk \in Tokens,
         ReserveOK(t, x, w, tk)
  PROVE  StoreTypeOK'
<1>1. PrunedForReserve(t, w, tk) \in IndexType
  BY PruneType DEF PrunedForReserve, StoreTypeOK, IndexType
<1>2. t + ReservationTtl \in Nat /\ now + ReservationTtl \in Nat
  BY DEF StoreTypeOK, LimitsAssumption
<1>3. index' \in IndexType
  BY <1>1, <1>2, ZAddType DEF ReserveOK
<1>4. reservation' \in [ReservationIds -> ReservationRecord \cup {None}]
  BY <1>2 DEF ReserveOK, StoreTypeOK, ReservationRecord
<1> QED BY <1>3, <1>4 DEF ReserveOK, StoreTypeOK, IndexType

LEMMA ReserveRefusedType ==
  ASSUME StoreTypeOK, UNCHANGED now, NEW t, NEW w, NEW tk,
         ReserveRefused(t, w, tk)
  PROVE  StoreTypeOK'
<1>1. PrunedForReserve(t, w, tk) \in IndexType
  BY PruneType DEF PrunedForReserve, StoreTypeOK, IndexType
<1> QED BY <1>1 DEF ReserveRefused, StoreTypeOK, IndexType

LEMMA ReleaseType ==
  ASSUME StoreTypeOK, UNCHANGED now, NEW x, NEW w, NEW tk,
         ReleaseReservation(x, w, tk)
  PROVE  StoreTypeOK'
<1>1. index' \in IndexType
  BY ZRemType DEF ReleaseReservation, StoreTypeOK, IndexType
<1> QED BY <1>1 DEF ReleaseReservation, StoreTypeOK, IndexType

LEMMA CommitType ==
  ASSUME StoreTypeOK, UNCHANGED now,
         NEW t \in Nat, NEW x \in ReservationIds, NEW r \in RequestIds,
         NEW w \in Wallets, NEW tk \in Tokens, NEW life \in Nat,
         CommitOK(t, x, r, w, tk, t + life) \/ CommitRefused(t, x, r, w, tk)
  PROVE  StoreTypeOK'
<1> DEFINE pruned == PrunedForCommit(t, w, tk)
<1>1. pruned \in IndexType
  BY PruneType DEF PrunedForCommit, StoreTypeOK, IndexType
<1>2. t \in Nat /\ t + life \in Nat /\ (t + life) - t = life /\ now + life \in Nat
  BY DEF StoreTypeOK
<1>3. CASE CommitOK(t, x, r, w, tk, t + life)
  <2>1. index' \in IndexType
    BY <1>1, <1>2, <1>3, ZAddType, ZRemType DEF CommitOK
  <2>2. reservation' \in [ReservationIds -> ReservationRecord \cup {None}]
    BY <1>3 DEF CommitOK, StoreTypeOK
  <2>3. now + ((t + life) - t) \in Nat
    BY <1>2
  <2>4. pending' \in [RequestIds -> PendingRecord \cup {None}]
    BY <1>2, <1>3, <2>3 DEF CommitOK, StoreTypeOK, PendingRecord
  <2> QED BY <1>3, <2>1, <2>2, <2>4 DEF CommitOK, StoreTypeOK, IndexType
<1>4. CASE CommitRefused(t, x, r, w, tk)
  BY <1>1, <1>4 DEF CommitRefused, StoreTypeOK, IndexType
<1> QED BY <1>3, <1>4

LEMMA BeginType ==
  ASSUME StoreTypeOK, LimitsAssumption, UNCHANGED now,
         NEW r \in RequestIds, NEW d \in Digests, NEW e \in Executors,
         BeginExecutionOK(r, d, e) \/ BeginExecutionRefused(r, d)
  PROVE  StoreTypeOK'
<1>1. CASE BeginExecutionOK(r, d, e)
  <2>1. now + LockTtl \in Nat
    BY DEF StoreTypeOK, LimitsAssumption
  <2>2. lock' \in [RequestIds -> LockRecord \cup {None}]
    BY <1>1, <2>1 DEF BeginExecutionOK, StoreTypeOK, LockRecord
  <2>3. pending[r] # None
    BY <1>1 DEF BeginExecutionOK, BeginVerdict
  <2>4. pending' \in [RequestIds -> PendingRecord \cup {None}]
    BY <1>1, <2>3 DEF BeginExecutionOK, StoreTypeOK, PendingRecord
  <2> QED BY <1>1, <2>2, <2>4 DEF BeginExecutionOK, StoreTypeOK
<1>2. CASE BeginExecutionRefused(r, d)
  BY <1>2 DEF BeginExecutionRefused, StoreTypeOK, storeVars
<1> QED BY <1>1, <1>2

LEMMA ReleaseExecutionType ==
  ASSUME StoreTypeOK, UNCHANGED now, NEW r, NEW e, ReleaseExecution(r, e)
  PROVE  StoreTypeOK'
BY DEF ReleaseExecution, LockWithout, StoreTypeOK

LEMMA CompleteType ==
  ASSUME StoreTypeOK, UNCHANGED now, NEW r, NEW e, NEW w, NEW tk,
         CompleteExecution(r, e, w, tk)
  PROVE  StoreTypeOK'
<1>1. index' \in IndexType
  BY ZRemType DEF CompleteExecution, StoreTypeOK, IndexType
<1> QED BY <1>1 DEF CompleteExecution, LockWithout, StoreTypeOK, IndexType

LEMMA AdvanceType ==
  ASSUME StoreTypeOK, Advance
  PROVE  StoreTypeOK'
BY DEF Advance, Unexpired, StoreTypeOK

-----------------------------------------------------------------------------
(* The gate file and the calls.                                            *)

GateRecord == Gate!GateRecord

LEMMA GateConsumeType ==
  ASSUME NEW g \in GateRecord, NEW d \in Digests
  PROVE  Gate!Consumed(g, d) \in GateRecord
<1> USE DEF GateRecord, Gate!GateRecord, Gate!GateStatus
<1> DEFINE h == [g EXCEPT !.status = "CONSUMED", !.signed = d]
<1>1. h \in GateRecord
  OBVIOUS
<1>2. \A f \in GateRecord : [f EXCEPT !.attempts = 1] \in GateRecord
  OBVIOUS
<1>3. Gate!Consumed(g, d) = [h EXCEPT !.attempts = 1]
  BY Zenon DEF Gate!Consumed
<1> QED BY <1>1, <1>2, <1>3

LEMMA ArmType ==
  ASSUME SwapAssumption, Gate!GateTypeOK, NEW t \in Nat, Gate!Arm(t)
  PROVE  Gate!GateTypeOK'
<1>1. t + GateTtl \in Nat
  BY DEF SwapAssumption
<1>2. gate' = [status |-> "ARMED", request |-> None, signed |-> None,
               attempts |-> 0, expires |-> t + GateTtl]
  BY DEF Gate!Arm, Gate!NoGate
<1> QED
  BY <1>1, <1>2 DEF Gate!Arm, Gate!GateTypeOK, Gate!GateRecord, Gate!GateStatus

PrepLocals(c) ==
  /\ c.step # "idle" => c.wallet # None /\ c.token # None
  /\ c.step \notin {"idle", "reserve"} => c.slot # None
  /\ c.step \in {"bind", "bindTemp", "bindReplace", "commit"} => c.request # None
  /\ c.step \in {"bindTemp", "bindReplace"} => c.seen \in GateRecord

ExecLocals(c) ==
  /\ c.step # "idle" => /\ c.request # None /\ c.digest # None
                        /\ c.wallet # None /\ c.token # None
  /\ c.step \in {"consumeTemp", "consumeReplace", "recordTemp", "recordReplace"}
       => c.seen \in GateRecord

\* A call that is past its first step has the data that step gave it.
LocalsOK ==
  /\ \A p \in Preparers : PrepLocals(prep[p])
  /\ \A e \in Executors : ExecLocals(exec[e])
  /\ receipt.step # "idle" => receipt.seen \in GateRecord

LEMMA TypeInit ==
  ASSUME SwapAssumption, Init
  PROVE  TypeOK /\ LocalsOK
<1>1. StoreTypeOK
  BY DEF Init, StoreInit, StoreTypeOK
<1>2. Gate!GateTypeOK
  <2>1. gate = Gate!NoGate /\ gateTemp \in BOOLEAN
    BY Zenon DEF Init, Gate!GateInit
  <2>2. Gate!NoGate \in Gate!GateRecord
    BY DEF Gate!NoGate, Gate!GateRecord, Gate!GateStatus
  <2> QED BY <2>1, <2>2 DEF Gate!GateTypeOK
<1>3. prep \in [Preparers -> PrepRecord]
  BY DEF Init, PrepIdle, PrepRecord, PrepSteps, Seen
<1>4. exec \in [Executors -> ExecRecord]
  BY DEF Init, ExecIdle, ExecRecord, ExecSteps, Seen
<1>5. receipt \in [step : ReceiptSteps, seen : Seen]
  BY DEF Init, ReceiptIdle, ReceiptSteps, Seen
<1>6. LocalsOK
  BY DEF Init, LocalsOK, PrepLocals, ExecLocals, PrepIdle, ExecIdle, ReceiptIdle
<1> QED
  BY <1>1, <1>2, <1>3, <1>4, <1>5, <1>6 DEF TypeOK, Init

LEMMA PrepareType ==
  ASSUME SwapAssumption, LimitsAssumption, TypeOK, LocalsOK,
         NEW p \in Preparers, PrepareStep(p)
  PROVE  TypeOK' /\ LocalsOK'
<1> USE DEF PrepAt, PrepGoto, PrepEnd, OnlyPrep, idVars
<1> DEFINE c == prep[p]
           Moved == prep'[p] \in PrepRecord /\ PrepLocals(prep'[p])
                      /\ prep' = [prep EXCEPT ![p] = prep'[p]]
<1>0. /\ c \in PrepRecord /\ PrepLocals(c) /\ prep \in [Preparers -> PrepRecord]
      /\ PrepIdle \in PrepRecord /\ PrepLocals(PrepIdle)
      /\ gate \in GateRecord /\ gate \in Seen
  BY DEF TypeOK, LocalsOK, PrepIdle, PrepRecord, PrepLocals, PrepSteps, Seen,
         Gate!GateTypeOK, GateRecord
<1>1. ASSUME NEW w \in Wallets, NEW tk \in Tokens, BeginPrepare(p, w, tk)
      PROVE  Moved
  BY <1>0, <1>1, SwapAssumption
     DEF BeginPrepare, SwapAssumption, PrepRecord, PrepLocals, PrepSteps, PrepIdle
<1>2. ASSUME ReserveSlot(p) PROVE Moved
  BY <1>0, <1>2, SwapAssumption
     DEF ReserveSlot, SwapAssumption, PrepRecord, PrepLocals, PrepSteps
<1>3. ASSUME OrderAccepted(p) PROVE Moved
  <2>1. Clocks \subseteq Nat
    BY SwapAssumption DEF Clocks, SwapAssumption, TypeOK, StoreTypeOK
  <2> QED
    BY <1>0, <1>3, <2>1, SwapAssumption
       DEF OrderAccepted, SwapAssumption, PrepRecord, PrepLocals, PrepSteps
<1>4. ASSUME OrderRefused(p) PROVE Moved
  BY <1>0, <1>4 DEF OrderRefused, PrepRecord, PrepLocals, PrepSteps
<1>5. ASSUME BindRead(p) PROVE Moved
  BY <1>0, <1>5 DEF BindRead, PrepRecord, PrepLocals, PrepSteps
<1>6. ASSUME BindTemp(p) PROVE Moved
  BY <1>0, <1>6 DEF BindTemp, PrepRecord, PrepLocals, PrepSteps
<1>7. ASSUME BindReplace(p) PROVE Moved
  BY <1>0, <1>7 DEF BindReplace, PrepRecord, PrepLocals, PrepSteps, Seen
<1>8. ASSUME CommitSlot(p) PROVE Moved
  BY <1>0, <1>8 DEF CommitSlot, PrepRecord, PrepLocals, PrepSteps
<1>9. ASSUME ReleaseRead(p) PROVE Moved
  BY <1>0, <1>9 DEF ReleaseRead, PrepRecord, PrepLocals, PrepSteps
<1>10. ASSUME ReleaseSlot(p) PROVE Moved
  BY <1>0, <1>10 DEF ReleaseSlot
<1>11. ASSUME CrashPrepare(p) PROVE Moved
  BY <1>0, <1>11 DEF CrashPrepare
<1>12. Moved
  BY <1>1, <1>2, <1>3, <1>4, <1>5, <1>6, <1>7, <1>8, <1>9, <1>10, <1>11
     DEF PrepareStep
<1>13. StoreTypeOK'
  <2>1. UNCHANGED <<now, storeVars>> => StoreTypeOK'
    BY DEF TypeOK, StoreTypeOK, storeVars
  <2>2. Clocks \subseteq Nat
    BY SwapAssumption DEF Clocks, SwapAssumption, TypeOK, StoreTypeOK
  <2>3. ASSUME ReserveSlot(p) PROVE StoreTypeOK'
    <3>1. c.wallet \in Wallets /\ c.token \in Tokens /\ StoreTypeOK /\ UNCHANGED now
      BY <1>0, <2>3 DEF ReserveSlot, TypeOK, PrepLocals, PrepRecord
    <3>2. ASSUME NEW t \in Clocks, NEW x \in ReservationIds,
                 ReserveOK(t, x, c.wallet, c.token)
          PROVE  StoreTypeOK'
      BY <2>2, <3>1, <3>2, ReserveType
    <3>3. ASSUME NEW t \in Clocks, ReserveRefused(t, c.wallet, c.token)
          PROVE  StoreTypeOK'
      BY <2>2, <3>1, <3>3, ReserveRefusedType
    <3> QED BY <2>3, <3>2, <3>3 DEF ReserveSlot
  <2>4. ASSUME CommitSlot(p) PROVE StoreTypeOK'
    <3>1. OrderLifetimes \subseteq Nat
      BY DEF SwapAssumption
    <3> QED
      BY <1>0, <2>2, <2>4, <3>1, CommitType
         DEF CommitSlot, TypeOK, PrepLocals, PrepRecord
  <2>5. ASSUME ReleaseSlot(p) PROVE StoreTypeOK'
    BY <1>0, <2>5, ReleaseType DEF ReleaseSlot, TypeOK
  <2> QED
    BY <2>1, <2>3, <2>4, <2>5
       DEF PrepareStep, BeginPrepare, OrderAccepted, OrderRefused, BindRead,
           BindTemp, BindReplace, ReleaseRead, CrashPrepare
<1>14. Gate!GateTypeOK'
  <2>1. UNCHANGED gateVars => Gate!GateTypeOK'
    BY DEF TypeOK, Gate!GateTypeOK, gateVars
  <2>2. ASSUME BindTemp(p) PROVE Gate!GateTypeOK'
    BY <2>1, <2>2 DEF BindTemp, Gate!CreateTemp, TypeOK, Gate!GateTypeOK
  <2>3. ASSUME BindReplace(p) PROVE Gate!GateTypeOK'
    <3>1. c.seen \in GateRecord /\ c.request \in RequestIds
      BY <1>0, <2>3 DEF BindReplace, PrepLocals, PrepRecord
    <3>2. Gate!Bound(c.seen, c.request) \in GateRecord
      BY <3>1 DEF GateRecord, Gate!GateRecord, Gate!GateStatus, Gate!Bound
    <3> QED BY <2>3, <3>2 DEF BindReplace, Gate!ReplaceGate, Gate!GateTypeOK, GateRecord
  <2> QED
    BY <2>1, <2>2, <2>3
       DEF PrepareStep, BeginPrepare, ReserveSlot, OrderAccepted, OrderRefused,
           BindRead, CommitSlot, ReleaseRead, ReleaseSlot, CrashPrepare
<1>15. /\ issued' \subseteq RequestIds /\ repeated' \subseteq RequestIds
       /\ UNCHANGED <<now, exec, receipt, sent, settled, late>>
  BY DEF PrepareStep, BeginPrepare, ReserveSlot, OrderAccepted, OrderRefused,
         BindRead, BindTemp, BindReplace, CommitSlot, ReleaseRead, ReleaseSlot,
         CrashPrepare, TypeOK
<1> QED
  BY <1>0, <1>12, <1>13, <1>14, <1>15 DEF TypeOK, LocalsOK

LEMMA ExecuteType ==
  ASSUME SwapAssumption, LimitsAssumption, NoneAssumption, TypeOK, LocalsOK,
         NEW e \in Executors, ExecuteStep(e)
  PROVE  TypeOK' /\ LocalsOK'
<1> USE DEF ExecAt, ExecGoto, ExecEnd, OnlyExec, idVars
<1> DEFINE c == exec[e]
           Moved == exec'[e] \in ExecRecord /\ ExecLocals(exec'[e])
                      /\ exec' = [exec EXCEPT ![e] = exec'[e]]
<1>0. /\ c \in ExecRecord /\ ExecLocals(c) /\ exec \in [Executors -> ExecRecord]
      /\ ExecIdle \in ExecRecord /\ ExecLocals(ExecIdle)
      /\ gate \in GateRecord /\ gate \in Seen
  BY DEF TypeOK, LocalsOK, ExecIdle, ExecRecord, ExecLocals, ExecSteps, Seen,
         Gate!GateTypeOK, GateRecord
<1>1. ASSUME NEW r \in RequestIds, NEW d \in Digests, LoadOrder(e, r, d)
      PROVE  Moved
  <2>1. pending[r] \in PendingRecord
    BY <1>1 DEF LoadOrder, TypeOK, StoreTypeOK
  <2>2. pending[r].wallet \in Wallets /\ pending[r].token \in Tokens
    BY <2>1 DEF PendingRecord
  <2> QED
    BY <1>0, <1>1, <2>2, SwapAssumption, NoneAssumption
       DEF LoadOrder, SwapAssumption, NoneAssumption, ExecRecord, ExecLocals,
           ExecSteps, ExecIdle
<1>2. ASSUME BeginExecution(e) PROVE Moved
  BY <1>0, <1>2 DEF BeginExecution, ExecRecord, ExecLocals, ExecSteps
<1>3. ASSUME ConsumeRead(e) PROVE Moved
  BY <1>0, <1>3 DEF ConsumeRead, ExecRecord, ExecLocals, ExecSteps
<1>4. ASSUME ConsumeTemp(e) PROVE Moved
  BY <1>0, <1>4 DEF ConsumeTemp, ExecRecord, ExecLocals, ExecSteps
<1>5. ASSUME ConsumeReplace(e) PROVE Moved
  BY <1>0, <1>5 DEF ConsumeReplace, ExecRecord, ExecLocals, ExecSteps, Seen
<1>6. ASSUME PostTransaction(e) PROVE Moved
  BY <1>0, <1>6 DEF PostTransaction, ExecRecord, ExecLocals, ExecSteps
<1>7. ASSUME AnswerUnusable(e) PROVE Moved
  BY <1>0, <1>7 DEF AnswerUnusable, ExecRecord, ExecLocals, ExecSteps
<1>8. ASSUME AnswerSuccess(e) PROVE Moved
  BY <1>0, <1>8 DEF AnswerSuccess, ExecRecord, ExecLocals, ExecSteps
<1>9. ASSUME AnswerFailed(e) PROVE Moved
  BY <1>0, <1>9 DEF AnswerFailed
<1>10. ASSUME Complete(e) PROVE Moved
  BY <1>0, <1>10 DEF Complete, ExecRecord, ExecLocals, ExecSteps
<1>11. ASSUME RecordRead(e) PROVE Moved
  BY <1>0, <1>11 DEF RecordRead, ExecRecord, ExecLocals, ExecSteps
<1>12. ASSUME RecordTemp(e) PROVE Moved
  BY <1>0, <1>12 DEF RecordTemp, ExecRecord, ExecLocals, ExecSteps
<1>13. ASSUME RecordReplace(e) \/ Release(e) \/ CrashExecute(e) PROVE Moved
  BY <1>0, <1>13 DEF RecordReplace, Release, CrashExecute
<1>14. Moved
  BY <1>1, <1>2, <1>3, <1>4, <1>5, <1>6, <1>7, <1>8, <1>9, <1>10, <1>11, <1>12,
     <1>13 DEF ExecuteStep
<1>15. StoreTypeOK'
  <2>1. UNCHANGED <<now, storeVars>> => StoreTypeOK'
    BY DEF TypeOK, StoreTypeOK, storeVars
  <2>2. ASSUME BeginExecution(e) PROVE StoreTypeOK'
    BY <1>0, <2>2, BeginType DEF BeginExecution, TypeOK, ExecLocals, ExecRecord
  <2>3. ASSUME Complete(e) PROVE StoreTypeOK'
    BY <2>3, CompleteType DEF Complete, TypeOK
  <2>4. ASSUME Release(e) PROVE StoreTypeOK'
    BY <2>4, ReleaseExecutionType DEF Release, TypeOK
  <2> QED
    BY <2>1, <2>2, <2>3, <2>4
       DEF ExecuteStep, LoadOrder, ConsumeRead, ConsumeTemp, ConsumeReplace,
           PostTransaction, AnswerUnusable, AnswerSuccess, AnswerFailed,
           RecordRead, RecordTemp, RecordReplace, CrashExecute
<1>16. Gate!GateTypeOK'
  <2>1. UNCHANGED gateVars => Gate!GateTypeOK'
    BY DEF TypeOK, Gate!GateTypeOK, gateVars
  <2>2. ASSUME ConsumeTemp(e) \/ RecordTemp(e) PROVE Gate!GateTypeOK'
    BY <2>1, <2>2 DEF ConsumeTemp, RecordTemp, Gate!CreateTemp, TypeOK, Gate!GateTypeOK
  <2>3. ASSUME NEW g \in GateRecord, Gate!ReplaceGate(g) PROVE Gate!GateTypeOK'
    BY <2>3 DEF Gate!ReplaceGate, Gate!GateTypeOK, GateRecord
  <2>4. ASSUME ConsumeReplace(e) PROVE Gate!GateTypeOK'
    <3>1. c.seen \in GateRecord /\ c.digest \in Digests
      BY <1>0, <2>4 DEF ConsumeReplace, ExecLocals, ExecRecord
    <3>2. Gate!Consumed(c.seen, c.digest) \in GateRecord
      BY <3>1, GateConsumeType
    <3> QED BY <2>3, <2>4, <3>2 DEF ConsumeReplace
  <2>5. ASSUME RecordReplace(e) PROVE Gate!GateTypeOK'
    <3>1. c.seen \in GateRecord
      BY <1>0, <2>5 DEF RecordReplace, ExecLocals
    <3>2. Gate!Recorded(c.seen, "Success") \in GateRecord
      BY <3>1 DEF Gate!Recorded, GateRecord, Gate!GateRecord, Gate!GateStatus
    <3> QED BY <2>3, <2>5, <3>2 DEF RecordReplace
  <2> QED
    BY <2>1, <2>2, <2>4, <2>5
       DEF ExecuteStep, LoadOrder, BeginExecution, ConsumeRead, PostTransaction,
           AnswerUnusable, AnswerSuccess, AnswerFailed, Complete, RecordRead,
           Release, CrashExecute
<1>17. UNCHANGED <<now, prep, receipt, issued, repeated, late>>
  BY DEF OnlyExec, idVars, ExecuteStep, LoadOrder, BeginExecution, ConsumeRead, ConsumeTemp,
         ConsumeReplace, PostTransaction, AnswerUnusable, AnswerSuccess,
         AnswerFailed, Complete, RecordRead, RecordTemp, RecordReplace,
         Release, CrashExecute
<1>18. sent' \subseteq RequestIds \X Digests
  <2>1. CASE PostTransaction(e)
    BY <1>0, <2>1 DEF PostTransaction, ExecLocals, ExecRecord, TypeOK
  <2>2. CASE UNCHANGED sent
    BY <2>2 DEF TypeOK
  <2> QED
    BY <2>1, <2>2
       DEF ExecuteStep, LoadOrder, BeginExecution, ConsumeRead, ConsumeTemp,
           ConsumeReplace, AnswerUnusable, AnswerSuccess, AnswerFailed, Complete,
           RecordRead, RecordTemp, RecordReplace, Release, CrashExecute
<1>19. settled' \in [RequestIds -> SUBSET Answers]
  <2>1. CASE AnswerFailed(e)
    BY <1>0, <2>1 DEF AnswerFailed, TypeOK, Answers
  <2>2. CASE Complete(e)
    BY <1>0, <2>2 DEF Complete, TypeOK, Answers
  <2>3. CASE UNCHANGED settled
    BY <2>3 DEF TypeOK
  <2> QED
    BY <2>1, <2>2, <2>3
       DEF ExecuteStep, LoadOrder, BeginExecution, ConsumeRead, ConsumeTemp,
           ConsumeReplace, PostTransaction, AnswerUnusable, AnswerSuccess,
           RecordRead, RecordTemp, RecordReplace, Release, CrashExecute
<1> QED
  BY <1>0, <1>14, <1>15, <1>16, <1>17, <1>18, <1>19 DEF TypeOK, LocalsOK

LEMMA OperatorType ==
  ASSUME SwapAssumption, TypeOK, LocalsOK, OperatorStep
  PROVE  TypeOK' /\ LocalsOK'
<1> DEFINE Rest == UNCHANGED <<now, storeVars, prep, exec, worldVars, late>>
           ReceiptOK == /\ receipt' \in [step : ReceiptSteps, seen : Seen]
                        /\ receipt'.step # "idle" => receipt'.seen \in GateRecord
<1>0. /\ gate \in GateRecord /\ gate \in Seen
      /\ receipt \in [step : ReceiptSteps, seen : Seen]
      /\ receipt.step # "idle" => receipt.seen \in GateRecord
      /\ ReceiptIdle \in [step : ReceiptSteps, seen : Seen]
      /\ ReceiptIdle.step = "idle"
  BY DEF TypeOK, LocalsOK, Seen, Gate!GateTypeOK, GateRecord, ReceiptIdle,
         ReceiptSteps
<1>1. Rest
  BY DEF OperatorStep, ArmGate, VerifyRead, VerifyFetch, VerifyTemp, VerifyReplace
<1>2. Gate!GateTypeOK'
  <2>1. UNCHANGED gateVars => Gate!GateTypeOK'
    BY DEF TypeOK, Gate!GateTypeOK, gateVars
  <2>2. ASSUME ArmGate PROVE Gate!GateTypeOK'
    BY <2>2, ArmType DEF ArmGate, TypeOK, StoreTypeOK
  <2>3. ASSUME VerifyTemp PROVE Gate!GateTypeOK'
    BY <2>1, <2>3 DEF VerifyTemp, Gate!CreateTemp, TypeOK, Gate!GateTypeOK
  <2>4. ASSUME VerifyReplace PROVE Gate!GateTypeOK'
    <3>1. receipt.seen \in GateRecord
      BY <1>0, <2>4 DEF VerifyReplace
    <3>2. Gate!Verified(receipt.seen) \in GateRecord
      BY <3>1 DEF Gate!Verified, GateRecord, Gate!GateRecord, Gate!GateStatus
    <3> QED BY <2>4, <3>2 DEF VerifyReplace, Gate!ReplaceGate, Gate!GateTypeOK, GateRecord
  <2> QED
    BY <2>1, <2>2, <2>3, <2>4 DEF OperatorStep, VerifyRead, VerifyFetch
<1>3. ReceiptOK
  <2>1. CASE ArmGate
    BY <1>0, <2>1 DEF ArmGate
  <2>2. CASE VerifyRead
    BY <1>0, <2>2 DEF VerifyRead, ReceiptSteps
  <2>3. CASE VerifyFetch
    BY <1>0, <2>3 DEF VerifyFetch, ReceiptSteps
  <2>4. CASE VerifyTemp
    BY <1>0, <2>4 DEF VerifyTemp, ReceiptSteps
  <2>5. CASE VerifyReplace
    BY <1>0, <2>5 DEF VerifyReplace
  <2> QED BY <2>1, <2>2, <2>3, <2>4, <2>5 DEF OperatorStep
<1>4. StoreTypeOK'
  BY <1>1 DEF TypeOK, StoreTypeOK, storeVars
<1> QED
  BY <1>1, <1>2, <1>3, <1>4 DEF TypeOK, LocalsOK, worldVars, idVars

LEMMA TypeStep ==
  ASSUME TypeOK, LocalsOK, [Next]_vars
  PROVE  TypeOK' /\ LocalsOK'
<1> USE SwapAssumption, LimitsAssumption
<1>1. CASE \E p \in Preparers : PrepareStep(p)
  BY <1>1, PrepareType
<1>2. CASE \E e \in Executors : ExecuteStep(e)
  BY <1>2, ExecuteType, NoneAssumption
<1>3. CASE OperatorStep
  BY <1>3, OperatorType
<1>4. CASE Tick
  <2>1. StoreTypeOK'
    BY <1>4, AdvanceType DEF Tick, TypeOK
  <2>2. late' \subseteq {"slot", "lock"}
    BY <1>4 DEF Tick, TypeOK, Outlived
  <2> QED
    BY <1>4, <2>1, <2>2
       DEF Tick, TypeOK, LocalsOK, gateVars, worldVars, idVars, Gate!GateTypeOK
<1>5. CASE UNCHANGED vars
  BY <1>5 DEF vars, storeVars, gateVars, worldVars, idVars, TypeOK, LocalsOK,
              StoreTypeOK, Gate!GateTypeOK
<1> QED BY <1>1, <1>2, <1>3, <1>4, <1>5 DEF Next

\* Every state has its type: the clock, the sorted sets, the keys, the gate
\* file and the record of each call.
THEOREM TypeCorrect == Spec => []TypeOK
<1>1. Init => TypeOK /\ LocalsOK
  BY TypeInit, SwapAssumption
<1>2. TypeOK /\ LocalsOK /\ [Next]_vars => TypeOK' /\ LocalsOK'
  BY TypeStep
<1> QED BY <1>1, <1>2, PTL DEF Spec

-----------------------------------------------------------------------------
(* One digest per order.                                                   *)

\* A step that binds nothing new, stores nothing new and hands out no id.
LEMMA PinShrinks ==
  ASSUME PinInvariant, issued' = issued, repeated' = repeated,
         \A r \in RequestIds, d \in Digests : Pinned(r, d)' => Pinned(r, d),
         \A r \in RequestIds : Untouched(r) => Untouched(r)',
         \A r \in RequestIds : pending'[r] # None =>
            pending[r] # None /\ pending'[r].digest = pending[r].digest,
         \A p \in Preparers : prep'[p].request \in {None, prep[p].request},
         \A p \in Preparers : prep[p].request \in RequestIds \cup {None}
  PROVE  PinInvariant'
<1>1. ASSUME NEW r \in RequestIds \ repeated, NEW d1 \in Digests, NEW d2 \in Digests,
             Pinned(r, d1)', Pinned(r, d2)'
      PROVE  d1 = d2
  <2>1. Pinned(r, d1) /\ Pinned(r, d2)
    BY <1>1
  <2> QED BY <2>1 DEF PinInvariant
<1>2. ASSUME NEW r \in RequestIds \ repeated, pending'[r] # None, pending'[r].digest = None,
             NEW d \in Digests
      PROVE  ~ Pinned(r, d)'
  <2>1. pending[r] # None /\ pending[r].digest = None
    BY <1>2
  <2>2. ~ Pinned(r, d)
    BY <2>1 DEF PinInvariant
  <2> QED BY <2>2
<1>3. ASSUME NEW r \in RequestIds \ repeated, r \notin issued' PROVE Untouched(r)'
  <2>1. Untouched(r)
    BY <1>3 DEF PinInvariant
  <2> QED BY <2>1
<1>4. ASSUME NEW p \in Preparers, NEW r \in RequestIds \ repeated, prep'[p].request = r
      PROVE  /\ r \in issued'
             /\ Untouched(r)'
             /\ \A q \in Preparers : prep'[q].request = r => q = p
  <2>1. prep[p].request = r /\ \A q \in Preparers : prep'[q].request = r => prep[q].request = r
    BY <1>4, SwapAssumption DEF SwapAssumption
  <2>2. r \in issued /\ Untouched(r) /\ \A q \in Preparers : prep[q].request = r => q = p
    BY <2>1 DEF PinInvariant
  <2> QED BY <2>1, <2>2
<1> QED BY <1>1, <1>2, <1>3, <1>4 DEF PinInvariant

\* Preparing calls touch nothing an order is bound by, except to commit it.
LEMMA PinPrepare ==
  ASSUME TypeOK, LocalsOK, PinInvariant,
         NEW p \in Preparers, PrepareStep(p)
  PROVE  PinInvariant'
<1> USE DEF PrepAt, PrepGoto, PrepEnd, OnlyPrep, idVars
<1> DEFINE c == prep[p]
<1>0. /\ prep \in [Preparers -> PrepRecord] /\ c \in PrepRecord /\ PrepLocals(c)
      /\ \A q \in Preparers : prep[q].request \in RequestIds \cup {None}
  BY DEF TypeOK, LocalsOK, PrepRecord
<1>1. ASSUME UNCHANGED <<pending, exec, sent, issued, repeated>>,
             \A q \in Preparers : prep'[q].request \in {None, prep[q].request}
      PROVE  PinInvariant'
  <2>1. \A r \in RequestIds, d \in Digests : Pinned(r, d)' => Pinned(r, d)
    BY <1>1 DEF Pinned
  <2>2. \A r \in RequestIds : Untouched(r) => Untouched(r)'
    BY <1>1 DEF Untouched
  <2> QED BY <1>0, <1>1, <2>1, <2>2, PinShrinks
<1>2. ASSUME OrderAccepted(p) PROVE PinInvariant'
  <2>1. PICK r \in RequestIds, t \in Clocks :
          /\ issued' = issued \cup {r}
          /\ repeated' = repeated \cup ({r} \cap issued)
          /\ prep' = [prep EXCEPT ![p].request = r, ![p].read = t,
                        ![p].step = IF OneShot THEN "bind" ELSE "commit"]
    BY <1>2 DEF OrderAccepted
  <2>2. UNCHANGED <<pending, exec, sent>>
    BY <1>2 DEF OrderAccepted, storeVars
  <2>3. /\ prep'[p].request = r
        /\ \A q \in Preparers : q # p => prep'[q] = prep[q]
    BY <1>0, <2>1 DEF PrepRecord
  <2>4. ASSUME r \notin repeated'
        PROVE  Untouched(r) /\ \A q \in Preparers : prep[q].request # r
    BY <2>1, <2>4 DEF PinInvariant
  <2>5. \A i \in RequestIds, d \in Digests : Pinned(i, d)' <=> Pinned(i, d)
    BY <2>2 DEF Pinned
  <2>6. \A i \in RequestIds : Untouched(i)' <=> Untouched(i)
    BY <2>2 DEF Untouched
  <2>7. \A q \in Preparers, i \in RequestIds \ repeated' : prep'[q].request = i =>
          /\ i \in issued'
          /\ Untouched(i)'
          /\ \A q2 \in Preparers : prep'[q2].request = i => q2 = q
    BY <1>0, <2>1, <2>3, <2>4, <2>6 DEF PinInvariant
  <2>8. \A i \in RequestIds \ repeated' :
          /\ \A d1, d2 \in Digests : Pinned(i, d1)' /\ Pinned(i, d2)' => d1 = d2
          /\ pending'[i] # None /\ pending'[i].digest = None
               => \A d \in Digests : ~ Pinned(i, d)'
          /\ i \notin issued' => Untouched(i)'
    BY <2>1, <2>2, <2>5, <2>6 DEF PinInvariant
  <2> QED BY <2>7, <2>8 DEF PinInvariant
<1>3. ASSUME CommitSlot(p) PROVE PinInvariant'
  <2>1. PICK r \in RequestIds : r = prep[p].request
    BY <1>0, <1>3 DEF CommitSlot, PrepLocals, PrepRecord
  <2>2. r \notin repeated => Untouched(r) /\ r \in issued
    BY <2>1 DEF PinInvariant
  <2>3. UNCHANGED <<exec, sent, issued, repeated>>
    BY <1>3 DEF CommitSlot
  <2>4. CASE UNCHANGED pending
    <3>1. prep' = [prep EXCEPT ![p].step = "abort"]
          \/ prep' = [prep EXCEPT ![p] = PrepIdle]
      BY <1>3 DEF CommitSlot
    <3>2. \A q \in Preparers : prep'[q].request \in {None, prep[q].request}
      BY <1>0, <3>1 DEF PrepIdle, PrepRecord
    <3> QED BY <1>1, <2>3, <2>4, <3>2
  <2>5. CASE \E life \in OrderLifetimes :
               CommitOK(c.read, c.slot, r, c.wallet, c.token, c.read + life)
                 /\ prep' = [prep EXCEPT ![p] = PrepIdle]
    <3>1. /\ pending'[r].digest = None
          /\ \A i \in RequestIds : i # r => pending'[i] = pending[i]
      BY <2>1, <2>5 DEF CommitOK, TypeOK, StoreTypeOK
    <3>2. /\ prep'[p].request = None
          /\ \A q \in Preparers : q # p => prep'[q] = prep[q]
      BY <1>0, <2>5 DEF PrepIdle
    <3>3. r \notin repeated => \A d \in Digests : ~ Pinned(r, d)'
      BY <2>2, <2>3, <3>1, NoneAssumption DEF Pinned, Untouched, NoneAssumption
    <3>4. \A i \in RequestIds : i # r =>
            /\ Untouched(i)' <=> Untouched(i)
            /\ \A d \in Digests : Pinned(i, d)' <=> Pinned(i, d)
      BY <2>3, <3>1 DEF Untouched, Pinned
    <3>5. \A q \in Preparers, i \in RequestIds \ repeated : prep'[q].request = i =>
            prep'[q] = prep[q] /\ i # r
      BY <1>0, <2>1, <3>2, SwapAssumption DEF PinInvariant, SwapAssumption
    <3>6. \A q \in Preparers, i \in RequestIds \ repeated : prep'[q].request = i =>
            /\ i \in issued'
            /\ Untouched(i)'
            /\ \A q2 \in Preparers : prep'[q2].request = i => q2 = q
      BY <2>3, <3>2, <3>4, <3>5 DEF PinInvariant
    <3>7. \A i \in RequestIds \ repeated :
            /\ \A d1, d2 \in Digests : Pinned(i, d1)' /\ Pinned(i, d2)' => d1 = d2
            /\ pending'[i] # None /\ pending'[i].digest = None
                 => \A d \in Digests : ~ Pinned(i, d)'
            /\ i \notin issued' => Untouched(i)'
      <4>1. \A i \in RequestIds \ repeated : i # r =>
              /\ \A d1, d2 \in Digests : Pinned(i, d1)' /\ Pinned(i, d2)' => d1 = d2
              /\ pending'[i] # None /\ pending'[i].digest = None
                   => \A d \in Digests : ~ Pinned(i, d)'
              /\ i \notin issued' => Untouched(i)'
        BY <2>3, <3>1, <3>4 DEF PinInvariant
      <4>2. r \notin repeated => r \in issued'
        BY <2>2, <2>3
      <4> QED BY <3>3, <4>1, <4>2
    <3> QED BY <2>3, <3>6, <3>7 DEF PinInvariant
  <2>6. \/ /\ \E life \in OrderLifetimes :
                CommitOK(c.read, c.slot, r, c.wallet, c.token, c.read + life)
           /\ prep' = [prep EXCEPT ![p] = PrepIdle]
        \/ CommitRefused(c.read, c.slot, r, c.wallet, c.token)
    BY <1>3, <2>1 DEF CommitSlot
  <2>7. CASE CommitRefused(c.read, c.slot, r, c.wallet, c.token)
    BY <2>4, <2>7 DEF CommitRefused
  <2> QED BY <2>5, <2>6, <2>7
<1>4. ASSUME \/ \E w \in Wallets, tk \in Tokens : BeginPrepare(p, w, tk)
             \/ ReserveSlot(p) \/ OrderRefused(p)
             \/ BindRead(p) \/ BindTemp(p) \/ BindReplace(p)
             \/ ReleaseRead(p) \/ ReleaseSlot(p) \/ CrashPrepare(p)
      PROVE  PinInvariant'
  <2>1. UNCHANGED <<pending, exec, sent, issued, repeated>>
    BY <1>4 DEF BeginPrepare, ReserveSlot, OrderRefused, BindRead, BindTemp,
                BindReplace, ReleaseRead, ReleaseSlot, CrashPrepare, storeVars,
                ReserveOK, ReserveRefused, ReleaseReservation
  <2>2. \A q \in Preparers : q # p => prep'[q] = prep[q]
    BY <1>0, <1>4
       DEF BeginPrepare, ReserveSlot, OrderRefused, BindRead, BindTemp,
           BindReplace, ReleaseRead, ReleaseSlot, CrashPrepare
  <2>3. prep'[p].request \in {None, prep[p].request}
    <3>1. CASE \E w \in Wallets, tk \in Tokens : BeginPrepare(p, w, tk)
      BY <1>0, <3>1 DEF BeginPrepare, PrepIdle
    <3>2. CASE ReserveSlot(p)
      BY <1>0, <3>2 DEF ReserveSlot, PrepIdle, PrepRecord
    <3>3. CASE OrderRefused(p) \/ BindTemp(p) \/ ReleaseRead(p) \/ ReleaseSlot(p)
                 \/ CrashPrepare(p)
      BY <1>0, <3>3 DEF OrderRefused, BindTemp, ReleaseRead, ReleaseSlot,
                        CrashPrepare, PrepIdle, PrepRecord
    <3>4. CASE BindRead(p)
      BY <1>0, <3>4 DEF BindRead, PrepRecord
    <3>5. CASE BindReplace(p)
      BY <1>0, <3>5 DEF BindReplace, PrepRecord
    <3> QED BY <1>4, <3>1, <3>2, <3>3, <3>4, <3>5
  <2> QED BY <1>1, <2>1, <2>2, <2>3
<1> QED BY <1>2, <1>3, <1>4 DEF PrepareStep

\* An executing call changes what an order is bound by when it locks it,
\* posts it or completes it.
LEMMA PinExecute ==
  ASSUME TypeOK, LocalsOK, PinInvariant, NEW e \in Executors, ExecuteStep(e)
  PROVE  PinInvariant'
<1> USE DEF ExecAt, ExecGoto, ExecEnd, OnlyExec, idVars
<1>0. /\ exec \in [Executors -> ExecRecord] /\ exec[e] \in ExecRecord
      /\ ExecLocals(exec[e])
      /\ \A p \in Preparers : prep[p].request \in RequestIds \cup {None}
      /\ pending \in [RequestIds -> PendingRecord \cup {None}]
  BY DEF TypeOK, LocalsOK, StoreTypeOK, PrepRecord
<1>1. UNCHANGED <<prep, issued, repeated>> /\ \A f \in Executors : f # e => exec'[f] = exec[f]
  BY <1>0 DEF ExecuteStep, LoadOrder, BeginExecution, ConsumeRead, ConsumeTemp,
     ConsumeReplace, PostTransaction, AnswerUnusable, AnswerSuccess,
     AnswerFailed, Complete, RecordRead, RecordTemp, RecordReplace, Release,
     CrashExecute
<1>2. ASSUME sent' = sent, \A i \in RequestIds : pending'[i] \in {None, pending[i]},
             \/ exec'[e].request = None
             \/ /\ exec'[e].request = exec[e].request
                /\ exec'[e].digest = exec[e].digest
                /\ exec[e].step \notin {"idle", "begin"}
      PROVE  PinInvariant'
  <2>1. ASSUME NEW r \in RequestIds, NEW d \in Digests, Pinned(r, d)'
        PROVE  Pinned(r, d)
    BY <1>1, <1>2, <2>1, SwapAssumption DEF Pinned, SwapAssumption
  <2>2. ASSUME NEW r \in RequestIds, Untouched(r) PROVE Untouched(r)'
    BY <1>1, <1>2, <2>2, SwapAssumption DEF Untouched, SwapAssumption
  <2> QED BY <1>0, <1>1, <1>2, <2>1, <2>2, PinShrinks
<1>3. ASSUME NEW r \in RequestIds, NEW d \in Digests, LoadOrder(e, r, d)
      PROVE  PinInvariant'
  <2>1. /\ UNCHANGED <<pending, sent>> /\ pending[r] # None
        /\ exec'[e].step = "begin" /\ exec'[e].request = r
    BY <1>0, <1>3 DEF LoadOrder, storeVars, ExecIdle
  <2>2. ASSUME NEW i \in RequestIds, NEW d2 \in Digests, Pinned(i, d2)'
        PROVE  Pinned(i, d2)
    BY <1>1, <2>1, <2>2 DEF Pinned
  <2>3. ASSUME NEW i \in RequestIds, Untouched(i) PROVE Untouched(i)'
    BY <1>1, <2>1, <2>3 DEF Untouched
  <2> QED BY <1>0, <1>1, <2>1, <2>2, <2>3, PinShrinks
<1>4. ASSUME BeginExecution(e) PROVE PinInvariant'
  <2>1. PICK r \in RequestIds, d \in Digests :
          r = exec[e].request /\ d = exec[e].digest
    BY <1>0, <1>4 DEF BeginExecution, ExecRecord, ExecLocals
  <2>2. sent' = sent
    BY <1>4 DEF BeginExecution
  <2>3. CASE BeginExecutionRefused(r, d) /\ exec' = [exec EXCEPT ![e] = ExecIdle]
    BY <1>0, <1>2, <2>2, <2>3 DEF BeginExecutionRefused, storeVars, ExecIdle
  <2>4. CASE BeginExecutionOK(r, d, e)
               /\ exec' = [exec EXCEPT ![e].step = IF OneShot THEN "consume" ELSE "post"]
    <3>1. /\ pending[r] # None /\ pending[r].digest \in {None, d}
          /\ pending'[r] # None /\ pending'[r].digest = d
          /\ \A i \in RequestIds : i # r => pending'[i] = pending[i]
      <4>1. BeginVerdict(r, d) = "OK"
        BY <2>4 DEF BeginExecutionOK
      <4>2. pending[r] # None /\ pending[r].digest \in {None, d}
        BY <4>1 DEF BeginVerdict
      <4>3. pending[r] \in PendingRecord
        BY <1>0, <4>2
      <4>4. pending' = [pending EXCEPT ![r] = [@ EXCEPT !.digest = d]]
        BY <2>4 DEF BeginExecutionOK
      <4>5. pending'[r] = [pending[r] EXCEPT !.digest = d]
        BY <1>0, <4>4
      <4>6. pending'[r].digest = d
        BY <4>3, <4>5 DEF PendingRecord
      <4>7. pending'[r] # None
        BY <4>3, <4>5, NoneAssumption DEF PendingRecord, NoneAssumption
      <4> QED BY <1>0, <4>2, <4>4, <4>6, <4>7
    <3>2. exec'[e].request = r /\ exec'[e].digest = d
      BY <1>0, <2>1, <2>4 DEF ExecRecord
    <3>3. ~ Untouched(r) /\ (r \notin repeated => r \in issued)
      BY <3>1 DEF Untouched, PinInvariant
    <3>4. ASSUME r \notin repeated, NEW d2 \in Digests, Pinned(r, d2)' PROVE d2 = d
      <4>1. CASE Pinned(r, d2)
        <5>1. pending[r].digest # None
          BY <3>1, <3>4, <4>1 DEF PinInvariant
        <5>2. Pinned(r, d)
          BY <3>1, <5>1 DEF Pinned
        <5> QED BY <3>4, <4>1, <5>2 DEF PinInvariant
      <4>2. CASE ~ Pinned(r, d2)
        BY <1>1, <2>2, <3>1, <3>2, <3>4, <4>2 DEF Pinned
      <4> QED BY <4>1, <4>2
    <3>5. ASSUME NEW i \in RequestIds, i # r
          PROVE  /\ Untouched(i)' <=> Untouched(i)
                 /\ \A d2 \in Digests : Pinned(i, d2)' <=> Pinned(i, d2)
                 /\ pending'[i] = pending[i]
      BY <1>1, <2>1, <2>2, <3>1, <3>2, <3>5 DEF Untouched, Pinned
    <3>6. ASSUME NEW i \in RequestIds \ repeated
          PROVE  /\ \A d1, d2 \in Digests : Pinned(i, d1)' /\ Pinned(i, d2)' => d1 = d2
                 /\ pending'[i] # None /\ pending'[i].digest = None
                      => \A d2 \in Digests : ~ Pinned(i, d2)'
                 /\ i \notin issued' => Untouched(i)'
      <4>1. CASE i = r
        BY <1>1, <3>1, <3>3, <3>4, <4>1, NoneAssumption DEF NoneAssumption
      <4>2. CASE i # r
        BY <1>1, <3>5, <4>2 DEF PinInvariant
      <4> QED BY <4>1, <4>2
    <3>7. ASSUME NEW p \in Preparers, NEW i \in RequestIds \ repeated, prep'[p].request = i
          PROVE  /\ i \in issued'
                 /\ Untouched(i)'
                 /\ \A q \in Preparers : prep'[q].request = i => q = p
      <4>1. prep[p].request = i
        BY <1>1, <3>7
      <4>2. /\ i \in issued /\ Untouched(i)
            /\ \A q \in Preparers : prep[q].request = i => q = p
        BY <4>1 DEF PinInvariant
      <4>3. Untouched(i)'
        BY <3>3, <3>5, <4>2
      <4> QED BY <1>1, <4>2, <4>3
    <3> QED BY <1>1, <3>6, <3>7 DEF PinInvariant
  <2> QED BY <1>4, <2>1, <2>3, <2>4 DEF BeginExecution
<1>5. ASSUME PostTransaction(e) PROVE PinInvariant'
  <2>1. PICK r \in RequestIds, d \in Digests :
          r = exec[e].request /\ d = exec[e].digest
    BY <1>0, <1>5 DEF PostTransaction, ExecRecord, ExecLocals
  <2>2. /\ sent' = sent \cup {<<r, d>>} /\ pending' = pending
        /\ exec[e].step = "post"
        /\ exec'[e].request = r /\ exec'[e].digest = d
    BY <1>0, <1>5, <2>1 DEF PostTransaction, storeVars, ExecRecord
  <2>3. ASSUME NEW i \in RequestIds, NEW d2 \in Digests, Pinned(i, d2)'
        PROVE  Pinned(i, d2)
    BY <1>1, <2>1, <2>2, <2>3 DEF Pinned
  <2>4. ASSUME NEW i \in RequestIds, Untouched(i) PROVE Untouched(i)'
    BY <1>1, <2>1, <2>2, <2>4 DEF Untouched
  <2> QED BY <1>0, <1>1, <2>2, <2>3, <2>4, PinShrinks
<1>6. ASSUME Complete(e) PROVE PinInvariant'
  <2>1. /\ sent' = sent /\ exec[e].step = "complete"
        /\ \A i \in RequestIds : pending'[i] \in {None, pending[i]}
    BY <1>0, <1>6 DEF Complete, CompleteExecution
  <2>2. \/ exec'[e].request = None
        \/ exec'[e].request = exec[e].request /\ exec'[e].digest = exec[e].digest
    BY <1>0, <1>6 DEF Complete, ExecIdle, ExecRecord
  <2> QED BY <1>2, <2>1, <2>2
<1>7. ASSUME \/ ConsumeRead(e) \/ ConsumeTemp(e) \/ ConsumeReplace(e)
             \/ AnswerUnusable(e) \/ AnswerSuccess(e) \/ AnswerFailed(e)
             \/ RecordRead(e) \/ RecordTemp(e) \/ RecordReplace(e)
             \/ Release(e) \/ CrashExecute(e)
      PROVE  PinInvariant'
  <2>1. sent' = sent /\ pending' = pending
    BY <1>7 DEF ConsumeRead, ConsumeTemp, ConsumeReplace, AnswerUnusable,
       AnswerSuccess, AnswerFailed, RecordRead, RecordTemp, RecordReplace,
       Release, ReleaseExecution, CrashExecute, storeVars
  <2>2. \/ exec'[e].request = None
        \/ /\ exec'[e].request = exec[e].request
           /\ exec'[e].digest = exec[e].digest
           /\ exec[e].step \notin {"idle", "begin"}
    <3>1. CASE ConsumeRead(e)
      BY <1>0, <3>1 DEF ConsumeRead, ExecRecord
    <3>2. CASE ConsumeTemp(e) \/ RecordTemp(e)
      BY <1>0, <3>2 DEF ConsumeTemp, RecordTemp, ExecRecord, ExecIdle
    <3>3. CASE ConsumeReplace(e)
      BY <1>0, <3>3 DEF ConsumeReplace, ExecRecord
    <3>4. CASE AnswerUnusable(e) \/ AnswerSuccess(e)
      BY <1>0, <3>4 DEF AnswerUnusable, AnswerSuccess, ExecRecord
    <3>5. CASE RecordRead(e)
      BY <1>0, <3>5 DEF RecordRead, ExecRecord, ExecIdle
    <3>6. CASE AnswerFailed(e) \/ RecordReplace(e) \/ Release(e) \/ CrashExecute(e)
      BY <1>0, <3>6 DEF AnswerFailed, RecordReplace, Release, CrashExecute, ExecIdle
    <3> QED BY <1>7, <3>1, <3>2, <3>3, <3>4, <3>5, <3>6
  <2> QED BY <1>2, <2>1, <2>2
<1> QED BY <1>3, <1>4, <1>5, <1>6, <1>7 DEF ExecuteStep

\* Time only drops orders.
LEMMA PinTick ==
  ASSUME TypeOK, PinInvariant, Tick
  PROVE  PinInvariant'
<1>1. UNCHANGED <<prep, exec, sent, issued, repeated>>
  BY DEF Tick, worldVars, idVars
<1>2. \A i \in RequestIds : pending'[i] \in {None, pending[i]}
  BY DEF Tick, Advance, Unexpired, TypeOK, StoreTypeOK
<1>3. ASSUME NEW r \in RequestIds, NEW d \in Digests, Pinned(r, d)'
      PROVE  Pinned(r, d)
  BY <1>1, <1>2, <1>3 DEF Pinned
<1>4. ASSUME NEW r \in RequestIds, Untouched(r) PROVE Untouched(r)'
  BY <1>1, <1>2, <1>4 DEF Untouched
<1>5. \A p \in Preparers : prep[p].request \in RequestIds \cup {None}
  BY DEF TypeOK, PrepRecord
<1> QED BY <1>1, <1>2, <1>3, <1>4, <1>5, PinShrinks

LEMMA PinInit ==
  ASSUME Init
  PROVE  PinInvariant
BY SwapAssumption DEF SwapAssumption, Init, StoreInit, PinInvariant, Pinned,
   Untouched, PrepIdle, ExecIdle

LEMMA PinStep ==
  ASSUME TypeOK, LocalsOK, PinInvariant, [Next]_vars
  PROVE  PinInvariant'
<1>1. CASE \E p \in Preparers : PrepareStep(p)
  BY <1>1, PinPrepare
<1>2. CASE \E e \in Executors : ExecuteStep(e)
  BY <1>2, PinExecute
<1>3. CASE Tick
  BY <1>3, PinTick
<1>4. CASE OperatorStep \/ UNCHANGED vars
  <2>1. UNCHANGED <<pending, prep, exec, sent, issued, repeated>>
    BY <1>4 DEF OperatorStep, ArmGate, VerifyRead, VerifyFetch, VerifyTemp,
       VerifyReplace, vars, storeVars, worldVars, idVars
  <2> QED BY <2>1 DEF PinInvariant, Pinned, Untouched
<1> QED BY <1>1, <1>2, <1>3, <1>4 DEF Next

\* PinInvariant is inductive (with the types) and gives what it is there for.
THEOREM DigestAgreement == Spec => []OneDigestPerOrder
<1>1. Init => TypeOK /\ LocalsOK /\ PinInvariant
  BY TypeInit, PinInit, SwapAssumption
<1>2. TypeOK /\ LocalsOK /\ PinInvariant /\ [Next]_vars
        => TypeOK' /\ LocalsOK' /\ PinInvariant'
  BY TypeStep, PinStep
<1>3. PinInvariant => OneDigestPerOrder
  BY DEF PinInvariant, OneDigestPerOrder, Pinned
<1> QED BY <1>1, <1>2, <1>3, PTL DEF Spec

-----------------------------------------------------------------------------
(* Locks.                                                                  *)

\* The only steps that touch a lock, and how.
LEMMA LockChanges ==
  ASSUME TypeOK, [Next]_vars, NEW r \in RequestIds, lock'[r] # lock[r]
  PROVE  \/ lock[r] = None /\ pending[r] # None
         \/ lock[r] # None /\ now' >= lock[r].ttlEnd
         \/ \E e \in Executors :
              HoldsLock(r, e) /\ exec[e].request = r /\ exec'[e] # exec[e]
<1> DEFINE Goal == \/ lock[r] = None /\ pending[r] # None
                   \/ lock[r] # None /\ now' >= lock[r].ttlEnd
                   \/ \E e \in Executors :
                        HoldsLock(r, e) /\ exec[e].request = r /\ exec'[e] # exec[e]
<1>1. lock \in [RequestIds -> LockRecord \cup {None}]
  BY DEF TypeOK, StoreTypeOK
<1>2. exec \in [Executors -> ExecRecord]
  BY DEF TypeOK
<1>3. ASSUME NEW p \in Preparers, PrepareStep(p) PROVE Goal
  <2>1. UNCHANGED lock
    BY <1>3 DEF PrepareStep, BeginPrepare, ReserveSlot, OrderAccepted, OrderRefused,
       BindRead, BindTemp, BindReplace, CommitSlot, ReleaseRead, ReleaseSlot,
       CrashPrepare, ReserveOK, ReserveRefused, CommitOK, CommitRefused,
       ReleaseReservation, storeVars
  <2> QED BY <2>1
<1>4. ASSUME NEW e \in Executors, ExecuteStep(e) PROVE Goal
  <2>1. ASSUME BeginExecution(e) PROVE Goal
    <3>1. BeginExecutionOK(exec[e].request, exec[e].digest, e)
      BY <2>1 DEF BeginExecution, BeginExecutionRefused, storeVars
    <3>2. exec[e].request = r
      BY <3>1, <1>1 DEF BeginExecutionOK
    <3>3. lock[r] = None /\ pending[r] # None
      BY <3>1, <3>2 DEF BeginExecutionOK, BeginVerdict
    <3> QED BY <3>3
  <2>2. ASSUME ExecEnd(e), exec[e].step # "idle" PROVE exec'[e] # exec[e]
    BY <2>2, <1>2 DEF ExecEnd, ExecIdle
  <2>3. ASSUME lock' = LockWithout(exec[e].request, e), exec'[e] # exec[e] PROVE Goal
    <3>1. HoldsLock(exec[e].request, e) /\ exec[e].request = r
      BY <2>3, <1>1 DEF LockWithout
    <3> QED BY <3>1, <2>3
  <2>4. ASSUME Complete(e) PROVE Goal
    <3>1. exec'[e] # exec[e]
      BY <2>4, <2>2, <1>2 DEF Complete, ExecAt, ExecGoto, ExecRecord
    <3> QED BY <3>1, <2>3, <2>4 DEF Complete, CompleteExecution
  <2>5. ASSUME Release(e) PROVE Goal
    BY <2>5, <2>2, <2>3 DEF Release, ReleaseExecution, ExecAt
  <2>6. ASSUME ~ BeginExecution(e), ~ Complete(e), ~ Release(e) PROVE UNCHANGED lock
    BY <2>6, <1>4 DEF ExecuteStep, LoadOrder, ConsumeRead, ConsumeTemp, ConsumeReplace,
       PostTransaction, AnswerUnusable, AnswerSuccess, AnswerFailed, RecordRead,
       RecordTemp, RecordReplace, CrashExecute, storeVars
  <2> QED BY <2>1, <2>4, <2>5, <2>6
<1>5. ASSUME OperatorStep PROVE Goal
  <2>1. UNCHANGED lock
    BY <1>5 DEF OperatorStep, ArmGate, VerifyRead, VerifyFetch, VerifyTemp,
       VerifyReplace, storeVars
  <2> QED BY <2>1
<1>6. ASSUME Tick PROVE Goal
  <2>1. lock' = Unexpired(lock, now + 1) /\ now' = now + 1
    BY <1>6 DEF Tick, Advance
  <2>2. lock[r] # None /\ lock[r].ttlEnd <= now + 1
    BY <2>1, <1>1 DEF Unexpired
  <2>3. lock[r].ttlEnd \in Nat /\ now \in Nat
    BY <1>1, <2>2 DEF LockRecord, TypeOK, StoreTypeOK
  <2> QED BY <2>1, <2>2, <2>3
<1>7. ASSUME UNCHANGED vars PROVE Goal
  BY <1>7 DEF vars, storeVars
<1> QED
  <2> HIDE DEF Goal
  <2>1. Goal
    BY <1>3, <1>4, <1>5, <1>6, <1>7 DEF Next
  <2> QED BY <2>1 DEF Goal

\* A lock that has not lapsed goes only by a step of the execution that holds
\* it, whatever its predecessors still do.
THEOREM OnlyOwnersUnlock == Spec => LockTakenBackByOwner
<1>1. TypeOK /\ [Next]_vars =>
        [\A e \in Executors, r \in RequestIds :
           HoldsLock(r, e) /\ lock'[r] # lock[r]
             => \/ now' >= lock[r].ttlEnd
                \/ exec[e].request = r /\ exec'[e] # exec[e]]_vars
  BY LockChanges DEF HoldsLock
<1> QED BY <1>1, TypeCorrect, PTL DEF Spec, LockTakenBackByOwner

-----------------------------------------------------------------------------
(* Confirmed orders.                                                       *)

\* An order that is off the record and that no call can commit any more.
Closed(r) ==
  /\ pending[r] = None
  /\ r \in issued
  /\ \A p \in Preparers : prep[p].request # r

SettledInvariant == \A r \in RequestIds \ repeated : "Success" \in settled[r] => Closed(r)

\* What the provider has repeated it has repeated for good.
LEMMA RepeatedGrows ==
  ASSUME [Next]_vars
  PROVE  repeated \subseteq repeated'
BY DEF Next, PrepareStep, BeginPrepare, ReserveSlot, OrderAccepted, OrderRefused,
   BindRead, BindTemp, BindReplace, CommitSlot, ReleaseRead, ReleaseSlot, CrashPrepare,
   OnlyExec, ExecuteStep, LoadOrder, BeginExecution, ConsumeRead, ConsumeTemp,
   ConsumeReplace, PostTransaction, AnswerUnusable, AnswerSuccess, AnswerFailed,
   Complete, RecordRead, RecordTemp, RecordReplace, Release, CrashExecute,
   OperatorStep, ArmGate, VerifyRead, VerifyFetch, VerifyTemp, VerifyReplace, Tick,
   vars, worldVars, idVars

\* A closed order stays closed while its id is not given out again: only the
\* call that was given it commits under it.
LEMMA ClosedStays ==
  ASSUME TypeOK, LocalsOK, [Next]_vars,
         NEW r \in RequestIds, r \notin repeated', Closed(r)
  PROVE  Closed(r)'
<1>0. /\ pending \in [RequestIds -> PendingRecord \cup {None}]
      /\ prep \in [Preparers -> PrepRecord] /\ exec \in [Executors -> ExecRecord]
      /\ None \notin RequestIds
  BY SwapAssumption DEF TypeOK, StoreTypeOK, SwapAssumption
<1>1. ASSUME pending'[r] = None, issued \subseteq issued',
             \A p \in Preparers : prep'[p].request \in {None, prep[p].request}
      PROVE  Closed(r)'
  BY <1>0, <1>1 DEF Closed
<1>2. ASSUME NEW p \in Preparers, PrepareStep(p) PROVE Closed(r)'
  <2> USE DEF PrepAt, PrepGoto, PrepEnd, OnlyPrep, idVars
  <2>1. ASSUME OrderAccepted(p) PROVE Closed(r)'
    <3>1. PICK i \in RequestIds, t \in Clocks :
            /\ issued' = issued \cup {i}
            /\ repeated' = repeated \cup ({i} \cap issued)
            /\ prep' = [prep EXCEPT ![p].request = i, ![p].read = t,
                          ![p].step = IF OneShot THEN "bind" ELSE "commit"]
      BY <2>1 DEF OrderAccepted
    <3>2. i # r /\ UNCHANGED pending
      BY <2>1, <3>1 DEF OrderAccepted, storeVars, Closed
    <3>3. /\ prep'[p].request = i
          /\ \A q \in Preparers : q # p => prep'[q] = prep[q]
      BY <1>0, <3>1 DEF PrepRecord
    <3> QED BY <3>1, <3>2, <3>3 DEF Closed
  <2>2. ASSUME CommitSlot(p) PROVE Closed(r)'
    <3>1. prep[p].request # r
      BY DEF Closed
    <3>2. pending'[r] = pending[r] /\ issued' = issued
      BY <1>0, <2>2, <3>1 DEF CommitSlot, CommitOK, CommitRefused
    <3>3. prep' = [prep EXCEPT ![p].step = "abort"] \/ prep' = [prep EXCEPT ![p] = PrepIdle]
      BY <2>2 DEF CommitSlot
    <3>4. \A q \in Preparers : prep'[q].request \in {None, prep[q].request}
      BY <1>0, <3>3 DEF PrepIdle, PrepRecord
    <3> QED BY <1>1, <3>2, <3>4 DEF Closed
  <2>3. ASSUME PrepareStep(p), ~ OrderAccepted(p), ~ CommitSlot(p) PROVE Closed(r)'
    <3>1. UNCHANGED pending /\ issued' = issued
      BY <2>3 DEF PrepareStep, BeginPrepare, ReserveSlot, ReserveOK, ReserveRefused,
         OrderRefused, BindRead, BindTemp, BindReplace, ReleaseRead, ReleaseSlot,
         ReleaseReservation, CrashPrepare, storeVars
    <3>2. /\ \A q \in Preparers : q # p => prep'[q] = prep[q]
          /\ prep'[p].request \in {None, prep[p].request}
      <4>1. CASE \E w \in Wallets, tk \in Tokens : BeginPrepare(p, w, tk)
        BY <1>0, <4>1 DEF BeginPrepare, PrepIdle
      <4>2. CASE ReserveSlot(p)
        BY <1>0, <4>2 DEF ReserveSlot, PrepRecord, PrepIdle
      <4>3. CASE OrderRefused(p) \/ BindRead(p) \/ BindTemp(p) \/ BindReplace(p)
        BY <1>0, <4>3 DEF OrderRefused, BindRead, BindTemp, BindReplace, PrepRecord
      <4>4. CASE ReleaseRead(p) \/ ReleaseSlot(p) \/ CrashPrepare(p)
        BY <1>0, <4>4 DEF ReleaseRead, ReleaseSlot, CrashPrepare, PrepIdle, PrepRecord
      <4> QED BY <2>3, <4>1, <4>2, <4>3, <4>4 DEF PrepareStep
    <3> QED BY <1>1, <3>1, <3>2 DEF Closed
  <2> QED BY <1>2, <2>1, <2>2, <2>3
<1>3. ASSUME NEW e \in Executors, ExecuteStep(e) PROVE Closed(r)'
  <2>1. UNCHANGED <<prep, issued>>
    BY <1>3 DEF OnlyExec, idVars, ExecuteStep, LoadOrder, BeginExecution, ConsumeRead,
       ConsumeTemp, ConsumeReplace, PostTransaction, AnswerUnusable, AnswerSuccess,
       AnswerFailed, Complete, RecordRead, RecordTemp, RecordReplace, Release,
       CrashExecute
  <2>2. ASSUME BeginExecution(e) PROVE pending'[r] = None
    <3>1. CASE BeginExecutionRefused(exec[e].request, exec[e].digest)
      BY <3>1 DEF BeginExecutionRefused, storeVars, Closed
    <3>2. CASE BeginExecutionOK(exec[e].request, exec[e].digest, e)
      <4>1. exec[e].request # r
        BY <3>2 DEF BeginExecutionOK, BeginVerdict, Closed
      <4> QED BY <1>0, <3>2, <4>1 DEF BeginExecutionOK, Closed
    <3> QED BY <2>2, <3>1, <3>2 DEF BeginExecution
  <2>3. ASSUME Complete(e) PROVE pending'[r] = None
    BY <1>0, <2>3 DEF Complete, CompleteExecution, Closed
  <2>4. ASSUME ~ BeginExecution(e), ~ Complete(e) PROVE pending'[r] = None
    BY <1>3, <2>4 DEF ExecuteStep, LoadOrder, ConsumeRead, ConsumeTemp, ConsumeReplace,
       PostTransaction, AnswerUnusable, AnswerSuccess, AnswerFailed, RecordRead,
       RecordTemp, RecordReplace, Release, ReleaseExecution, CrashExecute, storeVars,
       Closed
  <2> QED BY <1>1, <2>1, <2>2, <2>3, <2>4
<1>4. ASSUME Tick PROVE Closed(r)'
  <2>1. UNCHANGED <<prep, issued>> /\ pending'[r] = None
    BY <1>0, <1>4 DEF Tick, Advance, Unexpired, worldVars, idVars, Closed
  <2> QED BY <1>1, <2>1
<1>5. ASSUME OperatorStep \/ UNCHANGED vars PROVE Closed(r)'
  <2>1. UNCHANGED <<pending, prep, issued>>
    BY <1>5 DEF OperatorStep, ArmGate, VerifyRead, VerifyFetch, VerifyTemp,
       VerifyReplace, vars, storeVars, worldVars, idVars
  <2> QED BY <2>1 DEF Closed
<1> QED BY <1>2, <1>3, <1>4, <1>5 DEF Next

\* The step that learns of the confirmation closes the order.
LEMMA CompleteCloses ==
  ASSUME TypeOK, LocalsOK, PinInvariant, NEW e \in Executors, Complete(e),
         NEW r \in RequestIds \ repeated, exec[e].request = r
  PROVE  Closed(r)'
<1>1. pending'[r] = None /\ UNCHANGED <<prep, issued>>
  BY DEF Complete, CompleteExecution, OnlyExec, idVars, TypeOK, StoreTypeOK
<1>2. ~ Untouched(r)
  BY DEF Untouched
<1>3. r \in issued /\ \A p \in Preparers : prep[p].request # r
  BY <1>2 DEF PinInvariant
<1> QED BY <1>1, <1>3 DEF Closed

LEMMA SettledStep ==
  ASSUME TypeOK, LocalsOK, PinInvariant, SettledInvariant, [Next]_vars
  PROVE  SettledInvariant'
<1> SUFFICES ASSUME NEW r \in RequestIds \ repeated', "Success" \in settled'[r]
             PROVE  Closed(r)'
  BY DEF SettledInvariant
<1>0. r \notin repeated
  BY RepeatedGrows
<1>1. CASE "Success" \in settled[r]
  BY <1>0, <1>1, ClosedStays DEF SettledInvariant
<1>2. CASE "Success" \notin settled[r]
  <2>1. settled \in [RequestIds -> SUBSET Answers]
    BY DEF TypeOK
  <2>2. ASSUME NEW p \in Preparers, PrepareStep(p) PROVE UNCHANGED settled
    BY <2>2 DEF OnlyPrep, idVars, PrepareStep, BeginPrepare, ReserveSlot, OrderAccepted,
       OrderRefused, BindRead, BindTemp, BindReplace, CommitSlot, ReleaseRead,
       ReleaseSlot, CrashPrepare
  <2>3. ASSUME OperatorStep \/ Tick \/ UNCHANGED vars PROVE UNCHANGED settled
    BY <2>3 DEF OperatorStep, ArmGate, VerifyRead, VerifyFetch, VerifyTemp,
       VerifyReplace, Tick, vars, worldVars, idVars
  <2>4. PICK e \in Executors : ExecuteStep(e)
    BY <1>2, <2>2, <2>3 DEF Next
  <2>5. ASSUME ~ Complete(e), ~ AnswerFailed(e) PROVE UNCHANGED settled
    BY <2>4, <2>5 DEF OnlyExec, idVars, ExecuteStep, LoadOrder, BeginExecution, ConsumeRead,
       ConsumeTemp, ConsumeReplace, PostTransaction, AnswerUnusable, AnswerSuccess,
       RecordRead, RecordTemp, RecordReplace, Release, CrashExecute
  <2>6. ASSUME AnswerFailed(e) PROVE "Success" \notin settled'[r]
    BY <1>2, <2>1, <2>6 DEF AnswerFailed
  <2>7. Complete(e)
    BY <1>2, <2>5, <2>6
  <2>8. exec[e].request = r
    BY <1>2, <2>1, <2>7 DEF Complete
  <2> QED BY <1>0, <2>7, <2>8, CompleteCloses
<1> QED BY <1>1, <1>2

\* An order whose confirmation was taken in is never executed again: what is
\* locked is on record, and what is closed is not.
THEOREM ConfirmedStaysDone == Spec => ConfirmedNotRestarted
<1> DEFINE IInv == TypeOK /\ LocalsOK /\ PinInvariant /\ SettledInvariant
<1>1. Init => IInv
  BY TypeInit, PinInit, SwapAssumption DEF Init, SettledInvariant
<1>2. IInv /\ [Next]_vars => IInv'
  BY TypeStep, PinStep, SettledStep
<1>3. IInv /\ [Next]_vars =>
        [\A r \in RequestIds \ repeated :
           "Success" \in settled[r] /\ lock[r] = None => lock'[r] = None]_vars
  BY LockChanges DEF SettledInvariant, Closed, HoldsLock
<1> HIDE DEF IInv
<1> QED BY <1>1, <1>2, <1>3, PTL DEF Spec, ConfirmedNotRestarted

-----------------------------------------------------------------------------
(* Terms.                                                                  *)

KeepsTerms(r) ==
  pending[r] # None /\ pending'[r] # None
    => /\ pending'[r] = [pending[r] EXCEPT !.digest = pending'[r].digest]
       /\ pending[r].digest # None => pending'[r].digest = pending[r].digest

\* No step changes an order on record but to give it its first digest: commit
\* finds the id taken, and begin_execution refuses another digest.
LEMMA TermsStep ==
  ASSUME TypeOK, [Next]_vars, NEW r \in RequestIds
  PROVE  KeepsTerms(r)
<1>0. pending \in [RequestIds -> PendingRecord \cup {None}]
  BY DEF TypeOK, StoreTypeOK
<1>1. ASSUME pending'[r] \in {None, pending[r]} PROVE KeepsTerms(r)
  <2>1. CASE pending[r] # None /\ pending'[r] = pending[r]
    <3>1. pending[r] \in PendingRecord
      BY <1>0, <2>1
    <3>2. pending[r] = [pending[r] EXCEPT !.digest = pending[r].digest]
      BY <3>1 DEF PendingRecord
    <3> QED BY <2>1, <3>2 DEF KeepsTerms
  <2> QED BY <1>1, <2>1 DEF KeepsTerms
<1>2. ASSUME NEW p \in Preparers, PrepareStep(p) PROVE KeepsTerms(r)
  <2>1. ASSUME CommitSlot(p) PROVE KeepsTerms(r)
    <3>1. ASSUME NEW t, NEW life \in OrderLifetimes,
                 CommitOK(t, prep[p].slot, prep[p].request, prep[p].wallet,
                          prep[p].token, t + life)
          PROVE  KeepsTerms(r)
      <4>1. pending[prep[p].request] = None
        BY <3>1 DEF CommitOK, CommitVerdict, HeldFor
      <4>2. prep[p].request # r => pending'[r] = pending[r]
        BY <1>0, <3>1 DEF CommitOK
      <4> QED BY <1>1, <4>1, <4>2 DEF KeepsTerms
    <3>2. ASSUME UNCHANGED pending PROVE KeepsTerms(r)
      BY <1>1, <3>2
    <3> QED BY <2>1, <3>1, <3>2 DEF CommitSlot, CommitRefused
  <2>2. ASSUME ~ CommitSlot(p) PROVE UNCHANGED pending
    BY <1>2, <2>2 DEF PrepareStep, BeginPrepare, ReserveSlot, ReserveOK,
       ReserveRefused, OrderAccepted, OrderRefused, BindRead, BindTemp, BindReplace,
       ReleaseRead, ReleaseSlot, ReleaseReservation, CrashPrepare, storeVars
  <2> QED BY <1>1, <2>1, <2>2
<1>3. ASSUME NEW e \in Executors, ExecuteStep(e) PROVE KeepsTerms(r)
  <2>1. ASSUME BeginExecution(e) PROVE KeepsTerms(r)
    <3>1. CASE BeginExecutionRefused(exec[e].request, exec[e].digest)
      BY <1>1, <3>1 DEF BeginExecutionRefused, storeVars
    <3>2. CASE BeginExecutionOK(exec[e].request, exec[e].digest, e)
      <4>1. CASE exec[e].request # r
        BY <1>0, <1>1, <3>2, <4>1 DEF BeginExecutionOK
      <4>2. CASE exec[e].request = r
        <5>1. PICK d : d = exec[e].digest
          OBVIOUS
        <5>2. pending[r] # None /\ pending[r].digest \in {None, d}
          BY <3>2, <4>2, <5>1 DEF BeginExecutionOK, BeginVerdict
        <5>3. pending[r] \in PendingRecord
          BY <1>0, <5>2
        <5>4. pending'[r] = [pending[r] EXCEPT !.digest = d]
          BY <1>0, <3>2, <4>2, <5>1 DEF BeginExecutionOK
        <5>5. pending'[r].digest = d
          BY <5>3, <5>4 DEF PendingRecord
        <5> QED BY <5>2, <5>4, <5>5 DEF KeepsTerms
      <4> QED BY <4>1, <4>2
    <3> QED BY <2>1, <3>1, <3>2 DEF BeginExecution
  <2>2. ASSUME Complete(e) PROVE pending'[r] \in {None, pending[r]}
    BY <1>0, <2>2 DEF Complete, CompleteExecution
  <2>3. ASSUME ~ BeginExecution(e), ~ Complete(e) PROVE UNCHANGED pending
    BY <1>3, <2>3 DEF ExecuteStep, LoadOrder, ConsumeRead, ConsumeTemp, ConsumeReplace,
       PostTransaction, AnswerUnusable, AnswerSuccess, AnswerFailed, RecordRead,
       RecordTemp, RecordReplace, Release, ReleaseExecution, CrashExecute, storeVars
  <2> QED BY <1>1, <2>1, <2>2, <2>3
<1>4. ASSUME Tick PROVE KeepsTerms(r)
  <2>1. pending'[r] \in {None, pending[r]}
    BY <1>0, <1>4 DEF Tick, Advance, Unexpired
  <2> QED BY <1>1, <2>1
<1>5. ASSUME OperatorStep \/ UNCHANGED vars PROVE KeepsTerms(r)
  <2>1. UNCHANGED pending
    BY <1>5 DEF OperatorStep, ArmGate, VerifyRead, VerifyFetch, VerifyTemp,
       VerifyReplace, vars, storeVars
  <2> QED BY <1>1, <2>1
<1> QED BY <1>2, <1>3, <1>4, <1>5 DEF Next

\* An order under review keeps its terms, and its digest once it has one, even
\* where the provider repeats ids.
THEOREM TermsKept == Spec => PendingNeverReplaced
<1>1. TypeOK /\ [Next]_vars =>
        [\A r \in RequestIds :
           pending[r] # None /\ pending'[r] # None
             => /\ pending'[r] = [pending[r] EXCEPT !.digest = pending'[r].digest]
                /\ pending[r].digest # None
                     => pending'[r].digest = pending[r].digest]_vars
  BY TermsStep DEF KeepsTerms
<1> QED BY <1>1, TypeCorrect, PTL DEF Spec, PendingNeverReplaced

-----------------------------------------------------------------------------
(* Slots.                                                                  *)

\* What a member of a sorted set that still counts stands for: a reservation
\* of the wallet and token whose sets it is in, that outlives it but for the
\* lead of a replica's clock.
SlotBacked(x) ==
  \A k \in IndexKeys : index[k][ReservationMember(x)] > now + ClockLead =>
    /\ reservation[x] # None
    /\ k \in AdmissionKeys(reservation[x].wallet, reservation[x].token)
    /\ index[k][ReservationMember(x)] <= reservation[x].ttlEnd + ClockLead

\* The same of an order.
OrderBacked(r) ==
  \A k \in IndexKeys : index[k][OrderMember(r)] > now + ClockLead =>
    /\ pending[r] # None
    /\ k \in OrderKeys(pending[r].wallet, pending[r].token)
    /\ index[k][OrderMember(r)] <= pending[r].ttlEnd + ClockLead

\* A call that is about to give a slot or an order back knows its sets.
TermsAgree ==
  /\ \A p \in Preparers, x \in ReservationIds :
       prep[p].slot = x /\ reservation[x] # None
         => /\ reservation[x].wallet = prep[p].wallet
            /\ reservation[x].token = prep[p].token
  /\ \A e \in Executors, r \in RequestIds \ repeated :
       exec[e].request = r /\ pending[r] # None
         => /\ pending[r].wallet = exec[e].wallet
            /\ pending[r].token = exec[e].token

\* The reading a call carries with it was one of its clock's.
ReadAgree == \A p \in Preparers : prep[p].read \in Nat /\ prep[p].read <= now + ClockLead

BackedInvariant ==
  /\ \A x \in ReservationIds : SlotBacked(x)
  /\ \A r \in RequestIds \ repeated : OrderBacked(r)

\* Members stand for one reservation or one order each.
LEMMA MemberFacts ==
  /\ \A x \in ReservationIds : ReservationMember(x) \in Members
  /\ \A r \in RequestIds : OrderMember(r) \in Members
  /\ \A x, y : ReservationMember(x) = ReservationMember(y) => x = y
  /\ \A r, s : OrderMember(r) = OrderMember(s) => r = s
  /\ \A x, r : ReservationMember(x) # OrderMember(r)
  /\ \A m \in Members : \/ \E x \in ReservationIds : m = ReservationMember(x)
                        \/ \E r \in RequestIds : m = OrderMember(r)
BY DEF Members, ReservationMember, OrderMember

\* What a step may do to the store that the sorted sets or the slots notice.
StoreEffect ==
  \/ /\ UNCHANGED now
     /\ \E p \in Preparers, t \in Nat :
          LET x == prep[p].slot  r == prep[p].request
              w == prep[p].wallet  tk == prep[p].token
          IN /\ t <= now + ClockLead
             /\ w \in Wallets /\ tk \in Tokens
             /\ \/ /\ now <= t + ClockLag
                   /\ \E y \in ReservationIds : FreshSlot(y) /\ ReserveOK(t, y, w, tk)
                \/ ReserveRefused(t, w, tk)
                \/ /\ PrepAt(p, "commit")
                   /\ x \in ReservationIds /\ r \in RequestIds
                   /\ \/ \E life \in OrderLifetimes : CommitOK(t, x, r, w, tk, t + life)
                      \/ CommitRefused(t, x, r, w, tk)
                \/ x \in ReservationIds /\ ReleaseReservation(x, w, tk)
  \/ /\ UNCHANGED now
     /\ \E e \in Executors :
          LET r == exec[e].request  d == exec[e].digest
          IN /\ r \in RequestIds
             /\ \/ d \in Digests /\ BeginExecutionOK(r, d, e)
                \/ CompleteExecution(r, e, exec[e].wallet, exec[e].token)
  \/ Advance
  \/ UNCHANGED <<now, index, reservation, pending>>

\* What a caller's clock may show.
LEMMA Readings ==
  ASSUME TypeOK
  PROVE  \A t \in Clocks : t \in Nat /\ t <= now + ClockLead /\ now <= t + ClockLag
BY SwapAssumption DEF SwapAssumption, TypeOK, StoreTypeOK, Clocks

\* No call carries a reading from the future.
LEMMA ReadInit == ASSUME Init PROVE ReadAgree
BY SwapAssumption DEF SwapAssumption, Init, StoreInit, ReadAgree, PrepIdle

LEMMA ReadStep ==
  ASSUME TypeOK, ReadAgree, [Next]_vars
  PROVE  ReadAgree'
<1> USE SwapAssumption DEF SwapAssumption
<1>0. now \in Nat /\ prep \in [Preparers -> PrepRecord]
  BY DEF TypeOK, StoreTypeOK
<1>1. ASSUME NEW p \in Preparers, PrepareStep(p) PROVE ReadAgree'
  <2> USE DEF PrepAt, PrepGoto, PrepEnd, OnlyPrep, idVars
  <2>1. now' = now /\ \A q \in Preparers : q # p => prep'[q] = prep[q]
    BY <1>0, <1>1 DEF PrepareStep, BeginPrepare, ReserveSlot, OrderAccepted, OrderRefused,
       BindRead, BindTemp, BindReplace, CommitSlot, ReleaseRead, ReleaseSlot, CrashPrepare
  <2>2. prep'[p].read \in {0, prep[p].read} \cup Clocks
    <3>1. CASE \E w \in Wallets, tk \in Tokens : BeginPrepare(p, w, tk)
      <4>1. PICK w \in Wallets, tk \in Tokens :
              prep' = [prep EXCEPT ![p] = [PrepIdle EXCEPT !.step = "reserve", !.wallet = w,
                                                           !.token = tk]]
        BY <3>1 DEF BeginPrepare
      <4>2. prep'[p].read = 0
        BY <1>0, <4>1 DEF PrepIdle
      <4> QED BY <4>2
    <3>5. CASE ReserveSlot(p) \/ CommitSlot(p)
      BY <1>0, <3>5 DEF ReserveSlot, CommitSlot, PrepIdle, PrepRecord
    <3>2. CASE OrderAccepted(p)
      <4>1. PICK r \in RequestIds, t \in Clocks :
              prep' = [prep EXCEPT ![p].request = r, ![p].read = t,
                                   ![p].step = IF OneShot THEN "bind" ELSE "commit"]
        BY <3>2 DEF OrderAccepted
      <4>2. prep'[p].read = t
        BY <1>0, <4>1 DEF PrepRecord
      <4> QED BY <4>2
    <3>6. CASE OrderRefused(p)
      BY <1>0, <3>6 DEF OrderRefused, PrepRecord
    <3>3. CASE BindRead(p) \/ BindTemp(p) \/ BindReplace(p)
      BY <1>0, <3>3 DEF BindRead, BindTemp, BindReplace, PrepRecord
    <3>4. CASE ReleaseRead(p) \/ ReleaseSlot(p) \/ CrashPrepare(p)
      BY <1>0, <3>4 DEF ReleaseRead, ReleaseSlot, CrashPrepare, PrepIdle, PrepRecord
    <3> QED BY <1>1, <3>1, <3>2, <3>3, <3>4, <3>5, <3>6 DEF PrepareStep
  <2>3. prep'[p].read \in Nat /\ prep'[p].read <= now + ClockLead
    BY <1>0, <2>2, Readings DEF ReadAgree
  <2> QED BY <2>1, <2>3 DEF ReadAgree
<1>2. CASE \/ \E e \in Executors : ExecuteStep(e)
           \/ OperatorStep \/ Tick \/ UNCHANGED vars
  <2>1. prep' = prep /\ now' \in {now, now + 1}
    BY <1>2 DEF OnlyExec, ExecuteStep, LoadOrder, BeginExecution, ConsumeRead, ConsumeTemp,
       ConsumeReplace, PostTransaction, AnswerUnusable, AnswerSuccess, AnswerFailed,
       Complete, RecordRead, RecordTemp, RecordReplace, Release, CrashExecute,
       OperatorStep, ArmGate, VerifyRead, VerifyFetch, VerifyTemp, VerifyReplace, Tick,
       Advance, vars
  <2> QED BY <1>0, <2>1 DEF ReadAgree
<1> QED BY <1>1, <1>2 DEF Next

\* Every step is one of these.
LEMMA StoreEffects ==
  ASSUME TypeOK, LocalsOK, ReadAgree, [Next]_vars
  PROVE  StoreEffect
<1>1. ASSUME NEW p \in Preparers, PrepareStep(p) PROVE StoreEffect
  <2> USE DEF PrepAt, OnlyPrep, idVars
  <2>0. /\ prep[p] \in PrepRecord /\ PrepLocals(prep[p]) /\ UNCHANGED now
        /\ prep[p].read \in Nat /\ prep[p].read <= now + ClockLead
    BY <1>1 DEF ReadAgree, TypeOK, LocalsOK, PrepareStep,
       BeginPrepare, ReserveSlot, OrderAccepted, OrderRefused, BindRead, BindTemp,
       BindReplace, CommitSlot, ReleaseRead, ReleaseSlot, CrashPrepare
  <2>1. CASE ReserveSlot(p)
    BY <2>0, <2>1, Readings DEF ReserveSlot, StoreEffect, PrepRecord, PrepLocals
  <2>2. CASE CommitSlot(p)
    BY <2>0, <2>2 DEF CommitSlot, StoreEffect, PrepRecord, PrepLocals
  <2>3. CASE ReleaseSlot(p)
    BY <2>0, <2>3 DEF ReleaseSlot, StoreEffect, PrepRecord, PrepLocals
  <2>4. CASE ~ (ReserveSlot(p) \/ CommitSlot(p) \/ ReleaseSlot(p))
    BY <1>1, <2>0, <2>4
       DEF StoreEffect, PrepareStep, BeginPrepare, OrderAccepted, OrderRefused, BindRead,
           BindTemp, BindReplace, ReleaseRead, CrashPrepare, storeVars
  <2> QED BY <2>1, <2>2, <2>3, <2>4
<1>2. ASSUME NEW e \in Executors, ExecuteStep(e) PROVE StoreEffect
  <2> USE DEF ExecAt, OnlyExec, idVars
  <2>0. exec[e] \in ExecRecord /\ ExecLocals(exec[e]) /\ UNCHANGED now
    BY <1>2 DEF TypeOK, LocalsOK, ExecuteStep, LoadOrder, BeginExecution, ConsumeRead,
       ConsumeTemp, ConsumeReplace, PostTransaction, AnswerUnusable, AnswerSuccess,
       AnswerFailed, Complete, RecordRead, RecordTemp, RecordReplace, Release,
       CrashExecute
  <2>1. CASE BeginExecution(e)
    BY <2>0, <2>1 DEF BeginExecution, BeginExecutionRefused, StoreEffect, ExecRecord,
       ExecLocals, storeVars
  <2>2. CASE Complete(e)
    BY <2>0, <2>2 DEF Complete, StoreEffect, ExecRecord, ExecLocals
  <2>3. CASE ~ (BeginExecution(e) \/ Complete(e))
    BY <1>2, <2>0, <2>3
       DEF StoreEffect, ExecuteStep, LoadOrder, ConsumeRead, ConsumeTemp, ConsumeReplace,
           PostTransaction, AnswerUnusable, AnswerSuccess, AnswerFailed, RecordRead,
           RecordTemp, RecordReplace, Release, ReleaseExecution, CrashExecute, storeVars
  <2> QED BY <2>1, <2>2, <2>3
<1>3. CASE OperatorStep \/ UNCHANGED vars
  BY <1>3 DEF StoreEffect, OperatorStep, ArmGate, VerifyRead, VerifyFetch, VerifyTemp,
     VerifyReplace, vars, storeVars
<1>4. CASE Tick
  BY <1>4 DEF Tick, StoreEffect
<1> QED BY <1>1, <1>2, <1>3, <1>4 DEF Next

\* The terms a call knows stay those of its slot or order: only its own steps
\* create the slot, and an order is not committed under an id that is in use.
LEMMA TermsInit == ASSUME Init PROVE TermsAgree
BY SwapAssumption DEF SwapAssumption, Init, TermsAgree, PrepIdle, ExecIdle

\* A step keeps what the calls know in agreement with the store.
LEMMA TermsStepAgree ==
  ASSUME TypeOK, LocalsOK, PinInvariant, TermsAgree, [Next]_vars
  PROVE  TermsAgree'
<1> USE SwapAssumption DEF SwapAssumption
<1>0. /\ prep \in [Preparers -> PrepRecord] /\ exec \in [Executors -> ExecRecord]
      /\ reservation \in [ReservationIds -> ReservationRecord \cup {None}]
      /\ pending \in [RequestIds -> PendingRecord \cup {None}]
  BY DEF TypeOK, StoreTypeOK
<1>1. ASSUME \A x \in ReservationIds : reservation'[x] \in {None, reservation[x]},
             \A r \in RequestIds : pending'[r] # None =>
               /\ pending[r] # None
               /\ pending'[r].wallet = pending[r].wallet
               /\ pending'[r].token = pending[r].token,
             \A p \in Preparers : \/ prep'[p].slot = None
                                  \/ /\ prep'[p].slot = prep[p].slot
                                     /\ prep'[p].wallet = prep[p].wallet
                                     /\ prep'[p].token = prep[p].token,
             \A e \in Executors : \/ exec'[e].request = None
                                  \/ /\ exec'[e].request = exec[e].request
                                     /\ exec'[e].wallet = exec[e].wallet
                                     /\ exec'[e].token = exec[e].token
      PROVE  TermsAgree'
  BY <1>1, RepeatedGrows DEF TermsAgree
<1>2. ASSUME NEW p \in Preparers, PrepareStep(p) PROVE TermsAgree'
  <2> USE DEF PrepAt, PrepGoto, PrepEnd, OnlyPrep, idVars
  <2>0. exec' = exec
    BY <1>2 DEF PrepareStep, BeginPrepare, ReserveSlot, OrderAccepted, OrderRefused,
       BindRead, BindTemp, BindReplace, CommitSlot, ReleaseRead, ReleaseSlot, CrashPrepare
  <2>1. ASSUME NEW x \in ReservationIds, NEW t, FreshSlot(x),
               ReserveOK(t, x, prep[p].wallet, prep[p].token),
               prep' = [prep EXCEPT ![p].step = "order", ![p].slot = x]
        PROVE  TermsAgree'
    <3>1. /\ \A q \in Preparers : q # p => prep'[q] = prep[q] /\ prep[q].slot # x
          /\ prep'[p].slot = x /\ prep'[p].wallet = prep[p].wallet
          /\ prep'[p].token = prep[p].token
      BY <1>0, <2>1 DEF FreshSlot, PrepRecord
    <3>2. /\ pending' = pending
          /\ reservation'[x].wallet = prep[p].wallet /\ reservation'[x].token = prep[p].token
          /\ \A y \in ReservationIds : y # x => reservation'[y] = reservation[y]
      BY <1>0, <2>1 DEF ReserveOK
    <3> QED BY <2>0, <3>1, <3>2, RepeatedGrows DEF TermsAgree
  <2>2. ASSUME CommitSlot(p) PROVE TermsAgree'
    <3>1. \A q \in Preparers : \/ prep'[q].slot = None
                               \/ /\ prep'[q].slot = prep[q].slot
                                  /\ prep'[q].wallet = prep[q].wallet
                                  /\ prep'[q].token = prep[q].token
      <4>1. prep' = [prep EXCEPT ![p].step = "abort"] \/ prep' = [prep EXCEPT ![p] = PrepIdle]
        BY <2>2 DEF CommitSlot
      <4> QED BY <1>0, <4>1 DEF PrepIdle, PrepRecord
    <3>2. \A x \in ReservationIds : reservation'[x] \in {None, reservation[x]}
      <4>1. CASE reservation' = reservation
        BY <4>1
      <4>2. CASE reservation' = [reservation EXCEPT ![prep[p].slot] = None]
        BY <1>0, <4>2
      <4> QED BY <2>2, <4>1, <4>2 DEF CommitSlot, CommitOK, CommitRefused
    <3>3. prep[p].request \in RequestIds
      BY <1>0, <2>2 DEF CommitSlot, LocalsOK, PrepLocals, PrepRecord
    <3>4. prep[p].request \notin repeated
            => \A e \in Executors : exec[e].request # prep[p].request
      BY <3>3 DEF PinInvariant, Untouched
    <3>5. \A r \in RequestIds : r # prep[p].request => pending'[r] = pending[r]
      BY <1>0, <2>2 DEF CommitSlot, CommitOK, CommitRefused
    <3> QED BY <2>0, <3>1, <3>2, <3>3, <3>4, <3>5, RepeatedGrows DEF TermsAgree
  <2>3. ASSUME ReserveSlot(p), prep' = [prep EXCEPT ![p] = PrepIdle],
               UNCHANGED <<reservation, pending>>
        PROVE TermsAgree'
    <3>1. \A q \in Preparers : prep'[q].slot = None \/ prep'[q] = prep[q]
      BY <1>0, <2>3 DEF PrepIdle
    <3> QED BY <1>1, <2>0, <2>3, <3>1
  <2>4. ASSUME \/ \E w \in Wallets, tk \in Tokens : BeginPrepare(p, w, tk)
               \/ OrderAccepted(p) \/ OrderRefused(p)
               \/ BindRead(p) \/ BindTemp(p) \/ BindReplace(p)
               \/ ReleaseRead(p) \/ ReleaseSlot(p) \/ CrashPrepare(p)
        PROVE  TermsAgree'
    <3>1. pending' = pending /\ \A x \in ReservationIds : reservation'[x] \in {None, reservation[x]}
      BY <1>0, <2>4 DEF BeginPrepare, OrderAccepted, OrderRefused, BindRead, BindTemp,
         BindReplace, ReleaseRead, ReleaseSlot, ReleaseReservation, CrashPrepare, storeVars
    <3>2. \A q \in Preparers : q # p => prep'[q] = prep[q]
      BY <1>0, <2>4 DEF BeginPrepare, OrderAccepted, OrderRefused, BindRead, BindTemp,
         BindReplace, ReleaseRead, ReleaseSlot, CrashPrepare
    <3>3. \/ prep'[p].slot = None
          \/ /\ prep'[p].slot = prep[p].slot
             /\ prep'[p].wallet = prep[p].wallet
             /\ prep'[p].token = prep[p].token
      <4>1. CASE \E w \in Wallets, tk \in Tokens : BeginPrepare(p, w, tk)
        BY <1>0, <4>1 DEF BeginPrepare, PrepIdle
      <4>2. CASE OrderAccepted(p)
        BY <1>0, <4>2 DEF OrderAccepted, PrepRecord
      <4>6. CASE OrderRefused(p)
        BY <1>0, <4>6 DEF OrderRefused, PrepRecord
      <4>3. CASE BindTemp(p) \/ BindReplace(p)
        BY <1>0, <4>3 DEF BindTemp, BindReplace, PrepRecord
      <4>5. CASE BindRead(p)
        BY <1>0, <4>5 DEF BindRead, PrepRecord
      <4>4. CASE ReleaseRead(p) \/ ReleaseSlot(p) \/ CrashPrepare(p)
        BY <1>0, <4>4 DEF ReleaseRead, ReleaseSlot, CrashPrepare, PrepIdle, PrepRecord
      <4> QED BY <2>4, <4>1, <4>2, <4>3, <4>4, <4>5, <4>6
    <3> QED BY <1>1, <2>0, <3>1, <3>2, <3>3
  <2>5. ReserveSlot(p) => TermsAgree'
    BY <2>1, <2>3 DEF ReserveSlot, ReserveRefused
  <2> QED BY <1>2, <2>2, <2>4, <2>5 DEF PrepareStep
<1>3. ASSUME NEW e \in Executors, ExecuteStep(e) PROVE TermsAgree'
  <2> USE DEF ExecAt, ExecGoto, ExecEnd, OnlyExec, idVars
  <2>1. /\ prep' = prep /\ reservation' = reservation
        /\ \A f \in Executors : f # e => exec'[f] = exec[f]
    BY <1>0, <1>3 DEF ExecuteStep, LoadOrder, BeginExecution, BeginExecutionOK,
       BeginExecutionRefused, ConsumeRead, ConsumeTemp, ConsumeReplace, PostTransaction,
       AnswerUnusable, AnswerSuccess, AnswerFailed, Complete, CompleteExecution, RecordRead,
       RecordTemp, RecordReplace, Release, ReleaseExecution, CrashExecute, storeVars
  <2>2. ASSUME NEW r \in RequestIds, NEW d \in Digests, LoadOrder(e, r, d) PROVE TermsAgree'
    <3>1. /\ pending' = pending /\ exec'[e].request = r
          /\ exec'[e].wallet = pending[r].wallet /\ exec'[e].token = pending[r].token
      BY <1>0, <2>2 DEF LoadOrder, ExecIdle, storeVars
    <3> QED BY <2>1, <3>1, RepeatedGrows DEF TermsAgree
  <2>3. ASSUME ~ \E r \in RequestIds, d \in Digests : LoadOrder(e, r, d)
        PROVE  \/ exec'[e].request = None
               \/ /\ exec'[e].request = exec[e].request
                  /\ exec'[e].wallet = exec[e].wallet
                  /\ exec'[e].token = exec[e].token
    <3>1. CASE BeginExecution(e) \/ Complete(e) \/ PostTransaction(e)
      BY <1>0, <3>1 DEF BeginExecution, Complete, PostTransaction, ExecRecord, ExecIdle
    <3>2. CASE ConsumeRead(e) \/ ConsumeTemp(e) \/ ConsumeReplace(e)
      BY <1>0, <3>2 DEF ConsumeRead, ConsumeTemp, ConsumeReplace, ExecRecord, ExecIdle
    <3>3. CASE RecordRead(e) \/ RecordTemp(e) \/ RecordReplace(e)
      BY <1>0, <3>3 DEF RecordRead, RecordTemp, RecordReplace, ExecRecord, ExecIdle
    <3>4. CASE AnswerUnusable(e) \/ AnswerSuccess(e) \/ AnswerFailed(e)
      BY <1>0, <3>4 DEF AnswerUnusable, AnswerSuccess, AnswerFailed, ExecRecord, ExecIdle
    <3>5. CASE Release(e) \/ CrashExecute(e)
      BY <1>0, <3>5 DEF Release, CrashExecute, ExecIdle
    <3> QED BY <1>3, <2>3, <3>1, <3>2, <3>3, <3>4, <3>5 DEF ExecuteStep
  <2>4. \A r \in RequestIds : pending'[r] # None =>
               /\ pending[r] # None
               /\ pending'[r].wallet = pending[r].wallet
               /\ pending'[r].token = pending[r].token
    <3>1. CASE BeginExecutionOK(exec[e].request, exec[e].digest, e)
      <4>1. pending[exec[e].request] # None
        BY <3>1 DEF BeginExecutionOK, BeginVerdict
      <4> QED BY <1>0, <3>1, <4>1 DEF BeginExecutionOK, PendingRecord
    <3>2. CASE Complete(e)
      BY <1>0, <3>2 DEF Complete, CompleteExecution
    <3>3. CASE UNCHANGED pending
      BY <3>3
    <3> QED BY <1>3, <3>1, <3>2, <3>3
         DEF ExecuteStep, LoadOrder, BeginExecution, BeginExecutionRefused, ConsumeRead,
             ConsumeTemp, ConsumeReplace, PostTransaction, AnswerUnusable, AnswerSuccess,
             AnswerFailed, RecordRead, RecordTemp, RecordReplace, Release,
             ReleaseExecution, CrashExecute, storeVars
  <2> QED BY <1>1, <2>1, <2>2, <2>3, <2>4
<1>4. CASE OperatorStep \/ UNCHANGED vars
  <2>1. UNCHANGED <<reservation, pending, prep, exec>>
    BY <1>4 DEF OperatorStep, ArmGate, VerifyRead, VerifyFetch, VerifyTemp,
       VerifyReplace, vars, storeVars
  <2> QED BY <2>1, RepeatedGrows DEF TermsAgree
<1>5. CASE Tick
  <2>1. /\ UNCHANGED <<prep, exec>>
        /\ \A x \in ReservationIds : reservation'[x] \in {None, reservation[x]}
        /\ \A r \in RequestIds : pending'[r] \in {None, pending[r]}
    BY <1>0, <1>5 DEF Tick, Advance, Unexpired
  <2> QED BY <1>1, <2>1
<1> QED BY <1>2, <1>3, <1>4, <1>5 DEF Next

-----------------------------------------------------------------------------
(* What is counted exists.                                                 *)

\* A member enters a set with a score that its record outlives, and leaves its
\* sets with the record: the calls give them back on the record's own terms.
LEMMA BackedStep ==
  ASSUME TypeOK, LocalsOK, ReadAgree, TermsAgree, BackedInvariant, [Next]_vars
  PROVE  BackedInvariant'
<1> USE LimitsAssumption, NoneAssumption, SwapAssumption
        DEF LimitsAssumption, NoneAssumption, SwapAssumption
<1> DEFINE R(x) == ReservationMember(x)  O(r) == OrderMember(r)
           Backed == /\ \A x \in ReservationIds : SlotBacked(x)'
                     /\ \A r \in RequestIds \ repeated : OrderBacked(r)'
<1>0. /\ now \in Nat /\ ClockLead \in Nat
      /\ index \in [IndexKeys -> [Members -> Nat]]
      /\ reservation \in [ReservationIds -> ReservationRecord \cup {None}]
      /\ pending \in [RequestIds -> PendingRecord \cup {None}]
  BY DEF TypeOK, StoreTypeOK
<1>1. /\ \A k \in IndexKeys, m \in Members : index[k][m] \in Nat
      /\ \A x \in ReservationIds : reservation[x] # None => reservation[x].ttlEnd \in Nat
      /\ \A r \in RequestIds : pending[r] # None => pending[r].ttlEnd \in Nat
  BY <1>0 DEF ReservationRecord, PendingRecord
\* A member that is not set, and whose key stays, stays backed.
<1>2. ASSUME NEW x \in ReservationIds, now' = now,
             \A k \in IndexKeys : index'[k][R(x)] \in {0, index[k][R(x)]},
             reservation'[x] = reservation[x]
      PROVE  SlotBacked(x)'
  BY <1>0, <1>2 DEF BackedInvariant, SlotBacked
<1>3. ASSUME NEW r \in RequestIds \ repeated, now' = now,
             \A k \in IndexKeys : index'[k][O(r)] \in {0, index[k][O(r)]},
             pending'[r] = pending[r]
      PROVE  OrderBacked(r)'
  BY <1>0, <1>3 DEF BackedInvariant, OrderBacked
<1>4. ASSUME NEW t \in Nat, NEW keys, now' = now,
             index' = ZRemRangeByScore(index, keys, t), UNCHANGED <<reservation, pending>>
      PROVE  Backed
  <2>1. \A k \in IndexKeys, m \in Members : index'[k][m] \in {0, index[k][m]}
    BY <1>4 DEF ZRemRangeByScore
  <2> QED BY <1>2, <1>3, <1>4, <2>1, MemberFacts
<1>5. ASSUME NEW t \in Nat, t <= now + ClockLead, NEW y \in ReservationIds, NEW w \in Wallets,
             NEW tk \in Tokens, now' = now, FreshSlot(y), ReserveOK(t, y, w, tk)
      PROVE  Backed
  <2> DEFINE pruned == PrunedForReserve(t, w, tk)
  <2>1. index' = ZAdd(pruned, AdmissionKeys(w, tk), R(y), t + ReservationTtl)
    BY <1>5 DEF ReserveOK
  <2>2. \A k \in IndexKeys, m \in Members : pruned[k][m] \in {0, index[k][m]}
    BY DEF PrunedForReserve, ZRemRangeByScore
  <2>3. \A k \in IndexKeys, m \in Members :
          index'[k][m] = IF k \in AdmissionKeys(w, tk) /\ m = R(y)
                           THEN t + ReservationTtl ELSE pruned[k][m]
    BY <2>1 DEF ZAdd, ZSet
  <2>4. pending' = pending
        /\ reservation' = [reservation EXCEPT ![y] =
             [wallet |-> w, token |-> tk, expires |-> t + ReservationTtl,
              ttlEnd |-> now + ReservationTtl]]
    BY <1>5 DEF ReserveOK
  <2>5. \A r \in RequestIds \ repeated : OrderBacked(r)'
    BY <1>3, <1>5, <2>2, <2>3, <2>4, MemberFacts
  <2>6. \A x \in ReservationIds : x # y => SlotBacked(x)'
    BY <1>0, <1>2, <1>5, <2>2, <2>3, <2>4, MemberFacts
  <2>7. SlotBacked(y)'
    <3>1. /\ reservation'[y].wallet = w /\ reservation'[y].token = tk
          /\ reservation'[y].ttlEnd = now + ReservationTtl
      BY <1>0, <2>4
    <3>2. reservation'[y] # None
      <4>1. reservation'[y] \in ReservationRecord
        BY <1>0, <1>5, <2>4 DEF ReservationRecord
      <4> QED BY <4>1
    <3>4. ASSUME NEW k \in IndexKeys, index'[k][R(y)] > now' + ClockLead
          PROVE  k \in AdmissionKeys(w, tk) /\ index'[k][R(y)] <= now + ReservationTtl + ClockLead
      <4>1. index[k][R(y)] = 0
        BY <1>5 DEF FreshSlot
      <4> QED BY <1>0, <1>5, <2>2, <2>3, <3>4, <4>1, MemberFacts
    <3> QED BY <1>0, <3>1, <3>2, <3>4 DEF SlotBacked
  <2> QED BY <2>5, <2>6, <2>7
<1>6. ASSUME NEW t \in Nat, t <= now + ClockLead, NEW life \in OrderLifetimes, NEW y \in ReservationIds,
             NEW s \in RequestIds, NEW w \in Wallets, NEW tk \in Tokens, now' = now,
             CommitOK(t, y, s, w, tk, t + life)
      PROVE  Backed
  <2> DEFINE pruned == PrunedForCommit(t, w, tk)
  <2>1. /\ reservation[y] # None /\ reservation[y].wallet = w /\ reservation[y].token = tk
        /\ pending[s] = None
    BY <1>6 DEF CommitOK, CommitVerdict, HeldFor
  <2>2. \A k \in IndexKeys, m \in Members : pruned[k][m] \in {0, index[k][m]}
    BY DEF PrunedForCommit, ZRemRangeByScore
  <2>3. \A k \in IndexKeys, m \in Members :
          index'[k][m] = IF k \in OrderKeys(w, tk) /\ m = O(s) THEN t + life
                         ELSE IF k \in AdmissionKeys(w, tk) /\ m = R(y) THEN 0
                         ELSE pruned[k][m]
    BY <1>6 DEF CommitOK, ZAdd, ZRem, ZSet
  <2>4. /\ \A x \in ReservationIds : x # y => reservation'[x] = reservation[x]
        /\ \A r \in RequestIds : r # s => pending'[r] = pending[r]
        /\ pending'[s] = [wallet |-> w, token |-> tk, expires |-> t + life,
                          digest |-> None, ttlEnd |-> now + ((t + life) - t)]
    BY <1>0, <1>6 DEF CommitOK
  <2>5. \A x \in ReservationIds : x # y => SlotBacked(x)'
    BY <1>2, <1>6, <2>2, <2>3, <2>4, MemberFacts
  <2>6. SlotBacked(y)'
    <3>1. ASSUME NEW k \in IndexKeys, index'[k][R(y)] > now' + ClockLead PROVE FALSE
      <4>1. index[k][R(y)] > now + ClockLead /\ k \notin AdmissionKeys(w, tk)
        BY <1>0, <1>1, <1>6, <2>2, <2>3, <3>1, MemberFacts
      <4> QED BY <1>6, <2>1, <4>1 DEF BackedInvariant, SlotBacked
    <3> QED BY <3>1 DEF SlotBacked
  <2>7. \A r \in RequestIds \ repeated : r # s => OrderBacked(r)'
    BY <1>3, <1>6, <2>2, <2>3, <2>4, MemberFacts
  <2>8. s \notin repeated => OrderBacked(s)'
    <3>1. life \in Nat /\ now + ((t + life) - t) = now + life
          /\ t + life <= now + life + ClockLead
      BY <1>0, <1>6
    <3>2. pending'[s] # None /\ pending'[s].ttlEnd = now + life
      <4>1. pending'[s] \in PendingRecord /\ pending'[s].ttlEnd = now + life
        BY <1>0, <1>6, <2>4, <3>1 DEF PendingRecord
      <4> QED BY <4>1
    <3>3. pending'[s].wallet = w /\ pending'[s].token = tk
      BY <2>4
    <3>4. ASSUME s \notin repeated, NEW k \in IndexKeys, index'[k][O(s)] > now' + ClockLead
          PROVE  k \in OrderKeys(w, tk) /\ index'[k][O(s)] <= now + life + ClockLead
      <4>1. ~ index[k][O(s)] > now + ClockLead
        BY <1>6, <2>1, <3>4 DEF BackedInvariant, OrderBacked
      <4> QED BY <1>0, <1>1, <1>6, <2>2, <2>3, <3>1, <3>4, <4>1, MemberFacts
    <3> QED BY <3>2, <3>3, <3>4 DEF OrderBacked
  <2> QED BY <2>5, <2>6, <2>7, <2>8
<1>7. ASSUME NEW y \in ReservationIds, NEW w, NEW tk, now' = now,
             reservation[y] # None => reservation[y].wallet = w /\ reservation[y].token = tk,
             ReleaseReservation(y, w, tk)
      PROVE  Backed
  <2>1. \A k \in IndexKeys, m \in Members :
          index'[k][m] = IF k \in AdmissionKeys(w, tk) /\ m = R(y) THEN 0 ELSE index[k][m]
    BY <1>7 DEF ReleaseReservation, ZRem, ZSet
  <2>2. /\ \A x \in ReservationIds : x # y => reservation'[x] = reservation[x]
        /\ pending' = pending
    BY <1>0, <1>7 DEF ReleaseReservation
  <2>3. SlotBacked(y)'
    <3>1. ASSUME NEW k \in IndexKeys, index'[k][R(y)] > now' + ClockLead PROVE FALSE
      <4>1. index[k][R(y)] > now + ClockLead /\ k \notin AdmissionKeys(w, tk)
        BY <1>0, <1>7, <2>1, <3>1, MemberFacts
      <4>2. reservation[y] # None
        BY <1>7, <4>1 DEF BackedInvariant, SlotBacked
      <4>3. reservation[y].wallet = w /\ reservation[y].token = tk
        BY <1>7, <4>2
      <4> QED BY <1>7, <4>1, <4>3 DEF BackedInvariant, SlotBacked
    <3> QED BY <3>1 DEF SlotBacked
  <2>4. \A x \in ReservationIds : x # y => SlotBacked(x)'
    BY <1>2, <1>7, <2>1, <2>2, MemberFacts
  <2>5. \A r \in RequestIds \ repeated : OrderBacked(r)'
    BY <1>3, <1>7, <2>1, <2>2, MemberFacts
  <2> QED BY <2>3, <2>4, <2>5
<1>8. ASSUME NEW e \in Executors, NEW s \in RequestIds, NEW w, NEW tk, now' = now,
             s \notin repeated /\ pending[s] # None
               => pending[s].wallet = w /\ pending[s].token = tk,
             CompleteExecution(s, e, w, tk)
      PROVE  Backed
  <2>1. \A k \in IndexKeys, m \in Members :
          index'[k][m] = IF k \in OrderKeys(w, tk) /\ m = O(s) THEN 0 ELSE index[k][m]
    BY <1>8 DEF CompleteExecution, ZRem, ZSet
  <2>2. /\ \A r \in RequestIds : r # s => pending'[r] = pending[r]
        /\ reservation' = reservation
    BY <1>0, <1>8 DEF CompleteExecution
  <2>3. s \notin repeated => OrderBacked(s)'
    <3>1. ASSUME s \notin repeated, NEW k \in IndexKeys, index'[k][O(s)] > now' + ClockLead PROVE FALSE
      <4>1. index[k][O(s)] > now + ClockLead /\ k \notin OrderKeys(w, tk)
        BY <1>0, <1>8, <2>1, <3>1, MemberFacts
      <4>2. pending[s] # None
        BY <1>8, <3>1, <4>1 DEF BackedInvariant, OrderBacked
      <4>3. pending[s].wallet = w /\ pending[s].token = tk
        BY <1>8, <3>1, <4>2
      <4> QED BY <1>8, <3>1, <4>1, <4>3 DEF BackedInvariant, OrderBacked
    <3> QED BY <3>1 DEF OrderBacked
  <2>4. \A r \in RequestIds \ repeated : r # s => OrderBacked(r)'
    BY <1>3, <1>8, <2>1, <2>2, MemberFacts
  <2>5. \A x \in ReservationIds : SlotBacked(x)'
    BY <1>2, <1>8, <2>1, <2>2, MemberFacts
  <2> QED BY <2>3, <2>4, <2>5
<1>9. ASSUME NEW e, NEW s \in RequestIds, NEW d \in Digests, now' = now,
             BeginExecutionOK(s, d, e)
      PROVE  Backed
  <2>1. UNCHANGED <<now, index, reservation>>
    BY <1>9 DEF BeginExecutionOK
  <2>2. \A r \in RequestIds : r # s => pending'[r] = pending[r]
    BY <1>0, <1>9 DEF BeginExecutionOK
  <2>3. pending[s] \in PendingRecord /\ pending'[s] = [pending[s] EXCEPT !.digest = d]
    BY <1>0, <1>9 DEF BeginExecutionOK, BeginVerdict
  <2>4. pending'[s].wallet = pending[s].wallet /\ pending'[s].token = pending[s].token
        /\ pending'[s].ttlEnd = pending[s].ttlEnd
    BY <2>3 DEF PendingRecord
  <2>5. pending'[s] # None
    <3>1. pending'[s] \in PendingRecord
      BY <2>3 DEF PendingRecord
    <3> QED BY <3>1
  <2>6. s \notin repeated => OrderBacked(s)'
    BY <1>9, <2>1, <2>4, <2>5 DEF BackedInvariant, OrderBacked
  <2> QED BY <1>2, <1>3, <2>1, <2>2, <2>6
<1>10. ASSUME Advance PROVE Backed
  <2>1. now' = now + 1 /\ index' = index
    BY <1>10 DEF Advance
  <2>2. ASSUME NEW x \in ReservationIds PROVE SlotBacked(x)'
    <3>1. ASSUME NEW k \in IndexKeys, index'[k][R(x)] > now' + ClockLead
          PROVE  /\ reservation[x] # None /\ reservation'[x] = reservation[x]
                 /\ k \in AdmissionKeys(reservation[x].wallet, reservation[x].token)
                 /\ index[k][R(x)] <= reservation[x].ttlEnd + ClockLead
      <4>1. index[k][R(x)] > now + ClockLead /\ index[k][R(x)] > now + 1 + ClockLead
        BY <1>0, <1>1, <2>1, <3>1, MemberFacts
      <4>2. /\ reservation[x] # None
            /\ k \in AdmissionKeys(reservation[x].wallet, reservation[x].token)
            /\ index[k][R(x)] <= reservation[x].ttlEnd + ClockLead
        BY <4>1 DEF BackedInvariant, SlotBacked
      <4>3. ~ reservation[x].ttlEnd <= now + 1
        BY <1>0, <1>1, <4>1, <4>2, MemberFacts
      <4> QED BY <1>0, <1>10, <4>2, <4>3 DEF Advance, Unexpired
    <3> QED BY <2>1, <3>1 DEF SlotBacked
  <2>3. ASSUME NEW r \in RequestIds \ repeated PROVE OrderBacked(r)'
    <3>1. ASSUME NEW k \in IndexKeys, index'[k][O(r)] > now' + ClockLead
          PROVE  /\ pending[r] # None /\ pending'[r] = pending[r]
                 /\ k \in OrderKeys(pending[r].wallet, pending[r].token)
                 /\ index[k][O(r)] <= pending[r].ttlEnd + ClockLead
      <4>1. index[k][O(r)] > now + ClockLead /\ index[k][O(r)] > now + 1 + ClockLead
        BY <1>0, <1>1, <2>1, <3>1, MemberFacts
      <4>2. /\ pending[r] # None
            /\ k \in OrderKeys(pending[r].wallet, pending[r].token)
            /\ index[k][O(r)] <= pending[r].ttlEnd + ClockLead
        BY <4>1 DEF BackedInvariant, OrderBacked
      <4>3. ~ pending[r].ttlEnd <= now + 1
        BY <1>0, <1>1, <4>1, <4>2, MemberFacts
      <4> QED BY <1>0, <1>10, <4>2, <4>3 DEF Advance, Unexpired
    <3> QED BY <2>1, <3>1 DEF OrderBacked
  <2> QED BY <2>2, <2>3
<1>11. ASSUME UNCHANGED <<now, index, reservation, pending>> PROVE Backed
  BY <1>2, <1>3, <1>11 DEF BackedInvariant
<1> QED
  <2>1. ASSUME NEW p \in Preparers, NEW t \in Nat, now' = now,
               \/ ReserveRefused(t, prep[p].wallet, prep[p].token)
               \/ CommitRefused(t, prep[p].slot, prep[p].request, prep[p].wallet, prep[p].token)
        PROVE  Backed
    BY <1>4, <2>1 DEF ReserveRefused, PrunedForReserve, CommitRefused, PrunedForCommit
  <2>2. ASSUME NEW p \in Preparers, now' = now, prep[p].slot \in ReservationIds,
               ReleaseReservation(prep[p].slot, prep[p].wallet, prep[p].token)
        PROVE  Backed
    BY <1>7, <2>2 DEF TermsAgree
  <2>3. ASSUME NEW e \in Executors, now' = now, exec[e].request \in RequestIds,
               CompleteExecution(exec[e].request, e, exec[e].wallet, exec[e].token)
        PROVE  Backed
    BY <1>8, <2>3 DEF TermsAgree
  <2>4. StoreEffect
    BY StoreEffects
  <2> HIDE DEF Backed
  <2>5. Backed
    BY <1>5, <1>6, <1>9, <1>10, <1>11, <2>1, <2>2, <2>3, <2>4 DEF StoreEffect
  <2> QED BY <2>5, RepeatedGrows DEF Backed, BackedInvariant

\* No capacity is held by something that is gone: a member of a sorted set that
\* still counts against a limit by any replica's clock stands for a reservation
\* or an order that still exists, however far the clocks are apart and however
\* slow the calls, unless the provider gave the order's id out again.
THEOREM NoSlotLeaks == Spec => []SlotsBacked
<1> DEFINE IInv == /\ TypeOK /\ LocalsOK /\ PinInvariant
                   /\ TermsAgree /\ ReadAgree /\ BackedInvariant
<1>1. Init => IInv
  <2>1. Init => BackedInvariant
    BY MemberFacts, SwapAssumption
       DEF SwapAssumption, Init, StoreInit, BackedInvariant, SlotBacked, OrderBacked
  <2> QED BY <2>1, TypeInit, PinInit, TermsInit, ReadInit, SwapAssumption
<1>2. IInv /\ [Next]_vars => IInv'
  BY TypeStep, PinStep, TermsStepAgree, ReadStep, BackedStep
<1>3. IInv => SlotsBacked
  BY DEF BackedInvariant, SlotBacked, OrderBacked, SlotsBacked
<1> HIDE DEF IInv
<1> QED BY <1>1, <1>2, <1>3, PTL DEF Spec

-----------------------------------------------------------------------------
(* Capacity.                                                               *)

\* The members of a sorted set that count by any replica's clock.
Live(k) == {m \in Members : index[k][m] > now + ClockLead}

\* All its members; they are added one by one.
Stored(k) == {m \in Members : index[k][m] > 0}
FinitelyStored == \A k \in IndexKeys : IsFiniteSet(Stored(k))

\* The sets that admission counts, each with its limit.
Limited(k, n) ==
  \/ k = Active /\ n = AdmissionLimit
  \/ n = WalletLimit /\ \E w \in Wallets : k = WalletKey(w)
  \/ n = WalletTokenLimit /\ \E w \in Wallets, tk \in Tokens : k = PairKey(w, tk)

CountsWithin ==
  /\ Cardinality(Live(PendingIndex)) <= MaxPending
  /\ "slot" \notin late =>
       \A k \in IndexKeys, n \in Nat : Limited(k, n) => Cardinality(Live(k)) <= n

\* While no replica may take a reservation for expired it counts in every set
\* of its wallet and token, and so does an order.
SlotCounted(x) ==
  Current(reservation[x]) =>
    \A k \in AdmissionKeys(reservation[x].wallet, reservation[x].token) :
      index[k][ReservationMember(x)] >= reservation[x].expires

OrderCounted(r) ==
  Current(pending[r]) =>
    \A k \in OrderKeys(pending[r].wallet, pending[r].token) :
      index[k][OrderMember(r)] >= pending[r].expires

CountedInvariant ==
  /\ \A x \in ReservationIds : SlotCounted(x)
  /\ \A r \in RequestIds : OrderCounted(r)

\* The slot of a call that has not outlived it still counts, if it exists.
SlotInTime(p) ==
  (/\ prep[p].step \notin {"idle", "reserve"}
   /\ prep[p].slot \in ReservationIds
   /\ reservation[prep[p].slot] # None)
  => reservation[prep[p].slot].expires > now + ClockLead

SlotsInTime == "slot" \notin late => \A p \in Preparers : SlotInTime(p)

\* The sets that admission counts are keys, and each has its limit.
LEMMA KeyFacts ==
  ASSUME NEW w \in Wallets, NEW tk \in Tokens
  PROVE  /\ AdmissionKeys(w, tk) \subseteq IndexKeys
         /\ OrderKeys(w, tk) \subseteq IndexKeys
         /\ \A n : ~ Limited(PendingIndex, n)
         /\ \A n : Limited(Active, n) <=> n = AdmissionLimit
         /\ \A n : Limited(WalletKey(w), n) <=> n = WalletLimit
         /\ \A n : Limited(PairKey(w, tk), n) <=> n = WalletTokenLimit
<1>1. AdmissionKeys(w, tk) \subseteq IndexKeys /\ OrderKeys(w, tk) \subseteq IndexKeys
  <2>1. <<w, tk>> \in Wallets \X Tokens /\ PairKey(w, tk) = PairKey(<<w, tk>>[1], <<w, tk>>[2])
    OBVIOUS
  <2>2. AdmissionKeys(w, tk) \subseteq IndexKeys
    BY <2>1 DEF AdmissionKeys, IndexKeys
  <2> QED BY <2>2 DEF OrderKeys, IndexKeys
<1>2. /\ PendingIndex # Active
      /\ \A v \in Wallets : /\ WalletKey(v) # PendingIndex /\ WalletKey(v) # Active
                            /\ \A u \in Wallets, uk \in Tokens :
                                 /\ PairKey(u, uk) # WalletKey(v)
                                 /\ PairKey(u, uk) # PendingIndex
                                 /\ PairKey(u, uk) # Active
  BY DEF PendingIndex, Active, WalletKey, PairKey
<1> HIDE DEF PendingIndex, Active
<1> QED BY <1>1, <1>2 DEF Limited

\* A call admitted to a slot found room in each of its sets.
LEMMA ReserveRoom ==
  ASSUME NEW ix, NEW w \in Wallets, NEW tk \in Tokens,
         ReserveVerdict(ix, w, tk) = "OK",
         \A k \in AdmissionKeys(w, tk) : ZCard(ix, k) \in Nat,
         NEW k \in AdmissionKeys(w, tk), NEW n \in Nat, Limited(k, n)
  PROVE  ZCard(ix, k) < n
<1>1. /\ ~ ZCard(ix, Active) >= AdmissionLimit
      /\ ~ (ZCard(ix, Active) < AdmissionLimit /\ ZCard(ix, WalletKey(w)) >= WalletLimit)
      /\ ~ (/\ ZCard(ix, Active) < AdmissionLimit
            /\ ZCard(ix, WalletKey(w)) < WalletLimit
            /\ ZCard(ix, PairKey(w, tk)) >= WalletTokenLimit)
  BY DEF ReserveVerdict
<1>2. /\ ZCard(ix, Active) < AdmissionLimit
      /\ ZCard(ix, WalletKey(w)) < WalletLimit
      /\ ZCard(ix, PairKey(w, tk)) < WalletTokenLimit
  BY <1>1, LimitsAssumption DEF LimitsAssumption, AdmissionKeys
<1> QED BY <1>2, KeyFacts DEF AdmissionKeys

\* One more member raises a count by one at most.
LEMMA AddMember ==
  ASSUME NEW S, NEW x, IsFiniteSet(S)
  PROVE  /\ IsFiniteSet(S \cup {x})
         /\ Cardinality(S) \in Nat /\ Cardinality(S \cup {x}) \in Nat
         /\ Cardinality(S \cup {x}) <= Cardinality(S) + 1
<1>1. /\ IsFiniteSet(S \cup {x})
      /\ Cardinality(S \cup {x}) = IF x \in S THEN Cardinality(S) ELSE Cardinality(S) + 1
  BY FS_AddElement
<1>2. Cardinality(S) \in Nat
  BY FS_CardinalityType
<1> QED BY <1>1, <1>2

\* Distinct slots are distinct members.
LEMMA HeldBound ==
  ASSUME NEW S \in SUBSET ReservationIds, NEW T \in SUBSET RequestIds, NEW L,
         IsFiniteSet(L),
         \A x \in S : ReservationMember(x) \in L,
         \A r \in T : OrderMember(r) \in L
  PROVE  /\ Cardinality(S) + Cardinality(T) <= Cardinality(L)
         /\ Cardinality(S) \in Nat /\ Cardinality(T) \in Nat /\ Cardinality(L) \in Nat
<1> DEFINE A == {ReservationMember(x) : x \in S}
           B == {OrderMember(r) : r \in T}
<1>1. A \subseteq L /\ B \subseteq L /\ A \cap B = {}
  BY MemberFacts
<1>2. IsFiniteSet(A) /\ IsFiniteSet(B)
  BY <1>1, FS_Subset
<1>3. Cardinality(S) <= Cardinality(A) /\ IsFiniteSet(S)
  <2>1. [x \in S |-> ReservationMember(x)] \in Injection(S, A)
    BY MemberFacts DEF Injection, IsInjective
  <2> QED BY <1>2, <2>1, FS_Injection
<1>4. Cardinality(T) <= Cardinality(B) /\ IsFiniteSet(T)
  <2>1. [r \in T |-> OrderMember(r)] \in Injection(T, B)
    BY MemberFacts DEF Injection, IsInjective
  <2> QED BY <1>2, <2>1, FS_Injection
<1>5. Cardinality(A \cup B) = Cardinality(A) + Cardinality(B)
  <2>1. Cardinality(A \cup B) = Cardinality(A) + Cardinality(B) - Cardinality(A \cap B)
    BY <1>2, FS_Union
  <2>2. Cardinality(A \cap B) = 0
    BY <1>1, FS_EmptySet
  <2> QED BY <1>2, <2>1, <2>2, FS_CardinalityType
<1>6. Cardinality(A \cup B) <= Cardinality(L) /\ Cardinality(L) \in Nat
  BY <1>1, FS_Subset, FS_CardinalityType
<1>7. Cardinality(S) \in Nat /\ Cardinality(T) \in Nat
      /\ Cardinality(A) \in Nat /\ Cardinality(B) \in Nat
  BY <1>2, <1>3, <1>4, FS_CardinalityType
<1> HIDE DEF A, B
<1> QED BY <1>3, <1>4, <1>5, <1>6, <1>7

\* No step makes a call timely again that has outlived its slot or its lock.
LEMMA LateGrows ==
  ASSUME [Next]_vars
  PROVE  late \subseteq late'
BY DEF Next, PrepareStep, BeginPrepare, ReserveSlot, OrderAccepted, OrderRefused,
   BindRead, BindTemp, BindReplace, CommitSlot, ReleaseRead, ReleaseSlot, CrashPrepare,
   OnlyPrep, OnlyExec, ExecuteStep, LoadOrder, BeginExecution, ConsumeRead, ConsumeTemp,
   ConsumeReplace, PostTransaction, AnswerUnusable, AnswerSuccess, AnswerFailed,
   Complete, RecordRead, RecordTemp, RecordReplace, Release, CrashExecute,
   OperatorStep, ArmGate, VerifyRead, VerifyFetch, VerifyTemp, VerifyReplace, Tick, vars

\* A new slot outlives the difference of the clocks, and time passes it only
\* on record.
LEMMA InTimeStep ==
  ASSUME TypeOK, LocalsOK, SlotsInTime, [Next]_vars
  PROVE  SlotsInTime'
<1> USE SwapAssumption, LimitsAssumption, SkewAssumption
        DEF SwapAssumption, LimitsAssumption, SkewAssumption
<1>0. /\ now \in Nat /\ prep \in [Preparers -> PrepRecord]
      /\ reservation \in [ReservationIds -> ReservationRecord \cup {None}]
      /\ \A x \in ReservationIds : reservation[x] # None => reservation[x].expires \in Nat
  BY DEF TypeOK, StoreTypeOK, ReservationRecord
<1>1. ASSUME now' = now, late' = late,
             \A x \in ReservationIds : reservation'[x] \in {None, reservation[x]},
             \A q \in Preparers :
               \/ prep'[q].step \in {"idle", "reserve"}
               \/ /\ prep[q].step \notin {"idle", "reserve"}
                  /\ prep'[q].slot = prep[q].slot
      PROVE  SlotsInTime'
  BY <1>0, <1>1 DEF SlotsInTime, SlotInTime
<1>2. ASSUME NEW p \in Preparers, PrepareStep(p) PROVE SlotsInTime'
  <2> USE DEF PrepAt, PrepGoto, PrepEnd, OnlyPrep
  <2>0. now' = now /\ late' = late
    BY <1>2 DEF PrepareStep, BeginPrepare, ReserveSlot, OrderAccepted, OrderRefused,
       BindRead, BindTemp, BindReplace, CommitSlot, ReleaseRead, ReleaseSlot, CrashPrepare
  <2>1. ASSUME NEW x \in ReservationIds, NEW t \in Clocks, FreshSlot(x),
               ReserveOK(t, x, prep[p].wallet, prep[p].token),
               prep' = [prep EXCEPT ![p].step = "order", ![p].slot = x]
        PROVE  SlotsInTime'
    <3>1. /\ \A q \in Preparers : q # p => prep'[q] = prep[q] /\ prep[q].slot # x
          /\ prep'[p].slot = x
      BY <1>0, <2>1 DEF FreshSlot, PrepRecord
    <3>2. /\ reservation'[x].expires = t + ReservationTtl
          /\ \A y \in ReservationIds : y # x => reservation'[y] = reservation[y]
      BY <1>0, <2>1 DEF ReserveOK
    <3>3. t + ReservationTtl > now + ClockLead
      <4>1. t \in Nat /\ now <= t + ClockLag
        BY Readings
      <4> QED BY <1>0, <4>1
    <3>4. SlotInTime(p)'
      BY <2>0, <3>1, <3>2, <3>3 DEF SlotInTime
    <3>5. \A q \in Preparers : q # p /\ SlotInTime(q) => SlotInTime(q)'
      BY <2>0, <3>1, <3>2 DEF SlotInTime
    <3> QED BY <2>0, <3>4, <3>5 DEF SlotsInTime
  <2>2. ASSUME \/ \E w \in Wallets, tk \in Tokens : BeginPrepare(p, w, tk)
               \/ OrderAccepted(p) \/ OrderRefused(p)
               \/ BindRead(p) \/ BindTemp(p) \/ BindReplace(p) \/ CommitSlot(p)
               \/ ReleaseRead(p) \/ ReleaseSlot(p) \/ CrashPrepare(p)
               \/ /\ UNCHANGED reservation
                  /\ prep' = [prep EXCEPT ![p] = PrepIdle]
        PROVE  SlotsInTime'
    <3>1. \A x \in ReservationIds : reservation'[x] \in {None, reservation[x]}
      <4>1. CASE UNCHANGED reservation
        BY <4>1
      <4>2. CASE reservation' = [reservation EXCEPT ![prep[p].slot] = None]
        BY <1>0, <4>2
      <4> QED BY <2>2, <4>1, <4>2 DEF BeginPrepare, OrderAccepted, OrderRefused, BindRead,
           BindTemp, BindReplace, CommitSlot, CommitOK, CommitRefused, ReleaseRead,
           ReleaseSlot, ReleaseReservation, CrashPrepare, storeVars
    <3>2. \A q \in Preparers : q # p => prep'[q] = prep[q]
      BY <1>0, <2>2 DEF BeginPrepare, OrderAccepted, OrderRefused, BindRead, BindTemp,
         BindReplace, CommitSlot, ReleaseRead, ReleaseSlot, CrashPrepare
    <3>3. \/ prep'[p].step \in {"idle", "reserve"}
          \/ /\ prep[p].step \notin {"idle", "reserve"}
             /\ prep'[p].slot = prep[p].slot
      <4>1. CASE \E w \in Wallets, tk \in Tokens : BeginPrepare(p, w, tk)
        BY <1>0, <4>1 DEF BeginPrepare, PrepIdle
      <4>7. CASE prep' = [prep EXCEPT ![p] = PrepIdle]
        BY <1>0, <4>7 DEF PrepIdle
      <4>2. CASE OrderAccepted(p)
        BY <1>0, <4>2 DEF OrderAccepted, PrepRecord
      <4>3. CASE OrderRefused(p)
        BY <1>0, <4>3 DEF OrderRefused, PrepRecord
      <4>4. CASE BindTemp(p) \/ BindReplace(p)
        BY <1>0, <4>4 DEF BindTemp, BindReplace, PrepRecord
      <4>5. CASE BindRead(p) \/ CommitSlot(p)
        BY <1>0, <4>5 DEF BindRead, CommitSlot, PrepRecord, PrepIdle
      <4>6. CASE ReleaseRead(p) \/ ReleaseSlot(p) \/ CrashPrepare(p)
        BY <1>0, <4>6 DEF ReleaseRead, ReleaseSlot, CrashPrepare, PrepIdle, PrepRecord
      <4> QED BY <2>2, <4>1, <4>2, <4>3, <4>4, <4>5, <4>6, <4>7
    <3> QED BY <1>1, <2>0, <3>1, <3>2, <3>3
  <2>3. ReserveSlot(p) => SlotsInTime'
    BY <2>1, <2>2 DEF ReserveSlot, ReserveRefused
  <2> QED BY <1>2, <2>2, <2>3 DEF PrepareStep
<1>3. CASE \/ \E e \in Executors : ExecuteStep(e)
           \/ OperatorStep \/ UNCHANGED vars
  <2>1. UNCHANGED <<now, late, prep, reservation>>
    BY <1>3 DEF OnlyExec, ExecuteStep, LoadOrder, BeginExecution, BeginExecutionOK,
       BeginExecutionRefused, ConsumeRead, ConsumeTemp, ConsumeReplace, PostTransaction,
       AnswerUnusable, AnswerSuccess, AnswerFailed, Complete, CompleteExecution,
       RecordRead, RecordTemp, RecordReplace, Release, ReleaseExecution, CrashExecute,
       OperatorStep, ArmGate, VerifyRead, VerifyFetch, VerifyTemp, VerifyReplace, vars,
       storeVars
  <2> QED BY <2>1 DEF SlotsInTime, SlotInTime
<1>4. CASE Tick
  <2>1. /\ now' = now + 1 /\ prep' = prep
        /\ \A x \in ReservationIds : reservation'[x] \in {None, reservation[x]}
    BY <1>0, <1>4 DEF Tick, Advance, Unexpired
  <2>2. ASSUME "slot" \notin late', NEW p \in Preparers PROVE SlotInTime(p)'
    <3>1. ~ SlotLapsing
      BY <1>4, <2>2 DEF Tick, Outlived
    <3> QED BY <1>0, <2>1, <3>1 DEF SlotLapsing, SlotInTime, PrepAt
  <2> QED BY <2>2 DEF SlotsInTime
<1> QED BY <1>2, <1>3, <1>4 DEF Next

\* No reading is ahead of all clocks, so a script prunes only what some replica
\* may take for expired: what counts by every clock goes on counting.
LEMMA CountedStep ==
  ASSUME TypeOK, LocalsOK, ReadAgree, CountedInvariant, [Next]_vars
  PROVE  CountedInvariant'
<1> USE NoneAssumption, SwapAssumption DEF NoneAssumption, SwapAssumption
<1> DEFINE R(x) == ReservationMember(x)  O(r) == OrderMember(r)
<1>0. /\ now \in Nat
      /\ index \in [IndexKeys -> [Members -> Nat]]
      /\ reservation \in [ReservationIds -> ReservationRecord \cup {None}]
      /\ pending \in [RequestIds -> PendingRecord \cup {None}]
  BY DEF TypeOK, StoreTypeOK
<1>1. /\ \A k \in IndexKeys, m \in Members : index[k][m] \in Nat
      /\ \A x \in ReservationIds : reservation[x] # None =>
           /\ reservation[x].expires \in Nat
           /\ AdmissionKeys(reservation[x].wallet, reservation[x].token) \subseteq IndexKeys
      /\ \A r \in RequestIds : pending[r] # None =>
           /\ pending[r].expires \in Nat
           /\ OrderKeys(pending[r].wallet, pending[r].token) \subseteq IndexKeys
  <2>1. ASSUME NEW x \in ReservationIds, reservation[x] # None
        PROVE  /\ reservation[x].expires \in Nat
               /\ AdmissionKeys(reservation[x].wallet, reservation[x].token) \subseteq IndexKeys
    <3>1. reservation[x] \in ReservationRecord
      BY <1>0, <2>1
    <3> QED BY <3>1, KeyFacts DEF ReservationRecord
  <2>2. ASSUME NEW r \in RequestIds, pending[r] # None
        PROVE  /\ pending[r].expires \in Nat
               /\ OrderKeys(pending[r].wallet, pending[r].token) \subseteq IndexKeys
    <3>1. pending[r] \in PendingRecord
      BY <1>0, <2>2
    <3> QED BY <3>1, KeyFacts DEF PendingRecord
  <2> QED BY <1>0, <2>1, <2>2
\* What still counts is not touched, and its record stays.
<1>2. ASSUME NEW x \in ReservationIds, now' = now, reservation'[x] = reservation[x],
             \A k \in IndexKeys :
               index[k][R(x)] > now + ClockLead => index'[k][R(x)] = index[k][R(x)]
      PROVE  SlotCounted(x)'
  <2>1. ASSUME Current(reservation[x]),
               NEW k \in AdmissionKeys(reservation[x].wallet, reservation[x].token)
        PROVE  index'[k][R(x)] >= reservation[x].expires
    <3>1. /\ reservation[x] # None /\ reservation[x].expires > now + ClockLead
          /\ index[k][R(x)] >= reservation[x].expires
      BY <2>1 DEF CountedInvariant, SlotCounted, Current
    <3>2. k \in IndexKeys /\ R(x) \in Members
      BY <1>1, <2>1, <3>1, MemberFacts
    <3>3. index[k][R(x)] > now + ClockLead
      BY <1>0, <1>1, <3>1, <3>2
    <3> QED BY <1>2, <3>1, <3>2, <3>3
  <2>2. Current(reservation[x])' = Current(reservation[x])
    BY <1>2 DEF Current
  <2> QED BY <1>2, <2>1, <2>2 DEF SlotCounted
<1>3. ASSUME NEW r \in RequestIds, now' = now, pending'[r] = pending[r],
             \A k \in IndexKeys :
               index[k][O(r)] > now + ClockLead => index'[k][O(r)] = index[k][O(r)]
      PROVE  OrderCounted(r)'
  <2>1. ASSUME Current(pending[r]),
               NEW k \in OrderKeys(pending[r].wallet, pending[r].token)
        PROVE  index'[k][O(r)] >= pending[r].expires
    <3>1. /\ pending[r] # None /\ pending[r].expires > now + ClockLead
          /\ index[k][O(r)] >= pending[r].expires
      BY <2>1 DEF CountedInvariant, OrderCounted, Current
    <3>2. k \in IndexKeys /\ O(r) \in Members
      BY <1>1, <2>1, <3>1, MemberFacts
    <3>3. index[k][O(r)] > now + ClockLead
      BY <1>0, <1>1, <3>1, <3>2
    <3> QED BY <1>3, <3>1, <3>2, <3>3
  <2>2. Current(pending[r])' = Current(pending[r])
    BY <1>3 DEF Current
  <2> QED BY <1>3, <2>1, <2>2 DEF OrderCounted
<1>4. ASSUME NEW t \in Nat, t <= now + ClockLead, NEW keys, now' = now,
             index' = ZRemRangeByScore(index, keys, t), UNCHANGED <<reservation, pending>>
      PROVE  CountedInvariant'
  <2>1. \A k \in IndexKeys, m \in Members :
          index[k][m] > now + ClockLead => index'[k][m] = index[k][m]
    BY <1>0, <1>1, <1>4 DEF ZRemRangeByScore
  <2> QED BY <1>2, <1>3, <1>4, <2>1, MemberFacts DEF CountedInvariant
<1>5. ASSUME NEW t \in Nat, t <= now + ClockLead, NEW y \in ReservationIds,
             NEW w \in Wallets, NEW tk \in Tokens, now' = now, ReserveOK(t, y, w, tk)
      PROVE  CountedInvariant'
  <2> DEFINE pruned == PrunedForReserve(t, w, tk)
  <2>1. \A k \in IndexKeys, m \in Members :
          index[k][m] > now + ClockLead => pruned[k][m] = index[k][m]
    BY <1>0, <1>1, <1>5 DEF PrunedForReserve, ZRemRangeByScore
  <2>2. \A k \in IndexKeys, m \in Members :
          index'[k][m] = IF k \in AdmissionKeys(w, tk) /\ m = R(y)
                           THEN t + ReservationTtl ELSE pruned[k][m]
    BY <1>5 DEF ReserveOK, ZAdd, ZSet
  <2>3. /\ pending' = pending
        /\ \A x \in ReservationIds : x # y => reservation'[x] = reservation[x]
        /\ reservation'[y].wallet = w /\ reservation'[y].token = tk
        /\ reservation'[y].expires = t + ReservationTtl
    BY <1>0, <1>5 DEF ReserveOK
  <2> HIDE DEF pruned
  <2>4. SlotCounted(y)'
    <3>1. t + ReservationTtl \in Nat
      BY LimitsAssumption DEF LimitsAssumption
    <3>2. \A k \in AdmissionKeys(w, tk) : index'[k][R(y)] = t + ReservationTtl
      BY <2>2, KeyFacts, MemberFacts
    <3> QED BY <2>3, <3>1, <3>2 DEF SlotCounted
  <2>5. \A x \in ReservationIds : x # y => SlotCounted(x)'
    BY <1>2, <1>5, <2>1, <2>2, <2>3, MemberFacts
  <2>6. \A r \in RequestIds : OrderCounted(r)'
    BY <1>3, <1>5, <2>1, <2>2, <2>3, MemberFacts
  <2> QED BY <2>4, <2>5, <2>6 DEF CountedInvariant
<1>6. ASSUME NEW t \in Nat, t <= now + ClockLead, NEW life \in OrderLifetimes,
             NEW y \in ReservationIds, NEW s \in RequestIds,
             NEW w \in Wallets, NEW tk \in Tokens, now' = now,
             CommitOK(t, y, s, w, tk, t + life)
      PROVE  CountedInvariant'
  <2> DEFINE pruned == PrunedForCommit(t, w, tk)
  <2>1. \A k \in IndexKeys, m \in Members :
          index[k][m] > now + ClockLead => pruned[k][m] = index[k][m]
    BY <1>0, <1>1, <1>6 DEF PrunedForCommit, ZRemRangeByScore
  <2>2. \A k \in IndexKeys, m \in Members :
          index'[k][m] = IF k \in OrderKeys(w, tk) /\ m = O(s) THEN t + life
                         ELSE IF k \in AdmissionKeys(w, tk) /\ m = R(y) THEN 0
                         ELSE pruned[k][m]
    BY <1>6 DEF CommitOK, ZAdd, ZRem, ZSet
  <2>3. /\ reservation'[y] = None
        /\ \A x \in ReservationIds : x # y => reservation'[x] = reservation[x]
        /\ \A r \in RequestIds : r # s => pending'[r] = pending[r]
        /\ pending'[s].wallet = w /\ pending'[s].token = tk
        /\ pending'[s].expires = t + life
    BY <1>0, <1>6 DEF CommitOK
  <2> HIDE DEF pruned
  <2>5. SlotCounted(y)'
    BY <2>3 DEF SlotCounted, Current
  <2>6. \A x \in ReservationIds : x # y => SlotCounted(x)'
    BY <1>2, <1>6, <2>1, <2>2, <2>3, MemberFacts
  <2>7. OrderCounted(s)'
    <3>1. t + life \in Nat
      BY <1>6
    <3>2. \A k \in OrderKeys(w, tk) : index'[k][O(s)] = t + life
      <4>1. OrderKeys(w, tk) \subseteq IndexKeys /\ O(s) \in Members
        BY KeyFacts, MemberFacts
      <4> QED BY <2>2, <4>1
    <3> QED BY <2>3, <3>1, <3>2 DEF OrderCounted
  <2>8. \A r \in RequestIds : r # s => OrderCounted(r)'
    BY <1>3, <1>6, <2>1, <2>2, <2>3, MemberFacts
  <2> QED BY <2>5, <2>6, <2>7, <2>8 DEF CountedInvariant
<1>7. ASSUME NEW y \in ReservationIds, NEW w, NEW tk, now' = now, ReleaseReservation(y, w, tk)
      PROVE  CountedInvariant'
  <2>1. \A k \in IndexKeys, m \in Members : m # R(y) => index'[k][m] = index[k][m]
    BY <1>7 DEF ReleaseReservation, ZRem, ZSet
  <2>2. /\ \A x \in ReservationIds : x # y => reservation'[x] = reservation[x]
        /\ reservation'[y] = None /\ pending' = pending
    BY <1>0, <1>7 DEF ReleaseReservation
  <2>3. SlotCounted(y)'
    BY <2>2 DEF SlotCounted, Current
  <2> QED BY <1>2, <1>3, <1>7, <2>1, <2>2, <2>3, MemberFacts DEF CountedInvariant
<1>8. ASSUME NEW e, NEW s \in RequestIds, NEW w, NEW tk, now' = now,
             CompleteExecution(s, e, w, tk)
      PROVE  CountedInvariant'
  <2>1. \A k \in IndexKeys, m \in Members : m # O(s) => index'[k][m] = index[k][m]
    BY <1>8 DEF CompleteExecution, ZRem, ZSet
  <2>2. /\ \A r \in RequestIds : r # s => pending'[r] = pending[r]
        /\ pending'[s] = None /\ reservation' = reservation
    BY <1>0, <1>8 DEF CompleteExecution
  <2>3. OrderCounted(s)'
    BY <2>2 DEF OrderCounted, Current
  <2> QED BY <1>2, <1>3, <1>8, <2>1, <2>2, <2>3, MemberFacts DEF CountedInvariant
<1>9. ASSUME NEW e, NEW s \in RequestIds, NEW d \in Digests, now' = now,
             BeginExecutionOK(s, d, e)
      PROVE  CountedInvariant'
  <2>1. UNCHANGED <<now, index, reservation>>
    BY <1>9 DEF BeginExecutionOK
  <2>2. \A r \in RequestIds : r # s => pending'[r] = pending[r]
    BY <1>0, <1>9 DEF BeginExecutionOK
  <2>3. pending[s] \in PendingRecord /\ pending'[s] = [pending[s] EXCEPT !.digest = d]
        /\ pending[s] # None
    BY <1>0, <1>9 DEF BeginExecutionOK, BeginVerdict
  <2>4. pending'[s].wallet = pending[s].wallet /\ pending'[s].token = pending[s].token
        /\ pending'[s].expires = pending[s].expires
    BY <2>3 DEF PendingRecord
  <2>5. OrderCounted(s)'
    BY <2>1, <2>3, <2>4 DEF CountedInvariant, OrderCounted, Current
  <2> QED BY <1>2, <1>3, <2>1, <2>2, <2>5 DEF CountedInvariant
<1>10. ASSUME Advance PROVE CountedInvariant'
  <2>1. /\ now' = now + 1 /\ index' = index
        /\ \A x \in ReservationIds : reservation'[x] \in {None, reservation[x]}
        /\ \A r \in RequestIds : pending'[r] \in {None, pending[r]}
    BY <1>0, <1>10 DEF Advance, Unexpired
  <2>2. ASSUME NEW x \in ReservationIds PROVE SlotCounted(x)'
    BY <1>0, <1>1, <2>1 DEF CountedInvariant, SlotCounted, Current
  <2>3. ASSUME NEW r \in RequestIds PROVE OrderCounted(r)'
    BY <1>0, <1>1, <2>1 DEF CountedInvariant, OrderCounted, Current
  <2> QED BY <2>2, <2>3 DEF CountedInvariant
<1>11. ASSUME UNCHANGED <<now, index, reservation, pending>> PROVE CountedInvariant'
  BY <1>2, <1>3, <1>11 DEF CountedInvariant
<1> QED
  <2>1. ASSUME NEW p \in Preparers, NEW t \in Nat, t <= now + ClockLead, now' = now,
               \/ ReserveRefused(t, prep[p].wallet, prep[p].token)
               \/ CommitRefused(t, prep[p].slot, prep[p].request, prep[p].wallet, prep[p].token)
        PROVE  CountedInvariant'
    BY <1>4, <2>1 DEF ReserveRefused, PrunedForReserve, CommitRefused, PrunedForCommit
  <2>2. StoreEffect
    BY StoreEffects
  <2> HIDE DEF CountedInvariant
  <2> QED BY <1>5, <1>6, <1>7, <1>8, <1>9, <1>10, <1>11, <2>1, <2>2 DEF StoreEffect

\* A step adds one member to a sorted set at most.
LEMMA FiniteStep ==
  ASSUME TypeOK, LocalsOK, ReadAgree, FinitelyStored, [Next]_vars
  PROVE  FinitelyStored'
<1>1. ASSUME NEW m0, NEW k \in IndexKeys,
             \A m \in Members : m # m0 => index'[k][m] \in {0, index[k][m]}
      PROVE  IsFiniteSet(Stored(k))'
  <2>1. Stored(k)' \subseteq Stored(k) \cup {m0}
    BY <1>1 DEF Stored
  <2>2. IsFiniteSet(Stored(k) \cup {m0})
    BY FS_AddElement DEF FinitelyStored
  <2> QED BY <2>1, <2>2, FS_Subset
<1>2. ASSUME NEW m0,
             \A k \in IndexKeys, m \in Members : m # m0 => index'[k][m] \in {0, index[k][m]}
      PROVE  FinitelyStored'
  BY <1>1, <1>2 DEF FinitelyStored
<1>3. ASSUME NEW t, NEW w, NEW tk, NEW y, ReserveOK(t, y, w, tk) PROVE FinitelyStored'
  <2>1. \A k \in IndexKeys, m \in Members :
          m # ReservationMember(y) => index'[k][m] \in {0, index[k][m]}
    BY <1>3 DEF ReserveOK, PrunedForReserve, ZAdd, ZSet, ZRemRangeByScore
  <2> QED BY <1>2, <2>1
<1>4. ASSUME NEW t, NEW x, NEW r, NEW w, NEW tk, NEW expires,
             CommitOK(t, x, r, w, tk, expires)
      PROVE  FinitelyStored'
  <2>1. \A k \in IndexKeys, m \in Members :
          m # OrderMember(r) => index'[k][m] \in {0, index[k][m]}
    BY <1>4 DEF CommitOK, PrunedForCommit, ZAdd, ZRem, ZSet, ZRemRangeByScore
  <2> QED BY <1>2, <2>1
<1>5. ASSUME \A k \in IndexKeys, m \in Members : index'[k][m] \in {0, index[k][m]}
      PROVE  FinitelyStored'
  <2>1. PICK m0 : m0 = 0
    OBVIOUS
  <2> QED BY <1>2, <1>5, <2>1
<1>6. ASSUME NEW t, NEW w, NEW tk, NEW x, NEW r,
             \/ ReserveRefused(t, w, tk) \/ CommitRefused(t, x, r, w, tk)
             \/ ReleaseReservation(x, w, tk)
      PROVE  FinitelyStored'
  BY <1>5, <1>6 DEF ReserveRefused, PrunedForReserve, CommitRefused, PrunedForCommit,
     ReleaseReservation, ZRem, ZSet, ZRemRangeByScore
<1>7. ASSUME NEW e, NEW r, NEW w, NEW tk, CompleteExecution(r, e, w, tk)
      PROVE  FinitelyStored'
  BY <1>5, <1>7 DEF CompleteExecution, ZRem, ZSet
<1>8. ASSUME index' = index PROVE FinitelyStored'
  BY <1>8 DEF FinitelyStored, Stored
<1>9. StoreEffect
  BY StoreEffects
<1> HIDE DEF FinitelyStored
<1> QED BY <1>3, <1>4, <1>6, <1>7, <1>8, <1>9 DEF StoreEffect, BeginExecutionOK, Advance

\* What a script counts after pruning by a reading that no clock is behind.
LEMMA PrunedCount ==
  ASSUME TypeOK, FinitelyStored, NEW t \in Nat, t <= now + ClockLead,
         NEW keys \in SUBSET IndexKeys, NEW k \in IndexKeys
  PROVE  /\ ZCard(ZRemRangeByScore(index, keys, t), k) \in Nat
         /\ IsFiniteSet(Live(k)) /\ Cardinality(Live(k)) \in Nat
         /\ Cardinality(Live(k)) <= ZCard(ZRemRangeByScore(index, keys, t), k)
<1> USE SwapAssumption DEF SwapAssumption
<1>0. now \in Nat /\ \A m \in Members : index[k][m] \in Nat
  BY DEF TypeOK, StoreTypeOK
<1> DEFINE S == {m \in Members : ZRemRangeByScore(index, keys, t)[k][m] > 0}
<1>1. \A m \in Members : ZRemRangeByScore(index, keys, t)[k][m]
                           = IF k \in keys /\ index[k][m] <= t THEN 0 ELSE index[k][m]
  BY DEF ZRemRangeByScore
<1>2. S \subseteq Stored(k) /\ Live(k) \subseteq S
  BY <1>0, <1>1 DEF Stored, Live
<1>3. IsFiniteSet(S) /\ IsFiniteSet(Live(k))
  <2> HIDE DEF S
  <2> QED BY <1>2, FS_Subset DEF FinitelyStored
<1>4. Cardinality(Live(k)) <= Cardinality(S)
  <2> HIDE DEF S
  <2> QED BY <1>2, <1>3, FS_Subset
<1>5. Cardinality(Live(k)) \in Nat /\ Cardinality(S) \in Nat
  <2> HIDE DEF S
  <2> QED BY <1>3, FS_CardinalityType
<1> QED BY <1>3, <1>4, <1>5 DEF ZCard

\* Admission adds to a set that has room, whatever the reading it is pruned by,
\* and the commit of a slot that still counts exchanges members; the commit of
\* any slot adds to the orders only where those have room.
LEMMA CountsStep ==
  ASSUME TypeOK, LocalsOK, ReadAgree, FinitelyStored, SlotsInTime, CountedInvariant,
         CountsWithin, [Next]_vars
  PROVE  CountsWithin'
<1> USE LimitsAssumption, SwapAssumption DEF LimitsAssumption, SwapAssumption
<1> DEFINE R(x) == ReservationMember(x)  O(r) == OrderMember(r)
           Within(k) == \A n \in Nat : Limited(k, n) => Cardinality(Live(k)') <= n
<1>0. /\ now \in Nat
      /\ index \in [IndexKeys -> [Members -> Nat]]
      /\ \A k \in IndexKeys, m \in Members : index[k][m] \in Nat
      /\ \A k, n : Limited(k, n)' = Limited(k, n)
      /\ PendingIndex \in IndexKeys
      /\ \A w \in Wallets, tk \in Tokens : /\ AdmissionKeys(w, tk) \subseteq IndexKeys
                                          /\ OrderKeys(w, tk) \subseteq IndexKeys
                                          /\ PendingIndex \in OrderKeys(w, tk)
                                          /\ PendingIndex \notin AdmissionKeys(w, tk)
  <2>1. \A w \in Wallets, tk \in Tokens : /\ AdmissionKeys(w, tk) \subseteq IndexKeys
                                          /\ PendingIndex \notin AdmissionKeys(w, tk)
    BY KeyFacts DEF AdmissionKeys, PendingIndex, Active, WalletKey, PairKey
  <2> QED BY <2>1 DEF TypeOK, StoreTypeOK, Limited, IndexKeys, OrderKeys
<1>f. \A k \in IndexKeys : IsFiniteSet(Live(k)) /\ Cardinality(Live(k)) \in Nat
  <2>1. \A k \in IndexKeys : Live(k) \subseteq Stored(k)
    BY <1>0 DEF Live, Stored
  <2> QED BY <2>1, FS_Subset, FS_CardinalityType DEF FinitelyStored
\* What a set counts that loses members, or gets one for one it loses.
<1>1. ASSUME NEW k \in IndexKeys, NEW L, IsFiniteSet(L), Live(k)' \subseteq L
      PROVE  /\ Cardinality(Live(k)') \in Nat /\ Cardinality(L) \in Nat
             /\ Cardinality(Live(k)') <= Cardinality(L)
  <2>1. IsFiniteSet(Live(k)') /\ Cardinality(Live(k)') <= Cardinality(L)
    BY <1>1, FS_Subset
  <2>2. Cardinality(Live(k)') \in Nat /\ Cardinality(L) \in Nat
    BY <1>1, <2>1, FS_CardinalityType
  <2> QED BY <2>1, <2>2
<1>2. ASSUME NEW k \in IndexKeys, Cardinality(Live(k)') \in Nat,
             Cardinality(Live(k)') <= Cardinality(Live(k))
      PROVE  /\ "slot" \notin late => Within(k)
             /\ k = PendingIndex => Cardinality(Live(k)') <= MaxPending
  <2>1. Cardinality(Live(k)) \in Nat
    BY <1>f
  <2>2. ASSUME "slot" \notin late, NEW n \in Nat, Limited(k, n)
        PROVE  Cardinality(Live(k)') <= n
    <3>1. Cardinality(Live(k)) <= n
      BY <2>2 DEF CountsWithin
    <3> QED BY <1>2, <2>1, <3>1
  <2> QED BY <1>2, <2>1, <2>2 DEF CountsWithin
<1>3. ASSUME NEW k \in IndexKeys, Live(k)' \subseteq Live(k)
      PROVE  /\ "slot" \notin late => Within(k)
             /\ k = PendingIndex => Cardinality(Live(k)') <= MaxPending
  <2>1. Cardinality(Live(k)') \in Nat /\ Cardinality(Live(k)') <= Cardinality(Live(k))
    BY <1>1, <1>3, <1>f
  <2> QED BY <1>2, <2>1
<1>4. ASSUME NEW keys \in SUBSET IndexKeys, NEW k \in keys, NEW m0, NEW t \in Nat,
             t <= now + ClockLead, Live(k)' \subseteq Live(k) \cup {m0},
             NEW n \in Nat, ZCard(ZRemRangeByScore(index, keys, t), k) < n
      PROVE  Cardinality(Live(k)') <= n
  <2>1. /\ IsFiniteSet(Live(k) \cup {m0})
        /\ Cardinality(Live(k) \cup {m0}) \in Nat
        /\ Cardinality(Live(k) \cup {m0}) <= Cardinality(Live(k)) + 1
    BY <1>f, <1>4, AddMember
  <2>2. /\ Cardinality(Live(k)') \in Nat
        /\ Cardinality(Live(k)') <= Cardinality(Live(k) \cup {m0})
    BY <1>1, <1>4, <2>1
  <2>3. /\ ZCard(ZRemRangeByScore(index, keys, t), k) \in Nat
        /\ Cardinality(Live(k)) \in Nat
        /\ Cardinality(Live(k)) <= ZCard(ZRemRangeByScore(index, keys, t), k)
    BY <1>4, PrunedCount
  <2> QED BY <1>4, <2>1, <2>2, <2>3
<1>5. ASSUME \A k \in IndexKeys : /\ "slot" \notin late => Within(k)
                                  /\ k = PendingIndex => Cardinality(Live(k)') <= MaxPending
      PROVE  CountsWithin'
  BY <1>0, <1>5, LateGrows DEF CountsWithin
<1>6. ASSUME now' = now, \A k \in IndexKeys, m \in Members :
               index'[k][m] \in {0, index[k][m]}
      PROVE  CountsWithin'
  <2>1. \A k \in IndexKeys : Live(k)' \subseteq Live(k)
    BY <1>0, <1>6 DEF Live
  <2> QED BY <1>3, <1>5, <2>1
<1>7. ASSUME NEW t \in Nat, t <= now + ClockLead, NEW y \in ReservationIds,
             NEW w \in Wallets, NEW tk \in Tokens, now' = now, ReserveOK(t, y, w, tk)
      PROVE  CountsWithin'
  <2> DEFINE pruned == PrunedForReserve(t, w, tk)
  <2>1. pruned = ZRemRangeByScore(index, AdmissionKeys(w, tk), t)
        /\ \A k \in IndexKeys, m \in Members : pruned[k][m] \in {0, index[k][m]}
    BY DEF PrunedForReserve, ZRemRangeByScore
  <2>2. \A k \in IndexKeys, m \in Members :
          index'[k][m] = IF k \in AdmissionKeys(w, tk) /\ m = R(y)
                           THEN t + ReservationTtl ELSE pruned[k][m]
    BY <1>7 DEF ReserveOK, ZAdd, ZSet
  <2>3. ReserveVerdict(pruned, w, tk) = "OK"
    BY <1>7 DEF ReserveOK
  <2> HIDE DEF pruned
  <2>4. ASSUME NEW k \in IndexKeys, k \notin AdmissionKeys(w, tk)
        PROVE  Live(k)' \subseteq Live(k)
    BY <1>0, <1>7, <2>1, <2>2, <2>4 DEF Live
  <2>5. ASSUME NEW k \in AdmissionKeys(w, tk), NEW n \in Nat, Limited(k, n)
        PROVE  Cardinality(Live(k)') <= n
    <3>1. k \in IndexKeys
      BY <1>0, <2>5
    <3>2. Live(k)' \subseteq Live(k) \cup {R(y)}
      BY <1>0, <1>7, <2>1, <2>2, <2>5, <3>1 DEF Live
    <3>3. \A j \in AdmissionKeys(w, tk) : ZCard(pruned, j) \in Nat
      BY <1>0, <1>7, <2>1, PrunedCount
    <3>4. ZCard(pruned, k) < n
      BY <2>3, <2>5, <3>3, ReserveRoom
    <3> QED BY <1>0, <1>4, <1>7, <2>1, <2>5, <3>2, <3>4
  <2> QED BY <1>0, <1>3, <1>5, <2>4, <2>5
<1>8. ASSUME NEW p \in Preparers, PrepAt(p, "commit"), prep[p].slot \in ReservationIds,
             NEW t \in Nat, t <= now + ClockLead, NEW life \in OrderLifetimes,
             NEW s \in RequestIds, NEW w \in Wallets, NEW tk \in Tokens, now' = now,
             CommitOK(t, prep[p].slot, s, w, tk, t + life)
      PROVE  CountsWithin'
  <2>0. PICK y \in ReservationIds : y = prep[p].slot
    BY <1>8
  <2> DEFINE pruned == PrunedForCommit(t, w, tk)
  <2>1. pruned = ZRemRangeByScore(index, OrderKeys(w, tk), t)
        /\ \A k \in IndexKeys, m \in Members : pruned[k][m] \in {0, index[k][m]}
    BY DEF PrunedForCommit, ZRemRangeByScore
  <2>2. \A k \in IndexKeys, m \in Members :
          index'[k][m] = IF k \in OrderKeys(w, tk) /\ m = O(s) THEN t + life
                         ELSE IF k \in AdmissionKeys(w, tk) /\ m = R(y) THEN 0
                         ELSE pruned[k][m]
    BY <1>8, <2>0 DEF CommitOK, ZAdd, ZRem, ZSet
  <2>3. /\ reservation[y] # None /\ reservation[y].wallet = w /\ reservation[y].token = tk
        /\ ~ ZCard(pruned, PendingIndex) >= MaxPending
    BY <1>8, <2>0 DEF CommitOK, CommitVerdict, HeldFor
  <2> HIDE DEF pruned
  <2>4. ASSUME NEW k \in IndexKeys, k \notin OrderKeys(w, tk)
        PROVE  Live(k)' \subseteq Live(k)
    <3>1. k \notin AdmissionKeys(w, tk)
      BY <2>4 DEF OrderKeys
    <3>2. \A m \in Members : index'[k][m] \in {0, index[k][m]}
      BY <2>1, <2>2, <2>4, <3>1
    <3> QED BY <1>0, <1>8, <2>4, <3>2 DEF Live
  <2>5. ASSUME NEW k \in AdmissionKeys(w, tk), "slot" \notin late
        PROVE  Cardinality(Live(k)') \in Nat /\ Cardinality(Live(k)') <= Cardinality(Live(k))
    <3>1. k \in IndexKeys /\ k \in OrderKeys(w, tk)
      BY <1>0, <2>5 DEF OrderKeys
    <3>2. R(y) \in Live(k)
      <4>1. reservation[y].expires > now + ClockLead
        BY <1>8, <2>0, <2>3, <2>5 DEF SlotsInTime, SlotInTime, PrepAt
      <4>2. index[k][R(y)] >= reservation[y].expires /\ reservation[y].expires \in Nat
        BY <2>3, <2>5, <4>1
           DEF CountedInvariant, SlotCounted, Current, TypeOK, StoreTypeOK, ReservationRecord
      <4> QED BY <1>0, <3>1, <4>1, <4>2, MemberFacts DEF Live
    <3> DEFINE D == Live(k) \ {R(y)}
    <3>3. Live(k)' \subseteq D \cup {O(s)}
      <4>1. \A m \in Live(k)' : m = O(s) \/ m \in Live(k)
        BY <1>0, <1>8, <2>1, <2>2, <2>5, <3>1 DEF Live
      <4>2. R(y) \notin Live(k)'
        BY <1>0, <1>8, <2>2, <2>5, <3>1, MemberFacts DEF Live
      <4> QED BY <4>1, <4>2
    <3>4. IsFiniteSet(D) /\ Cardinality(D) = Cardinality(Live(k)) - 1
      BY <1>f, <3>1, <3>2, FS_RemoveElement
    <3> HIDE DEF D
    <3>5. /\ IsFiniteSet(D \cup {O(s)}) /\ Cardinality(D) \in Nat
          /\ Cardinality(D \cup {O(s)}) \in Nat
          /\ Cardinality(D \cup {O(s)}) <= Cardinality(D) + 1
      BY <3>4, AddMember
    <3>6. /\ Cardinality(Live(k)') \in Nat
          /\ Cardinality(Live(k)') <= Cardinality(D \cup {O(s)})
      BY <1>1, <3>1, <3>3, <3>5
    <3>7. Cardinality(Live(k)) \in Nat
      BY <1>f, <3>1
    <3> QED BY <3>4, <3>5, <3>6, <3>7
  <2>6. Cardinality(Live(PendingIndex)') <= MaxPending
    <3>1. Live(PendingIndex)' \subseteq Live(PendingIndex) \cup {O(s)}
      BY <1>0, <1>8, <2>1, <2>2 DEF Live
    <3>2. ZCard(pruned, PendingIndex) \in Nat
      BY <1>0, <1>8, <2>1, PrunedCount
    <3>3. ZCard(pruned, PendingIndex) < MaxPending
      BY <2>3, <3>2
    <3> QED BY <1>0, <1>4, <1>8, <2>1, <3>1, <3>3
  <2>7. \A n : ~ Limited(PendingIndex, n)
    BY KeyFacts
  <2> QED BY <1>0, <1>2, <1>3, <1>5, <2>4, <2>5, <2>6, <2>7 DEF OrderKeys
<1>9. ASSUME Advance PROVE CountsWithin'
  <2>1. \A k \in IndexKeys : Live(k)' \subseteq Live(k)
    BY <1>0, <1>9 DEF Live, Advance
  <2> QED BY <1>3, <1>5, <2>1
<1> QED
  <2>1. ASSUME NEW p \in Preparers, NEW t \in Nat, now' = now,
               \/ ReserveRefused(t, prep[p].wallet, prep[p].token)
               \/ CommitRefused(t, prep[p].slot, prep[p].request, prep[p].wallet,
                                prep[p].token)
               \/ ReleaseReservation(prep[p].slot, prep[p].wallet, prep[p].token)
        PROVE  CountsWithin'
    <3>1. \A k \in IndexKeys, m \in Members : index'[k][m] \in {0, index[k][m]}
      BY <2>1 DEF ReserveRefused, PrunedForReserve, CommitRefused, PrunedForCommit,
         ZRemRangeByScore, ReleaseReservation, ZRem, ZSet
    <3> QED BY <1>6, <2>1, <3>1
  <2>2. ASSUME NEW e \in Executors, now' = now,
               CompleteExecution(exec[e].request, e, exec[e].wallet, exec[e].token)
        PROVE  CountsWithin'
    <3>1. \A k \in IndexKeys, m \in Members : index'[k][m] \in {0, index[k][m]}
      BY <2>2 DEF CompleteExecution, ZRem, ZSet
    <3> QED BY <1>6, <2>2, <3>1
  <2>3. ASSUME now' = now, index' = index PROVE CountsWithin'
    BY <1>6, <2>3
  <2>4. StoreEffect
    BY StoreEffects
  <2> HIDE DEF CountsWithin
  <2> QED BY <1>7, <1>8, <1>9, <2>1, <2>2, <2>3, <2>4 DEF StoreEffect, BeginExecutionOK

\* Reservations and orders that count by every clock are among the members.
LEMMA HeldCounts ==
  ASSUME TypeOK, FinitelyStored, CountedInvariant,
         NEW S \in SUBSET ReservationIds, NEW T \in SUBSET RequestIds,
         NEW k \in IndexKeys, NEW n \in Nat, Cardinality(Live(k)) <= n,
         \A x \in S : /\ Current(reservation[x])
                      /\ k \in AdmissionKeys(reservation[x].wallet, reservation[x].token),
         \A r \in T : /\ Current(pending[r])
                      /\ k \in OrderKeys(pending[r].wallet, pending[r].token)
  PROVE  /\ Cardinality(S) + Cardinality(T) <= n
         /\ Cardinality(S) \in Nat /\ Cardinality(T) \in Nat
<1> USE SwapAssumption DEF SwapAssumption
<1>1. /\ \A x \in ReservationIds : reservation[x] # None => reservation[x].expires \in Nat
      /\ \A r \in RequestIds : pending[r] # None => pending[r].expires \in Nat
      /\ now \in Nat /\ \A m \in Members : index[k][m] \in Nat
  BY DEF TypeOK, StoreTypeOK, ReservationRecord, PendingRecord
<1>2. \A x \in S : ReservationMember(x) \in Live(k)
  BY <1>1, MemberFacts DEF CountedInvariant, SlotCounted, Current, Live
<1>3. \A r \in T : OrderMember(r) \in Live(k)
  BY <1>1, MemberFacts DEF CountedInvariant, OrderCounted, Current, Live
<1>4. IsFiniteSet(Live(k))
  <2>1. Live(k) \subseteq Stored(k)
    BY <1>1 DEF Live, Stored
  <2> QED BY <2>1, FS_Subset DEF FinitelyStored
<1>5. /\ Cardinality(S) + Cardinality(T) <= Cardinality(Live(k))
      /\ Cardinality(S) \in Nat /\ Cardinality(T) \in Nat /\ Cardinality(Live(k)) \in Nat
  BY <1>2, <1>3, <1>4, HeldBound
<1> QED BY <1>5

\* Hence what counts fits the limits.
LEMMA HeldFits ==
  ASSUME TypeOK, FinitelyStored, CountedInvariant, CountsWithin
  PROVE  CapacityInTime
<1> USE LimitsAssumption DEF LimitsAssumption
<1>1. ASSUME "slot" \notin late PROVE HeldSlots(LAMBDA s : TRUE) <= AdmissionLimit
  <2> DEFINE S == {x \in ReservationIds : Current(reservation[x])}
             T == {r \in RequestIds : Current(pending[r])}
  <2>1. Active \in IndexKeys /\ Cardinality(Live(Active)) <= AdmissionLimit
    BY <1>1 DEF IndexKeys, Limited, CountsWithin
  <2>2. \A w, tk : Active \in AdmissionKeys(w, tk) /\ Active \in OrderKeys(w, tk)
    BY DEF AdmissionKeys, OrderKeys
  <2>3. Cardinality(S) + Cardinality(T) <= AdmissionLimit
    BY <2>1, <2>2, HeldCounts
  <2> QED BY <2>3 DEF HeldSlots
<1>2. ASSUME "slot" \notin late, NEW w \in Wallets
      PROVE  HeldSlots(LAMBDA s : s.wallet = w) <= WalletLimit
  <2> DEFINE S == {x \in ReservationIds : Current(reservation[x]) /\ reservation[x].wallet = w}
             T == {r \in RequestIds : Current(pending[r]) /\ pending[r].wallet = w}
  <2>1. WalletKey(w) \in IndexKeys /\ Limited(WalletKey(w), WalletLimit)
    BY DEF IndexKeys, Limited
  <2>2. \A tk : WalletKey(w) \in AdmissionKeys(w, tk) /\ WalletKey(w) \in OrderKeys(w, tk)
    BY DEF AdmissionKeys, OrderKeys
  <2>3. Cardinality(Live(WalletKey(w))) <= WalletLimit
    BY <1>2, <2>1 DEF CountsWithin
  <2>4. Cardinality(S) + Cardinality(T) <= WalletLimit
    BY <2>1, <2>2, <2>3, HeldCounts
  <2> QED BY <2>4 DEF HeldSlots
<1>3. ASSUME "slot" \notin late, NEW w \in Wallets, NEW tk \in Tokens
      PROVE  HeldSlots(LAMBDA s : s.wallet = w /\ s.token = tk) <= WalletTokenLimit
  <2> DEFINE S == {x \in ReservationIds : Current(reservation[x])
                      /\ (reservation[x].wallet = w /\ reservation[x].token = tk)}
             T == {r \in RequestIds : Current(pending[r])
                      /\ (pending[r].wallet = w /\ pending[r].token = tk)}
  <2>1. PairKey(w, tk) \in IndexKeys /\ Limited(PairKey(w, tk), WalletTokenLimit)
    BY KeyFacts DEF AdmissionKeys
  <2>2. PairKey(w, tk) \in AdmissionKeys(w, tk) /\ PairKey(w, tk) \in OrderKeys(w, tk)
    BY DEF AdmissionKeys, OrderKeys
  <2>3. Cardinality(Live(PairKey(w, tk))) <= WalletTokenLimit
    BY <1>3, <2>1 DEF CountsWithin
  <2>4. Cardinality(S) + Cardinality(T) <= WalletTokenLimit
    BY <2>1, <2>2, <2>3, HeldCounts
  <2> QED BY <2>4 DEF HeldSlots
<1>4. Cardinality({r \in RequestIds : Current(pending[r])}) <= MaxPending
  <2> DEFINE T == {r \in RequestIds : Current(pending[r])}
  <2>1. PendingIndex \in IndexKeys /\ \A w, tk : PendingIndex \in OrderKeys(w, tk)
    BY DEF IndexKeys, OrderKeys
  <2>2. /\ Cardinality({}) + Cardinality(T) <= MaxPending
        /\ Cardinality({}) \in Nat /\ Cardinality(T) \in Nat
    BY <2>1, HeldCounts DEF CountsWithin
  <2> HIDE DEF T
  <2>3. Cardinality(T) <= MaxPending
    BY <2>2
  <2> QED BY <2>3 DEF T
<1> QED BY <1>1, <1>2, <1>3, <1>4 DEF CapacityInTime, PairCapacityInTime

\* Initially nothing is stored, and nothing counts.
LEMMA CapacityInit ==
  ASSUME Init
  PROVE  FinitelyStored /\ SlotsInTime /\ CountedInvariant /\ CountsWithin
<1>1. CountedInvariant
  BY DEF Init, StoreInit, CountedInvariant, SlotCounted, OrderCounted, Current
<1>2. \A k \in IndexKeys : Live(k) = {} /\ Stored(k) = {}
  BY SwapAssumption DEF SwapAssumption, Init, StoreInit, Live, Stored
<1>3. SlotsInTime
  BY DEF Init, SlotsInTime, SlotInTime, PrepIdle
<1>4. PendingIndex \in IndexKeys
  BY DEF IndexKeys
<1> QED BY <1>1, <1>2, <1>3, <1>4, FS_EmptySet, LimitsAssumption
        DEF LimitsAssumption, CountsWithin, FinitelyStored

\* Every slot that counts by every clock is counted, and no more are than the
\* limits allow.
LEMMA CapacityHolds ==
  Spec => [](/\ TypeOK /\ FinitelyStored /\ SlotsInTime
             /\ CountedInvariant /\ CountsWithin)
<1> DEFINE IInv == /\ TypeOK /\ LocalsOK /\ ReadAgree /\ FinitelyStored
                   /\ SlotsInTime /\ CountedInvariant /\ CountsWithin
<1>1. Init => IInv
  BY TypeInit, ReadInit, CapacityInit, SwapAssumption
<1>2. IInv /\ [Next]_vars => IInv'
  BY TypeStep, ReadStep, FiniteStep, InTimeStep, CountedStep, CountsStep
<1>3. IInv => /\ TypeOK /\ FinitelyStored /\ SlotsInTime
              /\ CountedInvariant /\ CountsWithin
  OBVIOUS
<1> HIDE DEF IInv
<1> QED BY <1>1, <1>2, <1>3, PTL DEF Spec

\* The limits hold of the reservations and orders that no replica may take for
\* expired, not only of the sorted sets that admission counts: the hard limit
\* of the orders always, the three of admission until a call outlives its slot.
\* The clocks may differ by less than a slot's 30 seconds, and the provider may
\* repeat its ids.
THEOREM LimitsHold == Spec => []CapacityInTime
<1>1. TypeOK /\ FinitelyStored /\ CountedInvariant /\ CountsWithin => CapacityInTime
  BY HeldFits
<1> QED BY <1>1, CapacityHolds, PTL

\* Of these the limit of a wallet and token, which one-shot mode rests on.
THEOREM PairLimitHolds == Spec => []PairCapacityInTime
<1>1. CapacityInTime => PairCapacityInTime
  BY DEF CapacityInTime
<1> QED BY <1>1, LimitsHold, PTL

-----------------------------------------------------------------------------
(* One transaction in one-shot mode.                                       *)

\* A step that starts to deal with an order commits it.
LEMMA TouchedByCommit ==
  ASSUME TypeOK, LocalsOK, [Next]_vars,
         NEW r \in RequestIds, Untouched(r), ~ Untouched(r)'
  PROVE  \E p \in Preparers, life \in OrderLifetimes :
           /\ PrepAt(p, "commit") /\ prep[p].request = r
           /\ CommitOK(prep[p].read, prep[p].slot, r, prep[p].wallet, prep[p].token,
                       prep[p].read + life)
           /\ PrepEnd(p)
           /\ UNCHANGED <<now, exec, sent, gate>>
<1>0. /\ pending \in [RequestIds -> PendingRecord \cup {None}]
      /\ exec \in [Executors -> ExecRecord] /\ None \notin RequestIds
      /\ pending[r] = None /\ \A e \in Executors : exec[e].request # r
      /\ \A d \in Digests : <<r, d>> \notin sent
  BY SwapAssumption DEF TypeOK, StoreTypeOK, SwapAssumption, Untouched
<1>1. ASSUME pending'[r] = None, UNCHANGED <<exec, sent>> PROVE FALSE
  BY <1>0, <1>1 DEF Untouched
<1>2. ASSUME NEW e \in Executors, ExecuteStep(e) PROVE FALSE
  <2> USE DEF ExecAt, ExecGoto, ExecEnd, OnlyExec, idVars
  <2>1. pending'[r] = None
    <3>1. CASE BeginExecution(e)
      <4>1. CASE BeginExecutionRefused(exec[e].request, exec[e].digest)
        BY <1>0, <4>1 DEF BeginExecutionRefused, storeVars
      <4>2. CASE BeginExecutionOK(exec[e].request, exec[e].digest, e)
        BY <1>0, <4>2 DEF BeginExecutionOK
      <4> QED BY <3>1, <4>1, <4>2 DEF BeginExecution
    <3>2. CASE Complete(e)
      BY <1>0, <3>2 DEF Complete, CompleteExecution
    <3>3. CASE ~ (BeginExecution(e) \/ Complete(e))
      BY <1>0, <1>2, <3>3
         DEF ExecuteStep, LoadOrder, ConsumeRead, ConsumeTemp, ConsumeReplace,
             PostTransaction, AnswerUnusable, AnswerSuccess, AnswerFailed, RecordRead,
             RecordTemp, RecordReplace, Release, ReleaseExecution, CrashExecute, storeVars
    <3> QED BY <3>1, <3>2, <3>3
  <2>2. \A f \in Executors : f # e => exec'[f] = exec[f]
    BY <1>0, <1>2 DEF ExecuteStep, LoadOrder, BeginExecution, ConsumeRead, ConsumeTemp,
       ConsumeReplace, PostTransaction, AnswerUnusable, AnswerSuccess, AnswerFailed,
       Complete, RecordRead, RecordTemp, RecordReplace, Release, CrashExecute
  <2>3. exec'[e].request # r
    <3>1. CASE \E i \in RequestIds, d \in Digests : LoadOrder(e, i, d)
      BY <1>0, <3>1 DEF LoadOrder, ExecIdle
    <3>2. CASE BeginExecution(e) \/ Complete(e) \/ PostTransaction(e)
      BY <1>0, <3>2 DEF BeginExecution, Complete, PostTransaction, ExecRecord, ExecIdle
    <3>3. CASE ConsumeRead(e) \/ ConsumeTemp(e) \/ ConsumeReplace(e)
      BY <1>0, <3>3 DEF ConsumeRead, ConsumeTemp, ConsumeReplace, ExecRecord, ExecIdle
    <3>4. CASE RecordRead(e) \/ RecordTemp(e) \/ RecordReplace(e)
      BY <1>0, <3>4 DEF RecordRead, RecordTemp, RecordReplace, ExecRecord, ExecIdle
    <3>5. CASE AnswerUnusable(e) \/ AnswerSuccess(e) \/ AnswerFailed(e)
      BY <1>0, <3>5 DEF AnswerUnusable, AnswerSuccess, AnswerFailed, ExecRecord, ExecIdle
    <3>6. CASE Release(e) \/ CrashExecute(e)
      BY <1>0, <3>6 DEF Release, CrashExecute, ExecIdle
    <3> QED BY <1>2, <3>1, <3>2, <3>3, <3>4, <3>5, <3>6 DEF ExecuteStep
  <2>4. \A d \in Digests : <<r, d>> \notin sent'
    <3>1. CASE PostTransaction(e)
      BY <1>0, <3>1 DEF PostTransaction
    <3>2. CASE UNCHANGED sent
      BY <1>0, <3>2
    <3> QED BY <1>2, <3>1, <3>2
         DEF ExecuteStep, LoadOrder, BeginExecution, ConsumeRead, ConsumeTemp,
             ConsumeReplace, AnswerUnusable, AnswerSuccess, AnswerFailed, Complete,
             RecordRead, RecordTemp, RecordReplace, Release, CrashExecute
  <2> QED BY <1>0, <2>1, <2>2, <2>3, <2>4 DEF Untouched
<1>3. ASSUME Tick PROVE FALSE
  <2>1. pending'[r] = None /\ UNCHANGED <<exec, sent>>
    BY <1>0, <1>3 DEF Tick, Advance, Unexpired, worldVars, idVars
  <2> QED BY <1>1, <2>1
<1>4. ASSUME OperatorStep \/ UNCHANGED vars PROVE FALSE
  <2>1. UNCHANGED <<pending, exec, sent>>
    BY <1>4 DEF OperatorStep, ArmGate, VerifyRead, VerifyFetch, VerifyTemp,
       VerifyReplace, vars, storeVars, worldVars, idVars
  <2> QED BY <1>0, <1>1, <2>1
<1>5. PICK p \in Preparers : PrepareStep(p)
  BY <1>2, <1>3, <1>4 DEF Next
<1>6. UNCHANGED <<exec, sent>>
  BY <1>5 DEF OnlyPrep, idVars, PrepareStep, BeginPrepare, ReserveSlot, OrderAccepted,
     OrderRefused, BindRead, BindTemp, BindReplace, CommitSlot, ReleaseRead,
     ReleaseSlot, CrashPrepare
<1>7. ASSUME ~ CommitSlot(p) PROVE pending' = pending
  BY <1>5, <1>7 DEF PrepareStep, BeginPrepare, ReserveSlot, ReserveOK, ReserveRefused,
     OrderAccepted, OrderRefused, BindRead, BindTemp, BindReplace, ReleaseRead,
     ReleaseSlot, ReleaseReservation, CrashPrepare, storeVars
<1>8. CommitSlot(p)
  BY <1>0, <1>1, <1>6, <1>7
<1>9. PICK life \in OrderLifetimes :
        /\ CommitOK(prep[p].read, prep[p].slot, prep[p].request, prep[p].wallet,
                    prep[p].token, prep[p].read + life)
        /\ PrepEnd(p)
  <2>1. ~ UNCHANGED pending
    BY <1>0, <1>1, <1>6
  <2> QED BY <1>8, <2>1 DEF CommitSlot, CommitRefused
<1>10. prep[p].request = r
  <2>1. pending'[r] # None
    BY <1>1, <1>6
  <2> QED BY <1>0, <1>9, <2>1 DEF CommitOK
<1> QED BY <1>6, <1>8, <1>9, <1>10 DEF CommitSlot, OnlyPrep, idVars, gateVars

\* The gate file, once it is bound, is never absent or armed again.
Unbound == gate.status \in {"ABSENT", "ARMED"}

\* Every write but the first arming leaves the gate bound, or past it.
LEMMA BoundForGood ==
  ASSUME TypeOK, LocalsOK, [Next]_vars, Unbound'
  PROVE  /\ Unbound
         /\ \A p \in Preparers : ~ BindReplace(p)
<1>2. ASSUME NEW p \in Preparers, BindReplace(p) PROVE FALSE
  <2>1. prep[p].seen \in GateRecord
    BY <1>2 DEF BindReplace, PrepAt, LocalsOK, PrepLocals
  <2>2. gate'.status = "BOUND"
    BY <1>2, <2>1 DEF BindReplace, Gate!ReplaceGate, Gate!Bound, GateRecord, Gate!GateRecord
  <2> QED BY <2>2 DEF Unbound
<1>3. ASSUME NEW e \in Executors, ConsumeReplace(e) PROVE FALSE
  <2>1. exec[e].seen \in GateRecord
    BY <1>3 DEF ConsumeReplace, ExecAt, LocalsOK, ExecLocals
  <2>2. gate'.status = "CONSUMED"
    BY <1>3, <2>1 DEF ConsumeReplace, Gate!ReplaceGate, Gate!Consumed, GateRecord,
       Gate!GateRecord
  <2> QED BY <2>2 DEF Unbound
<1>4. ASSUME NEW e \in Executors, RecordReplace(e) PROVE FALSE
  <2>1. exec[e].seen \in GateRecord
    BY <1>4 DEF RecordReplace, ExecAt, LocalsOK, ExecLocals
  <2>2. gate'.status = "FINALIZATION_PENDING"
    BY <1>4, <2>1 DEF RecordReplace, Gate!ReplaceGate, Gate!Recorded, GateRecord,
       Gate!GateRecord
  <2> QED BY <2>2 DEF Unbound
<1>5. ASSUME VerifyReplace PROVE FALSE
  <2>1. receipt.seen \in GateRecord
    BY <1>5 DEF VerifyReplace, LocalsOK
  <2>2. gate'.status = "FINALIZED_VERIFIED"
    BY <1>5, <2>1 DEF VerifyReplace, Gate!ReplaceGate, Gate!Verified, GateRecord,
       Gate!GateRecord
  <2> QED BY <2>2 DEF Unbound
<1>6. gate' = gate \/ Gate!Arm(now)
  <2>1. ASSUME NEW p \in Preparers, PrepareStep(p) PROVE gate' = gate
    BY <1>2, <2>1 DEF PrepareStep, BeginPrepare, ReserveSlot, OrderAccepted, OrderRefused,
       BindRead, BindTemp, Gate!CreateTemp, CommitSlot, ReleaseRead, ReleaseSlot,
       CrashPrepare, gateVars
  <2>2. ASSUME NEW e \in Executors, ExecuteStep(e) PROVE gate' = gate
    BY <1>3, <1>4, <2>2 DEF ExecuteStep, LoadOrder, BeginExecution, ConsumeRead,
       ConsumeTemp, PostTransaction, AnswerUnusable, AnswerSuccess, AnswerFailed,
       Complete, RecordRead, RecordTemp, Release, CrashExecute, Gate!CreateTemp, gateVars
  <2>3. ASSUME OperatorStep PROVE gate' = gate \/ Gate!Arm(now)
    BY <1>5, <2>3 DEF OperatorStep, ArmGate, VerifyRead, VerifyFetch, VerifyTemp,
       Gate!CreateTemp, gateVars
  <2>4. ASSUME Tick \/ UNCHANGED vars PROVE gate' = gate
    BY <2>4 DEF Tick, vars, gateVars
  <2> QED BY <2>1, <2>2, <2>3, <2>4 DEF Next
<1>7. Unbound
  BY <1>6 DEF Unbound, Gate!Arm
<1> QED BY <1>2, <1>7

\* A call that was given a slot, ...
PastReserve(p) == prep[p].step \notin {"idle", "reserve"}

\* ... found the gate armed and has not committed its order, ...
Binding(p) == prep[p].step \in {"bindTemp", "bindReplace", "commit"}

\* ... or is about to write the gate file.
WritesBound(p) == prep[p].step \in {"bindTemp", "bindReplace"}

\* What a step may do to a preparing call in one-shot mode.
PrepMove(p) ==
  /\ \/ prep'[p].slot \in {None, prep[p].slot}
     \/ FreshSlot(prep'[p].slot)
  /\ prep'[p].step # "idle" =>
       \/ <<prep'[p].wallet, prep'[p].token>> = OneShotPair
       \/ /\ prep[p].step # "idle"
          /\ prep'[p].wallet = prep[p].wallet /\ prep'[p].token = prep[p].token
  /\ PastReserve(p)' => \/ PastReserve(p) /\ prep'[p].slot = prep[p].slot
                        \/ /\ prep'[p].slot \in ReservationIds
                           /\ reservation'[prep'[p].slot] # None
  /\ Binding(p)' => /\ PastReserve(p) /\ prep'[p].slot = prep[p].slot
                    /\ Binding(p) \/ gate.status = "ARMED"
  /\ WritesBound(p)' => \/ WritesBound(p) /\ prep'[p].seen = prep[p].seen
                        \/ gate.status = "ARMED" /\ prep'[p].seen = gate
  /\ prep'[p].step = "commit" => /\ prep'[p].request = prep[p].request
                                 /\ prep[p].step = "commit" \/ BindReplace(p)

\* Every step moves a call so, and one call at a time.
LEMMA PrepMoves ==
  ASSUME OneShot, TypeOK, LocalsOK, [Next]_vars, NEW p \in Preparers
  PROVE  /\ PrepMove(p)
         /\ \A q \in Preparers : p = q \/ prep'[p] = prep[p] \/ prep'[q] = prep[q]
<1>0. prep \in [Preparers -> PrepRecord]
  BY DEF TypeOK
<1> USE DEF PastReserve, Binding, WritesBound
<1>1. ASSUME prep'[p] = prep[p] PROVE PrepMove(p)
  BY <1>1 DEF PrepMove
<1>2. ASSUME PrepEnd(p) PROVE PrepMove(p)
  BY <1>0, <1>2 DEF PrepMove, PrepEnd, PrepIdle
<1>3. ASSUME NEW q \in Preparers, PrepareStep(q)
      PROVE  /\ prep'[q] # prep[q] => \A i \in Preparers : i # q => prep'[i] = prep[i]
             /\ q # p => prep'[p] = prep[p]
  BY <1>0, <1>3 DEF PrepGoto, PrepEnd, PrepareStep, BeginPrepare, ReserveSlot, OrderAccepted,
     OrderRefused, BindRead, BindTemp, BindReplace, CommitSlot, ReleaseRead, ReleaseSlot,
     CrashPrepare
<1>4. ASSUME PrepareStep(p) PROVE PrepMove(p)
  <2> USE DEF PrepAt, PrepGoto
  <2>1. ASSUME NEW w \in Wallets, NEW tk \in Tokens, BeginPrepare(p, w, tk) PROVE PrepMove(p)
    BY <1>0, <2>1 DEF BeginPrepare, PrepIdle, PrepMove
  <2>2. ASSUME ReserveSlot(p) PROVE PrepMove(p)
    <3>1. CASE PrepEnd(p)
      BY <1>2, <3>1
    <3>2. CASE ~ PrepEnd(p)
      <4>1. PICK x \in ReservationIds, t \in Clocks :
              /\ FreshSlot(x) /\ ReserveOK(t, x, prep[p].wallet, prep[p].token)
              /\ prep' = [prep EXCEPT ![p].step = "order", ![p].slot = x]
        BY <2>2, <3>2 DEF ReserveSlot
      <4>2. reservation'[x] # None
        <5>1. prep[p].wallet \in Wallets /\ prep[p].token \in Tokens
          BY <2>2 DEF ReserveSlot, TypeOK, LocalsOK, PrepLocals, PrepRecord
        <5>2. now + ReservationTtl \in Nat /\ t + ReservationTtl \in Nat
          BY LimitsAssumption, Readings DEF LimitsAssumption, TypeOK, StoreTypeOK
        <5>3. reservation'[x] \in ReservationRecord
          BY <4>1, <5>1, <5>2 DEF ReserveOK, ReservationRecord, TypeOK, StoreTypeOK
        <5> QED BY <5>3, NoneAssumption DEF NoneAssumption
      <4>3. /\ prep'[p].step = "order" /\ prep'[p].slot = x
            /\ prep'[p].wallet = prep[p].wallet /\ prep'[p].token = prep[p].token
        BY <1>0, <4>1 DEF PrepRecord
      <4> QED BY <2>2, <4>1, <4>2, <4>3 DEF ReserveSlot, PrepMove
    <3> QED BY <3>1, <3>2
  <2>3. ASSUME OrderAccepted(p) PROVE PrepMove(p)
    <3>1. PICK r \in RequestIds, t \in Clocks :
            prep' = [prep EXCEPT ![p].request = r, ![p].read = t, ![p].step = "bind"]
      BY <2>3 DEF OrderAccepted
    <3> QED BY <1>0, <2>3, <3>1 DEF OrderAccepted, PrepRecord, PrepMove
  <2>4. ASSUME OrderRefused(p) PROVE PrepMove(p)
    BY <1>0, <2>4 DEF OrderRefused, PrepRecord, PrepMove
  <2>5. ASSUME BindRead(p) PROVE PrepMove(p)
    BY <1>0, <2>5 DEF BindRead, Gate!MayBind, PrepRecord, PrepMove
  <2>6. ASSUME BindTemp(p) PROVE PrepMove(p)
    BY <1>0, <2>6 DEF BindTemp, PrepRecord, PrepMove
  <2>7. ASSUME BindReplace(p) PROVE PrepMove(p)
    <3>1. prep' = [prep EXCEPT ![p].step = "commit", ![p].seen = None] /\ PrepAt(p, "bindReplace")
      BY <2>7 DEF BindReplace
    <3> QED BY <1>0, <2>7, <3>1 DEF PrepRecord, PrepMove
  <2>8. ASSUME CommitSlot(p) PROVE PrepMove(p)
    <3>1. CASE PrepEnd(p)
      BY <1>2, <3>1
    <3>2. CASE PrepGoto(p, "abort")
      BY <1>0, <2>8, <3>2 DEF CommitSlot, PrepRecord, PrepMove
    <3> QED BY <2>8, <3>1, <3>2 DEF CommitSlot
  <2>9. ASSUME ReleaseRead(p) PROVE PrepMove(p)
    <3>1. CASE PrepEnd(p)
      BY <1>2, <3>1
    <3>2. CASE PrepGoto(p, "release")
      BY <1>0, <2>9, <3>2 DEF ReleaseRead, PrepRecord, PrepMove
    <3> QED BY <2>9, <3>1, <3>2 DEF ReleaseRead
  <2>10. ASSUME ReleaseSlot(p) \/ CrashPrepare(p) PROVE PrepMove(p)
    BY <1>2, <2>10 DEF ReleaseSlot, CrashPrepare
  <2> QED
    BY <1>4, <2>1, <2>2, <2>3, <2>4, <2>5, <2>6, <2>7, <2>8, <2>9, <2>10 DEF PrepareStep
<1>5. ASSUME ~ \E q \in Preparers : PrepareStep(q) PROVE prep' = prep
  BY <1>5 DEF Next, OnlyExec, idVars, ExecuteStep, LoadOrder, BeginExecution, ConsumeRead,
     ConsumeTemp, ConsumeReplace, PostTransaction, AnswerUnusable, AnswerSuccess,
     AnswerFailed, Complete, RecordRead, RecordTemp, RecordReplace, Release, CrashExecute,
     OperatorStep, ArmGate, VerifyRead, VerifyFetch, VerifyTemp, VerifyReplace, Tick, vars
<1> QED BY <1>1, <1>3, <1>4, <1>5

\* A reservation comes into being under a name that nobody uses.
LEMMA SlotRevived ==
  ASSUME TypeOK, LocalsOK, ReadAgree, [Next]_vars, NEW x \in ReservationIds,
         reservation[x] = None, reservation'[x] # None
  PROVE  FreshSlot(x)
<1>0. reservation \in [ReservationIds -> ReservationRecord \cup {None}]
  BY DEF TypeOK, StoreTypeOK
<1>1. PICK y \in ReservationIds : FreshSlot(y) /\ \E t, w, tk : ReserveOK(t, y, w, tk)
  BY <1>0, StoreEffects DEF StoreEffect, ReserveRefused, CommitOK, CommitRefused,
     ReleaseReservation, BeginExecutionOK, CompleteExecution, Advance, Unexpired
<1>2. y = x
  BY <1>0, <1>1 DEF ReserveOK
<1> QED BY <1>1, <1>2

\* Two calls never name one slot.
SlotsApart ==
  \A p, q \in Preparers, x \in ReservationIds :
    prep[p].slot = x /\ prep[q].slot = x => p = q

NothingDealtWith == \A r \in RequestIds : Untouched(r)

\* Until the gate is bound no order is dealt with.  Whoever may still bind the
\* gate, or commit the order bound to it, either lost its slot or finds that no
\* order is dealt with: two slots of the pair never count at once.
SingleInvariant ==
  /\ SlotsApart
  /\ \A p \in Preparers :
       ~ PrepAt(p, "idle") => <<prep[p].wallet, prep[p].token>> = OneShotPair
  /\ Unbound => NothingDealtWith /\ \A p \in Preparers : ~ PrepAt(p, "commit")
  /\ \A p \in Preparers, x \in ReservationIds :
       Binding(p) /\ prep[p].slot = x /\ reservation[x] # None => NothingDealtWith
  /\ \A r1, r2 \in RequestIds : Untouched(r1) \/ Untouched(r2) \/ r1 = r2

\* Two members of a set of one are the same.
LEMMA AtMostOne ==
  ASSUME NEW L, IsFiniteSet(L), Cardinality(L) <= 1, NEW a \in L, NEW b \in L
  PROVE  a = b
<1>1. IsFiniteSet(L \ {a}) /\ Cardinality(L \ {a}) = Cardinality(L) - 1
  BY FS_RemoveElement
<1>2. Cardinality(L) \in Nat /\ Cardinality(L \ {a}) \in Nat
  BY <1>1, FS_CardinalityType
<1>3. L \ {a} = {}
  BY <1>1, <1>2, FS_EmptySet
<1> QED BY <1>3

\* With a limit of one, a wallet and token has one slot that counts.
LEMMA OneSlotOfPair ==
  ASSUME WalletTokenLimit = 1, "slot" \notin late,
         TypeOK, FinitelyStored, CountedInvariant, CountsWithin,
         NEW x \in ReservationIds, NEW y \in ReservationIds,
         Current(reservation[x]), Current(reservation[y]),
         reservation[x].wallet = reservation[y].wallet,
         reservation[x].token = reservation[y].token
  PROVE  x = y
<1> USE SwapAssumption DEF SwapAssumption
<1>1. PICK w \in Wallets, tk \in Tokens : w = reservation[x].wallet /\ tk = reservation[x].token
  BY DEF TypeOK, StoreTypeOK, ReservationRecord, Current
<1>2. /\ PairKey(w, tk) \in AdmissionKeys(w, tk) /\ PairKey(w, tk) \in IndexKeys
      /\ Limited(PairKey(w, tk), 1)
  BY KeyFacts DEF AdmissionKeys
<1>3. IsFiniteSet(Live(PairKey(w, tk))) /\ Cardinality(Live(PairKey(w, tk))) <= 1
  <2>1. now \in Nat
    BY DEF TypeOK, StoreTypeOK
  <2>2. Live(PairKey(w, tk)) \subseteq Stored(PairKey(w, tk))
    BY <1>2, <2>1 DEF TypeOK, StoreTypeOK, Live, Stored
  <2> QED BY <1>2, <2>2, FS_Subset DEF CountsWithin, FinitelyStored
<1>4. \A z \in {x, y} : ReservationMember(z) \in Live(PairKey(w, tk))
  <2>1. /\ \A z \in {x, y} : reservation[z].expires \in Nat
        /\ now \in Nat /\ \A m \in Members : index[PairKey(w, tk)][m] \in Nat
    BY <1>2 DEF TypeOK, StoreTypeOK, ReservationRecord, Current
  <2> QED BY <1>1, <1>2, <2>1, MemberFacts DEF CountedInvariant, SlotCounted, Current, Live
<1>5. ReservationMember(x) = ReservationMember(y)
  BY <1>3, <1>4, AtMostOne
<1> QED BY <1>5, MemberFacts

\* Initially there are no slots and no orders.
LEMMA SingleInit ==
  ASSUME Init
  PROVE  SingleInvariant
<1>1. NothingDealtWith
  BY SwapAssumption DEF SwapAssumption, Init, StoreInit, NothingDealtWith, Untouched, ExecIdle
<1>2. \A p \in Preparers : prep[p].step = "idle" /\ prep[p].slot = None
  BY DEF Init, PrepIdle
<1> QED BY <1>1, <1>2, SwapAssumption
        DEF SwapAssumption, SingleInvariant, SlotsApart, PrepAt, Binding, NothingDealtWith

\* A call commits in its slot; whoever else may bind or commit would need a
\* second slot of the pair, which the limit of one rules out.
LEMMA SingleStep ==
  ASSUME OneShot, "slot" \notin late, WalletTokenLimit = 1,
         TypeOK, LocalsOK, ReadAgree, TermsAgree, FinitelyStored, SlotsInTime,
         CountedInvariant, CountsWithin, SingleInvariant, [Next]_vars
  PROVE  SingleInvariant'
<1>0. /\ None \notin RequestIds /\ None \notin ReservationIds
      /\ pending \in [RequestIds -> PendingRecord \cup {None}]
      /\ \A p \in Preparers : prep[p].slot \in ReservationIds \cup {None}
  BY SwapAssumption DEF SwapAssumption, TypeOK, StoreTypeOK, PrepRecord
\* Whoever commits holds its slot, and no order was dealt with before.
<1>1. ASSUME NEW r \in RequestIds, Untouched(r), ~ Untouched(r)'
      PROVE  \E p \in Preparers :
               /\ prep[p].step = "commit" /\ PrepEnd(p)
               /\ prep[p].slot \in ReservationIds /\ reservation[prep[p].slot] # None
               /\ NothingDealtWith /\ ~ Unbound
               /\ \A s \in RequestIds : s # r => Untouched(s)'
  <2>1. PICK p \in Preparers, life \in OrderLifetimes :
           /\ PrepAt(p, "commit") /\ prep[p].request = r
           /\ CommitOK(prep[p].read, prep[p].slot, r, prep[p].wallet, prep[p].token,
                       prep[p].read + life)
           /\ PrepEnd(p)
           /\ UNCHANGED <<now, exec, sent, gate>>
    BY <1>1, TouchedByCommit
  <2>2. prep[p].slot \in ReservationIds /\ reservation[prep[p].slot] # None
    BY <1>0, <2>1 DEF CommitOK, CommitVerdict, HeldFor, LocalsOK, PrepLocals, PrepAt
  <2>3. NothingDealtWith /\ ~ Unbound
    BY <2>1, <2>2 DEF SingleInvariant, Binding, PrepAt
  <2>4. \A s \in RequestIds : s # r => pending'[s] = pending[s]
    BY <1>0, <2>1 DEF CommitOK
  <2>5. \A s \in RequestIds : s # r => Untouched(s)'
    BY <2>1, <2>3, <2>4 DEF NothingDealtWith, Untouched
  <2> QED BY <2>1, <2>2, <2>3, <2>5 DEF PrepAt
<1>2. SlotsApart'
  <2>1. SUFFICES ASSUME NEW p \in Preparers, NEW q \in Preparers, NEW x \in ReservationIds,
                        prep'[p].slot = x, prep'[q].slot = x
                 PROVE  p = q
    BY DEF SlotsApart
  <2>2. \A i \in Preparers : prep'[i].slot = x => prep[i].slot = x \/ FreshSlot(x)
    BY <1>0, PrepMoves DEF PrepMove
  <2>3. CASE FreshSlot(x)
    BY <2>1, <2>3, PrepMoves DEF PrepMove, FreshSlot
  <2>4. CASE ~ FreshSlot(x)
    BY <2>1, <2>2, <2>4 DEF SingleInvariant, SlotsApart
  <2> QED BY <2>3, <2>4
<1>3. ASSUME NEW p \in Preparers, prep'[p].step # "idle"
      PROVE  <<prep'[p].wallet, prep'[p].token>> = OneShotPair
  BY <1>3, PrepMoves DEF PrepMove, SingleInvariant, PrepAt
<1>4. ASSUME Unbound'
      PROVE  NothingDealtWith' /\ \A p \in Preparers : prep'[p].step # "commit"
  <2>1. Unbound /\ \A p \in Preparers : ~ BindReplace(p)
    BY <1>4, BoundForGood
  <2>2. NothingDealtWith /\ \A p \in Preparers : prep[p].step # "commit"
    BY <2>1 DEF SingleInvariant, PrepAt
  <2>3. \A r \in RequestIds : Untouched(r)'
    BY <1>1, <2>1, <2>2 DEF NothingDealtWith
  <2> QED BY <2>1, <2>2, <2>3, PrepMoves DEF PrepMove, NothingDealtWith
<1>5. ASSUME NEW p \in Preparers, NEW x \in ReservationIds,
             Binding(p)', prep'[p].slot = x, reservation'[x] # None
      PROVE  NothingDealtWith'
  <2>1. /\ prep[p].slot = x /\ PastReserve(p)
        /\ Binding(p) \/ gate.status = "ARMED"
    BY <1>5, PrepMoves DEF PrepMove
  <2>2. reservation[x] # None
    BY <1>5, <2>1, SlotRevived DEF FreshSlot
  <2>3. NothingDealtWith
    BY <2>1, <2>2 DEF SingleInvariant, Unbound
  <2>4. SUFFICES ASSUME NEW r \in RequestIds, ~ Untouched(r)' PROVE FALSE
    BY DEF NothingDealtWith
  <2>5. Untouched(r)
    BY <2>3 DEF NothingDealtWith
  <2>6. PICK q \in Preparers :
          /\ prep[q].step = "commit" /\ PrepEnd(q)
          /\ prep[q].slot \in ReservationIds /\ reservation[prep[q].slot] # None
          /\ ~ Unbound
    BY <1>1, <2>4, <2>5
  <2>7. p # q
    BY <1>5, <2>6 DEF PrepEnd, PrepIdle, Binding, TypeOK
  <2>8. prep[p].step # "idle"
    BY <2>1, <2>6 DEF Unbound, Binding
  <2>9. <<prep[p].wallet, prep[p].token>> = <<prep[q].wallet, prep[q].token>>
    BY <2>6, <2>8 DEF SingleInvariant, PrepAt
  <2>10. /\ reservation[x].wallet = reservation[prep[q].slot].wallet
         /\ reservation[x].token = reservation[prep[q].slot].token
    BY <2>1, <2>2, <2>6, <2>9 DEF TermsAgree
  <2>11. Current(reservation[x]) /\ Current(reservation[prep[q].slot])
    BY <2>1, <2>2, <2>6 DEF SlotsInTime, SlotInTime, PastReserve, Current
  <2>12. prep[q].slot = x
    BY <2>6, <2>10, <2>11, OneSlotOfPair
  <2> QED BY <2>1, <2>7, <2>12 DEF SingleInvariant, SlotsApart
<1>6. ASSUME NEW r1 \in RequestIds, NEW r2 \in RequestIds
      PROVE  Untouched(r1)' \/ Untouched(r2)' \/ r1 = r2
  <2>1. CASE ~ Untouched(r1) /\ ~ Untouched(r2)
    BY <2>1 DEF SingleInvariant
  <2>2. CASE Untouched(r1) \/ Untouched(r2)
    BY <1>1, <2>2
  <2> QED BY <2>1, <2>2
<1> QED BY <1>2, <1>3, <1>4, <1>5, <1>6 DEF SingleInvariant, PrepAt

\* A provider that never repeats an id has repeated none.
LEMMA NoneRepeated ==
  ASSUME RepeatIds = FALSE, repeated = {}, [Next]_vars
  PROVE  repeated' = {}
<1>1. ASSUME NEW p \in Preparers, OrderAccepted(p) PROVE repeated' = {}
  BY <1>1 DEF OrderAccepted
<1>2. CASE ~ \E p \in Preparers : OrderAccepted(p)
  BY <1>2 DEF Next, PrepareStep, BeginPrepare, ReserveSlot, OrderRefused, BindRead,
     BindTemp, BindReplace, CommitSlot, ReleaseRead, ReleaseSlot, CrashPrepare,
     OnlyExec, ExecuteStep, LoadOrder, BeginExecution, ConsumeRead, ConsumeTemp,
     ConsumeReplace, PostTransaction, AnswerUnusable, AnswerSuccess, AnswerFailed,
     Complete, RecordRead, RecordTemp, RecordReplace, Release, CrashExecute,
     OperatorStep, ArmGate, VerifyRead, VerifyFetch, VerifyTemp, VerifyReplace, Tick,
     vars, worldVars, idVars
<1> QED BY <1>1, <1>2

\* In one-shot mode, with the one slot per wallet and token of the code, a
\* single signed transaction of a single order leaves the server until a
\* preparing call outlives its slot, although the gate file has no lock and
\* whatever the clocks of the replicas show.
THEOREM SingleTransaction ==
  ASSUME RepeatIds = FALSE, WalletTokenLimit = 1
  PROVE  Spec => []OneShotSingleTransactionInTime
<1> DEFINE IInv == /\ TypeOK /\ LocalsOK /\ PinInvariant /\ TermsAgree /\ ReadAgree
                   /\ FinitelyStored /\ SlotsInTime /\ CountedInvariant /\ CountsWithin
                   /\ repeated = {}
                   /\ (OneShot /\ "slot" \notin late => SingleInvariant)
<1>1. Init => IInv
  <2>1. Init => repeated = {}
    BY DEF Init
  <2> QED BY <2>1, TypeInit, PinInit, TermsInit, ReadInit, CapacityInit, SingleInit,
             SwapAssumption
<1>2. IInv /\ [Next]_vars => IInv'
  <2> SUFFICES ASSUME IInv, [Next]_vars PROVE IInv'
    OBVIOUS
  <2>1. /\ TypeOK' /\ LocalsOK' /\ PinInvariant' /\ TermsAgree' /\ ReadAgree'
        /\ FinitelyStored' /\ SlotsInTime' /\ CountedInvariant' /\ CountsWithin'
    BY TypeStep, PinStep, TermsStepAgree, ReadStep, FiniteStep, InTimeStep, CountedStep,
       CountsStep
  <2>2. repeated' = {}
    BY NoneRepeated
  <2>3. OneShot /\ "slot" \notin late' => SingleInvariant'
    BY SingleStep, LateGrows
  <2> QED BY <2>1, <2>2, <2>3
<1>3. IInv => OneShotSingleTransactionInTime
  <2> SUFFICES ASSUME IInv, OneShot, "slot" \notin late, NEW s1 \in sent, NEW s2 \in sent
               PROVE  s1 = s2
    BY DEF OneShotSingleTransactionInTime
  <2>1. PICK r1 \in RequestIds, d1 \in Digests : s1 = <<r1, d1>>
    BY DEF TypeOK
  <2>2. PICK r2 \in RequestIds, d2 \in Digests : s2 = <<r2, d2>>
    BY DEF TypeOK
  <2>3. r1 = r2
    BY <2>1, <2>2 DEF SingleInvariant, Untouched
  <2>4. d1 = d2
    BY <2>1, <2>2, <2>3 DEF PinInvariant, Pinned
  <2> QED BY <2>1, <2>2, <2>3, <2>4
<1> HIDE DEF IInv
<1> QED BY <1>1, <1>2, <1>3, PTL DEF Spec

-----------------------------------------------------------------------------
(* The gate file, while every call ends before its slot or its lock lapses. *)

\* An execution that holds its order's lock, or has completed the order; ...
Executing(e) == exec[e].step \notin {"idle", "begin"}

\* ... has completed it, ...
Recording(e) == exec[e].step \in {"record", "recordTemp", "recordReplace"}

\* ... is about to consume the gate, ...
Consuming(e) == exec[e].step \in {"consumeTemp", "consumeReplace"}

\* ... found or made it consumed, ...
Spent(e) == exec[e].step \in {"post", "waiting", "complete"} \/ Recording(e)

\* ... or is about to write the answer down.
Answering(e) == exec[e].step \in {"recordTemp", "recordReplace"}

\* All that is stored in one-shot mode is of the pair the gate is written for.
OnlyPairStored ==
  /\ \A x \in ReservationIds : reservation[x] # None =>
       <<reservation[x].wallet, reservation[x].token>> = OneShotPair
  /\ \A r \in RequestIds : pending[r] # None =>
       <<pending[r].wallet, pending[r].token>> = OneShotPair

\* A call that is in time has its slot or its lock; an execution that completed
\* its order finds it gone; and one execution runs at a time.
InTimeStore ==
  /\ \A p \in Preparers, x \in ReservationIds :
       PastReserve(p) /\ prep[p].slot = x => reservation[x] # None
  /\ \A e \in Executors, r \in RequestIds :
       /\ Recording(e) /\ exec[e].request = r => pending[r] = None
       /\ Executing(e) /\ ~ Recording(e) /\ exec[e].request = r => HoldsLock(r, e)
  /\ \A e, f \in Executors : Executing(e) /\ Executing(f) => e = f

\* Whoever is about to write the gate file holds its current content, an order
\* that is dealt with is the one the gate is bound to, and what was posted is
\* what consumed it.
InTimeGate ==
  /\ \A r \in RequestIds :
       /\ Untouched(r) \/ gate.request = r
       /\ pending[r] # None => gate.status \in {"BOUND", "CONSUMED"}
  /\ \A p \in Preparers :
       /\ WritesBound(p) => gate.status = "ARMED" /\ prep[p].seen = gate
       /\ PrepAt(p, "commit") => gate.status = "BOUND" /\ gate.request = prep[p].request
  /\ \A e \in Executors :
       /\ Executing(e) => gate.status \in {"BOUND", "CONSUMED"}
       /\ Consuming(e) => gate.status = "BOUND" /\ exec[e].seen = gate
       /\ Spent(e) => gate.status = "CONSUMED" /\ gate.signed = exec[e].digest
       /\ Answering(e) => exec[e].seen = gate
  /\ gate.status = "CONSUMED" => gate.attempts = 1
  /\ receipt.step # "idle" =>
       gate.status = "FINALIZATION_PENDING" /\ receipt.seen = gate
  /\ \A s \in sent :
       /\ gate.status \in {"CONSUMED", "FINALIZATION_PENDING", "FINALIZED_VERIFIED"}
       /\ gate.attempts = 1 /\ s = <<gate.request, gate.signed>>

\* A reservation comes from a call's reserve, for the wallet and token it named.
LEMMA SlotBorn ==
  ASSUME TypeOK, LocalsOK, [Next]_vars, NEW x \in ReservationIds,
         reservation[x] = None, reservation'[x] # None
  PROVE  \E p \in Preparers :
           /\ PrepAt(p, "reserve")
           /\ reservation'[x].wallet = prep[p].wallet
           /\ reservation'[x].token = prep[p].token
<1>0. reservation \in [ReservationIds -> ReservationRecord \cup {None}]
  BY DEF TypeOK, StoreTypeOK
<1>1. ASSUME NEW p \in Preparers, PrepareStep(p) PROVE ReserveSlot(p)
  BY <1>0, <1>1 DEF PrepareStep, BeginPrepare, OrderAccepted, OrderRefused, BindRead,
     BindTemp, BindReplace, CommitSlot, CommitOK, CommitRefused, ReleaseRead, ReleaseSlot,
     ReleaseReservation, CrashPrepare, storeVars
<1>2. ASSUME NEW p \in Preparers, ReserveSlot(p)
      PROVE  /\ PrepAt(p, "reserve")
             /\ reservation'[x].wallet = prep[p].wallet
             /\ reservation'[x].token = prep[p].token
  BY <1>0, <1>2 DEF ReserveSlot, ReserveOK, ReserveRefused
<1>3. ASSUME NEW e \in Executors, ExecuteStep(e) PROVE FALSE
  BY <1>3 DEF ExecuteStep, LoadOrder, BeginExecution, BeginExecutionOK,
     BeginExecutionRefused, ConsumeRead, ConsumeTemp, ConsumeReplace, PostTransaction,
     AnswerUnusable, AnswerSuccess, AnswerFailed, Complete, CompleteExecution, RecordRead,
     RecordTemp, RecordReplace, Release, ReleaseExecution, CrashExecute, storeVars
<1>4. ASSUME OperatorStep \/ UNCHANGED vars PROVE FALSE
  BY <1>4 DEF OperatorStep, ArmGate, VerifyRead, VerifyFetch, VerifyTemp, VerifyReplace,
     vars, storeVars
<1>5. ASSUME Tick PROVE FALSE
  BY <1>0, <1>5 DEF Tick, Advance, Unexpired
<1> QED BY <1>1, <1>2, <1>3, <1>4, <1>5 DEF Next

\* An order comes from the commit of a call, in its slot and on its terms, and
\* was not dealt with before.
LEMMA OrderBorn ==
  ASSUME TypeOK, LocalsOK, ReadAgree, PinInvariant, repeated = {}, [Next]_vars,
         NEW r \in RequestIds, pending[r] = None, pending'[r] # None
  PROVE  /\ Untouched(r)
         /\ \E p \in Preparers :
              /\ PrepAt(p, "commit") /\ prep[p].request = r
              /\ pending'[r].wallet = prep[p].wallet
              /\ pending'[r].token = prep[p].token
<1>0. pending \in [RequestIds -> PendingRecord \cup {None}]
  BY DEF TypeOK, StoreTypeOK
<1>1. Untouched(r)
  BY <1>0, StoreEffects
     DEF StoreEffect, ReserveOK, ReserveRefused, CommitOK, CommitRefused,
         ReleaseReservation, BeginExecutionOK, BeginVerdict, CompleteExecution, Advance,
         Unexpired, PinInvariant
<1>2. ~ Untouched(r)'
  BY DEF Untouched
<1>3. PICK p \in Preparers, life \in OrderLifetimes :
         /\ PrepAt(p, "commit") /\ prep[p].request = r
         /\ CommitOK(prep[p].read, prep[p].slot, r, prep[p].wallet, prep[p].token,
                     prep[p].read + life)
  BY <1>1, <1>2, TouchedByCommit
<1> QED BY <1>0, <1>1, <1>3 DEF CommitOK

\* A reservation goes when its time is over, or by the last step of its call.
LEMMA SlotGone ==
  ASSUME TypeOK, LocalsOK, [Next]_vars, NEW x \in ReservationIds,
         reservation[x] # None, reservation'[x] = None
  PROVE  \/ Tick /\ reservation[x].ttlEnd <= now + 1
         \/ \E p \in Preparers : prep[p].slot = x /\ PrepEnd(p)
<1>0. reservation \in [ReservationIds -> ReservationRecord \cup {None}]
  BY DEF TypeOK, StoreTypeOK
<1>1. ASSUME NEW p \in Preparers, PrepareStep(p)
      PROVE  prep[p].slot = x /\ PrepEnd(p)
  <2>1. CASE ReserveSlot(p)
    <3>1. PICK y \in ReservationIds, t \in Clocks : ReserveOK(t, y, prep[p].wallet, prep[p].token)
      BY <1>0, <2>1 DEF ReserveSlot, ReserveRefused
    <3>2. /\ prep[p].wallet \in Wallets /\ prep[p].token \in Tokens
          /\ now + ReservationTtl \in Nat /\ t + ReservationTtl \in Nat
      BY <2>1, Readings, LimitsAssumption DEF LimitsAssumption, ReserveSlot, PrepAt, TypeOK,
         StoreTypeOK, LocalsOK, PrepLocals, PrepRecord
    <3>3. reservation'[y] # None
      <4>1. reservation'[y] \in ReservationRecord
        BY <1>0, <3>1, <3>2 DEF ReserveOK, ReservationRecord
      <4> QED BY <4>1, NoneAssumption DEF NoneAssumption
    <3> QED BY <1>0, <3>1, <3>3 DEF ReserveOK
  <2>2. CASE CommitSlot(p)
    BY <1>0, <2>2 DEF CommitSlot, CommitOK, CommitRefused
  <2>3. CASE ReleaseSlot(p)
    BY <1>0, <2>3 DEF ReleaseSlot, ReleaseReservation
  <2>4. CASE ~ (ReserveSlot(p) \/ CommitSlot(p) \/ ReleaseSlot(p))
    BY <1>0, <1>1, <2>4 DEF PrepareStep, BeginPrepare, OrderAccepted, OrderRefused,
       BindRead, BindTemp, BindReplace, ReleaseRead, CrashPrepare, storeVars
  <2> QED BY <2>1, <2>2, <2>3, <2>4
<1>3. ASSUME NEW e \in Executors, ExecuteStep(e) PROVE FALSE
  BY <1>3 DEF ExecuteStep, LoadOrder, BeginExecution, BeginExecutionOK,
     BeginExecutionRefused, ConsumeRead, ConsumeTemp, ConsumeReplace, PostTransaction,
     AnswerUnusable, AnswerSuccess, AnswerFailed, Complete, CompleteExecution, RecordRead,
     RecordTemp, RecordReplace, Release, ReleaseExecution, CrashExecute, storeVars
<1>4. ASSUME OperatorStep \/ UNCHANGED vars PROVE FALSE
  BY <1>4 DEF OperatorStep, ArmGate, VerifyRead, VerifyFetch, VerifyTemp, VerifyReplace,
     vars, storeVars
<1>5. ASSUME Tick PROVE reservation[x].ttlEnd <= now + 1
  BY <1>0, <1>5 DEF Tick, Advance, Unexpired
<1> QED BY <1>1, <1>3, <1>4, <1>5 DEF Next

\* While it exists, a reservation is the one its reserve wrote.
LEMMA SlotKept ==
  ASSUME TypeOK, LocalsOK, ReadAgree, [Next]_vars, NEW x \in ReservationIds,
         reservation[x] # None, reservation'[x] # None
  PROVE  reservation'[x] = reservation[x]
BY StoreEffects
   DEF TypeOK, StoreTypeOK, StoreEffect, FreshSlot, ReserveOK, ReserveRefused, CommitOK,
       CommitRefused, ReleaseReservation, BeginExecutionOK, CompleteExecution, Advance,
       Unexpired

\* The fastest clock of a replica takes a reservation for expired before Redis
\* drops its key.
KeysOutlive ==
  \A x \in ReservationIds :
    reservation[x] # None => reservation[x].expires <= reservation[x].ttlEnd + ClockLead

LEMMA KeysStep ==
  ASSUME TypeOK, LocalsOK, ReadAgree, KeysOutlive, [Next]_vars
  PROVE  KeysOutlive'
<1> SUFFICES ASSUME NEW x \in ReservationIds, reservation'[x] # None
             PROVE  reservation'[x].expires <= reservation'[x].ttlEnd + ClockLead
  BY DEF KeysOutlive
<1>0. /\ reservation \in [ReservationIds -> ReservationRecord \cup {None}]
      /\ now \in Nat /\ ClockLead \in Nat /\ ReservationTtl \in Nat
  BY SwapAssumption, LimitsAssumption
     DEF SwapAssumption, LimitsAssumption, TypeOK, StoreTypeOK
<1>1. CASE reservation[x] # None
  BY <1>1, SlotKept DEF KeysOutlive
<1>2. CASE reservation[x] = None
  <2>1. PICK y \in ReservationIds, t \in Nat, w \in Wallets, tk \in Tokens :
          t <= now + ClockLead /\ ReserveOK(t, y, w, tk)
    BY <1>0, <1>2, StoreEffects
       DEF StoreEffect, ReserveRefused, CommitOK, CommitRefused, ReleaseReservation,
           BeginExecutionOK, CompleteExecution, Advance, Unexpired
  <2>2. /\ reservation'[x].expires = t + ReservationTtl
        /\ reservation'[x].ttlEnd = now + ReservationTtl
    BY <1>0, <1>2, <2>1 DEF ReserveOK
  <2> QED BY <1>0, <2>1, <2>2
<1> QED BY <1>1, <1>2

\* A lock goes when its time is over, or by the step with which its holder
\* completes its order or gives up.
LEMMA LockGone ==
  ASSUME TypeOK, [Next]_vars, NEW r \in RequestIds, NEW f \in Executors,
         HoldsLock(r, f), ~ HoldsLock(r, f)'
  PROVE  \/ Tick /\ lock[r].ttlEnd <= now + 1
         \/ Complete(f) \/ Release(f)
<1>0. lock \in [RequestIds -> LockRecord \cup {None}]
  BY DEF TypeOK, StoreTypeOK
<1>1. lock[r] # None /\ lock'[r] # lock[r]
  BY DEF HoldsLock
<1>3. ASSUME NEW p \in Preparers, PrepareStep(p) PROVE FALSE
  BY <1>1, <1>3 DEF PrepareStep, BeginPrepare, ReserveSlot, OrderAccepted, OrderRefused,
     BindRead, BindTemp, BindReplace, CommitSlot, ReleaseRead, ReleaseSlot,
     CrashPrepare, ReserveOK, ReserveRefused, CommitOK, CommitRefused,
     ReleaseReservation, storeVars
<1>4. ASSUME NEW e \in Executors, ExecuteStep(e) PROVE Complete(f) \/ Release(f)
  <2>1. ASSUME BeginExecution(e) PROVE FALSE
    BY <1>0, <1>1, <2>1 DEF BeginExecution, BeginExecutionOK, BeginExecutionRefused,
       BeginVerdict, storeVars
  <2>2. ASSUME lock' = LockWithout(exec[e].request, e) PROVE e = f
    BY <1>0, <1>1, <2>2 DEF LockWithout, HoldsLock
  <2>3. ASSUME ~ BeginExecution(e), ~ Complete(e), ~ Release(e) PROVE FALSE
    BY <1>1, <1>4, <2>3 DEF ExecuteStep, LoadOrder, ConsumeRead, ConsumeTemp,
       ConsumeReplace, PostTransaction, AnswerUnusable, AnswerSuccess, AnswerFailed,
       RecordRead, RecordTemp, RecordReplace, CrashExecute, storeVars
  <2> QED BY <2>1, <2>2, <2>3 DEF Complete, CompleteExecution, Release, ReleaseExecution
<1>5. ASSUME OperatorStep \/ UNCHANGED vars PROVE FALSE
  BY <1>1, <1>5 DEF OperatorStep, ArmGate, VerifyRead, VerifyFetch, VerifyTemp,
     VerifyReplace, vars, storeVars
<1>6. ASSUME Tick PROVE lock[r].ttlEnd <= now + 1
  BY <1>0, <1>1, <1>6 DEF Tick, Advance, Unexpired
<1> QED BY <1>3, <1>4, <1>5, <1>6 DEF Next

\* What a step may do to an executing call in one-shot mode.
ExecMove(e) ==
  /\ Executing(e)' =>
       /\ exec'[e].request = exec[e].request /\ exec'[e].digest = exec[e].digest
       /\ \/ Executing(e)
          \/ /\ ExecAt(e, "begin") /\ ~ Recording(e)'
             /\ BeginExecutionOK(exec[e].request, exec[e].digest, e)
       /\ Recording(e) => Recording(e)'
  /\ Recording(e)' => Recording(e) \/ Complete(e)
  /\ Consuming(e)' =>
       \/ Consuming(e) /\ exec'[e].seen = exec[e].seen
       \/ /\ gate.status = "BOUND" /\ exec'[e].seen = gate /\ UNCHANGED gate
  /\ Spent(e)' =>
       \/ Spent(e) /\ exec'[e].digest = exec[e].digest
       \/ /\ gate.status = "CONSUMED" /\ gate.signed = exec'[e].digest
          /\ UNCHANGED gate
       \/ ConsumeReplace(e)
  /\ Answering(e)' =>
       \/ Answering(e) /\ exec'[e].seen = exec[e].seen
       \/ exec'[e].seen = gate /\ UNCHANGED gate

\* Every step moves an execution so, and one execution at a time.
LEMMA ExecMoves ==
  ASSUME OneShot, TypeOK, LocalsOK, [Next]_vars, NEW e \in Executors
  PROVE  /\ ExecMove(e)
         /\ \A f \in Executors : e = f \/ exec'[e] = exec[e] \/ exec'[f] = exec[f]
<1>0. exec \in [Executors -> ExecRecord]
  BY DEF TypeOK
<1> USE DEF Executing, Recording, Consuming, Spent, Answering
<1>1. ASSUME exec'[e] = exec[e] PROVE ExecMove(e)
  BY <1>1 DEF ExecMove
<1>2. ASSUME ExecEnd(e) PROVE ExecMove(e)
  <2>1. exec'[e].step = "idle"
    BY <1>0, <1>2 DEF ExecEnd, ExecIdle
  <2> QED BY <2>1 DEF ExecMove
<1>3. ASSUME NEW f \in Executors, ExecuteStep(f)
      PROVE  \A i \in Executors : i # f => exec'[i] = exec[i]
  BY <1>0, <1>3 DEF ExecGoto, ExecEnd, ExecuteStep, LoadOrder, BeginExecution,
     ConsumeRead, ConsumeTemp, ConsumeReplace, PostTransaction, AnswerUnusable,
     AnswerSuccess, AnswerFailed, Complete, RecordRead, RecordTemp, RecordReplace,
     Release, CrashExecute
<1>4. ASSUME ExecuteStep(e) PROVE ExecMove(e)
  <2> USE DEF ExecAt, ExecGoto
  <2>1. ASSUME NEW r \in RequestIds, NEW d \in Digests, LoadOrder(e, r, d)
        PROVE  ExecMove(e)
    <3>1. exec'[e].step = "begin"
      BY <1>0, <2>1 DEF LoadOrder, ExecIdle
    <3> QED BY <3>1 DEF ExecMove
  <2>2. ASSUME BeginExecution(e) PROVE ExecMove(e)
    <3>1. CASE ExecEnd(e)
      BY <1>2, <3>1
    <3>2. CASE ~ ExecEnd(e)
      <4>1. /\ BeginExecutionOK(exec[e].request, exec[e].digest, e)
            /\ exec' = [exec EXCEPT ![e].step = "consume"]
        BY <2>2, <3>2 DEF BeginExecution
      <4>2. /\ exec'[e].step = "consume" /\ exec'[e].request = exec[e].request
            /\ exec'[e].digest = exec[e].digest
        BY <1>0, <4>1 DEF ExecRecord
      <4> QED BY <2>2, <4>1, <4>2 DEF BeginExecution, ExecMove
    <3> QED BY <3>1, <3>2
  <2>3. ASSUME ConsumeRead(e) PROVE ExecMove(e)
    <3>1. UNCHANGED gate /\ exec[e].step = "consume"
      BY <2>3 DEF ConsumeRead, gateVars
    <3>2. CASE /\ Gate!MayConsume(gate, exec[e].request)
               /\ exec' = [exec EXCEPT ![e].step = "consumeTemp", ![e].seen = gate]
      <4>1. /\ exec'[e].step = "consumeTemp" /\ exec'[e].seen = gate
            /\ exec'[e].request = exec[e].request /\ exec'[e].digest = exec[e].digest
        BY <1>0, <3>2 DEF ExecRecord
      <4> QED BY <3>1, <3>2, <4>1 DEF ExecMove, Gate!MayConsume
    <3>3. CASE /\ Gate!MayRetryConsumed(gate, exec[e].request, exec[e].digest)
               /\ ExecGoto(e, "post")
      <4>1. /\ exec'[e].step = "post"
            /\ exec'[e].request = exec[e].request /\ exec'[e].digest = exec[e].digest
        BY <1>0, <3>3 DEF ExecRecord
      <4> QED BY <3>1, <3>3, <4>1 DEF ExecMove, Gate!MayRetryConsumed
    <3>4. CASE ExecGoto(e, "release")
      <4>1. /\ exec'[e].step = "release"
            /\ exec'[e].request = exec[e].request /\ exec'[e].digest = exec[e].digest
        BY <1>0, <3>4 DEF ExecRecord
      <4> QED BY <3>1, <4>1 DEF ExecMove
    <3> QED BY <2>3, <3>2, <3>3, <3>4 DEF ConsumeRead
  <2>4. ASSUME ConsumeTemp(e) PROVE ExecMove(e)
    <3>1. CASE ExecEnd(e)
      BY <1>2, <3>1
    <3>2. CASE ExecGoto(e, "consumeReplace")
      BY <1>0, <2>4, <3>2 DEF ConsumeTemp, ExecRecord, ExecMove
    <3> QED BY <2>4, <3>1, <3>2 DEF ConsumeTemp
  <2>5. ASSUME ConsumeReplace(e) PROVE ExecMove(e)
    <3>1. exec' = [exec EXCEPT ![e].step = "post", ![e].seen = None]
      BY <2>5 DEF ConsumeReplace
    <3>2. /\ exec'[e].step = "post"
          /\ exec'[e].request = exec[e].request /\ exec'[e].digest = exec[e].digest
      BY <1>0, <3>1 DEF ExecRecord
    <3>3. exec[e].step = "consumeReplace"
      BY <2>5 DEF ConsumeReplace
    <3> QED BY <2>5, <3>2, <3>3 DEF ExecMove
  <2>6. ASSUME PostTransaction(e) PROVE ExecMove(e)
    BY <1>0, <2>6 DEF PostTransaction, ExecRecord, ExecMove
  <2>7. ASSUME AnswerUnusable(e) \/ AnswerSuccess(e) PROVE ExecMove(e)
    BY <1>0, <2>7 DEF AnswerUnusable, AnswerSuccess, ExecRecord, ExecMove
  <2>8. ASSUME AnswerFailed(e) \/ Release(e) \/ CrashExecute(e) \/ RecordReplace(e)
        PROVE  ExecMove(e)
    BY <1>2, <2>8 DEF AnswerFailed, Release, CrashExecute, RecordReplace
  <2>9. ASSUME Complete(e) PROVE ExecMove(e)
    <3>1. exec[e].step = "complete" /\ exec' = [exec EXCEPT ![e].step = "record"]
      BY <2>9 DEF Complete
    <3>2. /\ exec'[e].step = "record"
          /\ exec'[e].request = exec[e].request /\ exec'[e].digest = exec[e].digest
      BY <1>0, <3>1 DEF ExecRecord
    <3> QED BY <2>9, <3>1, <3>2 DEF ExecMove
  <2>10. ASSUME RecordRead(e) PROVE ExecMove(e)
    <3>1. CASE ExecEnd(e)
      BY <1>2, <3>1
    <3>2. CASE exec' = [exec EXCEPT ![e].step = "recordTemp", ![e].seen = gate]
      <4>1. /\ exec'[e].step = "recordTemp" /\ exec'[e].seen = gate
            /\ exec'[e].request = exec[e].request /\ exec'[e].digest = exec[e].digest
        BY <1>0, <3>2 DEF ExecRecord
      <4> QED BY <2>10, <4>1 DEF RecordRead, ExecMove, gateVars
    <3> QED BY <2>10, <3>1, <3>2 DEF RecordRead
  <2>11. ASSUME RecordTemp(e) PROVE ExecMove(e)
    <3>1. CASE ExecEnd(e)
      BY <1>2, <3>1
    <3>2. CASE ExecGoto(e, "recordReplace")
      BY <1>0, <2>11, <3>2 DEF RecordTemp, ExecRecord, ExecMove
    <3> QED BY <2>11, <3>1, <3>2 DEF RecordTemp
  <2> QED
    BY <1>4, <2>1, <2>2, <2>3, <2>4, <2>5, <2>6, <2>7, <2>8, <2>9, <2>10, <2>11
       DEF ExecuteStep
<1>5. ASSUME ~ \E f \in Executors : ExecuteStep(f) PROVE exec' = exec
  BY <1>5 DEF Next, OnlyPrep, idVars, PrepareStep, BeginPrepare, ReserveSlot, OrderAccepted,
     OrderRefused, BindRead, BindTemp, BindReplace, CommitSlot, ReleaseRead, ReleaseSlot,
     CrashPrepare, OperatorStep, ArmGate, VerifyRead, VerifyFetch, VerifyTemp,
     VerifyReplace, Tick, vars
<1> QED BY <1>1, <1>3, <1>4, <1>5

\* The steps that write the gate file, or add to what is posted.
LEMMA GateMoves ==
  ASSUME TypeOK, [Next]_vars
  PROVE  /\ \/ gate' = gate
            \/ Gate!Arm(now) /\ UNCHANGED <<prep, exec, receipt>>
            \/ \E p \in Preparers : BindReplace(p)
            \/ \E e \in Executors : ConsumeReplace(e) \/ RecordReplace(e)
            \/ VerifyReplace
         /\ \/ sent' = sent
            \/ \E e \in Executors : PostTransaction(e)
         /\ receipt'.step # "idle" =>
              \/ receipt.step # "idle" /\ receipt'.seen = receipt.seen
              \/ gate.status = "FINALIZATION_PENDING" /\ receipt'.seen = gate
                   /\ UNCHANGED gate
         /\ Tick \/ late' = late
<1>1. ASSUME NEW p \in Preparers, PrepareStep(p)
      PROVE  /\ BindReplace(p) \/ gate' = gate
             /\ UNCHANGED <<sent, receipt, late>>
  BY <1>1 DEF PrepareStep, BeginPrepare, ReserveSlot, OrderAccepted, OrderRefused,
     BindRead, BindTemp, BindReplace, Gate!CreateTemp, CommitSlot, ReleaseRead, ReleaseSlot,
     CrashPrepare, gateVars, OnlyPrep, idVars
<1>2. ASSUME NEW e \in Executors, ExecuteStep(e)
      PROVE  /\ ConsumeReplace(e) \/ RecordReplace(e) \/ gate' = gate
             /\ PostTransaction(e) \/ sent' = sent
             /\ UNCHANGED <<receipt, late>>
  BY <1>2 DEF ExecuteStep, LoadOrder, BeginExecution, ConsumeRead, ConsumeTemp,
     ConsumeReplace, PostTransaction, AnswerUnusable, AnswerSuccess, AnswerFailed,
     Complete, RecordRead, RecordTemp, RecordReplace, Release, CrashExecute,
     Gate!CreateTemp, gateVars, OnlyExec, idVars
<1>3. ASSUME OperatorStep
      PROVE  /\ \/ gate' = gate
                \/ Gate!Arm(now) /\ UNCHANGED <<prep, exec, receipt>>
                \/ VerifyReplace
             /\ UNCHANGED <<sent, late>>
             /\ receipt'.step # "idle" =>
                  \/ receipt.step # "idle" /\ receipt'.seen = receipt.seen
                  \/ gate.status = "FINALIZATION_PENDING" /\ receipt'.seen = gate
                       /\ UNCHANGED gate
  <2>1. ASSUME ArmGate
        PROVE  Gate!Arm(now) /\ UNCHANGED <<prep, exec, receipt, sent, late>>
    BY <2>1 DEF ArmGate, worldVars, idVars
  <2>2. ASSUME VerifyRead
        PROVE  /\ gate.status = "FINALIZATION_PENDING" /\ receipt'.seen = gate
               /\ UNCHANGED <<gate, sent, late>>
    BY <2>2 DEF VerifyRead, Gate!MayVerify, gateVars, worldVars, idVars
  <2>3. ASSUME VerifyFetch \/ VerifyTemp
        PROVE  /\ UNCHANGED <<gate, sent, late>> /\ receipt.step # "idle"
               /\ receipt'.step = "idle" \/ receipt'.seen = receipt.seen
    <3>1. receipt' = ReceiptIdle \/ \E s : receipt' = [receipt EXCEPT !.step = s]
      BY <2>3 DEF VerifyFetch, VerifyTemp
    <3>2. receipt'.step = "idle" \/ receipt'.seen = receipt.seen
      BY <3>1 DEF TypeOK, ReceiptIdle
    <3> QED BY <2>3, <3>2 DEF VerifyFetch, VerifyTemp, Gate!CreateTemp, gateVars,
           worldVars, idVars
  <2>4. ASSUME VerifyReplace PROVE receipt'.step = "idle" /\ UNCHANGED <<sent, late>>
    BY <2>4 DEF VerifyReplace, ReceiptIdle, worldVars, idVars
  <2> QED BY <1>3, <2>1, <2>2, <2>3, <2>4 DEF OperatorStep
<1>4. ASSUME Tick \/ UNCHANGED vars
      PROVE  UNCHANGED <<gate, sent, receipt>> /\ (Tick \/ late' = late)
  BY <1>4 DEF Tick, vars, gateVars, worldVars, idVars
<1> QED BY <1>1, <1>2, <1>3, <1>4 DEF Next

\* What is stored stays the pair's: a reservation's terms never change.
LEMMA OnlyPairStep ==
  ASSUME OneShot, TypeOK, LocalsOK, ReadAgree, PinInvariant, repeated = {},
         SingleInvariant, OnlyPairStored, [Next]_vars
  PROVE  OnlyPairStored'
<1>1. ASSUME NEW x \in ReservationIds, reservation'[x] # None
      PROVE  <<reservation'[x].wallet, reservation'[x].token>> = OneShotPair
  <2>1. CASE reservation[x] = None
    <3>1. PICK p \in Preparers : /\ PrepAt(p, "reserve")
                                 /\ reservation'[x].wallet = prep[p].wallet
                                 /\ reservation'[x].token = prep[p].token
      BY <1>1, <2>1, SlotBorn
    <3>2. <<prep[p].wallet, prep[p].token>> = OneShotPair
      BY <3>1 DEF SingleInvariant, PrepAt
    <3> QED BY <3>1, <3>2
  <2>2. CASE reservation[x] # None
    <3>1. reservation'[x] = reservation[x]
      BY <1>1, <2>2, SlotKept
    <3> QED BY <2>2, <3>1 DEF OnlyPairStored
  <2> QED BY <2>1, <2>2
<1>2. ASSUME NEW r \in RequestIds, pending'[r] # None
      PROVE  <<pending'[r].wallet, pending'[r].token>> = OneShotPair
  <2>1. CASE pending[r] = None
    <3>1. PICK p \in Preparers : /\ PrepAt(p, "commit")
                                 /\ pending'[r].wallet = prep[p].wallet
                                 /\ pending'[r].token = prep[p].token
      BY <1>2, <2>1, OrderBorn
    <3>2. <<prep[p].wallet, prep[p].token>> = OneShotPair
      BY <3>1 DEF SingleInvariant, PrepAt
    <3> QED BY <3>1, <3>2
  <2>2. CASE pending[r] # None
    <3>1. pending'[r].wallet = pending[r].wallet /\ pending'[r].token = pending[r].token
      BY <1>2, <2>2, TermsStep DEF KeepsTerms, TypeOK, StoreTypeOK, PendingRecord
    <3> QED BY <2>2, <3>1 DEF OnlyPairStored
  <2> QED BY <2>1, <2>2
<1> QED BY <1>1, <1>2 DEF OnlyPairStored

\* While every call is in time, one call at most is past its reserve.
LEMMA OnePastReserve ==
  ASSUME WalletTokenLimit = 1, "slot" \notin late, TypeOK, LocalsOK, FinitelyStored,
         SlotsInTime, CountedInvariant, CountsWithin, SingleInvariant, OnlyPairStored,
         InTimeStore, NEW p \in Preparers, NEW q \in Preparers, PastReserve(p), PastReserve(q)
  PROVE  p = q
<1>1. \A i \in {p, q} : /\ prep[i].slot \in ReservationIds
                        /\ reservation[prep[i].slot] # None
  BY DEF PastReserve, TypeOK, PrepRecord, LocalsOK, PrepLocals, InTimeStore
<1>2. PICK x \in ReservationIds, y \in ReservationIds : x = prep[p].slot /\ y = prep[q].slot
  BY <1>1
<1>3. /\ reservation[x] # None /\ reservation[y] # None
      /\ <<reservation[x].wallet, reservation[x].token>>
           = <<reservation[y].wallet, reservation[y].token>>
  BY <1>1, <1>2 DEF OnlyPairStored
<1>4. Current(reservation[x]) /\ Current(reservation[y])
  BY <1>2, <1>3 DEF SlotsInTime, SlotInTime, PastReserve, Current
<1>5. x = y
  BY <1>3, <1>4, OneSlotOfPair
<1> QED BY <1>2, <1>5 DEF SingleInvariant, SlotsApart

\* A step in time keeps the slots and locks of the calls that need them.
LEMMA InTimeStoreStep ==
  ASSUME OneShot, TypeOK, LocalsOK, TypeOK', ReadAgree, PinInvariant, repeated = {},
         KeysOutlive, SingleInvariant, SingleInvariant', InTimeStore, [Next]_vars,
         late' = {}
  PROVE  InTimeStore'
<1>0. /\ reservation \in [ReservationIds -> ReservationRecord \cup {None}]
      /\ exec \in [Executors -> ExecRecord]
      /\ prep \in [Preparers -> PrepRecord]
      /\ prep' \in [Preparers -> PrepRecord]
      /\ None \notin ReservationIds /\ None \notin RequestIds
  BY SwapAssumption DEF SwapAssumption, TypeOK, StoreTypeOK
<1>1. ASSUME Tick PROVE ~ SlotLapsing /\ ~ LockLapsing
  BY <1>1 DEF Tick, Outlived
<1>2. ASSUME NEW p \in Preparers, NEW x \in ReservationIds,
             PastReserve(p)', prep'[p].slot = x, reservation'[x] = None
      PROVE  FALSE
  <2>1. PastReserve(p) /\ prep[p].slot = x
    BY <1>2, PrepMoves DEF PrepMove
  <2>2. reservation[x] # None
    BY <2>1 DEF InTimeStore
  <2>3. CASE Tick /\ reservation[x].ttlEnd <= now + 1
    <3>1. reservation[x].expires <= now + 1 + ClockLead
      <4>1. /\ reservation[x].expires \in Nat /\ reservation[x].ttlEnd \in Nat
            /\ now \in Nat /\ ClockLead \in Nat
        BY <1>0, <2>2, SwapAssumption
           DEF SwapAssumption, ReservationRecord, TypeOK, StoreTypeOK
      <4>2. reservation[x].expires <= reservation[x].ttlEnd + ClockLead
        BY <2>2 DEF KeysOutlive
      <4> QED BY <2>3, <4>1, <4>2
    <3> QED BY <1>1, <2>1, <2>2, <2>3, <3>1 DEF SlotLapsing, PastReserve, PrepAt
  <2>4. CASE \E q \in Preparers : prep[q].slot = x /\ PrepEnd(q)
    <3>1. PrepEnd(p)
      BY <2>1, <2>4 DEF SingleInvariant, SlotsApart
    <3>2. prep'[p].step = "idle"
      BY <1>0, <3>1 DEF PrepEnd, PrepIdle
    <3> QED BY <1>2, <3>2 DEF PastReserve
  <2> QED BY <1>2, <2>2, <2>3, <2>4, SlotGone
\* An execution that begins finds no other at work.
<1>3. ASSUME NEW e \in Executors, NEW r \in RequestIds, exec[e].request = r,
             BeginExecutionOK(exec[e].request, exec[e].digest, e)
      PROVE  /\ HoldsLock(r, e)'
             /\ \A f \in Executors : ~ Executing(f)
  <2>2. pending[r] # None /\ lock[r] = None
    BY <1>3 DEF BeginExecutionOK, BeginVerdict
  <2>3. HoldsLock(r, e)'
    <3>1. /\ lock' = [lock EXCEPT ![r] = [owner |-> e, ttlEnd |-> now + LockTtl]]
          /\ lock \in [RequestIds -> LockRecord \cup {None}]
          /\ lock' \in [RequestIds -> LockRecord \cup {None}] 
      BY <1>3 DEF BeginExecutionOK, TypeOK, StoreTypeOK
    <3>2. lock'[r] = [owner |-> e, ttlEnd |-> now + LockTtl]
      BY <3>1
    <3>3. now + LockTtl \in Nat
      BY LimitsAssumption DEF LimitsAssumption, TypeOK, StoreTypeOK
    <3>4. lock'[r] \in LockRecord
      BY <3>2, <3>3 DEF LockRecord
    <3> QED BY <3>2, <3>4, NoneAssumption DEF NoneAssumption, HoldsLock
  <2>4. ASSUME NEW f \in Executors, Executing(f) PROVE FALSE
    <3>1. PICK s \in RequestIds : s = exec[f].request
      BY <2>4 DEF Executing, LocalsOK, ExecLocals, TypeOK, ExecRecord
    <3>2. ~ Untouched(r) /\ ~ Untouched(s)
      BY <2>2, <3>1 DEF Untouched
    <3>3. r = s
      BY <3>2 DEF SingleInvariant
    <3>4. pending[s] = None \/ HoldsLock(s, f)
      BY <2>4, <3>1 DEF InTimeStore
    <3> QED BY <2>2, <3>3, <3>4 DEF HoldsLock
  <2> QED BY <2>3, <2>4
<1>4. ASSUME NEW e \in Executors, Executing(e)'
      PROVE  /\ exec[e].request \in RequestIds
             /\ exec'[e].request = exec[e].request
             /\ \/ Executing(e)
                \/ /\ ~ Executing(e) /\ ~ Recording(e)'
                   /\ BeginExecutionOK(exec[e].request, exec[e].digest, e)
  <2>1. /\ exec'[e].request = exec[e].request
        /\ \/ Executing(e)
           \/ /\ exec[e].step = "begin" /\ ~ Executing(e) /\ ~ Recording(e)'
              /\ BeginExecutionOK(exec[e].request, exec[e].digest, e)
    BY <1>4, ExecMoves DEF ExecMove, ExecAt, Executing
  <2>2. exec[e].step # "idle"
    BY <2>1 DEF Executing
  <2>3. exec[e].request \in RequestIds
    BY <2>2 DEF LocalsOK, ExecLocals, TypeOK, ExecRecord
  <2> QED BY <2>1, <2>3
<1>5. ASSUME NEW e \in Executors, NEW r \in RequestIds,
             exec'[e].request = r, Recording(e)'
      PROVE  pending'[r] = None
  <2>1. Recording(e) \/ Complete(e)
    BY <1>5, ExecMoves DEF ExecMove
  <2>2. exec[e].request = r
    BY <1>4, <1>5 DEF Recording, Executing
  <2>3. CASE Complete(e)
    BY <2>2, <2>3 DEF Complete, CompleteExecution, TypeOK, StoreTypeOK
  <2>4. CASE Recording(e)
    <3>1. pending[r] = None
      BY <2>2, <2>4 DEF InTimeStore, Recording, Executing
    <3>2. ~ Untouched(r)
      BY <2>2 DEF Untouched
    <3> QED BY <3>1, <3>2, OrderBorn
  <2> QED BY <2>1, <2>3, <2>4
<1>6. ASSUME NEW e \in Executors, NEW r \in RequestIds,
             Executing(e)', exec'[e].request = r, ~ Recording(e)'
      PROVE  HoldsLock(r, e)'
  <2>1. exec[e].request = r
    BY <1>4, <1>6
  <2>2. CASE ~ Executing(e)
    BY <1>3, <1>4, <1>6, <2>1, <2>2
  <2>3. CASE Executing(e)
    <3>1. ~ Recording(e)
      BY <1>6, ExecMoves DEF ExecMove
    <3>2. HoldsLock(r, e)
      BY <2>1, <2>3, <3>1 DEF InTimeStore
    <3>3. SUFFICES ASSUME ~ HoldsLock(r, e)' PROVE FALSE
      OBVIOUS
    <3>4. CASE Tick /\ lock[r].ttlEnd <= now + 1
      BY <1>1, <2>1, <2>3, <3>2, <3>4 DEF LockLapsing, Executing, ExecAt
    <3>5. CASE Complete(e)
      BY <1>0, <1>6, <3>5 DEF Complete, ExecGoto, ExecRecord, Recording
    <3>6. CASE Release(e)
      BY <1>0, <1>6, <3>6 DEF Release, ExecEnd, ExecIdle, Executing
    <3> QED BY <3>2, <3>3, <3>4, <3>5, <3>6, LockGone
  <2> QED BY <2>2, <2>3
<1>7. ASSUME NEW e \in Executors, NEW f \in Executors, Executing(e)', Executing(f)'
      PROVE  e = f
  <2>1. CASE Executing(e) /\ Executing(f)
    BY <2>1 DEF InTimeStore
  <2>2. ASSUME NEW g \in Executors, NEW h \in Executors, Executing(g)', Executing(h)',
               ~ Executing(g)
        PROVE  g = h
    <3>1. \A i \in Executors : ~ Executing(i)
      BY <1>3, <1>4, <2>2
    <3>2. exec'[g] # exec[g] /\ exec'[h] # exec[h]
      BY <2>2, <3>1 DEF Executing
    <3> QED BY <3>2, ExecMoves
  <2> QED BY <1>7, <2>1, <2>2
<1>8. \A p \in Preparers, x \in ReservationIds :
        (PastReserve(p) /\ prep[p].slot = x => reservation[x] # None)'
  BY <1>2
<1> QED BY <1>2, <1>5, <1>6, <1>7 DEF InTimeStore

\* What becomes of the gate file while every call is in time: it only moves on,
\* and the copy that is written back is the current content.
GateChange ==
  \/ gate' = gate
  \/ gate.status = "ABSENT" /\ gate'.status = "ARMED"
       /\ UNCHANGED <<prep, exec, receipt>>
  \/ \E p \in Preparers :
       /\ BindReplace(p) /\ gate.status = "ARMED"
       /\ gate'.status = "BOUND" /\ gate'.request = prep[p].request
  \/ \E e \in Executors :
       /\ ConsumeReplace(e) /\ gate.status = "BOUND"
       /\ gate'.status = "CONSUMED" /\ gate'.signed = exec[e].digest
       /\ gate'.attempts = 1 /\ gate'.request = gate.request
  \/ \E e \in Executors :
       /\ RecordReplace(e) /\ gate.status = "CONSUMED"
       /\ gate'.status = "FINALIZATION_PENDING" /\ gate'.signed = gate.signed
       /\ gate'.attempts = gate.attempts /\ gate'.request = gate.request
  \/ /\ VerifyReplace /\ gate.status = "FINALIZATION_PENDING"
     /\ gate'.status = "FINALIZED_VERIFIED" /\ gate'.signed = gate.signed
     /\ gate'.attempts = gate.attempts /\ gate'.request = gate.request

\* Every step changes the gate file so.
LEMMA GateChanges ==
  ASSUME TypeOK, LocalsOK, InTimeGate, [Next]_vars
  PROVE  GateChange
<1>0. gate \in GateRecord /\ prep \in [Preparers -> PrepRecord]
  BY DEF TypeOK, Gate!GateTypeOK, GateRecord
<1>1. ASSUME Gate!Arm(now), UNCHANGED <<prep, exec, receipt>> PROVE GateChange
  BY <1>1 DEF Gate!Arm, Gate!NoGate, GateChange
<1>2. ASSUME NEW p \in Preparers, BindReplace(p) PROVE GateChange
  <2>1. gate.status = "ARMED" /\ prep[p].seen = gate
    BY <1>2 DEF BindReplace, PrepAt, WritesBound, InTimeGate
  <2>2. gate' = [gate EXCEPT !.status = "BOUND", !.request = prep[p].request]
    BY <1>2, <2>1 DEF BindReplace, Gate!ReplaceGate, Gate!Bound
  <2>3. gate'.status = "BOUND" /\ gate'.request = prep[p].request
    BY <1>0, <2>2 DEF GateRecord, Gate!GateRecord
  <2> QED BY <1>2, <2>1, <2>3 DEF GateChange
<1>3. ASSUME NEW e \in Executors, ConsumeReplace(e) PROVE GateChange
  <2>1. gate.status = "BOUND" /\ exec[e].seen = gate
    BY <1>3 DEF ConsumeReplace, ExecAt, Consuming, InTimeGate
  <2>2. gate' = [gate EXCEPT !.status = "CONSUMED", !.signed = exec[e].digest,
                             !.attempts = 1]
    BY <1>3, <2>1 DEF ConsumeReplace, Gate!ReplaceGate, Gate!Consumed
  <2>3. /\ gate'.status = "CONSUMED" /\ gate'.signed = exec[e].digest
        /\ gate'.attempts = 1 /\ gate'.request = gate.request
    BY <1>0, <2>2 DEF GateRecord, Gate!GateRecord
  <2> QED BY <1>3, <2>1, <2>3 DEF GateChange
<1>4. ASSUME NEW e \in Executors, RecordReplace(e) PROVE GateChange
  <2>1. gate.status = "CONSUMED" /\ exec[e].seen = gate
    BY <1>4 DEF RecordReplace, ExecAt, Answering, Recording, Spent, InTimeGate
  <2>2. gate' = [gate EXCEPT !.status = "FINALIZATION_PENDING"]
    BY <1>4, <2>1 DEF RecordReplace, Gate!ReplaceGate, Gate!Recorded
  <2>3. /\ gate'.status = "FINALIZATION_PENDING" /\ gate'.signed = gate.signed
        /\ gate'.attempts = gate.attempts /\ gate'.request = gate.request
    BY <1>0, <2>2 DEF GateRecord, Gate!GateRecord
  <2> QED BY <1>4, <2>1, <2>3 DEF GateChange
<1>5. ASSUME VerifyReplace PROVE GateChange
  <2>1. gate.status = "FINALIZATION_PENDING" /\ receipt.seen = gate
    BY <1>5 DEF VerifyReplace, InTimeGate
  <2>2. gate' = [gate EXCEPT !.status = "FINALIZED_VERIFIED"]
    BY <1>5, <2>1 DEF VerifyReplace, Gate!ReplaceGate, Gate!Verified
  <2>3. /\ gate'.status = "FINALIZED_VERIFIED" /\ gate'.signed = gate.signed
        /\ gate'.attempts = gate.attempts /\ gate'.request = gate.request
    BY <1>0, <2>2 DEF GateRecord, Gate!GateRecord
  <2> QED BY <1>5, <2>1, <2>3 DEF GateChange
<1>6. ASSUME gate' = gate PROVE GateChange
  BY <1>6 DEF GateChange
<1> QED BY <1>1, <1>2, <1>3, <1>4, <1>5, <1>6, GateMoves

\* Each write of the file finds its writer alone with the file's content: the
\* one slot of the pair keeps a second binding away, the lock a second
\* consumption, and neither the order on record nor the verifier's status
\* overlaps the record of an answer.
LEMMA InTimeGateStep ==
  ASSUME OneShot, WalletTokenLimit = 1, "slot" \notin late,
         TypeOK, LocalsOK, TypeOK', LocalsOK', ReadAgree, PinInvariant, repeated = {},
         FinitelyStored, SlotsInTime, CountedInvariant, CountsWithin, SingleInvariant,
         SingleInvariant', OnlyPairStored, InTimeStore, InTimeStore', InTimeGate,
         [Next]_vars
  PROVE  InTimeGate'
<1>0. /\ prep \in [Preparers -> PrepRecord] /\ exec \in [Executors -> ExecRecord]
      /\ receipt \in [step : ReceiptSteps, seen : Seen]
      /\ None \notin RequestIds
  BY SwapAssumption DEF SwapAssumption, TypeOK
<1>1. GateChange
  BY GateChanges
\* Whoever executes deals with the order that the gate is bound to, ...
<1>2. ASSUME NEW e \in Executors, Executing(e)
      PROVE  /\ exec[e].request \in RequestIds /\ ~ Untouched(exec[e].request)
             /\ gate.request = exec[e].request /\ ~ NothingDealtWith
  <2>1. PICK r \in RequestIds : r = exec[e].request
    BY <1>2 DEF Executing, LocalsOK, ExecLocals, TypeOK, ExecRecord
  <2>2. ~ Untouched(r)
    BY <2>1 DEF Untouched
  <2> QED BY <2>1, <2>2 DEF InTimeGate, NothingDealtWith
\* ... and while an order may still be committed there is none.
<1>3. ASSUME NEW p \in Preparers, Binding(p) PROVE NothingDealtWith
  <2>1. prep[p].slot \in ReservationIds
    BY <1>3 DEF Binding, LocalsOK, PrepLocals, TypeOK, PrepRecord
  <2>2. reservation[prep[p].slot] # None
    BY <1>3, <2>1 DEF InTimeStore, Binding, PastReserve
  <2> QED BY <1>3, <2>1, <2>2 DEF SingleInvariant
<1>4. ASSUME NEW r \in RequestIds, ~ Untouched(r)' PROVE gate'.request = r
  <2>1. CASE Untouched(r)
    <3>1. PICK p \in Preparers : PrepAt(p, "commit") /\ prep[p].request = r /\ gate' = gate
      BY <1>4, <2>1, TouchedByCommit
    <3> QED BY <3>1 DEF InTimeGate
  <2>2. CASE ~ Untouched(r)
    <3>1. gate.request = r /\ ~ Unbound
      BY <2>2 DEF InTimeGate, SingleInvariant, NothingDealtWith
    <3> QED BY <1>1, <3>1 DEF GateChange, Unbound
  <2> QED BY <2>1, <2>2
<1>5. ASSUME NEW r \in RequestIds, pending'[r] # None
      PROVE  gate'.status \in {"BOUND", "CONSUMED"}
  <2>1. CASE pending[r] = None
    <3>1. ~ Untouched(r)'
      BY <1>5 DEF Untouched
    <3>2. PICK p \in Preparers : PrepAt(p, "commit") /\ gate' = gate
      BY <1>5, <2>1, <3>1, OrderBorn, TouchedByCommit
    <3> QED BY <3>2 DEF InTimeGate
  <2>2. CASE pending[r] # None
    <3>1. gate.status \in {"BOUND", "CONSUMED"}
      BY <2>2 DEF InTimeGate
    <3>2. ASSUME NEW e \in Executors, RecordReplace(e) PROVE FALSE
      <4>1. Recording(e) /\ Executing(e)
        BY <3>2 DEF RecordReplace, ExecAt, Recording, Executing
      <4>2. ~ Untouched(r) /\ ~ Untouched(exec[e].request) /\ exec[e].request \in RequestIds
        BY <1>2, <2>2, <4>1 DEF Untouched
      <4>3. exec[e].request = r
        BY <4>2 DEF SingleInvariant
      <4> QED BY <2>2, <4>1, <4>3 DEF InTimeStore
    <3> QED BY <1>1, <3>1, <3>2 DEF GateChange
  <2> QED BY <2>1, <2>2
<1>6. ASSUME NEW p \in Preparers, WritesBound(p)'
      PROVE  gate'.status = "ARMED" /\ prep'[p].seen = gate'
  <2>1. gate.status = "ARMED" /\ prep'[p].seen = gate
    BY <1>6, PrepMoves DEF PrepMove, InTimeGate
  <2>2. ASSUME NEW q \in Preparers, BindReplace(q) PROVE FALSE
    <3>1. prep[q].step = "bindReplace" /\ prep' = [prep EXCEPT ![q].step = "commit", ![q].seen = None]
      BY <2>2 DEF BindReplace, PrepAt
    <3>2. prep'[q].step = "commit"
      BY <1>0, <3>1 DEF PrepRecord
    <3>3. p # q /\ prep'[p] = prep[p]
      BY <1>0, <1>6, <3>1, <3>2 DEF WritesBound
    <3>4. PastReserve(p) /\ PastReserve(q)
      BY <1>6, <3>1, <3>3 DEF WritesBound, PastReserve
    <3> QED BY <3>3, <3>4, OnePastReserve
  <2>3. gate' = gate
    BY <1>1, <2>1, <2>2 DEF GateChange
  <2> QED BY <2>1, <2>3
<1>7. ASSUME NEW p \in Preparers, prep'[p].step = "commit"
      PROVE  gate'.status = "BOUND" /\ gate'.request = prep'[p].request
  <2>1. prep'[p].request = prep[p].request /\ (prep[p].step = "commit" \/ BindReplace(p))
    BY <1>7, PrepMoves DEF PrepMove
  <2>2. CASE BindReplace(p)
    <3>1. gate.status = "ARMED" /\ \A q \in Preparers : BindReplace(q) => q = p
      <4>1. prep[p].step = "bindReplace"
        BY <2>2 DEF BindReplace, PrepAt
      <4>2. ASSUME NEW q \in Preparers, BindReplace(q) PROVE q = p
        <5>1. prep[q].step = "bindReplace"
          BY <4>2 DEF BindReplace, PrepAt
        <5> QED BY <4>1, <5>1, OnePastReserve DEF PastReserve
      <4> QED BY <4>1, <4>2 DEF WritesBound, InTimeGate
    <3>2. gate' = Gate!Bound(prep[p].seen, prep[p].request) /\ prep[p].seen \in GateRecord
      BY <2>2 DEF BindReplace, PrepAt, Gate!ReplaceGate, LocalsOK, PrepLocals
    <3>3. gate'.status = "BOUND" /\ gate'.request = prep[p].request
      BY <3>2 DEF Gate!Bound, GateRecord, Gate!GateRecord
    <3> QED BY <2>1, <3>3
  <2>3. CASE prep[p].step = "commit"
    <3>1. gate.status = "BOUND" /\ gate.request = prep[p].request /\ NothingDealtWith
      BY <1>3, <2>3 DEF InTimeGate, PrepAt, Binding
    <3>2. ASSUME NEW e \in Executors, ConsumeReplace(e) PROVE FALSE
      <4>1. Executing(e)
        BY <3>2 DEF ConsumeReplace, ExecAt, Executing
      <4> QED BY <1>2, <3>1, <4>1
    <3>3. gate' = gate
      BY <1>1, <3>1, <3>2 DEF GateChange
    <3> QED BY <2>1, <3>1, <3>3
  <2> QED BY <2>1, <2>2, <2>3
\* No other execution writes the file, whoever executes before or after.
<1>8. ASSUME NEW e \in Executors, Executing(e)'
      PROVE  /\ ~ \E p \in Preparers : BindReplace(p)
             /\ \A f \in Executors : ConsumeReplace(f) => f = e
             /\ ~ \E f \in Executors : RecordReplace(f)
             /\ gate.status \in {"BOUND", "CONSUMED"}
  <2>1. \/ Executing(e)
        \/ BeginExecutionOK(exec[e].request, exec[e].digest, e) /\ exec[e].step = "begin"
    BY <1>8, ExecMoves DEF ExecMove, ExecAt
  <2>2. gate.status \in {"BOUND", "CONSUMED"}
    <3>1. CASE Executing(e)
      BY <3>1 DEF InTimeGate
    <3>2. CASE BeginExecutionOK(exec[e].request, exec[e].digest, e) /\ exec[e].step = "begin"
      <4>1. exec[e].request \in RequestIds /\ pending[exec[e].request] # None
        BY <3>2 DEF BeginExecutionOK, BeginVerdict, LocalsOK, ExecLocals, TypeOK, ExecRecord
      <4> QED BY <4>1 DEF InTimeGate
    <3> QED BY <2>1, <3>1, <3>2
  <2>3. ASSUME NEW p \in Preparers, BindReplace(p) PROVE FALSE
    <3>1. gate.status = "ARMED"
      BY <2>3 DEF BindReplace, PrepAt, WritesBound, InTimeGate
    <3> QED BY <2>2, <3>1
  <2>4. ASSUME NEW f \in Executors, ConsumeReplace(f) PROVE f = e
    <3>1. exec[f].step = "consumeReplace" /\ exec' = [exec EXCEPT ![f].step = "post", ![f].seen = None]
      BY <2>4 DEF ConsumeReplace, ExecAt
    <3>2. exec'[f].step = "post"
      BY <1>0, <3>1 DEF ExecRecord
    <3> QED BY <1>8, <3>2 DEF Executing, InTimeStore
  <2>5. ASSUME NEW f \in Executors, RecordReplace(f) PROVE FALSE
    <3>1. exec[f].step = "recordReplace" /\ exec' = [exec EXCEPT ![f] = ExecIdle]
      BY <2>5 DEF RecordReplace, ExecAt, ExecEnd
    <3>2. exec'[f].step = "idle" /\ Executing(f)
      BY <1>0, <3>1 DEF ExecIdle, Executing
    <3>3. e # f /\ exec'[e] = exec[e]
      BY <1>0, <1>8, <3>1, <3>2 DEF Executing
    <3>4. Executing(e)
      BY <1>8, <3>3 DEF Executing
    <3> QED BY <3>2, <3>3, <3>4 DEF InTimeStore
  <2> QED BY <2>2, <2>3, <2>4, <2>5
<1>9. ASSUME NEW e \in Executors, Executing(e)'
      PROVE  /\ gate' = gate \/ ConsumeReplace(e)
             /\ gate'.status \in {"BOUND", "CONSUMED"}
  BY <1>1, <1>8, <1>9 DEF GateChange
<1>10. ASSUME NEW e \in Executors, ConsumeReplace(e)
       PROVE  /\ gate'.status = "CONSUMED" /\ gate'.signed = exec[e].digest
              /\ exec'[e].step = "post" /\ exec'[e].digest = exec[e].digest
  <2>1. /\ exec[e].step = "consumeReplace" /\ exec[e].seen \in GateRecord
        /\ gate' = Gate!Consumed(exec[e].seen, exec[e].digest)
        /\ exec' = [exec EXCEPT ![e].step = "post", ![e].seen = None]
    BY <1>10 DEF ConsumeReplace, ExecAt, LocalsOK, ExecLocals, Gate!ReplaceGate
  <2>2. gate'.status = "CONSUMED" /\ gate'.signed = exec[e].digest
    BY <2>1 DEF Gate!Consumed, GateRecord, Gate!GateRecord
  <2>3. exec'[e].step = "post" /\ exec'[e].digest = exec[e].digest
    BY <1>0, <2>1 DEF ExecRecord
  <2> QED BY <2>2, <2>3
<1>11. ASSUME NEW e \in Executors
       PROVE  /\ Consuming(e)' => gate'.status = "BOUND" /\ exec'[e].seen = gate'
              /\ Spent(e)' => gate'.status = "CONSUMED" /\ gate'.signed = exec'[e].digest
              /\ Answering(e)' => exec'[e].seen = gate'
  <2> USE DEF Executing, Consuming, Spent, Recording, Answering
  <2>1. ASSUME Consuming(e)' PROVE gate'.status = "BOUND" /\ exec'[e].seen = gate'
    <3>1. gate' = gate
      BY <1>9, <1>10, <2>1
    <3> QED BY <2>1, <3>1, ExecMoves DEF ExecMove, InTimeGate
  <2>2. ASSUME Spent(e)' PROVE gate'.status = "CONSUMED" /\ gate'.signed = exec'[e].digest
    <3>1. CASE ConsumeReplace(e)
      BY <1>10, <3>1
    <3>2. CASE ~ ConsumeReplace(e)
      <4>1. gate' = gate
        BY <1>9, <2>2, <3>2
      <4> QED BY <2>2, <3>2, <4>1, ExecMoves DEF ExecMove, InTimeGate
    <3> QED BY <3>1, <3>2
  <2>3. ASSUME Answering(e)' PROVE exec'[e].seen = gate'
    <3>1. gate' = gate
      BY <1>9, <1>10, <2>3
    <3> QED BY <2>3, <3>1, ExecMoves DEF ExecMove, InTimeGate
  <2> QED BY <2>1, <2>2, <2>3
<1>12. gate'.status = "CONSUMED" => gate'.attempts = 1
  BY <1>1 DEF GateChange, InTimeGate
<1>13. ASSUME receipt'.step # "idle"
       PROVE  gate'.status = "FINALIZATION_PENDING" /\ receipt'.seen = gate'
  <2>1. gate.status = "FINALIZATION_PENDING" /\ receipt'.seen = gate
    BY <1>13, GateMoves DEF InTimeGate
  <2>2. ~ VerifyReplace
    BY <1>13 DEF VerifyReplace, ReceiptIdle
  <2>3. gate' = gate
    BY <1>1, <2>1, <2>2 DEF GateChange
  <2> QED BY <2>1, <2>3
<1>14. ASSUME NEW s \in sent'
       PROVE  /\ gate'.status \in {"CONSUMED", "FINALIZATION_PENDING", "FINALIZED_VERIFIED"}
              /\ gate'.attempts = 1 /\ s = <<gate'.request, gate'.signed>>
  <2>1. CASE s \in sent
    <3>1. /\ gate.status \in {"CONSUMED", "FINALIZATION_PENDING", "FINALIZED_VERIFIED"}
          /\ gate.attempts = 1 /\ s = <<gate.request, gate.signed>>
      BY <2>1 DEF InTimeGate
    <3> QED BY <1>1, <3>1 DEF GateChange
  <2>2. CASE s \notin sent
    <3>1. PICK e \in Executors : PostTransaction(e)
      BY <1>14, <2>2, GateMoves
    <3>2. s = <<exec[e].request, exec[e].digest>> /\ gate' = gate /\ Spent(e) /\ Executing(e)
      BY <1>14, <2>2, <3>1 DEF PostTransaction, ExecAt, gateVars, Spent, Executing
    <3> QED BY <1>2, <3>2 DEF InTimeGate
  <2> QED BY <2>1, <2>2
<1> QED BY <1>4, <1>5, <1>6, <1>7, <1>9, <1>11, <1>12, <1>13, <1>14 DEF InTimeGate, PrepAt

\* Initially nothing is stored, bound or posted.
LEMMA TimeInit ==
  ASSUME Init
  PROVE  OnlyPairStored /\ InTimeStore /\ InTimeGate
<1>1. /\ \A r \in RequestIds : pending[r] = None /\ Untouched(r)
      /\ \A x \in ReservationIds : reservation[x] = None
  BY SwapAssumption DEF SwapAssumption, Init, StoreInit, Untouched, ExecIdle
<1>2. /\ \A p \in Preparers : prep[p].step = "idle"
      /\ \A e \in Executors : exec[e].step = "idle"
      /\ receipt.step = "idle" /\ sent = {} /\ gate.status = "ABSENT"
  BY DEF Init, PrepIdle, ExecIdle, ReceiptIdle, Gate!GateInit, Gate!NoGate
<1> QED BY <1>1, <1>2
        DEF OnlyPairStored, InTimeStore, InTimeGate, PastReserve, WritesBound, PrepAt,
            Executing, Recording, Consuming, Spent, Answering

\* Outside one-shot mode nobody uses a gate file.
NoGateUsed ==
  /\ gate.status = "ABSENT" /\ receipt.step = "idle"
  /\ \A p \in Preparers : prep[p].step \notin {"bind", "bindTemp", "bindReplace"}
  /\ \A e \in Executors :
       exec[e].step \notin {"consume", "consumeTemp", "consumeReplace",
                            "record", "recordTemp", "recordReplace"}

\* Outside one-shot mode no step touches it.
LEMMA NoGateStep ==
  ASSUME ~ OneShot, TypeOK, NoGateUsed, [Next]_vars
  PROVE  NoGateUsed' /\ gate' = gate
<1>0. prep \in [Preparers -> PrepRecord] /\ exec \in [Executors -> ExecRecord]
  BY DEF TypeOK
<1>1. ASSUME NEW p \in Preparers, PrepareStep(p) PROVE NoGateUsed' /\ gate' = gate
  <2> USE DEF PrepAt, PrepGoto, PrepEnd, PrepIdle
  <2>1. UNCHANGED <<gate, exec, receipt>>
    BY <1>1 DEF NoGateUsed, OnlyPrep, idVars, PrepareStep, BeginPrepare, ReserveSlot,
       OrderAccepted, OrderRefused, BindRead, BindTemp, BindReplace, CommitSlot,
       ReleaseRead, ReleaseSlot, CrashPrepare, gateVars
  <2>2. \A q \in Preparers : q # p => prep'[q] = prep[q]
    BY <1>0, <1>1 DEF PrepareStep, BeginPrepare, ReserveSlot, OrderAccepted, OrderRefused,
       BindRead, BindTemp, BindReplace, CommitSlot, ReleaseRead, ReleaseSlot, CrashPrepare
  <2>3. prep'[p].step \notin {"bind", "bindTemp", "bindReplace"}
    <3>1. CASE OrderAccepted(p)
      BY <1>0, <3>1 DEF OrderAccepted, PrepRecord
    <3>2. CASE \E w \in Wallets, tk \in Tokens : BeginPrepare(p, w, tk)
      BY <1>0, <3>2 DEF BeginPrepare, PrepRecord
    <3>3. CASE ReserveSlot(p) \/ CommitSlot(p)
      BY <1>0, <3>3 DEF ReserveSlot, CommitSlot, PrepRecord
    <3>4. CASE OrderRefused(p) \/ ReleaseRead(p) \/ ReleaseSlot(p) \/ CrashPrepare(p)
      BY <1>0, <3>4 DEF OrderRefused, ReleaseRead, ReleaseSlot, CrashPrepare, PrepRecord
    <3>5. ~ (BindRead(p) \/ BindTemp(p) \/ BindReplace(p))
      BY DEF NoGateUsed, BindRead, BindTemp, BindReplace
    <3> QED BY <1>1, <3>1, <3>2, <3>3, <3>4, <3>5 DEF PrepareStep
  <2> QED BY <2>1, <2>2, <2>3 DEF NoGateUsed
<1>2. ASSUME NEW e \in Executors, ExecuteStep(e) PROVE NoGateUsed' /\ gate' = gate
  <2> USE DEF ExecAt, ExecGoto, ExecEnd, ExecIdle
  <2>1. UNCHANGED <<gate, prep, receipt>>
    BY <1>2 DEF NoGateUsed, OnlyExec, idVars, ExecuteStep, LoadOrder, BeginExecution, ConsumeRead,
       ConsumeTemp, ConsumeReplace, PostTransaction, AnswerUnusable, AnswerSuccess,
       AnswerFailed, Complete, RecordRead, RecordTemp, RecordReplace, Release,
       CrashExecute, gateVars
  <2>2. \A f \in Executors : f # e => exec'[f] = exec[f]
    BY <1>0, <1>2 DEF ExecuteStep, LoadOrder, BeginExecution, ConsumeRead, ConsumeTemp,
       ConsumeReplace, PostTransaction, AnswerUnusable, AnswerSuccess, AnswerFailed,
       Complete, RecordRead, RecordTemp, RecordReplace, Release, CrashExecute
  <2>3. exec'[e].step \notin {"consume", "consumeTemp", "consumeReplace",
                              "record", "recordTemp", "recordReplace"}
    <3>1. CASE BeginExecution(e)
      BY <1>0, <3>1 DEF BeginExecution, ExecRecord
    <3>2. CASE \E r \in RequestIds, d \in Digests : LoadOrder(e, r, d)
      BY <1>0, <3>2 DEF LoadOrder, ExecRecord
    <3>3. CASE PostTransaction(e) \/ AnswerUnusable(e) \/ AnswerSuccess(e)
      BY <1>0, <3>3 DEF PostTransaction, AnswerUnusable, AnswerSuccess, ExecRecord
    <3>4. CASE AnswerFailed(e) \/ Complete(e) \/ Release(e) \/ CrashExecute(e)
      BY <1>0, <3>4 DEF AnswerFailed, Complete, Release, CrashExecute, ExecRecord
    <3>5. ~ (\/ ConsumeRead(e) \/ ConsumeTemp(e) \/ ConsumeReplace(e)
             \/ RecordRead(e) \/ RecordTemp(e) \/ RecordReplace(e))
      BY DEF NoGateUsed, ConsumeRead, ConsumeTemp, ConsumeReplace, RecordRead,
         RecordTemp, RecordReplace
    <3> QED BY <1>2, <3>1, <3>2, <3>3, <3>4, <3>5 DEF ExecuteStep
  <2> QED BY <2>1, <2>2, <2>3 DEF NoGateUsed
<1>3. ~ OperatorStep
  BY DEF NoGateUsed, OperatorStep, ArmGate, VerifyRead, VerifyFetch, VerifyTemp,
     VerifyReplace, Gate!MayVerify
<1>4. ASSUME Tick \/ UNCHANGED vars PROVE NoGateUsed' /\ gate' = gate
  BY <1>4 DEF NoGateUsed, Tick, vars, gateVars
<1> QED BY <1>1, <1>2, <1>3, <1>4 DEF Next

\* What the two theorems below rest on.
TimeInvariant ==
  /\ TypeOK /\ LocalsOK /\ PinInvariant /\ TermsAgree /\ ReadAgree /\ KeysOutlive
  /\ FinitelyStored /\ SlotsInTime /\ CountedInvariant /\ CountsWithin
  /\ repeated = {}
  /\ OneShot /\ "slot" \notin late => SingleInvariant /\ OnlyPairStored
  /\ OneShot /\ late = {} => InTimeStore /\ InTimeGate
  /\ ~ OneShot => NoGateUsed

\* The invariants of this part hold together, and are inductive together.
LEMMA TimeHolds ==
  ASSUME RepeatIds = FALSE, WalletTokenLimit = 1
  PROVE  Spec => []TimeInvariant
<1>1. Init => TimeInvariant
  <2>1. Init => NoGateUsed
    BY DEF Init, NoGateUsed, PrepIdle, ExecIdle, ReceiptIdle, Gate!GateInit, Gate!NoGate
  <2>2. Init => KeysOutlive /\ repeated = {}
    BY DEF Init, StoreInit, KeysOutlive
  <2> QED BY <2>1, <2>2, TypeInit, PinInit, TermsInit, ReadInit, CapacityInit, SingleInit,
             TimeInit, SwapAssumption DEF TimeInvariant
<1>2. TimeInvariant /\ [Next]_vars => TimeInvariant'
  <2> SUFFICES ASSUME TimeInvariant, [Next]_vars PROVE TimeInvariant'
    OBVIOUS
  <2>0. /\ TypeOK /\ LocalsOK /\ PinInvariant /\ TermsAgree /\ ReadAgree /\ KeysOutlive
        /\ FinitelyStored /\ SlotsInTime /\ CountedInvariant /\ CountsWithin
        /\ repeated = {}
    BY DEF TimeInvariant
  <2>1. /\ TypeOK' /\ LocalsOK' /\ PinInvariant' /\ TermsAgree' /\ ReadAgree' /\ KeysOutlive'
        /\ FinitelyStored' /\ SlotsInTime' /\ CountedInvariant' /\ CountsWithin'
        /\ repeated' = {}
    BY <2>0, TypeStep, PinStep, TermsStepAgree, ReadStep, KeysStep, FiniteStep, InTimeStep,
       CountedStep, CountsStep, NoneRepeated
  <2>2. ASSUME OneShot, "slot" \notin late' PROVE SingleInvariant' /\ OnlyPairStored'
    <3>1. "slot" \notin late
      BY <2>0, <2>2, LateGrows
    <3>2. SingleInvariant /\ OnlyPairStored
      BY <2>2, <3>1 DEF TimeInvariant
    <3> QED BY <2>0, <2>2, <3>1, <3>2, SingleStep, OnlyPairStep
  <2>3. ASSUME OneShot, late' = {} PROVE InTimeStore' /\ InTimeGate'
    <3>1. late = {} /\ "slot" \notin late /\ "slot" \notin late'
      BY <2>0, <2>3, LateGrows
    <3>2. /\ SingleInvariant /\ OnlyPairStored /\ InTimeStore /\ InTimeGate
          /\ SingleInvariant'
      BY <2>2, <2>3, <3>1 DEF TimeInvariant
    <3>3. InTimeStore'
      BY <2>0, <2>1, <2>3, <3>2, InTimeStoreStep
    <3>4. InTimeGate'
      BY <2>0, <2>1, <2>3, <3>1, <3>2, <3>3, InTimeGateStep
    <3> QED BY <3>3, <3>4
  <2>4. ASSUME ~ OneShot PROVE NoGateUsed'
    BY <2>0, <2>4, NoGateStep DEF TimeInvariant
  <2> QED BY <2>1, <2>2, <2>3, <2>4 DEF TimeInvariant
<1> QED BY <1>1, <1>2, PTL DEF Spec

\* While every call ends before its slot and its lock lapse, what was posted to
\* the provider is what the gate file says was approved and consumed, whatever
\* the clocks of the replicas show.
THEOREM SentWasApproved ==
  ASSUME RepeatIds = FALSE, WalletTokenLimit = 1
  PROVE  Spec => []SentIsApprovedInTime
<1>1. TimeInvariant => SentIsApprovedInTime
  BY DEF TimeInvariant, SentIsApprovedInTime, SentIsApproved, InTimeGate
<1> QED BY <1>1, TimeHolds, PTL

\* While every call ends in time no write from a stale copy takes the gate file
\* back, although reading and writing it are not one step.
THEOREM GateOnlyAdvances ==
  ASSUME RepeatIds = FALSE, WalletTokenLimit = 1
  PROVE  Spec => GateNeverRevertsInTime
<1>1. ASSUME TimeInvariant, [Next]_vars
      PROVE  late # {} \/ GateRank(gate'.status) >= GateRank(gate.status)
  <2>0. GateRank(gate.status) \in Nat
    <3>1. gate.status \in Gate!GateStatus
      BY <1>1 DEF TimeInvariant, TypeOK, Gate!GateTypeOK, Gate!GateRecord
    <3> QED BY <3>1 DEF Gate!GateStatus, GateRank
  <2>1. CASE gate' = gate
    BY <2>0, <2>1
  <2>2. CASE gate' # gate /\ late = {}
    <3>1. OneShot
      BY <1>1, <2>2, NoGateStep DEF TimeInvariant
    <3>2. GateChange
      BY <1>1, <2>2, <3>1, GateChanges DEF TimeInvariant
    <3> QED BY <2>2, <3>2 DEF GateChange, GateRank
  <2> QED BY <2>1, <2>2
<1>2. TimeInvariant /\ [Next]_vars =>
        [late # {} \/ GateRank(gate'.status) >= GateRank(gate.status)]_vars
  BY <1>1
<1> QED BY <1>2, TimeHolds, PTL DEF Spec, GateNeverRevertsInTime
=============================================================================
