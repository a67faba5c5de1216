-------------------------- MODULE ClaimGateProofs --------------------------
(***************************************************************************)
(* Theorems about ClaimGate, for any number of concurrent commands,        *)
(* digests and approvals and any windows: its types, the audit table, and  *)
(* that nothing is sent to the chain that was not approved first.          *)
(***************************************************************************)
EXTENDS ClaimGate, TLAPS

USE DEF Consumed, Status

-----------------------------------------------------------------------------
(* What the writes make of a gate record.                                  *)

\* A file that does not exist, or was only just created, is of its type.
LEMMA NoGateTyped ==
  /\ NoGate \in GateRecord
  /\ [NoGate EXCEPT !.status = "EMPTY"] \in GateRecord
<1>1. NoGate \in GateRecord
  BY DEF NoGate, GateRecord
<1>2. [NoGate EXCEPT !.status = "EMPTY"] \in GateRecord
  BY <1>1 DEF GateRecord
<1> QED BY <1>1, <1>2

\* Writing one field of a gate record keeps its type.
LEMMA FieldTyped ==
  ASSUME NEW g \in GateRecord
  PROVE  /\ \A v \in Status : [g EXCEPT !.status = v] \in GateRecord
         /\ \A v \in Digests \cup {None} :
              /\ [g EXCEPT !.signed = v] \in GateRecord
              /\ [g EXCEPT !.approved = v] \in GateRecord
              /\ [g EXCEPT !.signature = v] \in GateRecord
         /\ \A v \in {0, 1} : /\ [g EXCEPT !.reviews = v] \in GateRecord
                             /\ [g EXCEPT !.approvals = v] \in GateRecord
                             /\ [g EXCEPT !.attempts = v] \in GateRecord
         /\ \A v \in ApprovalIds : [g EXCEPT !.approval = v] \in GateRecord
         /\ \A v \in BOOLEAN : /\ [g EXCEPT !.permitted = v] \in GateRecord
                              /\ [g EXCEPT !.live = v] \in GateRecord
                              /\ [g EXCEPT !.submitted = v] \in GateRecord
         /\ \A v \in Nat : /\ [g EXCEPT !.expires = v] \in GateRecord
                          /\ [g EXCEPT !.approvalExpires = v] \in GateRecord
                          /\ [g EXCEPT !.reservedAt = v] \in GateRecord
BY DEF GateRecord

\* prepare_jit_handoff retires a gate record.
LEMMA RetiredTyped ==
  ASSUME NEW g \in GateRecord
  PROVE  Retired(g) \in GateRecord
<1>1. PICK g1 \in GateRecord : g1 = [g EXCEPT !.status = "JIT_HANDOFF_RETIRED"]
  BY FieldTyped
<1>2. PICK g2 \in GateRecord : g2 = [g1 EXCEPT !.permitted = FALSE]
  BY FieldTyped
<1>3. [g2 EXCEPT !.live = FALSE] \in GateRecord
  BY FieldTyped
<1> QED BY Zenon, <1>1, <1>2, <1>3 DEF Retired

\* arm_claim_gate writes a gate record.
LEMMA ArmedTyped ==
  ASSUME NEW t \in Nat
  PROVE  Armed(t) \in GateRecord
<1>1. PICK g1 \in GateRecord : g1 = [NoGate EXCEPT !.status = "ARMED"]
  BY NoGateTyped, FieldTyped
<1>2. t + GateTtl \in Nat
  BY ClaimAssumption
<1>3. [g1 EXCEPT !.expires = t + GateTtl] \in GateRecord
  BY <1>2, FieldTyped
<1> QED BY Zenon, <1>1, <1>3 DEF Armed

\* bind_wallet_approval writes a gate record.
LEMMA BoundTyped ==
  ASSUME NEW g \in GateRecord, NEW d \in Digests
  PROVE  Bound(g, d) \in GateRecord
<1>1. PICK g1 \in GateRecord : g1 = [g EXCEPT !.status = "WALLET_APPROVAL_BOUND"]
  BY FieldTyped
<1>2. PICK g2 \in GateRecord : g2 = [g1 EXCEPT !.signed = d]
  BY FieldTyped
<1>3. PICK g3 \in GateRecord : g3 = [g2 EXCEPT !.reviews = 1]
  BY FieldTyped
<1>4. PICK g4 \in GateRecord : g4 = [g3 EXCEPT !.approvals = 0]
  BY FieldTyped
<1>5. PICK g5 \in GateRecord : g5 = [g4 EXCEPT !.permitted = FALSE]
  BY FieldTyped
<1>6. PICK g6 \in GateRecord : g6 = [g5 EXCEPT !.submitted = FALSE]
  BY FieldTyped
<1>7. [g6 EXCEPT !.live = FALSE] \in GateRecord
  BY FieldTyped
<1> QED BY Zenon, <1>1, <1>2, <1>3, <1>4, <1>5, <1>6, <1>7 DEF Bound

\* approve_live_claim writes a gate record.
LEMMA ApprovedTyped ==
  ASSUME NEW g \in GateRecord, NEW a \in ApprovalIds, NEW d \in Digests,
         NEW t \in Nat
  PROVE  Approved(g, a, d, t) \in GateRecord
<1>0. Earlier(g.expires, t + ApprovalTtl) \in Nat
  BY ClaimAssumption DEF Earlier, GateRecord
<1>1. PICK g1 \in GateRecord : g1 = [g EXCEPT !.status = "LIVE_CLAIM_APPROVED"]
  BY FieldTyped
<1>2. PICK g2 \in GateRecord : g2 = [g1 EXCEPT !.approval = a]
  BY FieldTyped
<1>3. PICK g3 \in GateRecord : g3 = [g2 EXCEPT !.approvals = 1]
  BY FieldTyped
<1>4. PICK g4 \in GateRecord : g4 = [g3 EXCEPT !.approved = d]
  BY FieldTyped
<1>5. PICK g5 \in GateRecord : g5 = [g4 EXCEPT !.permitted = TRUE]
  BY FieldTyped
<1>6. PICK g6 \in GateRecord : g6 = [g5 EXCEPT !.live = TRUE]
  BY FieldTyped
<1>7. [g6 EXCEPT !.approvalExpires = Earlier(g.expires, t + ApprovalTtl)] \in GateRecord
  BY <1>0, FieldTyped
<1> QED BY Zenon, <1>1, <1>2, <1>3, <1>4, <1>5, <1>6, <1>7 DEF Approved

\* reserve_submission writes a gate record.
LEMMA ReservedTyped ==
  ASSUME NEW g \in GateRecord, NEW t \in Nat
  PROVE  Reserved(g, t) \in GateRecord
<1>1. PICK g1 \in GateRecord : g1 = [g EXCEPT !.status = "SUBMISSION_PENDING"]
  BY FieldTyped
<1>2. PICK g2 \in GateRecord : g2 = [g1 EXCEPT !.attempts = 1]
  BY FieldTyped
<1>3. PICK g3 \in GateRecord : g3 = [g2 EXCEPT !.permitted = FALSE]
  BY FieldTyped
<1>4. PICK g4 \in GateRecord : g4 = [g3 EXCEPT !.submitted = FALSE]
  BY FieldTyped
<1>5. [g4 EXCEPT !.reservedAt = t] \in GateRecord
  BY FieldTyped
<1> QED BY Zenon, <1>1, <1>2, <1>3, <1>4, <1>5 DEF Reserved

\* record_submission_result writes a gate record.
LEMMA RecordedTyped ==
  ASSUME NEW g \in GateRecord, NEW s \in Digests \cup {None}
  PROVE  Recorded(g, s) \in GateRecord
<1> DEFINE status    == IF s = None THEN "FAILED" ELSE "FINALIZATION_PENDING"
           signature == IF s = None THEN g.signature ELSE s
<1>0. /\ status \in Status
      /\ signature \in Digests \cup {None}
      /\ (s # None) \in BOOLEAN
  BY DEF GateRecord
<1>1. PICK g1 \in GateRecord : g1 = [g EXCEPT !.status = status]
  BY <1>0, FieldTyped
<1>2. PICK g2 \in GateRecord : g2 = [g1 EXCEPT !.signature = signature]
  BY <1>0, FieldTyped
<1>3. PICK g3 \in GateRecord : g3 = [g2 EXCEPT !.submitted = s # None]
  BY <1>0, FieldTyped
<1>4. PICK g4 \in GateRecord : g4 = [g3 EXCEPT !.permitted = FALSE]
  BY FieldTyped
<1>5. [g4 EXCEPT !.live = FALSE] \in GateRecord
  BY FieldTyped
<1>6. g1.signature = g.signature
  BY <1>1 DEF GateRecord
<1> QED BY Zenon, <1>1, <1>2, <1>3, <1>4, <1>5, <1>6 DEF Recorded

\* verify_claim_receipt writes a gate record.
LEMMA VerifiedTyped ==
  ASSUME NEW g \in GateRecord
  PROVE  Verified(g) \in GateRecord
BY FieldTyped DEF Verified

-----------------------------------------------------------------------------
(* Type correctness.                                                       *)

\* The fields a command has been given by the time it uses them.
OpOK(n) ==
  /\ n.op \in {"bind", "approve", "submit", "recordSuccess", "recordFailure",
               "recordUnavailable"} => n.digest \in Digests
  /\ n.op \in {"approve", "submit"} => n.approval \in ApprovalIds

CmdOK == cmd \in [Commands -> CmdRecord] /\ \A c \in Commands : OpOK(cmd[c])

TypeInv == TypeOK /\ CmdOK

\* The four ways in which a command changes keep CmdOK.
LEMMA ChangesTyped ==
  ASSUME CmdOK, NEW c \in Commands
  PROVE  /\ End(c) => CmdOK'
         /\ \A step \in Steps : Goto(c, step) => CmdOK'
         /\ \A g \in GateRecord : Decide(c, g) => CmdOK'
         /\ \A op \in Ops, step \in Steps, d \in Digests \cup {None},
              a \in ApprovalIds \cup {None}, g \in GateRecord :
                /\ Begin(c, op, step, d, a, g)
                /\ OpOK([op |-> op, step |-> step, digest |-> d, approval |-> a,
                         copy |-> g])
                => CmdOK'
<1>1. ASSUME NEW n \in CmdRecord, OpOK(n), cmd' = [cmd EXCEPT ![c] = n]
      PROVE  CmdOK'
  BY <1>1 DEF CmdOK
<1>2. End(c) => CmdOK'
  <2>1. Idle \in CmdRecord /\ OpOK(Idle)
    BY NoGateTyped DEF Idle, CmdRecord, Ops, Steps, OpOK
  <2> QED BY <1>1, <2>1 DEF End
<1>3. ASSUME NEW step \in Steps, Goto(c, step) PROVE CmdOK'
  <2>1. PICK n : n = [cmd[c] EXCEPT !.step = step]
    OBVIOUS
  <2>2. n \in CmdRecord /\ OpOK(n)
    BY <2>1 DEF CmdOK, CmdRecord, OpOK
  <2>3. cmd' = [cmd EXCEPT ![c] = n]
    BY <1>3, <2>1 DEF Goto, CmdOK
  <2> QED BY <1>1, <2>2, <2>3
<1>4. ASSUME NEW g \in GateRecord, Decide(c, g) PROVE CmdOK'
  <2>1. PICK n : n = [cmd[c] EXCEPT !.step = "exists", !.copy = g]
    OBVIOUS
  <2>2. n \in CmdRecord /\ OpOK(n)
    BY <2>1 DEF CmdOK, CmdRecord, OpOK, Steps
  <2>3. cmd' = [cmd EXCEPT ![c] = n]
    BY <1>4, <2>1 DEF Decide, CmdOK
  <2> QED BY <1>1, <2>2, <2>3
<1>5. ASSUME NEW op \in Ops, NEW step \in Steps, NEW d \in Digests \cup {None},
             NEW a \in ApprovalIds \cup {None}, NEW g \in GateRecord,
             Begin(c, op, step, d, a, g),
             OpOK([op |-> op, step |-> step, digest |-> d, approval |-> a,
                   copy |-> g])
      PROVE  CmdOK'
  <2>1. PICK n : n = [op |-> op, step |-> step, digest |-> d, approval |-> a,
                      copy |-> g]
    OBVIOUS
  <2>2. n \in CmdRecord /\ OpOK(n)
    BY <1>5, <2>1 DEF CmdRecord
  <2> QED BY <1>1, <1>5, <2>1, <2>2 DEF Begin
<1> QED BY <1>2, <1>3, <1>4, <1>5

\* A recording command takes up the failure to record.
LEMMA ExceptionTyped ==
  ASSUME CmdOK, NEW c \in Commands, OtherException(c)
  PROVE  CmdOK'
<1>1. CASE cmd[c].op \in {"recordSuccess", "recordFailure"}
  <2>1. PICK n : n = [cmd[c] EXCEPT !.op = "recordUnavailable", !.step = "read"]
    OBVIOUS
  <2>2. n \in CmdRecord /\ OpOK(n)
    BY <1>1, <2>1 DEF CmdOK, CmdRecord, OpOK, Ops, Steps
  <2>3. cmd' = [cmd EXCEPT ![c] = n]
    BY <1>1, <2>1 DEF OtherException, CmdOK
  <2> QED BY <2>2, <2>3 DEF CmdOK
<1>2. CASE cmd[c].op \notin {"recordSuccess", "recordFailure"}
  BY <1>2, ChangesTyped DEF OtherException
<1> QED BY <1>1, <1>2

\* The state variables other than cmd, after a step that leaves them alone.
LEMMA FrameTyped ==
  ASSUME TypeInv, OnlyCmd, CmdOK', drawn' \subseteq ApprovalIds, overlapped' \in BOOLEAN
  PROVE  TypeInv'
BY DEF TypeInv, TypeOK, OnlyCmd, CmdOK

\* An operator's command keeps the types.
LEMMA OperatorTyped ==
  ASSUME TypeInv, NEW c \in Commands, OperatorStep(c), overlapped' \in BOOLEAN
  PROVE  TypeInv'
<1> USE DEF TypeInv, TypeOK
<1>1. CASE ArmCreate(c)
  <2>1. Armed(now) \in GateRecord
    BY ArmedTyped
  <2>2. CmdOK'
    BY <1>1, <2>1, ChangesTyped DEF ArmCreate, Ops, Steps, OpOK
  <2> QED BY <1>1, <2>2, NoGateTyped DEF ArmCreate, CmdOK
<1>2. CASE ArmWrite(c)
  <2>1. CmdOK'
    BY <1>2, ChangesTyped DEF ArmWrite
  <2> QED BY <1>2, <2>1 DEF ArmWrite, CmdOK, CmdRecord
<1>3. CASE RetireRead(c)
  <2>1. Retired(gate) \in GateRecord
    BY RetiredTyped
  <2>2. CmdOK'
    BY <1>3, <2>1, ChangesTyped DEF RetireRead, Ops, Steps, OpOK
  <2> QED BY <1>3, <2>2, FrameTyped DEF RetireRead
<1>4. ASSUME NEW d \in Digests, ValidateRead(c, d) PROVE TypeInv'
  <2>1. CmdOK'
    BY <1>4, NoGateTyped, ChangesTyped DEF ValidateRead, Ops, Steps, OpOK
  <2> QED BY <1>4, <2>1, FrameTyped DEF ValidateRead
<1>5. ASSUME NEW d \in Digests, ApproveRead(c, d) PROVE TypeInv'
  <2>1. PICK a \in ApprovalIds :
           /\ drawn' = drawn \cup {a}
           /\ Begin(c, "approve", "exists", d, a, Approved(gate, a, d, now))
    BY <1>5 DEF ApproveRead
  <2>2. Approved(gate, a, d, now) \in GateRecord
    BY ApprovedTyped
  <2>3. CmdOK'
    BY <2>1, <2>2, ChangesTyped DEF Ops, Steps, OpOK
  <2> QED BY <1>5, <2>1, <2>3, FrameTyped DEF ApproveRead
<1>6. CASE BindRead(c)
  <2>1. Bound(gate, cmd[c].digest) \in GateRecord
    BY <1>6, BoundTyped DEF BindRead, At, CmdOK, OpOK
  <2>2. CmdOK'
    BY <1>6, <2>1, ChangesTyped DEF BindRead
  <2> QED BY <1>6, <2>2, FrameTyped DEF BindRead
<1>7. CASE VerifyRead(c)
  <2>1. CmdOK'
    BY <1>7, ChangesTyped DEF VerifyRead, Ops, Steps, OpOK
  <2> QED BY <1>7, <2>1, FrameTyped DEF VerifyRead
<1>8. CASE VerifyFetch(c)
  <2>1. Verified(cmd[c].copy) \in GateRecord
    BY VerifiedTyped DEF CmdOK, CmdRecord
  <2>2. CmdOK'
    BY <1>8, <2>1, ChangesTyped DEF VerifyFetch
  <2> QED BY <1>8, <2>2, FrameTyped DEF VerifyFetch
<1> QED BY <1>1, <1>2, <1>3, <1>4, <1>5, <1>6, <1>7, <1>8 DEF OperatorStep

\* So does a step of a submission.
LEMMA SubmitTyped ==
  ASSUME TypeInv, NEW c \in Commands, SubmitStep(c), overlapped' \in BOOLEAN
  PROVE  TypeInv'
<1> USE DEF TypeInv, TypeOK
<1>1. ASSUME NEW a \in ApprovalIds, NEW d \in Digests, InspectRead(c, a, d)
      PROVE  TypeInv'
  <2>1. CmdOK'
    BY <1>1, NoGateTyped, ChangesTyped DEF InspectRead, Ops, Steps, OpOK
  <2> QED BY <1>1, <2>1, FrameTyped DEF InspectRead
<1>2. CASE GenesisAnswered(c)
  <2>1. CmdOK'
    BY <1>2, ChangesTyped DEF GenesisAnswered, Steps
  <2> QED BY <1>2, <2>1, FrameTyped DEF GenesisAnswered
<1>3. CASE ReserveRead(c)
  <2>1. Reserved(gate, now) \in GateRecord
    BY ReservedTyped
  <2>2. CmdOK'
    BY <1>3, <2>1, ChangesTyped DEF ReserveRead
  <2> QED BY <1>3, <2>2, FrameTyped DEF ReserveRead
<1>4. CASE PostTransaction(c)
  <2>1. CmdOK'
    BY <1>4, ChangesTyped DEF PostTransaction, Steps
  <2>2. <<cmd[c].approval, cmd[c].digest, cmd[c].copy.reservedAt>>
          \in ApprovalIds \X Digests \X Nat
    BY <1>4 DEF PostTransaction, At, CmdOK, OpOK, CmdRecord, GateRecord
  <2>3. posted' \in Seq(ApprovalIds \X Digests \X Nat)
    BY <1>4, <2>2 DEF PostTransaction
  <2>4. landed' \subseteq Digests
    BY <1>4 DEF PostTransaction, At, CmdOK, OpOK
  <2> QED BY <1>4, <2>1, <2>3, <2>4 DEF PostTransaction, CmdOK
<1>5. CASE PostAnswered(c)
  <2>1. PICK op \in {"recordSuccess", "recordFailure", "recordUnavailable"} :
           cmd' = [cmd EXCEPT ![c].op = op, ![c].step = "read"]
    BY <1>5 DEF PostAnswered
  <2>2. PICK n : n = [cmd[c] EXCEPT !.op = op, !.step = "read"]
    OBVIOUS
  <2>3. n \in CmdRecord /\ OpOK(n)
    BY <1>5, <2>2 DEF PostAnswered, At, CmdOK, CmdRecord, OpOK, Ops, Steps
  <2>4. cmd' = [cmd EXCEPT ![c] = n]
    BY <2>1, <2>2 DEF CmdOK
  <2>5. CmdOK'
    BY <2>3, <2>4 DEF CmdOK
  <2> QED BY <1>5, <2>5, FrameTyped DEF PostAnswered
<1>6. CASE RecordRead(c)
  <2>1. \A s \in Digests \cup {None} : Recorded(gate, s) \in GateRecord
    BY RecordedTyped
  <2>2. CmdOK'
    BY <1>6, <2>1, ChangesTyped DEF RecordRead, Recording, CmdOK, OpOK
  <2> QED BY <1>6, <2>2, FrameTyped DEF RecordRead
<1> QED BY <1>1, <1>2, <1>3, <1>4, <1>5, <1>6 DEF SubmitStep

\* And so do the steps of write_gate and the failures.
LEMMA WriteTyped ==
  ASSUME TypeInv, NEW c \in Commands, WriteStep(c), overlapped' \in BOOLEAN
  PROVE  TypeInv'
<1> USE DEF TypeInv, TypeOK
<1>1. CASE TempExists(c)
  <2>1. CmdOK'
    BY <1>1, ChangesTyped DEF TempExists, Steps
  <2> QED BY <1>1, <2>1, FrameTyped DEF TempExists
<1>2. CASE TempOpen(c)
  <2>1. CmdOK'
    BY <1>2, ChangesTyped, ExceptionTyped DEF TempOpen, Steps
  <2> QED BY <1>2, <2>1 DEF TempOpen, CmdOK
<1>3. CASE WriteFails(c)
  <2>1. CmdOK'
    BY <1>3, ExceptionTyped DEF WriteFails
  <2> QED BY <1>3, <2>1, FrameTyped DEF WriteFails
<1>4. CASE Replace(c)
  <2>1. CmdOK'
    BY <1>4, ChangesTyped DEF Replace, Steps
  <2>2. gate' \in GateRecord
    BY <1>4 DEF Replace, CmdOK, CmdRecord
  <2>3. granted' \subseteq ApprovalIds \X Digests \X Nat
    BY <1>4 DEF Replace, CmdOK, OpOK, CmdRecord, GateRecord
  <2> QED BY <1>4, <2>1, <2>2, <2>3 DEF Replace, CmdOK
<1>5. CASE Crash(c)
  <2>1. CmdOK'
    BY <1>5, ChangesTyped DEF Crash
  <2> QED BY <1>5, <2>1, FrameTyped DEF Crash
<1> QED BY <1>1, <1>2, <1>3, <1>4, <1>5 DEF WriteStep

\* Every step of the specification keeps the types.
LEMMA TypeStep == TypeInv /\ [Next]_vars => TypeInv'
<1> SUFFICES ASSUME TypeInv, [Next]_vars PROVE TypeInv'
  OBVIOUS
<1>0. overlapped' \in BOOLEAN
  BY Zenon DEF Next, vars, TypeInv, TypeOK
<1>1. CASE Tick
  BY <1>0, <1>1 DEF Tick, TypeInv, TypeOK, CmdOK
<1>2. CASE UNCHANGED vars
  BY <1>2 DEF vars, TypeInv, TypeOK, CmdOK
<1> QED BY <1>0, <1>1, <1>2, OperatorTyped, SubmitTyped, WriteTyped DEF Next

\* The first state has them.
LEMMA TypeStart == Init => TypeInv
<1> SUFFICES ASSUME Init PROVE TypeInv
  OBVIOUS
<1>1. Idle \in CmdRecord /\ OpOK(Idle)
  BY NoGateTyped DEF Idle, CmdRecord, OpOK, Ops, Steps
<1>2. CmdOK
  BY <1>1 DEF Init, CmdOK
<1>3. posted \in Seq(ApprovalIds \X Digests \X Nat)
  BY DEF Init
<1> QED BY <1>2, <1>3, NoGateTyped DEF Init, TypeInv, TypeOK, CmdOK

\* Every reachable state is of its type (the gate file, the commands' copies
\* of it, what was granted, posted and taken in by the chain).
THEOREM TypeCorrect == Spec => []TypeOK
<1>1. TypeInv => TypeOK
  BY DEF TypeInv
<1> QED BY <1>1, TypeStart, TypeStep, PTL DEF Spec

-----------------------------------------------------------------------------
(* The audit table.                                                        *)

\* Each write keeps to the rows of the audit table, under the conditions the
\* code puts before it.
LEMMA WritesAudited ==
  ASSUME NEW g \in GateRecord, AuditRow(g), NEW d, NEW a, NEW t, NEW s
  PROVE  /\ MayRetire(g) => AuditRow(Retired(g))
         /\ MayBind(g, t) => AuditRow(Bound(g, d))
         /\ MayApprove(g, d, t) => AuditRow(Approved(g, a, d, t))
         /\ MayReserve(g, a, d, t) => AuditRow(Reserved(g, t))
         /\ MayRecord(g) => AuditRow(Recorded(g, s))
         /\ MayVerify(g) => AuditRow(Verified(g))
<1>1. MayRetire(g) => AuditRow(Retired(g))
  BY DEF MayRetire, Retired, AuditRow, GateRecord
<1>2. MayBind(g, t) => AuditRow(Bound(g, d))
  BY DEF MayBind, Bound, AuditRow, GateRecord
<1>3. MayApprove(g, d, t) => AuditRow(Approved(g, a, d, t))
  BY DEF MayApprove, Approved, AuditRow, GateRecord
<1>4. MayReserve(g, a, d, t) => AuditRow(Reserved(g, t))
  BY DEF MayReserve, Reserved, AuditRow, GateRecord
<1>5. MayRecord(g) => AuditRow(Recorded(g, s))
  BY DEF MayRecord, Recorded, AuditRow, GateRecord
<1>6. MayVerify(g) => AuditRow(Verified(g))
  BY DEF MayVerify, Verified, AuditRow, GateRecord
<1> QED BY <1>1, <1>2, <1>3, <1>4, <1>5, <1>6

\* What a command is about to write after a step: what it was about to write
\* before, nothing, or what it decided on.
LEMMA ChangesCopy ==
  ASSUME CmdOK, NEW c \in Commands, NEW x \in Commands
  PROVE  /\ End(c) => cmd'[x].copy \in {cmd[x].copy, NoGate}
         /\ \A step : Goto(c, step) => cmd'[x].copy = cmd[x].copy
         /\ \A g : Decide(c, g) => cmd'[x].copy \in {cmd[x].copy, g}
         /\ \A op, step, d, a, g :
              Begin(c, op, step, d, a, g) => cmd'[x].copy \in {cmd[x].copy, g}
         /\ OtherException(c) => cmd'[x].copy \in {cmd[x].copy, NoGate}
<1> USE DEF CmdOK, CmdRecord
<1>1. End(c) => cmd'[x].copy \in {cmd[x].copy, NoGate}
  BY DEF End, Idle
<1>2. \A step : Goto(c, step) => cmd'[x].copy = cmd[x].copy
  BY DEF Goto
<1>3. \A g : Decide(c, g) => cmd'[x].copy \in {cmd[x].copy, g}
  BY DEF Decide
<1>4. \A op, step, d, a, g :
        Begin(c, op, step, d, a, g) => cmd'[x].copy \in {cmd[x].copy, g}
  BY DEF Begin
<1>5. OtherException(c) => cmd'[x].copy \in {cmd[x].copy, NoGate}
  BY <1>1 DEF OtherException
<1> QED BY <1>1, <1>2, <1>3, <1>4, <1>5

\* A verifier holds a copy of a gate whose claim was submitted.
FetchOK == \A c \in Commands : cmd[c].step = "fetch" => MayVerify(cmd[c].copy)

\* Only the read of verify_claim_receipt brings a command to that step.
LEMMA FetchStep == TypeInv /\ FetchOK /\ [Next]_vars => FetchOK'
<1> SUFFICES ASSUME TypeInv, FetchOK, [Next]_vars,
                    NEW x \in Commands, cmd'[x].step = "fetch"
             PROVE  MayVerify(cmd'[x].copy)
  BY DEF FetchOK
<1> USE DEF TypeInv, CmdOK, CmdRecord
<1>1. ASSUME cmd'[x] = cmd[x] PROVE MayVerify(cmd'[x].copy)
  BY <1>1 DEF FetchOK
<1>2. ASSUME NEW c \in Commands, OperatorStep(c) PROVE MayVerify(cmd'[x].copy)
  <2>1. ASSUME VerifyRead(c) PROVE MayVerify(cmd'[x].copy)
    BY <2>1, <1>1 DEF VerifyRead, Begin
  <2>2. ASSUME ~ VerifyRead(c) PROVE cmd'[x] = cmd[x]
    BY <1>2, <2>2 DEF OperatorStep, ArmCreate, ArmWrite, RetireRead, ValidateRead,
      ApproveRead, BindRead, VerifyFetch, Begin, End, Decide, Idle
  <2> QED BY <2>1, <2>2, <1>1
<1>3. ASSUME NEW c \in Commands, SubmitStep(c) PROVE MayVerify(cmd'[x].copy)
  <2>1. cmd'[x] = cmd[x]
    BY <1>3 DEF SubmitStep, InspectRead, GenesisAnswered, ReserveRead,
      PostTransaction, PostAnswered, RecordRead, Begin, End, Decide, Goto, Idle
  <2> QED BY <2>1, <1>1
<1>4. ASSUME NEW c \in Commands, WriteStep(c) PROVE MayVerify(cmd'[x].copy)
  <2>1. cmd'[x] = cmd[x]
    BY <1>4 DEF WriteStep, TempExists, TempOpen, WriteFails, Replace, Crash,
      OtherException, End, Goto, Idle
  <2> QED BY <2>1, <1>1
<1>5. CASE Tick
  BY <1>5, <1>1 DEF Tick
<1>6. CASE UNCHANGED vars
  BY <1>6, <1>1 DEF vars
<1> QED BY <1>2, <1>3, <1>4, <1>5, <1>6 DEF Next

\* The audit table is inductive: a file that is absent, empty or armed is in
\* no row and permits nothing, and every later copy comes from WritesAudited.
LEMMA AuditStep == TypeInv /\ AuditTable /\ FetchOK /\ [Next]_vars => AuditTable'
<1> SUFFICES ASSUME TypeInv, AuditTable, FetchOK, [Next]_vars PROVE AuditTable'
  OBVIOUS
<1> USE DEF TypeInv, TypeOK
<1>1. AuditRow(NoGate) /\ AuditRow([NoGate EXCEPT !.status = "EMPTY"])
        /\ AuditRow(Armed(now))
  BY DEF AuditRow, NoGate, Armed
<1>2. gate \in GateRecord /\ AuditRow(gate)
  BY DEF AuditTable
<1>3. \A x \in Commands : cmd[x].copy \in GateRecord /\ AuditRow(cmd[x].copy)
  BY DEF AuditTable, CmdOK, CmdRecord
<1>4. ASSUME NEW c \in Commands, OperatorStep(c) PROVE AuditTable'
  <2>1. CASE ArmCreate(c)
    <3>1. AuditRow(gate')
      BY <2>1, <1>1 DEF ArmCreate
    <3>2. \A x \in Commands : cmd'[x].copy \in {cmd[x].copy, Armed(now)}
      BY <2>1, ChangesCopy DEF ArmCreate
    <3> QED BY <3>1, <3>2, <1>1, <1>3 DEF AuditTable
  <2>2. CASE ArmWrite(c)
    BY <2>2, <1>1, <1>3, ChangesCopy DEF ArmWrite, AuditTable
  <2>3. CASE RetireRead(c)
    <3>1. AuditRow(Retired(gate))
      BY <2>3, <1>2, WritesAudited DEF RetireRead
    <3> QED BY <2>3, <3>1, <1>2, <1>3, ChangesCopy DEF RetireRead, OnlyCmd, AuditTable
  <2>4. ASSUME NEW d \in Digests, ValidateRead(c, d) PROVE AuditTable'
    BY <2>4, <1>1, <1>2, <1>3, ChangesCopy DEF ValidateRead, OnlyCmd, AuditTable
  <2>5. ASSUME NEW d \in Digests, ApproveRead(c, d) PROVE AuditTable'
    <3>1. PICK a \in ApprovalIds :
             Begin(c, "approve", "exists", d, a, Approved(gate, a, d, now))
      BY <2>5 DEF ApproveRead
    <3>2. AuditRow(Approved(gate, a, d, now))
      BY <2>5, <1>2, WritesAudited DEF ApproveRead
    <3> QED BY <2>5, <3>1, <3>2, <1>2, <1>3, ChangesCopy
            DEF ApproveRead, OnlyCmd, AuditTable
  <2>6. CASE BindRead(c)
    <3>1. MayBind(gate, now) => AuditRow(Bound(gate, cmd[c].digest))
      BY <1>2, WritesAudited
    <3> QED BY <2>6, <3>1, <1>1, <1>2, <1>3, ChangesCopy DEF BindRead, OnlyCmd, AuditTable
  <2>7. CASE VerifyRead(c)
    BY <2>7, <1>2, <1>3, ChangesCopy DEF VerifyRead, OnlyCmd, AuditTable
  <2>8. CASE VerifyFetch(c)
    <3>1. AuditRow(Verified(cmd[c].copy))
      BY <2>8, <1>3, WritesAudited DEF VerifyFetch, At, FetchOK
    <3> QED BY <2>8, <3>1, <1>1, <1>2, <1>3, ChangesCopy
            DEF VerifyFetch, OnlyCmd, AuditTable
  <2> QED BY <1>4, <2>1, <2>2, <2>3, <2>4, <2>5, <2>6, <2>7, <2>8 DEF OperatorStep
<1>5. ASSUME NEW c \in Commands, SubmitStep(c) PROVE AuditTable'
  <2>1. ASSUME NEW a \in ApprovalIds, NEW d \in Digests, InspectRead(c, a, d)
        PROVE  AuditTable'
    BY <2>1, <1>1, <1>2, <1>3, ChangesCopy DEF InspectRead, OnlyCmd, AuditTable
  <2>2. CASE GenesisAnswered(c)
    BY <2>2, <1>1, <1>2, <1>3, ChangesCopy DEF GenesisAnswered, OnlyCmd, AuditTable
  <2>3. CASE ReserveRead(c)
    <3>1. MayReserve(gate, cmd[c].approval, cmd[c].digest, now)
            => AuditRow(Reserved(gate, now))
      BY <1>2, WritesAudited
    <3> QED BY <2>3, <3>1, <1>1, <1>2, <1>3, ChangesCopy
            DEF ReserveRead, OnlyCmd, AuditTable
  <2>4. CASE PostTransaction(c)
    BY <2>4, <1>2, <1>3, ChangesCopy DEF PostTransaction, AuditTable
  <2>5. CASE PostAnswered(c)
    BY <2>5, <1>2, <1>3 DEF PostAnswered, OnlyCmd, AuditTable, CmdOK, CmdRecord
  <2>6. CASE RecordRead(c)
    <3>1. PICK s : s = IF cmd[c].op = "recordSuccess" THEN cmd[c].digest ELSE None
      OBVIOUS
    <3>2. MayRecord(gate) => AuditRow(Recorded(gate, s))
      BY <1>2, WritesAudited
    <3>3. IF MayRecord(gate) THEN Decide(c, Recorded(gate, s)) ELSE End(c)
      BY <2>6, <3>1 DEF RecordRead
    <3>4. \A x \in Commands : AuditRow(cmd'[x].copy)
      BY <3>2, <3>3, <1>1, <1>3, ChangesCopy
    <3> QED BY <2>6, <3>4, <1>2 DEF RecordRead, OnlyCmd, AuditTable
  <2> QED BY <1>5, <2>1, <2>2, <2>3, <2>4, <2>5, <2>6 DEF SubmitStep
<1>6. ASSUME NEW c \in Commands, WriteStep(c) PROVE AuditTable'
  <2>1. CASE TempExists(c)
    BY <2>1, <1>1, <1>2, <1>3, ChangesCopy DEF TempExists, OnlyCmd, AuditTable
  <2>2. CASE TempOpen(c)
    BY <2>2, <1>1, <1>2, <1>3, ChangesCopy DEF TempOpen, AuditTable
  <2>3. CASE WriteFails(c)
    BY <2>3, <1>1, <1>2, <1>3, ChangesCopy DEF WriteFails, OnlyCmd, AuditTable
  <2>4. CASE Replace(c)
    BY <2>4, <1>1, <1>3, ChangesCopy DEF Replace, AuditTable
  <2>5. CASE Crash(c)
    BY <2>5, <1>1, <1>2, <1>3, ChangesCopy DEF Crash, OnlyCmd, AuditTable
  <2> QED BY <1>6, <2>1, <2>2, <2>3, <2>4, <2>5 DEF WriteStep
<1>7. CASE Tick
  BY <1>7 DEF Tick, AuditTable
<1>8. CASE UNCHANGED vars
  BY <1>8 DEF vars, AuditTable
<1> QED BY <1>4, <1>5, <1>6, <1>7, <1>8 DEF Next

\* However commands race and crash, the gate and every copy of it that may
\* still be written are rows of the table that audit_gate_consumption knows.
THEOREM AuditHolds == Spec => []AuditTable
<1>1. Init => AuditTable
  BY DEF Init, AuditTable, AuditRow, Idle, NoGate
<1>2. Init => FetchOK
  BY DEF Init, FetchOK, Idle
<1> QED BY <1>1, <1>2, TypeStart, TypeStep, FetchStep, AuditStep, PTL DEF Spec

-----------------------------------------------------------------------------
(* Nothing is sent that was not approved.                                  *)

Live(g) == g.status = "LIVE_CLAIM_APPROVED"

\* Only an approving command sets out to write a live gate, and it writes the
\* approval and the digest that the operator gave it.
LiveOK ==
  \A c \in Commands : Live(cmd[c].copy) =>
    /\ cmd[c].op = "approve"
    /\ cmd[c].copy.approval = cmd[c].approval
    /\ cmd[c].copy.approved = cmd[c].digest

\* Of the writes, only approve_live_claim makes a gate live.
LEMMA WritesLive ==
  ASSUME NEW g \in GateRecord, NEW d, NEW a, NEW t, NEW s
  PROVE  /\ ~ Live(NoGate) /\ ~ Live(Armed(t)) /\ ~ Live(Retired(g))
         /\ ~ Live(Bound(g, d)) /\ ~ Live(Reserved(g, t))
         /\ ~ Live(Recorded(g, s)) /\ ~ Live(Verified(g))
         /\ Approved(g, a, d, t).approval = a /\ Approved(g, a, d, t).approved = d
<1>1. ~ Live(NoGate) /\ ~ Live(Armed(t)) /\ ~ Live(Retired(g))
  BY DEF Live, NoGate, Armed, Retired, GateRecord
<1>2. ~ Live(Bound(g, d)) /\ ~ Live(Reserved(g, t))
  BY DEF Live, Bound, Reserved, GateRecord
<1>3. ~ Live(Recorded(g, s)) /\ ~ Live(Verified(g))
  BY DEF Live, Recorded, Verified, GateRecord
<1>4. Approved(g, a, d, t).approval = a /\ Approved(g, a, d, t).approved = d
  BY DEF Approved, GateRecord
<1> QED BY <1>1, <1>2, <1>3, <1>4

\* Every step keeps it so.
LEMMA LiveStep == TypeInv /\ LiveOK /\ [Next]_vars => LiveOK'
<1> SUFFICES ASSUME TypeInv, LiveOK, [Next]_vars,
                    NEW x \in Commands, Live(cmd'[x].copy)
             PROVE  /\ cmd'[x].op = "approve"
                    /\ cmd'[x].copy.approval = cmd'[x].approval
                    /\ cmd'[x].copy.approved = cmd'[x].digest
  BY DEF LiveOK
<1> DEFINE Goal == /\ cmd'[x].op = "approve"
                   /\ cmd'[x].copy.approval = cmd'[x].approval
                   /\ cmd'[x].copy.approved = cmd'[x].digest
<1> USE DEF TypeInv, TypeOK, CmdOK, CmdRecord
<1>1. ASSUME cmd'[x] = cmd[x] PROVE Goal
  BY <1>1 DEF LiveOK
<1>2. ASSUME NEW step, cmd' = [cmd EXCEPT ![x].step = step] PROVE Goal
  BY <1>2 DEF LiveOK
<1>3. ASSUME NEW c \in Commands, End(c) PROVE Goal
  <2>1. ~ Live(Idle.copy)
    BY WritesLive DEF Idle
  <2>2. cmd'[x] = Idle \/ cmd'[x] = cmd[x]
    BY <1>3 DEF End
  <2> QED BY <2>1, <2>2, <1>1
<1>4. ASSUME NEW c \in Commands, NEW g, ~ Live(g), Decide(c, g) PROVE Goal
  <2>1. cmd'[x].copy = g \/ cmd'[x] = cmd[x]
    BY <1>4 DEF Decide
  <2> QED BY <2>1, <1>1, <1>4
<1>5. ASSUME NEW c \in Commands, NEW op, NEW step, NEW d, NEW a, NEW g,
             Live(g) => op = "approve" /\ g.approval = a /\ g.approved = d,
             Begin(c, op, step, d, a, g)
      PROVE  Goal
  <2>1. \/ cmd'[x] = cmd[x]
        \/ cmd'[x] = [op |-> op, step |-> step, digest |-> d, approval |-> a,
                      copy |-> g]
    BY <1>5 DEF Begin
  <2> QED BY <2>1, <1>1, <1>5
<1>6. ASSUME NEW c \in Commands, OtherException(c) PROVE Goal
  <2>1. CASE cmd[c].op \in {"recordSuccess", "recordFailure"}
    BY <1>6, <2>1, <1>1 DEF OtherException, LiveOK
  <2>2. CASE cmd[c].op \notin {"recordSuccess", "recordFailure"}
    BY <1>6, <2>2, <1>3 DEF OtherException
  <2> QED BY <2>1, <2>2
<1>7. ASSUME NEW c \in Commands, OperatorStep(c) PROVE Goal
  <2>1. CASE ArmCreate(c)
    BY <2>1, <1>5, WritesLive DEF ArmCreate
  <2>2. CASE ArmWrite(c)
    BY <2>2, <1>3 DEF ArmWrite
  <2>3. CASE RetireRead(c)
    BY <2>3, <1>5, WritesLive DEF RetireRead
  <2>4. ASSUME NEW d \in Digests, ValidateRead(c, d) PROVE Goal
    BY <2>4, <1>5, WritesLive DEF ValidateRead
  <2>5. ASSUME NEW d \in Digests, ApproveRead(c, d) PROVE Goal
    <3>1. PICK a \in ApprovalIds :
            Begin(c, "approve", "exists", d, a, Approved(gate, a, d, now))
      BY <2>5 DEF ApproveRead
    <3>2. gate \in GateRecord
      OBVIOUS
    <3>3. /\ Approved(gate, a, d, now).approval = a
          /\ Approved(gate, a, d, now).approved = d
      BY <3>2 DEF Approved, GateRecord
    <3>4. \/ cmd'[x] = cmd[x]
          \/ cmd'[x] = [op |-> "approve", step |-> "exists", digest |-> d,
                        approval |-> a, copy |-> Approved(gate, a, d, now)]
      BY <3>1 DEF Begin
    <3> QED BY <3>3, <3>4, <1>1
  <2>6. CASE BindRead(c)
    BY <2>6, <1>3, <1>4, WritesLive DEF BindRead
  <2>7. CASE VerifyRead(c)
    BY <2>7, <1>5 DEF VerifyRead, MayVerify, Live
  <2>8. CASE VerifyFetch(c)
    BY <2>8, <1>3, <1>4, WritesLive DEF VerifyFetch
  <2> QED BY <1>7, <2>1, <2>2, <2>3, <2>4, <2>5, <2>6, <2>7, <2>8 DEF OperatorStep
<1>8. ASSUME NEW c \in Commands, SubmitStep(c) PROVE Goal
  <2>1. ASSUME NEW a \in ApprovalIds, NEW d \in Digests, InspectRead(c, a, d)
        PROVE  Goal
    BY <2>1, <1>5, WritesLive DEF InspectRead
  <2>2. CASE GenesisAnswered(c)
    BY <2>2, <1>1, <1>2, <1>3 DEF GenesisAnswered, Goto
  <2>3. CASE ReserveRead(c)
    BY <2>3, <1>3, <1>4, WritesLive DEF ReserveRead
  <2>4. CASE PostTransaction(c)
    BY <2>4, <1>1, <1>2 DEF PostTransaction, Goto
  <2>5. CASE PostAnswered(c)
    BY <2>5, <1>1 DEF PostAnswered, At, LiveOK
  <2>6. CASE RecordRead(c)
    BY <2>6, <1>3, <1>4, WritesLive DEF RecordRead
  <2> QED BY <1>8, <2>1, <2>2, <2>3, <2>4, <2>5, <2>6 DEF SubmitStep
<1>9. ASSUME NEW c \in Commands, WriteStep(c) PROVE Goal
  <2>1. \/ End(c)
        \/ OtherException(c)
        \/ \E step : cmd' = [cmd EXCEPT ![c].step = step]
    BY <1>9 DEF WriteStep, TempExists, TempOpen, WriteFails, Replace, Crash, Goto
  <2> QED BY <2>1, <1>1, <1>2, <1>3, <1>6
<1>10. CASE Tick
  BY <1>10, <1>1 DEF Tick
<1>11. CASE UNCHANGED vars
  BY <1>11, <1>1 DEF vars
<1> QED BY <1>7, <1>8, <1>9, <1>10, <1>11 DEF Next

\* A submission that reserved, or is about to, has an approval on record that
\* was unexpired when it read the gate.
Covered(a, d, t) == \E g \in granted : a = g[1] /\ d = g[2] /\ t <= g[3]

GrantOK ==
  /\ Live(gate) => <<gate.approval, gate.approved, gate.approvalExpires>> \in granted
  /\ \A c \in Commands :
       /\ cmd[c].op = "submit"
       /\ cmd[c].step \in {"exists", "open", "replace", "post"}
       => Covered(cmd[c].approval, cmd[c].digest, cmd[c].copy.reservedAt)
  /\ ApprovedBeforePosted

\* Every step keeps it so.
LEMMA GrantStep ==
  TypeInv /\ AuditTable /\ LiveOK /\ GrantOK /\ [Next]_vars => GrantOK'
<1> SUFFICES ASSUME TypeInv, AuditTable, LiveOK, GrantOK, [Next]_vars PROVE GrantOK'
  OBVIOUS
<1> USE DEF TypeInv, TypeOK, CmdOK, CmdRecord
<1> DEFINE Submitting(c) == /\ cmd[c].op = "submit"
                            /\ cmd[c].step \in {"exists", "open", "replace", "post"}
           CoveredAt(c) == Covered(cmd[c].approval, cmd[c].digest, cmd[c].copy.reservedAt)
<1>1. granted \subseteq granted'
  BY DEF Next, OperatorStep, SubmitStep, WriteStep, ArmCreate, ArmWrite, RetireRead,
    ValidateRead, ApproveRead, BindRead, VerifyRead, VerifyFetch, InspectRead,
    GenesisAnswered, ReserveRead, PostTransaction, PostAnswered, RecordRead,
    TempExists, TempOpen, WriteFails, Replace, Crash, Tick, OnlyCmd, vars
<1>2. \A a, d, t : Covered(a, d, t) => Covered(a, d, t)'
  BY <1>1 DEF Covered
<1>3. Live(gate)' => <<gate.approval, gate.approved, gate.approvalExpires>>' \in granted'
  <2>1. CASE gate' = gate
    BY <2>1, <1>1 DEF GrantOK, Live
  <2>2. ASSUME NEW c \in Commands, ArmCreate(c) PROVE ~ Live(gate)'
    BY <2>2 DEF ArmCreate, Live, NoGate
  <2>3. ASSUME NEW c \in Commands, ArmWrite(c) PROVE ~ Live(gate)'
    BY <2>3 DEF ArmWrite, At, LiveOK, Live
  <2>4. ASSUME NEW c \in Commands, Replace(c), Live(gate)'
        PROVE  <<gate.approval, gate.approved, gate.approvalExpires>>' \in granted'
    <3>1. gate' = cmd[c].copy /\ Live(cmd[c].copy)
      BY <2>4 DEF Replace, Live
    <3>2. /\ cmd[c].op = "approve"
          /\ cmd[c].copy.approval = cmd[c].approval
          /\ cmd[c].copy.approved = cmd[c].digest
      BY <3>1 DEF LiveOK
    <3>3. <<cmd[c].approval, cmd[c].digest, cmd[c].copy.approvalExpires>> \in granted'
      BY <2>4, <3>2 DEF Replace
    <3> QED BY <3>1, <3>2, <3>3
  <2>5. \/ gate' = gate
        \/ \E c \in Commands : ArmCreate(c) \/ ArmWrite(c) \/ Replace(c)
    BY DEF Next, OperatorStep, SubmitStep, WriteStep, RetireRead,
      ValidateRead, ApproveRead, BindRead, VerifyRead, VerifyFetch, InspectRead,
      GenesisAnswered, ReserveRead, PostTransaction, PostAnswered, RecordRead,
      TempExists, TempOpen, WriteFails, Crash, Tick, OnlyCmd, vars
  <2> QED BY <2>1, <2>2, <2>3, <2>4, <2>5
<1>4. ASSUME NEW x \in Commands, Submitting(x)' PROVE CoveredAt(x)'
  <2>1. ASSUME NEW c \in Commands, ReserveRead(c), x = c PROVE CoveredAt(x)'
    <3>1. MayReserve(gate, cmd[c].approval, cmd[c].digest, now)
      BY <2>1, <1>4 DEF ReserveRead, End, Idle
    <3>2. Live(gate)
      BY <3>1 DEF MayReserve, Live, AuditTable, AuditRow
    <3>3. <<gate.approval, gate.approved, gate.approvalExpires>> \in granted
      BY <3>2 DEF GrantOK
    <3>4. now <= gate.approvalExpires /\ gate.approval = cmd[c].approval
            /\ gate.approved = cmd[c].digest
      BY <3>1 DEF MayReserve
    <3>5. Reserved(gate, now).reservedAt = now
      BY DEF Reserved, GateRecord
    <3>6. cmd'[c].approval = cmd[c].approval /\ cmd'[c].digest = cmd[c].digest
            /\ cmd'[c].copy = Reserved(gate, now)
      BY <2>1, <3>1 DEF ReserveRead, Decide
    <3>7. Covered(gate.approval, gate.approved, now)
      BY <3>3, <3>4 DEF Covered
    <3> QED BY <2>1, <3>4, <3>5, <3>6, <3>7, <1>2
  <2>2. ASSUME Submitting(x), NEW step, cmd' = [cmd EXCEPT ![x].step = step]
        PROVE  CoveredAt(x)'
    <3>1. cmd'[x].approval = cmd[x].approval /\ cmd'[x].digest = cmd[x].digest
            /\ cmd'[x].copy = cmd[x].copy
      BY <2>2
    <3> QED BY <2>2, <3>1, <1>2 DEF GrantOK
  <2>3. ASSUME cmd'[x] = cmd[x] PROVE CoveredAt(x)'
    BY <1>4, <2>3, <1>2 DEF GrantOK
  <2>4. \/ cmd'[x] = cmd[x]
        \/ Submitting(x) /\ \E step : cmd' = [cmd EXCEPT ![x].step = step]
        \/ ReserveRead(x)
    <3>1. ASSUME NEW c \in Commands, OperatorStep(c) PROVE cmd'[x] = cmd[x]
      BY <1>4, <3>1 DEF OperatorStep, ArmCreate, ArmWrite, RetireRead, ValidateRead,
        ApproveRead, BindRead, VerifyRead, VerifyFetch, Begin, Decide, End, Idle, At
    <3>2. ASSUME NEW c \in Commands, SubmitStep(c), ~ ReserveRead(c)
          PROVE  cmd'[x] = cmd[x]
      BY <1>4, <3>2 DEF SubmitStep, InspectRead, GenesisAnswered, PostTransaction,
        PostAnswered, RecordRead, Recording, Begin, Decide, Goto, End, Idle, At
    <3>3. ASSUME NEW c \in Commands, ReserveRead(c)
          PROVE  cmd'[x] = cmd[x] \/ ReserveRead(x)
      BY <3>3 DEF ReserveRead, Decide, End
    <3>4. ASSUME NEW c \in Commands, WriteStep(c)
          PROVE  \/ cmd'[x] = cmd[x]
                 \/ Submitting(x) /\ \E step : cmd' = [cmd EXCEPT ![x].step = step]
      <4>1. CASE c # x
        BY <3>4, <4>1 DEF WriteStep, TempExists, TempOpen, WriteFails, Replace, Crash,
          OtherException, Goto, End
      <4>2. CASE c = x
        <5>1. ~ End(x)
          BY <1>4 DEF End, Idle
        <5>2. ~ OtherException(x)
          BY <1>4, <5>1 DEF OtherException
        <5>3. PICK step : Goto(x, step)
          BY <3>4, <4>2, <5>1, <5>2
             DEF WriteStep, TempExists, TempOpen, WriteFails, Replace, Crash
        <5>4. cmd[x].op = "submit"
          BY <1>4, <5>3 DEF Goto
        <5>5. cmd[x].step \in {"exists", "open", "replace"}
          BY <3>4, <4>2, <5>1, <5>2
             DEF WriteStep, TempExists, TempOpen, WriteFails, Replace, Crash
        <5> QED BY <5>3, <5>4, <5>5 DEF Goto
      <4> QED BY <4>1, <4>2
    <3> QED BY <3>1, <3>2, <3>3, <3>4 DEF Next, Tick, vars
  <2> QED BY <2>1, <2>2, <2>3, <2>4
<1>5. ApprovedBeforePosted'
  <2>1. ASSUME posted' = posted PROVE ApprovedBeforePosted'
    BY <2>1, <1>1 DEF GrantOK, ApprovedBeforePosted
  <2>2. ASSUME NEW c \in Commands, PostTransaction(c) PROVE ApprovedBeforePosted'
    <3>1. CoveredAt(c)
      BY <2>2 DEF PostTransaction, At, GrantOK
    <3>2. PICK p : p = <<cmd[c].approval, cmd[c].digest, cmd[c].copy.reservedAt>>
      OBVIOUS
    <3>3. \E g \in granted : p[1] = g[1] /\ p[2] = g[2] /\ p[3] <= g[3]
      BY <3>1, <3>2 DEF Covered
    <3>4. p \in ApprovalIds \X Digests \X Nat
      BY <2>2, <3>2 DEF PostTransaction, At, OpOK, GateRecord
    <3>5. posted' = Append(posted, p) /\ granted' = granted
      BY <2>2, <3>2 DEF PostTransaction
    <3>6. ASSUME NEW i \in DOMAIN posted'
          PROVE  \E g \in granted' : /\ posted'[i][1] = g[1] /\ posted'[i][2] = g[2]
                                     /\ posted'[i][3] <= g[3]
      <4>1. CASE i = Len(posted) + 1
        <5>1. posted'[i] = p
          BY <3>4, <3>5, <4>1
        <5> QED BY <5>1, <3>3, <3>5
      <4>2. CASE i # Len(posted) + 1
        <5>1. i \in DOMAIN posted /\ posted'[i] = posted[i]
          BY <3>4, <3>5, <3>6, <4>2
        <5> QED BY <5>1, <3>5 DEF GrantOK, ApprovedBeforePosted
      <4> QED BY <4>1, <4>2
    <3> QED BY <3>6 DEF ApprovedBeforePosted
  <2>3. posted' = posted \/ \E c \in Commands : PostTransaction(c)
    BY DEF Next, OperatorStep, SubmitStep, WriteStep, ArmCreate, ArmWrite, RetireRead,
      ValidateRead, ApproveRead, BindRead, VerifyRead, VerifyFetch, InspectRead,
      GenesisAnswered, ReserveRead, PostAnswered, RecordRead,
      TempExists, TempOpen, WriteFails, Replace, Crash, Tick, OnlyCmd, vars
  <2> QED BY <2>1, <2>2, <2>3
<1> QED BY <1>3, <1>4, <1>5 DEF GrantOK

\* However many commands race, crash and put stale copies back, whatever is
\* sent to the chain was approved under its approval id and reserved before
\* the approval expired.
THEOREM ApprovedFirst == Spec => []ApprovedBeforePosted
<1>1. Init => AuditTable /\ FetchOK
  BY DEF Init, AuditTable, AuditRow, Idle, NoGate, FetchOK
<1>2. Init => LiveOK
  BY DEF Init, LiveOK, Live, Idle, NoGate
<1>3. Init => GrantOK
  BY DEF Init, GrantOK, Live, Idle, NoGate, ApprovedBeforePosted
<1>4. GrantOK => ApprovedBeforePosted
  BY DEF GrantOK
<1> QED BY <1>1, <1>2, <1>3, <1>4, TypeStart, TypeStep, FetchStep, AuditStep,
           LiveStep, GrantStep, PTL DEF Spec

-----------------------------------------------------------------------------
(* Nothing is verified that did not land.                                  *)

Backed(g, chain) == g.status = "FINALIZED_VERIFIED" => g.signature \in chain

\* The gate file, and whatever a command may still write over it.
VerifiedOK == Backed(gate, landed) /\ \A c \in Commands : Backed(cmd[c].copy, landed)

\* Of the writes, only verify_claim_receipt says that a claim is finalized.
LEMMA WritesBacked ==
  ASSUME NEW g \in GateRecord, NEW d, NEW a, NEW t, NEW s, NEW chain
  PROVE  /\ Backed(NoGate, chain) /\ Backed(Armed(t), chain)
         /\ Backed([NoGate EXCEPT !.status = "EMPTY"], chain)
         /\ Backed(Retired(g), chain) /\ Backed(Bound(g, d), chain)
         /\ Backed(Approved(g, a, d, t), chain)
         /\ Backed(Reserved(g, t), chain) /\ Backed(Recorded(g, s), chain)
         /\ g.signature \in chain => Backed(Verified(g), chain)
<1>1. /\ Backed(NoGate, chain) /\ Backed(Armed(t), chain)
      /\ Backed([NoGate EXCEPT !.status = "EMPTY"], chain)
  BY DEF Backed, NoGate, Armed
<1>2. Backed(Retired(g), chain) /\ Backed(Bound(g, d), chain)
  BY DEF Backed, Retired, Bound, GateRecord
<1>3. Backed(Approved(g, a, d, t), chain) /\ Backed(Reserved(g, t), chain)
  BY DEF Backed, Approved, Reserved, GateRecord
<1>4. Backed(Recorded(g, s), chain)
  BY DEF Backed, Recorded, GateRecord
<1>5. g.signature \in chain => Backed(Verified(g), chain)
  BY DEF Backed, Verified, GateRecord
<1> QED BY <1>1, <1>2, <1>3, <1>4, <1>5

\* Every step keeps it so: the chain only takes in more.
LEMMA VerifiedStep == TypeInv /\ VerifiedOK /\ [Next]_vars => VerifiedOK'
<1> SUFFICES ASSUME TypeInv, VerifiedOK, [Next]_vars PROVE VerifiedOK'
  OBVIOUS
<1> DEFINE Kept == /\ Backed(gate', landed)
                   /\ \A c \in Commands : Backed(cmd'[c].copy, landed)
<1> USE DEF TypeInv, TypeOK
<1>1. gate \in GateRecord /\ Backed(gate, landed)
  BY DEF VerifiedOK
<1>2. \A x \in Commands : cmd[x].copy \in GateRecord /\ Backed(cmd[x].copy, landed)
  BY DEF VerifiedOK, CmdOK, CmdRecord
<1>3. /\ Backed(NoGate, landed)
      /\ Backed([NoGate EXCEPT !.status = "EMPTY"], landed)
      /\ Backed(Armed(now), landed)
  BY <1>1, WritesBacked
<1>4. ASSUME NEW c \in Commands, OperatorStep(c) PROVE Kept
  <2>1. CASE ArmCreate(c)
    <3>1. Backed(gate', landed)
      BY <2>1, <1>3 DEF ArmCreate
    <3>2. \A x \in Commands : cmd'[x].copy \in {cmd[x].copy, Armed(now)}
      BY <2>1, ChangesCopy DEF ArmCreate
    <3> QED BY <3>1, <3>2, <1>2, <1>3
  <2>2. CASE ArmWrite(c)
    BY <2>2, <1>2, <1>3, ChangesCopy DEF ArmWrite
  <2>3. CASE RetireRead(c)
    <3>1. Backed(Retired(gate), landed)
      BY <1>1, <1>2, WritesBacked
    <3> QED BY <2>3, <3>1, <1>1, <1>2, <1>3, ChangesCopy DEF RetireRead, OnlyCmd
  <2>4. ASSUME NEW d \in Digests, ValidateRead(c, d) PROVE Kept
    BY <2>4, <1>1, <1>2, <1>3, ChangesCopy DEF ValidateRead, OnlyCmd
  <2>5. ASSUME NEW d \in Digests, ApproveRead(c, d) PROVE Kept
    <3>1. \A a : Backed(Approved(gate, a, d, now), landed)
      BY <1>1, <1>2, WritesBacked
    <3> QED BY <2>5, <3>1, <1>1, <1>2, <1>3, ChangesCopy DEF ApproveRead, OnlyCmd
  <2>6. CASE BindRead(c)
    <3>1. Backed(Bound(gate, cmd[c].digest), landed)
      BY <1>1, <1>2, WritesBacked
    <3> QED BY <2>6, <3>1, <1>1, <1>2, <1>3, ChangesCopy DEF BindRead, OnlyCmd
  <2>7. CASE VerifyRead(c)
    BY <2>7, <1>1, <1>2, ChangesCopy DEF VerifyRead, OnlyCmd
  <2>8. CASE VerifyFetch(c)
    <3>1. cmd[c].copy.signature \in landed => Backed(Verified(cmd[c].copy), landed)
      BY <1>1, <1>2, WritesBacked
    <3> QED BY <2>8, <3>1, <1>1, <1>2, <1>3, ChangesCopy DEF VerifyFetch, OnlyCmd
  <2> QED BY <1>4, <2>1, <2>2, <2>3, <2>4, <2>5, <2>6, <2>7, <2>8 DEF OperatorStep
<1>5. ASSUME NEW c \in Commands, SubmitStep(c) PROVE Kept
  <2>1. ASSUME NEW a \in ApprovalIds, NEW d \in Digests, InspectRead(c, a, d)
        PROVE  Kept
    BY <2>1, <1>1, <1>2, <1>3, ChangesCopy DEF InspectRead, OnlyCmd
  <2>2. CASE GenesisAnswered(c)
    BY <2>2, <1>1, <1>2, <1>3, ChangesCopy DEF GenesisAnswered, OnlyCmd
  <2>3. CASE ReserveRead(c)
    <3>1. Backed(Reserved(gate, now), landed)
      BY <1>1, <1>2, WritesBacked
    <3> QED BY <2>3, <3>1, <1>1, <1>2, <1>3, ChangesCopy DEF ReserveRead, OnlyCmd
  <2>4. CASE PostTransaction(c)
    BY <2>4, <1>1, <1>2, ChangesCopy DEF PostTransaction
  <2>5. CASE PostAnswered(c)
    BY <2>5, <1>1, <1>2 DEF PostAnswered, OnlyCmd, CmdOK, CmdRecord
  <2>6. CASE RecordRead(c)
    <3>1. \A s : Backed(Recorded(gate, s), landed)
      BY <1>1, <1>2, WritesBacked
    <3> QED BY <2>6, <3>1, <1>1, <1>2, <1>3, ChangesCopy DEF RecordRead, OnlyCmd
  <2> QED BY <1>5, <2>1, <2>2, <2>3, <2>4, <2>5, <2>6 DEF SubmitStep
<1>6. ASSUME NEW c \in Commands, WriteStep(c) PROVE Kept
  <2>1. CASE TempExists(c)
    BY <2>1, <1>1, <1>2, <1>3, ChangesCopy DEF TempExists, OnlyCmd
  <2>2. CASE TempOpen(c)
    BY <2>2, <1>1, <1>2, <1>3, ChangesCopy DEF TempOpen
  <2>3. CASE WriteFails(c)
    BY <2>3, <1>1, <1>2, <1>3, ChangesCopy DEF WriteFails, OnlyCmd
  <2>4. CASE Replace(c)
    BY <2>4, <1>2, <1>3, ChangesCopy DEF Replace
  <2>5. CASE Crash(c)
    BY <2>5, <1>1, <1>2, <1>3, ChangesCopy DEF Crash, OnlyCmd
  <2> QED BY <1>6, <2>1, <2>2, <2>3, <2>4, <2>5 DEF WriteStep
<1>7. ASSUME Tick PROVE Kept
  <2>1. gate' = gate /\ cmd' = cmd
    BY <1>7 DEF Tick
  <2> QED BY <2>1, <1>1, <1>2
<1>8. ASSUME UNCHANGED vars PROVE Kept
  <2>1. gate' = gate /\ cmd' = cmd
    BY <1>8 DEF vars
  <2> QED BY <2>1, <1>1, <1>2
<1>9. Kept
  <2> HIDE DEF Kept
  <2> QED BY <1>4, <1>5, <1>6, <1>7, <1>8 DEF Next
<1>10. landed \subseteq landed'
  BY DEF Next, OperatorStep, SubmitStep, WriteStep, ArmCreate, ArmWrite, RetireRead,
    ValidateRead, ApproveRead, BindRead, VerifyRead, VerifyFetch, InspectRead,
    GenesisAnswered, ReserveRead, PostTransaction, PostAnswered, RecordRead,
    TempExists, TempOpen, WriteFails, Replace, Crash, Tick, OnlyCmd, vars
<1> QED BY <1>9, <1>10 DEF VerifiedOK, Backed

\* However commands race, and whatever stale copies they write, the gate says
\* FINALIZED_VERIFIED only of a transaction that the chain took in.
THEOREM VerifiedLanded == Spec => []VerifiedMeansLanded
<1>1. Init => VerifiedOK
  BY DEF Init, VerifiedOK, Backed, Idle, NoGate
<1>2. VerifiedOK => VerifiedMeansLanded
  BY DEF VerifiedOK, Backed, VerifiedMeansLanded
<1> QED BY <1>1, <1>2, TypeStart, TypeStep, VerifiedStep, PTL DEF Spec

-----------------------------------------------------------------------------
(* One command at a time.                                                  *)

\* The only attempt is spent: reserved, or past that.
Spent(g) == g.attempts = 1 /\ g.status \in Consumed

\* A gate whose attempt is spent is not armed, retired, bound, approved or
\* reserved again, and what is written of it keeps the attempt spent.
LEMMA WritesSpent ==
  ASSUME NEW g \in GateRecord
  PROVE  /\ Spent(g) => /\ g.status # "ABSENT" /\ ~ MayRetire(g)
                        /\ \A t : ~ MayBind(g, t)
                        /\ \A d, t : ~ MayApprove(g, d, t)
                        /\ \A a, d, t : ~ MayReserve(g, a, d, t)
         /\ \A t : Spent(Reserved(g, t))
         /\ \A s : MayRecord(g) => Spent(Recorded(g, s))
         /\ Spent(g) => Spent(Verified(g))
<1> USE DEF GateRecord, Spent, Consumed
<1>1. Spent(g) => /\ g.status # "ABSENT" /\ ~ MayRetire(g)
                  /\ \A t : ~ MayBind(g, t)
                  /\ \A d, t : ~ MayApprove(g, d, t)
                  /\ \A a, d, t : ~ MayReserve(g, a, d, t)
  BY DEF MayRetire, MayBind, MayApprove, MayReserve
<1>2. \A t : Spent(Reserved(g, t))
  BY DEF Reserved
<1>3. ASSUME NEW s, MayRecord(g) PROVE Spent(Recorded(g, s))
  BY <1>3 DEF MayRecord, Recorded
<1>4. Spent(g) => Spent(Verified(g))
  BY DEF Verified
<1> QED BY <1>1, <1>2, <1>3, <1>4

\* What a command n is about to write to a gate g spends the attempt, or keeps
\* it spent, once a submission is posted; and what it is about to post is the
\* first.
Careful(n, g, sends) ==
  /\ /\ n.step \in {"write", "exists", "open", "replace", "fetch"}
     /\ sends # <<>> \/ n.op = "submit"
     => Spent(n.copy)
  /\ n.op = "submit" /\ n.step \in {"exists", "open", "replace"} => sends = <<>>
  /\ n.op = "submit" /\ n.step = "post" => sends = <<>> /\ Spent(g)

SerialInvariant ==
  /\ \A c, d \in Running : c = d
  /\ posted # <<>> => Spent(gate)
  /\ Len(posted) <= 1
  /\ \A c \in Commands : Careful(cmd[c], gate, posted)

\* What one step may do to the command c that takes it, while no other runs.
StepKeeps(c) ==
  /\ posted' # <<>> => Spent(gate')
  /\ Len(posted') <= 1
  /\ Careful(cmd'[c], gate', posted')

\* A command that ends, moves on without writing, or decides what to write of
\* a gate it may write, is careful.
LEMMA MovesCareful ==
  ASSUME TypeInv, SerialInvariant, NEW c \in Commands,
         UNCHANGED <<gate, posted>>
  PROVE  /\ End(c) => StepKeeps(c)
         /\ \A step \in {"read", "genesis", "waiting", "idle"} :
              Goto(c, step) => StepKeeps(c)
         /\ \A g : /\ Decide(c, g)
                   /\ posted # <<>> \/ cmd[c].op = "submit" => Spent(g)
                   /\ cmd[c].op = "submit" => posted = <<>>
                   => StepKeeps(c)
         /\ \A op, step, d, a, g :
              /\ Begin(c, op, step, d, a, g)
              /\ (step # "post" /\ op # "submit") \/ step = "genesis"
              /\ (step # "genesis" /\ posted # <<>>) => (Spent(g) \/ step = "read")
              => StepKeeps(c)
<1> USE DEF TypeInv, CmdOK, CmdRecord
<1>0. /\ posted' # <<>> => Spent(gate')
      /\ Len(posted') <= 1
  BY DEF SerialInvariant
<1>1. ASSUME End(c) PROVE StepKeeps(c)
  <2>1. cmd'[c].step = "idle"
    BY <1>1 DEF End, Idle
  <2> QED BY <1>0, <2>1 DEF StepKeeps, Careful
<1>2. ASSUME NEW step \in {"read", "genesis", "waiting", "idle"}, Goto(c, step)
      PROVE  StepKeeps(c)
  <2>1. cmd'[c].step = step
    BY <1>2 DEF Goto
  <2> QED BY <1>0, <2>1 DEF StepKeeps, Careful
<1>3. ASSUME NEW g, Decide(c, g),
             posted # <<>> \/ cmd[c].op = "submit" => Spent(g),
             cmd[c].op = "submit" => posted = <<>>
      PROVE  StepKeeps(c)
  <2>1. cmd'[c].step = "exists" /\ cmd'[c].copy = g /\ cmd'[c].op = cmd[c].op
    BY <1>3 DEF Decide
  <2> QED BY <1>0, <1>3, <2>1 DEF StepKeeps, Careful
<1>4. ASSUME NEW op, NEW step, NEW d, NEW a, NEW g,
             Begin(c, op, step, d, a, g),
             (step # "post" /\ op # "submit") \/ step = "genesis",
             (step # "genesis" /\ posted # <<>>) => (Spent(g) \/ step = "read")
      PROVE  StepKeeps(c)
  <2>1. cmd'[c].step = step /\ cmd'[c].copy = g /\ cmd'[c].op = op
    BY <1>4 DEF Begin
  <2> QED BY <1>0, <1>4, <2>1 DEF StepKeeps, Careful
<1> QED BY <1>1, <1>2, <1>3, <1>4

\* An operator's command finds the attempt unspent, or keeps it spent.
LEMMA OperatorSerial ==
  ASSUME TypeInv, SerialInvariant, NEW c \in Commands, OperatorStep(c)
  PROVE  StepKeeps(c)
<1> USE DEF TypeInv, TypeOK, CmdOK, CmdRecord, OnlyCmd
<1>0. /\ posted # <<>> => Spent(gate)
      /\ Len(posted) <= 1 /\ gate \in GateRecord /\ Careful(cmd[c], gate, posted)
      /\ cmd[c] \in CmdRecord
  BY DEF SerialInvariant
<1>1. CASE ArmCreate(c)
  <2>1. /\ cmd'[c].step = "write" /\ cmd'[c].op = "arm" /\ posted' = posted
    BY <1>1 DEF ArmCreate, Begin
  <2>2. posted = <<>>
    BY <1>0, <1>1, WritesSpent DEF ArmCreate
  <2> QED BY <1>0, <2>1, <2>2 DEF StepKeeps, Careful
<1>2. CASE ArmWrite(c)
  <2>1. /\ cmd[c].step = "write" /\ gate' = cmd[c].copy /\ posted' = posted
        /\ cmd'[c].step = "idle"
    BY <1>2 DEF ArmWrite, At, End, Idle
  <2> QED BY <1>0, <2>1 DEF StepKeeps, Careful
<1>3. CASE RetireRead(c)
  <2>1. /\ cmd'[c].step = "exists" /\ cmd'[c].op = "retire"
        /\ posted' = posted /\ gate' = gate
    BY <1>3 DEF RetireRead, Begin
  <2>2. posted = <<>>
    BY <1>0, <1>3, WritesSpent DEF RetireRead
  <2> QED BY <1>0, <2>1, <2>2 DEF StepKeeps, Careful
<1>4. ASSUME NEW d \in Digests, ValidateRead(c, d) PROVE StepKeeps(c)
  <2>1. cmd'[c].step = "read" /\ posted' = posted /\ gate' = gate
    BY <1>4 DEF ValidateRead, Begin
  <2> QED BY <1>0, <2>1 DEF StepKeeps, Careful
<1>5. CASE BindRead(c)
  <2>1. posted' = posted /\ gate' = gate /\ cmd[c].op = "bind"
    BY <1>5 DEF BindRead, At
  <2>2. CASE End(c)
    BY <1>0, <2>1, <2>2, MovesCareful
  <2>3. CASE ~ End(c)
    <3>1. /\ MayBind(gate, now)
          /\ cmd' = [cmd EXCEPT ![c].step = "exists",
                                ![c].copy = Bound(gate, cmd[c].digest)]
      BY <1>5, <2>3 DEF BindRead, Decide
    <3>2. cmd'[c].step = "exists" /\ cmd'[c].op = "bind"
      BY <2>1, <3>1
    <3>3. posted = <<>>
      BY <1>0, <3>1, WritesSpent
    <3> QED BY <1>0, <2>1, <3>2, <3>3 DEF StepKeeps, Careful
  <2> QED BY <2>2, <2>3
<1>6. ASSUME NEW d \in Digests, ApproveRead(c, d) PROVE StepKeeps(c)
  <2>1. /\ MayApprove(gate, d, now) /\ posted' = posted /\ gate' = gate
        /\ cmd'[c].step = "exists" /\ cmd'[c].op = "approve"
    BY <1>6 DEF ApproveRead, Begin
  <2>2. posted = <<>>
    BY <1>0, <2>1, WritesSpent
  <2> QED BY <1>0, <2>1, <2>2 DEF StepKeeps, Careful
<1>7. CASE VerifyRead(c)
  <2>1. /\ cmd'[c].step = "fetch" /\ cmd'[c].op = "verify" /\ cmd'[c].copy = gate
        /\ posted' = posted /\ gate' = gate
    BY <1>7 DEF VerifyRead, Begin
  <2> QED BY <1>0, <2>1 DEF StepKeeps, Careful
<1>8. CASE VerifyFetch(c)
  <2>1. /\ posted' = posted /\ gate' = gate /\ cmd[c].op = "verify"
        /\ cmd[c].step = "fetch" /\ cmd[c].copy \in GateRecord
    BY <1>8 DEF VerifyFetch, At
  <2>2. CASE End(c)
    BY <2>1, <2>2, MovesCareful
  <2>3. CASE Decide(c, Verified(cmd[c].copy))
    <3>1. /\ cmd'[c].step = "exists" /\ cmd'[c].op = "verify"
          /\ cmd'[c].copy = Verified(cmd[c].copy)
      BY <2>1, <2>3 DEF Decide
    <3>2. posted # <<>> => Spent(Verified(cmd[c].copy))
      BY <1>0, <2>1, WritesSpent DEF Careful
    <3> QED BY <1>0, <2>1, <3>1, <3>2 DEF StepKeeps, Careful
  <2> QED BY <1>8, <2>2, <2>3 DEF VerifyFetch
<1> QED BY <1>1, <1>2, <1>3, <1>4, <1>5, <1>6, <1>7, <1>8 DEF OperatorStep

\* A submission reserves the unspent attempt before it posts, and records its
\* result on the gate that has it spent.
LEMMA SubmitSerial ==
  ASSUME TypeInv, SerialInvariant, NEW c \in Commands, SubmitStep(c)
  PROVE  StepKeeps(c)
<1> USE DEF TypeInv, TypeOK, CmdOK, CmdRecord, OnlyCmd
<1>0. /\ posted # <<>> => Spent(gate)
      /\ Len(posted) <= 1 /\ gate \in GateRecord /\ Careful(cmd[c], gate, posted)
      /\ cmd[c] \in CmdRecord
  BY DEF SerialInvariant
<1>1. ASSUME NEW a \in ApprovalIds, NEW d \in Digests, InspectRead(c, a, d)
      PROVE  StepKeeps(c)
  <2>1. cmd'[c].step = "genesis" /\ posted' = posted /\ gate' = gate
    BY <1>1 DEF InspectRead, Begin
  <2> QED BY <1>0, <2>1 DEF StepKeeps, Careful
<1>2. CASE GenesisAnswered(c)
  BY <1>2, MovesCareful DEF GenesisAnswered
<1>3. CASE ReserveRead(c)
  <2>1. posted' = posted /\ gate' = gate /\ cmd[c].op = "submit"
    BY <1>3 DEF ReserveRead, At
  <2>2. CASE End(c)
    BY <2>1, <2>2, MovesCareful
  <2>3. CASE ~ End(c)
    <3>1. /\ MayReserve(gate, cmd[c].approval, cmd[c].digest, now)
          /\ cmd' = [cmd EXCEPT ![c].step = "exists", ![c].copy = Reserved(gate, now)]
      BY <1>3, <2>3 DEF ReserveRead, Decide
    <3>2. /\ cmd'[c].step = "exists" /\ cmd'[c].op = "submit"
          /\ cmd'[c].copy = Reserved(gate, now)
      BY <2>1, <3>1
    <3>3. posted = <<>> /\ Spent(Reserved(gate, now))
      BY <1>0, <3>1, WritesSpent
    <3> QED BY <1>0, <2>1, <3>2, <3>3 DEF StepKeeps, Careful
  <2> QED BY <2>2, <2>3
<1>4. CASE PostTransaction(c)
  <2>1. /\ gate' = gate /\ cmd[c].op = "submit" /\ cmd[c].step = "post"
        /\ cmd'[c].step = "waiting"
    BY <1>4 DEF PostTransaction, At, Goto
  <2>2. posted = <<>> /\ Spent(gate)
    BY <1>0, <2>1 DEF Careful
  <2>3. Len(posted') = Len(posted) + 1
    BY <1>4 DEF PostTransaction
  <2>4. Len(posted') = 1
    BY <2>2, <2>3
  <2> QED BY <2>1, <2>2, <2>4 DEF StepKeeps, Careful
<1>5. CASE PostAnswered(c)
  <2>1. /\ posted' = posted /\ gate' = gate /\ cmd'[c].step = "read"
    BY <1>5 DEF PostAnswered
  <2> QED BY <1>0, <2>1 DEF StepKeeps, Careful
<1>6. CASE RecordRead(c)
  <2>1. posted' = posted /\ gate' = gate /\ cmd[c].op # "submit"
    BY <1>6 DEF RecordRead, Recording
  <2>2. CASE End(c)
    BY <2>1, <2>2, MovesCareful
  <2>3. CASE ~ End(c)
    <3>1. PICK s : /\ MayRecord(gate)
                   /\ cmd' = [cmd EXCEPT ![c].step = "exists", ![c].copy = Recorded(gate, s)]
      BY <1>6, <2>3 DEF RecordRead, Decide
    <3>2. /\ cmd'[c].step = "exists" /\ cmd'[c].op = cmd[c].op
          /\ cmd'[c].copy = Recorded(gate, s)
      BY <3>1
    <3>3. Spent(Recorded(gate, s))
      BY <1>0, <3>1, WritesSpent
    <3> QED BY <1>0, <2>1, <3>2, <3>3 DEF StepKeeps, Careful
  <2> QED BY <2>2, <2>3
<1> QED BY <1>1, <1>2, <1>3, <1>4, <1>5, <1>6 DEF SubmitStep

\* A write puts the copy in place, or ends.
LEMMA WriteSerial ==
  ASSUME TypeInv, SerialInvariant, NEW c \in Commands, WriteStep(c)
  PROVE  StepKeeps(c)
<1> USE DEF TypeInv, TypeOK, CmdOK, CmdRecord, OnlyCmd
<1>0. /\ posted # <<>> => Spent(gate)
      /\ Len(posted) <= 1 /\ gate \in GateRecord /\ Careful(cmd[c], gate, posted)
      /\ cmd[c] \in CmdRecord
  BY DEF SerialInvariant
<1>1. ASSUME OtherException(c), UNCHANGED <<gate, posted>> PROVE StepKeeps(c)
  <2>1. CASE End(c)
    BY <1>1, <2>1, MovesCareful
  <2>2. CASE ~ End(c)
    <3>1. cmd'[c].step = "read"
      BY <1>1, <2>2 DEF OtherException
    <3> QED BY <1>0, <1>1, <3>1 DEF StepKeeps, Careful
  <2> QED BY <2>1, <2>2
<1>2. ASSUME NEW step \in {"open", "replace"}, Goto(c, step),
             cmd[c].step \in {"exists", "open"}, UNCHANGED <<gate, posted>>
      PROVE  StepKeeps(c)
  <2>1. /\ cmd'[c].step = step /\ cmd'[c].op = cmd[c].op /\ cmd'[c].copy = cmd[c].copy
    BY <1>2 DEF Goto
  <2> QED BY <1>0, <1>2, <2>1 DEF StepKeeps, Careful
<1>3. CASE TempExists(c)
  BY <1>2, <1>3, MovesCareful DEF TempExists
<1>4. CASE TempOpen(c)
  BY <1>1, <1>2, <1>4 DEF TempOpen
<1>5. CASE WriteFails(c)
  BY <1>1, <1>5 DEF WriteFails
<1>6. CASE Replace(c)
  <2>1. posted' = posted /\ gate' = cmd[c].copy /\ cmd[c].step = "replace"
    BY <1>6 DEF Replace
  <2>2. CASE cmd[c].op = "submit"
    <3>1. cmd'[c].step = "post"
      BY <1>6, <2>2 DEF Replace, Goto
    <3> QED BY <1>0, <2>1, <2>2, <3>1 DEF StepKeeps, Careful
  <2>3. CASE cmd[c].op # "submit"
    <3>1. cmd'[c].step = "idle"
      BY <1>6, <2>3 DEF Replace, End, Idle
    <3> QED BY <1>0, <2>1, <3>1 DEF StepKeeps, Careful
  <2> QED BY <2>2, <2>3
<1>7. CASE Crash(c)
  BY <1>7, MovesCareful DEF Crash
<1> QED BY <1>3, <1>4, <1>5, <1>6, <1>7 DEF WriteStep

\* Only the command that takes a step changes, and it runs before or after.
LEMMA OneMoves ==
  ASSUME TypeInv, NEW c \in Commands, OperatorStep(c) \/ SubmitStep(c) \/ WriteStep(c)
  PROVE  /\ \A x \in Commands \ {c} : cmd'[x] = cmd[x]
         /\ c \in Running \/ c \in Running'
<1> USE DEF TypeInv, CmdOK, CmdRecord
<1>1. \A x \in Commands \ {c} : cmd'[x] = cmd[x]
  BY DEF OperatorStep, SubmitStep, WriteStep, ArmCreate, ArmWrite, RetireRead,
     ValidateRead, ApproveRead, BindRead, VerifyRead, VerifyFetch, InspectRead,
     GenesisAnswered, ReserveRead, PostTransaction, PostAnswered, RecordRead, TempExists,
     TempOpen, WriteFails, Replace, Crash, Begin, Goto, End, Decide, OtherException
<1>2. ASSUME NEW op, NEW step, NEW d, NEW a, NEW g, Begin(c, op, step, d, a, g),
             step # "idle"
      PROVE  c \in Running'
  BY <1>2 DEF Begin, Running, Idle
<1>3. ASSUME cmd[c].step # "idle" PROVE c \in Running
  BY <1>3 DEF Running, Idle
<1>4. ASSUME OperatorStep(c) PROVE c \in Running \/ c \in Running'
  <2>1. CASE ArmCreate(c) \/ RetireRead(c) \/ VerifyRead(c)
    BY <1>2, <2>1 DEF ArmCreate, RetireRead, VerifyRead
  <2>2. CASE ArmWrite(c) \/ BindRead(c) \/ VerifyFetch(c)
    BY <1>3, <2>2 DEF ArmWrite, BindRead, VerifyFetch, At
  <2>3. ASSUME NEW d \in Digests, ValidateRead(c, d) \/ ApproveRead(c, d)
        PROVE  c \in Running'
    <3>1. cmd'[c].step # "idle"
      BY <2>3 DEF ValidateRead, ApproveRead, Begin
    <3> QED BY <3>1 DEF Running, Idle
  <2> QED BY <1>4, <2>1, <2>2, <2>3 DEF OperatorStep
<1>5. ASSUME SubmitStep(c) PROVE c \in Running \/ c \in Running'
  <2>1. ASSUME NEW a \in ApprovalIds, NEW d \in Digests, InspectRead(c, a, d)
        PROVE  c \in Running'
    BY <1>2, <2>1 DEF InspectRead
  <2> QED BY <1>3, <1>5, <2>1 DEF SubmitStep, GenesisAnswered, ReserveRead, PostTransaction,
             PostAnswered, RecordRead, At
<1>6. ASSUME WriteStep(c) PROVE c \in Running
  BY <1>3, <1>6 DEF WriteStep, TempExists, TempOpen, WriteFails, Replace, Crash, Running
<1> QED BY <1>1, <1>4, <1>5, <1>6

\* While no two commands run at once every step keeps the invariant of this
\* part: who runs alone is careful, and who does not run has nothing to write.
LEMMA SerialStep ==
  ASSUME TypeInv, SerialInvariant, [Next]_vars, ~ overlapped'
  PROVE  SerialInvariant'
<1> USE DEF Running
<1>1. \A c, d \in Running' : c = d
  <2>1. CASE Next
    BY <2>1 DEF Next
  <2>2. CASE UNCHANGED vars
    BY <2>2 DEF vars, SerialInvariant
  <2> QED BY <2>1, <2>2
<1>2. CASE Tick \/ UNCHANGED vars
  <2>1. UNCHANGED <<cmd, gate, posted>>
    BY <1>2 DEF Tick, vars
  <2> QED BY <1>1, <2>1 DEF SerialInvariant, Careful, Spent
<1>3. ASSUME NEW c \in Commands, OperatorStep(c) \/ SubmitStep(c) \/ WriteStep(c)
      PROVE  SerialInvariant'
  <2>1. StepKeeps(c)
    BY <1>3, OperatorSerial, SubmitSerial, WriteSerial
  <2>2. ASSUME NEW x \in Commands, x # c PROVE cmd'[x] = Idle
    BY <1>1, <1>3, <2>2, OneMoves DEF SerialInvariant
  <2>3. \A x \in Commands : x # c => Careful(cmd'[x], gate', posted')
    BY <2>2 DEF Careful, Idle
  <2> QED BY <1>1, <2>1, <2>3 DEF SerialInvariant, StepKeeps
<1> QED BY <1>2, <1>3 DEF Next

\* As long as commands run one at a time the invariant of this part holds.
LEMMA SerialHolds == Spec => [](overlapped \/ SerialInvariant)
<1>1. Init => SerialInvariant
  BY DEF Init, SerialInvariant, Running, Careful, Idle
<1>2. TypeInv /\ (overlapped \/ SerialInvariant) /\ [Next]_vars
        => (overlapped \/ SerialInvariant)'
  <2>1. ASSUME overlapped, [Next]_vars PROVE overlapped'
    BY <2>1, Zenon DEF Next, vars
  <2> QED BY <2>1, SerialStep
<1> QED BY <1>1, <1>2, TypeStart, TypeStep, PTL DEF Spec

\* As long as commands run one at a time, one sendTransaction is made at most,
\* whatever command crashes, fails to write, or is run again.
THEOREM SubmittedOnce == Spec => []OneSubmissionAlone
<1>1. overlapped \/ SerialInvariant => OneSubmissionAlone
  BY DEF SerialInvariant, OneSubmissionAlone, OneSubmission
<1> QED BY <1>1, SerialHolds, PTL

\* ... and the gate keeps its attempt spent once it is made.
THEOREM SpentForGood == Spec => []AttemptStaysSpentAlone
<1>1. overlapped \/ SerialInvariant => AttemptStaysSpentAlone
  BY DEF SerialInvariant, AttemptStaysSpentAlone, AttemptStaysSpent, Spent
<1> QED BY <1>1, SerialHolds, PTL
=============================================================================
