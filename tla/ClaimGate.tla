----------------------------- MODULE ClaimGate -----------------------------
(***************************************************************************)
(* The gate of one referral-fee claim (application/jupiter_claim_v2_*.py): *)
(* a JSON file that command-line tools read, decide on and replace.  A     *)
(* command is a process whose program counter stands between two of its    *)
(* effects on the outside world: a read of the gate, a step of the write   *)
(* of the gate, an RPC call.  The file has no lock, so that the steps of   *)
(* two commands may interleave, and a command may stop for good at any     *)
(* step (Crash).                                                           *)
(*                                                                         *)
(* One gate file is modelled.  gate_id and the bindings to the closure     *)
(* (hashes, mint, accounts, amounts) are written once, by arm, and never   *)
(* change: every check of them passes, and none is a field here.           *)
(***************************************************************************)
EXTENDS Integers, Sequences

CONSTANTS
  Commands,      \* commands that may run at once
  Digests,       \* sha256 of a wallet-signed transaction
  ApprovalIds,   \* random names of live approvals
  None,          \* a field not written yet
  GateTtl,       \* GATE_TTL_SECONDS
  ApprovalTtl,   \* APPROVAL_TTL_SECONDS
  MaxTime        \* the model's bound on the clock

ASSUME ClaimAssumption ==
  /\ GateTtl \in Nat /\ ApprovalTtl \in Nat /\ MaxTime \in Nat
  /\ None \notin Digests /\ None \notin ApprovalIds

VARIABLES
  now,       \* the clock
  gate,      \* the gate file
  gateTemp,  \* whether the temporary file beside it exists
  cmd,       \* the state of each command
  drawn,     \* approval ids drawn so far
  granted,   \* <<approval, digest, expiry>> of each approval written
  posted,    \* <<approval, digest, time reserved>> of each sendTransaction
  landed,    \* digests of transactions that the chain took in
  overlapped \* history: two commands ran at once

vars == <<now, gate, gateTemp, cmd, drawn, granted, posted, landed, overlapped>>

-----------------------------------------------------------------------------
(* The file.                                                               *)

Consumed == {"SUBMISSION_PENDING", "FINALIZATION_PENDING", "FAILED",
             "FINALIZED_VERIFIED"}
Status == {"ABSENT", "EMPTY", "ARMED", "JIT_HANDOFF_RETIRED",
           "WALLET_APPROVAL_BOUND", "LIVE_CLAIM_APPROVED"} \cup Consumed

GateRecord ==
  [status : Status, signed : Digests \cup {None}, reviews : {0, 1},
   approvals : {0, 1}, attempts : {0, 1}, approval : ApprovalIds \cup {None},
   approved : Digests \cup {None}, permitted : BOOLEAN, live : BOOLEAN,
   submitted : BOOLEAN, signature : Digests \cup {None},
   expires : Nat, approvalExpires : Nat, reservedAt : Nat]

NoGate ==
  [status |-> "ABSENT", signed |-> None, reviews |-> 0, approvals |-> 0,
   attempts |-> 0, approval |-> None, approved |-> None, permitted |-> FALSE,
   live |-> FALSE, submitted |-> FALSE, signature |-> None,
   expires |-> 0, approvalExpires |-> 0, reservedAt |-> 0]

Armed(t) == [NoGate EXCEPT !.status = "ARMED", !.expires = t + GateTtl]

\* require_armed_claim_gate
ArmedUnused(g, t) ==
  /\ g.status = "ARMED" /\ t <= g.expires
  /\ g.reviews = 0 /\ g.attempts = 0 /\ g.approvals = 0 /\ g.signed = None
  /\ ~g.permitted /\ ~g.submitted /\ ~g.live

\* bind_wallet_approval
MayBind(g, t) == t <= g.expires /\ g.status = "ARMED" /\ g.reviews = 0
Bound(g, d) ==
  [g EXCEPT !.status = "WALLET_APPROVAL_BOUND", !.signed = d, !.reviews = 1,
            !.approvals = 0, !.permitted = FALSE, !.submitted = FALSE,
            !.live = FALSE]

\* approve_live_claim
MayApprove(g, d, t) ==
  /\ g.status = "WALLET_APPROVAL_BOUND" /\ t <= g.expires /\ g.signed = d
  /\ g.reviews = 1 /\ g.attempts = 0 /\ ~g.submitted /\ g.approvals = 0
Earlier(a, b) == IF a <= b THEN a ELSE b
Approved(g, a, d, t) ==
  [g EXCEPT !.status = "LIVE_CLAIM_APPROVED", !.approval = a, !.approvals = 1,
            !.approved = d, !.permitted = TRUE, !.live = TRUE,
            !.approvalExpires = Earlier(g.expires, t + ApprovalTtl)]

\* inspect_execution_boundary, then reserve_submission
Submittable(g, a, d, t) ==
  /\ g.status = "LIVE_CLAIM_APPROVED" /\ t <= g.expires /\ t <= g.approvalExpires
  /\ g.approval = a /\ g.signed = d /\ g.approved = d
  /\ g.approvals = 1 /\ g.reviews = 1 /\ g.attempts = 0
  /\ g.permitted /\ ~g.submitted
\* Mutant: the windows, checked before the RPC was asked, are not again.
MayReserveLate(g, a, d, t) ==
  /\ g.status = "LIVE_CLAIM_APPROVED" /\ g.signed = d /\ g.attempts = 0
  /\ g.permitted /\ g.live /\ g.approval = a /\ g.approved = d
MayReserve(g, a, d, t) ==
  /\ g.status \in {"WALLET_APPROVAL_BOUND", "LIVE_CLAIM_APPROVED"}
  /\ t <= g.expires /\ g.signed = d
  /\ g.reviews = 1 /\ g.attempts = 0 /\ ~g.submitted
  /\ g.permitted /\ g.live /\ g.approval = a /\ g.approved = d
  /\ g.approvals = 1 /\ t <= g.approvalExpires
\* Mutant: the attempt is counted only when its result is recorded.
ReservedUncounted(g, t) == [g EXCEPT !.reservedAt = t]
Reserved(g, t) ==
  [g EXCEPT !.status = "SUBMISSION_PENDING", !.attempts = 1,
            !.permitted = FALSE, !.submitted = FALSE, !.reservedAt = t]

\* record_submission_result: with a signature, or with a failure reason.
MayRecord(g) == g.status = "SUBMISSION_PENDING" /\ g.attempts = 1
\* Mutant: the provider's own word is taken for the gate's status.
RecordedVerbatim(g, signature) ==
  [g EXCEPT !.status = IF signature = None THEN "Failed" ELSE "Success"]
\* Mutant: a failure gives the approval back.
RecordedPermitted(g, signature) ==
  [g EXCEPT !.status = IF signature = None THEN "LIVE_CLAIM_APPROVED"
                                           ELSE "FINALIZATION_PENDING",
            !.signature = signature, !.submitted = signature # None,
            !.permitted = signature = None]
Recorded(g, signature) ==
  [g EXCEPT !.status = IF signature = None THEN "FAILED" ELSE "FINALIZATION_PENDING",
            !.signature = IF signature = None THEN @ ELSE signature,
            !.submitted = signature # None,
            !.permitted = FALSE, !.live = FALSE]

\* verify_claim_receipt
MayVerify(g) == g.status = "FINALIZATION_PENDING" /\ g.submitted
Verified(g) == [g EXCEPT !.status = "FINALIZED_VERIFIED"]

\* prepare_jit_handoff, when the blockhash was not attested.
MayRetire(g) == g.status = "ARMED" /\ g.approvals = 0 /\ g.attempts = 0
Retired(g) ==
  [g EXCEPT !.status = "JIT_HANDOFF_RETIRED", !.permitted = FALSE, !.live = FALSE]

-----------------------------------------------------------------------------
(* Commands.                                                               *)

Ops == {"none", "arm", "retire", "bind", "approve", "submit",
        "recordSuccess", "recordFailure", "recordUnavailable", "verify"}
Steps == {"idle", "write", "read", "genesis", "fetch",
          "exists", "open", "replace", "post", "waiting"}

CmdRecord ==
  [op : Ops, step : Steps, digest : Digests \cup {None},
   approval : ApprovalIds \cup {None}, copy : GateRecord]

Idle == [op |-> "none", step |-> "idle", digest |-> None, approval |-> None,
         copy |-> NoGate]

TypeOK ==
  /\ now \in Nat
  /\ gate \in GateRecord
  /\ gateTemp \in BOOLEAN
  /\ cmd \in [Commands -> CmdRecord]
  /\ drawn \subseteq ApprovalIds
  /\ granted \subseteq ApprovalIds \X Digests \X Nat
  /\ posted \in Seq(ApprovalIds \X Digests \X Nat)
  /\ landed \subseteq Digests
  /\ overlapped \in BOOLEAN

Init ==
  /\ now = 0
  /\ gate = NoGate
  /\ gateTemp = FALSE
  /\ cmd = [c \in Commands |-> Idle]
  /\ drawn = {}
  /\ granted = {}
  /\ posted = <<>>
  /\ landed = {}
  /\ overlapped = FALSE

At(c, op, step) == cmd[c].op = op /\ cmd[c].step = step
Goto(c, step)   == cmd' = [cmd EXCEPT ![c].step = step]
End(c)          == cmd' = [cmd EXCEPT ![c] = Idle]
Begin(c, op, step, d, a, g) ==
  /\ cmd[c] = Idle
  /\ cmd' = [cmd EXCEPT ![c] = [op |-> op, step |-> step, digest |-> d,
                                approval |-> a, copy |-> g]]
\* The decision is taken: g is what the command now sets out to write.
Decide(c, g) == cmd' = [cmd EXCEPT ![c].step = "exists", ![c].copy = g]

OnlyCmd == UNCHANGED <<now, gate, gateTemp, granted, posted, landed>>

\* arm_claim_gate creates the file exclusively and then writes it.
ArmCreate(c) ==
  /\ gate.status = "ABSENT"
  /\ gate' = [NoGate EXCEPT !.status = "EMPTY"]
  /\ Begin(c, "arm", "write", None, None, Armed(now))
  /\ UNCHANGED <<now, gateTemp, drawn, granted, posted, landed>>

ArmWrite(c) ==
  /\ At(c, "arm", "write")
  /\ gate' = cmd[c].copy
  /\ End(c)
  /\ UNCHANGED <<now, gateTemp, drawn, granted, posted, landed>>

RetireRead(c) ==
  /\ MayRetire(gate)
  /\ Begin(c, "retire", "exists", None, None, Retired(gate))
  /\ OnlyCmd /\ UNCHANGED drawn

\* validate_wallet_signed_claim: require_armed_claim_gate reads the gate ...
ValidateRead(c, d) ==
  /\ ArmedUnused(gate, now)
  /\ Begin(c, "bind", "read", d, None, NoGate)
  /\ OnlyCmd /\ UNCHANGED drawn

\* ... and bind_wallet_approval reads it again.
BindRead(c) ==
  /\ At(c, "bind", "read")
  /\ IF MayBind(gate, now) THEN Decide(c, Bound(gate, cmd[c].digest)) ELSE End(c)
  /\ OnlyCmd /\ UNCHANGED drawn

ApproveRead(c, d) ==
  /\ MayApprove(gate, d, now)
  /\ \E a \in ApprovalIds \ drawn :
       /\ drawn' = drawn \cup {a}
       /\ Begin(c, "approve", "exists", d, a, Approved(gate, a, d, now))
  /\ OnlyCmd

\* execute_controlled_claim: inspect, ask the RPC for the genesis, submit.
InspectRead(c, a, d) ==
  /\ Submittable(gate, a, d, now)
  /\ Begin(c, "submit", "genesis", d, a, NoGate)
  /\ OnlyCmd /\ UNCHANGED drawn

GenesisAnswered(c) ==
  /\ At(c, "submit", "genesis")
  /\ Goto(c, "read") \/ End(c)
  /\ OnlyCmd /\ UNCHANGED drawn

ReserveRead(c) ==
  /\ At(c, "submit", "read")
  /\ IF MayReserve(gate, cmd[c].approval, cmd[c].digest, now)
       THEN Decide(c, Reserved(gate, now))
       ELSE End(c)
  /\ OnlyCmd /\ UNCHANGED drawn

\* sendTransaction leaves; the chain may take the transaction in.
PostTransaction(c) ==
  /\ At(c, "submit", "post")
  /\ posted' = Append(posted,
       <<cmd[c].approval, cmd[c].digest, cmd[c].copy.reservedAt>>)
  /\ landed' \in {landed, landed \cup {cmd[c].digest}}
  /\ Goto(c, "waiting")
  /\ UNCHANGED <<now, gate, gateTemp, drawn, granted>>

\* A signature; an HTTP error or an invalid or refusing answer; or none.
PostAnswered(c) ==
  /\ At(c, "submit", "waiting")
  /\ \E op \in {"recordSuccess", "recordFailure", "recordUnavailable"} :
       cmd' = [cmd EXCEPT ![c].op = op, ![c].step = "read"]
  /\ OnlyCmd /\ UNCHANGED drawn

Recording(c) ==
  cmd[c].op \in {"recordSuccess", "recordFailure", "recordUnavailable"}

RecordRead(c) ==
  /\ Recording(c) /\ cmd[c].step = "read"
  /\ IF MayRecord(gate)
       THEN Decide(c, Recorded(gate, IF cmd[c].op = "recordSuccess"
                                       THEN cmd[c].digest ELSE None))
       ELSE End(c)
  /\ OnlyCmd /\ UNCHANGED drawn

VerifyRead(c) ==
  /\ MayVerify(gate)
  /\ Begin(c, "verify", "fetch", None, None, gate)
  /\ OnlyCmd /\ UNCHANGED drawn

\* Mutant: a transaction that is not found counts as finalized.
VerifyFetchAny(c) ==
  /\ At(c, "verify", "fetch")
  /\ Decide(c, Verified(cmd[c].copy)) \/ End(c)
  /\ OnlyCmd /\ UNCHANGED drawn

\* getTransaction: finalized with the exact balances, or not (yet).
VerifyFetch(c) ==
  /\ At(c, "verify", "fetch")
  /\ \/ cmd[c].copy.signature \in landed /\ Decide(c, Verified(cmd[c].copy))
     \/ End(c)
  /\ OnlyCmd /\ UNCHANGED drawn

-----------------------------------------------------------------------------
(* write_gate and its failures.                                            *)

\* The temporary file is in the way: ClaimV2GateRejected.
TempExists(c) ==
  /\ cmd[c].step = "exists"
  /\ IF gateTemp THEN End(c) ELSE Goto(c, "open")
  /\ OnlyCmd /\ UNCHANGED drawn

\* Any other exception: submit_claim catches it and records RPC_UNAVAILABLE,
\* unless it already came from there.
OtherException(c) ==
  IF cmd[c].op \in {"recordSuccess", "recordFailure"}
    THEN cmd' = [cmd EXCEPT ![c].op = "recordUnavailable", ![c].step = "read"]
    ELSE End(c)

\* The file is there by now, or it or its directory cannot be made.
TempOpen(c) ==
  /\ cmd[c].step = "open"
  /\ \/ OtherException(c) /\ UNCHANGED gateTemp
     \/ ~ gateTemp /\ Goto(c, "replace") /\ gateTemp' = TRUE
  /\ UNCHANGED <<now, gate, drawn, granted, posted, landed>>

\* The write or the rename fails, and leaves the temporary file.
WriteFails(c) ==
  /\ cmd[c].step = "replace"
  /\ OtherException(c)
  /\ OnlyCmd /\ UNCHANGED drawn

Replace(c) ==
  /\ cmd[c].step = "replace"
  /\ gateTemp' = FALSE
  /\ gate' = cmd[c].copy
  /\ granted' = IF cmd[c].op = "approve"
                  THEN granted \cup {<<cmd[c].approval, cmd[c].digest,
                                     cmd[c].copy.approvalExpires>>}
                  ELSE granted
  /\ IF cmd[c].op = "submit" THEN Goto(c, "post") ELSE End(c)
  /\ UNCHANGED <<now, drawn, posted, landed>>

\* The command's process dies.
Crash(c) ==
  /\ cmd[c] # Idle
  /\ End(c)
  /\ OnlyCmd /\ UNCHANGED drawn

Tick ==
  /\ now < MaxTime
  /\ now' = now + 1
  /\ UNCHANGED <<gate, gateTemp, cmd, drawn, granted, posted, landed>>

OperatorStep(c) ==
  \/ ArmCreate(c) \/ ArmWrite(c) \/ RetireRead(c)
  \/ (\E d \in Digests : ValidateRead(c, d) \/ ApproveRead(c, d))
  \/ BindRead(c) \/ VerifyRead(c) \/ VerifyFetch(c)

SubmitStep(c) ==
  \/ \E a \in ApprovalIds, d \in Digests : InspectRead(c, a, d)
  \/ GenesisAnswered(c) \/ ReserveRead(c) \/ PostTransaction(c)
  \/ PostAnswered(c) \/ RecordRead(c)

WriteStep(c) ==
  TempExists(c) \/ TempOpen(c) \/ WriteFails(c) \/ Replace(c) \/ Crash(c)

Running == {c \in Commands : cmd[c] # Idle}

Next ==
  /\ \/ \E c \in Commands : OperatorStep(c) \/ SubmitStep(c) \/ WriteStep(c)
     \/ Tick
  /\ overlapped' = (overlapped \/ \E c, d \in Running' : c # d)

Spec == Init /\ [][Next]_vars

-----------------------------------------------------------------------------
(* Properties.                                                             *)

\* What is sent to the chain is a transaction the operator approved, under
\* the approval id that was written for it and reserved before that approval
\* expired, however long the RPC took and however commands interleave, crash
\* and put stale copies of the gate back (reserve_submission).
ApprovedBeforePosted ==
  \A i \in DOMAIN posted : \E g \in granted :
    /\ posted[i][1] = g[1] /\ posted[i][2] = g[2]
    /\ posted[i][3] <= g[3]

\* The table of PHASE03F6B that audit_gate_consumption enforces: an approved
\* gate is live, unspent and permits one submission, or is spent and permits
\* none.  It holds of the file and of what any command is about to write.
AuditRow(g) ==
  /\ g.approvals = 1 =>
       /\ g.reviews = 1
       /\ IF g.attempts = 0
            THEN g.status = "LIVE_CLAIM_APPROVED" /\ g.permitted /\ ~g.submitted
            ELSE g.status \in Consumed /\ ~g.permitted
  /\ g.permitted => g.approvals = 1
AuditTable == AuditRow(gate) /\ \A c \in Commands : AuditRow(cmd[c].copy)

\* FINALIZED_VERIFIED is only written of a transaction the chain took in
\* (verify_claim_receipt), whichever commands recorded what in between.
VerifiedMeansLanded ==
  gate.status = "FINALIZED_VERIFIED" => gate.signature \in landed

OneSubmission == Len(posted) <= 1

\* "The persistent gate reserves its only attempt before the RPC call" and
\* "never ... retries a submission": as long as commands run one at a time, as
\* the runbook has it, at most one sendTransaction is ever made, whatever
\* crashes and is run again.
OneSubmissionAlone == overlapped \/ OneSubmission

AttemptStaysSpent ==
  posted # <<>> => gate.attempts = 1 /\ gate.status \in Consumed

\* What was sent remains on record: no later command, crash or failed write
\* returns the attempt to a gate whose claim may be on the chain.
AttemptStaysSpentAlone == overlapped \/ AttemptStaysSpent
=============================================================================
