-------------------------- MODULE OneShotSwapGate --------------------------
(***************************************************************************)
(* The approval file of one controlled, fee-bearing swap                   *)
(* (application/jupiter_one_shot_swap_gate.py and                          *)
(* jupiter_one_shot_receipt.py).  The file is shared by every request of   *)
(* every replica and has no lock: an operation reads it, decides, creates  *)
(* a temporary file that must not exist, and renames it over the gate, so  *)
(* other operations may run between any two of these steps.  The composing *)
(* module gives each caller its program counter and its copy of the file.  *)
(*                                                                         *)
(* message_sha256 is determined by the request id it is bound with, and    *)
(* the fixed wallet, token, amount and fee never change, so that neither   *)
(* is a field here.                                                        *)
(***************************************************************************)
EXTENDS Naturals

CONSTANTS
  GateRequestIds, GateDigests,  \* what the gate can be bound to, consumed by
  NoBinding,                    \* not bound, or not consumed, yet
  GateTtl                       \* how long an armed gate may be used

VARIABLES
  gate,      \* the gate file
  gateTemp   \* whether the temporary file beside it exists

gateVars == <<gate, gateTemp>>

GateStatus == {"ABSENT", "ARMED", "BOUND", "CONSUMED",
               "FINALIZATION_PENDING", "FAILED", "FINALIZED_VERIFIED"}
GateRecord == [status : GateStatus, request : GateRequestIds \cup {NoBinding},
               signed : GateDigests \cup {NoBinding}, attempts : 0..1,
               expires : Nat]

GateTypeOK == gate \in GateRecord /\ gateTemp \in BOOLEAN

NoGate == [status |-> "ABSENT", request |-> NoBinding, signed |-> NoBinding,
           attempts |-> 0, expires |-> 0]

GateInit == gate = NoGate /\ gateTemp = FALSE

\* arm: the exclusive creation of a file that must not exist yet.
Arm(t) ==
  /\ gate.status = "ABSENT"
  /\ gate' = [NoGate EXCEPT !.status = "ARMED", !.expires = t + GateTtl]
  /\ UNCHANGED gateTemp

\* require_armed: what a request must find before it asks for an order.
ArmedAt(t) == gate.status = "ARMED" /\ t <= gate.expires

\* Mutant: bind does not read the status again.
MayBindWhenever(g) == g.status # "ABSENT"

\* bind: what it requires of the file it reads, and what it then writes.
MayBind(g) == g.status = "ARMED"
Bound(g, r) == [g EXCEPT !.status = "BOUND", !.request = r]

\* consume: a gate consumed by the same transaction is accepted unwritten.
MayConsume(g, r)         == g.status = "BOUND" /\ g.request = r
MayRetryConsumed(g, r, d) == g.status = "CONSUMED" /\ g.request = r /\ g.signed = d
\* Mutant: the transaction that consumed the gate is not written down.
ConsumedUnsigned(g, d) == [g EXCEPT !.status = "CONSUMED", !.attempts = 1]

Consumed(g, d) ==
  [g EXCEPT !.status = "CONSUMED", !.signed = d, !.attempts = 1]

\* record: the provider's final answer.
MayRecord(g) == g.status = "CONSUMED"
\* Mutant: the provider's own word is taken for the gate's status.
RecordedVerbatim(g, answer) == [g EXCEPT !.status = answer]

Recorded(g, answer) ==
  [g EXCEPT !.status = IF answer = "Success" THEN "FINALIZATION_PENDING"
                                             ELSE "FAILED"]

\* jupiter_one_shot_receipt.verify: the receipt was found on chain.
MayVerify(g) == g.status = "FINALIZATION_PENDING"
Verified(g) == [g EXCEPT !.status = "FINALIZED_VERIFIED"]

\* _write, its two steps.  A temporary file already there fails the first.
CreateTemp ==
  /\ ~gateTemp
  /\ gateTemp' = TRUE
  /\ UNCHANGED gate

ReplaceGate(g) ==
  /\ gateTemp' = FALSE
  /\ gate' = g
=============================================================================
