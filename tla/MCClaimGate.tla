---------------------------- MODULE MCClaimGate ----------------------------
(* Small instances of ClaimGate for TLC. *)
EXTENDS ClaimGate, TLC

Symmetry == Permutations(Commands) \cup Permutations(Digests)
              \cup Permutations(ApprovalIds)
=============================================================================
