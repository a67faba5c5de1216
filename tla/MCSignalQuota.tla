--------------------------- MODULE MCSignalQuota ---------------------------
(* Small instances of SignalQuota for TLC. *)
EXTENDS SignalQuota, TLC

Symmetry == Permutations(Signals) \cup Permutations(Threads)
=============================================================================
