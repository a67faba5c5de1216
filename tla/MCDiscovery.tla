----------------------------- MODULE MCDiscovery -----------------------------
(* A small instance of PoolRotation for TLC. *)
EXTENDS PoolRotation

MCRetry == <<0, 1>>
Symmetry == Permutations(Tokens) \cup Permutations(Readers)
===============================================================================
