--------------------------- MODULE MCJupiterSwap ---------------------------
(* Small instances of JupiterSwap for TLC. *)
EXTENDS JupiterSwap, TLC

CONSTANTS w1, t1

MCPair == <<w1, t1>>
OneLifetime == {2}
TwoLifetimes == {1, 2}
Symmetry == Permutations(Executors) \cup Permutations(Digests)
              \cup Permutations(RequestIds) \cup Permutations(ReservationIds)
              \cup Permutations(Preparers)
=============================================================================
