--------------------------- MODULE MCRateLimiter ---------------------------
(* Small instances of RateLimiter for TLC. *)
EXTENDS RateLimiter, TLC

CONSTANTS a1, all, w1

MCKeys == {a1, all, w1}
MCCheckLists == {<<a1, all>>, <<a1, all, w1>>}
MCLimit == [k \in Keys |-> IF k = w1 THEN 1 ELSE 2]
MCWindow == [k \in Keys |-> 2]
Symmetry == Permutations(Requests)
=============================================================================
