---------------------------- MODULE MCServiceHub -----------------------------
(* Small instances of ServiceHub for TLC: two workers of one group and one of   *)
(* another, so that both a group's second worker and a second group occur.      *)
EXTENDS ServiceHub, TLC

CONSTANTS w1, w2, w3, g0, g1

MCGroupOf == [w \in Worker |-> IF w = w3 THEN g1 ELSE g0]

(* w1 and w2 are configured alike.                                              *)
Symmetry == Permutations({w1, w2})
==============================================================================
