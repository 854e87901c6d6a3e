----------------------------- MODULE MCExchange -----------------------------
(* Instances of Exchange for TLC. *)
EXTENDS Exchange, TLC

CONSTANTS r1, r2

Symmetry == Permutations(Reqs)
=============================================================================
