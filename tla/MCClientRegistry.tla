-------------------------- MODULE MCClientRegistry --------------------------
(* Instances of ClientRegistry for TLC. *)
EXTENDS ClientRegistry, TLC

CONSTANTS a1, a2, a3, w1, n1

\* Every connection belongs to the agent n1: connections of different names
\* touch different entries of the table and never meet.
OneName == [c \in Conns |-> n1]

Symmetry == Permutations(Conns \ WsConns)
=============================================================================
