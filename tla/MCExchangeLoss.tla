----------------------------- MODULE MCExchangeLoss -----------------------------
(* Instances of ExchangeLoss for TLC. *)
EXTENDS ExchangeLoss, TLC

CONSTANTS r1, r2

Symmetry == Permutations(Reqs)

\* Bound: of two responses, one at most has all of the MaxFrames pieces.
OneLong ==
    \A q, r \in Reqs : total[q] = MaxFrames /\ total[r] = MaxFrames => q = r
=============================================================================
