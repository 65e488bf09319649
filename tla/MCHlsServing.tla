--------------------------- MODULE MCHlsServing ---------------------------
(* Small instances of HlsServing. *)
EXTENDS HlsServing, TLC

CONSTANTS r1, r2

TwoRequests == {r1, r2}

Symmetry == Permutations(TwoRequests)

\* Every version has its blocks somewhere else.
NewLayouts == [v \in 1 .. MaxVersion |-> v]
=============================================================================
