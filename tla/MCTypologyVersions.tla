------------------------- MODULE MCTypologyVersions -------------------------
(***************************************************************************)
(* TypologyVersions for TLC: the two replicas are alike, and so are the    *)
(* requests they serve.                                                    *)
(***************************************************************************)
EXTENDS TypologyVersions, TLC

Symmetry == Permutations(Requests) \cup Permutations(Replicas)
=============================================================================
