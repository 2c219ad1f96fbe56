---------------------------- MODULE MCExtraction ----------------------------
(***************************************************************************)
(* Extraction for TLC: two requests at a time are alike.                   *)
(***************************************************************************)
EXTENDS Extraction, TLC

RequestSymmetry == Permutations(Requests)
=============================================================================
