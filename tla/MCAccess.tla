------------------------------ MODULE MCAccess -------------------------------
(* Access for TLC: slots are interchangeable, and so are users.            *)
EXTENDS Access, TLC

AccessSymmetry == Permutations(Calls) \cup Permutations(Users)
=============================================================================
