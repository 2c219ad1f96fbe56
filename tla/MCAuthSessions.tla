--------------------------- MODULE MCAuthSessions ---------------------------
(***************************************************************************)
(* AuthSessions for TLC: two requests at a time are alike.                 *)
(***************************************************************************)
EXTENDS AuthSessions, TLC

RequestSymmetry == Permutations(Requests)
=============================================================================
