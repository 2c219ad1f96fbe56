---------------------------- MODULE MCAdminCycle ----------------------------
(***************************************************************************)
(* AdminCycle for TLC.  Two users are enough for a step to be forwarded to *)
(* its own reviewer, to the next one and to one who already acted; three   *)
(* reviewers for a shift of two rows, one that can collide.                *)
(***************************************************************************)
EXTENDS AdminCycle

CONSTANTS u1, u2

MCUsers == {u1, u2}

\* One, two and three steps; a user with two steps, in a row or not.
MCReviewerLists == {<<u1>>, <<u1, u2>>, <<u2, u1, u2>>, <<u1, u1, u2>>}

MCOptionalPools == {{}, {u1, u2}}
=============================================================================
