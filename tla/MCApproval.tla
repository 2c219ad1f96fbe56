----------------------------- MODULE MCApproval -----------------------------
(***************************************************************************)
(* Approval for TLC: two users who may approve one step or two, a creator  *)
(* and a final user among them; an update can replace two steps by two,    *)
(* and the first approver by another one.                                  *)
(***************************************************************************)
EXTENDS Approval, TLC

CONSTANTS u1, u2

MCUsers == {u1, u2}

MCApproverLists == {<<u1>>, <<u2, u1>>}

\* For three requests at a time: one approver, either of the two or always the
\* same.
MCShortLists == {<<u1>>, <<u2>>}

MCOneList == {<<u1>>}

RequestSymmetry == Permutations(Requests)
=============================================================================
