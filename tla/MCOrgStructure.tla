--------------------------- MODULE MCOrgStructure ---------------------------
(***************************************************************************)
(* OrgStructure for TLC, on two trees.  The full one has a departamento    *)
(* with an area, a cargo in the area and a cargo without an area: nobody   *)
(* refers to it, and only the row locks are at work.  The small one has a  *)
(* departamento with an area, and two typologies and a user that refer to  *)
(* them.                                                                   *)
(***************************************************************************)
EXTENDS OrgStructure, TLC

CONSTANTS dept, area, cargo, deptCargo

FullTree ==
    (dept :> None) @@ (area :> dept) @@ (cargo :> area) @@ (deptCargo :> dept)

SmallTree == (dept :> None) @@ (area :> dept)

RequestSymmetry == Permutations(Requests)

Symmetry == RequestSymmetry \cup Permutations(Typologies)
=============================================================================
