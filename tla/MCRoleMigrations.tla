-------------------------- MODULE MCRoleMigrations --------------------------
(***************************************************************************)
(* RoleMigrations for TLC: what an administrator may give a role.          *)
(***************************************************************************)
EXTENDS RoleMigrations

MCChosen ==
    {Of("DOCUMENTS", {"READ", "APPROVE"}),
     Of("DOCUMENTS", Read) \cup Of("ORG_STRUCTURE", {"READ", "WRITE"}),
     Of("WORKFLOWS", {"READ", "MANAGE"}) \cup Of("ORGS", {"READ", "MANAGE"})}
=============================================================================
