--------------------------- MODULE RoleMigrations ---------------------------
(***************************************************************************)
(* The permissions and the system roles of user-service as its migrations  *)
(* leave them.  start.sh applies the pending migrations in the order of    *)
(* their timestamps, each in a transaction of its own, and starts the      *)
(* application, whose seeder upserts the catalogue of permissions; an      *)
(* operator reverts the last migration with migrate.ts.  In between the    *)
(* application edits the roles of organizations and assigns roles.         *)
(*                                                                         *)
(* db is the part of the database these migrations touch; an operator on   *)
(* it is a statement, and ok falls when the statement raises an error,     *)
(* which rolls the migration back.  Migrations of other tables are left    *)
(* out, so is the text of the permissions.                                 *)
(***************************************************************************)
EXTENDS Integers, Sequences, SequencesExt, FiniteSets

CONSTANTS
    Custom,         \* the role of an organization
    Chosen,         \* the sets of permissions it may be given
    MaxHeld,        \* bound: roles that are assigned at a time
    MaxWrites,      \* bound: changes by the application
    MaxReverts,     \* bound: migrations that are reverted
    None

VARIABLES
    production,     \* NODE_ENV
    applied,        \* how many migrations table migrations names
    db,
    before,         \* for RevertRestores: the tables before each migration,
                    \* since anything but a safe revert changed them
    thrown,         \* the last command and migration that failed
    writes, reverts
migrationsVars == <<production, applied, db, before, thrown, writes, reverts>>

\* in the order of their timestamps; two have the same, and TypeORM's sort
\* leaves those in the order of the files
Migrations ==
    <<"InitialSchema", "SeedPermissionsAndSystemRoles", "DeleteSuperAdminRole",
      "AddOrgStructureEnumValue", "SeedOrgStructurePermissions",
      "AddWorkflowsManagePermission", "AddWorkflowWriteApproveToEditor",
      "CleanupUnusedPermissions", "AddAuditorRole", "RemoveSuperAdminRole",
      "AddUsersReadToEditor", "RenameOrgsPermissionToRoles",
      "RemoveDocumentsPermissionsForGood">>

\* "SEGURA: down() es un inverso limpio; migration:revert es seguro"
\* (RUNBOOK.md:115), of the migrations its catalogue labels so.
Safe ==
    {"InitialSchema", "SeedOrgStructurePermissions", "AddWorkflowsManagePermission",
     "AddWorkflowWriteApproveToEditor", "CleanupUnusedPermissions", "AddAuditorRole",
     "AddUsersReadToEditor"}

-----------------------------------------------------------------------------
(* Permissions *)

Of(module, verbs) == {module} \X verbs

Read == {"READ"}
ReadWriteDelete == {"READ", "WRITE", "DELETE"}

PlatformManage == Of("PLATFORM", {"MANAGE"})
OrgsManage == Of("ORGS", {"MANAGE"})
OrgStructure == Of("ORG_STRUCTURE", ReadWriteDelete)
WorkflowsManage == Of("WORKFLOWS", {"MANAGE"})
AuditRead == Of("AUDIT", Read)
Documents ==
    Of("DOCUMENTS", ReadWriteDelete \cup {"APPROVE", "UPLOAD", "DOWNLOAD"})

Seeded ==
    Documents \cup Of("WORKFLOWS", ReadWriteDelete \cup {"APPROVE"})
              \cup Of("USERS", ReadWriteDelete \cup {"MANAGE"})
              \cup Of("ORGS", {"READ", "WRITE", "MANAGE"})
              \cup AuditRead \cup PlatformManage

\* what the seeder writes on every start
PERMISSIONS_CATALOG ==
    Of("WORKFLOWS", ReadWriteDelete \cup {"APPROVE", "MANAGE"})
      \cup Of("USERS", ReadWriteDelete \cup {"MANAGE"})
      \cup Of("ROLES", {"READ", "WRITE"})
      \cup OrgStructure \cup AuditRead

SystemRoles == {"SUPER_ADMIN", "ADMIN", "MANAGER", "EDITOR", "VIEWER", "AUDITOR"}

ASSUME RoleMigrationsAssumption ==
    /\ Custom \notin SystemRoles
    /\ None \notin {"down"} \X Safe
    /\ MaxWrites \in Nat
    /\ MaxReverts \in Nat

-----------------------------------------------------------------------------
(* Statements *)

Empty ==
    [labels |-> {}, permissions |-> {}, roles |-> {}, links |-> {}, held |-> {},
     backup |-> {}, backupAgain |-> {}, ok |-> TRUE]

Tables(d) == <<d.labels, d.permissions, d.roles, d.links, d.held>>

Modules(ps) == {p[1] : p \in ps}

\* a permission of a module that the enum does not have is an error
InsertPermissions(d, ps) ==
    [d EXCEPT !.permissions = @ \cup ps,
              !.ok = @ /\ Modules(ps) \subseteq d.labels]

\* role_permissions.permission_id cascades
DeletePermissions(d, ps) ==
    [d EXCEPT !.permissions = @ \ ps,
              !.links = {l \in @ : l[2] \notin ps}]

Grant(d, rs, ps) ==
    [d EXCEPT !.links = @ \cup ((rs \cap d.roles) \X (ps \cap d.permissions))]

DeleteLinks(d, rs, ps) == [d EXCEPT !.links = @ \ (rs \X ps)]

InsertRoles(d, rs) == [d EXCEPT !.roles = @ \cup rs]

\* user_org_roles.role_id restricts, role_permissions.role_id cascades; a
\* backup keeps the id of a role that no row has any more
DeleteRoles(d, rs) ==
    LET Lost(kept) == {IF l[1] \in rs THEN <<None, l[2]>> ELSE l : l \in kept} IN
    [d EXCEPT !.roles = @ \ rs,
              !.links = {l \in @ : l[1] \notin rs},
              !.backup = Lost(@), !.backupAgain = Lost(@),
              !.ok = @ /\ d.held \cap rs = {}]

\* the enum is built anew, and the column is cast to it
Retype(d, labels) ==
    [d EXCEPT !.labels = labels,
              !.ok = @ /\ Modules(d.permissions) \subseteq labels]

LinksOf(d, ps) == {l \in d.links : l[2] \in ps}

\* INSERT ... SELECT from a backup joined with the permissions: the id of a
\* role that has gone violates the foreign key
Restore(d, kept) ==
    LET joined == {l \in kept : l[2] \in d.permissions} IN
    [d EXCEPT !.links = @ \cup joined,
              !.ok = @ /\ \A l \in joined : l[1] \in d.roles]

-----------------------------------------------------------------------------
(* Commands *)

MigrationsInit ==
    /\ production \in BOOLEAN
    /\ applied = 0
    /\ db = Empty
    /\ before = <<>>
    /\ thrown = None
    /\ writes = 0 /\ reverts = 0

Pending(m) == applied < Len(Migrations) /\ Migrations[applied + 1] = m
Latest(m) == applied > 0 /\ Migrations[applied] = m

\* up() in its transaction: it commits, or raises an error and is undone
Up(m, after) ==
    /\ Pending(m)
    /\ IF after.ok
       THEN /\ db' = after
            /\ applied' = applied + 1
            /\ before' = Append(before, Tables(db))
            /\ thrown' = None
       ELSE thrown' = <<"up", m>> /\ UNCHANGED <<db, applied, before>>
    /\ UNCHANGED <<production, writes, reverts>>

\* down() of the migration applied last
Down(m, after) ==
    /\ Latest(m)
    /\ reverts < MaxReverts
    /\ reverts' = reverts + 1
    /\ IF after.ok
       THEN /\ db' = after
            /\ applied' = applied - 1
            /\ before' = IF m \in Safe /\ before # <<>> THEN Front(before) ELSE <<>>
            /\ thrown' = None
       ELSE thrown' = <<"down", m>> /\ UNCHANGED <<db, applied, before>>
    /\ UNCHANGED <<production, writes>>

Applied(m) == \E i \in 1..applied : Migrations[i] = m

\* a statement of the application, alone in its transaction
Write(after) ==
    /\ IF after.ok
       THEN /\ db' = after
            /\ before' = IF after = db THEN before ELSE <<>>
            /\ thrown' = None
       ELSE thrown' = <<"write", None>> /\ UNCHANGED <<db, before>>
    /\ UNCHANGED <<production, applied, reverts>>

-----------------------------------------------------------------------------
(* Migrations *)

InitialSchemaUp ==
    Up("InitialSchema",
       [db EXCEPT !.labels =
          {"DOCUMENTS", "WORKFLOWS", "USERS", "ORGS", "AUDIT", "PLATFORM"}])

InitialSchemaDown == Down("InitialSchema", Empty)

\* ADMIN: everything but PLATFORM:MANAGE; the others module by module.
SeedGrants(d) ==
    Grant(Grant(Grant(Grant(Grant(d,
      {"SUPER_ADMIN"}, d.permissions),
      {"ADMIN"}, d.permissions \ PlatformManage),
      {"MANAGER"}, {p \in d.permissions : \/ p[1] \in {"DOCUMENTS", "WORKFLOWS"}
                                          \/ p \in Of("USERS", Read) \cup AuditRead}),
      {"EDITOR"}, Of("DOCUMENTS", {"READ", "WRITE", "UPLOAD", "DOWNLOAD"})
                    \cup Of("WORKFLOWS", Read)),
      {"VIEWER"}, {"DOCUMENTS", "WORKFLOWS", "AUDIT"} \X Read)

SeedUp ==
    Up("SeedPermissionsAndSystemRoles",
       SeedGrants(InsertRoles(InsertPermissions(db, Seeded),
                              SystemRoles \ {"AUDITOR"})))

SeedDown ==
    Down("SeedPermissionsAndSystemRoles",
         DeletePermissions(DeleteRoles(db, db.roles \cap SystemRoles), db.permissions))

\* It does nothing outside production, and refuses to go on while somebody
\* has the role.
DeleteSuperAdminUp ==
    Up("DeleteSuperAdminRole",
       IF ~production THEN db
       ELSE Retype(DeleteRoles(DeletePermissions(db, PlatformManage), {"SUPER_ADMIN"}),
                   {"DOCUMENTS", "WORKFLOWS", "USERS", "ORGS", "AUDIT"}))

DeleteSuperAdminDown ==
    Down("DeleteSuperAdminRole",
         Retype(db, {"DOCUMENTS", "WORKFLOWS", "USERS", "ORGS", "AUDIT", "PLATFORM"}))

AddOrgStructureEnumValueUp ==
    Up("AddOrgStructureEnumValue", [db EXCEPT !.labels = @ \cup {"ORG_STRUCTURE"}])

AddOrgStructureEnumValueDown == Down("AddOrgStructureEnumValue", db)

SeedOrgStructureUp ==
    Up("SeedOrgStructurePermissions",
       Grant(Grant(InsertPermissions(db, OrgStructure),
                   {"SUPER_ADMIN", "ADMIN", "MANAGER"}, OrgStructure),
             {"EDITOR", "VIEWER"}, Of("ORG_STRUCTURE", Read)))

SeedOrgStructureDown ==
    Down("SeedOrgStructurePermissions", DeletePermissions(db, OrgStructure))

AddWorkflowsManageUp ==
    Up("AddWorkflowsManagePermission",
       Grant(InsertPermissions(db, WorkflowsManage), {"ADMIN", "MANAGER"},
             WorkflowsManage))

AddWorkflowsManageDown ==
    Down("AddWorkflowsManagePermission", DeletePermissions(db, WorkflowsManage))

AddWorkflowWriteApproveToEditorUp ==
    Up("AddWorkflowWriteApproveToEditor",
       Grant(db, {"EDITOR"}, Of("WORKFLOWS", {"WRITE", "APPROVE"})))

AddWorkflowWriteApproveToEditorDown ==
    Down("AddWorkflowWriteApproveToEditor",
         DeleteLinks(db, {"EDITOR"}, Of("WORKFLOWS", {"WRITE", "APPROVE"})))

Unused(d) == {p \in d.permissions : p[1] = "DOCUMENTS" \/ p \in OrgsManage}

CleanupUp ==
    Up("CleanupUnusedPermissions",
       DeletePermissions([db EXCEPT !.backup = @ \cup LinksOf(db, Unused(db))],
                         Unused(db)))

\* Mutant: the permissions come back without the roles that had them.
CleanupDownRowsOnly ==
    Down("CleanupUnusedPermissions",
         [InsertPermissions(db, Documents \cup OrgsManage) EXCEPT !.backup = {}])

CleanupDown ==
    Down("CleanupUnusedPermissions",
         [Restore(InsertPermissions(db, Documents \cup OrgsManage), db.backup)
            EXCEPT !.backup = {}])

\* Mutant: the viewers keep the audit log.
AddAuditorUpOnly ==
    Up("AddAuditorRole", Grant(InsertRoles(db, {"AUDITOR"}), {"AUDITOR"}, AuditRead))

AddAuditorUp ==
    Up("AddAuditorRole",
       DeleteLinks(Grant(InsertRoles(db, {"AUDITOR"}), {"AUDITOR"}, AuditRead),
                   {"VIEWER"}, AuditRead))

AddAuditorDown ==
    Down("AddAuditorRole",
         DeleteRoles(Grant(db, {"VIEWER"}, AuditRead), {"AUDITOR"}))

\* Mutant: the enum is built from the list of the earlier migration.
WithoutPlatformOld(d) ==
    IF "PLATFORM" \in d.labels
    THEN Retype(d, {"DOCUMENTS", "WORKFLOWS", "USERS", "ORGS", "AUDIT"}) ELSE d

\* The enum loses PLATFORM if it still has it.
WithoutPlatform(d) ==
    IF "PLATFORM" \in d.labels
    THEN Retype(d, {"DOCUMENTS", "WORKFLOWS", "USERS", "ORGS", "ORG_STRUCTURE", "AUDIT"})
    ELSE d

RemoveSuperAdminUp ==
    Up("RemoveSuperAdminRole",
       WithoutPlatform(DeleteRoles(DeletePermissions(
           [db EXCEPT !.held = @ \ {"SUPER_ADMIN"}], PlatformManage), {"SUPER_ADMIN"})))

\* Assignments do not come back; the role comes back under another id, with
\* every permission there is.
RemoveSuperAdminDown ==
    Down("RemoveSuperAdminRole",
         LET labelled == IF "PLATFORM" \in db.labels THEN db
                         ELSE Retype(db, {"DOCUMENTS", "WORKFLOWS", "USERS", "ORGS",
                                          "ORG_STRUCTURE", "AUDIT", "PLATFORM"})
             d == InsertRoles(InsertPermissions(labelled, PlatformManage), {"SUPER_ADMIN"})
         IN  Grant(d, {"SUPER_ADMIN"}, d.permissions))

AddUsersReadToEditorUp ==
    Up("AddUsersReadToEditor", Grant(db, {"EDITOR"}, Of("USERS", Read)))

AddUsersReadToEditorDown ==
    Down("AddUsersReadToEditor", DeleteLinks(db, {"EDITOR"}, Of("USERS", Read)))

\* Rows follow the label of their module.
Renamed(d, from, to) ==
    LET New(p) == IF p[1] = from THEN <<to, p[2]>> ELSE p IN
    [d EXCEPT !.labels = (@ \ {from}) \cup {to},
              !.permissions = {New(p) : p \in @},
              !.links = {<<l[1], New(l[2])>> : l \in @},
              !.ok = @ /\ from \in d.labels /\ to \notin d.labels]

RenameOrgsToRolesUp == Up("RenameOrgsPermissionToRoles", Renamed(db, "ORGS", "ROLES"))

RenameOrgsToRolesDown ==
    Down("RenameOrgsPermissionToRoles", Renamed(db, "ROLES", "ORGS"))

RemoveDocumentsUp ==
    Up("RemoveDocumentsPermissionsForGood",
       DeletePermissions([db EXCEPT !.backupAgain = @ \cup LinksOf(db, Documents)],
                         Documents))

\* DOCUMENTS:APPROVE does not come back.
DocumentsAgain == Of("DOCUMENTS", ReadWriteDelete \cup {"UPLOAD", "DOWNLOAD"})

RemoveDocumentsDown ==
    Down("RemoveDocumentsPermissionsForGood",
         [Restore(InsertPermissions(db, DocumentsAgain), db.backupAgain)
            EXCEPT !.backupAgain = {}])

-----------------------------------------------------------------------------
(* The application *)

\* PermissionsSeeder, once every migration is applied.
Boot ==
    /\ applied = Len(Migrations)
    /\ Write(InsertPermissions(db, PERMISSIONS_CATALOG))
    /\ UNCHANGED writes

\* The seeder of an image from before the last migration, after the first
\* clean-up: its catalogue still has the permissions on documents.
BootOld ==
    /\ Applied("CleanupUnusedPermissions")
    /\ Write(InsertPermissions(db, DocumentsAgain))
    /\ UNCHANGED writes

Edit(after) ==
    /\ Applied("SeedPermissionsAndSystemRoles")
    /\ writes < MaxWrites
    /\ writes' = writes + 1
    /\ after # db
    /\ Write(after)

\* RolesService.create and assignPermissions: the permissions must exist.
SavePermissions(ps) ==
    /\ ps \subseteq db.permissions
    /\ Edit(Grant(DeleteLinks(InsertRoles(db, {Custom}), {Custom}, db.permissions), {Custom}, ps))

\* RolesService.remove: nobody has it.
RemoveCustom ==
    /\ Custom \in db.roles \ db.held
    /\ Edit(DeleteRoles(db, {Custom}))

\* UserOrgService.assignOrg and removeRoleFromOrg.
AssignRole(r) ==
    /\ r \in db.roles
    /\ Cardinality(db.held \cup {r}) <= MaxHeld
    /\ Edit([db EXCEPT !.held = @ \cup {r}])

UnassignRole(r) == Edit([db EXCEPT !.held = @ \ {r}])

MigrationsNext ==
    \/ InitialSchemaUp \/ InitialSchemaDown
    \/ SeedUp \/ SeedDown
    \/ DeleteSuperAdminUp \/ DeleteSuperAdminDown
    \/ AddOrgStructureEnumValueUp \/ AddOrgStructureEnumValueDown
    \/ SeedOrgStructureUp \/ SeedOrgStructureDown
    \/ AddWorkflowsManageUp \/ AddWorkflowsManageDown
    \/ AddWorkflowWriteApproveToEditorUp \/ AddWorkflowWriteApproveToEditorDown
    \/ CleanupUp \/ CleanupDown
    \/ AddAuditorUp \/ AddAuditorDown
    \/ RemoveSuperAdminUp \/ RemoveSuperAdminDown
    \/ AddUsersReadToEditorUp \/ AddUsersReadToEditorDown
    \/ RenameOrgsToRolesUp \/ RenameOrgsToRolesDown
    \/ RemoveDocumentsUp \/ RemoveDocumentsDown
    \/ Boot \/ BootOld
    \/ \E ps \in Chosen : SavePermissions(ps)
    \/ RemoveCustom
    \/ \E r \in SystemRoles \cup {Custom} : AssignRole(r) \/ UnassignRole(r)

MigrationsSpec == MigrationsInit /\ [][MigrationsNext]_migrationsVars

-----------------------------------------------------------------------------
(* What holds *)

\* docs/database-documentation.md:194, the roles in force.
Declared ==
    [ADMIN   |-> PERMISSIONS_CATALOG,
     MANAGER |-> Of("WORKFLOWS", ReadWriteDelete \cup {"APPROVE", "MANAGE"})
                   \cup Of("USERS", Read) \cup AuditRead \cup OrgStructure,
     EDITOR  |-> Of("WORKFLOWS", {"READ", "WRITE", "APPROVE"})
                   \cup Of("USERS", Read) \cup Of("ORG_STRUCTURE", Read),
     VIEWER  |-> {"WORKFLOWS", "ORG_STRUCTURE"} \X Read,
     AUDITOR |-> AuditRead]

\* With every migration applied the system roles have the documented
\* permissions and the catalogue is complete, on whatever path through the
\* environments, reverts, failures, seeders and edits the database came.
RolesAsDeclared ==
    applied = Len(Migrations) =>
        /\ db.roles \ {Custom} = DOMAIN Declared
        /\ \A r \in DOMAIN Declared : {l[2] : l \in {k \in db.links : k[1] = r}} = Declared[r]
        /\ db.permissions \ Documents = PERMISSIONS_CATALOG

\* Under the rule of the runbook, nothing written since, a safe revert
\* succeeds and leaves the tables as they were before the migration.
RevertRestores ==
    [][ \A m \in Safe : Latest(m) /\ before # <<>> =>
          /\ applied' < applied => Tables(db') = Last(before)
          /\ thrown' # <<"down", m>> ]_migrationsVars

\* Whatever was reverted, edited or seeded, the service starts again: every
\* migration that is pending succeeds and the seeder finds its labels, but
\* for the refusal to take SUPER_ADMIN from somebody in production.
RedeployNeverFails ==
    \/ thrown = None \/ thrown[1] = "down"
    \/ thrown = <<"up", "DeleteSuperAdminRole">> /\ production /\ "SUPER_ADMIN" \in db.held

MigrationsTypeOK ==
    /\ production \in BOOLEAN
    /\ applied \in 0..Len(Migrations) /\ Len(before) <= applied
    /\ Modules(db.permissions) \subseteq db.labels
    /\ db.links \subseteq db.roles \X db.permissions
    /\ db.held \subseteq db.roles
    /\ db.ok
    /\ writes \in 0..MaxWrites /\ reverts \in 0..MaxReverts

-----------------------------------------------------------------------------
(* What does not hold *)

\* RUNBOOK.md:115 as it reads: a safe revert does not fail.
SafeRevertsSucceed == \A m \in Safe : thrown # <<"down", m>>

\* "so this time the deletion actually sticks"
\* (1776900000000-RemoveDocumentsPermissionsForGood.ts:9).
DocumentsGone ==
    applied = Len(Migrations) => db.permissions \cap Documents = {}
=============================================================================
