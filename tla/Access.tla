-------------------------------- MODULE Access --------------------------------
(***************************************************************************)
(* Who may do what in one organization: the memberships, the roles with    *)
(* their permissions and the cache of effective permissions in             *)
(* user-service, and the organization's own row in org-service, whose      *)
(* removal sweeps the memberships through a call between the two.          *)
(*                                                                         *)
(* repository.save of a role is two steps, as in TypeORM: it loads the     *)
(* stored permissions, then inserts and deletes the difference from the    *)
(* entity's.  The guard that checks a permission reads the cache, and on a *)
(* miss reads the tables and fills it: three steps that changes and their  *)
(* invalidations can fall between.                                         *)
(*                                                                         *)
(* Permissions are those of one module: read stands for READ, write for    *)
(* any action permission.                                                  *)
(***************************************************************************)
EXTENDS Integers, FiniteSets

CONSTANTS
    Calls,        \* slots for the requests being served at a time
    Users,        \* the users of the organization, members or not
    Roles,        \* ids of the organization's own roles
    NoRole,       \* a member without a role
    MaxCalls,     \* bound: requests ever started
    MaxFailures   \* bound: crashes, lost answers and failed calls

ASSUME AccessAssumption ==
    /\ NoRole \notin Roles
    /\ MaxCalls \in Nat
    /\ MaxFailures \in Nat

VARIABLES
    member,   \* table user_org_roles
    perms,    \* tables roles and role_permissions, NoSuch when removed
    cache,    \* keys perms:<user>:<org>, <<>> when there is none
    org,      \* the row of table orgs
    call,     \* the requests in course
    begun,    \* bound: requests started
    failures, \* bound: faults so far
    noted     \* observation: what the properties excuse

accessVars == <<member, perms, cache, org, call, begun, failures, noted>>

NoMember == [role |-> NoRole, in |-> "never"]

Member == [role : Roles \cup {NoRole}, in : {"yes", "removed"}]

\* RolePolicy.validatePermissionSet: every action needs READ.
Valid(set) == "write" \in set => "read" \in set

Permissions == {set \in SUBSET {"read", "write"} : Valid(set)}

NoSuch == {"no such role"}

NoCall == [op |-> "idle"]

Held(u) == member[u].role

Exists(role) == perms[role] # NoSuch

\* What the guard's query answers for a user with a membership row.
Effective(u) == IF Held(u) = NoRole THEN {} ELSE perms[Held(u)]

Holders(role) == {u \in Users : Held(u) = role /\ member[u].in = "yes"}

\* getActiveUserIds: whom a deactivation of the organization signs out.
Members == {u \in Users : member[u].in = "yes"}

\* getCompanies: who can enter the organization.
Entering == {u \in Users : Held(u) # NoRole}

AccessTypeOK ==
    /\ member \in [Users -> Member \cup {NoMember}]
    /\ perms \in [Roles -> (SUBSET {"read", "write"}) \cup {NoSuch}]
    /\ \A u \in Users : cache[u] # <<>> =>
         cache[u] \in {<<set>> : set \in SUBSET {"read", "write"}}
    /\ org \in {"live", "deleted"}
    /\ \A u \in Users : Held(u) # NoRole => Exists(Held(u))

AccessInit ==
    /\ perms \in [Roles -> Permissions \cup {NoSuch}]
    /\ member \in [Users -> {m \in Member \cup {NoMember} :
                               /\ m.role # NoRole => perms[m.role] # NoSuch
                               /\ m.in # "yes" => m.role = NoRole}]
    /\ cache = [u \in Users |-> <<>>]
    /\ org = "live"
    /\ call = [r \in Calls |-> NoCall]
    /\ begun = 0
    /\ failures = 0
    /\ noted = [ stale |-> {},       \* users with an entry known to be stale
                 mixed |-> FALSE,    \* two saves of a role interleaved
                 swept |-> FALSE,    \* a removal took the last members away
                 excused |-> FALSE,  \* and the organization was brought back
                 late |-> FALSE ]    \* somebody joined after the sweep, or it died

-----------------------------------------------------------------------------
BeginCall(r, fields) ==
    /\ call[r] = NoCall
    /\ begun < MaxCalls
    /\ begun' = begun + 1
    /\ call' = [call EXCEPT ![r] = fields]

CallAt(r, op, pc) == call[r] # NoCall /\ call[r].op = op /\ call[r].pc = pc

GoTo(r, fields) == call' = [call EXCEPT ![r] = fields]

EndCall(r) == GoTo(r, NoCall)

\* A request whose last step is to delete the cache entries of users.
Owes(users) == [op |-> "drop", pc |-> "drop", users |-> users, called |-> FALSE]

\* A sweep in course; called while org-service waits for its answer.
SweepOf(called) ==
    [op |-> "sweep", pc |-> "list", users |-> {}, called |-> called]

AwaitedByOrg(r) ==
    /\ call[r] # NoCall
    /\ call[r].op \in {"sweep", "drop"}
    /\ call[r].called

\* The entries that stay when request r goes no further.
Forgets(r) ==
    CASE call[r].op = "drop" -> call[r].users
      [] call[r].op = "save" -> Holders(call[r].role)
      [] OTHER -> {}

-----------------------------------------------------------------------------
(* PermissionsGuard *)

\* The request carries a token for this organization; the cache has nothing.
GuardMiss(r, u) ==
    /\ cache[u] = <<>>
    /\ BeginCall(r, [op |-> "guard", pc |-> "find", user |-> u, set |-> {}])
    /\ UNCHANGED <<member, perms, cache, org, failures, noted>>

\* A user who never was a member is refused, and nothing is cached.
GuardFind(r) ==
    /\ CallAt(r, "guard", "find")
    /\ LET u == call[r].user IN
       IF member[u] = NoMember
       THEN EndCall(r)
       ELSE GoTo(r, [call[r] EXCEPT !.pc = "set", !.set = Effective(u)])
    /\ UNCHANGED <<member, perms, cache, org, begun, failures, noted>>

GuardSet(r) ==
    /\ CallAt(r, "guard", "set")
    /\ LET u == call[r].user IN
       /\ cache' = [cache EXCEPT ![u] = <<call[r].set>>]
       /\ noted' = [noted EXCEPT !.stale =
                     IF call[r].set = Effective(u) THEN @ \ {u} ELSE @ \cup {u}]
    /\ EndCall(r)
    /\ UNCHANGED <<member, perms, org, begun, failures>>

-----------------------------------------------------------------------------
(* UserOrgService *)

\* assignOrg: the role must exist, and the same role again is a conflict.
AssignFind(r, u, role) ==
    /\ role # NoRole => Exists(role)
    /\ ~(member[u].in = "yes" /\ Held(u) = role)
    /\ BeginCall(r, [op |-> "assign", pc |-> "write", user |-> u, role |-> role,
                     row |-> member[u]])
    /\ UNCHANGED <<member, perms, cache, org, failures, noted>>

\* An update by id of the row it found, or an insert that the unique pair of
\* user and organization may refuse; the foreign key refuses a role that is
\* gone.
AssignWrite(r) ==
    /\ CallAt(r, "assign", "write")
    /\ LET u == call[r].user
           role == call[r].role IN
       IF \/ role # NoRole /\ ~Exists(role)
          \/ call[r].row = NoMember /\ member[u] # NoMember
       THEN EndCall(r) /\ UNCHANGED <<member, noted>>
       ELSE /\ member' = [member EXCEPT ![u] = [role |-> role, in |-> "yes"]]
            /\ GoTo(r, Owes({u}))
            /\ noted' = [noted EXCEPT !.late = TRUE]
    /\ UNCHANGED <<perms, cache, org, begun, failures>>

\* Mutant: the cache is left to its TTL.
RemoveRoleOnly(r, u, role) ==
    /\ role # NoRole
    /\ Held(u) = role
    /\ BeginCall(r, Owes({}))
    /\ member' = [member EXCEPT ![u].role = NoRole]
    /\ UNCHANGED <<perms, cache, org, failures, noted>>

RemoveRole(r, u, role) ==
    /\ role # NoRole
    /\ Held(u) = role
    /\ BeginCall(r, Owes({u}))
    /\ member' = [member EXCEPT ![u].role = NoRole]
    /\ UNCHANGED <<perms, cache, org, failures, noted>>

RemoveFromOrg(r, u) ==
    /\ member[u] # NoMember
    /\ BeginCall(r, Owes({u}))
    /\ member' = [member EXCEPT ![u] = [role |-> NoRole, in |-> "removed"]]
    /\ UNCHANGED <<perms, cache, org, failures, noted>>

\* redis.del of the entries, one by one in the code.
Drop(r, u) ==
    /\ CallAt(r, "drop", "drop")
    /\ u \in call[r].users
    /\ cache' = [cache EXCEPT ![u] = <<>>]
    /\ noted' = [noted EXCEPT !.stale = @ \ {u}]
    /\ GoTo(r, [call[r] EXCEPT !.users = @ \ {u}])
    /\ UNCHANGED <<member, perms, org, begun, failures>>

DropDone(r) ==
    /\ CallAt(r, "drop", "drop")
    /\ call[r].users = {}
    /\ EndCall(r)
    /\ UNCHANGED <<member, perms, cache, org, begun, failures, noted>>

-----------------------------------------------------------------------------
(* RolesService *)

RoleCreate(r, role, set) ==
    /\ ~Exists(role)
    /\ begun < MaxCalls
    /\ begun' = begun + 1
    /\ call[r] = NoCall
    /\ perms' = [perms EXCEPT ![role] = set]
    /\ UNCHANGED <<member, cache, org, call, failures, noted>>

\* A save in course: set is what the entity says, tell whether the holders
\* are told.
Saving(role, set, tell) ==
    [op |-> "save", pc |-> "load", role |-> role, set |-> set, tell |-> tell,
     loaded |-> {}]

\* assignPermissions replaces the set by one that is valid.
AssignPermissions(r, role, set) ==
    /\ Exists(role)
    /\ BeginCall(r, Saving(role, set, TRUE))
    /\ UNCHANGED <<member, perms, cache, org, failures, noted>>

\* removePermission refuses when what remains is not valid.
RemovePermission(r, role, p) ==
    /\ Exists(role)
    /\ Valid(perms[role] \ {p})
    /\ BeginCall(r, Saving(role, perms[role] \ {p}, TRUE))
    /\ UNCHANGED <<member, perms, cache, org, failures, noted>>

\* update of the name or description: the entity carries the permissions it
\* was read with, and nobody is told.
RoleUpdate(r, role) ==
    /\ Exists(role)
    /\ BeginCall(r, Saving(role, perms[role], FALSE))
    /\ UNCHANGED <<member, perms, cache, org, failures, noted>>

SaveLoad(r) ==
    /\ CallAt(r, "save", "load")
    /\ GoTo(r, [call[r] EXCEPT !.pc = "write", !.loaded = perms[call[r].role]])
    /\ UNCHANGED <<member, perms, cache, org, begun, failures, noted>>

\* The difference between what was loaded and the entity.  A role that was
\* gone by the load is inserted again; one that went since refuses new rows,
\* and the primary key refuses a row that another save has inserted.
Stored(role, loaded, set) ==
    IF loaded = NoSuch THEN IF Exists(role) THEN perms[role] ELSE set
    ELSE IF ~Exists(role) THEN NoSuch
    ELSE IF perms[role] \cap (set \ loaded) # {} THEN perms[role]
    ELSE (perms[role] \ (loaded \ set)) \cup (set \ loaded)

SaveWrite(r) ==
    LET role == call[r].role
        new == Stored(role, call[r].loaded, call[r].set) IN
    /\ CallAt(r, "save", "write")
    /\ perms' = [perms EXCEPT ![role] = new]
    /\ noted' = [noted EXCEPT
                  !.mixed = @ \/ call[r].loaded # perms[role],
                  !.stale = IF call[r].tell \/ new = perms[role]
                            THEN @ ELSE @ \cup Holders(role)]
    /\ IF call[r].tell
       THEN GoTo(r, [call[r] EXCEPT !.pc = "tell", !.loaded = {}, !.set = {}])
       ELSE EndCall(r)
    /\ UNCHANGED <<member, cache, org, begun, failures>>

\* notifyPermissionsChanged: who holds the role now.
Tell(r) ==
    /\ CallAt(r, "save", "tell")
    /\ GoTo(r, Owes(Holders(call[r].role)))
    /\ UNCHANGED <<member, perms, cache, org, begun, failures, noted>>

\* remove: refused while the role is assigned.
RoleRemoveCount(r, role) ==
    /\ Exists(role)
    /\ \A u \in Users : Held(u) # role
    /\ BeginCall(r, [op |-> "unrole", pc |-> "write", role |-> role])
    /\ UNCHANGED <<member, perms, cache, org, failures, noted>>

\* ON DELETE RESTRICT refuses it when somebody got the role since.
RoleRemoveWrite(r) ==
    /\ CallAt(r, "unrole", "write")
    /\ perms' = IF \E u \in Users : Held(u) = call[r].role THEN perms
                ELSE [perms EXCEPT ![call[r].role] = NoSuch]
    /\ EndCall(r)
    /\ UNCHANGED <<member, cache, org, begun, failures, noted>>

-----------------------------------------------------------------------------
(* OrgsService *)

\* Mutant: the memberships go first.
OrgRemoveLast(r) ==
    /\ org = "live"
    /\ BeginCall(r, SweepOf(TRUE))
    /\ noted' = [noted EXCEPT !.swept = FALSE, !.excused = FALSE, !.late = FALSE]
    /\ UNCHANGED <<member, perms, cache, org, failures>>

\* remove: the organization goes first, its memberships next.
OrgRemove(r) ==
    /\ org = "live"
    /\ BeginCall(r, SweepOf(TRUE))
    /\ org' = "deleted"
    /\ noted' = [noted EXCEPT !.swept = FALSE, !.excused = FALSE, !.late = FALSE]
    /\ UNCHANGED <<member, perms, cache, failures>>

\* removeAllFromOrg lists the members, sweeps and drops their entries.
SweepList(r) ==
    /\ CallAt(r, "sweep", "list")
    /\ GoTo(r, [call[r] EXCEPT !.pc = "update", !.users = Members])
    /\ UNCHANGED <<member, perms, cache, org, begun, failures, noted>>

Sweep(r) ==
    /\ CallAt(r, "sweep", "update")
    /\ member' = [u \in Users |-> IF u \in Members
                                  THEN [role |-> NoRole, in |-> "removed"]
                                  ELSE member[u]]
    /\ noted' = [noted EXCEPT
                  !.swept = @ \/ Members # {},
                  !.late = FALSE,
                  !.stale = @ \cup (Members \ call[r].users)]
    /\ GoTo(r, [Owes(call[r].users) EXCEPT !.called = call[r].called])
    /\ UNCHANGED <<perms, cache, org, begun, failures>>

OrgRestore(r) ==
    /\ org = "deleted"
    /\ call[r] = NoCall
    /\ begun < MaxCalls
    /\ begun' = begun + 1
    /\ org' = "live"
    /\ noted' = [noted EXCEPT !.excused = TRUE]
    /\ UNCHANGED <<member, perms, cache, call, failures>>

\* update reads the organization and saves it, deletedAt included.
OrgUpdateFind(r) ==
    /\ org = "live"
    /\ BeginCall(r, [op |-> "orgedit", pc |-> "write"])
    /\ UNCHANGED <<member, perms, cache, org, failures, noted>>

OrgUpdateSave(r) ==
    /\ CallAt(r, "orgedit", "write")
    /\ org' = "live"
    /\ noted' = [noted EXCEPT !.excused = @ \/ org = "deleted"]
    /\ EndCall(r)
    /\ UNCHANGED <<member, perms, cache, begun, failures>>

-----------------------------------------------------------------------------
(* Faults and time *)

Failure ==
    /\ failures < MaxFailures
    /\ failures' = failures + 1

\* A crash, or a call of PostgreSQL or Redis that fails.
CallDies(r) ==
    /\ call[r] # NoCall
    /\ Failure
    /\ EndCall(r)
    /\ noted' = [noted EXCEPT !.stale = @ \cup Forgets(r),
                              !.late = @ \/ call[r].op = "sweep"]
    /\ UNCHANGED <<member, perms, cache, org, begun>>

\* revokeOrgAccess fails or times out, before the sweep or after it:
\* org-service restores the row, while user-service may be serving the call
\* still, or may never have seen it.
RevokeFails(r) ==
    /\ AwaitedByOrg(r)
    /\ Failure
    /\ org' = "live"
    /\ \/ /\ EndCall(r)
          /\ noted' = [noted EXCEPT !.excused = TRUE, !.stale = @ \cup Forgets(r)]
       \/ /\ GoTo(r, [call[r] EXCEPT !.called = FALSE])
          /\ noted' = [noted EXCEPT !.excused = TRUE]
    /\ UNCHANGED <<member, perms, cache, begun>>

\* A 5xx or a broken connection: revokeOrgAccess sends the call again, twice at
\* most, while the first attempt is over or runs on beside the second.
RevokeRetried(r) ==
    /\ AwaitedByOrg(r)
    /\ Failure
    /\ \/ /\ GoTo(r, SweepOf(TRUE))
          /\ noted' = [noted EXCEPT !.stale = @ \cup Forgets(r)]
       \/ \E q \in Calls :
            /\ call[q] = NoCall
            /\ call' = [call EXCEPT ![q] = [call[r] EXCEPT !.called = FALSE],
                                  ![r] = SweepOf(TRUE)]
            /\ UNCHANGED noted
    /\ UNCHANGED <<member, perms, cache, org, begun>>

\* An entry lives two minutes.
CacheExpires(u) ==
    /\ cache[u] # <<>>
    /\ cache' = [cache EXCEPT ![u] = <<>>]
    /\ noted' = [noted EXCEPT !.stale = @ \ {u}]
    /\ UNCHANGED <<member, perms, org, call, begun, failures>>

AccessNext ==
    \/ \E r \in Calls, u \in Users :
         \/ GuardMiss(r, u) \/ RemoveFromOrg(r, u) \/ Drop(r, u)
         \/ \E role \in Roles \cup {NoRole} :
              AssignFind(r, u, role) \/ RemoveRole(r, u, role)
    \/ \E r \in Calls, role \in Roles :
         \/ \E set \in Permissions :
              RoleCreate(r, role, set) \/ AssignPermissions(r, role, set)
         \/ \E p \in perms[role] : RemovePermission(r, role, p)
         \/ RoleUpdate(r, role) \/ RoleRemoveCount(r, role)
    \/ \E r \in Calls :
         \/ GuardFind(r) \/ GuardSet(r) \/ AssignWrite(r) \/ DropDone(r)
         \/ SaveLoad(r) \/ SaveWrite(r) \/ Tell(r) \/ RoleRemoveWrite(r)
         \/ OrgRemove(r) \/ SweepList(r) \/ Sweep(r) \/ OrgRestore(r)
         \/ OrgUpdateFind(r) \/ OrgUpdateSave(r) \/ CallDies(r) \/ RevokeFails(r)
         \/ RevokeRetried(r)
    \/ \E u \in Users : CacheExpires(u)

AccessSpec == AccessInit /\ [][AccessNext]_accessVars

-----------------------------------------------------------------------------
(* What holds *)

AtRest == \A r \in Calls : call[r] = NoCall

\* At rest, the cached permissions of a user are the effective ones, unless
\* a guard filled the entry with what it had read before a change, an
\* invalidation was lost, or a change was announced to nobody.
StaleCacheExplained ==
    AtRest => \A u \in Users :
      cache[u] \notin {<<>>, <<Effective(u)>>} => u \in noted.stale

\* Every role that grants an action grants READ, unless two saves of the role
\* interleaved: validatePermissionSet sees only what each of them writes.
RoleUsable ==
    ~noted.mixed => \A role \in Roles : Exists(role) => Valid(perms[role])

\* Whoever can enter the organization is among those that its deactivation signs
\* out and its removal sweeps, although the one query goes by role_id and the
\* others by removed_at.
EnteringAreMembers == Entering \subseteq Members

\* A removal never leaves a live organization without the members it swept,
\* unless it was restored, an update saved back the row, or the answer of
\* user-service was lost.
SweptMeansDeleted ==
    (AtRest /\ noted.swept /\ org = "live") => noted.excused

\* At rest, a deleted organization has no members, unless the sweep died or
\* somebody was assigned to it since.
DeletedHasNoMembers ==
    (AtRest /\ org = "deleted") => Members = {} \/ noted.late
=============================================================================
