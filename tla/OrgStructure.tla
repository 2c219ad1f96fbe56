---------------------------- MODULE OrgStructure ----------------------------
(***************************************************************************)
(* The departamentos, areas and cargos of one organization (org-service,   *)
(* src/org-structure) and the typologies and users of document-service and *)
(* user-service that refer to them.  Removal is soft, so no foreign key    *)
(* stops it: row locks keep it apart from the creation of children, and    *)
(* leases keep it apart from references other services are about to write. *)
(*                                                                         *)
(* Statements of PostgreSQL (READ COMMITTED) are atomic, transactions are  *)
(* not: they hold their locks until they end.  A statement that waits for  *)
(* a lock is an action that is not enabled.  A check that fails, a timeout *)
(* or a crash ends the request: Fail.                                      *)
(*                                                                         *)
(* Names are left out: a conflict of names only makes a request fail.      *)
(***************************************************************************)
EXTENDS Naturals, FiniteSets

CONSTANTS
    Departamentos, Areas, Cargos,   \* the rows there may ever be
    Parent,         \* of an area its departamento; of a cargo its area or, when
                    \* areaId is null, its departamento
    Typologies,     \* the typologies of document-service
    Users,          \* the users of user-service
    Requests,       \* slots for the requests being served at a time
    None,           \* no row, no request
    MaxLeases       \* bound: leases that have not expired at a time

Nodes == Departamentos \cup Areas \cup Cargos
Holders == Typologies \cup Users

ASSUME StructureAssumption ==
    /\ Departamentos \cap Areas = {}
    /\ (Departamentos \cup Areas) \cap Cargos = {}
    /\ Typologies \cap Users = {}
    /\ None \notin Nodes \cup Holders \cup Requests
    /\ Parent \in [Nodes -> Nodes \cup {None}]
    /\ \A n \in Departamentos : Parent[n] = None
    /\ \A n \in Areas : Parent[n] \in Departamentos
    /\ \A n \in Cargos : Parent[n] \in Departamentos \cup Areas
    /\ MaxLeases \in Nat

VARIABLES
    status,         \* of each row: deleted when deletedAt is set
    refs,           \* what each typology and each user refers to
    leases,         \* table structure_leases, the rows that have not expired
    requests,       \* where each request is
    unguarded,      \* observation: live children written without locking the parent
    late            \* observation: a lease expired too early, see Expire

vars == <<status, refs, leases, requests, unguarded, late>>

\* The path departamento, area, cargo a node stands for, without the node.
Above(n) ==
    IF n \in Departamentos THEN {}
    ELSE {Parent[n]} \cup (IF Parent[n] \in Areas THEN {Parent[Parent[n]]} ELSE {})

Path(n) == {n} \cup Above(n)

Below(n) == {m \in Nodes : n \in Above(m)}

\* node: the departamentoId, areaId and cargoId it has, None when they are null.
\* counted: a reference query of its service finds it.  A typology is found
\* unless deletedAt is set, a user while he has a role in the organization: out
\* of it he is there, but uncounted.
\* leased (observation): the reference came to count under its own lease.
Ref ==
    [ node : Nodes \cup {None}, is : {"absent", "uncounted", "counted"},
      leased : BOOLEAN ]

NoRef == [node |-> None, is |-> "absent", leased |-> FALSE]

Counted(h) == refs[h].is = "counted" /\ refs[h].node # None

\* One row per node in the code, written together.  writer and removals are
\* observations: the request it protects, until that ends, and the removals
\* that overlap with it.
Lease ==
    [ nodes    : SUBSET Nodes,
      writer   : Requests \cup {None},
      removals : SUBSET Requests ]

Services == {"document", "user"}

Request ==
    [ pc        : {"idle", "create", "import", "count", "locked", "counted",
                   "undelete", "resolve", "write", "join"},
      node      : Nodes \cup {None},
      holder    : Holders \cup {None},
      shared    : SUBSET Nodes,     \* rows locked FOR SHARE
      uncounted : SUBSET Services,  \* services still to be asked
      leased    : BOOLEAN ]

Idle ==
    [ pc |-> "idle", node |-> None, holder |-> None, shared |-> {},
      uncounted |-> {}, leased |-> FALSE ]

TypeOK ==
    /\ status \in [Nodes -> {"absent", "live", "deleted"}]
    /\ refs \in [Holders -> Ref]
    /\ leases \subseteq Lease
    /\ requests \in [Requests -> Request]
    /\ unguarded \subseteq Nodes \ Departamentos
    /\ late \in BOOLEAN

Init ==
    /\ status = [n \in Nodes |-> "absent"]
    /\ refs = [h \in Holders |-> NoRef]
    /\ leases = {}
    /\ requests = [r \in Requests |-> Idle]
    /\ unguarded = {}
    /\ late = FALSE

-----------------------------------------------------------------------------
Live(n) == status[n] = "live"
AllLive(nodes) == \A n \in nodes : Live(n)

\* Only a removal locks FOR UPDATE.
Removing(r) == requests[r].pc \in {"count", "locked", "counted"}

LockedForUpdate(n) ==
    \E r \in Requests : requests[r].pc \in {"locked", "counted"} /\ requests[r].node = n

LockedForShare(n) == \E r \in Requests : n \in requests[r].shared

\* An INSERT locks the rows its foreign keys name, and waits for a removal.
ForeignKeysFree(n) == \A p \in Above(n) : ~LockedForUpdate(p)

\* An UPDATE of the row waits for everybody.
RowFree(n) == ~LockedForUpdate(n) /\ ~LockedForShare(n)

Begin(r, request) ==
    /\ requests[r] = Idle
    /\ requests' = [requests EXCEPT ![r] = request]

Continue(r, pc) == requests' = [requests EXCEPT ![r].pc = pc]

\* The request is over: its locks are released, and it no longer counts among
\* those a lease should outlive.
End(r) ==
    /\ requests' = [requests EXCEPT ![r] = Idle]
    /\ leases' = { [l EXCEPT !.writer = IF @ = r THEN None ELSE @,
                             !.removals = @ \ {r}] : l \in leases }

\* The row becomes live in a statement that locked no parent.
WriteUnguarded(n) ==
    /\ status' = [status EXCEPT ![n] = "live"]
    /\ unguarded' = unguarded \cup ({n} \ Departamentos)

-----------------------------------------------------------------------------
(* Creation *)

\* DepartamentosService.create.
CreateDepartamento(n) ==
    /\ status[n] = "absent"
    /\ status' = [status EXCEPT ![n] = "live"]
    /\ UNCHANGED <<refs, leases, requests, unguarded, late>>

\* Mutant: the parent is read without a lock.
CreateWithoutLock(r, n) ==
    /\ status[n] = "absent"
    /\ AllLive(Above(n))
    /\ Begin(r, [Idle EXCEPT !.pc = "create", !.node = n])
    /\ UNCHANGED <<status, refs, leases, unguarded, late>>

\* AreasService.create and CargosService.create: findOneLocked locks the parent
\* FOR SHARE; the departamento of an area is only read.
CreateLock(r, n) ==
    /\ status[n] = "absent"
    /\ AllLive(Above(n))
    /\ ~LockedForUpdate(Parent[n])
    /\ Begin(r, [Idle EXCEPT !.pc = "create", !.node = n, !.shared = {Parent[n]}])
    /\ UNCHANGED <<status, refs, leases, unguarded, late>>

CreateInsert(r) ==
    /\ requests[r].pc = "create"
    /\ status[requests[r].node] = "absent"
    /\ ForeignKeysFree(requests[r].node)
    /\ status' = [status EXCEPT ![requests[r].node] = "live"]
    /\ End(r)
    /\ UNCHANGED <<refs, unguarded, late>>

\* BulkStructureService.importFromExcel, for a row of the sheet: the parent is
\* looked up by name, the child inserted, and no transaction holds them.
ImportRead(r, n) ==
    /\ status[n] = "absent"
    /\ n \notin Departamentos => Live(Parent[n])
    /\ Begin(r, [Idle EXCEPT !.pc = "import", !.node = n])
    /\ UNCHANGED <<status, refs, leases, unguarded, late>>

ImportInsert(r) ==
    /\ requests[r].pc = "import"
    /\ status[requests[r].node] = "absent"
    /\ ForeignKeysFree(requests[r].node)
    /\ WriteUnguarded(requests[r].node)
    /\ End(r)
    /\ UNCHANGED <<refs, late>>

-----------------------------------------------------------------------------
(* Removal *)

\* The parents findOne and findOneDept look for: of a cargo without an area
\* none.
LookedUp(n) == IF n \in Cargos /\ Parent[n] \in Departamentos THEN {n} ELSE Path(n)

\* remove, removeDept: the fast 404.
RemoveStart(r, n) ==
    /\ AllLive(LookedUp(n))
    /\ Begin(r, [Idle EXCEPT !.pc = "count", !.node = n, !.uncounted = Services])
    /\ leases' = { IF l.writer = None THEN l ELSE [l EXCEPT !.removals = @ \cup {r}]
                     : l \in leases }
    /\ UNCHANGED <<status, refs, unguarded, late>>

HoldersOf(service) == IF service = "document" THEN Typologies ELSE Users

RefersTo(h, n) == Counted(h) /\ n \in Path(refs[h].node)

\* ExternalReferencesGuard.assertNone: the two services are asked at a time and
\* answer in any order; a reference, or no answer, stops the removal.
CountReferences(r, service) ==
    /\ requests[r].pc = "count"
    /\ service \in requests[r].uncounted
    /\ \A h \in HoldersOf(service) : ~RefersTo(h, requests[r].node)
    /\ requests' = [requests EXCEPT ![r].uncounted = @ \ {service}]
    /\ UNCHANGED <<status, refs, leases, unguarded, late>>

\* The transaction begins: SELECT ... FOR UPDATE, which finds the row only if
\* it is still live once it has the lock.
RemoveLock(r) ==
    /\ requests[r].pc = "count"
    /\ requests[r].uncounted = {}
    /\ RowFree(requests[r].node)
    /\ Live(requests[r].node)
    /\ Continue(r, "locked")
    /\ UNCHANGED <<status, refs, leases, unguarded, late>>

\* The recount of the areas and cargos, and countActive.
RemoveCount(r) ==
    /\ requests[r].pc = "locked"
    /\ \A m \in Below(requests[r].node) : ~Live(m)
    /\ \A l \in leases : requests[r].node \notin l.nodes
    /\ Continue(r, "counted")
    /\ UNCHANGED <<status, refs, leases, unguarded, late>>

\* softRemove and the commit.
RemoveCommit(r) ==
    /\ requests[r].pc = "counted"
    /\ status' = [status EXCEPT ![requests[r].node] = "deleted"]
    /\ unguarded' = unguarded \ {requests[r].node}
    /\ End(r)
    /\ UNCHANGED <<refs, late>>

-----------------------------------------------------------------------------
(* Restoring and updating, neither of which takes a lock *)

\* restore, restoreDept.
RestoreRead(r, n) ==
    /\ status[n] = "deleted"
    /\ AllLive(LookedUp(n) \ {n})
    /\ Begin(r, [Idle EXCEPT !.pc = "undelete", !.node = n])
    /\ UNCHANGED <<status, refs, leases, unguarded, late>>

\* update, updateDept.
UpdateRead(r, n) ==
    /\ AllLive(LookedUp(n))
    /\ Begin(r, [Idle EXCEPT !.pc = "undelete", !.node = n])
    /\ UNCHANGED <<status, refs, leases, unguarded, late>>

\* The write of either.  repo.restore clears deletedAt.  So does repo.save of
\* the entity update has read: it writes every column that differs from the
\* row, and deletedAt, null in the entity, differs once the row is deleted.
UndeleteCommit(r) ==
    /\ requests[r].pc = "undelete"
    /\ RowFree(requests[r].node)
    /\ IF Live(requests[r].node) THEN UNCHANGED <<status, unguarded>>
                                 ELSE WriteUnguarded(requests[r].node)
    /\ End(r)
    /\ UNCHANGED <<refs, late>>

-----------------------------------------------------------------------------
(* References written by document-service and user-service *)

\* A typology or a user is about to refer to n: resolveStructureById begins.
ResolveStart(r, h, n) ==
    /\ Begin(r, [Idle EXCEPT !.pc = "resolve", !.node = n, !.holder = h])
    /\ UNCHANGED <<status, refs, leases, unguarded, late>>

\* It locks the path FOR SHARE, from the departamento down.
ResolveLock(r, n) ==
    /\ requests[r].pc = "resolve"
    /\ n \in Path(requests[r].node) \ requests[r].shared
    /\ Above(n) \subseteq requests[r].shared
    /\ ~LockedForUpdate(n)
    /\ Live(n)
    /\ requests' = [requests EXCEPT ![r].shared = @ \cup {n}]
    /\ UNCHANGED <<status, refs, leases, unguarded, late>>

\* Mutant: the area is not leased, only its departamento.
ReservedDepartamentoOnly(r) == Path(requests[r].node) \cap Departamentos

\* The nodes it reserves.
Reserved(r) == Path(requests[r].node)

\* It reserves a lease on each and commits; the caller goes on to its write.
ResolveCommit(r) ==
    /\ requests[r].pc = "resolve"
    /\ requests[r].shared = Path(requests[r].node)
    /\ Cardinality(leases) < MaxLeases
    /\ leases' = leases \cup
         {[ nodes |-> Reserved(r), writer |-> r,
            removals |-> {q \in Requests : Removing(q)} ]}
    /\ requests' = [requests EXCEPT ![r].pc = "write", ![r].shared = {},
                                    ![r].leased = TRUE]
    /\ UNCHANGED <<status, refs, unguarded, late>>

\* resolveStructure: names resolve when every node of the path is live.
Resolvable(n) == AllLive(Path(n))

\* BulkImportService of document-service resolves names: no lock, no lease.
ImportTypologyRead(r, h, n) ==
    /\ refs[h].is = "absent"
    /\ Resolvable(n)
    /\ Begin(r, [Idle EXCEPT !.pc = "write", !.node = n, !.holder = h])
    /\ UNCHANGED <<status, refs, leases, unguarded, late>>

\* createNewVersion copies the structure of the typology it replaces.
NewVersionRead(r, h, old) ==
    /\ refs[h].is = "absent"
    /\ Counted(old)
    /\ Begin(r, [Idle EXCEPT !.pc = "write", !.node = refs[old].node, !.holder = h])
    /\ UNCHANGED <<status, refs, leases, unguarded, late>>

\* UserProfileService.update for a caller without a company resolves nothing.
\* Nor does an update of the other columns that has read other nodes than the
\* row now has: save writes back the ones it read.
UpdateUserRead(r, h, n) ==
    /\ refs[h].is # "absent"
    /\ Begin(r, [Idle EXCEPT !.pc = "write", !.node = n, !.holder = h])
    /\ UNCHANGED <<status, refs, leases, unguarded, late>>

\* The write of a typology, or of a user that is there already.
WriteReference(r) ==
    LET h == requests[r].holder IN
    /\ requests[r].pc = "write"
    /\ h \in Typologies \/ refs[h].is # "absent"
    /\ refs' = [refs EXCEPT ![h] =
         [ node |-> requests[r].node, leased |-> requests[r].leased,
           is |-> IF h \in Typologies THEN "counted" ELSE @.is ]]
    /\ End(r)
    /\ UNCHANGED <<status, unguarded, late>>

\* UserRegistrationService.create saves a new user, and his role in the
\* organization in a second write: until then no count sees him.
WriteNewUser(r) ==
    LET h == requests[r].holder IN
    /\ requests[r].pc = "write"
    /\ h \in Users /\ refs[h].is = "absent"
    /\ refs' = [refs EXCEPT ![h] =
         [ node |-> requests[r].node, leased |-> requests[r].leased,
           is |-> "uncounted" ]]
    /\ Continue(r, "join")
    /\ UNCHANGED <<status, leases, unguarded, late>>

\* His nodes may be others by now; their lease was for another request.
JoinOrg(r) ==
    LET h == requests[r].holder IN
    /\ requests[r].pc = "join"
    /\ refs' = [refs EXCEPT ![h].is = "counted",
                            ![h].leased = @ /\ refs[h].node = requests[r].node]
    /\ End(r)
    /\ UNCHANGED <<status, unguarded, late>>

\* A user is removed from the organization, or altogether; he keeps his nodes.
Dismiss(h) ==
    /\ refs[h].is = "counted"
    /\ refs' = [refs EXCEPT ![h].is = "uncounted"]
    /\ UNCHANGED <<status, leases, requests, unguarded, late>>

\* He is assigned to it (assignOrg), or restored: his nodes are not checked.  A
\* new user has none.
Admit(h) ==
    /\ refs[h].is # "counted"
    /\ refs' = [refs EXCEPT ![h].is = "counted", ![h].leased = FALSE]
    /\ UNCHANGED <<status, leases, requests, unguarded, late>>

\* A user's nodes are set to null.
ClearReference(h) ==
    /\ refs[h].node # None
    /\ refs' = [refs EXCEPT ![h].node = None, ![h].leased = FALSE]
    /\ UNCHANGED <<status, leases, requests, unguarded, late>>

\* A typology is deleted, for good.
RemoveTypology(h) ==
    /\ refs[h].is = "counted"
    /\ refs' = [refs EXCEPT ![h] = NoRef]
    /\ UNCHANGED <<status, leases, requests, unguarded, late>>

\* LEASE_TTL_MS pass, by the clock of the database.  The lease was too short if
\* the request it was for, or a removal that overlapped with it, still runs.
Expire(l) ==
    /\ leases' = leases \ {l}
    /\ late' = (late \/ l.writer # None \/ l.removals # {})
    /\ UNCHANGED <<status, refs, requests, unguarded>>

\* A check fails, another service does not answer in time, the process dies:
\* the transaction, if there is one, is rolled back.
Fail(r) ==
    /\ requests[r] # Idle
    /\ End(r)
    /\ UNCHANGED <<status, refs, unguarded, late>>

Next ==
    \/ \E n \in Departamentos : CreateDepartamento(n)
    \/ \E r \in Requests :
         \/ \E n \in Areas \cup Cargos : CreateLock(r, n)
         \/ CreateInsert(r)
         \/ \E n \in Nodes :
              \/ ImportRead(r, n)
              \/ RemoveStart(r, n)
              \/ RestoreRead(r, n)
              \/ UpdateRead(r, n)
              \/ ResolveLock(r, n)
              \/ \E h \in Holders : ResolveStart(r, h, n)
              \/ \E h \in Typologies : ImportTypologyRead(r, h, n)
              \/ \E h \in Users : UpdateUserRead(r, h, n)
         \/ ImportInsert(r)
         \/ \E service \in Services : CountReferences(r, service)
         \/ RemoveLock(r) \/ RemoveCount(r) \/ RemoveCommit(r)
         \/ UndeleteCommit(r)
         \/ ResolveCommit(r)
         \/ \E h, old \in Typologies : NewVersionRead(r, h, old)
         \/ WriteReference(r) \/ WriteNewUser(r) \/ JoinOrg(r)
         \/ Fail(r)
    \/ \E h \in Users : Dismiss(h) \/ Admit(h) \/ ClearReference(h)
    \/ \E h \in Typologies : RemoveTypology(h)
    \/ \E l \in leases : Expire(l)

Spec == Init /\ [][Next]_vars

-----------------------------------------------------------------------------
(* Properties *)

\* However a removal crosses creations, a row inserted under the lock of its
\* parent is never left without it: an orphan is always a row that an import, a
\* restore or a stale update wrote (departamentos.service.ts:93-103).
OrphansExplained ==
    \A n \in Nodes \ Departamentos :
        Live(n) /\ ~Live(Parent[n]) => n \in unguarded

\* While a lease lasts, every node it names is there: no removal slips between
\* the resolution of a path and its lease, or past a lease it has not seen
\* (departamentos.service.ts:206-214).
LeaseHoldsNodes == \A l \in leases : AllLive(l.nodes)

\* A typology or user that got its lease refers to live nodes, as long as every
\* lease outlived the request it was for and the removals that overlapped with
\* that request: the count before the transaction and the leases inside it add
\* up (external-references.guard.ts:45, structure-leases.service.ts:15-20).
LeasedReferencesLive ==
    ~late => \A h \in Holders :
        Counted(h) /\ refs[h].leased => AllLive(Path(refs[h].node))

\* A lease protects its reference before and after the write it announces.
LeasesProtect == LeaseHoldsNodes /\ LeasedReferencesLive

\* "every write path that persists a new org-structure reference must obtain a
\* lease first, or a concurrent delete can't see it coming"
\* (user-registration.service.ts:157-159): with leases that last, no reference
\* that counts is to a removed node.
NoDanglingReference ==
    ~late => \A h \in Holders :
        Counted(h) => AllLive(Path(refs[h].node))
=============================================================================
