------------------------- MODULE OrgStructureProofs -------------------------
(***************************************************************************)
(* OrgStructure for any tree, any typologies and users, any number of      *)
(* requests at a time and of leases: what row locks and leases guarantee.  *)
(***************************************************************************)
EXTENDS OrgStructure, TLAPS

-----------------------------------------------------------------------------
(* Paths *)

LEMMA PathType ==
    ASSUME NEW n \in Nodes
    PROVE  /\ Path(n) \subseteq Nodes /\ n \in Path(n)
           /\ Above(n) \subseteq Nodes
           /\ n \notin Departamentos =>
                Parent[n] \in Above(n) /\ Parent[n] \in Nodes /\ n \in Below(Parent[n])
  <1>1. Parent[n] \in Nodes \cup {None}
    BY StructureAssumption
  <1>2. ASSUME n \notin Departamentos
        PROVE  Parent[n] \in Departamentos \cup Areas
    BY <1>2, StructureAssumption DEF Nodes
  <1>3. ASSUME n \notin Departamentos, Parent[n] \in Areas
        PROVE  Parent[Parent[n]] \in Departamentos
    BY <1>3, StructureAssumption
  <1>4. Above(n) \subseteq Nodes
    BY <1>2, <1>3 DEF Above, Nodes
  <1>5. n \notin Departamentos => Parent[n] \in Above(n)
    BY DEF Above
  <1>. QED
    BY <1>4, <1>5 DEF Path, Below

LEMMA BelowType == \A n : Below(n) \subseteq Nodes \ Departamentos
  BY DEF Below, Above

LEMMA NoneIsNothing == None \notin Nodes /\ None \notin Requests /\ None \notin Holders
  BY StructureAssumption

-----------------------------------------------------------------------------
(* What the helpers of the actions do to requests and leases *)

Slots == requests \in [Requests -> Request]

\* Only the slot of r changes.
Moves(r) == \A q \in Requests \ {r} : requests'[q] = requests[q]

LEMMA IdleType == Idle \in Request
  BY DEF Idle, Request

LEMMA BeginEffect ==
    ASSUME Slots, NEW r \in Requests, NEW x \in Request, Begin(r, x)
    PROVE  /\ Slots' /\ Moves(r)
           /\ requests[r] = Idle /\ requests'[r] = x
  BY DEF Slots, Begin, Moves

LEMMA ContinueEffect ==
    ASSUME Slots, NEW r \in Requests, NEW pc \in {"locked", "counted", "join"},
           Continue(r, pc)
    PROVE  /\ Slots' /\ Moves(r)
           /\ requests'[r] = [requests[r] EXCEPT !.pc = pc]
           /\ requests'[r].pc = pc
           /\ requests'[r].node = requests[r].node
           /\ requests'[r].holder = requests[r].holder
           /\ requests'[r].shared = requests[r].shared
           /\ requests'[r].uncounted = requests[r].uncounted
           /\ requests'[r].leased = requests[r].leased
  <1>1. requests[r] \in Request
    BY DEF Slots
  <1>2. requests' = [requests EXCEPT ![r] = [requests[r] EXCEPT !.pc = pc]]
    BY DEF Continue
  <1>3. [requests[r] EXCEPT !.pc = pc] \in Request
    BY <1>1 DEF Request
  <1>. QED
    BY <1>1, <1>2, <1>3 DEF Slots, Moves, Request

\* k is l once r is over.
Without(r, l, k) ==
    /\ k.nodes = l.nodes
    /\ k.removals = l.removals \ {r}
    /\ k.writer = IF l.writer = r THEN None ELSE l.writer

\* k is l once the removal r has begun.
Overlapped(r, l, k) ==
    /\ k.nodes = l.nodes
    /\ k.writer = l.writer
    /\ k.removals = IF l.writer = None THEN l.removals ELSE l.removals \cup {r}

LEMMA EndLeases ==
    ASSUME leases \subseteq Lease, NEW r \in Requests, End(r)
    PROVE  /\ leases' \subseteq Lease
           /\ \A l \in leases : \E k \in leases' : Without(r, l, k)
           /\ \A k \in leases' : \E l \in leases : Without(r, l, k)
  <1>. DEFINE After(l) == [l EXCEPT !.writer = IF @ = r THEN None ELSE @,
                                    !.removals = @ \ {r}]
  <1>1. leases' = {After(l) : l \in leases}
    BY DEF End
  <1>2. ASSUME NEW l \in leases
        PROVE  After(l) \in Lease /\ Without(r, l, After(l))
    <2>1. l \in Lease
      OBVIOUS
    <2>. QED
      BY <2>1 DEF Lease, Without
  <1>. HIDE DEF After
  <1>. QED
    BY <1>1, <1>2

LEMMA EndEffect ==
    ASSUME Slots, leases \subseteq Lease, NEW r \in Requests, End(r)
    PROVE  /\ Slots' /\ Moves(r) /\ requests'[r] = Idle
           /\ leases' \subseteq Lease
           /\ \A l \in leases : \E k \in leases' : Without(r, l, k)
           /\ \A k \in leases' : \E l \in leases : Without(r, l, k)
  <1>1. requests' = [requests EXCEPT ![r] = Idle]
    BY DEF End
  <1>2. Slots' /\ Moves(r) /\ requests'[r] = Idle
    BY <1>1, IdleType DEF Slots, Moves
  <1>. QED
    BY <1>2, EndLeases

\* A removal begins.
LEMMA RemoveStartEffect ==
    ASSUME TypeOK, NEW r \in Requests, NEW n \in Nodes, RemoveStart(r, n)
    PROVE  /\ Slots' /\ Moves(r) /\ requests[r] = Idle
           /\ requests'[r] \in Request
           /\ requests'[r].pc = "count" /\ requests'[r].node = n
           /\ requests'[r].uncounted = Services /\ requests'[r].shared = {}
           /\ leases' \subseteq Lease
           /\ \A l \in leases : \E k \in leases' : Overlapped(r, l, k)
           /\ \A k \in leases' : \E l \in leases : Overlapped(r, l, k)
           /\ UNCHANGED <<status, refs, unguarded, late>>
  <1>. DEFINE x == [Idle EXCEPT !.pc = "count", !.node = n, !.uncounted = Services]
              After(l) == IF l.writer = None THEN l
                          ELSE [l EXCEPT !.removals = @ \cup {r}]
  <1>1. /\ x \in Request /\ x.pc = "count" /\ x.node = n
        /\ x.uncounted = Services /\ x.shared = {}
    BY DEF Idle, Request
  <1>2. Begin(r, x)
    BY DEF RemoveStart
  <1>3. Slots' /\ Moves(r) /\ requests[r] = Idle /\ requests'[r] = x
    BY <1>1, <1>2, BeginEffect DEF TypeOK, Slots
  <1>4. leases' = {After(l) : l \in leases}
    BY DEF RemoveStart
  <1>5. ASSUME NEW l \in leases
        PROVE  After(l) \in Lease /\ Overlapped(r, l, After(l))
    <2>1. l \in Lease
      BY DEF TypeOK
    <2>. QED
      BY <2>1 DEF Lease, Overlapped
  <1>6. UNCHANGED <<status, refs, unguarded, late>>
    BY DEF RemoveStart
  <1>. HIDE DEF x, After
  <1>. QED
    BY <1>1, <1>3, <1>4, <1>5, <1>6

-----------------------------------------------------------------------------
(* The steps in groups *)

\* A request other than a removal begins.
Started(r) ==
    /\ Slots' /\ Moves(r)
    /\ requests[r] = Idle
    /\ requests'[r].pc \in {"create", "import", "undelete", "resolve", "write"}
    /\ requests'[r].node \in Nodes
    /\ ~requests'[r].leased
    /\ requests'[r].pc = "create" =>
         /\ requests'[r].node \notin Departamentos
         /\ requests'[r].shared = {Parent[requests'[r].node]}
         /\ Live(Parent[requests'[r].node])
         /\ ~LockedForUpdate(Parent[requests'[r].node])
    /\ requests'[r].pc # "create" => requests'[r].shared = {}
    /\ requests'[r].pc \in {"resolve", "write"} => requests'[r].holder \in Holders
    /\ requests'[r].pc = "write" =>
         requests'[r].holder \in Typologies \/ refs[requests'[r].holder].is # "absent"
    /\ UNCHANGED <<status, refs, leases, unguarded, late>>

LEMMA CreateLockStarts ==
    ASSUME Slots, NEW r \in Requests, NEW n \in Areas \cup Cargos, CreateLock(r, n)
    PROVE  Started(r)
  <1>. DEFINE x == [Idle EXCEPT !.pc = "create", !.node = n, !.shared = {Parent[n]}]
  <1>1. n \in Nodes /\ n \notin Departamentos
    BY StructureAssumption DEF Nodes
  <1>2. Parent[n] \in Above(n) /\ Parent[n] \in Nodes
    BY <1>1, PathType
  <1>3. /\ x \in Request /\ x.pc = "create" /\ x.node = n
        /\ x.shared = {Parent[n]} /\ ~x.leased
    BY <1>1, <1>2 DEF Idle, Request
  <1>4. Begin(r, x) /\ Live(Parent[n]) /\ ~LockedForUpdate(Parent[n])
    BY <1>2 DEF CreateLock, AllLive
  <1>5. Slots' /\ Moves(r) /\ requests[r] = Idle /\ requests'[r] = x
    BY <1>3, <1>4, BeginEffect
  <1>. HIDE DEF x
  <1>. QED
    BY <1>1, <1>3, <1>4, <1>5 DEF Started, CreateLock

\* The requests that lock nothing at first.
LEMMA LocklessStarts ==
    ASSUME Slots, NEW r \in Requests, NEW x \in Request, Begin(r, x),
           x.pc \in {"import", "undelete", "resolve", "write"},
           x.node \in Nodes, x.shared = {}, ~x.leased,
           x.pc \in {"resolve", "write"} => x.holder \in Holders,
           x.pc = "write" => x.holder \in Typologies \/ refs[x.holder].is # "absent",
           UNCHANGED <<status, refs, leases, unguarded, late>>
    PROVE  Started(r)
  BY BeginEffect DEF Started

LEMMA ReadStarts ==
    ASSUME Slots, NEW r \in Requests, NEW n \in Nodes,
           ImportRead(r, n) \/ RestoreRead(r, n) \/ UpdateRead(r, n)
    PROVE  Started(r)
  <1>1. PICK pc \in {"import", "undelete"} : Begin(r, [Idle EXCEPT !.pc = pc, !.node = n])
    BY DEF ImportRead, RestoreRead, UpdateRead
  <1>. DEFINE x == [Idle EXCEPT !.pc = pc, !.node = n]
  <1>2. x \in Request /\ x.pc = pc /\ x.node = n /\ x.shared = {} /\ ~x.leased
    BY DEF Idle, Request
  <1>3. UNCHANGED <<status, refs, leases, unguarded, late>>
    BY DEF ImportRead, RestoreRead, UpdateRead
  <1>. HIDE DEF x
  <1>. QED
    BY <1>1, <1>2, <1>3, LocklessStarts DEF x

LEMMA HolderStarts ==
    ASSUME Slots, NEW r \in Requests, NEW n \in Nodes, NEW h \in Holders,
           NEW pc \in {"resolve", "write"},
           Begin(r, [Idle EXCEPT !.pc = pc, !.node = n, !.holder = h]),
           pc = "write" => h \in Typologies \/ refs[h].is # "absent",
           UNCHANGED <<status, refs, leases, unguarded, late>>
    PROVE  Started(r)
  <1>. DEFINE x == [Idle EXCEPT !.pc = pc, !.node = n, !.holder = h]
  <1>1. x \in Request /\ x.pc = pc /\ x.node = n /\ x.holder = h /\ x.shared = {} /\ ~x.leased
    BY DEF Idle, Request
  <1>2. Begin(r, x)
    OBVIOUS
  <1>. HIDE DEF x
  <1>. QED
    BY <1>1, <1>2, LocklessStarts

LEMMA ResolveStarts ==
    ASSUME Slots, NEW r \in Requests, NEW h \in Holders, NEW n \in Nodes,
           ResolveStart(r, h, n)
    PROVE  Started(r)
  BY HolderStarts DEF ResolveStart

LEMMA UnleasedWriteStarts ==
    ASSUME TypeOK, NEW r \in Requests, NEW h \in Holders, NEW n \in Nodes, NEW old \in Typologies,
           \/ h \in Typologies /\ ImportTypologyRead(r, h, n)
           \/ h \in Typologies /\ NewVersionRead(r, h, old)
           \/ h \in Users /\ UpdateUserRead(r, h, n)
    PROVE  Started(r)
  <1>1. PICK m \in Nodes : Begin(r, [Idle EXCEPT !.pc = "write", !.node = m, !.holder = h])
    <2>1. CASE NewVersionRead(r, h, old)
      <3>1. refs[old] \in Ref
        BY DEF TypeOK, Holders
      <3>2. refs[old].node \in Nodes
        BY <2>1, <3>1 DEF NewVersionRead, Counted, Ref
      <3>. QED
        BY <2>1, <3>2 DEF NewVersionRead
    <2>. QED
      BY <2>1 DEF ImportTypologyRead, UpdateUserRead
  <1>2. h \in Typologies \/ refs[h].is # "absent"
    BY DEF UpdateUserRead
  <1>3. UNCHANGED <<status, refs, leases, unguarded, late>>
    BY DEF ImportTypologyRead, NewVersionRead, UpdateUserRead
  <1>. QED
    BY <1>1, <1>2, <1>3, HolderStarts DEF TypeOK, Slots

LEMMA CountReferencesEffect ==
    ASSUME Slots, NEW r \in Requests, NEW service, CountReferences(r, service)
    PROVE  /\ Slots' /\ Moves(r)
           /\ requests[r].pc = "count" /\ requests'[r].pc = "count"
           /\ requests'[r].node = requests[r].node
           /\ requests'[r].shared = requests[r].shared
           /\ requests'[r].uncounted = requests[r].uncounted \ {service}
           /\ UNCHANGED <<status, refs, leases, unguarded, late>>
  <1>1. requests[r] \in Request
    BY DEF Slots
  <1>. DEFINE x == [requests[r] EXCEPT !.uncounted = @ \ {service}]
  <1>2. /\ x \in Request /\ x.pc = requests[r].pc /\ x.node = requests[r].node
        /\ x.shared = requests[r].shared
        /\ x.uncounted = requests[r].uncounted \ {service}
    BY <1>1 DEF Request
  <1>3. requests' = [requests EXCEPT ![r] = x]
    BY DEF CountReferences
  <1>. HIDE DEF x
  <1>4. Slots' /\ Moves(r) /\ requests'[r] = x
    BY <1>2, <1>3 DEF Slots, Moves
  <1>. QED
    BY <1>2, <1>4 DEF CountReferences

LEMMA ResolveLockEffect ==
    ASSUME Slots, NEW r \in Requests, NEW n \in Nodes, ResolveLock(r, n)
    PROVE  /\ Slots' /\ Moves(r)
           /\ requests[r].pc = "resolve" /\ requests'[r].pc = "resolve"
           /\ requests'[r].node = requests[r].node
           /\ requests'[r].shared = requests[r].shared \cup {n}
           /\ UNCHANGED <<status, refs, leases, unguarded, late>>
  <1>1. requests[r] \in Request
    BY DEF Slots
  <1>. DEFINE x == [requests[r] EXCEPT !.shared = @ \cup {n}]
  <1>2. /\ x \in Request /\ x.pc = requests[r].pc /\ x.node = requests[r].node
        /\ x.shared = requests[r].shared \cup {n}
    BY <1>1 DEF Request
  <1>3. requests' = [requests EXCEPT ![r] = x]
    BY DEF ResolveLock
  <1>. HIDE DEF x
  <1>4. Slots' /\ Moves(r) /\ requests'[r] = x
    BY <1>2, <1>3 DEF Slots, Moves
  <1>. QED
    BY <1>2, <1>4 DEF ResolveLock

\* The lease ResolveCommit reserves.
Granted(r) ==
    [ nodes |-> Reserved(r), writer |-> r, removals |-> {q \in Requests : Removing(q)} ]

LEMMA ResolveCommitEffect ==
    ASSUME TypeOK, NEW r \in Requests, ResolveCommit(r),
           requests[r].node \in Nodes
    PROVE  /\ Slots' /\ Moves(r)
           /\ requests[r].pc = "resolve" /\ requests'[r].pc = "write"
           /\ requests'[r].node = requests[r].node
           /\ requests'[r].holder = requests[r].holder
           /\ requests'[r].shared = {} /\ requests'[r].leased
           /\ leases' = leases \cup {Granted(r)} /\ Granted(r) \in Lease
           /\ requests[r].shared = Path(requests[r].node)
           /\ UNCHANGED <<status, refs, unguarded, late>>
  <1>1. requests[r] \in Request
    BY DEF TypeOK
  <1>. DEFINE x == [requests[r] EXCEPT !.pc = "write", !.shared = {}, !.leased = TRUE]
  <1>2. /\ x \in Request /\ x.pc = "write" /\ x.node = requests[r].node
        /\ x.holder = requests[r].holder /\ x.shared = {} /\ x.leased
    BY <1>1 DEF Request
  <1>3. requests' = [requests EXCEPT ![r] = x]
    BY DEF ResolveCommit, TypeOK
  <1>. HIDE DEF x
  <1>4. Slots' /\ Moves(r) /\ requests'[r] = x
    BY <1>2, <1>3 DEF TypeOK, Slots, Moves
  <1>5. Granted(r) \in Lease
    BY PathType DEF Granted, Reserved, Lease
  <1>. QED
    BY <1>2, <1>4, <1>5 DEF ResolveCommit, Granted

\* A user or typology is written without a request of its own.
Administered ==
    \/ \E h \in Users : Dismiss(h) \/ Admit(h) \/ ClearReference(h)
    \/ \E h \in Typologies : RemoveTypology(h)

\* Users never go away, and no reference comes to count as leased.
LEMMA AdministeredEffect ==
    ASSUME TypeOK, Administered
    PROVE  /\ refs' \in [Holders -> Ref]
           /\ \A h \in Holders : h \notin Typologies /\ refs[h].is # "absent" =>
                refs'[h].is # "absent"
           /\ \A h \in Holders : Counted(h)' /\ refs'[h].leased =>
                Counted(h) /\ refs[h].leased /\ refs'[h].node = refs[h].node
           /\ UNCHANGED <<status, leases, requests, unguarded, late>>
  <1>. USE DEF Holders
  <1>1. refs \in [Holders -> Ref]
    BY DEF TypeOK
  <1>2. ASSUME NEW h \in Users, Dismiss(h)
        PROVE  refs'[h] \in Ref /\ refs'[h].is = "uncounted"
    BY <1>1, <1>2 DEF Dismiss, Ref
  <1>3. ASSUME NEW h \in Users, Admit(h)
        PROVE  refs'[h] \in Ref /\ refs'[h].is = "counted" /\ ~refs'[h].leased
    BY <1>1, <1>3 DEF Admit, Ref
  <1>4. ASSUME NEW h \in Users, ClearReference(h)
        PROVE  /\ refs'[h] \in Ref /\ refs'[h].is = refs[h].is /\ ~refs'[h].leased
    BY <1>1, <1>4 DEF ClearReference, Ref
  <1>5. ASSUME NEW h \in Typologies, RemoveTypology(h)
        PROVE  refs'[h] \in Ref /\ ~refs'[h].leased
    BY <1>1, <1>5 DEF RemoveTypology, Ref, NoRef
  <1>6. UNCHANGED <<status, leases, requests, unguarded, late>>
    BY DEF Administered, Dismiss, Admit, ClearReference, RemoveTypology
  <1>7. PICK h \in Holders :
          /\ refs' = [refs EXCEPT ![h] = refs'[h]]
          /\ refs'[h] \in Ref
          /\ h \in Users /\ refs[h].is # "absent" => refs'[h].is # "absent"
          /\ refs'[h].is = "uncounted" \/ ~refs'[h].leased
    <2>1. ASSUME NEW h \in Users, Dismiss(h)
          PROVE  refs' = [refs EXCEPT ![h] = refs'[h]]
      BY <1>1, <2>1 DEF Dismiss
    <2>2. ASSUME NEW h \in Users, Admit(h)
          PROVE  refs' = [refs EXCEPT ![h] = refs'[h]]
      BY <1>1, <2>2 DEF Admit
    <2>3. ASSUME NEW h \in Users, ClearReference(h)
          PROVE  refs' = [refs EXCEPT ![h] = refs'[h]]
      BY <1>1, <2>3 DEF ClearReference
    <2>4. ASSUME NEW h \in Typologies, RemoveTypology(h)
          PROVE  refs' = [refs EXCEPT ![h] = refs'[h]] /\ h \notin Users
      BY <1>1, <2>4, StructureAssumption DEF RemoveTypology
    <2>. QED
      BY <1>2, <1>3, <1>4, <1>5, <2>1, <2>2, <2>3, <2>4 DEF Administered
  <1>8. \A g \in Holders : g # h => refs'[g] = refs[g]
    BY <1>1, <1>7
  <1>9. refs' \in [Holders -> Ref]
    BY <1>1, <1>7
  <1>. QED
    BY <1>1, <1>6, <1>7, <1>8, <1>9 DEF Counted

\* The request r is over.
Ended(r) ==
    /\ Slots' /\ Moves(r) /\ requests'[r] = Idle
    /\ leases' \subseteq Lease
    /\ \A l \in leases : \E k \in leases' : Without(r, l, k)
    /\ \A k \in leases' : \E l \in leases : Without(r, l, k)

LEMMA EndIsEnded ==
    ASSUME TypeOK, NEW r \in Requests, End(r)
    PROVE  Ended(r)
  BY EndEffect DEF TypeOK, Slots, Ended

\* It ends by writing a row without a lock on its parent, or finds it there.
Undeleted(r) ==
    /\ End(r)
    /\ \/ UNCHANGED <<status, unguarded>>
       \/ \E n \in Nodes : WriteUnguarded(n)
    /\ UNCHANGED <<refs, late>>

LEMMA UndeletedSteps ==
    ASSUME NEW r \in Requests, requests[r].node \in Nodes,
           ImportInsert(r) \/ UndeleteCommit(r)
    PROVE  Undeleted(r)
  BY DEF ImportInsert, UndeleteCommit, Undeleted

Step(r) ==
    \/ Started(r)
    \/ \E n \in Nodes : RemoveStart(r, n) \/ ResolveLock(r, n)
    \/ \E service \in Services : CountReferences(r, service)
    \/ RemoveLock(r) \/ RemoveCount(r) \/ RemoveCommit(r)
    \/ CreateInsert(r) \/ ImportInsert(r) \/ UndeleteCommit(r)
    \/ ResolveCommit(r) \/ WriteReference(r) \/ WriteNewUser(r) \/ JoinOrg(r)
    \/ Fail(r)

LEMMA NextCases ==
    ASSUME TypeOK, Next
    PROVE  \/ \E r \in Requests : Step(r)
           \/ Administered
           \/ \E n \in Departamentos : CreateDepartamento(n)
           \/ \E l \in leases : Expire(l)
  <1>1. Slots
    BY DEF TypeOK, Slots
  <1>2. ASSUME NEW r \in Requests, NEW n \in Areas \cup Cargos, CreateLock(r, n)
        PROVE  Step(r)
    BY <1>1, <1>2, CreateLockStarts DEF Step
  <1>3. ASSUME NEW r \in Requests, NEW n \in Nodes,
               ImportRead(r, n) \/ RestoreRead(r, n) \/ UpdateRead(r, n)
        PROVE  Step(r)
    BY <1>1, <1>3, ReadStarts DEF Step
  <1>4. ASSUME NEW r \in Requests, NEW n \in Nodes, NEW h \in Holders, ResolveStart(r, h, n)
        PROVE  Step(r)
    BY <1>1, <1>4, ResolveStarts DEF Step
  <1>5. ASSUME NEW r \in Requests, NEW n \in Nodes, NEW h \in Typologies, ImportTypologyRead(r, h, n)
        PROVE  Step(r)
    BY <1>5, UnleasedWriteStarts DEF Step, Holders
  <1>6. ASSUME NEW r \in Requests, NEW h \in Typologies, NEW old \in Typologies, NewVersionRead(r, h, old)
        PROVE  Step(r)
    <2>1. refs[old] \in Ref /\ refs[old].node # None
      BY <1>6 DEF TypeOK, Holders, NewVersionRead, Counted
    <2>2. refs[old].node \in Nodes
      BY <2>1 DEF Ref
    <2>. QED
      BY <1>6, <2>2, UnleasedWriteStarts DEF Step, Holders
  <1>7. ASSUME NEW r \in Requests, NEW n \in Nodes, NEW h \in Users, UpdateUserRead(r, h, n)
        PROVE  Step(r)
    <2>1. h \in Holders
      BY DEF Holders
    <2>2. Started(r)
      BY <1>1, <1>7, <2>1, HolderStarts DEF UpdateUserRead
    <2>. QED
      BY <2>2 DEF Step
  <1>. QED
    BY <1>2, <1>3, <1>4, <1>5, <1>6, <1>7 DEF Next, Step, Administered

-----------------------------------------------------------------------------
(* Types *)

LEMMA UnguardedType ==
    ASSUME TypeOK, NEW n \in Nodes, WriteUnguarded(n)
    PROVE  /\ status' \in [Nodes -> {"absent", "live", "deleted"}]
           /\ unguarded' \subseteq Nodes \ Departamentos
  BY DEF TypeOK, WriteUnguarded

LEMMA ReferenceType ==
    ASSUME TypeOK, NEW r \in Requests, requests[r].node \in Nodes,
           requests[r].holder \in Holders,
           WriteReference(r) \/ WriteNewUser(r) \/ JoinOrg(r)
    PROVE  /\ refs' \in [Holders -> Ref]
           /\ \A g \in Holders : g # requests[r].holder => refs'[g] = refs[g]
           /\ refs'[requests[r].holder].is = "absent" =>
                refs[requests[r].holder].is = "absent"
  <1>. DEFINE h == requests[r].holder
  <1>1. refs \in [Holders -> Ref] /\ refs[h] \in Ref
    BY DEF TypeOK
  <1>2. requests[r] \in Request
    BY DEF TypeOK
  <1>3. requests[r].leased \in BOOLEAN
    BY <1>2 DEF Request
  <1>4. ASSUME WriteReference(r)
        PROVE  refs' = [refs EXCEPT ![h] = refs'[h]] /\ refs'[h] \in Ref
               /\ refs'[h].is \in {"counted", refs[h].is}
    BY <1>1, <1>3, <1>4 DEF WriteReference, Ref
  <1>5. ASSUME WriteNewUser(r)
        PROVE  refs' = [refs EXCEPT ![h] = refs'[h]] /\ refs'[h] \in Ref
               /\ refs'[h].is = "uncounted"
    BY <1>1, <1>3, <1>5 DEF WriteNewUser, Ref
  <1>6. ASSUME JoinOrg(r)
        PROVE  refs' = [refs EXCEPT ![h] = refs'[h]] /\ refs'[h] \in Ref
               /\ refs'[h].is = "counted"
    BY <1>1, <1>6 DEF JoinOrg, Ref
  <1>. QED
    BY <1>1, <1>4, <1>5, <1>6

\* What the fields of a request say, depending on where it is.
ShapeOf(r) ==
    /\ requests[r].pc # "idle" => requests[r].node \in Nodes
    /\ requests[r].pc = "create" =>
         /\ requests[r].node \notin Departamentos
         /\ Parent[requests[r].node] \in requests[r].shared
    /\ requests[r].pc \in {"resolve", "write", "join"} => requests[r].holder \in Holders
    /\ requests[r].pc = "write" /\ ~requests[r].leased =>
         \/ requests[r].holder \in Typologies
         \/ refs[requests[r].holder].is # "absent"
    /\ requests[r].pc = "join" => requests[r].leased

Shape == \A r \in Requests : ShapeOf(r)

Typed == TypeOK /\ Shape

LEMMA EndedType ==
    ASSUME TypeOK, NEW r \in Requests, Ended(r),
           status' \in [Nodes -> {"absent", "live", "deleted"}],
           refs' \in [Holders -> Ref],
           unguarded' \subseteq Nodes \ Departamentos,
           late' \in BOOLEAN
    PROVE  TypeOK'
  BY DEF TypeOK, Ended, Slots

LEMMA StepTypeOK ==
    ASSUME Typed, NEW r \in Requests, Step(r)
    PROVE  TypeOK'
  <1>1. TypeOK /\ Slots
    BY DEF Typed, TypeOK, Slots
  <1>2. requests[r].pc # "idle" => requests[r].node \in Nodes
    BY DEF Typed, Shape, ShapeOf
  <1>3. CASE Started(r)
    BY <1>1, <1>3 DEF Started, TypeOK, Slots
  <1>4. CASE \E n \in Nodes : RemoveStart(r, n)
    BY <1>1, <1>4, RemoveStartEffect DEF TypeOK, Slots
  <1>5. CASE \E n \in Nodes : ResolveLock(r, n)
    BY <1>1, <1>5, ResolveLockEffect DEF TypeOK, Slots
  <1>6. CASE \E service \in Services : CountReferences(r, service)
    BY <1>1, <1>6, CountReferencesEffect DEF TypeOK, Slots
  <1>7. CASE RemoveLock(r) \/ RemoveCount(r)
    <2>1. Slots'
      BY <1>1, <1>7, ContinueEffect DEF RemoveLock, RemoveCount
    <2>. QED
      BY <1>1, <1>7, <2>1 DEF RemoveLock, RemoveCount, TypeOK, Slots
  <1>8. CASE RemoveCommit(r)
    <2>1. Ended(r)
      BY <1>1, <1>8, EndIsEnded DEF RemoveCommit
    <2>2. status' \in [Nodes -> {"absent", "live", "deleted"}]
      BY <1>1, <1>8 DEF RemoveCommit, TypeOK
    <2>. QED
      BY <1>1, <1>8, <2>1, <2>2, EndedType DEF RemoveCommit, TypeOK
  <1>9. CASE CreateInsert(r)
    <2>1. Ended(r)
      BY <1>1, <1>9, EndIsEnded DEF CreateInsert
    <2>2. status' \in [Nodes -> {"absent", "live", "deleted"}]
      BY <1>1, <1>9 DEF CreateInsert, TypeOK
    <2>. QED
      BY <1>1, <1>9, <2>1, <2>2, EndedType DEF CreateInsert, TypeOK
  <1>10. CASE ImportInsert(r) \/ UndeleteCommit(r)
    <2>1. Undeleted(r)
      BY <1>2, <1>10, UndeletedSteps DEF ImportInsert, UndeleteCommit
    <2>2. Ended(r)
      BY <1>1, <2>1, EndIsEnded DEF Undeleted
    <2>3. /\ status' \in [Nodes -> {"absent", "live", "deleted"}]
          /\ unguarded' \subseteq Nodes \ Departamentos
      BY <1>1, <2>1, UnguardedType DEF Undeleted, TypeOK
    <2>. QED
      BY <1>1, <2>1, <2>2, <2>3, EndedType DEF Undeleted, TypeOK
  <1>11. CASE ResolveCommit(r)
    <2>1. requests[r].node \in Nodes
      BY <1>2, <1>11 DEF ResolveCommit
    <2>. QED
      BY <1>1, <1>11, <2>1, ResolveCommitEffect DEF TypeOK, Slots
  <1>12. CASE WriteReference(r) \/ WriteNewUser(r) \/ JoinOrg(r)
    <2>1. requests[r].node \in Nodes /\ requests[r].holder \in Holders
      BY <1>12 DEF Typed, Shape, ShapeOf, WriteReference, WriteNewUser, JoinOrg
    <2>2. refs' \in [Holders -> Ref]
      BY <1>1, <1>12, <2>1, ReferenceType
    <2>3. CASE WriteNewUser(r)
      BY <1>1, <2>2, <2>3, ContinueEffect DEF WriteNewUser, TypeOK, Slots
    <2>4. CASE WriteReference(r) \/ JoinOrg(r)
      <3>1. Ended(r)
        BY <1>1, <2>4, EndIsEnded DEF WriteReference, JoinOrg
      <3>. QED
        BY <1>1, <2>2, <2>4, <3>1, EndedType DEF WriteReference, JoinOrg, TypeOK
    <2>. QED
      BY <1>12, <2>3, <2>4
  <1>13. CASE Fail(r)
    <2>1. Ended(r)
      BY <1>1, <1>13, EndIsEnded DEF Fail
    <2>. QED
      BY <1>1, <1>13, <2>1, EndedType DEF Fail, TypeOK
  <1>. QED
    BY <1>3, <1>4, <1>5, <1>6, <1>7, <1>8, <1>9, <1>10, <1>11, <1>12, <1>13 DEF Step

\* No user goes away.
LEMMA UsersStay ==
    ASSUME Typed, Next
    PROVE  \A h \in Holders : h \notin Typologies /\ refs[h].is # "absent" =>
             refs'[h].is # "absent"
  <1>1. TypeOK
    BY DEF Typed
  <1>2. ASSUME NEW r \in Requests, WriteReference(r) \/ WriteNewUser(r) \/ JoinOrg(r)
        PROVE  \A h \in Holders : refs[h].is # "absent" => refs'[h].is # "absent"
    <2>1. requests[r].node \in Nodes /\ requests[r].holder \in Holders
      BY <1>2 DEF Typed, Shape, ShapeOf, WriteReference, WriteNewUser, JoinOrg
    <2>. QED
      BY <1>1, <1>2, <2>1, ReferenceType
  <1>3. ASSUME NEW r \in Requests, Step(r), refs' # refs
        PROVE  WriteReference(r) \/ WriteNewUser(r) \/ JoinOrg(r)
    BY <1>3 DEF Step, Started, RemoveStart, ResolveLock, CountReferences, RemoveLock,
       RemoveCount, RemoveCommit, CreateInsert, ImportInsert, UndeleteCommit,
       ResolveCommit, Fail
  <1>4. CASE Administered
    BY <1>1, <1>4, AdministeredEffect
  <1>5. CASE \E r \in Requests : Step(r)
    BY <1>2, <1>3, <1>5
  <1>6. CASE \E n \in Departamentos : CreateDepartamento(n)
    BY <1>6 DEF CreateDepartamento
  <1>7. CASE \E l \in leases : Expire(l)
    BY <1>7 DEF Expire
  <1>. QED
    BY <1>1, <1>4, <1>5, <1>6, <1>7, NextCases

LEMMA StepShape ==
    ASSUME Typed, NEW r \in Requests, Step(r)
    PROVE  Moves(r) /\ ShapeOf(r)'
  <1>1. TypeOK /\ Slots /\ ShapeOf(r)
    BY DEF Typed, TypeOK, Slots, Shape
  <1>2. CASE Started(r)
    BY <1>2 DEF Started, ShapeOf
  <1>3. CASE \E n \in Nodes : RemoveStart(r, n)
    BY <1>1, <1>3, RemoveStartEffect DEF ShapeOf
  <1>4. CASE \E n \in Nodes : ResolveLock(r, n)
    <2>1. PICK n \in Nodes : ResolveLock(r, n)
      BY <1>4
    <2>2. requests'[r].holder = requests[r].holder
      BY <1>1, <2>1 DEF ResolveLock, Slots, Request
    <2>. QED
      BY <1>1, <2>1, <2>2, ResolveLockEffect DEF ShapeOf
  <1>5. CASE \E service \in Services : CountReferences(r, service)
    BY <1>1, <1>5, CountReferencesEffect DEF ShapeOf
  <1>6. CASE RemoveLock(r) \/ RemoveCount(r)
    BY <1>1, <1>6, ContinueEffect DEF RemoveLock, RemoveCount, ShapeOf
  <1>7. CASE ResolveCommit(r)
    BY <1>1, <1>7, ResolveCommitEffect DEF ResolveCommit, ShapeOf
  <1>8. CASE WriteNewUser(r)
    <2>1. requests[r].pc = "write" /\ Continue(r, "join")
      BY <1>8 DEF WriteNewUser
    <2>2. requests[r].leased
      BY <1>1, <1>8, StructureAssumption DEF ShapeOf, WriteNewUser
    <2>. QED
      BY <1>1, <2>1, <2>2, ContinueEffect DEF ShapeOf
  <1>9. CASE End(r)
    <2>1. Ended(r)
      BY <1>1, <1>9, EndIsEnded
    <2>. QED
      BY <2>1 DEF Ended, ShapeOf, Idle
  <1>10. Step(r) => \/ Started(r) \/ RemoveLock(r) \/ RemoveCount(r) \/ ResolveCommit(r)
                    \/ WriteNewUser(r) \/ End(r)
                    \/ \E n \in Nodes : RemoveStart(r, n) \/ ResolveLock(r, n)
                    \/ \E service \in Services : CountReferences(r, service)
    BY DEF Step, RemoveCommit, CreateInsert, ImportInsert, UndeleteCommit, WriteReference,
       JoinOrg, Fail
  <1>. QED
    BY <1>2, <1>3, <1>4, <1>5, <1>6, <1>7, <1>8, <1>9, <1>10

LEMMA TypedAlways == Spec => []Typed
  <1>1. Init => Typed
    <2>1. Init => TypeOK
      <3>1. NoRef \in Ref
        BY DEF NoRef, Ref
      <3>. QED
        BY <3>1, IdleType DEF Init, TypeOK
    <2>2. Init => Shape
      BY DEF Init, Shape, ShapeOf, Idle
    <2>. QED
      BY <2>1, <2>2 DEF Typed
  <1>2. Typed /\ [Next]_vars => Typed'
    <2>. SUFFICES ASSUME Typed, [Next]_vars PROVE Typed'
      OBVIOUS
    <2>1. TypeOK /\ Shape
      BY DEF Typed
    <2>2. CASE UNCHANGED vars
      BY <2>1, <2>2 DEF vars, Typed, TypeOK, Shape, ShapeOf, Ref, Lease, Request
    <2>3. ASSUME Next, NEW q \in Requests, requests'[q] = requests[q]
          PROVE  ShapeOf(q)'
      <3>1. \A h \in Holders : h \notin Typologies /\ refs[h].is # "absent" =>
              refs'[h].is # "absent"
        BY <2>3, UsersStay
      <3>. QED
        BY <2>1, <2>3, <3>1 DEF Shape, ShapeOf
    <2>4. ASSUME NEW r \in Requests, Step(r), Next
          PROVE  Typed'
      <3>1. TypeOK'
        BY <2>4, StepTypeOK
      <3>2. Moves(r) /\ ShapeOf(r)'
        BY <2>4, StepShape
      <3>3. ASSUME NEW q \in Requests
            PROVE  ShapeOf(q)'
        BY <2>3, <2>4, <3>2 DEF Moves
      <3>. QED
        BY <3>1, <3>3 DEF Typed, Shape
    <2>5. ASSUME Next, UNCHANGED requests, TypeOK'
          PROVE  Typed'
      <3>1. ASSUME NEW q \in Requests
            PROVE  ShapeOf(q)'
        BY <2>3, <2>5
      <3>. QED
        BY <2>5, <3>1 DEF Typed, Shape
    <2>6. CASE Next /\ Administered
      BY <2>1, <2>5, <2>6, AdministeredEffect DEF TypeOK
    <2>7. ASSUME Next, NEW n \in Departamentos, CreateDepartamento(n)
          PROVE  Typed'
      BY <2>1, <2>5, <2>7 DEF TypeOK, CreateDepartamento
    <2>8. ASSUME Next, NEW l \in leases, Expire(l)
          PROVE  Typed'
      <3>1. TypeOK'
        BY <2>1, <2>8 DEF TypeOK, Expire
      <3>. QED
        BY <2>5, <2>8, <3>1 DEF Expire
    <2>. QED
      BY <2>1, <2>2, <2>4, <2>6, <2>7, <2>8, NextCases
  <1>. QED
    BY <1>1, <1>2, PTL DEF Spec

\* Every row, reference, lease and request has its type, whatever requests of
\* the org-structure services cross.
THEOREM TypeCorrect == Spec => []TypeOK
  BY TypedAlways, PTL DEF Typed

-----------------------------------------------------------------------------
(* Row locks *)

SharedAreLive == \A r \in Requests : AllLive(requests[r].shared)

\* What is locked for update is locked by nobody else.
Exclusive ==
    \A r, q \in Requests :
        requests[r].pc \in {"locked", "counted"} => requests[r].node \notin requests[q].shared

Locks == SharedAreLive /\ Exclusive

\* Nothing else locks a row, or removes it.
LEMMA LocksKept ==
    ASSUME Locks, NEW r \in Requests, Moves(r),
           requests'[r].shared \subseteq requests[r].shared,
           requests'[r].pc \notin {"locked", "counted"},
           \A n \in Nodes : Live(n) => Live(n)',
           TypeOK
    PROVE  Locks'
  <1>1. \A q \in Requests : requests[q].shared \subseteq Nodes
    BY DEF TypeOK, Request
  <1>2. \A q \in Requests : requests'[q].shared \subseteq requests[q].shared
    BY DEF Moves
  <1>3. SharedAreLive'
    BY <1>1, <1>2 DEF Locks, SharedAreLive, AllLive
  <1>4. Exclusive'
    BY <1>2 DEF Moves, Locks, Exclusive
  <1>. QED
    BY <1>3, <1>4 DEF Locks

LEMMA StepLocks ==
    ASSUME Typed, Locks, NEW r \in Requests, Step(r)
    PROVE  Locks'
  <1>1. TypeOK /\ Slots /\ ShapeOf(r)
    BY DEF Typed, TypeOK, Slots, Shape
  <1>2. CASE Started(r)
    <2>1. CASE requests'[r].pc = "create"
      <3>1. \A q \in Requests : q # r => requests'[q] = requests[q]
        BY <1>2 DEF Started, Moves
      <3>2. UNCHANGED status
        BY <1>2 DEF Started
      <3>. DEFINE p == Parent[requests'[r].node]
      <3>3. requests'[r].shared = {p} /\ Live(p) /\ ~LockedForUpdate(p)
        BY <1>2, <2>1 DEF Started
      <3>. HIDE DEF p
      <3>4. SharedAreLive'
        BY <3>1, <3>2, <3>3 DEF Locks, SharedAreLive, AllLive, Live
      <3>5. Exclusive'
        BY <2>1, <3>1, <3>3 DEF Locks, Exclusive, LockedForUpdate
      <3>. QED
        BY <3>4, <3>5 DEF Locks
    <2>2. CASE requests'[r].pc # "create"
      BY <1>1, <1>2, <2>2, LocksKept DEF Started, Live
    <2>. QED
      BY <2>1, <2>2
  <1>3. CASE \E n \in Nodes : RemoveStart(r, n)
    BY <1>1, <1>3, RemoveStartEffect, LocksKept DEF Live
  <1>4. ASSUME NEW n \in Nodes, ResolveLock(r, n)
        PROVE  Locks'
    <2>1. /\ Moves(r) /\ requests'[r].pc = "resolve"
          /\ requests'[r].shared = requests[r].shared \cup {n}
          /\ UNCHANGED status
      BY <1>1, <1>4, ResolveLockEffect
    <2>2. Live(n) /\ ~LockedForUpdate(n)
      BY <1>4 DEF ResolveLock
    <2>3. SharedAreLive'
      BY <2>1, <2>2 DEF Moves, Locks, SharedAreLive, AllLive, Live
    <2>4. Exclusive'
      BY <2>1, <2>2 DEF Moves, Locks, Exclusive, LockedForUpdate
    <2>. QED
      BY <2>3, <2>4 DEF Locks
  <1>5. CASE \E service \in Services : CountReferences(r, service)
    BY <1>1, <1>5, CountReferencesEffect, LocksKept DEF Live
  <1>6. CASE RemoveLock(r) \/ RemoveCount(r)
    <2>1. /\ Moves(r) /\ requests'[r].node = requests[r].node
          /\ requests'[r].shared = requests[r].shared /\ UNCHANGED status
      BY <1>1, <1>6, ContinueEffect DEF RemoveLock, RemoveCount
    <2>2. SharedAreLive'
      BY <2>1 DEF Moves, Locks, SharedAreLive, AllLive, Live
    <2>3. \A q \in Requests : requests[r].node \notin requests[q].shared
      BY <1>6 DEF RemoveLock, RemoveCount, RowFree, LockedForShare, Locks, Exclusive
    <2>4. Exclusive'
      BY <2>1, <2>3 DEF Moves, Locks, Exclusive
    <2>. QED
      BY <2>2, <2>4 DEF Locks
  <1>7. CASE ResolveCommit(r)
    <2>1. requests[r].node \in Nodes
      BY <1>1, <1>7 DEF ResolveCommit, ShapeOf
    <2>. QED
      BY <1>1, <1>7, <2>1, ResolveCommitEffect, LocksKept DEF Live
  <1>8. CASE WriteNewUser(r)
    BY <1>1, <1>8, ContinueEffect, LocksKept DEF WriteNewUser, Live
  <1>9. ASSUME End(r), \A n \in Nodes : Live(n) => Live(n)'
        PROVE  Locks'
    <2>1. Moves(r) /\ requests'[r] = Idle
      BY <1>1, <1>9, EndIsEnded DEF Ended
    <2>. QED
      BY <1>1, <1>9, <2>1, LocksKept DEF Idle
  <1>10. CASE WriteReference(r) \/ JoinOrg(r) \/ Fail(r)
    BY <1>9, <1>10 DEF WriteReference, JoinOrg, Fail, Live
  <1>11. CASE CreateInsert(r)
    BY <1>1, <1>9, <1>11 DEF CreateInsert, Live, TypeOK
  <1>12. CASE ImportInsert(r) \/ UndeleteCommit(r)
    <2>1. Undeleted(r)
      BY <1>1, <1>12, UndeletedSteps DEF ImportInsert, UndeleteCommit, ShapeOf
    <2>2. \A n \in Nodes : Live(n) => Live(n)'
      BY <1>1, <2>1 DEF Undeleted, WriteUnguarded, Live, TypeOK
    <2>. QED
      BY <1>9, <2>1, <2>2 DEF Undeleted
  <1>13. CASE RemoveCommit(r)
    <2>1. Moves(r) /\ requests'[r] = Idle
      BY <1>1, <1>13, EndIsEnded DEF RemoveCommit, Ended
    <2>2. \A q \in Requests : requests[r].node \notin requests[q].shared
      BY <1>13 DEF RemoveCommit, Locks, Exclusive
    <2>3. \A q \in Requests : requests'[q].shared \subseteq requests[q].shared
      BY <2>1 DEF Moves, Idle
    <2>4. \A n \in Nodes : n # requests[r].node /\ Live(n) => Live(n)'
      BY <1>1, <1>13 DEF RemoveCommit, Live, TypeOK
    <2>5. \A q \in Requests : requests[q].shared \subseteq Nodes
      BY <1>1 DEF TypeOK, Request
    <2>6. SharedAreLive'
      BY <2>2, <2>3, <2>4, <2>5 DEF Locks, SharedAreLive, AllLive
    <2>7. Exclusive'
      BY <2>1, <2>3 DEF Moves, Idle, Locks, Exclusive
    <2>. QED
      BY <2>6, <2>7 DEF Locks
  <1>. QED
    BY <1>2, <1>3, <1>4, <1>5, <1>6, <1>7, <1>8, <1>10, <1>11, <1>12, <1>13 DEF Step

LEMMA LocksAlways == Spec => []Locks
  <1>1. Init => Locks
    BY DEF Init, Locks, SharedAreLive, Exclusive, Idle, AllLive
  <1>2. Typed /\ Locks /\ [Next]_vars => Locks'
    <2>. SUFFICES ASSUME Typed, Locks, [Next]_vars PROVE Locks'
      OBVIOUS
    <2>1. TypeOK
      BY DEF Typed
    <2>2. ASSUME UNCHANGED requests, \A n \in Nodes : Live(n) => Live(n)'
          PROVE  Locks'
      <3>1. \A q \in Requests : requests[q].shared \subseteq Nodes
        BY <2>1 DEF TypeOK, Request
      <3>. QED
        BY <2>2, <3>1 DEF Locks, SharedAreLive, Exclusive, AllLive
    <2>3. CASE UNCHANGED vars
      BY <2>2, <2>3 DEF vars, Live
    <2>4. CASE Administered
      BY <2>1, <2>2, <2>4, AdministeredEffect DEF Live
    <2>5. CASE \E n \in Departamentos : CreateDepartamento(n)
      BY <2>1, <2>2, <2>5 DEF CreateDepartamento, Live, TypeOK
    <2>6. CASE \E l \in leases : Expire(l)
      BY <2>2, <2>6 DEF Expire, Live
    <2>. QED
      BY <2>1, <2>3, <2>4, <2>5, <2>6, StepLocks, NextCases
  <1>. QED
    BY <1>1, <1>2, TypedAlways, PTL DEF Spec

-----------------------------------------------------------------------------
(* Orphans *)

\* Once a removal has counted, a row below comes to life unguarded only: an
\* INSERT waits for the lock.
Childless ==
    \A r \in Requests : requests[r].pc = "counted" =>
        \A m \in Below(requests[r].node) : Live(m) => m \in unguarded

Orphans == Childless /\ OrphansExplained

\* What a step that is no RemoveCount does to the counted removals.
CountedKept ==
    \A q \in Requests : requests'[q].pc = "counted" =>
        requests[q].pc = "counted" /\ requests'[q].node = requests[q].node

LEMMA StepCounted ==
    ASSUME Typed, NEW r \in Requests, Step(r), ~RemoveCount(r)
    PROVE  CountedKept
  <1>1. TypeOK /\ Slots
    BY DEF Typed, TypeOK, Slots
  <1>2. Moves(r)
    BY StepShape
  <1>3. requests'[r].pc # "counted"
    <2>1. CASE Started(r)
      BY <2>1 DEF Started
    <2>2. CASE \E n \in Nodes : RemoveStart(r, n) \/ ResolveLock(r, n)
      BY <1>1, <2>2, RemoveStartEffect, ResolveLockEffect
    <2>3. CASE \E service \in Services : CountReferences(r, service)
      BY <1>1, <2>3, CountReferencesEffect
    <2>4. CASE RemoveLock(r) \/ WriteNewUser(r)
      BY <1>1, <2>4, ContinueEffect DEF RemoveLock, WriteNewUser
    <2>5. CASE ResolveCommit(r)
      <3>1. requests[r].node \in Nodes
        BY <2>5 DEF Typed, Shape, ShapeOf, ResolveCommit
      <3>. QED
        BY <1>1, <2>5, <3>1, ResolveCommitEffect
    <2>6. CASE End(r)
      BY <1>1, <2>6, EndIsEnded DEF Ended, Idle
    <2>. QED
      BY <2>1, <2>2, <2>3, <2>4, <2>5, <2>6
         DEF Step, RemoveCommit, CreateInsert, ImportInsert, UndeleteCommit, WriteReference,
             JoinOrg, Fail
  <1>. QED
    BY <1>2, <1>3 DEF Moves, CountedKept

\* Only these steps write rows.
RowsKept == UNCHANGED <<status, unguarded>>

LEMMA StepRows ==
    ASSUME NEW r \in Requests, Step(r), ~RowsKept
    PROVE  CreateInsert(r) \/ RemoveCommit(r) \/ ImportInsert(r) \/ UndeleteCommit(r)
  BY DEF Step, RowsKept, Started, RemoveStart, ResolveLock, CountReferences, RemoveLock,
     RemoveCount, ResolveCommit, WriteReference, WriteNewUser, JoinOrg, Fail

\* A row comes to life, and no counted removal is above it unless it is
\* unguarded then.
LEMMA BirthKeepsChildless ==
    ASSUME Childless, CountedKept, NEW n \in Nodes, TypeOK,
           status' = [status EXCEPT ![n] = "live"], unguarded \subseteq unguarded',
           \/ n \in Departamentos
           \/ n \in unguarded'
           \/ ForeignKeysFree(n)
    PROVE  Childless'
  <1>1. ASSUME NEW q \in Requests, requests'[q].pc = "counted", NEW m \in Below(requests'[q].node),
               Live(m)'
        PROVE  m \in unguarded'
    <2>1. requests[q].pc = "counted" /\ m \in Below(requests[q].node)
      BY <1>1 DEF CountedKept
    <2>2. CASE m = n
      <3>1. LockedForUpdate(requests[q].node) /\ requests[q].node \in Above(n)
        BY <2>1, <2>2 DEF LockedForUpdate, Below
      <3>2. n \notin Departamentos
        BY <2>1, <2>2, BelowType
      <3>. QED
        BY <2>2, <3>1, <3>2 DEF ForeignKeysFree
    <2>3. CASE m # n
      <3>1. Live(m)
        BY <1>1, <2>1, <2>3, BelowType DEF Live, TypeOK
      <3>. QED
        BY <2>1, <3>1 DEF Childless
    <2>. QED
      BY <2>2, <2>3
  <1>. QED
    BY <1>1 DEF Childless

LEMMA StepOrphans ==
    ASSUME Typed, Locks, Orphans, NEW r \in Requests, Step(r)
    PROVE  Orphans'
  <1>1. TypeOK /\ Slots /\ ShapeOf(r) /\ Childless /\ OrphansExplained
    BY DEF Typed, TypeOK, Slots, Shape, Orphans
  <1>2. CASE RemoveCount(r)
    <2>1. Moves(r) /\ requests'[r].node = requests[r].node /\ RowsKept
      BY <1>1, <1>2, ContinueEffect DEF RemoveCount, RowsKept
    <2>2. \A m \in Below(requests[r].node) : ~Live(m)
      BY <1>2 DEF RemoveCount
    <2>3. Childless'
      BY <1>1, <2>1, <2>2 DEF Moves, Childless, RowsKept, Live
    <2>. QED
      BY <1>1, <2>1, <2>3 DEF RowsKept, Orphans, OrphansExplained, Live
  <1>3. CASE RowsKept /\ ~RemoveCount(r)
    <2>1. CountedKept
      BY <1>3, StepCounted
    <2>2. Childless'
      BY <1>1, <1>3, <2>1 DEF CountedKept, Childless, RowsKept, Live
    <2>. QED
      BY <1>1, <1>3, <2>2 DEF RowsKept, Orphans, OrphansExplained, Live
  <1>4. CASE CreateInsert(r)
    <2>. DEFINE n == requests[r].node
    <2>1. /\ n \in Nodes /\ n \notin Departamentos /\ Live(Parent[n])
          /\ ForeignKeysFree(n) /\ status' = [status EXCEPT ![n] = "live"]
          /\ UNCHANGED unguarded
      BY <1>1, <1>4 DEF CreateInsert, ShapeOf, Locks, SharedAreLive, AllLive
    <2>2. CountedKept
      BY <1>4, StepCounted DEF CreateInsert, RemoveCount
    <2>. HIDE DEF n
    <2>3. Childless'
      BY <1>1, <2>1, <2>2, BirthKeepsChildless
    <2>4. \A m \in Nodes : Live(m)' => m = n \/ Live(m)
      BY <1>1, <2>1 DEF Live, TypeOK
    <2>5. \A m \in Nodes : Live(m) => Live(m)'
      BY <1>1, <2>1 DEF Live, TypeOK
    <2>6. \A m \in Nodes \ Departamentos : Parent[m] \in Nodes
      BY PathType
    <2>7. OrphansExplained'
      BY <1>1, <2>1, <2>4, <2>5, <2>6 DEF OrphansExplained
    <2>. QED
      BY <2>3, <2>7 DEF Orphans
  <1>5. CASE ImportInsert(r) \/ UndeleteCommit(r)
    <2>1. Undeleted(r)
      BY <1>1, <1>5, UndeletedSteps DEF ImportInsert, UndeleteCommit, ShapeOf
    <2>2. CASE RowsKept
      BY <1>3, <1>5, <2>2 DEF ImportInsert, UndeleteCommit, RemoveCount
    <2>3. ASSUME NEW n \in Nodes, WriteUnguarded(n)
          PROVE  Orphans'
      <3>1. status' = [status EXCEPT ![n] = "live"] /\ unguarded' = unguarded \cup ({n} \ Departamentos)
        BY <2>3 DEF WriteUnguarded
      <3>2. CountedKept
        BY <1>5, StepCounted DEF ImportInsert, UndeleteCommit, RemoveCount
      <3>3. Childless'
        BY <1>1, <3>1, <3>2, BirthKeepsChildless
      <3>4. \A m \in Nodes : (Live(m)' => m = n \/ Live(m)) /\ (Live(m) => Live(m)')
        BY <1>1, <3>1 DEF Live, TypeOK
      <3>5. \A m \in Nodes \ Departamentos : Parent[m] \in Nodes
        BY PathType
      <3>6. OrphansExplained'
        BY <1>1, <3>1, <3>4, <3>5 DEF OrphansExplained
      <3>. QED
        BY <3>3, <3>6 DEF Orphans
    <2>. QED
      BY <2>1, <2>2, <2>3 DEF Undeleted, RowsKept
  <1>6. CASE RemoveCommit(r)
    <2>. DEFINE p == requests[r].node
    <2>1. /\ requests[r].pc = "counted" /\ p \in Nodes
          /\ status' = [status EXCEPT ![p] = "deleted"] /\ unguarded' = unguarded \ {p}
      BY <1>1, <1>6 DEF RemoveCommit, ShapeOf
    <2>2. \A m \in Below(p) : Live(m) => m \in unguarded
      BY <1>1, <2>1 DEF Childless
    <2>3. CountedKept
      BY <1>6, StepCounted DEF RemoveCommit, RemoveCount
    <2>. HIDE DEF p
    <2>4. \A m \in Nodes : Live(m)' <=> m # p /\ Live(m)
      BY <1>1, <2>1 DEF Live, TypeOK
    <2>5. Childless'
      <3>1. \A n : Below(n) \subseteq Nodes
        BY BelowType
      <3>. QED
        BY <1>1, <2>1, <2>3, <2>4, <3>1 DEF Childless, CountedKept
    <2>6. ASSUME NEW m \in Nodes \ Departamentos, Live(m)', ~Live(Parent[m])'
          PROVE  m \in unguarded'
      <3>1. Parent[m] \in Nodes /\ m \in Below(Parent[m])
        BY PathType
      <3>2. Live(m) /\ m # p
        BY <2>4, <2>6
      <3>3. CASE Parent[m] = p
        BY <2>1, <2>2, <3>1, <3>2, <3>3
      <3>4. CASE Parent[m] # p
        BY <1>1, <2>1, <2>4, <2>6, <3>1, <3>2, <3>4 DEF OrphansExplained
      <3>. QED
        BY <3>3, <3>4
    <2>. QED
      BY <2>5, <2>6 DEF Orphans, OrphansExplained
  <1>. QED
    BY <1>2, <1>3, <1>4, <1>5, <1>6, StepRows

LEMMA OrphansAlways == Spec => []Orphans
  <1>1. Init => Orphans
    BY BelowType DEF Init, Orphans, Childless, OrphansExplained, Idle, Live
  <1>2. Typed /\ Locks /\ Orphans /\ [Next]_vars => Orphans'
    <2>. SUFFICES ASSUME Typed, Locks, Orphans, [Next]_vars PROVE Orphans'
      OBVIOUS
    <2>1. TypeOK /\ Childless /\ OrphansExplained
      BY DEF Typed, Orphans
    <2>2. ASSUME UNCHANGED <<status, unguarded, requests>>
          PROVE  Orphans'
      BY <2>1, <2>2 DEF Orphans, Childless, OrphansExplained, Live
    <2>3. CASE UNCHANGED vars
      BY <2>2, <2>3 DEF vars
    <2>4. CASE Administered
      BY <2>1, <2>2, <2>4, AdministeredEffect
    <2>5. ASSUME NEW n \in Departamentos, CreateDepartamento(n)
          PROVE  Orphans'
      <3>1. /\ n \in Nodes /\ status' = [status EXCEPT ![n] = "live"]
            /\ UNCHANGED <<unguarded, requests>>
        BY <2>5 DEF CreateDepartamento, Nodes
      <3>2. CountedKept
        BY <3>1 DEF CountedKept
      <3>3. Childless'
        BY <2>1, <3>1, <3>2, BirthKeepsChildless
      <3>4. \A m \in Nodes : (Live(m)' => m = n \/ Live(m)) /\ (Live(m) => Live(m)')
        BY <2>1, <3>1 DEF Live, TypeOK
      <3>5. \A m \in Nodes \ Departamentos : Parent[m] \in Nodes
        BY PathType
      <3>6. OrphansExplained'
        BY <2>1, <3>1, <3>4, <3>5 DEF OrphansExplained
      <3>. QED
        BY <3>3, <3>6 DEF Orphans
    <2>6. CASE \E l \in leases : Expire(l)
      BY <2>2, <2>6 DEF Expire
    <2>. QED
      BY <2>1, <2>3, <2>4, <2>5, <2>6, StepOrphans, NextCases
  <1>. QED
    BY <1>1, <1>2, TypedAlways, LocksAlways, PTL DEF Spec

\* In a tree of any shape, however many creations and removals cross: a row
\* whose parent is gone was written by an import, a restore or a stale update
\* (departamentos.service.ts:93-103).
THEOREM OrphansExplainedCorrect == Spec => []OrphansExplained
  BY OrphansAlways, PTL DEF Orphans

-----------------------------------------------------------------------------
(* Leases and their nodes *)

\* A removal that has counted found no lease on its node, and none is granted.
Unleased ==
    \A r \in Requests : requests[r].pc = "counted" =>
        \A l \in leases : requests[r].node \notin l.nodes

Held == LeaseHoldsNodes /\ Unleased

\* No new lease, no removal of a row.
LEMMA HeldKept ==
    ASSUME Typed, Held, CountedKept, \A n \in Nodes : Live(n) => Live(n)',
           \A k \in leases' : \E l \in leases : k.nodes = l.nodes
    PROVE  Held'
  <1>1. \A l \in leases : l.nodes \subseteq Nodes
    BY DEF Typed, TypeOK, Lease
  <1>2. LeaseHoldsNodes'
    BY <1>1 DEF Held, LeaseHoldsNodes, AllLive
  <1>3. Unleased'
    BY DEF Held, Unleased, CountedKept
  <1>. QED
    BY <1>2, <1>3 DEF Held

LEMMA StepLive ==
    ASSUME Typed, NEW r \in Requests, Step(r), ~RemoveCommit(r)
    PROVE  \A n \in Nodes : Live(n) => Live(n)'
  <1>1. TypeOK /\ ShapeOf(r)
    BY DEF Typed, Shape
  <1>2. CASE RowsKept
    BY <1>2 DEF RowsKept, Live
  <1>3. CASE CreateInsert(r)
    BY <1>1, <1>3 DEF CreateInsert, Live, TypeOK
  <1>4. CASE ImportInsert(r) \/ UndeleteCommit(r)
    <2>1. Undeleted(r)
      BY <1>1, <1>4, UndeletedSteps DEF ImportInsert, UndeleteCommit, ShapeOf
    <2>. QED
      BY <1>1, <2>1 DEF Undeleted, WriteUnguarded, Live, TypeOK
  <1>. QED
    BY <1>2, <1>3, <1>4, StepRows

\* Only a resolution grants a lease.
LEMMA StepLeases ==
    ASSUME Typed, NEW r \in Requests, Step(r)
    PROVE  \/ UNCHANGED leases
           \/ \E n \in Nodes : RemoveStart(r, n)
           \/ ResolveCommit(r)
           \/ End(r) /\ Ended(r)
  <1>1. TypeOK
    BY DEF Typed
  <1>2. End(r) => Ended(r)
    BY <1>1, EndIsEnded
  <1>. QED
    BY <1>2 DEF Step, Started, ResolveLock, CountReferences, RemoveLock, RemoveCount,
       RemoveCommit, CreateInsert, ImportInsert, UndeleteCommit, WriteReference, WriteNewUser,
       JoinOrg, Fail

LEMMA StepHeld ==
    ASSUME Typed, Locks, Held, NEW r \in Requests, Step(r)
    PROVE  Held'
  <1>1. TypeOK /\ Slots /\ ShapeOf(r) /\ LeaseHoldsNodes /\ Unleased
    BY DEF Typed, TypeOK, Slots, Shape, Held
  <1>2. CASE ResolveCommit(r)
    <2>1. requests[r].node \in Nodes
      BY <1>1, <1>2 DEF ResolveCommit, ShapeOf
    <2>2. /\ Moves(r) /\ leases' = leases \cup {Granted(r)} /\ UNCHANGED status
          /\ requests'[r].pc = "write" /\ requests[r].shared = Path(requests[r].node)
      BY <1>1, <1>2, <2>1, ResolveCommitEffect
    <2>3. Granted(r).nodes = requests[r].shared
      BY <2>2 DEF Granted, Reserved
    <2>4. LeaseHoldsNodes'
      BY <1>1, <2>2, <2>3 DEF LeaseHoldsNodes, AllLive, Live, Locks, SharedAreLive
    <2>5. \A q \in Requests : requests[q].pc = "counted" => requests[q].node \notin Granted(r).nodes
      BY <2>3 DEF Locks, Exclusive
    <2>6. CountedKept
      BY <2>2 DEF Moves, CountedKept
    <2>7. Unleased'
      BY <1>1, <2>2, <2>5, <2>6 DEF Unleased, CountedKept
    <2>. QED
      BY <2>4, <2>7 DEF Held
  <1>3. CASE RemoveCount(r)
    <2>1. Moves(r) /\ requests'[r].node = requests[r].node /\ UNCHANGED <<status, leases>>
      BY <1>1, <1>3, ContinueEffect DEF RemoveCount
    <2>2. \A l \in leases : requests[r].node \notin l.nodes
      BY <1>3 DEF RemoveCount
    <2>. QED
      BY <1>1, <2>1, <2>2 DEF Moves, Held, LeaseHoldsNodes, Unleased, AllLive, Live
  <1>4. CASE RemoveCommit(r)
    <2>1. Ended(r) /\ requests[r].pc = "counted"
          /\ status' = [status EXCEPT ![requests[r].node] = "deleted"]
      BY <1>1, <1>4, EndIsEnded DEF RemoveCommit
    <2>2. \A k \in leases' : \E l \in leases : k.nodes = l.nodes
      BY <2>1 DEF Ended, Without
    <2>3. \A l \in leases : l.nodes \subseteq Nodes /\ requests[r].node \notin l.nodes
      BY <1>1, <2>1 DEF TypeOK, Lease, Unleased
    <2>4. \A n \in Nodes : n # requests[r].node /\ Live(n) => Live(n)'
      BY <1>1, <2>1 DEF Live, TypeOK
    <2>5. LeaseHoldsNodes'
      BY <1>1, <2>2, <2>3, <2>4 DEF LeaseHoldsNodes, AllLive
    <2>6. CountedKept
      BY <1>4, StepCounted DEF RemoveCommit, RemoveCount
    <2>7. Unleased'
      BY <1>1, <2>2, <2>6 DEF Unleased, CountedKept
    <2>. QED
      BY <2>5, <2>7 DEF Held
  <1>5. CASE ~ResolveCommit(r) /\ ~RemoveCount(r) /\ ~RemoveCommit(r)
    <2>1. \A k \in leases' : \E l \in leases : k.nodes = l.nodes
      <3>1. CASE \E n \in Nodes : RemoveStart(r, n)
        <4>1. \A k \in leases' : \E l \in leases : Overlapped(r, l, k)
          BY <1>1, <3>1, RemoveStartEffect
        <4>. QED
          BY <4>1 DEF Overlapped
      <3>2. UNCHANGED leases \/ (\E n \in Nodes : RemoveStart(r, n)) \/ Ended(r)
        BY <1>5, StepLeases
      <3>3. CASE Ended(r)
        BY <3>3 DEF Ended, Without
      <3>. QED
        BY <3>1, <3>2, <3>3
    <2>. QED
      BY <1>5, <2>1, StepCounted, StepLive, HeldKept
  <1>. QED
    BY <1>2, <1>3, <1>4, <1>5

LEMMA HeldAlways == Spec => []Held
  <1>1. Init => Held
    BY DEF Init, Held, LeaseHoldsNodes, Unleased
  <1>2. Typed /\ Locks /\ Held /\ [Next]_vars => Held'
    <2>. SUFFICES ASSUME Typed, Locks, Held, [Next]_vars PROVE Held'
      OBVIOUS
    <2>1. TypeOK
      BY DEF Typed
    <2>2. ASSUME UNCHANGED requests, leases' \subseteq leases,
                 \A n \in Nodes : Live(n) => Live(n)'
          PROVE  Held'
      BY <2>2, HeldKept DEF CountedKept
    <2>3. CASE UNCHANGED vars
      BY <2>2, <2>3 DEF vars, Live
    <2>4. CASE Administered
      BY <2>1, <2>2, <2>4, AdministeredEffect DEF Live
    <2>5. CASE \E n \in Departamentos : CreateDepartamento(n)
      BY <2>1, <2>2, <2>5 DEF CreateDepartamento, Live, TypeOK
    <2>6. CASE \E l \in leases : Expire(l)
      BY <2>2, <2>6 DEF Expire, Live
    <2>. QED
      BY <2>1, <2>3, <2>4, <2>5, <2>6, StepHeld, NextCases
  <1>. QED
    BY <1>1, <1>2, TypedAlways, LocksAlways, PTL DEF Spec

-----------------------------------------------------------------------------
(* Leases and the references they announce *)

\* A lease names the removals in course when its reference is written.
SeesRemovals ==
    \A l \in leases : l.writer # None =>
        \A r \in Requests : Removing(r) => r \in l.removals

\* Some lease on n will still be there when the removal r looks for one.
Covered(r, n) == \E l \in leases : r \in l.removals /\ n \in l.nodes

HasLease(r, nodes) == \E l \in leases : l.writer = r /\ nodes \subseteq l.nodes

WritersLeased ==
    ~late => \A r \in Requests :
        requests[r].pc \in {"write", "join"} /\ requests[r].leased =>
            HasLease(r, Path(requests[r].node))

\* The removal r has still to ask the service of h.
WillAsk(r, h) ==
    /\ requests[r].pc = "count"
    /\ \E service \in requests[r].uncounted : h \in HoldersOf(service)

\* No removal gets past a reference that was leased: it will see the reference
\* or the lease.
RemovalsBlocked ==
    ~late => \A r \in Requests, h \in Holders :
        Removing(r) /\ Counted(h) /\ refs[h].leased /\ requests[r].node \in Path(refs[h].node) =>
            WillAsk(r, h) \/ Covered(r, requests[r].node)

Protected ==
    SeesRemovals /\ WritersLeased /\ RemovalsBlocked /\ LeasedReferencesLive

LEMMA StepRemoving ==
    ASSUME Typed, NEW r \in Requests, Step(r), \A n \in Nodes : ~RemoveStart(r, n)
    PROVE  /\ \A q \in Requests : Removing(q)' => Removing(q) /\ requests'[q].node = requests[q].node
           /\ Removing(r)' => \/ \E service \in Services : CountReferences(r, service)
                              \/ RemoveLock(r) \/ RemoveCount(r)
  <1>1. TypeOK /\ Slots /\ ShapeOf(r)
    BY DEF Typed, TypeOK, Slots, Shape
  <1>2. Moves(r)
    BY StepShape
  <1>3. CASE Started(r)
    BY <1>2, <1>3 DEF Started, Moves, Removing
  <1>4. CASE \E n \in Nodes : ResolveLock(r, n)
    BY <1>1, <1>2, <1>4, ResolveLockEffect DEF Moves, Removing
  <1>5. CASE \E service \in Services : CountReferences(r, service)
    BY <1>1, <1>2, <1>5, CountReferencesEffect DEF Moves, Removing
  <1>6. CASE RemoveLock(r) \/ RemoveCount(r)
    BY <1>1, <1>2, <1>6, ContinueEffect DEF RemoveLock, RemoveCount, Moves, Removing
  <1>7. CASE WriteNewUser(r)
    BY <1>1, <1>2, <1>7, ContinueEffect DEF WriteNewUser, Moves, Removing
  <1>8. CASE ResolveCommit(r)
    <2>1. requests'[r].pc = "write"
      BY <1>1, <1>8, ResolveCommitEffect DEF ResolveCommit, ShapeOf
    <2>. QED
      BY <1>2, <2>1 DEF Moves, Removing
  <1>9. CASE End(r)
    <2>1. requests'[r].pc = "idle"
      BY <1>1, <1>9, EndIsEnded DEF Ended, Idle
    <2>. QED
      BY <1>2, <2>1 DEF Moves, Removing
  <1>. QED
    BY <1>3, <1>4, <1>5, <1>6, <1>7, <1>8, <1>9
       DEF Step, RemoveCommit, CreateInsert, ImportInsert, UndeleteCommit, WriteReference,
           JoinOrg, Fail

\* A step of r takes no lease away from the others.
LEMMA StepCover ==
    ASSUME Typed, NEW r \in Requests, Step(r), NEW q \in Requests, q # r \/ ~End(r)
    PROVE  /\ \A n : Covered(q, n) => Covered(q, n)'
           /\ \A nodes : HasLease(q, nodes) => HasLease(q, nodes)'
  <1>1. TypeOK /\ ShapeOf(r)
    BY DEF Typed, Shape
  <1>2. q # None /\ r # None
    BY NoneIsNothing
  <1>3. ASSUME NEW l \in leases
        PROVE  \E k \in leases' :
                 /\ k.nodes = l.nodes
                 /\ q \in l.removals => q \in k.removals
                 /\ l.writer = q => k.writer = q
    <2>1. CASE \E n \in Nodes : RemoveStart(r, n)
      <3>1. PICK k \in leases' : Overlapped(r, l, k)
        BY <1>1, <2>1, RemoveStartEffect
      <3>. QED
        BY <3>1 DEF Overlapped
    <2>2. CASE ResolveCommit(r)
      BY <1>1, <2>2, ResolveCommitEffect DEF ResolveCommit, ShapeOf
    <2>3. CASE End(r) /\ Ended(r)
      BY <2>3 DEF Ended, Without
    <2>. QED
      BY <2>1, <2>2, <2>3, StepLeases
  <1>4. \A n : Covered(q, n) => Covered(q, n)'
    BY <1>3 DEF Covered
  <1>5. \A nodes : HasLease(q, nodes) => HasLease(q, nodes)'
    BY <1>3 DEF HasLease
  <1>. QED
    BY <1>4, <1>5

\* The references that come to count with a lease.
LEMMA StepReferences ==
    ASSUME Typed, NEW r \in Requests, Step(r), NEW h \in Holders, Counted(h)', refs'[h].leased
    PROVE  \/ Counted(h) /\ refs[h].leased /\ refs'[h].node = refs[h].node
           \/ /\ WriteReference(r) \/ JoinOrg(r)
              /\ requests[r].pc \in {"write", "join"} /\ requests[r].leased
              /\ refs'[h].node = requests[r].node
  <1>1. TypeOK /\ ShapeOf(r) /\ refs \in [Holders -> Ref]
    BY DEF Typed, Shape, TypeOK
  <1>2. CASE refs' = refs
    BY <1>2 DEF Counted
  <1>3. CASE WriteReference(r)
    BY <1>1, <1>3 DEF WriteReference, Counted
  <1>4. CASE JoinOrg(r)
    <2>1. /\ requests[r].pc = "join" /\ requests[r].leased
          /\ refs' = [refs EXCEPT ![requests[r].holder] = refs'[requests[r].holder]]
      BY <1>1, <1>4 DEF JoinOrg, ShapeOf
    <2>2. CASE h = requests[r].holder
      <3>1. refs[h] \in Ref
        BY <1>1
      <3>2. refs'[h].node = refs[h].node /\ refs'[h].leased = (refs[h].leased /\ refs[h].node = requests[r].node)
        BY <1>1, <1>4, <2>2, <3>1 DEF JoinOrg, Ref
      <3>. QED
        BY <1>4, <2>1, <3>2
    <2>3. CASE h # requests[r].holder
      BY <1>1, <2>1, <2>3 DEF Counted
    <2>. QED
      BY <2>2, <2>3
  <1>5. CASE WriteNewUser(r)
    BY <1>1, <1>5 DEF WriteNewUser, Counted
  <1>6. refs' = refs \/ WriteReference(r) \/ JoinOrg(r) \/ WriteNewUser(r)
    BY DEF Step, Started, RemoveStart, ResolveLock, CountReferences, RemoveLock,
       RemoveCount, RemoveCommit, CreateInsert, ImportInsert, UndeleteCommit,
       ResolveCommit, Fail
  <1>. QED
    BY <1>2, <1>3, <1>4, <1>5, <1>6

LEMMA StepSeesRemovals ==
    ASSUME Typed, SeesRemovals, NEW r \in Requests, Step(r)
    PROVE  SeesRemovals'
  <1>1. TypeOK /\ ShapeOf(r)
    BY DEF Typed, Shape
  <1>2. ASSUME NEW n \in Nodes, RemoveStart(r, n)
        PROVE  SeesRemovals'
    <2>1. Moves(r) /\ \A k \in leases' : \E l \in leases : Overlapped(r, l, k)
      BY <1>1, <1>2, RemoveStartEffect
    <2>2. \A q \in Requests : Removing(q)' => Removing(q) \/ q = r
      BY <2>1 DEF Moves, Removing
    <2>. QED
      BY <2>1, <2>2 DEF SeesRemovals, Overlapped
  <1>3. CASE \A n \in Nodes : ~RemoveStart(r, n)
    <2>1. \A q \in Requests : Removing(q)' => Removing(q)
      BY <1>3, StepRemoving
    <2>2. CASE UNCHANGED leases
      BY <2>1, <2>2 DEF SeesRemovals
    <2>3. CASE ResolveCommit(r)
      <3>1. leases' = leases \cup {Granted(r)}
        BY <1>1, <2>3, ResolveCommitEffect DEF ResolveCommit, ShapeOf
      <3>2. Granted(r).removals = {q \in Requests : Removing(q)}
        BY DEF Granted
      <3>. QED
        BY <2>1, <3>1, <3>2 DEF SeesRemovals
    <2>4. CASE Ended(r)
      <3>1. ~Removing(r)'
        BY <2>4 DEF Ended, Idle, Removing
      <3>. QED
        BY <2>1, <2>4, <3>1, NoneIsNothing DEF SeesRemovals, Ended, Without
    <2>. QED
      BY <1>3, <2>2, <2>3, <2>4, StepLeases
  <1>. QED
    BY <1>2, <1>3

LEMMA StepLate ==
    ASSUME NEW r \in Requests, Step(r)
    PROVE  late' = late
  BY DEF Step, Started, RemoveStart, ResolveLock, CountReferences, RemoveLock,
     RemoveCount, RemoveCommit, CreateInsert, ImportInsert, UndeleteCommit,
     ResolveCommit, WriteReference, WriteNewUser, JoinOrg, Fail

LEMMA StepWritersLeased ==
    ASSUME Typed, WritersLeased, NEW r \in Requests, Step(r)
    PROVE  WritersLeased'
  <1>1. TypeOK /\ Slots /\ ShapeOf(r)
    BY DEF Typed, TypeOK, Slots, Shape
  <1>2. Moves(r)
    BY StepShape
  <1>3. ASSUME ~late', NEW q \in Requests, requests'[q].pc \in {"write", "join"},
               requests'[q].leased
        PROVE  HasLease(q, Path(requests[q].node))'
    <2>1. ~late
      BY <1>3, StepLate
    <2>2. ASSUME q # r \/ ~End(r), requests'[q].node = requests[q].node,
                 requests[q].pc \in {"write", "join"}, requests[q].leased
          PROVE  HasLease(q, Path(requests[q].node))'
      <3>. DEFINE nodes == Path(requests[q].node)
      <3>1. HasLease(q, nodes)
        BY <2>1, <2>2 DEF WritersLeased
      <3>2. PICK N : N = nodes
        OBVIOUS
      <3>3. HasLease(q, N)'
        BY <2>2, <3>1, <3>2, StepCover
      <3>4. Path(requests'[q].node) = N
        BY <2>2, <3>2
      <3>. QED
        BY <3>3, <3>4 DEF HasLease, Path, Above
    <2>3. CASE q # r
      BY <1>2, <1>3, <2>2, <2>3 DEF Moves
    <2>4. CASE q = r /\ WriteNewUser(r)
      <3>1. /\ requests'[r].node = requests[r].node /\ requests'[r].leased = requests[r].leased
            /\ requests[r].pc = "write" /\ requests'[r].pc = "join"
        BY <1>1, <2>4, ContinueEffect DEF WriteNewUser
      <3>2. ~End(r)
        <4>1. ASSUME End(r) PROVE FALSE
          BY <1>1, <3>1, <4>1, EndIsEnded DEF Ended, Idle
        <4>. QED
          BY <4>1
      <3>. QED
        BY <1>3, <2>2, <2>4, <3>1, <3>2
    <2>5. CASE q = r /\ ResolveCommit(r)
      <3>1. /\ leases' = leases \cup {Granted(r)} /\ requests'[r].node = requests[r].node
        BY <1>1, <2>5, ResolveCommitEffect DEF ResolveCommit, ShapeOf
      <3>2. Granted(r).writer = r /\ Granted(r).nodes = Path(requests'[r].node)
        BY <3>1 DEF Granted, Reserved
      <3>. QED
        BY <2>5, <3>1, <3>2 DEF HasLease, Path, Above
    <2>6. CASE q = r /\ ~WriteNewUser(r) /\ ~ResolveCommit(r)
      <3>1. ~Started(r)
        BY <1>3, <2>6 DEF Started
      <3>2. ~End(r)
        <4>1. ASSUME End(r) PROVE FALSE
          BY <1>1, <1>3, <2>6, <4>1, EndIsEnded DEF Ended, Idle
        <4>. QED
          BY <4>1
      <3>3. requests'[r].pc \in {"count", "locked", "counted", "resolve"}
        <4>1. CASE \E n \in Nodes : RemoveStart(r, n) \/ ResolveLock(r, n)
          BY <1>1, <4>1, RemoveStartEffect, ResolveLockEffect
        <4>2. CASE \E service \in Services : CountReferences(r, service)
          BY <1>1, <4>2, CountReferencesEffect
        <4>3. CASE RemoveLock(r) \/ RemoveCount(r)
          BY <1>1, <4>3, ContinueEffect DEF RemoveLock, RemoveCount
        <4>. QED
          BY <2>6, <3>1, <3>2, <4>1, <4>2, <4>3
             DEF Step, RemoveCommit, CreateInsert, ImportInsert, UndeleteCommit, WriteReference,
                 JoinOrg, Fail
      <3>. QED
        BY <1>3, <2>6, <3>3
    <2>. QED
      BY <2>3, <2>4, <2>5, <2>6
  <1>. QED
    BY <1>3 DEF WritersLeased

\* A writer that holds a lease is covered against every removal in course.
LEMMA WriterIsCovered ==
    ASSUME Typed, SeesRemovals, WritersLeased, ~late, NEW w \in Requests,
           requests[w].pc \in {"write", "join"}, requests[w].leased,
           NEW q \in Requests, Removing(q), requests[q].node \in Path(requests[w].node)
    PROVE  Covered(q, requests[q].node)
  <1>1. PICK l \in leases : l.writer = w /\ Path(requests[w].node) \subseteq l.nodes
    BY DEF WritersLeased, HasLease
  <1>. QED
    BY <1>1, NoneIsNothing DEF SeesRemovals, Covered

LEMMA StepRemovalsBlocked ==
    ASSUME Typed, SeesRemovals, WritersLeased, RemovalsBlocked, NEW r \in Requests, Step(r)
    PROVE  RemovalsBlocked'
  <1>1. TypeOK /\ Slots /\ ShapeOf(r)
    BY DEF Typed, TypeOK, Slots, Shape
  <1>2. Moves(r)
    BY StepShape
  <1>3. ASSUME ~late', NEW q \in Requests, NEW h \in Holders, Removing(q)', Counted(h)',
               refs'[h].leased, requests'[q].node \in Path(refs'[h].node)
        PROVE  WillAsk(q, h)' \/ Covered(q, requests[q].node)'
    <2>1. ~late
      BY <1>3, StepLate
    <2>2. CASE \E n \in Nodes : q = r /\ RemoveStart(r, n)
      <3>1. requests'[q].pc = "count" /\ requests'[q].uncounted = Services
        BY <1>1, <2>2, RemoveStartEffect
      <3>2. \E service \in Services : h \in HoldersOf(service)
        BY DEF Services, HoldersOf, Holders
      <3>. QED
        BY <3>1, <3>2 DEF WillAsk
    <2>3. CASE \A n \in Nodes : q # r \/ ~RemoveStart(r, n)
      <3>1. Removing(q) /\ requests'[q].node = requests[q].node
        BY <1>2, <1>3, <2>3, StepRemoving DEF Moves, Removing
      <3>2. q # r \/ ~End(r)
        <4>1. ASSUME q = r, End(r) PROVE FALSE
          BY <1>1, <1>3, <4>1, EndIsEnded DEF Ended, Idle, Removing
        <4>. QED
          BY <4>1
      <3>3. ASSUME Covered(q, requests[q].node)
            PROVE  Covered(q, requests[q].node)'
        <4>1. PICK n : n = requests[q].node
          OBVIOUS
        <4>2. Covered(q, n)'
          BY <3>2, <3>3, <4>1, StepCover
        <4>. QED
          BY <3>1, <4>1, <4>2 DEF Covered
      <3>4. CASE Counted(h) /\ refs[h].leased /\ refs'[h].node = refs[h].node
        <4>1. requests[q].node \in Path(refs[h].node)
          BY <1>3, <3>1, <3>4 DEF Path, Above
        <4>2. WillAsk(q, h) \/ Covered(q, requests[q].node)
          BY <2>1, <3>1, <3>4, <4>1 DEF RemovalsBlocked
        <4>3. ASSUME WillAsk(q, h), q # r
              PROVE  WillAsk(q, h)'
          BY <1>2, <4>3 DEF Moves, WillAsk
        <4>4. ASSUME WillAsk(q, h), q = r
              PROVE  WillAsk(q, h)'
          <5>1. \/ \E service \in Services : CountReferences(r, service)
                \/ RemoveLock(r) \/ RemoveCount(r)
            BY <1>3, <2>3, <4>4, StepRemoving
          <5>2. PICK service \in Services : CountReferences(r, service)
            BY <4>4, <5>1 DEF WillAsk, RemoveLock, RemoveCount
          <5>3. h \notin HoldersOf(service)
            BY <3>4, <4>1, <4>4, <5>2 DEF CountReferences, RefersTo
          <5>4. requests'[r].pc = "count" /\ requests'[r].uncounted = requests[r].uncounted \ {service}
            BY <1>1, <5>2, CountReferencesEffect
          <5>. QED
            BY <4>4, <5>3, <5>4 DEF WillAsk
        <4>. QED
          BY <3>3, <4>2, <4>3, <4>4
      <3>5. CASE /\ requests[r].pc \in {"write", "join"} /\ requests[r].leased
                 /\ refs'[h].node = requests[r].node
        <4>1. requests[q].node \in Path(requests[r].node)
          BY <1>3, <3>1, <3>5 DEF Path, Above
        <4>2. Covered(q, requests[q].node)
          BY <2>1, <3>1, <3>5, <4>1, WriterIsCovered
        <4>. QED
          BY <3>3, <4>2
      <3>. QED
        BY <1>3, <3>4, <3>5, StepReferences
    <2>. QED
      BY <2>2, <2>3
  <1>. QED
    BY <1>3 DEF RemovalsBlocked

LEMMA StepReferencesLive ==
    ASSUME Typed, Held, WritersLeased, RemovalsBlocked, LeasedReferencesLive,
           NEW r \in Requests, Step(r)
    PROVE  LeasedReferencesLive'
  <1>1. TypeOK /\ Slots /\ ShapeOf(r) /\ LeaseHoldsNodes /\ Unleased
    BY DEF Typed, TypeOK, Slots, Shape, Held
  <1>2. ASSUME ~late', NEW h \in Holders, Counted(h)', refs'[h].leased, NEW n \in Path(refs'[h].node)
        PROVE  Live(n)'
    <2>1. ~late
      BY <1>2, StepLate
    <2>2. ASSUME NEW m \in Nodes, n \in Path(m)
          PROVE  n \in Nodes
      BY <2>2, PathType
    <2>3. CASE Counted(h) /\ refs[h].leased /\ refs'[h].node = refs[h].node
      <3>1. refs[h].node \in Nodes
        BY <1>1, <2>3 DEF Counted, TypeOK, Ref
      <3>2. n \in Path(refs[h].node) /\ n \in Nodes
        BY <1>2, <2>2, <2>3, <3>1 DEF Path, Above
      <3>3. Live(n)
        BY <2>1, <2>3, <3>2 DEF LeasedReferencesLive, AllLive
      <3>4. CASE RemoveCommit(r)
        <4>1. /\ requests[r].pc = "counted" /\ UNCHANGED refs
              /\ status' = [status EXCEPT ![requests[r].node] = "deleted"]
          BY <3>4 DEF RemoveCommit
        <4>2. n # requests[r].node
          BY <1>1, <2>1, <2>3, <3>2, <4>1
             DEF RemovalsBlocked, Removing, WillAsk, Covered, Unleased
        <4>. QED
          BY <1>1, <3>2, <3>3, <4>1, <4>2 DEF Live, TypeOK
      <3>5. CASE ~RemoveCommit(r)
        BY <3>2, <3>3, <3>5, StepLive
      <3>. QED
        BY <3>4, <3>5
    <2>4. CASE /\ WriteReference(r) \/ JoinOrg(r)
               /\ requests[r].pc \in {"write", "join"} /\ requests[r].leased
               /\ refs'[h].node = requests[r].node
      <3>1. n \in Path(requests[r].node)
        BY <1>2, <2>4 DEF Path, Above
      <3>2. PICK l \in leases : Path(requests[r].node) \subseteq l.nodes
        BY <2>1, <2>4 DEF WritersLeased, HasLease
      <3>3. Live(n)
        BY <1>1, <3>1, <3>2 DEF LeaseHoldsNodes, AllLive
      <3>. QED
        BY <2>4, <3>3 DEF WriteReference, JoinOrg, Live
    <2>. QED
      BY <1>2, <2>3, <2>4, StepReferences
  <1>. QED
    BY <1>2 DEF LeasedReferencesLive, AllLive

\* What happens to no request: no row goes, late only ever rises, a lease that
\* expires without raising it covered nobody, and no reference comes to count as
\* leased.
Outside ==
    /\ UNCHANGED requests
    /\ \A n \in Nodes : Live(n) => Live(n)'
    /\ ~late' => ~late
    /\ leases' \subseteq leases
    /\ ~late' => \A l \in leases : l \in leases' \/ (l.writer = None /\ l.removals = {})
    /\ \A h \in Holders : Counted(h)' /\ refs'[h].leased =>
         Counted(h) /\ refs[h].leased /\ refs'[h].node = refs[h].node

LEMMA OutsideProtected ==
    ASSUME Typed, Protected, Outside
    PROVE  Protected'
  <1>. USE DEF Outside
  <1>1. SeesRemovals /\ WritersLeased /\ RemovalsBlocked /\ LeasedReferencesLive /\ TypeOK
    BY DEF Protected, Typed
  <1>2. SeesRemovals'
    BY <1>1 DEF SeesRemovals, Removing
  <1>3. WritersLeased'
    <2>1. ASSUME ~late', NEW q \in Requests, requests[q].pc \in {"write", "join"}, requests[q].leased
          PROVE  \E l \in leases' : l.writer = q /\ Path(requests[q].node) \subseteq l.nodes
      <3>1. PICK l \in leases : l.writer = q /\ Path(requests[q].node) \subseteq l.nodes
        BY <1>1, <2>1 DEF WritersLeased, HasLease
      <3>. QED
        BY <2>1, <3>1, NoneIsNothing
    <2>. QED
      BY <2>1 DEF WritersLeased, HasLease, Path, Above
  <1>4. RemovalsBlocked'
    <2>1. ASSUME ~late', NEW q \in Requests, NEW h \in Holders, Removing(q), Counted(h)',
                 refs'[h].leased, requests[q].node \in Path(refs'[h].node)
          PROVE  WillAsk(q, h) \/ \E l \in leases' : q \in l.removals /\ requests[q].node \in l.nodes
      <3>1. Counted(h) /\ refs[h].leased /\ refs'[h].node = refs[h].node
        BY <2>1
      <3>2. requests[q].node \in Path(refs[h].node)
        BY <2>1, <3>1 DEF Path, Above
      <3>3. WillAsk(q, h) \/ \E l \in leases : q \in l.removals /\ requests[q].node \in l.nodes
        BY <1>1, <2>1, <3>1, <3>2 DEF RemovalsBlocked, Covered
      <3>. QED
        BY <2>1, <3>3
    <2>. QED
      BY <2>1 DEF RemovalsBlocked, Removing, WillAsk, Covered
  <1>5. LeasedReferencesLive'
    <2>1. ASSUME ~late', NEW h \in Holders, Counted(h)', refs'[h].leased, NEW n \in Path(refs'[h].node)
          PROVE  Live(n)'
      <3>1. Counted(h) /\ refs[h].leased /\ refs'[h].node = refs[h].node
        BY <2>1
      <3>2. refs[h].node \in Nodes
        BY <1>1, <3>1 DEF Counted, TypeOK, Ref
      <3>3. n \in Path(refs[h].node) /\ n \in Nodes
        <4>1. n \in Path(refs[h].node)
          BY <2>1, <3>1 DEF Path, Above
        <4>. QED
          BY <3>2, <4>1, PathType
      <3>. QED
        BY <1>1, <2>1, <3>1, <3>3 DEF LeasedReferencesLive, AllLive
    <2>. QED
      BY <2>1 DEF LeasedReferencesLive, AllLive
  <1>. QED
    BY <1>2, <1>3, <1>4, <1>5 DEF Protected

LEMMA ProtectedAlways == Spec => []Protected
  <1>1. Init => Protected
    <2>. SUFFICES ASSUME Init PROVE Protected
      OBVIOUS
    <2>1. /\ \A r \in Requests : requests[r].pc = "idle"
          /\ \A h \in Holders : refs[h].is = "absent"
          /\ leases = {}
      BY DEF Init, Idle, NoRef
    <2>. QED
      BY <2>1 DEF Protected, SeesRemovals, WritersLeased, RemovalsBlocked, LeasedReferencesLive,
         Removing, Counted
  <1>2. Typed /\ Held /\ Protected /\ [Next]_vars => Protected'
    <2>. SUFFICES ASSUME Typed, Held, Protected, [Next]_vars PROVE Protected'
      OBVIOUS
    <2>1. TypeOK /\ late \in BOOLEAN
      BY DEF Typed, TypeOK
    <2>2. CASE UNCHANGED vars
      <3>1. Outside
        BY <2>2 DEF vars, Outside, Live, Counted
      <3>. QED
        BY <3>1, OutsideProtected
    <2>3. CASE Administered
      <3>1. Outside
        BY <2>1, <2>3, AdministeredEffect DEF Outside, Live
      <3>. QED
        BY <3>1, OutsideProtected
    <2>4. ASSUME NEW n \in Departamentos, CreateDepartamento(n)
          PROVE  Protected'
      <3>1. \A m \in Nodes : Live(m) => Live(m)'
        BY <2>1, <2>4 DEF CreateDepartamento, Live, TypeOK
      <3>2. UNCHANGED <<refs, leases, requests, late>>
        BY <2>4 DEF CreateDepartamento
      <3>3. Outside
        BY <3>1, <3>2 DEF Outside, Counted
      <3>. QED
        BY <3>3, OutsideProtected
    <2>5. ASSUME NEW l \in leases, Expire(l)
          PROVE  Protected'
      <3>1. leases' = leases \ {l} /\ UNCHANGED <<status, refs, requests>>
        BY <2>5 DEF Expire
      <3>2. ~late' => ~late /\ l.writer = None /\ l.removals = {}
        BY <2>5 DEF Expire
      <3>3. Outside
        BY <3>1, <3>2 DEF Outside, Live, Counted
      <3>. QED
        BY <3>3, OutsideProtected
    <2>6. CASE \E r \in Requests : Step(r)
      BY <2>6, StepSeesRemovals, StepWritersLeased, StepRemovalsBlocked, StepReferencesLive
         DEF Protected
    <2>. QED
      BY <2>1, <2>2, <2>3, <2>4, <2>5, <2>6, NextCases
  <1>. QED
    BY <1>1, <1>2, TypedAlways, HeldAlways, PTL DEF Spec

\* However many resolutions and removals cross: the nodes of a lease are there
\* as long as it lasts, and what was written under it stays there afterwards,
\* unless a lease expired under its writer or under a removal in course
\* (structure-leases.service.ts:15-20, external-references.guard.ts:45).
THEOREM LeasesProtectCorrect == Spec => []LeasesProtect
  BY HeldAlways, ProtectedAlways, PTL DEF Held, Protected, LeasesProtect

=============================================================================
