# sgd-backend in TLA+

TLA+ models of the backend of a document management system (nine NestJS
services in `src/services`), checked with TLC and, in part, proved with TLAPS.
Every definition is a reading of the TypeScript source; `PROJECT.json` ("map") names the file and lines of each one.

## 1. The system

Kong routes each request to one of nine services. A service owns its database;
services call each other over HTTP and publish events on Kafka. Handlers are
async functions of a NestJS process: two requests to one service interleave at
every `await`, and the Helm chart can run more than one replica, so nothing in
process memory orders them. What does is the database: transactions, row locks
where a handler asks for them, unique constraints.

| Component | State | Operations | Talks to | What is hard |
|---|---|---|---|---|
| workflow state machine | `workflows.status` | `assertValidTransition` | every workflow handler | the assert is a function call, not a constraint |
| workflow CRUD (`workflows.service.ts`) | `workflows`, approval steps | create, update, remove, reads | document- and user-service | update and remove check before they write, without a lock |
| workflow approval | approval steps and actions, the row | startApproval, approve, reject | document-service (review flag), user-service (final users) | read, call, commit: no lock, no second check |
| workflow review cycle | cycles, review steps, the row | createCycle, completeStep, forwardStep, skip, close, cancel | – | one logical position kept in three tables; step orders shifted in bulk |
| idempotency keys | `workflow_idempotency_keys` | get, set around a handler | workflow controller | concurrent retries, TTL, a delete nobody awaits |
| timeline, events | append-only rows, Kafka | record, emitSafe | audit-, notification-service | an event is lost when the process dies after the commit |
| typologies, upload, versions (document-service) | Mongo documents, object storage | upload, createNewVersion, retryExtraction, reconcile at start-up | extractor over Kafka | several writes without a transaction; a repair that races them |
| metadata extraction | none (reads the file) | consume, extract, emit | document-service over Kafka | at-least-once delivery, retries, late results, dead letters |
| auth-service | credentials (Postgres), tokens, contexts, counters (Redis) | login, refresh, switchCompany, revoke, reset | user-, org-service | consumed tokens, scans that miss, whole-row saves |
| users, memberships, registration | Postgres, Redis cache | create, provision, completeRegistration, assignOrg | auth-, org-service | a saga over two services |
| roles and permissions | roles, permissions, `perms:*` cache, thirteen migrations | create, assign, guard, migrate, seed | every guard | a cache filled with what was read before a change; migrations that revert |
| organizations | `orgs` | update, remove with a sweep of memberships, restore | user-service | the answer of the sweep is lost, and the removal taken back |
| org structure and leases | departments, areas, cargos, leases | create, remove, restore, resolve | user-, document-service | a delete against references other services are about to write |
| notification-service | notifications, event streams and their tickets | consume, push, mail | Redis pub/sub | redelivery; worker and stream in different processes, joined by a channel that keeps nothing |
| audit-service | search index | consume, query | Kafka | redelivery |
| packages/common | none | `emitSafe`, `withDlt`, guards | Kafka, Redis | what is given up, and after how many attempts |

What makes each correct:

* **review cycle** – the row, the cycles and the steps tell one story; reviewers
  act in turn, once each; a forward disturbs nobody else; the workflow comes
  back to the final user who started the cycle and cannot be ended meanwhile;
* **approval** – nobody decides for another approver or out of turn; a document
  reaches its final users only with every approval; drafts alone are edited;
  a rejection is final;
* **idempotency** – a client that retries with its key does not repeat the effect;
* **versions** – one active typology per code, also after a crash;
* **extraction** – a result lands on the upload it was computed from; no
  typology stays in PROCESSING for ever;
* **structure** – no user or typology refers to a removed node;
* **sessions** – a refresh token is used once; a revoked user gets no new token;
* **accounts** – a user of user-service and a credential of auth-service agree on
  whether he may log in, whatever dies between the two;
* **access** – a permission that was taken away is not served from the cache; a
  removed organization has no members, a live one keeps them;
* **roles** – the system roles have the documented permissions on whatever path of
  migrations, reverts and seeders the database came;
* **delivery** – what was announced takes effect, once if it can, and the open tabs
  of whom it concerns hear of it, whichever replicas are in between.

`PROJECT.json` lists every component with its status and the hazards, each at
the line where it bites and with the properties that cover it.

## 2. Modules

| Module | Models | Checked by | Proved in |
|---|---|---|---|
| `WorkflowRow` | the row of table `workflows`, its statuses, `VALID_TRANSITIONS`, who finds it in his lists | all of workflow | – |
| `AdminCycle` | `workflow-admin-cycle.service.ts`, and `remove` of `workflows.service.ts` | `admin_cycle` | `AdminCycleProofs` |
| `ReviewQueue` | what `AdminCycle` promises: a queue of reviewers | `admin_cycle` (refinement) | `AdminCycleProofs` |
| `Approval` | `workflow-approval.service.ts`, `create`, `update` and `remove` of `workflows.service.ts`, beside the review cycle's handlers over the same row | `approval`, `approval_terminal` | `ApprovalProofs` |
| `Idempotency` | `idempotency.service.ts`, `withIdempotency` of the controller | `idempotency` | `ApprovalProofs` |
| `OrgStructure` | `org-structure/` of org-service: departamentos, areas, cargos, leases, the import; the typologies and users that refer to them | `org_structure` | `OrgStructureProofs` |
| `AuthSessions` | `auth.service.ts`, the super-admin check of `jwt.guard.ts` | `auth` | `AuthSessionsProofs` |
| `TypologyVersions` | `typologies.service.ts`, `createNewVersion` and its rollback in `document-upload.service.ts`, the unique index, the repair script | `typology` | `TypologyVersionsProofs` |
| `Extraction` | upload, retry and resolution in document-service, the consumer of metadata-extractor-service | `extraction` | `ExtractionProofs` |
| `Accounts` | `user-registration.service.ts`, `user-profile.service.ts`, the avatar, the credentials of auth-service | `accounts` | `UserServiceProofs` |
| `Access` | `user-org.service.ts`, `roles.service.ts`, `permissions.guard.ts`, `orgs.service.ts` | `access` | `UserServiceProofs` |
| `Delivery` | `packages/common/src/kafka`, the consumers, `notifications.service.ts`, `sse.service.ts`, `redis.module.ts`, `email.service.ts`, `audit.service.ts` | `delivery` | `DeliveryProofs` |
| `RoleMigrations` | the migrations of roles and permissions, the seeder, `migrate.ts` | `role_migrations` | `UserServiceProofs` |
| `MC...` | the small instances | | |

### WorkflowRow

A record with the columns some guard reads. Ids and orders that may be SQL NULL
are naturals with `Null == 0`, users are model values with `None`. Text,
timestamps, notes and attachments are left out: no guard depends on them.
`InMyTasks` and `InMyFlows` are the filters of `getMyTasks` and
`getMyAvailable`, the lists from which everybody works.

### AdminCycle

All handlers of this service open a transaction that begins by locking the
workflow row (`pessimistic_write`). That is why each is **one action**; a failed
check throws, the transaction rolls back, and so the check is a guard.

* `workflow` is the row; `cycles[n]` the n-th cycle (they are numbered in
  order); `steps` the rows of `workflow_admin_steps` as they were inserted.
* `completeStep` is two actions, `CompleteStepAndAdvance` and
  `CompleteLastStep`, after its `if (nextStep)`.
* `forwardStep` contains a bulk `UPDATE ... SET step_order = step_order + 1`
  under a unique constraint that is not deferrable. PostgreSQL checks such a
  constraint row by row and promises no order, so the action chooses one:
  `ForwardStep` when some order has no collision, `ForwardRolledBack` when some
  order has one. `rolledBack` only observes the latter.
* `closeWorkflow` and `cancelWorkflow` share the operator `End`.
* `Init` is what the last `approve` leaves behind, for every choice of creator,
  final users and assignee among them.

### Approval

Here no handler locks. Each is **two actions**: `...Read` is the `findOne` with
its joined steps and all the checks, and stores what it read in a slot of
`requests`; `...Commit` is the transaction, which writes by id. Between the two
anything else may run – in `approve` there is even an HTTP call. What a commit
writes comes from the snapshot (the step, the next one, the final users), never
from the present state. `Fail` stands for an exception, a rollback, or a dead
process. Replaced approval steps stay in the sequence as rows that are not
`live`; their approval actions go with them (`ON DELETE CASCADE`), and a commit
that would sign a deleted step fails on its foreign key. An edit and a removal
write nothing of who asked for them, so their slots do not hold the caller.

The handlers that follow the approval lock the row, so each is one action:
`CreateCycle`, `CompleteStep`, `ForwardStep`, `CompleteCycle`, `SkipReviewCycle` and
`End`, with what they check and write there. A review step assigns its reviewer in
the column that names the approver whose turn it is; after a late start the two
meet, since the workflow is back in approval while its cycle runs.

`resubmit` has no endpoint and nothing writes `RETURNED_TO_CREATOR`; both are
left out, and with them `attemptNumber`.

`stale` records which operations committed what another commit had overtaken. Of
the properties only `DecisionsInTurn` holds whatever is stale; each of the others
names the operations that may break it, and holds under all others. Disagreements
1, 4, 5 and 6 (`ApprovalTerminal.cfg`, `ApprovalComments.cfg`) are what happens then.

### Idempotency

One key. A call is at `get`, `run` or `set`; the wrapped operation is one that
can succeed twice (`addNote`). The row is found by key **and** user, while the
upsert conflicts on the key alone; the delete of an expired row is not awaited
and is by key alone, so it is a message on its way (`deletes`). `excuses`
records which of four events took place, to say in `ReexecutionExplained` that
nothing else repeats an effect.

### OrgStructure

Removal is soft (`deleted_at`), so the foreign keys with `RESTRICT` never object.
Two protocols replace them, and the module is about both:

* inside org-service, `create` locks the parent `FOR SHARE` and `remove` locks
  the row `FOR UPDATE` before it counts what is below it;
* across services, `remove` first asks document-service and user-service how
  many references they hold (`CountReferences`, in either order), and then,
  under its lock, counts **leases**: whoever is about to write a reference
  resolves the path in org-service, which locks it `FOR SHARE`, from the
  departamento down, and inserts a lease of 30 s on each node.

A request is a record in a slot of `requests`, with what it read and the locks it
holds; each statement, or group of statements nothing can come between, is an
action; a statement that waits for a lock is an action not enabled. The
departamento is `Parent` of its areas, and an area or, when `areaId` is null,
the departamento `Parent` of a cargo. Three paths take no lock, as in the code:
the Excel import, `restore` (`restoreDept` does not even look at the
departamento) and `update`, whose `save` of the entity it has read writes back
`deletedAt = null` (`UndeleteCommit`, behaviour of TypeORM). Some writers of
references take no lease: document-service's import and `createNewVersion`
(they fill `leased` with `FALSE`), an update of a user by a caller without a
company, an assignment to the organization. A new user is saved before his role
is, and no count sees him in between.

`unguarded`, `leased` and `late` observe: which rows were last written without a
lock on their parent, which references came to count under their own lease, and
whether a lease ever ended before its writer or an overlapping removal did.

### AuthSessions

One user of auth-service: his credential row, the Redis keys of his sessions and
the requests in course. A handler is split at every `await` that another handler
can fall behind; what it read of the row it keeps, and `repository.save` writes
the whole of it back. `SCAN` and `DEL` of the refresh tokens are one action: a
token stored while the scan runs counts as stored before or after it. A demotion
in user-service revokes through a call nobody awaits (`DemoteRevoke`,
`DemoteLost`). `issued` records every pair ever signed, with what it was
authorised by; `seen` whether a save put an old row back (`clobbered`), a reset
died before its revocation (`unrevoked`), and how many revocations there were.

### TypologyVersions

The collection of typologies with its partial unique index, for one code. MongoDB
runs standalone, so `createNewVersion` is four writes and a clean-up, each of
which can fail before or after it was applied, and the process can die between
any two. The marker it leaves on the old document is repaired by `onModuleInit`
of the next start (`Boot...`), read by read and write by write, so that a second
replica can serve, or start, in between. The script that repairs duplicate codes
is `FixDuplicates`. `seen` keeps the heirs of each version, the versions that were
answered, the duplicates of before the index (`twins`) and those whose marker a
start found while another replica was up (`lapped`).

### Extraction

The document of one typology, its file, and the messages between document-service
and the extractor. Any message in flight may be handled next, twice if its
consumer dies before the offset is committed; a send or a save that fails may
have happened. A result carries the typology's id and not the file's, which is
what `crossed` observes: an upload or a resolution under way while a result of
another file was. Extraction itself is a function of the file (`content`).

### Accounts

A user in two databases. A registration, a removal, a restoration, a disabling or
an enabling is a read, a call of auth-service and a save, with a compensating
call when the save fails. The callee reads and saves in two steps and goes on
when its caller has timed out (`orphans`). `seen` observes saves that put an old
row back, invitations that expired, and which change of access was alone.

### Access

Memberships, the roles of one organization with the permissions of one module, the
cache of effective permissions, and the organization's own row in org-service. A
save of a role is two steps, as in TypeORM; the guard reads the cache, then the
tables, then fills the cache. Removing an organization writes its row and calls
user-service to sweep the memberships; when the call fails the row is restored.

### Delivery

A message from the change that announces it to its effect. `EmitSafe` is the
producer, which sends whenever it is called and knows no transaction; its callers
do: `Announce` emits after the commit, `Record`, the audit of a timeline row,
inside the transaction. Then the topic, a worker of `audit-service` or
`notification-service` with the three attempts and the dead letter of `withDlt`,
and the offset. A handler first validates its payload; one it does not accept
(`malformed`, from a producer of another version) is logged and skipped (`Discard`).

An event for a browser tab goes through Redis Pub/Sub, which stores nothing. Every
replica of `notification-service` has two connections: `emit` gives the event to the
client of one, without waiting (`Push`; it is then in `publishing`), and the other
holds the subscription of `onModuleInit`. `Publish` sends the event to the replicas
in `subscribed` at that moment (`inbound`), and `Pmessage` is a replica's turn to
push it to the streams it holds. A subscription breaks, with the events on their way
to it, when its connection does (`CutOff`) or Redis goes out, and is made again by
the client (`Resubscribe`), each replica in its own time; meanwhile `Publish` passes
it over. A client that cannot publish gives up (`PublishFails`). A process that dies
(`Crash`) takes its streams and what its clients held; it comes up again (`Boot`)
only with a subscription, which `onModuleInit` awaits before the consumer starts and
a stream is served. A stream begins in one step (`Connect`): its ticket is used at
once or expires unused.

`unheard` are the tabs that have streamed since the change and were not told of it.
Three variables observe: `lost`, the places where the code gives a message up,
`again`, the messages a consumer was given twice, `deaf`, the tabs whose replica was
without its subscription since the change. To keep the states few, a process crashes
and a store goes out only once some message concerns it; earlier it changes nothing
a message could tell, but that Redis is out or a replica not up yet, which may as
well begin then.

### RoleMigrations

The thirteen migrations of user-service that touch permissions and system roles,
`up` and `down`, as functions on the tables `labels` (the enum), `permissions`,
`roles`, `links`, `held` (assignments) and the two backup tables; foreign keys,
cascades and the cast of the enum column are what makes a statement fail. Between
them run the seeder of the present image and of an older one, edits of a custom
role and assignments. `before` is the stack of tables a chain of safe reverts
should give back.

## 3. What the runs check

| Run | Expects | States | Shows |
|---|---|---|---|
| `admin_cycle` | pass | 282,688 | the row, the cycles and the steps agree; orders stay 1..n and turns are kept; whoever is waited for finds the workflow in his lists; history is frozen; a cycle ends; the three tables implement `ReviewQueue` |
| `approval` | pass | 1,700,206 | whatever requests cross, decisions are made in turn; they are signed by the right approver, no workflow gets to its final users without every approval, one approver has the turn and a cycle runs in its own status as long as no stale request of a kind the property names has committed |
| `approval_terminal` | violation | | a request that read the workflow before a rejection takes it out of `REJECTED` |
| `idempotency` | pass | 28,123 | every repeated effect has one of four causes; a user is only answered with the outcome of his own execution |
| `org_structure` | pass | 2,150,927 | while a lease lasts its nodes are live, and a leased reference stays live unless a lease expired too early; only writes that take no lock make orphans |
| `auth` | pass | 651,910 | a refresh token is spent once; sessions follow the password, the row follows the administrators, and the claim of a demoted super admin is refused, but for the windows the code leaves open |
| `typology` | pass | 1,287,139 | two replicas: a superseded version has a successor, duplicates come from the time without an index, an answered version is kept, but for a start that finds its marker beside another replica |
| `extraction` | pass | 268,235 | a result lands on the file it is of unless an upload crossed it; confirmed data agree with what was extracted; no document stays in PROCESSING |
| `accounts` | pass | 1,863,513 | registration survives what dies in it; removed users cannot log in; the two databases agree after a change that was alone; an invitation never resets a password |
| `access` | pass | 614,916 | where a stale cached permission can come from; a removal that sweeps members is not taken back unless the answer was lost |
| `delivery` | pass | 360,163 | messages do not vanish and are not repeated except where named; every open tab is told unless the message was given up or its own replica had no subscription; a message its producer sends is settled |
| `role_migrations` | pass | 360,366 | the roles in force do not depend on the path of migrations; a pending migration never fails; a safe revert restores |

Beside the runs listed in `PROJECT.json` there are configurations to run by hand.
`<Module>More.cfg` checks further invariants, the type invariant among them, or
another size of the same instance: `AdminCycleMore`, `ApprovalMore`,
`ExtractionMore` (two requests at a time, without liveness), `AccountsMore`,
`AccessMore`, `RoleMigrationsMore`. All of them pass. `OrgStructure`, `Delivery` and
`TypologyVersions` have none: what it would check is proved. The others refute what a comment or a document says; each is named in
section 5.

Several properties name an **observation**, a variable or field that no guard
reads (`stale`, `seen`, `lost`, `again`, `deaf`, `excuses`). They say "this holds unless
that happened", where *that* is an event the code does not handle. The property
then has two halves: nothing else breaks it, which the run shows, and the event
does, which is one of the disagreements or a hazard with a note.

**Bounds.** They are constants in the `.cfg` files, guards in the modules.

* `AdminCycle`: two users play every role, so a user can be creator, reviewer and
  final user at once, and a forward can go to oneself, to the next reviewer or to
  one who already acted. Up to three reviewers plus one forward per original
  step give a shift of two rows, the smallest that can collide. Two cycles let the
  second meet the rows of the first.
* `Approval`: two users and two request slots, each refilled any number of times;
  the lists of approvers begin with different users, so that an edit can replace
  the first approver by another one, and `MaxSteps = 4` allows one replacement of
  two steps by two. Some races need a third request with a snapshot of its own:
  `ApprovalMore` has three for one user, `ApprovalComments` three for two, and
  `ApprovalProofs` any number.
* `Idempotency`: two users, two calls at a time, three executions per user, two
  deletes on their way.
* `OrgStructure`: a departamento with an area, two typologies (one can be a new
  version of the other), a user, two requests and one lease at a time; a path of
  two nodes is the shortest in which leasing a part of it differs from leasing
  all. `OrgStructureProofs` has any tree, with cargos in areas and without.
* `AuthSessions`: two requests at a time, three in all,
  one company, lockout after two failures, one reset. Three are a session, a
  second request that uses it and one that revokes it.
* `TypologyVersions`: two replicas, two requests at a time and in all, three
  documents of one code, one failed write, one crash. A failed roll-back of a
  failed write needs two failures: `TypologyVersionsProofs` has any number.
* `Extraction`: two files, one request (two in `More`), one handler of results,
  one fault. Two files are needed for a result to meet the wrong one.
* `Accounts`: two requests at a time, five in all, two invitations, two avatars,
  one fault.
* `Access`: three requests at a time and in all, two users, one role, one fault: a
  guard, a change and its invalidation.
* `Delivery`: one message, of any kind, two replicas, one tab, one failure, one
  crash or rebalance; stores go out and come back any number of times. Two replicas
  are what it takes for the handler of a message and the stream of its recipient, or
  their subscriptions, to be apart. Topics keep no relation between messages, except that a
  commit resolves those before it; with one message that is the message itself.
* `RoleMigrations`: up to thirteen reverts, that is all of them once, two changes
  by the application, one role assigned at a time, production or not.

Slots, users and replicas that are alike are reduced by symmetry, in no run with a
liveness property.

**Fairness.** `FairSpec` is used where something must eventually happen.

* `AdminCycle`: weak fairness of "some pending step is completed". Nothing in the
  code times a step out; the assumption is about people. `forwardStep` does not
  count as acting, and `CycleEnds` holds since an inserted step cannot forward.
* `Extraction`: a request or handler in course goes on, the extractor consumes, a
  result is handled (consumer groups redeliver), time passes; and strong fairness
  of `RetryClaim`: somebody asks again for an extraction that can be retried. That
  is again about people, since nothing in the code retries by itself; what
  `Settles` shows is that a retry is accepted in every state that needs one.
* `Delivery`: weak fairness of each worker's `Work`, of the Kafka client that sends a
  message or gives it up, and of the Redis client that publishes an event or gives
  it up. `Work` contains `Boot`: the orchestrator starts a dead process again.
  Crashes and rebalances are bounded; the changes, the commits of offsets, the tabs
  and the subscriptions are not fair, nor that a store comes back, since three
  attempts end in a dead letter. Redis is the exception, in the premise of
  `HandledInTheEnd`: a replica that restarts without it does not start, and its
  topics wait (`sse.service.ts:39`).

**Deadlock** is not checked in any run: a workflow that was removed or ended, and a
model whose bounded requests are used up, really stop; elsewhere a request may fail
at any point, and the check would say nothing.

## 4. What is proved

`AdminCycleProofs` proves, for any set of users, any reviewer lists and pools, and
any number of cycles: `TypeOK`, `ActiveCycleConsistent`, `OrdersConsecutive`,
`TurnOrder`, `AssignedUserHasTurn`, `WaitedForFindsIt`, `HistoryFrozen`,
`TerminalFrozen`, the refinement of `ReviewQueue` (`ImplementsReviewQueue`), and
`ReturnedToFinalUser` and `OptionalStepPlaced` of `AdminCycleMore`. The assumptions are `NoneAssumption` (`None` is no user) and
`InputsAssumption` (a reviewer list is a non-empty sequence of users, which the
handler's validation of `stepOrder` enforces).

1. For each handler a *columns* lemma says what it does to every single row
   (`CreateColumns`, `AdvanceColumns`, `LastColumns`, `ForwardColumns`): the
   `EXCEPT`s, the append and the shift are looked at once, there.
2. `ActiveCycleConsistent` is inductive with `TypeOK` alone.
3. `OrdersConsecutive`, `TurnOrder` and `AssignedUserHasTurn` are not: that a
   shift keeps the orders consecutive needs the pending step to be at
   `currentStepOrder`, that a completed step is not shifted needs the later
   ones to wait, and that the assigned user has a turn needs both. `IInv` is
   their conjunction with the first two. `PendingIsCurrent` is the key fact: the
   step that passes `OwnsPendingStep` is the one at `currentStepOrder` of the
   active cycle.
4. `HistoryFrozen` follows from `IInv` by `LaterWaits`: what a forward shifts is
   waiting, hence not completed.
5. `WaitedForFindsIt` is about lists filtered by the row while the turn is in the
   steps. `PendingListed` derives the reviewer's part from `IInv`: a pending step
   is at the current order of the active cycle, hence of the assigned user. The
   final users' part needs `Handover`, an invariant of its own: while the workflow
   waits for its first cycle it is assigned to one of its final users or has none.
6. The refinement needs the mapping to be determined: it picks with `CHOOSE` the
   step of each order and counts the steps of the cycle. `Numbering` says that the
   steps of every cycle are numbered 1..n; `CountNumbered` then has the count from
   a bijection, and `QueueRows` the reviewer at each place of the queue. With them
   each handler is one step of the queue (`StartRefines`, `AdvanceRefines`,
   `LastRefines`, `ForwardRefines`, `SkipRefines`, `EndRefines`, `RemoveRefines`) or
   none: a forward replaces the head where the rows are shifted and one is inserted.
7. `ReturnedToFinalUser` follows the cycle from its start: the running cycle is the
   last one, and whoever started it is a final user, to whom its end assigns the
   workflow.
8. `OptionalStepPlaced` is inductive with `IInv`: an inserted step and the completed
   one behind which it was placed lie at or before the turn of their cycle, and an
   inserted step is not forwarded itself, so a later forward, which shifts what waits
   behind the turn, moves neither (`ForwardPlaced`).

`ApprovalProofs` proves every property of the run `approval`, `TypeOK`,
`TransitionsFollowTable` and `OnlyDraftsEdited`, for any users, lists of approvers,
bound on the steps and number of requests at a time, from `NoneAssumption` and
`ApprovalAssumption` (a list of approvers is a non-empty sequence of users). That
matters here: a property may hold with two requests in course and fail with three.

1. `SlotsKept` says what any commit does to the requests of others: nothing but
   overtake them. The effect of each transaction on the rows is looked at once
   (`StartRows`, `ApproveRows`, `LastRows`, `RejectRows`, `ReplaceRows`).
2. `Turns` is what staleness cannot break. A snapshot goes on to describe the order
   of the rows it names as long as they live, since an edit replaces all rows or
   none; a decision whose step is live thus follows the approval of the steps
   before it. `DecisionsInTurn` is part of it, and an approval of the last step
   leaves all steps approved.
3. `Fresh` says what a request knows that nothing has overtaken: the status it
   checked, and that its step is the current one. `CycleRunsInItsStatus`,
   `OneApproverHasTurn`, `TransitionsFollowTable` and `OnlyDraftsEdited` follow with
   it, each for the operations it does not excuse.
4. `Passed` is for `FinalUsersOnlyAfterAllApprovals`: after the approval, and while
   a cycle runs, all steps are approved unless an edit was late, and the status is
   `PENDING_APPROVAL` only if a start was late.
5. `Named` carries the approver from the row to the snapshot to the decision; it
   starts to fail with a stale start only (`DecisionByItsApprover`). It needs
   `Passed`: a review step that assigns its reviewer finds the workflow in approval
   only after a late start.

`ApprovalProofs` ends with `Idempotency`, whose names do not meet those of `Approval`.
It proves, for any number of users, calls and executions: `KeyTypeOK`, `AnswerIsOwn`
and `ReexecutionExplained`, from `IdempotencyAssumption` (`Nothing` is neither a user
nor a row, the bounds are naturals).

1. `StoredIsOwn` makes `AnswerIsOwn` inductive: what is stored, or about to be, is
   an execution of its own user.
2. `ReexecutionExplained` needs to know what is true as long as nothing excuses a
   repetition (`Orderly`): there is one call at a time and no other user executed
   (`Alone`), nothing has expired, and an execution is stored or about to be
   (`Once`). A call that misses the row then proves that its user has executed
   nothing (`MissOrderly`); an abandoned call that had executed is an excuse.

`AuthSessionsProofs` proves every property of the run `auth` and `TypeOK`, for any
number of request slots, requests, companies, sessions, resets and failed logins,
from `AuthAssumption` (`Global` is no company, the bounds are naturals).

1. `Typed` is `TypeOK` with the requests in course and the observations typed;
   `TypedAlways` proves it, the other invariants rest on it.
2. `SpentOnce` alone is not inductive: a token lives in a slot between the GETDEL
   and the signature. `SpentApart` says that what is spent, in pairs and in slots,
   is pairwise disjoint and has no key any more. Every handler either takes nothing
   (`NoneSpent`), takes one token (`Spent`) or moves what its slot has spent into a
   pair (`Store`); each kind is looked at once.
3. `CredentialKept` is inductive: a save that changes the status or the password
   of a row it has not overwritten is the change itself.
4. `DemotedClaimRefused` needs `ClaimsDated`: once the revocation ran, its marker
   stands or all access tokens left are newer. A later logout renews the marker,
   and the marker expires only after the tokens older than the last renewal.
5. `SessionsFollowPassword` needs `Follows`: what was authorised after the last
   revocation and is not late carries the password of the row, in slots (in the
   row a login has read, before its comparison) and in pairs, unless a reset is at
   its revocation. That revocation leaves nothing dated after it (`NewWave`), which
   is why a request that crosses a reset can only end in a pair marked late.

`OrgStructureProofs` proves both properties of the run `org_structure` and `TypeOK`,
for any tree, any users and typologies, any number of requests and leases, from
`StructureAssumption` (a cargo or an area has a parent of the right kind, `None` is
nothing). The run has two nodes and two requests; a lease matters when a removal,
a writer and a third request cross.

1. `Typed` adds to `TypeOK` where each kind of request can be and what it has locked
   or counted there (`ShapeOf`).
2. `Locks` is what the row locks are for: what is locked `FOR SHARE` is live, and
   what is locked `FOR UPDATE` is locked by nobody else.
3. `OrphansExplained` needs `Childless`: from its count to its commit a removal has
   only such live rows below it as were written without a lock.
4. `LeaseHoldsNodes` needs `Unleased`, the same of leases: a removal that has
   counted holds the lock, and a lease is only taken with the node locked.
5. `LeasedReferencesLive` needs three more facts, all as long as no lease ended
   early: a lease knows the removals that may have counted without it
   (`SeesRemovals`), a writer on his way holds one on the whole path
   (`WritersLeased`), and of every leased reference a removal will either still ask
   for it or find a lease (`RemovalsBlocked`).

`DeliveryProofs` proves every invariant of the run `delivery` and `TypeOK`, for any
number of messages, replicas, tabs, failures and restarts, from
`DeliveryAssumption` (there is a replica, `Closed` is none, the bounds are naturals). The run has one message; with several of
one topic the order of log, position and offset matters, and the proofs cover it.

1. `Logged` says where a message can be: a topic holds messages of its own kind
   (`Announced`), and how far the producer is tells whether the message is there yet;
   what is stored or given to Redis is in a topic (`Sent`).
2. `Staged` and `StoredFirst` follow the handler: a worker that pushes or mails has
   stored its rows, one that is past its push has settled its message or left it with
   the Redis client of its own process.
3. `Resolved` is for `NothingVanishes`: a message in its topic that is not on its way,
   neither past the position the topic is read from nor in a Redis client, is settled.
   No committed offset is past the position (`Behind`), so a restart skips nothing
   unless its group never committed; a crash that takes the last copy of an event is
   one of the places in `lost`.
4. `Heard` is for `TabsTold`. A tab that is still to hear of a message streams from a
   replica that is subscribed, or is in `deaf`; and once Redis took the event, it is
   in `deaf` or the event is on its way to the tab's own replica. That the event is
   given to Redis at all comes from `Resolved`: the theorem needs the whole way of the
   message, from the commit to the last hop.
5. `Once`, `Stopped` and `HandledOnce` are for `RepeatsExplained`: a message that is not
   in `again` is at one place of its topic; a process that is down handles nothing and
   its topics are read from where the group resumes; such a message has one worker at
   most, that of the replica its topic is assigned to, which writes it before anybody
   else did.

`UserServiceProofs` proves in its first part every property of the run `accounts`, and
`TypeOK` and `AvatarStored` of `AccountsMore`, for any number of requests at a time and
in all, invitations, avatars and faults, from `AccountsAssumption` (the bounds are
naturals).

1. `Typed` says at which step each operation can be and what it has read by then, and
   that before the user is inserted there are only creations (`Present`).
2. `Registered` carries the credential of a registered user through the copies that
   requests and abandoned calls hold: each is of a credential that exists and has the
   same password, because none is ever deleted. `InvitationCannotReset` follows.
3. `Invited`: a registration deletes its token only when the row says `active`, as
   long as no save wrote the row back.
4. `Lone` says what a request that is alone knows: nobody else is at work, what it
   read is what is there, and the credential is as its first call left it
   (`Undisturbed`). A step of one request leaves no other alone.
5. `Removed`, for `DeletedCannotLogIn`, and `Agreed`, for `AccountsAgree`, rest on it.
   Both drop the "at rest" of the property: after a removal that was alone nothing but
   a restoration begins, and the databases agree whenever nobody is between the call
   and the write.
6. `AvatarsApart`, for `AvatarStored`: the avatar a request has still to write is
   stored, is not in the row and is nobody else's to delete, and the one it has still
   to delete is no longer in the row. Two uploads that replace the same avatar may
   both delete it, and neither deletes the other's.

Its second part proves every property of the run `access` and of `AccessMore`, for any
number of users, roles, requests at a time and in all, and failures, from
`AccessAssumption` (`NoRole` is no role, the bounds are naturals).

1. `AccessShape` types the requests in course by their operation; `HeldExist` is the
   foreign key of a membership's role.
2. `StaleCacheExplained` needs to know who will still answer for a wrong entry:
   `Answered` says that an entry is absent, equal to what the tables give, known to be
   stale, or `Owing` to a request that has yet to drop it. A change of the tables is
   the moment its request comes to owe (`SaveWriteKeeps`, `MembershipKeeps`,
   `SweepKeeps`), a drop ends it, and a guard that fills the cache with what it read
   before the change is the event `stale` names. At rest nobody owes anything
   (`QuietOwesNothing`), which is the property.
3. `SweptMeansDeleted` needs `SweepsExcused`: a live organization that nothing excuses
   has neither been swept nor a sweep on its way. A sweep may be sent again by
   org-service after the first one began, so the request a removal waits for counts
   too (`FromRemoval`).
4. `DeletedHasNoMembers` needs `SweepsPending`: the members of a removed organization
   wait for a sweep, unless one was added after it or the sweep died.
5. `RoleUsable` needs `SavesUsable`: what a save has still to write grants READ with
   every action, as long as no two saves of one role mixed.

Its third part proves every property of the run `role_migrations` and
`MigrationsTypeOK`, for any number of reverts, changes by the application and roles
assigned at a time, and any sets of permissions a role may be given, from
`RoleMigrationsAssumption` (the role of an organization is no system role, `None` is no
failed revert, the bounds are naturals). The run has three such sets, one assignment at
a time and two changes.

1. Each statement has a lemma that says what it leaves of the tables
   (`InsertPermissionsIs` ... `RenamedIs`); it is `Sound`, that is typed and, unless it
   failed, with its foreign keys and its enum in order.
2. `RolesAsDeclared` speaks of the last migration only. Inductive is `Leveled`: the
   database is at the level of the migrations applied (`AtLevel`), which fixes its
   labels, the permissions but those of documents, `ORGS:MANAGE` and `PLATFORM:MANAGE`,
   the grants of the roles that last, and what a backup may hold. Each `up` leads from
   one level to the next and succeeds, but for the refusal of `DeleteSuperAdminRole`;
   each `down` that succeeds leads back; the seeders and the edits stay (`...Step`).
   What the level leaves open is what paths may differ in: `SUPER_ADMIN`, which is there
   or not by the environment, and the documents an older seeder writes.
3. `RedeployNeverFails` is part of `Leveled`, and `RolesAsDeclared` is its level 13
   (`RolesOfLevel`, `LinksOfLevel`, `PermissionsOfLevel`).
4. `RevertRestores` needs `Stacked`: for each safe migration on the stack, the tables
   before it are a function of those after it (`Reverts`), and for the clean-up of the
   backup too, whose rows name no role that the later revert of `AddAuditorRole` would
   delete (`RevertsCleanup`). An `up` pushes such a pair (`...Reverts`), a safe `down`
   computes that function (`...Downs`), and everything else empties the stack.

`ExtractionProofs` proves both invariants of the run `extraction`, and `TypeOK` and
`FileIsStored` of `ExtractionMore`, for any number of requests, handlers, values, files
and faults, from `ExtractionAssumption` (requests are not handlers, `None` and
`Unreadable` are no values).

1. `Shape` types the slots by operation, `Begun` says that nothing is under way for a
   typology without a file, `Truthful` that a result tells what its file holds and the
   document what was in the file its metadata are of.
2. `ResultIsOfDocument` needs `OneFile`: as long as no two crossed, every message, every
   request past its save and the metadata are about the file of the document. It is
   inductive only with `Fresh`: the key of an upload that has yet to save is nobody
   else's, so the save of one upload makes every other one a crossed one, and nothing
   in flight can be of the file before it is the document's.
3. `FileIsStored` needs `Stored`: an upload deletes its own new file or the one it
   replaced, and by `Fresh` neither is what another one has just saved, as long as no
   save was lost on the way back (`unsure`).
4. `ConfirmedAgrees` needs `NotOvertaken`: a resolution that no write overtook finds, when
   it saves, the status, the declared data and the metadata it checked. The steps that
   write the document mark those that have read it (`OvertakeEffect`).

`TypologyVersionsProofs` proves every property of the run `typology`, `TypeOK`, and
`OnePolicy`, which no run checks, for any number of replicas, requests, codes,
documents, failed writes and crashes, from `TypologyAssumption` (`NoCode` is no code,
the bounds are naturals, there is room for the two documents the collection may begin
with). The run has one failure and one crash; a version is lost, if at all, by several.

1. Each action has a lemma that says what it leaves of each row, request and replica
   (`...Effect`); `Frames`, `SlotFrames`, `DocFrames` and `MendFrames` gather them by
   what happens to a request, a document or a start. `Typed` is proved first.
2. `DuplicatesExplained` rests on `PastCheck` (what passed the check of uniqueness is
   written without a code or under the index), `OneActive` (the index lets one ACTIVE
   document with each code) and `Explained`, which names for two of them the bump or
   the old duplicate. `OnePolicy` follows from `OneActive`.
3. `Fresh`, `Owned` and `Reserved` say that an id is given out once, that it belongs to
   one request and is the heir of one document, and that what is not inserted yet is
   not there for a start to find. `Served`: a replica with a request in course serves.
4. `RepairsApart` is the heart: what a start found of a document stands as long as it
   was alone when it looked, because a start ends before its replica serves and no
   other replica gets past its own look without the marker being named in `lapped`.
   Without it `AnsweredVersionKept` is not inductive: a start acts on statuses it read.
5. `Settled`, for `AnsweredVersionKept`: such a start deletes no version that was
   answered and clears no marker before the version is written, and a bump about to
   answer has its version written.
6. `Succeeded`, for `SupersededHasSuccessor`: the heir is written and its bump, if it is
   still there, has nothing left to do but answer, so no rollback takes the heir away.

Only model-checked: `CycleEnds`, `Settles` and `HandledInTheEnd`, since liveness under
fairness is out of the prover's reach.

## 5. Disagreements between the code and what it says

Each with the configuration that shows it, if there is one. One with two
properties is run with `-continue`.

**Workflows**

1. `workflow-approval.service.ts:392` – `REJECTED` is said to be terminal; a stale
   request leaves it (`approval_terminal`).
2. `workflow-admin-cycle.service.ts:516` – the bulk update is said to avoid the
   violation of the unique constraint; with two later steps it can meet it
   (`ForwardCommits` of `AdminCycleComments.cfg`). PostgreSQL usually visits the rows as inserted, in
   ascending order, the one that collides.
3. `workflow-admin-cycle.service.ts:795` and `878` – an ended workflow is said to
   go to its creator to be seen; a cancelled one is in neither `getMyTasks` nor
   `getMyAvailable` (`HandedToCreator`, same configuration).
4. `docs/workflow-diagrams.md:342` (RN-09) – only drafts are said to be edited; a
   stale edit changes a workflow in approval (the excuse of `OnlyDraftsEdited`).
5. `workflow-approval.service.ts:172` and `docs/workflow-diagrams.md:337` (RN-04) –
   only the current approver is said to approve. A start that read the steps
   before an edit replaced them, and commits after another start, assigns the
   workflow to the approver the edit removed, who can then approve the new step
   (`CurrentApproverDecides` of `ApprovalComments.cfg`).
6. A workflow can get to its final users with steps nobody approved: an edit that
   read a draft replaces the steps of the approved workflow while its cycle runs, a
   start that read the draft takes it back to the approval, and the end of the
   cycle leads from there to `AVAILABLE_FOR_FINAL_USERS`
   (`ApprovedForFinalUsers`, same configuration, with `-continue`).
7. `entities/idempotency-key.entity.ts:5` – a repeated key is said not to repeat
   the action; the key is stored after it (`IdempotencyOnce.cfg`).
8. `workflows.service.ts:268-273` says who keeps sight of a workflow; its approvers
   lose it while a cycle runs. A workflow whose final users resolve to nobody
   waits in `PENDING_REVIEW_CYCLE` or `AVAILABLE_FOR_FINAL_USERS` for ever.

**Documents**

9. `typologies.service.ts:191` – at start-up "nothing has accepted traffic yet, so
   any marker found here cannot belong to an operation that's still legitimately
   in flight"; with another replica serving it can, and the version that is then
   answered is deleted (`TypologyReplicas.cfg`).
10. The same comment says the marker is cleared on success and on every rollback;
   the rollback of a new version of an archived one, whose code another one holds,
   collides on the index and leaves it (`MarkerCleared` of `TypologyComments.cfg`). That rollback also
   turns an `INCOMPLETE` version into an `ACTIVE` one.
11. `typology.schema.ts:208` – deleted records are said not to bar a code; a stale
   save writes `ACTIVE` on a deleted one, which the check does not tell apart
   (`DeletedDoesNotBar`,
   same configuration, with `-continue`).
12. `typologies.service.ts:681` – confirmed data are said to match the document's
    content; a result carries no file, so an older file's may be what they match
    (`ExtractionMixUp.cfg`). A late failure also overwrites a success.
13. A save of an upload whose answer is lost makes the handler delete the file the
    document now points at (the excuse of `FileIsStored`).

**Users and sessions**

14. `jwt.guard.ts:116` – the marker is for claims revoked by a demotion; a logout
    or a reset sets it too and refuses a super admin who still is one
    (`SuperAdminServed` of `AuthComments.cfg`).
15. `auth.service.ts:448` – the global session is said to be saved for
    exit-company; `SET NX` keeps an older one (`GlobalContextSaved`, same
    configuration).
16. `users.controller.ts:355` – a disabled user is said to be unable to log in;
    `restore` of a deleted and disabled one enables his credential
    (`AccountsDisabled.cfg`). A disabling whose revocation fails is not undone.
17. `role.policy.ts:40` – the policy is said to hold "regardless of entry point";
    two saves that interleave break it (the excuse of `RoleUsable`).
18. `RUNBOOK.md:115` – reverts of a migration labelled safe are said to be safe:
    `CleanupUnusedPermissions` fails on a role deleted since, `AddAuditorRole` on
    one that is assigned (`RoleMigrationsReverts.cfg`).
19. `1776900000000-RemoveDocumentsPermissionsForGood.ts:9` – "this time the
    deletion actually sticks"; the seeder of an older image that starts afterwards
    writes the rows again (the same configuration, with `-continue`). Its `down`
    restores five of the six permissions.

**Structure**

20. `user-registration.service.ts:157` – every write of a reference is said to
    obtain a lease first; `update` of a user skips it when its caller has no
    company (`user-profile.service.ts:164`), the import of typologies and
    `createNewVersion` have none either (`OrgDangling.cfg`).
21. `departamentos.service.ts:186-195` – the count of dependents is said to guard
    against orphans. A cargo without an area whose departamento was removed after
    it comes back alone with `restoreDept` (`cargos.service.ts:333`);
    `OrphansExplained` says that only such writes without a lock make orphans.
22. A removal of an organization whose sweep timed out is taken back although the
    sweep happens after it; a retried sweep finds no members left, and the cache
    entries of the first attempt are not invalidated (the excuses of
    `SweptMeansDeleted` and `StaleCacheExplained`).

**Delivery**

23. A dead letter that cannot be sent loses its message
    (`kafka-consumer.util.ts:72`); a group that restarts before its first commit
    skips what was there, since consumers start from the end; a payload that
    fails its validation, or an event Redis did not take, is logged and gone (the
    excuses of `NothingVanishes`). Rows and mails of a notification can be doubled
    (the excuse of `RepeatsExplained`). The audit message of a timeline row is sent
    inside the transaction (`workflow-timeline.service.ts:47`) and stays when that
    rolls back: `Record`, then `Undo`. No property excludes it, since the code does not.
24. `sse.service.ts:25-26` – "events always arrive even when the Kafka consumer fires on
    replica B but the browser is connected to replica A", and `:81` "All replicas
    receive it". Pub/Sub delivers at most once: a replica that has not subscribed
    again when another one publishes, after an outage both had or a break of its own
    connection, misses the event, and so do its tabs (`deaf` in `TabsTold`); an event
    whose publishing fails, or whose process dies first, is missed by all (`lost`).

## 6. Not modelled

* Listings, statistics and exports change nothing. Reading and marking
  notifications and the profile fields of a user touch nothing else.
* Text: the parsers and rules of the extractor, e-mail templates, names and their
  conflicts.
* Pure I/O: storage and virus scanning; deployment and configuration. `resubmit`
  of a workflow has no endpoint.
* The bulk import of typologies is a sequence of creations (`TypologyVersions`) and
  of resolutions of a path (`OrgStructure`). Workflow files are metadata rows of
  uploads nothing else reads.
* The optional-reviewer flag of a membership and the migrations of tables other
  than those of roles and permissions; key rotation, cookies and CSRF, which hold
  no state that a handler modelled here reads.
* Notes and attachments of review steps, `attemptNumber`: written, never read by a
  guard.
* In `Approval`, the cycles and their steps: they are in `AdminCycle`, and here any
  user may be the next reviewer.

## 7. Plan

What is left, the most valuable first:

1. **Delivery** with two messages of one topic in the run, once its states are fewer:
   that a poisoned message does not hold up the one behind it. The proofs cover any
   number, the liveness property is checked with one.
