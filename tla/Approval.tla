------------------------------ MODULE Approval ------------------------------
(***************************************************************************)
(* The approval of a workflow (workflow-approval.service.ts), with the     *)
(* edits and the removal of workflows.service.ts that can cross it.        *)
(*                                                                         *)
(* Unlike the handlers of AdminCycle these take no lock.  Each reads the   *)
(* workflow and its steps, checks what it read, may call another service,  *)
(* and then writes by id in a transaction that checks nothing again.  A    *)
(* handler is thus two actions: ...Read takes a snapshot into a request    *)
(* slot, ...Commit is the transaction, atomic, in any later state.         *)
(*                                                                         *)
(* approvalSteps is the table in insertion order, its "live" rows the ones *)
(* not deleted; actions is table workflow_approval_actions.  attemptNumber *)
(* is left out: nothing reads it back.                                     *)
(*                                                                         *)
(* What follows the approval is here as well, as far as the workflow row   *)
(* tells: the handlers of AdminCycle lock that row, so each is one step,   *)
(* and a request of the approval may read before it and commit after it.   *)
(***************************************************************************)
EXTENDS WorkflowRow, Sequences

CONSTANTS
    Requests,       \* slots for the requests being served at a time
    ApproverLists,  \* the approvers a create or an update may name, in order
    MaxSteps        \* bound: rows ever inserted in approvalSteps

\* The dto's approvers once validateApproverStepOrders found orders 1..n.
ASSUME ApprovalAssumption ==
    /\ ApproverLists \subseteq Seq(Users) \ {<<>>}
    /\ MaxSteps \in Nat

VARIABLES
    workflow,       \* the row of table workflows
    approvalSteps,  \* table workflow_approval_steps
    actions,        \* table workflow_approval_actions
    requests,       \* what each request in course has read
    stale           \* observation: the operations that committed what they
                    \* had read before another one committed

vars == <<workflow, approvalSteps, actions, requests, stale>>

ApprovalStep ==
    [ user   : Users,
      order  : Nat,
      status : {"WAITING", "PENDING", "APPROVED", "REJECTED"},
      live   : BOOLEAN ]

Action == [ step : Nat, user : Users, verdict : {"APPROVED", "REJECTED"} ]

\* A request and the snapshot it works on: the caller of a start or a decision,
\* the step it read as the current one (or the first one), the next one, and
\* the final users.
Request ==
    [ op         : {"idle", "start", "approve", "reject", "update", "remove"},
      user       : Users \cup {None},
      step       : Nat,
      next       : Nat,
      finalUsers : SUBSET Users,
      overtaken  : BOOLEAN ]  \* something was committed since it read

Idle == [op |-> "idle", user |-> None, step |-> Null, next |-> Null,
         finalUsers |-> {}, overtaken |-> FALSE]

TypeOK ==
    /\ workflow \in Workflow
    /\ approvalSteps \in Seq(ApprovalStep)
    /\ actions \subseteq Action
    /\ requests \in [Requests -> Request]
    /\ stale \subseteq {"start", "approve", "reject", "update", "remove"}

-----------------------------------------------------------------------------
Waiting(approvers) ==
    [ n \in 1..Len(approvers) |->
        [user |-> approvers[n], order |-> n, status |-> "WAITING", live |-> TRUE] ]

\* WorkflowsService.create: a draft with its approval steps.  Rows older than
\* the dto that requires a final user have none.
Init ==
    /\ workflow \in
         [ status             : {"DRAFT"},
           deleted            : {FALSE},
           createdBy          : Users,
           assigned           : {None},
           finalUsers         : {{}} \cup {{u} : u \in Users},
           reviewCycleEnabled : BOOLEAN,
           documentValidated  : BOOLEAN,
           approvalOrder      : {Null},
           rejectedAtStep     : {Null},
           activeCycle        : {Null} ]
    /\ \E approvers \in ApproverLists : approvalSteps = Waiting(approvers)
    /\ actions = {}
    /\ requests = [r \in Requests |-> Idle]
    /\ stale = {}

-----------------------------------------------------------------------------
(* The reads.  findOne leaves out soft-deleted workflows; approvalSteps is *)
(* joined in the same query.                                               *)

Found == ~workflow.deleted

Live == {s \in DOMAIN approvalSteps : approvalSteps[s].live}

After(s) == {t \in Live : approvalSteps[t].order > approvalSteps[s].order}

\* Mutant: the steps are not sorted.
IsAny(s, rows) == s \in rows

IsFirst(s, rows) ==
    /\ s \in rows
    /\ \A t \in rows : approvalSteps[s].order <= approvalSteps[t].order

\* Mutant: every approval is taken for the last one.
IsNextNever(t, s) == t = Null

\* The id of the first step after s, Null when s is the last one.
IsNext(t, s) == IF After(s) = {} THEN t = Null ELSE IsFirst(t, After(s))

IsCurrent(s) ==
    /\ s \in Live
    /\ approvalSteps[s].order = workflow.approvalOrder
    /\ approvalSteps[s].status = "PENDING"

Read(r, snapshot) ==
    /\ requests[r] = Idle
    /\ Found
    /\ requests' = [requests EXCEPT ![r] = snapshot]
    /\ UNCHANGED <<workflow, approvalSteps, actions, stale>>

\* startApproval: [RN-01] the creator, [RN-02] a step, [RN-03] a valid document.
StartApprovalRead(r, u) ==
    /\ u = workflow.createdBy
    /\ CanTransition(workflow.status, "PENDING_APPROVAL")
    /\ workflow.documentValidated
    /\ \E s \in Live :
         /\ IsFirst(s, Live)
         /\ Read(r, [Idle EXCEPT !.op = "start", !.user = u, !.step = s])

\* approve: [RN-04] the assigned user, on the step whose turn it is.
ApproveRead(r, u) ==
    /\ CanTransition(workflow.status, "PENDING_REVIEW_CYCLE")
    /\ workflow.assigned = u
    /\ \E s \in Live, next \in Live \cup {Null} :
         /\ IsCurrent(s)
         /\ IsNext(next, s)
         /\ Read(r, [op |-> "approve", user |-> u, step |-> s, next |-> next,
                     finalUsers |-> workflow.finalUsers, overtaken |-> FALSE])

\* reject: [RN-06] the assigned user, on the step whose turn it is.
RejectRead(r, u) ==
    /\ CanTransition(workflow.status, "REJECTED")
    /\ workflow.assigned = u
    /\ \E s \in Live :
         /\ IsCurrent(s)
         /\ Read(r, [Idle EXCEPT !.op = "reject", !.user = u, !.step = s])

\* Mutant: the status is not checked.
UpdateAnyStatus(r) == Read(r, [Idle EXCEPT !.op = "update"])

\* WorkflowsService.update: [RN-09] a draft, by its creator or a super admin;
\* the transaction writes nothing of who asked, so the slot does not keep it.
UpdateRead(r) ==
    /\ workflow.status = "DRAFT"
    /\ Read(r, [Idle EXCEPT !.op = "update"])

\* WorkflowsService.remove: [RN-17] a draft or a cancelled workflow, by its
\* creator; a super admin, any.
RemoveRead(r, superAdmin) ==
    /\ workflow.status \in {"DRAFT", "CANCELLED"} \/ superAdmin
    /\ Read(r, [Idle EXCEPT !.op = "remove"])

-----------------------------------------------------------------------------
(* The transactions.  An UPDATE by the id of a deleted step touches no row; *)
(* an action that refers to one violates its foreign key and the whole      *)
(* transaction is rolled back (see Fail).                                   *)

Overtaken(rs) ==
    [q \in Requests |-> IF q \in rs /\ requests[q] # Idle
                        THEN [requests[q] EXCEPT !.overtaken = TRUE]
                        ELSE IF q \in rs THEN requests[q] ELSE Idle]

Committing(r, op) ==
    /\ requests[r].op = op
    /\ requests' = Overtaken(Requests \ {r})
    /\ stale' = stale \cup IF requests[r].overtaken THEN {op} ELSE {}

SetStatus(s, status) ==
    [approvalSteps EXCEPT
       ![s].status = IF approvalSteps[s].live THEN status ELSE @]

Signed(r, verdict) ==
    [step |-> requests[r].step, user |-> requests[r].user, verdict |-> verdict]

StartApprovalCommit(r) ==
    LET s == requests[r].step IN
    /\ Committing(r, "start")
    /\ approvalSteps' = SetStatus(s, "PENDING")
    /\ workflow' = [workflow EXCEPT !.status = "PENDING_APPROVAL",
                                    !.approvalOrder = approvalSteps[s].order,
                                    !.assigned = approvalSteps[s].user]
    /\ UNCHANGED actions

\* Mutant: the approver of the step is not assigned.
OrderOnly(row, s) == [row EXCEPT !.approvalOrder = approvalSteps[s].order]

WithTurn(row, s) == [row EXCEPT !.approvalOrder = approvalSteps[s].order,
                                !.assigned = approvalSteps[s].user]

\* approve, when a step follows: it gets the turn.  The status is not written.
ApproveCommit(r) ==
    LET s == requests[r].step
        next == requests[r].next IN
    /\ Committing(r, "approve")
    /\ next # Null
    /\ approvalSteps[s].live
    /\ actions' = actions \cup {Signed(r, "APPROVED")}
    /\ approvalSteps' = [approvalSteps EXCEPT ![s].status = "APPROVED",
                                              ![next].status = "PENDING"]
    /\ workflow' = WithTurn(workflow, next)

\* findByPosition of user-service: the users of a role in the organization who
\* are active and hold the position.  Any set: the model has no positions.
PositionHolders == SUBSET Users

\* resolveFinalUsers, asked when the snapshot names none: nobody when the
\* document's metadata have no position.
FinalUsersFor(snapshot) ==
    IF snapshot # {} THEN {snapshot} ELSE {{}} \cup PositionHolders

\* approve, on the last step.  reviewCycle is the flag document-service answers
\* (or, on a 404, the snapshot's); the first final user is assigned.
ApproveLastCommit(r, reviewCycle, finalUsers) ==
    LET s == requests[r].step IN
    /\ Committing(r, "approve")
    /\ requests[r].next = Null
    /\ approvalSteps[s].live
    /\ finalUsers \in FinalUsersFor(requests[r].finalUsers)
    /\ actions' = actions \cup {Signed(r, "APPROVED")}
    /\ approvalSteps' = [approvalSteps EXCEPT ![s].status = "APPROVED"]
    /\ \E first \in IF finalUsers = {} THEN {None} ELSE finalUsers :
         workflow' = [workflow EXCEPT
           !.status = IF reviewCycle THEN "PENDING_REVIEW_CYCLE"
                                     ELSE "AVAILABLE_FOR_FINAL_USERS",
           !.approvalOrder = Null,
           !.assigned = first,
           !.finalUsers = finalUsers,
           !.reviewCycleEnabled = reviewCycle]

RejectCommit(r) ==
    LET s == requests[r].step IN
    /\ Committing(r, "reject")
    /\ approvalSteps[s].live
    /\ actions' = actions \cup {Signed(r, "REJECTED")}
    /\ approvalSteps' = [approvalSteps EXCEPT ![s].status = "REJECTED"]
    /\ workflow' = [workflow EXCEPT !.status = "REJECTED",
                                    !.rejectedAtStep = s,
                                    !.assigned = None]

\* update, of what the dto names: the document, the final user, the approvers
\* (<<>> when it does not).  New approvers replace the steps: the old ones are
\* deleted, the actions on them too (ON DELETE CASCADE), and the new ones wait.
UpdateCommit(r, approvers, finalUsers, validated) ==
    /\ Committing(r, "update")
    /\ workflow' = [workflow EXCEPT !.finalUsers = finalUsers,
                                    !.documentValidated = @ \/ validated]
    /\ IF approvers = <<>>
       THEN UNCHANGED <<approvalSteps, actions>>
       ELSE /\ Len(approvalSteps) + Len(approvers) <= MaxSteps
            /\ approvalSteps' =
                 [ s \in DOMAIN approvalSteps |->
                     [approvalSteps[s] EXCEPT !.live = FALSE] ] \o Waiting(approvers)
            /\ actions' = {}

RemoveCommit(r) ==
    /\ Committing(r, "remove")
    /\ workflow' = [workflow EXCEPT !.deleted = TRUE]
    /\ UNCHANGED <<approvalSteps, actions>>

\* Another service does not answer, the transaction is rolled back or the
\* process dies: the request had no effect.
Fail(r) ==
    /\ requests[r] # Idle
    /\ requests' = [requests EXCEPT ![r] = Idle]
    /\ UNCHANGED <<workflow, approvalSteps, actions, stale>>

-----------------------------------------------------------------------------
(* The review cycle and the end of the workflow, under the lock of the row: *)
(* what they write there.  The cycles and their steps are in AdminCycle.    *)

Locked(row) ==
    /\ Found
    /\ workflow' = row
    /\ requests' = Overtaken(Requests)
    /\ UNCHANGED <<approvalSteps, actions, stale>>

\* Mutant: the status keeps its value.
CreateCycleQuietly(u, reviewer) ==
    /\ CanTransition(workflow.status, "ADMIN_CYCLE_IN_PROGRESS")
    /\ workflow.reviewCycleEnabled
    /\ workflow.activeCycle = Null
    /\ u \in workflow.finalUsers
    /\ Locked([workflow EXCEPT !.activeCycle = 1, !.assigned = reviewer])

CreateCycle(u, reviewer) ==
    /\ CanTransition(workflow.status, "ADMIN_CYCLE_IN_PROGRESS")
    /\ workflow.reviewCycleEnabled
    /\ workflow.activeCycle = Null
    /\ u \in workflow.finalUsers
    /\ Locked([workflow EXCEPT !.status = "ADMIN_CYCLE_IN_PROGRESS",
                               !.activeCycle = 1,
                               !.assigned = reviewer])

\* completeStep, on a step that another one follows: its reviewer is assigned.
CompleteStep(reviewer) ==
    /\ CanTransition(workflow.status, "AVAILABLE_FOR_FINAL_USERS")
    /\ workflow.activeCycle # Null
    /\ Locked([workflow EXCEPT !.assigned = reviewer])

\* forwardStep: the optional reviewer is assigned.
ForwardStep(reviewer) ==
    /\ workflow.status = "ADMIN_CYCLE_IN_PROGRESS"
    /\ workflow.activeCycle # Null
    /\ Locked([workflow EXCEPT !.assigned = reviewer])

\* The last step of the cycle of final user u is completed.
CompleteCycle(u) ==
    /\ CanTransition(workflow.status, "AVAILABLE_FOR_FINAL_USERS")
    /\ workflow.activeCycle # Null
    /\ Locked([workflow EXCEPT !.status = "AVAILABLE_FOR_FINAL_USERS",
                               !.activeCycle = Null,
                               !.assigned = u])

SkipReviewCycle(u) ==
    /\ workflow.status = "PENDING_REVIEW_CYCLE"
    /\ u \in workflow.finalUsers
    /\ Locked([workflow EXCEPT !.status = "AVAILABLE_FOR_FINAL_USERS",
                               !.assigned = u])

\* closeWorkflow and cancelWorkflow.
End(u, terminal) ==
    /\ CanTransition(workflow.status, terminal)
    /\ u \in workflow.finalUsers
    /\ Locked([workflow EXCEPT !.status = terminal,
                               !.assigned = workflow.createdBy,
                               !.activeCycle = Null])

Next ==
    \/ \E r \in Requests :
        \/ \E u \in Users :
             \/ StartApprovalRead(r, u)
             \/ ApproveRead(r, u)
             \/ RejectRead(r, u)
        \/ UpdateRead(r)
        \/ \E superAdmin \in BOOLEAN : RemoveRead(r, superAdmin)
        \/ StartApprovalCommit(r)
        \/ ApproveCommit(r)
        \/ \E reviewCycle \in BOOLEAN, finalUsers \in PositionHolders :
             ApproveLastCommit(r, reviewCycle, finalUsers)
        \/ RejectCommit(r)
        \/ \E approvers \in ApproverLists \cup {<<>>},
              finalUsers \in {workflow.finalUsers} \cup {{u} : u \in Users},
              validated \in BOOLEAN :
             UpdateCommit(r, approvers, finalUsers, validated)
        \/ RemoveCommit(r)
        \/ Fail(r)
    \/ \E u \in Users :
        \/ \E reviewer \in Users : CreateCycle(u, reviewer)
        \/ CompleteStep(u)
        \/ ForwardStep(u)
        \/ CompleteCycle(u)
        \/ SkipReviewCycle(u)
        \/ \E terminal \in {"CLOSED", "CANCELLED"} : End(u, terminal)

Spec == Init /\ [][Next]_vars

-----------------------------------------------------------------------------
(* What holds however the requests interleave *)

Approved(s) == \E a \in actions : a.step = s /\ a.verdict = "APPROVED"

\* [RN-04, RN-06] A decision on a step is recorded only while the step exists,
\* and only in the name of its approver, unless a start that an edit has
\* overtaken assigned the workflow to an approver the edit had removed.
DecisionByItsApprover ==
    \A a \in actions : /\ a.step \in Live
                       /\ "start" \notin stale => a.user = approvalSteps[a.step].user

\* Approvers decide strictly in turn: a decision on a step follows the approval
\* of every step before it, even with stale starts, approvals and edits.
DecisionsInTurn ==
    \A a \in actions : \A t \in Live :
        approvalSteps[t].order < approvalSteps[a.step].order => Approved(t)

PastApproval ==
    {"PENDING_REVIEW_CYCLE", "AVAILABLE_FOR_FINAL_USERS", "ADMIN_CYCLE_IN_PROGRESS"}

AllApproved == \A s \in Live : Approved(s)

\* No race of approvals lets a workflow through to its final users: in the step
\* that takes it there every approval step it has is approved, unless an edit
\* replaced the steps of an approved workflow and a start took it back.
FinalUsersOnlyAfterAllApprovals ==
    [][ workflow.status \notin PastApproval /\ workflow'.status \in PastApproval
        => AllApproved' \/ {"start", "update"} \subseteq stale' ]_vars

-----------------------------------------------------------------------------
(* What holds until a request commits what another one has overtaken: each  *)
(* names the operations that can break it, and no other does.               *)

\* A workflow in approval waits for exactly the user of its one pending step,
\* the one approvalOrder names; in any other status nobody has a turn.
OneApproverHasTurn ==
    stale \subseteq {"remove"} =>
        LET pending == {s \in Live : approvalSteps[s].status = "PENDING"} IN
        IF workflow.status = "PENDING_APPROVAL"
        THEN \E s \in pending : /\ pending = {s}
                                /\ IsCurrent(s)
                                /\ workflow.assigned = approvalSteps[s].user
        ELSE pending = {}

\* A review cycle runs only in its own status, although the handlers of the
\* approval take no lock: removals and edits may be stale, decisions not.
CycleRunsInItsStatus ==
    stale \subseteq {"remove", "update"} =>
        (workflow.status = "ADMIN_CYCLE_IN_PROGRESS" <=> workflow.activeCycle # Null)

\* The statuses move only along the table the handlers check against.
TransitionsFollowTable ==
    [][ stale' \subseteq {"remove", "update"} /\ workflow'.status # workflow.status
          => CanTransition(workflow.status, workflow'.status) ]_vars

\* [RN-09] Only a draft is edited: its steps, its final users and its document
\* are replaced in no other status (docs/workflow-diagrams.md:342).
OnlyDraftsEdited ==
    [][ workflow.status # "DRAFT" /\ "update" \notin stale' =>
          /\ Live' = Live
          /\ workflow'.documentValidated = workflow.documentValidated ]_vars

\* [RN-04] "Solo el aprobador actual puede aprobar"
\* (workflow-approval.service.ts:172): who decides is the approver of the step.
CurrentApproverDecides ==
    \A a \in actions : a.user = approvalSteps[a.step].user

\* What the approval is for, whatever is stale: the steps of a workflow that
\* gets to its final users are approved.
ApprovedForFinalUsers ==
    [][ workflow.status \notin PastApproval /\ workflow'.status \in PastApproval
        => AllApproved' ]_vars

\* "Workflow queda en estado REJECTED terminal - no se puede reabrir"
\* (workflow-approval.service.ts:392): a rejected workflow stays rejected.
RejectedIsTerminal ==
    [][ workflow.status = "REJECTED" => workflow'.status = "REJECTED" ]_vars
=============================================================================
