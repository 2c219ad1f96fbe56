----------------------------- MODULE AdminCycle -----------------------------
(***************************************************************************)
(* The administrative review cycle of a workflow                           *)
(* (workflow-admin-cycle.service.ts), from the last approval to the end.   *)
(*                                                                         *)
(* Every handler of the service runs in one transaction that first takes   *)
(* the workflow row with a pessimistic_write lock, so a handler is one     *)
(* action: its checks and its writes are atomic with respect to the other  *)
(* handlers of the service.  A handler whose check fails throws, the       *)
(* transaction is rolled back and nothing changes: the check is the guard. *)
(*                                                                         *)
(* The tables are sequences in the order the rows are inserted: cycles[n]  *)
(* is the cycle whose cycleNumber is n, steps[s] the s-th row inserted in  *)
(* workflow_admin_steps, its "order" the column step_order.                *)
(***************************************************************************)
EXTENDS WorkflowRow, Sequences, SequencesExt

CONSTANTS
    ReviewerLists,  \* the reviewers a createCycle may name, in step order
    OptionalPools,  \* the sets of optional reviewers it may allow
    MaxCycles       \* bound: cycles a workflow goes through

\* The dto's steps once its stepOrders are checked to be exactly 1..n: an
\* empty list does not pass the check (orders[0] !== 1).
ASSUME InputsAssumption ==
    /\ ReviewerLists \subseteq Seq(Users) \ {<<>>}
    /\ OptionalPools \subseteq SUBSET Users
    /\ MaxCycles \in Nat

VARIABLES
    workflow,       \* the row of table workflows
    cycles,         \* table workflow_admin_cycles
    steps,          \* table workflow_admin_steps
    rolledBack      \* a forward that passed its checks was rolled back

vars == <<workflow, cycles, steps, rolledBack>>

Cycle ==
    [ initiatedBy      : Users,
      status           : {"IN_PROGRESS", "COMPLETED"},
      currentOrder     : Nat,             \* currentStepOrder
      optionalAllowed  : SUBSET Users ]   \* allowedOptionalReviewerIds

Step ==
    [ cycle      : Nat,
      user       : Users,
      order      : Nat,
      status     : {"WAITING", "PENDING", "COMPLETED"},
      insertedBy : Nat ]   \* insertedByStepId; not Null iff isOptional

TypeOK ==
    /\ workflow \in Workflow
    /\ cycles \in Seq(Cycle)
    /\ steps \in Seq(Step)
    /\ rolledBack \in BOOLEAN

-----------------------------------------------------------------------------
(* The state approve() leaves behind on the last approval: see Approval.   *)

Init ==
    /\ workflow \in
         [ status             : {"PENDING_REVIEW_CYCLE", "AVAILABLE_FOR_FINAL_USERS"},
           deleted            : {FALSE},
           createdBy          : Users,
           assigned           : Users \cup {None},
           finalUsers         : SUBSET Users,
           reviewCycleEnabled : BOOLEAN,
           documentValidated  : {TRUE},
           approvalOrder      : {Null},
           rejectedAtStep     : {Null},
           activeCycle        : {Null} ]
    /\ workflow.reviewCycleEnabled <=> workflow.status = "PENDING_REVIEW_CYCLE"
    /\ IF workflow.finalUsers = {} THEN workflow.assigned = None
                                   ELSE workflow.assigned \in workflow.finalUsers
    /\ cycles = <<>>
    /\ steps = <<>>
    /\ rolledBack = FALSE

-----------------------------------------------------------------------------
(* findOne leaves out the rows that were soft-deleted. *)
Found == ~workflow.deleted

StepsOf(c) == {s \in DOMAIN steps : steps[s].cycle = c}

\* Mutant: the step at insertOrder itself is not shifted.
LaterOffByOne(s) ==
    {t \in StepsOf(steps[s].cycle) : steps[t].order > steps[s].order + 1}

\* The steps of the same cycle that come after step s.
Later(s) == {t \in StepsOf(steps[s].cycle) : steps[t].order > steps[s].order}

\* Mutant: the steps are searched without sorting them.
IsSomeLaterStep(t, s) == t \in Later(s)

\* cycle.steps sorted by stepOrder, the first one after s.
IsNextStep(t, s) ==
    /\ t \in Later(s)
    /\ \A r \in Later(s) : steps[t].order <= steps[r].order

\* The checks that completeStep and forwardStep share: the cycle is in
\* progress, the step is the caller's and it is its turn.
OwnsPendingStep(u, s) ==
    /\ s \in DOMAIN steps
    /\ steps[s].cycle \in DOMAIN cycles
    /\ cycles[steps[s].cycle].status = "IN_PROGRESS"
    /\ steps[s].user = u
    /\ steps[s].status = "PENDING"

\* createCycle: a final user starts a cycle of reviewers[1], reviewers[2], ...
\* and names the users a reviewer may forward to.
CreateCycle(u, reviewers, optionalAllowed) ==
    /\ Found
    /\ CanTransition(workflow.status, "ADMIN_CYCLE_IN_PROGRESS")
    /\ workflow.reviewCycleEnabled
    /\ workflow.activeCycle = Null
    /\ u \in workflow.finalUsers
    /\ Len(cycles) < MaxCycles
    /\ cycles' = Append(cycles,
           [ initiatedBy |-> u, status |-> "IN_PROGRESS",
             currentOrder |-> 1, optionalAllowed |-> optionalAllowed ])
    /\ steps' = steps \o [ n \in 1..Len(reviewers) |->
           [ cycle |-> Len(cycles) + 1, user |-> reviewers[n], order |-> n,
             status |-> IF n = 1 THEN "PENDING" ELSE "WAITING",
             insertedBy |-> Null ] ]
    /\ workflow' = [workflow EXCEPT !.status = "ADMIN_CYCLE_IN_PROGRESS",
                                    !.activeCycle = Len(cycles) + 1,
                                    !.assigned = reviewers[1]]
    /\ UNCHANGED rolledBack

\* completeStep, when a step follows: that step gets its turn.
CompleteStepAndAdvance(u, s) ==
    /\ Found
    /\ CanTransition(workflow.status, "AVAILABLE_FOR_FINAL_USERS")
    /\ OwnsPendingStep(u, s)
    /\ \E next \in Later(s) :
         /\ IsNextStep(next, s)
         /\ steps' = [steps EXCEPT ![s].status = "COMPLETED",
                                   ![next].status = "PENDING"]
         /\ cycles' = [cycles EXCEPT
                         ![steps[s].cycle].currentOrder = steps[next].order]
         /\ workflow' = [workflow EXCEPT !.assigned = steps[next].user]
    /\ UNCHANGED rolledBack

\* completeStep, on the last step: the cycle is completed and the workflow
\* goes back to the final user who started it.
CompleteLastStep(u, s) ==
    /\ Found
    /\ CanTransition(workflow.status, "AVAILABLE_FOR_FINAL_USERS")
    /\ OwnsPendingStep(u, s)
    /\ Later(s) = {}
    /\ steps' = [steps EXCEPT ![s].status = "COMPLETED"]
    /\ cycles' = [cycles EXCEPT ![steps[s].cycle].status = "COMPLETED",
                                ![steps[s].cycle].currentOrder = Null]
    /\ workflow' = [workflow EXCEPT
                      !.status = "AVAILABLE_FOR_FINAL_USERS",
                      !.activeCycle = Null,
                      !.assigned = cycles[steps[s].cycle].initiatedBy]
    /\ UNCHANGED rolledBack

CompleteStep(u, s) == CompleteStepAndAdvance(u, s) \/ CompleteLastStep(u, s)

\* Mutant: the next reviewer is not compared with the one selected.
CanForwardToNext(u, s, r) ==
    /\ Found
    /\ workflow.status = "ADMIN_CYCLE_IN_PROGRESS"
    /\ OwnsPendingStep(u, s)
    /\ steps[s].insertedBy = Null
    /\ r \in cycles[steps[s].cycle].optionalAllowed

\* The checks of forwardStep: a step that was itself inserted cannot forward,
\* the reviewer is one the cycle allows and not already the next one.
CanForward(u, s, r) ==
    /\ Found
    /\ workflow.status = "ADMIN_CYCLE_IN_PROGRESS"
    /\ OwnsPendingStep(u, s)
    /\ steps[s].insertedBy = Null
    /\ r \in cycles[steps[s].cycle].optionalAllowed
    /\ \A t \in StepsOf(steps[s].cycle) :
           steps[t].order = steps[s].order + 1 => steps[t].user # r

\* The bulk UPDATE ... SET step_order = step_order + 1 visits the rows in an
\* order the database picks.  UNIQUE (cycle_id, step_order) is not deferrable:
\* it is checked row by row, and the statement fails when a row moves onto the
\* order of one that has not moved yet.
ShiftCollides(visit) ==
    \E i, j \in DOMAIN visit :
        i < j /\ steps[visit[j]].order = steps[visit[i]].order + 1

\* Mutant: the WHERE of the shift leaves out the step order.
ShiftWholeCycle(s) ==
    [ t \in DOMAIN steps |->
        IF t = s THEN [steps[t] EXCEPT !.status = "COMPLETED"]
        ELSE IF steps[t].cycle = steps[s].cycle
        THEN [steps[t] EXCEPT !.order = @ + 1] ELSE steps[t] ]

\* The rows once the later steps moved up by one and s is completed.
AfterShift(s) ==
    [ t \in DOMAIN steps |->
        IF t \in Later(s) THEN [steps[t] EXCEPT !.order = @ + 1]
        ELSE IF t = s THEN [steps[t] EXCEPT !.status = "COMPLETED"]
        ELSE steps[t] ]

\* Mutant: the inserted step waits, as the ones createCycle inserts.
InsertedStepWaiting(s, r) ==
    [ cycle |-> steps[s].cycle, user |-> r, order |-> steps[s].order + 1,
      status |-> "WAITING", insertedBy |-> s ]

\* The optional step for r: it takes the place behind s, and the turn.
InsertedStep(s, r) ==
    [ cycle |-> steps[s].cycle, user |-> r, order |-> steps[s].order + 1,
      status |-> "PENDING", insertedBy |-> s ]

\* forwardStep, when the shift succeeds.
ForwardStep(u, s, r) ==
    /\ CanForward(u, s, r)
    /\ \E visit \in SetToSeqs(Later(s)) : ~ShiftCollides(visit)
    /\ steps' = Append(AfterShift(s), InsertedStep(s, r))
    /\ cycles' = [cycles EXCEPT
                    ![steps[s].cycle].currentOrder = steps[s].order + 1]
    /\ workflow' = [workflow EXCEPT !.assigned = r]
    /\ UNCHANGED rolledBack

\* forwardStep, when it fails: the whole transaction is rolled back.
ForwardRolledBack(u, s, r) ==
    /\ CanForward(u, s, r)
    /\ \E visit \in SetToSeqs(Later(s)) : ShiftCollides(visit)
    /\ rolledBack' = TRUE
    /\ UNCHANGED <<workflow, cycles, steps>>

\* skipReviewCycle: a final user does without a review cycle.
SkipReviewCycle(u) ==
    /\ Found
    /\ workflow.status = "PENDING_REVIEW_CYCLE"
    /\ u \in workflow.finalUsers
    /\ workflow' = [workflow EXCEPT !.status = "AVAILABLE_FOR_FINAL_USERS",
                                    !.assigned = u]
    /\ UNCHANGED <<cycles, steps, rolledBack>>

\* Mutant: the status is not checked, a running cycle does not stop the end.
EndInAnyStatus(u, terminal) ==
    /\ Found
    /\ u \in workflow.finalUsers
    /\ workflow' = [workflow EXCEPT !.status = terminal,
                                    !.assigned = workflow.createdBy,
                                    !.activeCycle = Null]
    /\ UNCHANGED <<cycles, steps, rolledBack>>

\* closeWorkflow and cancelWorkflow: a final user ends the workflow, which is
\* handed to its creator to be read.
End(u, terminal) ==
    /\ Found
    /\ CanTransition(workflow.status, terminal)
    /\ u \in workflow.finalUsers
    /\ workflow' = [workflow EXCEPT !.status = terminal,
                                    !.assigned = workflow.createdBy,
                                    !.activeCycle = Null]
    /\ UNCHANGED <<cycles, steps, rolledBack>>

CloseWorkflow(u) == End(u, "CLOSED")
CancelWorkflow(u) == End(u, "CANCELLED")

\* WorkflowsService.remove: the creator soft-deletes a cancelled workflow, a
\* super admin a workflow in any status.  Only deletedAt is written.
RemoveWorkflow(u, superAdmin) ==
    /\ Found
    /\ superAdmin \/ (workflow.status \in {"DRAFT", "CANCELLED"}
                        /\ u = workflow.createdBy)
    /\ workflow' = [workflow EXCEPT !.deleted = TRUE]
    /\ UNCHANGED <<cycles, steps, rolledBack>>

Next ==
    \E u \in Users :
        \/ \E reviewers \in ReviewerLists, allowed \in OptionalPools :
               CreateCycle(u, reviewers, allowed)
        \/ \E s \in DOMAIN steps : CompleteStep(u, s)
        \/ \E s \in DOMAIN steps, r \in Users :
               ForwardStep(u, s, r) \/ ForwardRolledBack(u, s, r)
        \/ SkipReviewCycle(u)
        \/ CloseWorkflow(u)
        \/ CancelWorkflow(u)
        \/ \E superAdmin \in BOOLEAN : RemoveWorkflow(u, superAdmin)

Spec == Init /\ [][Next]_vars

\* A reviewer whose turn it is eventually acts on the step (by hand: nothing in
\* the service times a step out).
Fairness == WF_vars(\E u \in Users, s \in DOMAIN steps : CompleteStep(u, s))

FairSpec == Spec /\ Fairness

-----------------------------------------------------------------------------
(* Properties *)

\* A workflow is in ADMIN_CYCLE_IN_PROGRESS exactly while activeAdminCycleId
\* names a cycle in progress, and every other cycle is finished: neither a
\* second cycle nor a close, a cancel or a skip can leave a cycle running
\* behind the workflow's back.
ActiveCycleConsistent ==
    /\ workflow.status = "ADMIN_CYCLE_IN_PROGRESS" <=> workflow.activeCycle # Null
    /\ \A c \in DOMAIN cycles :
           cycles[c].status = "IN_PROGRESS" <=> workflow.activeCycle = c
    /\ workflow.activeCycle # Null => workflow.activeCycle \in DOMAIN cycles

\* However forwards shift and insert steps, the orders of a cycle's steps stay
\* 1, 2, ..., n with no two steps sharing one: createCycle's consecutive
\* numbering survives every shift.
OrdersConsecutive ==
    \A s \in DOMAIN steps :
        /\ steps[s].cycle \in DOMAIN cycles
        /\ steps[s].order >= 1
        /\ \A t \in StepsOf(steps[s].cycle) :
               steps[s].order = steps[t].order => s = t
        /\ steps[s].order > 1 =>
               \E t \in StepsOf(steps[s].cycle) : steps[t].order = steps[s].order - 1

\* Reviewers act strictly in turn: in a running cycle the steps before
\* currentStepOrder are completed, the one at it is pending and the ones after
\* it wait; a finished cycle has only completed steps.
TurnOrder ==
    \A s \in DOMAIN steps :
        LET cycle == cycles[steps[s].cycle] IN
        IF cycle.status = "COMPLETED" THEN steps[s].status = "COMPLETED"
        ELSE steps[s].status =
               CASE steps[s].order < cycle.currentOrder -> "COMPLETED"
                 [] steps[s].order = cycle.currentOrder -> "PENDING"
                 [] OTHER                               -> "WAITING"

\* The workflow shown in "my tasks" as assigned to a user is really that
\* user's turn: while a cycle runs there is a pending step for the assigned
\* user, so the cycle can always go on (no step is stranded by a forward).
AssignedUserHasTurn ==
    workflow.status = "ADMIN_CYCLE_IN_PROGRESS" =>
        \E s \in StepsOf(workflow.activeCycle) :
            /\ steps[s].status = "PENDING"
            /\ steps[s].user = workflow.assigned
            /\ steps[s].order = cycles[workflow.activeCycle].currentOrder

\* Who has or had a step in a cycle of the workflow.
Reviewers == {steps[s].user : s \in DOMAIN steps}

\* Who has a pending optional step in the running cycle, or may be given one.
OnCall ==
    { u \in Users : \E c \in DOMAIN cycles :
        /\ cycles[c].status = "IN_PROGRESS"
        /\ \/ u \in cycles[c].optionalAllowed
           \/ \E s \in StepsOf(c) : /\ steps[s].user = u
                                    /\ steps[s].status = "PENDING"
                                    /\ steps[s].insertedBy # Null }

\* "My flows" of u, for a user who is not among the approvers.
Finds(u) == InMyFlows(workflow, u, {}, Reviewers, OnCall)

\* Nobody is waited for without being told by the lists he works from, which
\* are filtered by the row while the turn is in the steps: a pending step is
\* among the tasks of its reviewer, a workflow that waits for a cycle to be
\* started or skipped among those of a final user, and one that is available
\* in the flows of all of them.
PendingInTasks ==
    ~workflow.deleted =>
        \A s \in DOMAIN steps :
            steps[s].status = "PENDING" => InMyTasks(workflow, steps[s].user)

StartInTasks ==
    (~workflow.deleted /\ workflow.status = "PENDING_REVIEW_CYCLE") =>
        \/ workflow.finalUsers = {}
        \/ \E u \in workflow.finalUsers : InMyTasks(workflow, u)

WaitedForFindsIt ==
    /\ PendingInTasks
    /\ StartInTasks
    /\ (~workflow.deleted /\ workflow.status = "AVAILABLE_FOR_FINAL_USERS") =>
           \A u \in workflow.finalUsers \cup Reviewers : Finds(u)

\* "llega al creador original para visualización": an ended workflow is handed
\* to its creator (workflow-admin-cycle.service.ts:795 and 878), who finds it.
HandedToCreator ==
    (~workflow.deleted /\ workflow.status \in {"CLOSED", "CANCELLED"}) =>
        \/ InMyTasks(workflow, workflow.createdBy)
        \/ Finds(workflow.createdBy)

\* A step inserted by a forward stays right behind the step that forwarded it,
\* and the reviewer after it is somebody else, whatever is inserted later.
OptionalStepPlaced ==
    \A s \in DOMAIN steps : steps[s].insertedBy # Null =>
        LET by == steps[s].insertedBy IN
        /\ by \in StepsOf(steps[s].cycle)
        /\ steps[by].insertedBy = Null
        /\ steps[by].status = "COMPLETED"
        /\ steps[s].order = steps[by].order + 1
        /\ \A t \in StepsOf(steps[s].cycle) :
               steps[t].order = steps[s].order + 1 => steps[t].user # steps[s].user

\* Between cycles a workflow waits for one of its final users, the one who
\* started the last cycle after a cycle: never for a reviewer of a finished one.
ReturnedToFinalUser ==
    workflow.status \in {"PENDING_REVIEW_CYCLE", "AVAILABLE_FOR_FINAL_USERS"} =>
        /\ workflow.assigned \in workflow.finalUsers
             \/ (workflow.assigned = None /\ workflow.finalUsers = {})
        /\ cycles # <<>> => workflow.assigned = Last(cycles).initiatedBy

\* History is append-only: what a reviewer completed and a finished cycle are
\* never changed again, not even by the shift of a forward.
HistoryFrozen ==
    [][ /\ \A s \in DOMAIN steps :
               steps[s].status = "COMPLETED" => steps'[s] = steps[s]
        /\ \A c \in DOMAIN cycles :
               cycles[c].status = "COMPLETED" => cycles'[c] = cycles[c] ]_vars

\* Once closed or cancelled a workflow admits no further change of its status,
\* its assignee or its cycles (docs/workflow-diagrams.md:94).
TerminalFrozen ==
    [][ workflow.status \in TerminalStatus =>
          /\ [workflow' EXCEPT !.deleted = workflow.deleted] = workflow
          /\ UNCHANGED <<cycles, steps>> ]_vars

\* If reviewers act when it is their turn, a cycle ends, however much they
\* forward, unless the workflow is deleted meanwhile.
CycleEnds ==
    workflow.status = "ADMIN_CYCLE_IN_PROGRESS"
        ~> (workflow.status = "AVAILABLE_FOR_FINAL_USERS" \/ workflow.deleted)

\* The reviewers of the running cycle who have not acted, in step order.
RemainingReviewers ==
    LET c == workflow.activeCycle
        current == cycles[c].currentOrder
        AtOrder(o) == CHOOSE s \in StepsOf(c) : steps[s].order = o
    IN  [ i \in 1..(Cardinality(StepsOf(c)) - current + 1) |->
            steps[AtOrder(current + i - 1)].user ]

InReview == workflow.status = "ADMIN_CYCLE_IN_PROGRESS"

\* The three tables implement a queue of reviewers.
Queue == INSTANCE ReviewQueue WITH
    stage  <- IF workflow.deleted THEN "withdrawn"
              ELSE IF InReview THEN "in review"
              ELSE IF workflow.status \in TerminalStatus THEN "ended"
              ELSE "with final users",
    queue  <- IF InReview /\ ~workflow.deleted THEN RemainingReviewers ELSE <<>>,
    holder <- workflow.assigned

\* The shifting of step_order and the statuses of the rows amount to a queue:
\* each reviewer gets exactly one turn, in order, a forward only replaces the
\* head, and a workflow in review can be neither closed nor cancelled.
ImplementsReviewQueue == Queue!Spec

\* The comment on the shift (workflow-admin-cycle.service.ts:516): done in bulk
\* it "avoids the violation of the unique constraint", so a forward that passes
\* its checks is never rolled back.
ForwardCommits == ~rolledBack
=============================================================================
