---------------------------- MODULE WorkflowRow ----------------------------
(***************************************************************************)
(* The row of table "workflows" that WorkflowApprovalService,              *)
(* WorkflowAdminCycleService and WorkflowsService of workflow-service      *)
(* read and write, and the state machine they check it against             *)
(* (workflow-state-machine.ts).  Timestamps, titles, notes and attachments *)
(* are left out: no guard reads them.                                      *)
(***************************************************************************)
EXTENDS Naturals

CONSTANTS
    Users,      \* user ids (uuid)
    None        \* a null user id

ASSUME NoneAssumption == None \notin Users

WorkflowStatus ==
    { "DRAFT", "PENDING_APPROVAL", "RETURNED_TO_CREATOR", "REJECTED",
      "PENDING_REVIEW_CYCLE", "AVAILABLE_FOR_FINAL_USERS",
      "ADMIN_CYCLE_IN_PROGRESS", "CLOSED", "CANCELLED" }

\* The table of the transitions a handler may ask for.
VALID_TRANSITIONS ==
    {"DRAFT", "RETURNED_TO_CREATOR"} \X {"PENDING_APPROVAL"}
        \cup {"PENDING_APPROVAL"} \X
             {"PENDING_REVIEW_CYCLE", "AVAILABLE_FOR_FINAL_USERS", "REJECTED"}
        \cup {"PENDING_REVIEW_CYCLE"} \X
             {"ADMIN_CYCLE_IN_PROGRESS", "AVAILABLE_FOR_FINAL_USERS"}
        \cup {"AVAILABLE_FOR_FINAL_USERS"} \X
             {"ADMIN_CYCLE_IN_PROGRESS", "CLOSED", "CANCELLED"}
        \cup {"ADMIN_CYCLE_IN_PROGRESS"} \X {"AVAILABLE_FOR_FINAL_USERS"}

\* assertValidTransition: the handler throws unless this holds.
CanTransition(current, next) == <<current, next>> \in VALID_TRANSITIONS

TerminalStatus == {"REJECTED", "CLOSED", "CANCELLED"}

\* A null cycle, step or step order: ids and orders start at 1.
Null == 0

Workflow ==
    [ status             : WorkflowStatus,
      deleted            : BOOLEAN,           \* deletedAt is set
      createdBy          : Users,
      assigned           : Users \cup {None}, \* currentAssignedUserId
      finalUsers         : SUBSET Users,      \* finalUserIds, {} when null
      reviewCycleEnabled : BOOLEAN,
      documentValidated  : BOOLEAN,           \* mainDocumentValidated
      approvalOrder      : Nat,               \* currentApprovalStepOrder
      rejectedAtStep     : Nat,               \* rejectedAtStepId
      activeCycle        : Nat ]              \* activeAdminCycleId

\* Where the requests of "my flows" find a workflow once it left the approval.
Visible ==
    { "AVAILABLE_FOR_FINAL_USERS", "ADMIN_CYCLE_IN_PROGRESS", "REJECTED", "CLOSED" }

\* Mutant: the turns of a review cycle are not among the tasks.
InTasksOutsideCycles(w, u) ==
    /\ ~w.deleted
    /\ \/ /\ w.assigned = u
          /\ w.status \in {"PENDING_APPROVAL", "PENDING_REVIEW_CYCLE"}
       \/ w.createdBy = u /\ w.status = "DRAFT"

\* getMyTasks: what waits for u.
InMyTasks(w, u) ==
    /\ ~w.deleted
    /\ \/ /\ w.assigned = u
          /\ w.status \in { "PENDING_APPROVAL", "ADMIN_CYCLE_IN_PROGRESS",
                            "PENDING_REVIEW_CYCLE" }
       \/ w.createdBy = u /\ w.status = "DRAFT"

\* getMyAvailable: what u took part in.  approvers are the users of its approval
\* steps, reviewers those of the steps of its cycles, onCall those that have a
\* pending optional step in the running cycle or may be given one.
InMyFlows(w, u, approvers, reviewers, onCall) ==
    /\ ~w.deleted
    /\ \/ u \in w.finalUsers \cup reviewers /\ w.status \in Visible
       \/ u \in onCall /\ w.status = "ADMIN_CYCLE_IN_PROGRESS"
       \/ w.createdBy = u /\ w.status \in Visible \cup {"RETURNED_TO_CREATOR"}
       \/ u \in approvers /\ w.status \in Visible \ {"ADMIN_CYCLE_IN_PROGRESS"}
=============================================================================
