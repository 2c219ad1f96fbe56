SPECIFICATION Spec
CONSTANTS
    u1 = u1
    u2 = u2
    Users = {u1}
    None = None
    ApproverLists <- MCOneList
    Requests = {r1, r2, r3}
    MaxSteps = 3
SYMMETRY RequestSymmetry
INVARIANTS
    TypeOK
    DecisionByItsApprover
    OneApproverHasTurn
    CycleRunsInItsStatus
PROPERTIES
    FinalUsersOnlyAfterAllApprovals
    TransitionsFollowTable
    OnlyDraftsEdited
CHECK_DEADLOCK FALSE
