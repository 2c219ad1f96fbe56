SPECIFICATION Spec
CONSTANTS
    u1 = u1
    u2 = u2
    Users <- MCUsers
    None = None
    ApproverLists <- MCApproverLists
    Requests = {r1, r2}
    MaxSteps = 4
SYMMETRY RequestSymmetry
PROPERTIES
    RejectedIsTerminal
CHECK_DEADLOCK FALSE
