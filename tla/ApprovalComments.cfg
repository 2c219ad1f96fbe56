SPECIFICATION Spec
CONSTANTS
    u1 = u1
    u2 = u2
    Users <- MCUsers
    None = None
    ApproverLists <- MCShortLists
    Requests = {r1, r2, r3}
    MaxSteps = 2
SYMMETRY RequestSymmetry
INVARIANT CurrentApproverDecides
PROPERTY ApprovedForFinalUsers
CHECK_DEADLOCK FALSE
