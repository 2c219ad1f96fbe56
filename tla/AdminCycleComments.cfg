SPECIFICATION Spec
CONSTANTS
    u1 = u1
    u2 = u2
    Users <- MCUsers
    None = None
    ReviewerLists <- MCReviewerLists
    OptionalPools <- MCOptionalPools
    MaxCycles = 2
INVARIANTS
    ForwardCommits
    HandedToCreator
CHECK_DEADLOCK FALSE
