SPECIFICATION FairSpec
CONSTANTS
    u1 = u1
    u2 = u2
    Users <- MCUsers
    None = None
    ReviewerLists <- MCReviewerLists
    OptionalPools <- MCOptionalPools
    MaxCycles = 2
INVARIANTS
    ActiveCycleConsistent
    OrdersConsecutive
    TurnOrder
    WaitedForFindsIt
PROPERTIES
    HistoryFrozen
    CycleEnds
    ImplementsReviewQueue
CHECK_DEADLOCK FALSE
