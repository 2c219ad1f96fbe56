SPECIFICATION FairSpec
CONSTANTS
    Messages = {m1}
    Replicas = {p1, p2}
    Tabs = {t1}
    MaxFaults = 1
    MaxRestarts = 1
INVARIANTS
    NothingVanishes
    RepeatsExplained
    TabsTold
PROPERTY HandledInTheEnd
CHECK_DEADLOCK FALSE
