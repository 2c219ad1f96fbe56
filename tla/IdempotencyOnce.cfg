SPECIFICATION KeySpec
CONSTANTS
    Clients = {u1, u2}
    Calls = {c1, c2}
    Nothing = Nothing
    MaxExecutions = 3
    MaxDeletes = 2
INVARIANTS
    ExecutedOnceWithinTtl
CHECK_DEADLOCK FALSE
