SPECIFICATION AccessSpec
CONSTANTS
    Calls = {r1, r2, r3}
    Users = {u1, u2}
    Roles = {a}
    NoRole = NoRole
    MaxCalls = 3
    MaxFailures = 1
SYMMETRY AccessSymmetry
INVARIANTS
    AccessTypeOK
    RoleUsable
    EnteringAreMembers
    DeletedHasNoMembers
CHECK_DEADLOCK FALSE
