SPECIFICATION Spec
CONSTANTS
    Requests = {r1, r2}
    Companies = {c1}
    Global = Global
    Threshold = 2
    MaxStarts = 4
    MaxResets = 1
SYMMETRY RequestSymmetry
INVARIANTS
    GlobalContextSaved
    SuperAdminServed
CHECK_DEADLOCK FALSE
