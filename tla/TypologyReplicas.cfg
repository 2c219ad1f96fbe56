SPECIFICATION Spec
CONSTANTS
    Replicas = {p1, p2}
    Requests = {r1, r2}
    Codes = {k1}
    NoCode = NoCode
    MaxDocs = 3
    MaxStarts = 2
    MaxFaults = 1
    MaxCrashes = 1
SYMMETRY Symmetry
INVARIANT AnsweredStays
CHECK_DEADLOCK FALSE
