SPECIFICATION Spec
CONSTANTS
    Replicas = {p1}
    Requests = {r1, r2}
    Codes = {k1}
    NoCode = NoCode
    MaxDocs = 3
    MaxStarts = 4
    MaxFaults = 0
    MaxCrashes = 0
INVARIANTS
    DeletedDoesNotBar
    MarkerCleared
CHECK_DEADLOCK FALSE
