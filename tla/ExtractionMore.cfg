SPECIFICATION Spec
CONSTANTS
    Requests = {r1, r2}
    Handlers = {h1}
    Values = {a, b}
    Contents = {a}
    None = None
    Unreadable = Unreadable
    MaxFiles = 2
    MaxFaults = 1
SYMMETRY RequestSymmetry
INVARIANTS
    TypeOK
    ResultIsOfDocument
    FileIsStored
    ConfirmedAgrees
CHECK_DEADLOCK FALSE
