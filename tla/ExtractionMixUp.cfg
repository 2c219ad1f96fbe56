SPECIFICATION Spec
CONSTANTS
    Requests = {r1, r2}
    Handlers = {h1}
    Values = {a, b}
    Contents = {a, b}
    None = None
    Unreadable = Unreadable
    MaxFiles = 2
    MaxFaults = 0
SYMMETRY RequestSymmetry
INVARIANT ConfirmedIsOfDocument
CHECK_DEADLOCK FALSE
