SPECIFICATION FairSpec
CONSTANTS
    Requests = {r1}
    Handlers = {h1}
    Values = {a, b}
    Contents = {a, Unreadable}
    None = None
    Unreadable = Unreadable
    MaxFiles = 2
    MaxFaults = 1
INVARIANTS
    ResultIsOfDocument
    ConfirmedAgrees
PROPERTY Settles
CHECK_DEADLOCK FALSE
