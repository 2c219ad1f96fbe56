SPECIFICATION Spec
CONSTANTS
    Requests = {r1}
    MaxTokens = 1
    MaxAvatars = 0
    MaxStarts = 5
    MaxFaults = 0
INVARIANT DisabledCannotLogIn
CHECK_DEADLOCK FALSE
