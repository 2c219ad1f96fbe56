SPECIFICATION Spec
CONSTANTS
    Requests = {r1, r2}
    MaxTokens = 2
    MaxAvatars = 2
    MaxStarts = 5
    MaxFaults = 1
SYMMETRY RequestSymmetry
INVARIANTS
    TypeOK
    AvatarStored
CHECK_DEADLOCK FALSE
