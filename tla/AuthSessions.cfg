SPECIFICATION Spec
CONSTANTS
    Requests = {r1, r2}
    Companies = {c1}
    Global = Global
    Threshold = 2
    MaxStarts = 3
    MaxResets = 1
SYMMETRY RequestSymmetry
INVARIANTS
    SpentOnce
    SessionsFollowPassword
    CredentialKept
    DemotedClaimRefused
CHECK_DEADLOCK FALSE
