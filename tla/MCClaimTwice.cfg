CONSTANTS
    u1 = u1
    u2 = u2
    u3 = u3
    s1 = s1
    s2 = s2
    Users <- TwoUsers
    Nobody = Nobody
    Slots <- TwoSlots
    Grant = 2
    InitialPoints = 0
    MaxTries = 2
    InitialRows <- TwoRows
    MaxRequests = 2
    MaxRedisFaults = 0
    MaxLostClaims = 0
    MaxBreaks = 0
    MaxCrashes = 0
SPECIFICATION Spec
CHECK_DEADLOCK FALSE
INVARIANT EachPairOnce
