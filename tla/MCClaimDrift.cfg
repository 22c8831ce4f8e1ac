CONSTANTS
    u1 = u1
    u2 = u2
    u3 = u3
    s1 = s1
    s2 = s2
    Users <- ThreeUsers
    Nobody = Nobody
    Slots <- TwoSlots
    Grant = 1
    InitialPoints = 0
    MaxTries = 3
    InitialRows <- ThreeRows
    MaxRequests = 3
    MaxRedisFaults = 0
    MaxLostClaims = 0
    MaxBreaks = 0
    MaxCrashes = 0
SPECIFICATION Spec
CHECK_DEADLOCK FALSE
INVARIANT CountsMirrorLedger
