CONSTANTS
    u1 = u1
    u2 = u2
    u3 = u3
    s1 = s1
    s2 = s2
    Users <- ThreeUsers
    Nobody = Nobody
    Slots <- OneSlot
    Grant = 1
    InitialPoints = 1
    MaxTries = 3
    InitialRows <- OneRow
    MaxRequests = 5
    MaxRedisFaults = 1
    MaxLostClaims = 1
    MaxBreaks = 0
    MaxCrashes = 1
SPECIFICATION Spec
CHECK_DEADLOCK FALSE
INVARIANTS
    CountsMirrorLedger
    PlacesFollowRows
PROPERTIES
    EmptyMeansNothing
