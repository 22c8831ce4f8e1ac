CONSTANTS
    u1 = u1
    u2 = u2
    u3 = u3
    s1 = s1
    s2 = s2
    Users <- ThreeUsers
    Nobody = Nobody
    Slots <- TwoSlots
    Grant = 1
    InitialPoints = 2
    MaxTries = 2
    InitialRows <- TwoRows
    MaxRequests = 3
    MaxRedisFaults = 0
    MaxLostClaims = 1
    MaxBreaks = 1
    MaxCrashes = 0
SPECIFICATION Spec
CHECK_DEADLOCK FALSE
SYMMETRY SlotSymmetry
INVARIANTS
    OrdinaryBalance
    PriorityBalance
    ClaimsAreRounds
    PriorityServesOnce
PROPERTY LedgerSpec
