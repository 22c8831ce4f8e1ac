CONSTANTS
    u1 = u1
    u2 = u2
    u3 = u3
    s1 = s1
    s2 = s2
    Users <- ThreeUsers
    Nobody = Nobody
    Slots <- TwoSlots
    MaxTries = 2
    MaxCodes = 2
    MaxRequests = 4
    MaxFaults = 1
    MaxLost = 1
    MaxRestarts = 1
    MaxFailures = 1
    MaxResends = 1
CHECK_DEADLOCK FALSE
SPECIFICATION FairSpec
INVARIANTS
    HandedOnce
    OneHolder
    AvailableIsListed
PROPERTIES
    NeverReordered
    LuckyLedgerSpec
    ClaimsEnd
