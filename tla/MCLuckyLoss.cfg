CONSTANTS
    u1 = u1
    u2 = u2
    u3 = u3
    s1 = s1
    s2 = s2
    Users <- TwoUsers
    Nobody = Nobody
    Slots <- OneSlot
    MaxTries = 2
    MaxCodes = 2
    MaxRequests = 3
    MaxFaults = 0
    MaxLost = 0
    MaxRestarts = 1
    MaxFailures = 1
    MaxResends = 0
CHECK_DEADLOCK FALSE
SPECIFICATION Spec
INVARIANT LossHeals
