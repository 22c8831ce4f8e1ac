CONSTANTS
    u1 = u1
    u2 = u2
    u3 = u3
    p1 = p1
    p2 = p2
    c1 = c1
    r1 = r1
    r2 = r2
    r3 = r3
    r4 = r4
    Users <- ThreeUsers
    Phones <- TwoPhones
    Codes <- OneCode
    None = None
    Requests <- FourRequests
    Reward = 2
    Amounts = {1}
    Limits = {0, 1, 2}
    MaxFaults = 1
SPECIFICATION Spec
SYMMETRY Symmetry
CHECK_DEADLOCK FALSE
INVARIANTS
    BalanceIsSum
    NeverOverspent
    InvitesPaidOnce
    CodesWithinLimits
    CodesPayOnce
