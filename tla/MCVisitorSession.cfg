CONSTANTS
    None = None
    MaxVisits = 2
    MaxCalls = 1
    MaxFaults = 1
CHECK_DEADLOCK FALSE
SPECIFICATION FairSpec
INVARIANT InvitationKept
PROPERTIES
    OneVisitorOneUser
    GateOpens
