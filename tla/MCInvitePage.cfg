CONSTANTS
    MaxVersion = 3
    MaxActions = 1
    MaxFaults = 1
    MaxHides = 1
SPECIFICATION FairSpec
INVARIANT QuietPageIsFresh
PROPERTIES NeverBackwards CatchesUp
CHECK_DEADLOCK FALSE
