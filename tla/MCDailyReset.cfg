CONSTANTS
    t1 = t1
    c1 = c1
    Tokens = {t1}
    Codes = {c1}
    Scheduler = scheduler
    Nobody = nobody
    TicksPerDay = 3
    ResetTick = 1
    MaxSlow = 1
    MaxFaults = 1
    MaxCrashes = 1
SPECIFICATION FairSpec
INVARIANTS SessionsSurvive OncePerDay CaughtUp NoCodeStranded
PROPERTY ResetsGoOn
