SPECIFICATION RunFairSpec
CONSTANTS
    Preparers = {p1, p2}
    Recoverers = {r1, r2}
    Runner = p1
    None = None
    MaxFaults = 3
INVARIANT OneEffect
INVARIANT ReportsTrue
PROPERTY CampaignEnds
CHECK_DEADLOCK FALSE
