SPECIFICATION FairSpec
CONSTANTS
    Budgeted = {TRUE, FALSE}
    Total = 2
    Component = 2
    N = 2
    MaxSignals = 3
    None = None
INVARIANTS
    DeadlinesExclusive
    StopsSeeDeadline
    OutcomeReported
PROPERTIES
    EscalationReachesStops
    RunReturns
