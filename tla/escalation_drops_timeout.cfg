SPECIFICATION Spec
CONSTANTS
    Budgeted = {TRUE}
    Total = 2
    Component = 2
    N = 1
    MaxSignals = 2
    None = None
INVARIANTS
    ExpiredPhaseReported
