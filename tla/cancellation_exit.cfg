SPECIFICATION ExecuteSpec
CONSTANTS
    Tasks = {t1}
    MaxSignals = 2
INVARIANT CancellationIsClean
CHECK_DEADLOCK FALSE
