SPECIFICATION ExecuteFairSpec
CONSTANTS
    Tasks = {t1}
    MaxSignals = 2
INVARIANT ExitTells
INVARIANT OwnersReleased
INVARIANT ClassificationExact
PROPERTY CommandExits
CHECK_DEADLOCK FALSE
