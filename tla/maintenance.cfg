SPECIFICATION FairSpec
CONSTANTS
    Calls = {q1}
    Inputs <- MCInputs
    Statuses = {200, 500}
    Operators = {o1, o2}
    DownOptions <- MCDownOptions
    Second = 10
    MaximumDuration = 30
    MaxStarts = 2
    MaxFaults = 2
INVARIANT SnapshotGenuine
INVARIANT TemporariesAccounted
INVARIANT ObservedIsSent
INVARIANT RefusedUnavailable
PROPERTY SnapshotsConverge
CHECK_DEADLOCK FALSE
