SPECIFICATION FairSpec
CONSTANTS
    N = 2
    HasAdmission = {1}
    HasStart = {1}
    HasStop = {2}
    MaxTasks = 1
    Starters = {s1}
    Stoppers = {d1, d2}
    Drainers = {}
    Cancelers = {}
    Tasks = {t1, t2}
    EarlyCallers = {d1, d2}
    None = None
INVARIANTS
    StopsAfterJoin
    SingleCoordinator
    TerminalResult
PROPERTIES
    CallsReturn
    TaskFailureCancels
