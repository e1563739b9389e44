SPECIFICATION Spec
CONSTANTS
    N = 1
    HasAdmission = {1}
    HasStart = {1}
    HasStop = {1}
    MaxTasks = 1
    Starters = {s1}
    Stoppers = {d1}
    Drainers = {}
    Cancelers = {}
    Tasks = {}
    EarlyCallers = {d1}
    None = None
INVARIANTS
    AdmissionBeforeStop
