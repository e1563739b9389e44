SPECIFICATION Spec
CONSTANTS
    N = 2
    HasAdmission = {1, 2}
    HasStart = {1, 2}
    HasStop = {1, 2}
    MaxTasks = 2
    Starters = {s1, s2}
    Stoppers = {d1}
    Drainers = {r1}
    Cancelers = {c1}
    Tasks = {t1, t2}
    EarlyCallers = {}
    None = None
SYMMETRY Symmetry
INVARIANTS
    AdmissionBeforeStop
    FailuresRetained
PROPERTIES
    ImplementsContract
    AdmissionBeforeCancel
    ReadinessWithdrawn
