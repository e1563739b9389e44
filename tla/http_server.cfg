SPECIFICATION FairSpec
CONSTANTS
    Runners = {r1}
    Closers = {c1, c2}
    Waiters = {w1}
    Conns = {n1, n2}
    MaxConnections = 1
INVARIANTS
    CapacityExact
    HandlersJoined
    RunCleansUp
PROPERTIES
    ServerReturns
