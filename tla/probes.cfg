SPECIFICATION FairSpec
CONSTANTS
    Requests = {r1, r2}
    NumChecks = 2
    Concurrencies = {0, 5}
    DefaultMaxConcurrency = 2
    DefaultMaxChecks = 4
INVARIANTS
    CallbacksBounded
    ReadyMeansChecked
    TransitionsAddUp
PROPERTIES
    ProbesAnswer
CHECK_DEADLOCK FALSE
