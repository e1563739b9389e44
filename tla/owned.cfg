SPECIFICATION FairSpec
CONSTANTS
    Starters = {s1, s2, s3}
    Stoppers = {p1, p2}
    None = None
INVARIANTS
    OneResource
    CurrentUsable
    StoppedHoldsNothing
PROPERTIES
    StopReturns
    ResourceReleased
