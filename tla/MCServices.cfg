SPECIFICATION MCLiveSpec
CONSTANTS
    GuestThreads = {g1, g2}
    MaxCallbacks = 2
    MaxDue = 1
    MaxStops = 1
    MaxSets = 1
    Workloads = {"interrupts", "stubs", "calls"}
INVARIANTS
    TypeOK
    CallbackRaisedOnce
    LeasedSeeOpen
    NothingUsesReleased
PROPERTIES
    StopEnds
    RaiseAnswered
CHECK_DEADLOCK FALSE
