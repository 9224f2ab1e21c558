SPECIFICATION MCSpec
CONSTANTS
    GuestThreads = {g1, g2}
    MaxCallbacks = 2
    MaxDue = 1
    MaxStops = 1
    MaxSets = 1
    Workloads = {"interrupts"}
PROPERTIES
    NoInterruptAfterClose
CHECK_DEADLOCK FALSE
