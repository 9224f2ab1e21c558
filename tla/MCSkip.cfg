SPECIFICATION MCLiveSpec
CONSTANTS
    main = main
    worker = worker
    Threads = {main, worker}
    NoThread = NoThread
    Mode = "Skip"
    Blocks = {1}
    Segments = {}
    NoSegment = NoSegment
    Sizes = {1}
    Dests = {1}
    Sites = {1, 2}
    SinkFaults = FALSE
    Workloads = {"skip", "live"}
INVARIANTS
    ReleasingIsFrozen
PROPERTIES
    SpansRelease
CHECK_DEADLOCK FALSE
