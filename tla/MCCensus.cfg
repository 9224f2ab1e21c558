SPECIFICATION MCSpec
CONSTANTS
    main = main
    worker = worker
    Threads = {main, worker}
    NoThread = NoThread
    Mode = "Census"
    Blocks = {1}
    Segments = {}
    NoSegment = NoSegment
    Sizes = {1}
    Dests = {1, 2}
    Sites = {1}
    SinkFaults = TRUE
    Workloads = {"fault", "count"}
INVARIANTS
    TypeOK
    PendingCounted
PROPERTIES
    ReleasedWhole
CHECK_DEADLOCK FALSE
