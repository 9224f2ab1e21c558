SPECIFICATION MCSpec
CONSTANTS
    main = main
    worker = worker
    Threads = {main, worker}
    NoThread = NoThread
    Mode = "Strict"
    Blocks = {1}
    Segments = {}
    NoSegment = NoSegment
    Sizes = {1}
    Dests = {1}
    Sites = {1}
    SinkFaults = FALSE
    Workloads = {"threads"}
INVARIANTS
    OneThreadPerSpan
CHECK_DEADLOCK FALSE
