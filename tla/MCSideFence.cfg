SPECIFICATION MCSpec
CONSTANTS
    main = main
    worker = worker
    Threads = {main, worker}
    NoThread = NoThread
    Mode = "Strict"
    Blocks = {1, 2}
    Segments = {s1}
    NoSegment = NoSegment
    Sizes = {1}
    Dests = {1}
    Sites = {1}
    SinkFaults = FALSE
    Workloads = {"blocks"}
INVARIANTS
    FencesMatchWriteback
SYMMETRY Symmetry
CHECK_DEADLOCK FALSE
