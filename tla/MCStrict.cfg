SPECIFICATION MCSpec
CONSTANTS
    main = main
    worker = worker
    Threads = {main, worker}
    NoThread = NoThread
    Mode = "Strict"
    Blocks = {1, 2}
    Segments = {s1, s2}
    NoSegment = NoSegment
    Sizes = {1}
    Dests = {1, 2}
    Sites = {1}
    SinkFaults = TRUE
    Workloads = {"release", "resolve", "draw", "device", "tile", "side"}
INVARIANTS
    SpanWindow
    MainFencesSound
    EveryPendingIsOwed
    WorkerInTurn
PROPERTIES
    EffectsInOrder
    EffectsOfLiveSpans
    HostBeforeEffects
    NothingPassesHeldBuffer
    ImplementsGuestProgress
SYMMETRY Symmetry
CHECK_DEADLOCK FALSE
