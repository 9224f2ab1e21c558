SPECIFICATION MCLiveSpec
CONSTANTS
    t1 = t1
    t2 = t2
    o1 = o1
    o2 = o2
    d1 = d1
    d2 = d2
    Threads = {t1, t2}
    Owners = {o1, o2}
    Dispatchers = {d1, d2}
    NoDispatcher = NoDispatcher
    NoOwner = NoOwner
    Capacity = 1
    Workloads = {"sequence", "removal", "again"}
INVARIANTS
    TypeOK
    RemovedIsUnused
    DrainedDrawsDone
PROPERTIES
    ImplementsDrawVerdicts
    WaitsEnd
CHECK_DEADLOCK FALSE
