SPECIFICATION MCLiveSpec
CONSTANTS
    Depth = 2
    Census = TRUE
    Pollers = {1, 2}
    Marks = {1, 2}
    Workloads = {"chains", "mixed", "direct", "images"}
INVARIANTS
    TypeOK
    ImagesAreDone
    PeekedIsLive
    NoStaleImages
PROPERTIES
    ImplementsHostWork
    EveryValueCompletes
CHECK_DEADLOCK FALSE
