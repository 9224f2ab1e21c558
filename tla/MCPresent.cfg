SPECIFICATION MCSpec
CONSTANTS
    NumSlots = 2
    Capacity = 2
    Extents = {e1, e2}
    NoExtent = NoExtent
    Workloads = {"brief", "loss", "reuse", "window"}
INVARIANTS
    TypeOK
    SourceStable
    SourceHeld
    OwnersOutliveGpu
    DrainedIsIdle
    OffersAccounted
PROPERTIES
    FramesInOrder
    ImplementsOutputOwnership
SYMMETRY Symmetry
CHECK_DEADLOCK FALSE
