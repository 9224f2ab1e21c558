SPECIFICATION MCSpec
CONSTANTS
    NumSlots = 1
    Capacity = 1
    Extents = {e1}
    NoExtent = NoExtent
    Workloads = {"restore"}
INVARIANTS
    GateFollowsSurface
CHECK_DEADLOCK FALSE
