SPECIFICATION MCLiveSpec
CONSTANTS
    NumSlots = 1
    Capacity = 1
    Extents = {e1}
    NoExtent = NoExtent
    Workloads = {"faults"}
PROPERTIES
    CloseEnds
CHECK_DEADLOCK FALSE
