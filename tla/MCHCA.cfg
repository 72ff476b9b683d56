SPECIFICATION Spec
CONSTANTS
    Clients = {c1, c2}
    Bound1 = 1
    Bound2 = 6
    Size1 = 5
    Size2 = 3
    Size3 = 3
    MaxNum = 8
    MaxNested = 2
SYMMETRY Symmetry
INVARIANTS
    GivenOnce
    RoomLeft
    WindowIsLatest
PROPERTY
    ImplementsAllocator
CHECK_DEADLOCK FALSE
