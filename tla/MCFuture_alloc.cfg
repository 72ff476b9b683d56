SPECIFICATION Spec
CONSTANTS
    Futures = {f1}
    Procs = {p1, p2}
    NoThread = NoThread
    Network = Network
    AllocMayFail = TRUE
SYMMETRY Symmetry
INVARIANTS
    AllocationFailureHandled
CHECK_DEADLOCK FALSE
