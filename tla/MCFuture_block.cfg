SPECIFICATION FairSpec
CONSTANTS
    Futures = {f1}
    Procs = {p1, p2}
    NoThread = NoThread
    Network = Network
    AllocMayFail = FALSE
PROPERTIES
    BlockReturnsWhenReady
CHECK_DEADLOCK FALSE
