SPECIFICATION FairSpec
CONSTANTS
    Futures = {f1}
    Procs = {p1, p2}
    NoThread = NoThread
    Network = Network
    AllocMayFail = TRUE
INVARIANTS
    RefCountExact
    NoUseAfterFree
    PidEnvValid
    QuietAfterReturn
PROPERTIES
    CancelReturns
    WaitReturns
    Reclaimed
CHECK_DEADLOCK FALSE
