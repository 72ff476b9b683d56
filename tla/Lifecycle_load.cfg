SPECIFICATION FairSpec
CONSTANTS
    Clients = {c1, c2, c3}
    MaxLoads = 3
    HaltOverlapsNifs = FALSE
INVARIANTS
    IInv
    StateNotFreed
    JoinedBeforeTermination
PROPERTIES
    StateMovesForward
    InitReturns
    JoinReturns
CHECK_DEADLOCK FALSE
