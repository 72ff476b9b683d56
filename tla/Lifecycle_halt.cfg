SPECIFICATION Spec
CONSTANTS
    Clients = {c1}
    MaxLoads = 1
    HaltOverlapsNifs = TRUE
INVARIANT
    JoinedBeforeTermination
CHECK_DEADLOCK FALSE
