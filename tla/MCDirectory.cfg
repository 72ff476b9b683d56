SPECIFICATION Spec
CONSTANTS
    Clients = {c1, c2}
    Writers = {c2}
    PathNames = {a, b}
    Paths <- MCPaths
    AutoNames <- MCAuto
    ManualNames <- MCManual
    Root <- MCRoot
    None = None
SYMMETRY PathSymmetry
INVARIANT
    IsTree
PROPERTIES
    OverlapsOnlyGiven
    AllocatedIsEmpty
    NewerUntouched
CHECK_DEADLOCK FALSE
