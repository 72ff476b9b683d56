SPECIFICATION Spec
CONSTANTS
    Handles = {h1, h2, h3}
    Procs = {p1, p2}
    Schedulers = 2
    Futures = {f1}
    None = None
SYMMETRY Symmetry
INVARIANTS
    NoUseAfterDestroy
    NothingLeaked
    OpenAllFills
CHECK_DEADLOCK FALSE
