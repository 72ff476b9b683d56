SPECIFICATION Spec
CONSTANTS
    Futures = {f1, f2, f3}
    MaxDepth = 2
    TxIdLimit = 1
SYMMETRY Symmetry
INVARIANTS
    CommittedOnReturn
    DisallowedMeansNone
    AppliedOnceIfKnown
    FlushedAfterRetry
PROPERTY
    FlushKeepsUntied
CHECK_DEADLOCK FALSE
