SPECIFICATION FairSpec
CONSTANTS
    Futures = {f1, f2}
    Tied = {f1, f2}
    Candidates = {f1, f2}
PROPERTY
    AnyReturns
CHECK_DEADLOCK FALSE
