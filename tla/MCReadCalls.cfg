SPECIFICATION ReadSpec
CONSTANTS
    MaxKey = 4
    Bounds <- MCBounds
    MaxLimit = 2
    MaxWrites = 1
    Lists <- MCLists
    Splits <- MCSplits
    Futures = {f1, f2, f3, f4}
    Tied = {f3, f4}
    Candidates = {f1, f2}
INVARIANTS
    NoRowTwice
    NoRowSkipped
    SameAsOneRead
    ResultsMatch
    SplitExact
    NoMessageLost
PROPERTIES
    Ends
    Returns
    AnyReturns
CHECK_DEADLOCK FALSE
