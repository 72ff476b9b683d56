SPECIFICATION Spec
CONSTANTS
    MaxFixed = 2
    StampLen = 2
    MaxDepth = 2
    Tuples <- MCTuples
    Stamped <- MCStamped
    Stamps <- MCStamps
    KeyPrefixes <- MCKeyPrefixes
    MaxKeys = 2
INVARIANTS
    KeysAreTuples
    OrderKept
