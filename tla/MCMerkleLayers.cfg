CONSTANTS
    Width = 8
    d1 = d1
    d2 = d2
    zero = zero
    Data <- MCData
    ZeroHash = zero
SPECIFICATION FairSpecCommitment
CHECK_DEADLOCK FALSE
INVARIANTS
    TypeOK
    EnabledPrefix
PROPERTIES
    ImplementsDataCommitment
