CONSTANTS
    Width = 4
    d1 = d1
    d2 = d2
    zero = zero
    Data <- MCData
    ZeroHash = zero
INIT InitValidatorSet
NEXT Next
CHECK_DEADLOCK FALSE
INVARIANT ValidatorRootCommitsEnabled
