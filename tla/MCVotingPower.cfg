CONSTANTS
    LimbBits = 2
    VALIDATOR_SET_SIZE_MAX = 3
INIT Init
NEXT Next
CHECK_DEADLOCK FALSE
INVARIANTS
    TypeOK
    AccumulatorExact
    ThresholdCorrect
