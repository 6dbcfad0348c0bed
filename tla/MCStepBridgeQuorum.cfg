CONSTANTS
    Nodes = {1, 2, 3}
    Faulty = {}
    dummy = dummy
    Dummy = dummy
    Power <- MCPower
    VALIDATOR_SET_SIZE_MAX = 2
    MaxHeight = 2
    ValSetSizes = {2}
SPECIFICATION Spec
CHECK_DEADLOCK FALSE
INVARIANTS
    SignedQuorum
