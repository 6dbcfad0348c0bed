CONSTANTS
    Nodes = {1, 2, 3, 4}
    Faulty = {}
    dummy = dummy
    Dummy = dummy
    Power <- MCPower
    VALIDATOR_SET_SIZE_MAX = 4
    MaxHeight = 3
    ValSetSizes = {3, 4}
SPECIFICATION HonestSpec
CHECK_DEADLOCK FALSE
PROPERTIES
    HonestProgress
