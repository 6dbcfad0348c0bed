CONSTANTS
    SeptetBits = 2
    Septets = 3
    FieldModulus = 1009
    k1 = k1
    k2 = k2
    PubKeys <- MCPubKeys
INIT Init
NEXT Next
INVARIANTS
    VarintMatchesProtobuf
    LeafBinding
