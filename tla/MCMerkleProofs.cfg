CONSTANT MaxLeaves = 16
INIT Init
NEXT Next
INVARIANTS
    ProofRoundTrip
    CircuitPathSound
