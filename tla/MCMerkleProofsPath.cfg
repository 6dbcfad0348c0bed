CONSTANT MaxLeaves = 16
INIT Init
NEXT Next
INVARIANT PathIndicesMatchTree
