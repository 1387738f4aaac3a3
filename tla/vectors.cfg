SPECIFICATION Spec
CONSTANTS
    NA = NA
    IntMax = 5
    AddressHash <- MCAddressHash
    TextHash <- MCTextHash
    ShortMax = 4
    LongLength = 2
    LoopCost = 2
    Vectors <- MCVectors
    Subscripted <- MCSubscripted
    Mutated <- MCMutated
    Values <- MCValues
    Operands <- MCOperands
    ChunkSizes = {2, 3}
    MaxAssigned = 1
INVARIANTS  HashedFindsNames   ResultTypes
CHECK_DEADLOCK FALSE
