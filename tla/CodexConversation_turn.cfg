SPECIFICATION Spec
CONSTANTS
    Conns = {"k1", "k2"}
    MaxConnections = 1
    ChunkWrites = 2
    Worlds <- Sampled
    MaxToolCalls = 2
    MaxPending = 2
INVARIANTS
    GatedResult
    NothingOverlooked
    EgressIsMediated
CHECK_DEADLOCK FALSE
