\* Files of 4 bytes with up to 3 loose entries, of 5 bytes (MaxInt) with 2
SPECIFICATION Spec
CONSTANTS
    MaxInt = 5
    MaxSeedTasks = 3
    MinSeedChunk = 2
    Totals = {4, 5}
    MaxWork = 12
    ChunkLen = 2
INVARIANTS
    TypeOK
    SidecarCompact
    SeedsExact
    SplitBounded
    TrimSafe
PROPERTY
    RefinesClaimSet
