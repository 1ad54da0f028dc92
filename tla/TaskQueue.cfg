\* Empty, full, wrapped and grown buffers of 1 to 8 slots
SPECIFICATION QueueSpec
CONSTANTS
    Values = {a, b}
    Nothing = nothing
    MinCap = 2
    MaxSeeded = 3
    SoftCaps = {0, 1, 3}
    MaxBatch = 3
    MaxCount = 6
INVARIANT
    QueueTypeOK
PROPERTY
    RefinesFifo
