\* Each trouble alone, and Ctrl-C on top of stealing or of transient errors
SPECIFICATION Spec
CONSTANTS
    NumWorkers = 2
    Size = 3
    Seeds <- MCSeeds
    Done0 = {}
    RetryMax = 1
    MinChunk = 1
    Resume = TRUE
    Scenarios <- Hazards
INVARIANTS
    TypeOK
    ClaimsWritten
    NoDoubleWork
    CompleteOtherwise
    SuccessAccounted
PROPERTIES
    Termination
    CleanSuccess
