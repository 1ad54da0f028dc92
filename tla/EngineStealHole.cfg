\* A steal mark that reaches the next task of its worker
SPECIFICATION Spec
CONSTANTS
    NumWorkers = 2
    Size = 4
    Seeds <- MCSeeds
    Done0 = {}
    RetryMax = 1
    MinChunk = 1
    Resume = FALSE
    Scenarios <- OnlySteal
INVARIANT
    SuccessComplete
