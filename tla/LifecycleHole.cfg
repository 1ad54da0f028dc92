\* Runs with and without --no-resume
SPECIFICATION Spec
CONSTANTS
    Environments <- Unresumed
    MaxRuns = 3
INVARIANT
    SuccessFilled
CHECK_DEADLOCK FALSE
