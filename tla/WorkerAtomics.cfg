\* One worker, the monitor and the saver, one atomic access at a time
SPECIFICATION Spec
CONSTANT
    TaskLens <- MCTaskLens
INVARIANTS
    TypeOK
    ProgressMatchesGen
    CancelKept
