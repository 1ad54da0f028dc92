\* Two or three servers that differ in content, size or manners, three runs
SPECIFICATION Spec
CONSTANTS
    Environments <- Mixed
    MaxRuns = 3
INVARIANTS
    TypeOK
    FilledWhenResuming
    FirstRunUnspliced
    NoLastingCorruption
CHECK_DEADLOCK FALSE
