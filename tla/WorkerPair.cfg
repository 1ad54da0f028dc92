\* The in-progress pair a sidecar saves
SPECIFICATION Spec
CONSTANT
    TaskLens <- MCTaskLens
INVARIANT
    SavedPairTrue
