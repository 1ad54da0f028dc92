CONSTANTS
    Bodies = {1, 2, 3}
    Before <- OneByOne
    Deadline = {1}
    Single = {3}
    Stubborn = {2}
    Chunks <- Lengths
SPECIFICATION Spec
INVARIANTS TypeOK BufferOwned InOrder
PROPERTIES StalledReadEnds HelperEnds
CHECK_DEADLOCK FALSE
