CONSTANTS
    p1 = p1
    p2 = p2
    Pieces = {p1, p2}
    MaxSaves = 2
    MaxCrashes = 1
    MaxErrors = 1
SPECIFICATION Spec
SYMMETRY PieceSymmetry
INVARIANTS TypeOK SaveSurvives OrphanHarmless SuccessDurable
PROPERTIES RefinesAtomicFile
