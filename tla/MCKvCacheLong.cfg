CONSTANTS
    Size = 5
    Seqs = {s1, s2}
    MaxPos = 10
    Ends <- RangeEnds
    MaxCalls = 0
    MaxBatch = 4
    UBatch = 2
    Window = 2
    MaxMoves = 5
    Mishaps = {}
SYMMETRY Symmetry
SPECIFICATION KvSpec
INVARIANT PositionsPresent
CHECK_DEADLOCK FALSE
