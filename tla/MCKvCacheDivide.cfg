CONSTANTS
    Size = 3
    Seqs = {s1, s2}
    MaxPos = 4
    Ends <- RangeEnds
    MaxCalls = 2
    MaxBatch = 3
    UBatch = 2
    Window = 2
    MaxMoves = 3
    Mishaps = {"divide"}
SYMMETRY Symmetry
SPECIFICATION KvSpec
INVARIANT KeysFollow
CHECK_DEADLOCK FALSE
