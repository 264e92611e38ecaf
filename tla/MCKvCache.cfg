CONSTANTS
    Size = 3
    Seqs = {s1, s2}
    MaxPos = 4
    Ends <- RangeEnds
    MaxCalls = 2
    MaxBatch = 3
    UBatch = 2
    Window = 2
    MaxMoves = 3
    Mishaps = {}
SYMMETRY Symmetry
SPECIFICATION KvSpec
INVARIANTS IndexesExact KeysFollow LastSlotUsable
PROPERTIES DecodeKeepsTheWindow RefusedWhenFull
CHECK_DEADLOCK FALSE
