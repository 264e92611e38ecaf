CONSTANTS
    Files = {good, other}
    Readable = {good, other}
    Picks = {p1, p2}
    AssertionsEnabled = FALSE
    Null = Null
SPECIFICATION FairPickerSpec
INVARIANTS PickerTypeOK DialogExplained   ClosedMeansWritten
PROPERTY DialogGoes
