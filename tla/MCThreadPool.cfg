CONSTANTS
    MaxThreads = 3
    Nodes = 2
    Chunks = 3
    PerThread = 1
    MaxGraphs = 2
    SameWidth = TRUE
SPECIFICATION FairPoolSpec
INVARIANTS ChunksComputedOnce QuietBetweenGraphs
PROPERTIES ImplementsLockstep NoWakeUpIsLost
