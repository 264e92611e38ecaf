CONSTANTS
    Callers = {c1, c2}
    Instances = {i1, i2}
    Handles = {h1, h2}
    SharedHandles = {h1}
    ContextSize = 1
    Builds = {"debug", "release"}
    Null = Null
SPECIFICATION FairSpec
INVARIANTS FaultsNeedOverlap CompletionsStartFresh LeaksAreExplained
PROPERTY CallsReturn
