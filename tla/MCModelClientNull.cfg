CONSTANTS
    Callers = {c1}
    Instances = {i1, i2}
    Handles = {h1}
    SharedHandles = {h1}
    ContextSize = 1
    Builds = {"release"}
    Null = Null
SPECIFICATION Spec
INVARIANT NullIsNeverDereferenced
