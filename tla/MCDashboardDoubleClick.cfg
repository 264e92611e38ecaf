CONSTANTS
    NumRows = 1
    Texts = {t1}
    Uuids = {u1, u2}
    Scores = {s4}
    Null = Null
    Improvers = {j1, j2}
    Scorers = {k1}
SPECIFICATION DashSpec
INVARIANT DisabledWhileRunning
