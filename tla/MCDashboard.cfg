CONSTANTS
    NumRows = 2
    Texts = {t1}
    Uuids = {u1, u2, u3}
    Scores = {s4}
    Null = Null
    Improvers = {j1, j2}
    Scorers = {k1}
SPECIFICATION DashSpec
INVARIANTS DashTypeOK SelectionConsistent BusyRowsHaveAJob
    RowsShowTheirJob FlagHasItsJob
SYMMETRY Symmetry
