CONSTANTS
    NumRows = 1
    Texts = {t1, t2}
    Uuids = {u1, u2}
    Scores = {s4}
    Null = Null
    Threads = {main, worker}
SPECIFICATION FairHistorySpec
INVARIANTS FlowTypeOK ReturnedCallsShow
PROPERTIES HistoryAppendOnly ImplementsSession LockFree
