SPECIFICATION FairHistorySpec
CONSTANTS
    x = x
    y = y
    c1 = c1
    c2 = c2
    empty = empty
    garbage = garbage
    Items = {x, y}
    Batches <- Batch
    Callers = {c1, c2}
    MaxLen = 2
    MaxCalls = 2
    Empty = empty
    Garbage = garbage
INVARIANT HistoryTypeOK
PROPERTY CalmCallsKeepTheirWord
PROPERTY InSync
CHECK_DEADLOCK FALSE
