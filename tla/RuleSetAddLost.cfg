SPECIFICATION HistorySpec
CONSTANTS
    x = x
    y = y
    c1 = c1
    c2 = c2
    empty = empty
    garbage = garbage
    Items = {x, y}
    Batches <- Batch
    Callers = {c1}
    MaxLen = 2
    MaxCalls = 2
    Empty = empty
    Garbage = garbage
PROPERTY AddIsWritten
