SPECIFICATION Spec
CONSTANTS
    a = a
    b = b
    n = n
    p = p
    q = q
    nil = nil
    Tags = {a, b, n}
    Nested = {n}
    Dead = {b}
    Good = {a}
    Nil = nil
    DelayRange = 8
    Tolerance = 1
    Measured = {1, 3}
    Checkers = {p, q}
CHECK_DEADLOCK FALSE
INVARIANT RemovedNotSelected
