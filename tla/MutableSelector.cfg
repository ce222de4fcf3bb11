SPECIFICATION Spec
CONSTANTS
    a = a
    b = b
    c = c
    p = p
    q = q
    k1 = k1
    k2 = k2
    nil = nil
    Tags = {a, b, c}
    Configured = {a, b}
    Default = a
    Callers = {p, q}
    Conns = {k1, k2}
    HasCache = TRUE
    Nil = nil
SYMMETRY Symmetry
INVARIANT TypeOK
INVARIANT SelectedIsMember
INVARIANT CacheFollows
INVARIANT NoOldRiders
PROPERTY SelectionKept
CHECK_DEADLOCK FALSE
