SPECIFICATION FairSpec
CONSTANTS
    p = p
    q = q
    x = x
    y = y
    v = v
    w = w
    nobody = nobody
    Callers = {p, q}
    Dests = {x, y}
    Domains = {y}
    Nobody = nobody
    Writers = {v, w}
    MaxStream = 3
    MaxCloses = 2
INVARIANT OwnDestination
INVARIANT AddressFirst
INVARIANT NothingOverread
INVARIANT BothEstablished
INVARIANT CountsOpen
PROPERTY DialsEnd
CHECK_DEADLOCK FALSE
