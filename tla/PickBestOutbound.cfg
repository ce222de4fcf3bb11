SPECIFICATION LoopSpec
CONSTANTS
    a = a
    b = b
    c = c
    nil = nil
    Tags = {a, b, c}
    Nil = nil
    DelayRange = 8
    Tolerance = 2
SYMMETRY Symmetry
INVARIANT NoneMuchBetter
INVARIANT MovesForGain
INVARIANT FindsOne
INVARIANT IsAPick
CHECK_DEADLOCK FALSE
