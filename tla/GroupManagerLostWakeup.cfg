SPECIFICATION FairSpec
CONSTANTS
    g1 = g1
    g2 = g2
    t1 = t1
    l1 = l1
    l2 = l2
    Groups = {g1}
    Tags = {t1}
    NestedGroups = {}
    Loops = {l1, l2}
    ForceAfter = 1
PROPERTY QueuedIsRemoved
CHECK_DEADLOCK FALSE
