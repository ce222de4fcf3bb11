SPECIFICATION FairSpec
CONSTANTS
    g1 = g1
    g2 = g2
    t1 = t1
    l1 = l1
    l2 = l2
    Groups = {g1, g2}
    Tags = {t1}
    NestedGroups = {}
    Loops = {l1, l2}
    ForceAfter = 1
INVARIANT SingleLoop
PROPERTY OnlyQueuedRemoved
PROPERTY DeadlineKept
PROPERTY RemovedHasLeft
PROPERTY WatchedIsRemoved
PROPERTY CloseStopsLoops
CHECK_DEADLOCK FALSE
