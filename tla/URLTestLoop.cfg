SPECIFICATION FairSpec
CONSTANTS
    l1 = l1
    l2 = l2
    nil = nil
    Loops = {l1, l2}
    NoLoop = nil
INVARIANT AliveHasLoop
INVARIANT CrashOnlyIfEmptyStart
PROPERTY IdleEnds
 
CHECK_DEADLOCK FALSE
