SPECIFICATION FairSpec
CONSTANTS
    Water = {TRUE, FALSE}
    Names = {TRUE, FALSE}
    Servers = {TRUE}
INVARIANT MonitorsWatchNow
INVARIANT CancelledIsClosed
INVARIANT OnlyUapiLeft
INVARIANT CanUpdate
PROPERTY TermEnds
CHECK_DEADLOCK FALSE
