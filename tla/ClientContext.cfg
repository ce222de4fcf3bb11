SPECIFICATION FairSpec
CONSTANTS
    Payload <- MCPayload
    Reply <- MCReply
INVARIANT TrafficIntact
INVARIANT InfoBeforeTraffic
PROPERTY HandshakeEnds
CHECK_DEADLOCK FALSE
