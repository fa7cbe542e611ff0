\* A second MSG_CLOSE_CONN behind the first.
CONSTANTS
    Situations <- PeerCloses
    RecvCap = 2
    CommonCap = 5
    MaxPackets = 4
SPECIFICATION Spec
INVARIANT ClosedConnReleased
CHECK_DEADLOCK FALSE
