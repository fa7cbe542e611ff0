\* Servers' and clients' connections with every closer, and the manager alone.
CONSTANTS
    Situations <- EverySituation
    RecvCap = 1
    CommonCap = 5
    MaxPackets = 3
SPECIFICATION FairSpec
INVARIANTS TypeOK NoPanic
PROPERTIES ClosedRests LockReleased
CHECK_DEADLOCK FALSE
