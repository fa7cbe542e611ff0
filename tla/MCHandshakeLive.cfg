\* A FIFO that delivers every packet.
CONSTANTS
    SNSpace = 64
    Keys = {k1, k2}
    Orig = Orig
    NoKey = NoKey
    Network = "reliable"
    Closers = {"client"}
    Copies = 3
    MaxTraffic = 1
    MaxAcks = 20
SPECIFICATION FairSpec
INVARIANT SettledKeyShared
PROPERTY HandshakeEnds
CHECK_DEADLOCK FALSE
