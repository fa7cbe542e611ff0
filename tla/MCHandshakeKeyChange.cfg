\* The retry timer against the acknowledgement.
CONSTANTS
    SNSpace = 64
    Keys = {k1, k2}
    Orig = Orig
    NoKey = NoKey
    Network = "reliable"
    Closers = {"client", "server"}
    Copies = 1
    MaxTraffic = 4
    MaxAcks = 20
SYMMETRY Symmetry
SPECIFICATION Spec
INVARIANT EstablishedKeyStays
CHECK_DEADLOCK FALSE
