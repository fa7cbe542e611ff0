\* A network that loses, duplicates and reorders.
CONSTANTS
    SNSpace = 64
    Keys = {k1, k2}
    Orig = Orig
    NoKey = NoKey
    Network = "unordered"
    Closers = {"server"}
    Copies = 1
    MaxTraffic = 2
    MaxAcks = 2
SYMMETRY Symmetry
SPECIFICATION Spec
INVARIANTS TypeOK ClientJustified ServerJustified
PROPERTY AgreementSpec
CHECK_DEADLOCK FALSE
