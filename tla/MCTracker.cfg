\* One configuration that may be taken away, an address that changes, a rival;
\* the server may be closed.
CONSTANTS
    Links = {l1}
    NoLink = NoLink
    Addrs = {a1}
    NoAddr = NoAddr
    Unreported = Unreported
    Rivals = TRUE
    Deletable = TRUE
SPECIFICATION FairSpec
INVARIANTS TypeOK OnlineHasAddress
PROPERTIES AddressGetsThere ClosedLinkEnds TrackerProcEnds
CHECK_DEADLOCK FALSE
