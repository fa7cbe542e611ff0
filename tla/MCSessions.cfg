\* Three ids, four of them handed out, so that they wrap.
CONSTANTS
    NoUser = NoUser
    Users = {u1, u2}
    Readers = {r1, r2}
    NumIDs = 3
    MaxUses = 4
    MaxFlight = 1
SPECIFICATION FairSpec
INVARIANTS TypeOK MapsAgree NoCrossTalk
PROPERTY SearchEnds
CHECK_DEADLOCK FALSE
