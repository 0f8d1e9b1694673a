CONSTANTS
    c1 = c1
    c2 = c2
    c3 = c3
    c4 = c4
    u1 = u1
    i1 = i1
    Conns = {c1, c2, c3, c4}
    Uuids = {u1}
    Addrs = {i1}
    Nobody = Nobody
SPECIFICATION FairRelaySpec
INVARIANTS
    RelayOwnsStreams
    UsageIsLive
PROPERTIES
    WaiterReleased
    BlockEndsRelay
CHECK_DEADLOCK FALSE
