CONSTANTS
    Direct = {tcp, udp, ipv6}
    W = W
    Relay = Relay
    Mappings = {m1, m2}
    Nobody = Nobody
    Probes = {m1}
    MaxConns = 2
    MaxPrompts = 2
    MuxEnabled = TRUE
    PreReadLimit = 1
    MaxTunnels = 3
    MaxAccepts = 4
    Clones = {a, b}
    Sends = 1
    MaxMsg = 2
    Buffer = 2
SPECIFICATION MCSpec
INVARIANTS
    PcFollowsResult
    DirectIsP2p
    NeverPinned
    LoginIsOwn
    NoSplice
PROPERTIES
    RelayIsLast
    NoConnectionLost
    HeldSettles
    ResetIsOwn
    StopEndsTunnels
    TypedAnswers
    TurnComes
    SendReturns
CHECK_DEADLOCK FALSE
