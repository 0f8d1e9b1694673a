CONSTANTS
    Ips = {a1, a2}
    Pks = {p1, p2}
    Home = a1
    Loopback = {}
    LocalIps = {a1, lo}
    LocalLoopback = {lo}
    MaxIds = 3
    MaxMoves = 2
    MaxRestarts = 1
    MaxKeys = 1
    Nothing = Nothing
SPECIFICATION MCSpec
INVARIANTS KeepsId
PROPERTIES MCStaysRegistered
