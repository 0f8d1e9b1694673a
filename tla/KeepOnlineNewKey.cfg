CONSTANTS
    Ips = {a1}
    Home = a1
    Loopback = {}
    Pks = {p1, p2}
    MaxIds = 2
    MaxMoves = 0
    MaxRestarts = 0
    MaxKeys = 1
    Nothing = Nothing
SPECIFICATION Spec
PROPERTIES NewKeyRegistered
