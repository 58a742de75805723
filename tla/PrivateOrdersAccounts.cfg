SPECIFICATION Spec
CONSTANTS
    Channels = {a, b}
    Streams = {s1, s2}
    Consumers = {c1, c2}
    o1 = o1
    o2 = o2
    OrderIds = {o1, o2}
    NoChannel = NoChannel
    NoStream = NoStream
    NoView = NoView
    Units <- MCUnit
    Faults = {"lost", "tokenFails", "refuseSubscribe", "ended", "tokenExpiring", "garble", "gap", "refused"}
    MaxFaults = 1
    MaxWire = 2
SYMMETRY Symmetry
INVARIANTS OneConnection TablesAgree NoOrphanSubscription
CHECK_DEADLOCK FALSE
