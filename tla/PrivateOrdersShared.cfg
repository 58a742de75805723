SPECIFICATION LeavingSpec
CONSTANTS
    Channels = {a}
    Streams = {s1, s2}
    Consumers = {c1, c2, c3}
    o1 = o1
    o2 = o2
    OrderIds = {o1, o2}
    NoChannel = NoChannel
    NoStream = NoStream
    NoView = NoView
    Units <- MCUnit
    Faults = {"lost", "refused", "tokenRefused", "tokenFails", "gap", "unavailable", "refuseSubscribe", "garble"}
    MaxFaults = 1
    MaxWire = 2
SYMMETRY Symmetry
INVARIANTS ConsumersAgree NoSilentEnd
PROPERTIES ConsumersHearNews
CHECK_DEADLOCK FALSE
