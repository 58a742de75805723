SPECIFICATION FairFeedSpec
CONSTANTS
    Channels = {a}
    Streams = {s1}
    Consumers = {c1}
    o1 = o1
    o2 = o2
    OrderIds = {o1, o2}
    NoChannel = NoChannel
    NoStream = NoStream
    NoView = NoView
    Units <- MCUnits
    Faults = {"gap", "lost", "refused", "slow", "unavailable", "expiring", "ended", "forgotten", "streamError", "tokenExpiring", "error", "shortSnapshot", "tokenRefused", "tokenFails", "noSocket", "noWebSocket", "cursorExpired", "cursorInvalid", "refuseSubscribe", "refuseRefresh"}
    MaxFaults = 2
    MaxWire = 2
INVARIANTS TypeOK OneAttempt ViewMatchesCursor
PROPERTIES ImplementsOrderFeed EventuallyServed
CHECK_DEADLOCK FALSE
