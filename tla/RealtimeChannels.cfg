SPECIFICATION FairSpec
CONSTANTS
    PublicChannels = {p}
    PrivateChannels = {q}
    Consumers = {c1, c2}
    Shareds = {s1, s2}
    NoShared = NoShared
    NoConsumer = NoConsumer
    NoChannel = NoChannel
    Faults = {"loadFails", "drop", "terminal", "token", "tokenRefused", "ended"}
    MaxFaults = 1
    MaxAuthChanges = 1
INVARIANTS TypeOK AlwaysAttached OneSubscription NothingLeaks EveryoneOpen
PROPERTIES LeavingIsHeeded SubscribeRestarts EventuallyOpen
CHECK_DEADLOCK FALSE
