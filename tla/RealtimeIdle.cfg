SPECIFICATION Spec
CONSTANTS
    PublicChannels = {p, r}
    PrivateChannels = {q}
    Consumers = {c1, c2, c3}
    Shareds = {s1, s2, s3}
    NoShared = NoShared
    NoConsumer = NoConsumer
    NoChannel = NoChannel
    Faults = {}
    MaxFaults = 0
    MaxAuthChanges = 0
SYMMETRY Symmetry
INVARIANTS IdleClientsClose
CHECK_DEADLOCK FALSE
