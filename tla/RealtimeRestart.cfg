SPECIFICATION Spec
CONSTANTS
    PublicChannels = {p}
    PrivateChannels = {q}
    Consumers = {c1, c2, c3}
    Shareds = {s1, s2}
    NoShared = NoShared
    NoConsumer = NoConsumer
    NoChannel = NoChannel
    Faults = {}
    MaxFaults = 0
    MaxAuthChanges = 2
SYMMETRY Symmetry
PROPERTY RestartsWhenCorrected
CHECK_DEADLOCK FALSE
