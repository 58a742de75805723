SPECIFICATION Spec
CONSTANTS
    l1 = l1
    l2 = l2
    Levels = {l1, l2}
    History <- MCHistory
    Buckets = {}
    NoBucket = NoBucket
    FirstPosition = 0
    MaxAttempts = 1
    MaxBuffered = 2
    Faults = {"lost"}
    MaxFaults = 1
    MaxStep = 2
INVARIANT BookIsTrue
CHECK_DEADLOCK FALSE
