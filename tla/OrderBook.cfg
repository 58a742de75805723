SPECIFICATION FairSpec
CONSTANTS
    l1 = l1
    l2 = l2
    Levels = {l1, l2}
    History <- MCHistory
    Buckets = {tens}
    NoBucket = NoBucket
    FirstPosition = 2
    MaxAttempts = 2
    MaxBuffered = 2
    Faults = {"reset", "stale", "unavailable", "terminated", "lost", "connection"}
    MaxFaults = 4
    MaxStep = 2
INVARIANTS TypeOK BookIsTrue OneRefresh NeverStranded
PROPERTIES QuietAfterUnsubscribe ImplementsBookFeed EventuallyCurrent
CHECK_DEADLOCK FALSE
