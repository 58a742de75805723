SPECIFICATION Spec
CONSTANTS
    o1 = o1
    o2 = o2
    OrderIds = {o1, o2}
    NoView = NoView
    Units <- MCUnits
    Subs = {x}
    NoSub = NoSub
    WithSnapshots = {}
    x = x
    y = y
    Account = Account
    NoAccount = NoAccount
    Listings <- MCListings
    Faults = {}
    MaxPending = 2
    MaxFaults = 1
    MaxCalls = 1
PROPERTY ClosedGateIsSilent
CHECK_DEADLOCK FALSE
