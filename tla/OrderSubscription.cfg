SPECIFICATION FairSpec
CONSTANTS
    o1 = o1
    o2 = o2
    OrderIds = {o1, o2}
    NoView = NoView
    Units <- MCUnits
    Subs = {x, y}
    NoSub = NoSub
    WithSnapshots = {y}
    x = x
    y = y
    Account = Account
    NoAccount = NoAccount
    Listings <- MCListings
    Faults = {"refresh", "module", "close", "end", "resync"}
    MaxPending = 2
    MaxFaults = 1
    MaxCalls = 1
INVARIANTS TypeOK ViewIsLive StreamsMatch UnbrokenOrTold
PROPERTIES QuietAfterTheEnd ImplementsOrderFeed EventuallyServed
CHECK_DEADLOCK FALSE
