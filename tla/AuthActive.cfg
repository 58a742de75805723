SPECIFICATION FairSpec
CONSTANTS
    alice = alice
    aliceSub = aliceSub
    bob = bob
    Accounts = {alice, aliceSub, bob}
    NoAccount = NoAccount
    MainOf <- MCMainOf
    TabActions = {"own", "foreign", "logout", "revoked", "expired", "failure"}
    MaxGeneration = 3
    MaxOutside = 2
    key1 = key1
    key2 = key2
    Keys = {key1, key2}
    Listed = {key1}
    PageLimit = 1
    MaxRow = 1
    FeedFaults = {"snapshot", "drop"}
    MaxFeedFaults = 0
    MaxAttempts = 1
    MaxBuffered = 1
    MaxPrice = 2
    MaxQuantity = 2
    MaxLimit = 2
    MaxBucket = 1
    op1 = op1
    op2 = op2
    Operations = {op1, op2}
    NotFoundReceiptCheckEvery = 2
    MaxPolls = 3
    MaxQuotes = 3
    MaxGasPrice = 1
    SendFaults = {"expiry", "quote", "timeout", "broken", "poll", "revert", "restart"}
    MaxSendFaults = 1
INVARIANTS ActiveIsOwn
CHECK_DEADLOCK FALSE
