SPECIFICATION FairSpec
CONSTANTS
    alice = alice
    aliceSub = aliceSub
    bob = bob
    Accounts = {alice, aliceSub, bob}
    NoAccount = NoAccount
    MainOf <- MCMainOf
    TabActions = {"own", "foreign", "logout", "revoked", "expired", "failure"}
    MaxGeneration = 3
    MaxOutside = 2
    key1 = key1
    key2 = key2
    Keys = {key1, key2}
    Listed = {key1}
    PageLimit = 1
    MaxRow = 2
    FeedFaults = {"snapshot", "drop", "stale"}
    MaxFeedFaults = 2
    MaxAttempts = 1
    MaxBuffered = 1
    MaxPrice = 5
    MaxQuantity = 2
    MaxLimit = 2
    MaxBucket = 3
    op1 = op1
    op2 = op2
    Operations = {op1, op2}
    NotFoundReceiptCheckEvery = 2
    MaxPolls = 3
    MaxQuotes = 3
    MaxGasPrice = 1
    SendFaults = {"expiry", "quote", "timeout", "broken", "poll", "revert", "restart"}
    MaxSendFaults = 2
INVARIANTS SignOutWins SignedInAs CurrentOrTold ShownFaithfully NoSendInVain
PROPERTIES OnlyRejectedSignsOut RejectedTokenGoes
CHECK_DEADLOCK FALSE
