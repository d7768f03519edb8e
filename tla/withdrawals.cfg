SPECIFICATION FairServerSpec
CONSTANTS
    Users = {ann}
    Withdrawals = {w1, w2}
    Chains = {"ETH", "BTC"}
    Amounts = {1}
    InitialBalance = 1
    Connections = 3
    Faults = {"answer", "commit", "refund", "crash"}
    Nil = Nil
CHECK_DEADLOCK FALSE
INVARIANTS
    ServerTypeOK
    SuccessMeansSent
    WalletsMatchWithdrawals
    HeardRefundsAreUnsent
    FeedLeavesConnections
PROPERTIES
    GracefulLosesNothing
    WithdrawalsSettle
    ShutdownNeedsNoTimer
