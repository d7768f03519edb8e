SPECIFICATION Spec
CONSTANTS
    Users = {"ann"}
    Withdrawals = {w1}
    Chains = {"ETH", "TRON", "BTC"}
    Amounts = {1, 2}
    InitialBalance = 2
    Faults = {"answer"}
    Nil = Nil
CHECK_DEADLOCK FALSE
INVARIANTS
    RefundMeansNotSent
