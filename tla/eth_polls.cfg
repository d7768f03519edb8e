SPECIFICATION EthSpec
CONSTANTS
    Users = {ann, bob}
    Txs = {t1, t2}
    EthPolls = {p1, p2}
    Lookback = 1
    MaxTip = 3
    Failures = TRUE
    Restarts = TRUE
    Nil = Nil
SYMMETRY Perms
INVARIANTS
    NoUnbackedEthCredit
    OnlyErrorsPass
