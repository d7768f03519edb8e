SPECIFICATION EthSpec
CONSTANTS
    Users = {ann}
    Txs = {t1}
    EthPolls = {p1}
    Lookback = 1
    MaxTip = 2
    Failures = TRUE
    Restarts = FALSE
    Nil = Nil
SYMMETRY Perms
INVARIANTS
    CursorPassesNothing
