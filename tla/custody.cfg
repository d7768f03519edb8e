SPECIFICATION CustodySpec
CONSTANTS
    Users = {ann, bob}
    Withdrawals = {w1, w2}
    Values = {2500, 5000}
    Amounts = {4003}
    FeeRates = {10}
    Listings <- BothWays
    PerSat = 4
    MaxChain = 3
    Txs <- MCTxs
    Outside = Outside
    None = None
INVARIANTS
    GoesAheadSoundly
    NoNeedlessInput
    BooksMatchChain
SYMMETRY Perms
CHECK_DEADLOCK FALSE
