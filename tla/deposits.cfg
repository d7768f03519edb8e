SPECIFICATION FairSpec
CONSTANTS
    Users = {ann, bob}
    Polls = {p1, p2}
    PageSize = 2
    WaitsForConfirmation = TRUE
    MaxTxs = 2
    MaxRecipients = 2
    Txs <- MCTxs
INVARIANTS
    NoUnbackedCredit
PROPERTIES
    DepositsGetCredited
