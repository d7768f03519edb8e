SPECIFICATION FairTxSpec
CONSTANTS
    Users = {"ann"}
    Symbols = {"BTCUSDT"}
    Assets = {"BTC", "USDT"}
    Base <- MCBase
    Quote <- MCQuote
    Quantities = {3}
    Prices = {1}
    OrderIds = {1, 2}
    Handlers = {h1, h2}
    InitialBalance = 6
    Scale = 2
    Grid = 1
    Nil = Nil
INVARIANTS
    TxTypeOK
    DeadlocksAreOpposite
    RoundingStaysSmall
PROPERTIES
    ImplementsEngine
    TransactionsEnd
