SPECIFICATION FairSpec
CONSTANTS
    Users = {"ann"}
    Symbols = {"BTCUSDT"}
    Assets = {"BTC", "USDT"}
    Base <- MCBase
    Quote <- MCQuote
    Quantities = {1}
    Prices = {1, 2}
    OrderIds = {1, 2}
    Handlers = {h1}
    InitialBalance = 3
    Scale = 1
    Grid = 1
    Nil = Nil
INVARIANTS
    TypeOK
    OneTradePerFill
    FillPriceRespectsTrigger
    LockedMatchesOpenOrders
    WalletsMatchTrades
    WalletsCoverTrades
PROPERTIES
    EndedOrdersStay
    ImplementsEscrow
    TriggeredOrdersEnd
