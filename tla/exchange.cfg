SPECIFICATION ExchangeSpec
CONSTANTS
    Users = {"ann"}
    Symbols = {"BTCUSDT"}
    Assets = {"BTC", "USDT"}
    Base <- MCBase
    Quote <- MCQuote
    Quantities = {500}
    Prices = {1}
    OrderIds = {1}
    Handlers = {h1}
    InitialBalance = 0
    Scale = 1
    Grid = 1
    MovedAmounts = {500}
    MaxDeposit = 500
    SendIds = {1}
    MaxHistory = 1
    MaxAdjustments = 1
    Tiers = {1}
    StakeAmounts = {500}
    StakeTerms = {7}
    StakeIds = {1}
    StakeHandlers = {s1}
    Day = 1
    ClockSteps = {7}
    MaxWait = 0
    MaxTime = 7
    Nil = Nil
INVARIANTS
    ExchangeTypeOK
    LockedMatchesHolds
    BooksBalance
    OverdrawnByAdminsOnly
PROPERTIES
    SettledSendsStay
