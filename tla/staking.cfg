SPECIFICATION StakingSpec
CONSTANTS
    Users = {"ann"}
    Assets = {"USDT"}
    Tiers = {1, 2}
    StakeAmounts = {500, 10000}
    StakeTerms = {7}
    StakeIds = {1, 2}
    StakeHandlers = {s1, s2}
    Day = 2
    ClockSteps = {1}
    MaxWait = 1
    MaxTime = 16
    InitialBalance = 10500
    Scale = 1
    Grid = 1
    Nil = Nil
INVARIANTS
    StakePaidOnce
    TermServed
    StakingBooksBalance
