SPECIFICATION Spec
CONSTANTS
    btc = btc
    t1 = t1
    m1 = m1
    m2 = m2
    e1 = e1
    NoTrade = NoTrade
    Symbols <- MCSymbols
    Offers <- LongOnly
    Prices <- TwoPrices
    InitialCash = 20
    SpreadDivisor = 100
    FeeDivisor = 1000
    MaxOrders = 3
    Prof <- MCProf
    MaxAge = 2
    Fees = 1
    TickTasks = {t1}
    ManualTasks = {}
    Evaluators = {e1}
    DaemonOn = FALSE
    EarlyExitOn = FALSE
    MaxSignals = 2
    AgeBound = 2
    MaxFaults = 0
    MaxRestarts = 0
INVARIANTS
    ClosedRowsExplained
    OrphansExplained
    LearnedOncePerTask
