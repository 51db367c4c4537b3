SPECIFICATION Spec
CONSTANTS
    btc = btc
    t1 = t1
    m1 = m1
    m2 = m2
    e1 = e1
    NoTrade = NoTrade
    Symbols <- MCSymbols
    Offers <- ShortOnly
    Prices <- TwoPrices
    InitialCash = 20
    SpreadDivisor = 100
    FeeDivisor = 1000
    MaxOrders = 2
    Prof <- MCProf
    MaxAge = 3
    Fees = 1
    TickTasks = {t1}
    ManualTasks = {m1}
    Evaluators = {e1}
    DaemonOn = TRUE
    EarlyExitOn = TRUE
    MaxSignals = 1
    AgeBound = 2
    MaxFaults = 0
    MaxRestarts = 0
INVARIANTS
    TypeOK
    BookSeesEveryExit
    
    OrphansExplained
