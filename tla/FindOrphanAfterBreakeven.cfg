SPECIFICATION Spec
CONSTANTS
    btc = btc
    t1 = t1
    m1 = m1
    m2 = m2
    e1 = e1
    NoTrade = NoTrade
    Symbols <- MCSymbols
    Offers <- LongOnly
    Prices <- UnderEntry
    InitialCash = 20
    SpreadDivisor = 100
    FeeDivisor = 1000
    MaxOrders = 3
    Prof <- MCProf
    MaxAge = 3
    Fees = 1
    TickTasks = {t1}
    ManualTasks = {}
    Evaluators = {e1}
    DaemonOn = FALSE
    EarlyExitOn = FALSE
    MaxSignals = 1
    AgeBound = 3
    MaxFaults = 0
    MaxRestarts = 0
INVARIANTS
    PositionsHaveSignals
