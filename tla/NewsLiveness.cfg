SPECIFICATION FairSpec
CONSTANTS
    btc = btc
    eth = eth
    etf = etf
    upgrade = upgrade
    rates = rates
    None = None
    Symbols = {btc}
    Headlines = {etf, rates}
    Relevant <- MCRelevant
    QueueCap = 1
    Window = 1
    MaxFaults = 1
    MaxRestarts = 1
PROPERTIES
    NewsIsSettled
INVARIANTS
    NeverFoundFull
