SPECIFICATION Spec
CONSTANTS
    btc = btc
    eth = eth
    etf = etf
    upgrade = upgrade
    rates = rates
    None = None
    Symbols = {btc, eth}
    Headlines = {etf, rates}
    Relevant <- MCRelevant
    QueueCap = 1
    Window = 1
    MaxFaults = 0
    MaxRestarts = 0
INVARIANTS
    TypeOK
    CoalescingLosesNothing
    PendingIsQueued
