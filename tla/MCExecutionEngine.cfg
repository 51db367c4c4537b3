SPECIFICATION Spec
CONSTANTS
    btc = btc
    xau = xau
    NoTrade = NoTrade
    Symbols <- MCSymbols
    Offers <- MCOffers
    Prices <- MCPrices
    InitialCash = 50
    SpreadDivisor = 6
    FeeDivisor = 12
    MaxOrders = 3
INVARIANTS
    TypeOK
    OrdersSettledOnce
    CapitalConserved
    StopPreemptsLiquidation
PROPERTIES
    PositionsNeverReplaced
