SPECIFICATION ServicesSpec
CONSTANTS
    Parts = {"feed", "guardian", "stream", "messenger", "shadow"}
    btc = btc
    eth = eth
    xau = xau
    Assets = {btc, eth, xau}
    SourceOf <- MCSourceOf
    FeedCap = 2
    MaxPolls = 4
    NoTrade = NoTrade
    Symbols = {btc, xau}
    Order <- MCOrder
    Offers <- MCOffers
    Prices = {6, 12}
    InitialCash = 50
    SpreadDivisor = 6
    FeeDivisor = 12
    MaxOrders = 2
    ConfiguredCapital = 50
    DrawdownPct = 30
    MaxQuotes = 2
    Answers = {0}
    Dashboards = {d1, d2}
    ChannelCap = 1
    MaxTicks = 2
    MaxRedisFaults = 1
    RedisAttached = TRUE
    Messages = {m1, m2, m3}
    Workers = {w1, w2}
    SendQueueCap = 1
    MaxRetries = 2
    MaxSwitches = 3
    Cycles = {c1, c2}
    Judges = {j1}
    ShadowQueueCap = 1
    Thresholds = {75}
    Confidences = {0, 60, 80}
    MaxRetunes = 1
    MaxPanics = 1
INVARIANTS
    ServicesTypeOK
    StoreFollowsFeed
    
    EvidenceIsBacked
PROPERTIES
    ReadingIsConsistent
    CrossedPositionLeaves
    QueuedIsSettled
    QueuedIsJudged
CHECK_DEADLOCK FALSE
