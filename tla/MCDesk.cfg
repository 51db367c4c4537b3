SPECIFICATION DeskSpec
CONSTANTS
    Parts = {"treasury", "early exit", "entry", "settings"}
    general = general
    ann = ann
    btc = btc
    NoCall = NoCall
    Investors = {general, ann}
    Calls = {c1, c2}
    Amounts = {50}
    EquityLevels = {250}
    Profits = {20}
    InitialCapital = 500
    FirstLedgers <- MCFirstLedgers
    NavScale = 1000
    Tier1Pcts = {20}
    MaxMoves = 1
    MaxLedgerFaults = 1
    MaxBoots = 1
    NoTrade = NoTrade
    Symbols = {btc}
    Offers <- MCOffers
    Prices = {12}
    InitialCash = 50
    SpreadDivisor = 6
    FeeDivisor = 12
    MaxOrders = 2
    Stories = {"s1"}
    NumericIds = {}
    DayLength = 2
    ZoneOffset = 0
    HalfLife = 1
    Verdicts <- MCVerdicts
    GuardAnswers <- MCGuardAnswers
    GuardConfigs <- MCGuardConfigs
    MaxTime = 2
    MaxExitCycles = 2
    MaxStoreFaults = 1
    MaxGuardSaves = 1
    NoAnswer = NoAnswer
    Bad = Bad
    ProfileFile <- MCProfileFile
    Env <- MCEnv
    Evaluators = {e1, e2}
    Requests <- MCRequests
    Answers <- MCAnswers
    EscalationAnswers <- MCEscalationAnswers
    OpenInterests <- MCOpenInterests
    LiveSettings <- MCLiveSettings
    KnownIntervals = {"1h", "4h", "1d"}
    MaxDeskSaves = 1
    MaxDeskFaults = 1
    MaxCloses = 1
    Saves = {r1, r2}
    Payloads <- MCPayloads
    FirstFile <- MCFirstFile
    Mounted = TRUE
    MaxFileFaults = 1
    MaxReboots = 1
SYMMETRY DeskSymmetry
INVARIANTS
    DeskTypeOK
    ReserveMatchesLedger
    PaceHolds
    SavedTradesAreSound
    NothingGuessed
    ReloadAgrees
PROPERTIES
    KeepsTheBooks
CHECK_DEADLOCK FALSE
