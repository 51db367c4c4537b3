SPECIFICATION FairSpec
CONSTANTS
    btc = btc
    eth = eth
    xau = xau
    paxg = paxg
    b1 = b1
    b2 = b2
    d1 = d1
    d2 = d2
    w1 = w1
    w2 = w2
    Symbols = {btc, eth}
    Group <- MCGroup
    Cap = 1
    Batch = {b1, b2}
    Direct = {}
    Locked = {w1, w2}
    MaxRows = 2
    MaxFaults = 1
PROPERTIES
    EvaluationsReturn
INVARIANTS
    TypeOK
    ScannersNeverOverlap
