SPECIFICATION Spec
CONSTANTS
    btc = btc
    eth = eth
    xau = xau
    paxg = paxg
    b1 = b1
    b2 = b2
    d1 = d1
    d2 = d2
    w1 = w1
    w2 = w2
    Symbols = {btc, eth}
    Group <- MCGroup
    Cap = 2
    Batch = {}
    Direct = {d1}
    Locked = {w1}
    MaxRows = 4
    MaxFaults = 1
INVARIANTS
    BoundedOvershoot
    DuplicatesBounded
