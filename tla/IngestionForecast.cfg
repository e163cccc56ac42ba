SPECIFICATION Spec
CONSTANTS
    w1 = w1
    r1 = r1
    r2 = r2
    r3 = r3
    None = None
    SubnetLimit = 1
    PerSubnet = 2
    Picked = 2
    Log <- MCLog
    Percents <- MCPercents
    Amounts <- MCAmounts
    MaxPositions = 3
    Wallets <- MCWallets
    Heads <- MCHeads
    Requests <- MCTwo
    Plans <- MCTwice
CHECK_DEADLOCK FALSE
INVARIANT ForecastTrailing
