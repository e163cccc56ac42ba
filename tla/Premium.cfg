SPECIFICATION FairSpec
CONSTANTS
    w1 = w1
    w2 = w2
    i1 = i1
    i2 = i2
    r1 = r1
    r2 = r2
    q1 = q1
    q2 = q2
    q3 = q3
    None = None
    DayHours = 3
    MaxHour = 1
    Wallets <- MCWallets
    Invites <- MCInvites
    Limit <- MCLimit
    Rules <- MCRules
    InApp <- MCInApp
    Start <- MCStart
    End <- MCEnd
    Requests <- MCRequests
CHECK_DEADLOCK FALSE
INVARIANTS TypeOK Charged NotifiedOnce DuplicatesDelivered QuietKept
PROPERTY EveryRequestEnds
