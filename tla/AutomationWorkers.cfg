SPECIFICATION FairAutomationSpec
CONSTANTS
    w1 = w1
    j1 = j1
    j2 = j2
    x1 = x1
    s1 = s1
    c1 = c1
    c2 = c2
    v1 = v1
    v2 = v2
    q1 = q1
    q2 = q2
    None = None
    MaxAttempts = 2
    DayLength = 1
    MaxTime = 1
    MaxCrashes = 1
    DefaultCap = 1
    Wallets <- MCWallets
    Jobs <- MCTwoJobs
    Txs <- MCTxs
    TxOwner <- MCTxOwner
    Signals <- MCSignals
    Clients <- MCOneClient
    Workers <- MCWorkers
    Schedules <- MCLater
    Caps <- MCCaps
    Columns <- MCColumns
    Values = {TRUE, FALSE}
    DefaultRow <- MCDefaultRow
    Updates <- MCUpdates
CHECK_DEADLOCK FALSE
INVARIANTS TypeOK IncidentsCounted DuplicatesBounded Acknowledged StaysSet
PROPERTIES OutcomeFinal JobwiseSpec KillSwitchHolds EveryJobEnds OnlyAsked
