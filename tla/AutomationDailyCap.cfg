SPECIFICATION Spec
CONSTANTS
    w1 = w1
    j1 = j1
    j2 = j2
    x1 = x1
    s1 = s1
    c1 = c1
    c2 = c2
    v1 = v1
    v2 = v2
    None = None
    MaxAttempts = 1
    DayLength = 1
    MaxTime = 1
    MaxCrashes = 0
    DefaultCap = 1
    Wallets <- MCWallets
    Jobs <- MCTwoJobs
    Txs <- MCNoTxs
    TxOwner <- MCAdmissionTxOwner
    Signals <- MCNoSignals
    Clients <- MCClients
    Workers <- MCOneWorker
    Schedules <- MCNow
    Caps <- MCCaps
CHECK_DEADLOCK FALSE
SYMMETRY AdmissionSymmetry
INVARIANT DailyCap
