SPECIFICATION Spec
CONSTANTS
    t1 = t1
    t2 = t2
    w1 = w1
    h1 = h1
    h2 = h2
    k1 = k1
    k2 = k2
    r1 = r1
    r2 = r2
    r3 = r3
    None = None
    ModalClient = FALSE
    TxIds <- MCTxIds
    Wallets <- MCWallets
    Owner <- MCOwner
    Keys <- MCOneKey
    Hashes <- MCHashes
    Failing <- MCFailing
    SimResults <- MCSimResults
    Requests <- MCTwoRequests
CHECK_DEADLOCK FALSE
INVARIANT SubmitOnce
