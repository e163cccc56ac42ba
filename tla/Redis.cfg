SPECIFICATION FairRedisSpec
CONSTANTS
    q1 = q1
    c1 = c1
    s1 = s1
    s2 = s2
    a1 = a1
    l1 = l1
    l2 = l2
    l3 = l3
    None = None
    MaxHead = 1
    MaxCommits = 2
    Limit = 1
    MinuteLength = 2
    LastTick = 1
    Queries <- MCQuery
    Readers <- MCReaders
    Jobs <- MCJobs
    Addresses <- MCAddresses
    Calls <- MCCalls
CHECK_DEADLOCK FALSE
INVARIANTS TypeOK StaleExplained LimiterTypeOK LimitHolds CountersExpire
PROPERTY EventuallyFresh
