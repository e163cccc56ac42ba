SPECIFICATION Spec
CONSTANTS
    q1 = q1
    c1 = c1
    c2 = c2
    s1 = s1
    s2 = s2
    None = None
    MaxHead = 1
    MaxCommits = 1
    Queries <- MCQuery
    Readers <- MCReaders
    Jobs <- MCOneJob
CHECK_DEADLOCK FALSE
INVARIANT InvalidatedOnCompletion
