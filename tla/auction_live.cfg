CONSTANTS
    o1 = o1
    o2 = o2
    o3 = o3
    c1 = c1
    c2 = c2
    w1 = w1
    w2 = w2
    None = None
    Operators = {o1, o2}
    Amounts = {1}
    Reputation <- MCReputation2
    Clients = {c1}
    Workers = {w1}
    Requests <- AllRequests
    Overlap = TRUE
    MaxErrors = 0
    MaxCrashes = 0
SPECIFICATION FairSpec
INVARIANT OfferHasTimer
INVARIANT WindowHasCloseTask
PROPERTY OfferEnds
PROPERTY WindowCloses
CHECK_DEADLOCK FALSE
