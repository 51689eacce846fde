CONSTANTS
    o1 = o1
    o2 = o2
    o3 = o3
    c1 = c1
    c2 = c2
    w1 = w1
    w2 = w2
    None = None
    Operators = {o1, o2, o3}
    Amounts = {1, 2}
    Reputation <- MCReputation3
    Clients = {c1}
    Workers = {w1}
    Requests <- AllRequests
    Overlap = FALSE
    MaxErrors = 0
    MaxCrashes = 0
SPECIFICATION Spec
INVARIANT TypeOK
INVARIANT OneWinner
INVARIANT LowestOffered
INVARIANT BookingFollowsJob
PROPERTY ImplementsDispatch
CHECK_DEADLOCK FALSE
