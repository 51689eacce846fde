CONSTANTS
    o1 = o1
    o2 = o2
    o3 = o3
    c1 = c1
    c2 = c2
    w1 = w1
    w2 = w2
    None = None
    Operators = {o1, o2}
    Amounts = {1}
    Reputation <- MCReputation2
    Clients = {c1}
    Workers = {w1, w2}
    Requests = {"createJobForBooking", "placeBid", "withdrawBid", "declineJobOffer", "acceptJobOffer", "cancelBooking"}
    Overlap = TRUE
    MaxErrors = 1
    MaxCrashes = 1
SPECIFICATION FairSpec
PROPERTY TimerEndsOffer
CHECK_DEADLOCK FALSE
