CONSTANTS
    c1 = c1
    c2 = c2
    None = None
    Clients = {c1, c2}
    Cron = cron
    Requests <- AllRequests
    Pickups = {3, 4}
    Horizon = 5
    Hour = 2
    ReminderAhead = 2
    AmendNotice = 1
    Exactly = FALSE
    Policies <- MCPolicies
    Grace = 1
    FreeWaiting = 2
    WaitingRate = 1
    Duration = 2
    CompletionBuffer = 1
    OtherJobs = {}
    Ratings = {1}
SYMMETRY Slots
SPECIFICATION Spec
PROPERTY RefundIsBestTier
 
INVARIANT Reminded
INVARIANT RatingsCounted
CHECK_DEADLOCK FALSE
