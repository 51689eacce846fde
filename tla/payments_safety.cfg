CONSTANTS
    b1 = b1
    b2 = b2
    i1 = i1
    i2 = i2
    c1 = c1
    c2 = c2
    h1 = h1
    h2 = h2
    None = None
    Bookings = {b1,b2}
    Intents = {i1}
    Price = 2
    GroupPrice = 3
    RefundAmounts = {1}
    Clients = {c1,c2}
    Hooks = {h1}
    Requests <- AllRequests
    Overlap = TRUE
    MaxRequests = 2
    MaxResends = 2
    MaxFailedPayments = 1
    MaxErrors = 1
    MaxCrashes = 1
SPECIFICATION Spec
SYMMETRY Alike
CONSTRAINT FewEvents
INVARIANT ReturnedIsRecorded
INVARIANT SuccessNeverLost
 
CHECK_DEADLOCK FALSE
