CONSTANTS
    b1 = b1
    b2 = b2
    i1 = i1
    i2 = i2
    c1 = c1
    c2 = c2
    h1 = h1
    h2 = h2
    None = None
    Bookings = {b1}
    Intents = {i1}
    Price = 2
    GroupPrice = 3
    RefundAmounts = {1}
    Clients = {c1}
    Hooks = {h1}
    Requests <- AllRequests
    Overlap = FALSE
    MaxRequests = 1
    MaxResends = 0
    MaxFailedPayments = 0
    MaxErrors = 0
    MaxCrashes = 0
SPECIFICATION Spec
SYMMETRY Alike
INVARIANT PaidHasJob
CHECK_DEADLOCK FALSE
