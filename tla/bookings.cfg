CONSTANTS
    c1 = c1
    c2 = c2
    None = None
    Clients = {c1, c2}
    Requests <- AllRequests
    Legs <- MCLegs
    Capacities = {1, 2}
    Window = 1
    AmendNotice = 2
    Horizon = 2
    MaxRequests = 3
    MaxCrashes = 1
SYMMETRY Slots
SPECIFICATION Spec
PROPERTY NoDuplicateAdded
INVARIANT Whole
 
CHECK_DEADLOCK FALSE
