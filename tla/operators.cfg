CONSTANTS
    c1 = c1
    c2 = c2
    v1 = v1
    v2 = v2
    d1 = d1
    d2 = d2
    b1 = b1
    b2 = b2
    a1 = a1
    a2 = a2
    None = None
    Gone = Gone
    Clients = {c1, c2}
    Requests <- AllRequests
    Areas = {a1, a2}
    Documents = {license}
    Vehicles = {v1, v2}
    Drivers = {d1, d2}
    Badges = {b1, b2}
    PhotoTypes = {front}
    FleetSizes = {3}
    MaxRequests = 3
    MaxCrashes = 1
SYMMETRY Slots
SPECIFICATION Spec
INVARIANT ProfileHolds
INVARIANT ActiveIsApproved
INVARIANT OneDriverPerVehicle
CHECK_DEADLOCK FALSE
