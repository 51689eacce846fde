CONSTANTS
    saloon = saloon
    estate = estate
    a1 = a1
    a2 = a2
    b1 = b1
    b2 = b2
    Null = Null
    VehicleTypes = {saloon}
    Seed <- SeedSettings
    SeedRules <- InitialRules
    Capacities <- Fleet
    RuleRows <- Rows
    Updates <- Bulk
    Journeys <- Trips
    Admins = {a1, a2}
    Bookings = {b1}
    Tier = 2
    MaxRules = 2
    MaxChanges = 2
    cu = cu
    o1 = o1
    o2 = o2
    admin = admin
    h1 = h1
    j1 = j1
    doc = doc
    mot = mot
    logbook = logbook
    van = van
    CustomerIds = {cu}
    OperatorIds = {o1, o2}
    AdminMailbox = admin
    Callers = {h1}
    Phones = {o1}
    Kinds = {"BOOKING_CONFIRMATION", "BID_WON", "OPERATOR_APPROVED",
             "MANUAL_JOB_ASSIGNMENT", "JOB_COMPLETED", "NEW_JOB",
             "JOB_ESCALATION", "BOOKING_CANCELLATION", "JOB_MODIFIED",
             "OPERATOR_REGISTERED", "JOURNEY_REMINDER"}
    JobIds = {j1}
    Urgent = {j1}
    Recipients <- Lists
    Papers = {doc, mot, logbook}
    Holder <- Holders
    Vehicle <- Vans
    Watched = {mot}
    Early = 3
    Soon = 2
    LastDay = 4
    ExpiryDates = {7, 8}
    MaxNotices = 1
    MaxEdits = 1
    MaxFaults = 1
    Nobody = Nobody
SYMMETRY Slots
SPECIFICATION OfficeSpec
INVARIANT TariffQuotesAgree
INVARIANT TariffAsAsked
INVARIANT AdminHearsLast
INVARIANT Forewarned
CHECK_DEADLOCK FALSE
