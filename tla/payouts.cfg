CONSTANTS
    j1 = j1
    j2 = j2
    j3 = j3
    o1 = o1
    o2 = o2
    u1 = u1
    a1 = a1
    a2 = a2
    Cron = cron
    None = None
    Jobs = {j1,j2,j3}
    Operators = {o1,o2}
    Owner <- TwoOwners
    HeldBack = 1
    DelayDays = 2
    WeekLength = 2
    CronDay = 0
    PayoutDay = 0
    Offices = {u1}
    Admins = {a1}
    Requests <- Normal
    Overlap = TRUE
    MaxCompletions = 3
SPECIFICATION RunsSpec
INVARIANT PaidWithinConfirmed
 
 
INVARIANT EligibleInForecast
 
CHECK_DEADLOCK FALSE
