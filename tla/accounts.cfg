CONSTANTS
    c1 = c1
    c2 = c2
    u1 = u1
    u2 = u2
    e1 = e1
    e2 = e2
    w1 = w1
    w2 = w2
    n1 = n1
    None = None
    Gone = Gone
    Admin = Admin
    Operator = Operator
    Clients = {c1, c2}
    Menus <- AllMenus
    Users = {u1, u2}
    Emails = {e1, e2}
    Passwords = {w1}
    Permissions = {"CUSTOMER_UPDATE_STATUS", "CUSTOMER_ADD_NOTE"}
    Notes = {n1}
    Cooldown = 1
    Expiry = 2
    Horizon = 2
    MaxRequests = 3
    MaxCrashes = 1
SYMMETRY Slots
SPECIFICATION Spec
 
PROPERTY NewestIsAccepted
 
CHECK_DEADLOCK FALSE
