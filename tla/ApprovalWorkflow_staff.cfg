SPECIFICATION Spec
CONSTANTS
    k = k
    c = c
    p = p
    d1 = d1
    d2 = d2
    TopLevel = 3
    Users = {k, c, p, d1, d2}
    NoUser = NoUser
    Handlers = {h1, h2}
    Creator = c
    LevelOf <- MCLevelOf
    Seats <- MCSeats
    Deputy <- DirectorForDeputy
    Limit <- MCLimit
    Payers = {k}
    Amounts = {1}
    Settings <- MCCashSettings
    Kinds = {"income"}
    Cash = TRUE
    AdminActions = {"transfer", "settings", "deactivate", "activate"}
    Leavers = {p, d1}
    MaxRequests = 3
    MaxAdmin = 2
    Idle = Idle
SYMMETRY Symmetric
CHECK_DEADLOCK FALSE
INVARIANTS
    OfferedIsAccepted
    
    
