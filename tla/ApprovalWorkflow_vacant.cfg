SPECIFICATION Spec
CONSTANTS
    k = k
    c = c
    p = p
    d1 = d1
    d2 = d2
    TopLevel = 3
    Users = {k, c, p, d1, d2}
    NoUser = NoUser
    Handlers = {h1, h2}
    Creator = k
    LevelOf <- MCLevelOf
    Seats <- MCSeatsNoChief
    Deputy <- NoDeputies
    Limit <- MCLimit
    Payers = {k}
    Amounts = {1, 2}
    Settings <- MCSettings
    Kinds = {"spend"}
    Cash = FALSE
    AdminActions = {}
    Leavers = {}
    MaxRequests = 3
    MaxAdmin = 0
    Idle = Idle
SYMMETRY Symmetric
CHECK_DEADLOCK FALSE
INVARIANT DecidableOnScreen
