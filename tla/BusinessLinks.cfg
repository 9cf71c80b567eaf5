SPECIFICATION MCSpec
CONSTANTS
    s1 = s1
    s2 = s2
    i1 = i1
    i2 = i2
    t1 = t1
    p1 = p1
    p2 = p2
    l1 = l1
    Docs = {s1, s2, i1, i2}
    Debts = {t1}
    Loans = {l1}
    Kind <- MCKind
    Direction <- MCDirection
    Partners = {p1, p2}
    Sums = {1, 2}
    Doors = {"document", "target"}
    Handlers = {h1, h2}
    Engine = engine
    MaxRequests = 3
    MaxCreated = 1
SYMMETRY Symmetric
CHECK_DEADLOCK FALSE
INVARIANTS
    RoomKept
    
    SettlementAnnounced
