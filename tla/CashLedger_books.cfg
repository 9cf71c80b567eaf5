SPECIFICATION FairSpec
CONSTANTS
    A = A
    B = B
    s = s
    t = t
    u = u
    Accounts = {A, B}
    NoAccount = NoAccount
    Docs = {t}
    Kind <- MCKind
    Source <- MCSource
    Dest <- MCDest
    Amount <- MCAmount
    Lender <- MCLender
    Opening <- MCOpening
    NoRow = NoRow
    Days = {1}
    Today = 1
    PayDays = {1}
    Actuals = {2}
    Deletable <- Mains
    Cancellable = {}
    Handlers = {h1, h2}
    Jobs = {"maintenance"}
    MaxCopies = 0
    MaxRequests = 2
    MaxErrors = 0
    MaxCrashes = 1
CHECK_DEADLOCK FALSE
INVARIANTS
    PostedOnce
    MirrorHasSource
PROPERTIES
    LedgerCatchesUp
    ViewCatchesUp
