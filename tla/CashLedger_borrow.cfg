SPECIFICATION Spec
CONSTANTS
    A = A
    B = B
    s = s
    t = t
    u = u
    Accounts = {A, B}
    NoAccount = NoAccount
    Docs = {u}
    Kind <- MCKind
    Source <- MCSource
    Dest <- MCDest
    Amount <- MCAmount
    Lender <- MCLender
    Opening <- MCOpening
    NoRow = NoRow
    Days = {1}
    Today = 1
    PayDays = {1}
    Actuals = {2}
    Deletable = {}
    Cancellable <- Mains
    Handlers = {h1, h2}
    Jobs = {"reconcile"}
    MaxCopies = 2
    MaxRequests = 2
    MaxErrors = 1
    MaxCrashes = 0
SYMMETRY Symmetric
CHECK_DEADLOCK FALSE
INVARIANTS
    BorrowBeforePay
    NothingForgotten
