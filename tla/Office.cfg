SPECIFICATION OfficeSpec
CONSTANTS
    r1 = r1
    r2 = r2
    x1 = x1
    x2 = x2
    None = None
    Tries = {r1, r2}
    Groups = 2
    Uploads = {x1, x2}
    Handlers = {r1, r2}
    Owners = {"document", "debt"}
    MaxDeaths = 1
    Scenes = {"settle", "merge", "recurring", "files", "forecast"}
    MaxFaults = 2
    MaxUpsets = 1
    MaxMissed = 2
    MaxCrashes = 1
    MaxDeletions = 1
    MaxVersion = 3
    MaxAged = 1
    MaxDay = 5
    MonthLen <- YearOfMonths
    Basis = 100
    Companies = {"A", "B"}
    Cases <- SomeCases
    Horizon = 16
    PayDays = {0, 1, 3}
SYMMETRY Symmetry
CHECK_DEADLOCK FALSE
INVARIANTS
    PaidOnce
    TrueAnswer
    NoDangling
    
    
    EmbeddedOnce
    LoanFlowsAddUp
PROPERTIES
    ClosedFilesFixed
    PaidAsPlanned
