SPECIFICATION BackgroundSpec
CONSTANTS
    Loans = {a1, a2}
    Kept = "kept"
    Sums = {1, 2}
    CreateAt = "save"
    Workers = 1
    MaxRuns = 4
    MaxCrashes = 1
    None = None
    x1 = x1
    x2 = x2
    Scenes = {"rules", "notices", "push"}
    MaxNow = 5
    MaxEntries = 2
    MaxUpsets = 2
    MaxFaults = 2
    MaxChanges = 2
SYMMETRY Symmetry
CHECK_DEADLOCK FALSE
INVARIANTS
    
    
    
    LossNoticed
    ShownOnce
