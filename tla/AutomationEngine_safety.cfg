SPECIFICATION Spec
CONSTANTS
    Workers = {w1, w2}
    NumEvents = 2
    r1 = r1
    Runs = {r1}
    RunsOf <- MCRunsOf
    NumSteps = 2
    MaxAttempts = 2
    RunLeaseHolds = TRUE
    EventLeaseHolds = FALSE
    MaxCrashes = 1
    MaxErrors = 0
    MaxReruns = 0
    MaxLimitHits = 0
    NoRun = NoRun
SYMMETRY Symmetric
INVARIANTS
    OneExecutor
    StepMadeOnce
    ProcessedMeansFinished
    AttemptsCoverHolders
PROPERTIES
    ProgressIsKept
    KeepsContract
