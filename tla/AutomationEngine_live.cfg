SPECIFICATION FairSpec
CONSTANTS
    Workers = {w1, w2}
    NumEvents = 1
    r1 = r1
    Runs = {r1}
    RunsOf <- MCRunsOf
    NumSteps = 1
    MaxAttempts = 2
    RunLeaseHolds = TRUE
    EventLeaseHolds = FALSE
    MaxCrashes = 1
    MaxErrors = 1
    MaxReruns = 1
    MaxLimitHits = 1
    NoRun = NoRun
INVARIANTS
    FailureAlerted
PROPERTIES
    EventHandled
    RunSettles
