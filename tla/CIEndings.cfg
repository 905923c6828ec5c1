SPECIFICATION EndingsSpec
CONSTANTS
    Threads = {t1, t2}
    Reaper = Reaper
    NoThread = NoThread
    NoJob = NoJob
    Runners = {w1, w2}
    JobOrder <- Pair
    Needs <- NoDeps
    Concurrency = "skip"
    MaxRuns = 2
    MaxLosses = 0
    MaxSilences = 1
    MaxCrashes = 0
    MaxCancels = 0
    t1 = t1
    t2 = t2
    w1 = w1
    w2 = w2
    Shapes = {"side", "main"}
INVARIANTS SettledRunsComplete LockReturned
SYMMETRY Symmetry
