SPECIFICATION EndingsSpec
CONSTANTS
    Threads = {t1, t2}
    Reaper = Reaper
    NoThread = NoThread
    NoJob = NoJob
    Runners = {w1, w2}
    JobOrder <- Pair
    Needs <- PairDeps
    Concurrency = "none"
    MaxRuns = 1
    MaxLosses = 1
    MaxSilences = 0
    MaxCrashes = 1
    MaxCancels = 0
    t1 = t1
    t2 = t2
    w1 = w1
    w2 = w2
    Shapes = {"main"}
INVARIANTS TypeOK ClaimedOnce NeedsBeforeRun
SYMMETRY Symmetry
