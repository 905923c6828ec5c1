SPECIFICATION FairSpec
CONSTANTS
    Threads = {t1, t2}
    Reaper = Reaper
    NoThread = NoThread
    NoJob = NoJob
    Runners = {w1}
    JobOrder <- Chain
    Needs <- ChainDeps
    Concurrency = "none"
    MaxRuns = 1
    MaxLosses = 0
    MaxSilences = 0
    MaxCrashes = 0
    MaxCancels = 0
PROPERTY FailedRunsComplete
