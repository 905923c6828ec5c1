SPECIFICATION ProgressSpec
CONSTANTS
    Pushes = {p1, p2}
    NoTarget = NoTarget
    NoPush = NoPush
    Latest = Latest
    Main = Main
    Other = Other
    t1 = t1
    t2 = t2
    Threads = {g1, g2}
    Reaper = Reaper
    NoThread = NoThread
    NoJob = NoJob
    Runners = {w1}
    JobOrder <- Alone
    Needs <- AloneDeps
    Concurrency = "none"
    MaxRuns = 1
    MaxLosses = 1
    MaxSilences = 0
    MaxCrashes = 1
    MaxCancels = 1
PROPERTIES EveryPushEnds ClaimedJobsEnd
