SPECIFICATION Spec
CONSTANTS
    Repos = {"r1", "r2"}
    Requests = {"a1", "a2"}
    Reaper = "reaper"
    Handles = {1, 2, 3, 4}
    NoHandle = 0
    NoRepo = "none"
    Nobody = "nobody"
    MaxOpen = 1
INVARIANT AcquirePreventsEviction
