SPECIFICATION ControlSpec
CONSTANTS
    Repos = {"r1", "r2", "r3"}
    Requests = {"a1", "a2"}
    Reaper = "reaper"
    MaxOpen = 1
    Handles = {1, 2, 3, 4, 5}
    NoHandle = 0
    NoRepo = "none"
    Nobody = "nobody"
    Procs = {p1, p2}
    Slugs = {o1, o2}
    Users = {u1, u2}
    Names = {n1, n2}
    Keys = {k1}
    Urls = {x1}
    NoUser = NoUser
    MaxRepos = 2
    MaxHooks = 1
    MaxDeliveries = 1
    MaxRequests = 4
    MaxCrashes = 1
    Callers = {p1, p2}
    Emails = {"root", "ann", "Ann"}
    Fold <- MCFold
    AdminEmail = "root"
    NoCaseEmails = FALSE
    MaxUsers = 3
    MaxSignups = 1
    MaxLinks = 2
    MaxSessions = 3
    MaxPATs = 1
    MaxCalls = 4
INVARIANTS
    AccessIsConsistent DeliveriesAreAccounted LoginsAreSound
    MapAgreesWithList CapacityBound OpenReposExist
PROPERTY GrantsAreKept
SYMMETRY Symmetry
CHECK_DEADLOCK FALSE
