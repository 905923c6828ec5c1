SPECIFICATION DataSpec
CONSTANTS
    Procs = {p1, p2}
    Workers = {w1, w2}
    Node <- MCNode
    Wants = {{"new", "file"}, {"file", "text"}, {"old", "mid"}}
    External = TRUE
    MaxSegs = 2
    MaxCrashes = 1
    Requests = {q1, q2}
    Ids = {"r1"}
    Authors = {"ann"}
    NameLists <- MCNameLists
    Account <- MCAccount
    HeadOf <- MCHeadOf
    NoSnap = NoSnap
    Pushed = {"open", "merged"}
    MaxVersions = 3
    MaxComments = 1
    MaxNotices = 1
    Sessions = {q1, q2}
    Branches = {"main", "dev"}
    Main = "main"
    Commits = {"c1", "c2"}
    Zero = "none"
    Parent <- MCParent
    MaxPushes = 2
    MaxChain = 2
INVARIANTS
    ReadsAreTrue EnrichmentAccounted MergesAreFinal NoticesAreSound ClonesAreComplete MirrorFollows
PROPERTY ImplementsContentStore
CHECK_DEADLOCK FALSE
