SPECIFICATION Spec
CONSTANTS
    Pushes = {p1, p2}
    NoTarget = NoTarget
    NoPush = NoPush
    Latest = Latest
    Main = Main
    Other = Other
    t1 = t1
    t2 = t2
    Refs <- MCRefs
    Targets = {t1, t2}
    CIRefs = {Latest, Main}
    Unsigned = {}
    RequireSigned = FALSE
    MaxConns = 3
    Requests <- RacingRequests
INVARIANT FastForwardHolds
