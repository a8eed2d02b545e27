SPECIFICATION MCSpec
CONSTANTS
    Parts = {"graph"}
    None = None
    Triggers = {t1, t2, t3}
    Isolating = {t3}
    Candidates <- MCCandidates
    PathOf <- MCPathOf
    Elsewhere = "e"
    Below <- MCBelow
    Refs <- MCRefs
    Workers = {p1, p2}
    JobOps = {o1, o2}
    Limit = 2
    User = User
    Nothing = Nothing
    CuratorSites <- MCCuratorSites
    Chats = {t1, t2}
    Execs = {o1, o2}
    Sites <- MCSites
    Hosts = {p1, p2}
    Scenarios <- Stale
INVARIANT OneTerminal
CHECK_DEADLOCK FALSE
