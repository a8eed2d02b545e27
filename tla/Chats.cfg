SPECIFICATION MCSpec
CONSTANTS
    Parts = {"curator", "chats", "graph"}
    None = None
    Triggers = {t1, t2, t3}
    Isolating = {t3}
    Candidates <- MCCandidates
    PathOf <- MCPathOf
    Elsewhere = "e"
    Below <- MCBelow
    Refs <- MCRefs
    Workers = {p1, p2}
    JobOps = {o1, o2}
    Limit = 2
    User = User
    Nothing = Nothing
    CuratorSites <- MCCuratorSites
    Chats = {t1, t2}
    Execs = {o1, o2}
    Sites <- MCSites
    Hosts = {p1, p2}
    Scenarios <- MCScenarios
SYMMETRY MCSymmetry
CHECK_DEADLOCK FALSE
INVARIANTS JournalStaysRebasable ReadersAgree StaysServiceable Lineage NotResurrected SnapshotsAgree AppliedOnce
PROPERTIES CutOnlyWhenDead DecidedAsReviewed
