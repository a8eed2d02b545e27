SPECIFICATION MCSpec
CONSTANTS
    Parts = {"tools", "kernel", "subagents", "turn", "exposure", "workspace", "jobs", "output"}
    None = None
    p1 = p1
    p2 = p2
    o1 = o1
    o2 = o2
    t1 = t1
    t2 = t2
    Procs = {p1, p2}
    Owners <- MCOwners
    Batch <- MCBatch
    Stateful = {t1, t2}
    Guarded = {t2}
    MaxToken = 3
    Configs <- MCConfigs
    Successors = {s1, s2}
    MaxIterations = 3
    Confs <- MCConfs
    Batches <- MCBatches
    MaxCrashes = 1
    TurnSites <- MCTurnSites
    Shipped0 <- MCShipped
    ToolChanges <- MCToolChanges
    MaxChanges = 1
    MaxIters = 2
    Kits <- MCKits
    Optimizers <- MCOptimizers
    Hosts <- MCHosts
    Ghost = 99
    KitChanges <- MCKitChanges
    MaxLoads = 2
    MaxCalls = 1
    CodingSites <- MCCodingSites
    Nul = Nul
    Cr = Cr
    Ids = {1, 2}
    Dirs = {"root", "sub"}
    HomeDir = "root"
    Envs = {"e1", "e2"}
    Arguments <- MCArguments
    CacheSize = 1
    MaxRestarts = 1
    OutputSites <- MCOutputSites
    PageLimit = 6
    Room = 8
    InlineChars = 5
    PreviewChars = 4
    NativeLimit = 6
    MaxBatch = 2
    MaxTrouble = 1
INVARIANTS EffectOnce SealBindsResult AccountsAreTrue LoopDiscipline ChildrenRunOnce RunsAsApproved ReadsWhole
PROPERTIES ShownAsTheyAre NoUnseenLoss
