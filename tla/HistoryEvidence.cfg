SPECIFICATION MCSpec
CONSTANTS
    Parts = {"history"}
    None = None
    Stopped = Stopped
    yes = yes
    no = no
    Workers = {w1, w2}
    Clients = {c1}
    Responses = {yes, no}
    Kinds = {TRUE, FALSE}
    MaxRev = 3
    AnswerOf <- MCAnswerOf
    Mem0 <- MCMem0
    Below <- MCBelow
    ParentPath <- MCParent
    Rank <- MCRank
    Plans <- MCPlans
    Editors = {e1, e2}
    Confirms = {k1, k2}
    Fields = {"objective", "plan"}
    ContextPlans <- MCContextPlans
    HistoryLimit = 4
    HistorySites <- MCEvidence
    Texts <- MCTexts
    CommitRuns = {1, 2}
    Chunks <- MCChunks
    EveryN = 2
    MaxMessages = 4
    MaxTrouble = 1
    Million = 2
    Ppm = 2
    Trees <- MCTrees
    Pricing <- MCPricing
INVARIANT EvidenceKept
CHECK_DEADLOCK FALSE
