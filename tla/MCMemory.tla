------------------------------ MODULE MCMemory ------------------------------
(* What is kept of a conversation, for TLC: DurableInteraction, the question  *)
(* a run stopped at and its answer; MemoryPlane, the workspaces, the indexes  *)
(* and the pinned task state; ContextCompile, what the model is shown of a    *)
(* chat; HistoryReduction, what the optimizers leave of a transcript;         *)
(* MemoryCommit, what the memory keeps of it; RunBundle, what is reported of  *)
(* the calls.  A behaviour is of one of these parts; the variables of the     *)
(* others stay as they are.                                                   *)
EXTENDS DurableInteraction, Sequences, FiniteSetsExt, TLC

CONSTANTS
    Parts,
    yes, no,
    Below, Plans, Editors, ParentPath, Rank, Confirms, Fields,
    HistoryLimit, ContextPlans,
    HistorySites, Texts,
    CommitRuns, Chunks, EveryN, MaxMessages, MaxTrouble,
    Million, Ppm, Trees, Pricing

VARIABLES
    part,
    plan, ws, links, lt, edits, fts, fts_on, unmarked, blind, vector, watermark, page, listing,
    query, proposals, promo, granted, proposer, confirmer, task, updates, updating,
    kplan, journal, checkpoints, builds, krun, stops,
    hsite, transcript, phase, request, summary, seen, fyis, asks, batches, lastBatch,
    stored, vindex, facts, cholder, trouble, plain, crun,
    tree, led, store, inbox, results, real

mvars == <<plan, ws, links, lt, edits, fts, fts_on, unmarked, blind, vector, watermark, page,
           listing, query, proposals, promo, granted, proposer, confirmer, task, updates,
           updating>>
kvars == <<kplan, journal, checkpoints, builds, krun, stops>>
hvars == <<hsite, transcript, phase, request, summary, seen, fyis, asks, batches,
           lastBatch>>
cvars == <<stored, vindex, facts, cholder, trouble, plain, crun>>
bvars == <<tree, led, store, inbox, results, real>>
all == <<part, vars, mvars, kvars, hvars, cvars, bvars>>

---------------------------------------------------------------------------
(* DurableInteraction: two attempts, whose callbacks say no, and a client that *)
(* says yes.                                                                  *)

MCAnswerOf == [c \in Clients \union Workers |-> IF c \in Workers THEN no ELSE yes]
MCMem0 == [rev |-> 0, cp |-> None, late |-> FALSE]

ASSUME InteractionAssumption == NamesFit

---------------------------------------------------------------------------
(* MemoryPlane.  The paths are a folder "a", an entry "ax" in it and an entry *)
(* "b" at the top.                                                            *)

MCParent == [p \in {"a", "ax", "b"} |-> IF p = "ax" THEN "a" ELSE "/"]
MCRank == [p \in {"a", "ax", "b"} |-> CASE p = "a" -> 1 [] p = "ax" -> 2 [] OTHER -> 3]
MCBelow == {<<"ax", "a">>}

M == INSTANCE MemoryPlane

\* A workspace in which each id of E was written in turn.
Holding(E) ==
    [space |-> 1 + Cardinality(DOMAIN E), entries |-> E,
     revisions |-> {[id |-> id, rev |-> 1, from |-> id] : id \in DOMAIN E},
     receipts |-> [id \in DOMAIN E |-> [space |-> 1, id |-> id, rev |-> 1]]]

Note(path) == M!Entry(path, "markdown", 1, "n", FALSE)

Plan(does, start, ops, maxSpace) ==
    [does |-> does, start |-> start, ops |-> ops, maxSpace |-> maxSpace,
     paths |-> {"a", "ax", "b"}, kinds |-> {"markdown", "folder"}, proposals |-> {},
     decisions |-> {}, targets |-> {}, stores |-> {1}]

\* Listings and links against a changing workspace; the indexes under outages and
\* restarts; task-state updates; promotions of one note that is still edited.
MCPlans ==
    LET full == Holding("n" :> Note("b") @@ "m" :> Note("ax")
                        @@ "f" :> M!Entry("a", "folder", 1, "f", FALSE))
        note == Holding("n" :> Note("b"))
    IN  {Plan({"write", "move", "archive", "link", "list"}, full, {"o"}, 5),
         [Plan({"write", "move", "outage", "restart", "search"}, note,
               {"o"}, 3) EXCEPT !.paths = {"a", "b"}, !.kinds = {"markdown"}],
         [Plan({"move", "archive", "outage", "restart"}, note, {"o", "q"}, 4)
            EXCEPT !.paths = {"a", "b"}, !.kinds = {"markdown"}, !.stores = {1, 2}],
         [Plan({"write", "update", "archive", "vector", "retry"}, note, {"o", "q"}, 4)
            EXCEPT !.kinds = {"markdown"}, !.paths = {"a"}],
         Plan({"task", "retry"}, note, {"o", "q"}, 2),
         [Plan({"update", "promote", "retry"}, note, {"o"}, 3)
            EXCEPT !.proposals = {"p", "q"}, !.decisions = {"d"}, !.targets = {"a"}],
         [Plan({"promote"}, note, {"o"}, 3)
            EXCEPT !.proposals = {"p"}, !.decisions = {"d", "g"}, !.targets = {"a"}]}

\* The editors, the confirmations and the attempts, whose callbacks answer alike.
Symmetric == Permutations(Editors) \cup Permutations(Confirms) \cup Permutations(Workers)

---------------------------------------------------------------------------
(* ContextCompile *)

V == INSTANCE ContextProjection

K == INSTANCE ContextCompile WITH Plans <- ContextPlans, plan <- kplan, run <- krun

CTurn(size, budget, turns) ==
    [of |-> 0, steps |-> {}, size |-> size, budget |-> budget, turns |-> turns]

Graph(steps) == [CTurn(1, 9, <<>>) EXCEPT !.steps = steps]

GraphStep(of, turns) == [CTurn(1, 9, turns) EXCEPT !.of = of]

\* An imported exchange of the chat; imported events have the attempt 0.
Imported ==
    <<V!Event("message.user", 0), [V!Event("message.assistant", 0) EXCEPT !.sz = 2]>>

Chat(history, runs, native, crashes) ==
    [history |-> history, runs |-> runs, native |-> native, crashes |-> crashes]

\* A growing chat whose later turns need checkpoints; two tool calls at a time;
\* a question to the person; a graph turn of two steps and a turn after it.
MCContextPlans ==
    {Chat(Imported, <<CTurn(1, 6, <<"tools1", "final">>), CTurn(2, 6, <<"tools2", "final">>),
                      CTurn(1, 4, <<"final">>)>>, TRUE, 0),
     Chat(Imported, <<CTurn(2, 7, <<"tools2", "ask", "final">>), CTurn(1, 6, <<"final">>)>>, FALSE, 2),
     Chat(<<>>, <<Graph({2, 3}), GraphStep(1, <<"tools1", "final">>), GraphStep(1, <<"final">>),
                  CTurn(1, 3, <<"fail">>), CTurn(1, 4, <<"final">>)>>, FALSE, 2)}

---------------------------------------------------------------------------
(* HistoryReduction: the providers, with and without pictures, a tool with    *)
(* its own optimizer, a small window, and summaries that fail.                *)

Base == [asks |-> 3, fyis |-> 0, batches |-> 2, args |-> {6}, provider |-> "openai", rich |-> FALSE, own |-> 0, window |-> 0, outcomes |-> {"text"},
         trigger |-> 75, target |-> 0, slide |-> 0, lastN |-> 8,
         budget |-> [maxResult |-> 6, maxBatch |-> 8, preview |-> 2, min |-> 2],
         micro |-> [keep |-> 1, max |-> 3, preview |-> 1, savings |-> 2, ratio |-> 85, remaining |-> 2],
         deferred |-> [keep |-> 1, max |-> 4, preview |-> 1]]

Windowed == [Base EXCEPT !.window = 24, !.outcomes = {"text", "error"}, !.target = 11,
                         !.slide = 16, !.lastN = 2]

MCHistorySites == {[Windowed EXCEPT !.provider = "anthropic"],
            [Windowed EXCEPT !.provider = "openai", !.own = 2, !.asks = 2, !.fyis = 1],
            [Windowed EXCEPT !.provider = "ollama", !.rich = TRUE, !.slide = 0, !.batches = 1, !.args = {2, 6}],
            [Base EXCEPT !.provider = "gemini", !.rich = TRUE, !.micro.keep = 0, !.lastN = 1, !.asks = 2]}

MCEvidence == {[Windowed EXCEPT !.provider = "anthropic", !.lastN = 8]}

MCTexts == {5, 9}

H == INSTANCE HistoryReduction WITH Sites <- HistorySites, site <- hsite

---------------------------------------------------------------------------
(* MemoryCommit: two workers, and runs that add a turn, an unanswered         *)
(* question, a continuation, or a turn with a tool result in it.              *)

MCChunks == {<<"user", "assistant">>, <<"user">>, <<"assistant">>, <<"user", "user", "assistant">>}

C == INSTANCE MemoryCommit WITH
    Runs <- CommitRuns, index <- vindex, holder <- cholder, run <- crun

---------------------------------------------------------------------------
(* RunBundle: run trees whose calls come back with what each provider can     *)
(* report: all of it, part of it, aliases that disagree, nothing, or only     *)
(* legacy counts.                                                             *)

B == INSTANCE RunBundle

Dim(p) ==
    [provider |-> p, model |-> "m", service_tier |-> "standard", billing_surface |-> "api",
     batch |-> "no", inference_geo |-> "any"]

\* What a call really used.
Used(f, rd, w, wl, v, th) == [fresh |-> f, read |-> rd, w5 |-> w, w1 |-> wl, visible |-> v, reasoning |-> th]

Turn(p, raw, reasoned, at, used) ==
    [dim |-> Dim(p), turn |-> [kind |-> p, raw |-> raw, reasoned |-> reasoned], times |-> <<at, at + 1>>, real |-> used]

Raw(input, read, write, output, reasoning, total) ==
    [input |-> input, read |-> read, write |-> write, output |-> output, reasoning |-> reasoning, total |-> total]

OpenAI == Turn("openai", Raw({5}, {2}, {1}, {3}, {1}, {8}), TRUE, 1, Used(2, 2, 1, 0, 2, 1))

OpenAIPartial == Turn("openai", Raw({5}, {2}, {}, {3}, {}, {}), FALSE, 1, Used(2, 2, 1, 0, 3, 0))

OpenAIDisagrees == Turn("openai", Raw({5, 6}, {}, {}, {3}, {}, {}), FALSE, 1, Used(5, 0, 0, 0, 3, 0))

Anthropic ==
    Turn("anthropic", [input |-> {4}, read |-> {1}, write |-> {}, write_5m |-> {2}, write_1h |-> {1},
                       output |-> {3}, reasoning |-> {}], FALSE, 9, Used(4, 1, 2, 1, 3, 0))

AnthropicThinks ==
    Turn("anthropic", [input |-> {4}, read |-> {1}, write |-> {3}, write_5m |-> {}, write_1h |-> {},
                       output |-> {3}, reasoning |-> {}], TRUE, 1, Used(4, 1, 2, 1, 1, 2))

Ollama == Turn("ollama", [input |-> {2}, output |-> {1}, reasoning |-> {}], FALSE, 1, Used(2, 0, 0, 0, 1, 0))

Legacy ==
    [dim |-> [Dim("openai") EXCEPT !.service_tier = ""],
     turn |-> [kind |-> "legacy", raw |-> [input |-> 5, read |-> 2, write |-> 0, output |-> 3, consumed |-> 8]],
     times |-> <<1, 2>>, real |-> Used(3, 2, 0, 0, 3, 0)]

Lost == [dim |-> Dim("ollama"), turn |-> [kind |-> "none"], times |-> <<1, -1>>, real |-> Used(1, 0, 0, 0, 1, 0)]

Every == {OpenAI, OpenAIPartial, OpenAIDisagrees, Anthropic, AnthropicThinks, Ollama, Legacy, Lost}

Tree(parent, repair, turns, trigger, limit, revisions) ==
    [parent |-> parent, repair |-> repair, turns |-> turns, trigger |-> trigger, limit |-> limit,
     revisions |-> revisions]

MCTrees ==
    { Tree(1 :> 0, {}, 1 :> <<Every, {OpenAI, Lost}>>, 99, 99, <<2>>),
      Tree((1 :> 0) @@ (2 :> 1) @@ (3 :> 2), {}, (1 :> <<>>) @@ (2 :> <<{OpenAI}>>) @@ (3 :> <<{Ollama}>>), 99, 99, <<1, 1, 1>>),
      Tree((1 :> 0) @@ (2 :> 1), {2}, (1 :> <<{Legacy}, {Ollama}>>) @@ (2 :> <<{OpenAI}>>), 6, 99, <<2, 1>>),
      Tree((1 :> 0) @@ (2 :> 1), {}, (1 :> <<{Anthropic}>>) @@ (2 :> <<{OpenAI}, {Lost}>>), 4, 6, <<2, 1>>),
      Tree((1 :> 0) @@ (2 :> 1), {}, (1 :> <<{Ollama}>>) @@ (2 :> <<{OpenAI}>>), 99, 99, <<1, 2>>) }

Rate(p, n, rule, write) ==
    [provider |-> p, billing_surface |-> "api", model |-> "m", service_tier |-> "standard", batch |-> "no",
     inference_geo |-> "any", currency |-> "USD", source_index |-> n, rule |-> rule,
     rates |-> [uncached |-> 2, read |-> 1, write |-> write, write_5m |-> 3, write_1h |-> 4, output |-> 4]]

Source(p) == [provider |-> p, official |-> p, retrieved_at |-> 1]

Catalog ==
    [currency |-> "USD", effective_from |-> 0, effective_to |-> 9, retrieved_at |-> 1,
     sources |-> <<Source("openai"), Source("anthropic")>>,
     entries |-> <<Rate("openai", 1, <<4, 4, 2>>, 3), Rate("anthropic", 2, <<>>, -1)>>]

MCPricing ==
    [path |-> TRUE, pinned |-> TRUE, pin |-> Catalog,
     file |-> [catalog |-> Catalog, payload |-> Catalog, projection |-> Catalog]]

---------------------------------------------------------------------------

NoPlane ==
    /\ plan = 0 /\ ws = 0 /\ links = 0 /\ lt = 0 /\ edits = 0 /\ fts = 0 /\ fts_on = 0
    /\ unmarked = 0 /\ blind = 0 /\ vector = 0 /\ watermark = 0 /\ page = 0 /\ listing = 0 /\ query = 0
    /\ proposals = 0 /\ promo = 0 /\ granted = 0 /\ proposer = 0 /\ confirmer = 0
    /\ task = 0 /\ updates = 0 /\ updating = 0

NoContext ==
    /\ kplan = 0 /\ journal = 0 /\ checkpoints = 0 /\ builds = 0 /\ krun = 0 /\ stops = 0

NoHistory ==
    /\ hsite = 0 /\ transcript = 0 /\ phase = 0 /\ request = 0 /\ summary = 0 /\ seen = 0
    /\ fyis = 0 /\ asks = 0 /\ batches = 0 /\ lastBatch = 0

NoCommit ==
    /\ stored = 0 /\ vindex = 0 /\ facts = 0 /\ cholder = 0 /\ trouble = 0 /\ plain = 0
    /\ crun = 0

NoBundle ==
    /\ tree = 0 /\ led = 0 /\ store = 0 /\ inbox = 0 /\ results = 0 /\ real = 0

MCInit ==
    /\ part \in Parts
    /\ Init /\ (part = "interaction" \/ DurabilityOnly)
    /\ IF part = "plane" THEN M!Init ELSE NoPlane
    /\ IF part = "context" THEN K!Init ELSE NoContext
    /\ IF part = "history" THEN H!Init ELSE NoHistory
    /\ IF part = "commit" THEN C!Init ELSE NoCommit
    /\ IF part = "bundle" THEN B!Init ELSE NoBundle

MCNext ==
    /\ UNCHANGED part
    /\ \/ part = "interaction" /\ Next /\ UNCHANGED <<mvars, kvars, hvars, cvars, bvars>>
       \/ part = "plane" /\ M!Next /\ UNCHANGED <<vars, kvars, hvars, cvars, bvars>>
       \/ part = "context" /\ K!Next /\ UNCHANGED <<vars, mvars, hvars, cvars, bvars>>
       \/ part = "history" /\ H!Next /\ UNCHANGED <<vars, mvars, kvars, cvars, bvars>>
       \/ part = "commit" /\ C!Next /\ UNCHANGED <<vars, mvars, kvars, hvars, bvars>>
       \/ part = "bundle" /\ B!Next /\ UNCHANGED <<vars, mvars, kvars, hvars, cvars>>

MCSpec == MCInit /\ [][MCNext]_all

\* What the workspaces answer is whole: an index that says it is ready has every
\* live entry (MemoryPlane!ReadyIndexIsWhole), and a listing read to its end shows
\* every entry that stayed in place once (MemoryPlane!ListedOnce).
ReadsAreWhole == part = "plane" => M!ReadyIndexIsWhole /\ M!ListedOnce

\* What was accepted stands: every task-state update, applied to what its caller
\* saw (MemoryPlane!TaskStateLinear), and every promotion, as the user confirmed it
\* (MemoryPlane!PromotedAsConfirmed).
WritesStand == part = "plane" => M!TaskStateLinear /\ M!PromotedAsConfirmed

\* Every build shows each message of the chat once and fits its budget
\* (ContextCompile!BuildsAreWhole), and a compile repeated after a crash agrees with
\* the build it finds, unless the chat went on (ContextCompile!RetryAgrees).
BuildsAreWhole == part = "context" => K!BuildsAreWhole /\ K!RetryAgrees

\* The model sees every result whole before it is shortened
\* (HistoryReduction!SeenWhole), no stage separates a result from its call
\* (HistoryReduction!PairsIntact), and the results of a batch fit its budget
\* (HistoryReduction!BatchInBudget).
SeenWhole == part = "history" => H!SeenWhole /\ H!PairsIntact /\ H!BatchInBudget

\* "the original context remains" when there is no summary to replace it
\* (HistoryReduction!EvidenceKept).
EvidenceKept == part = "history" => H!EvidenceKept

\* The memory passes no answered turn over (MemoryCommit!NoTurnPassedOver).
NoTurnPassedOver == part = "commit" => C!NoTurnPassedOver

\* Every call is counted once in what a bundle claims to know
\* (RunBundle!CompleteIsExact), and a later revision accounts for all an earlier
\* one did (RunBundle!RevisionsGrow).
CompleteIsExact == part = "bundle" => B!CompleteIsExact /\ B!RevisionsGrow
=============================================================================
