------------------------------ MODULE MCAgents ------------------------------
(* A run and what its tools do, for TLC: ToolExecution, a batch of durable     *)
(* calls; KernelLoop, the loop of a run with its ledger; Subagents, the runs   *)
(* it starts; TurnTools, the catalog and the wire of a turn; ToolExposure, the *)
(* tools it is shown; CodingWorkspace, the files its tools change; JobTools,   *)
(* the jobs they start; ToolOutput, how long outputs are read back.  A         *)
(* behaviour is of one of these parts; the variables of the others stay as     *)
(* they are.                                                                   *)
EXTENDS ToolExecution, SequencesExt, TLC

CONSTANTS
    Parts,
    p1, p2, o1, o2, t1, t2,
    Configs, Successors, MaxIterations,
    Confs, Batches, MaxCrashes,
    TurnSites, Shipped0, ToolChanges, MaxChanges, MaxIters,
    Kits, Optimizers, Hosts, Ghost, KitChanges, MaxLoads, MaxCalls,
    CodingSites, Nul, Cr,
    Ids, Dirs, HomeDir, Envs, Arguments, CacheSize, MaxRestarts,
    OutputSites, PageLimit, Room, InlineChars, PreviewChars, NativeLimit, MaxBatch, MaxTrouble

VARIABLES
    part,
    conf, pc, mode, exc, st, i, answer, effmax, atts, src, led, db, own, inv, cont, kept, redone,
    observed, terminals, wire, ran, asked, grants, heirs, fyi,
    sconf, agents, turns, execs, inputs, begun, results, prepared, latched, snapshot,
    scrashes, late, broken, reported,
    tsite, heap, kit, shipped, trun, tstore, teffects, tchanges, tcrashes,
    xhost, config, full, xst, rt, xcont, xcall, xeffects, xchanges, loads,
    wsite, fs, snaps, wcall, tracker, left, undo, mark,
    host, pending, jobs, running, answers, restarts,
    osite, log, start, covered, shown, failure, trouble

kvars == <<conf, pc, mode, exc, st, i, answer, effmax, atts, src, led, db, own, inv, cont,
           kept, redone, observed, terminals, wire, ran, asked, grants, heirs, fyi>>
svars == <<sconf, agents, turns, execs, inputs, begun, results, prepared, latched,
           snapshot, scrashes, late, broken, reported>>
tvars == <<tsite, heap, kit, shipped, trun, tstore, teffects, tchanges, tcrashes>>
xvars == <<xhost, config, full, xst, rt, xcont, xcall, xeffects, xchanges, loads>>
wvars == <<wsite, fs, snaps, wcall, tracker, left, undo, mark>>
jvars == <<host, pending, jobs, running, answers, restarts>>
ovars == <<osite, log, start, covered, shown, failure, trouble>>
all == <<part, vars, kvars, svars, tvars, xvars, wvars, jvars, ovars>>

---------------------------------------------------------------------------
(* ToolExecution: each process with an owner id of its own, and both with the  *)
(* same one; the second call needs an approval.                                *)

MCBatch == <<t1, t2>>
MCOwners == {(p1 :> o1) @@ (p2 :> o2), (p1 :> o1) @@ (p2 :> o1)}

ASSUME ToolAssumption == BatchFit

---------------------------------------------------------------------------
(* KernelLoop *)

K == INSTANCE KernelLoop

Base ==
    [guard |-> FALSE, path |-> "plain", reports |-> TRUE, retries |-> 1, store |-> TRUE,
     cap |-> 20, durable |-> FALSE, confirm |-> FALSE, human |-> FALSE, onmax |-> FALSE,
     observe |-> FALSE, max |-> 1, batches |-> {<<>>}, resumes |-> 1, posts |-> {}]

MCConfigs ==
    { \* sends: retries, a boundary that hands over, receipts stored with results
      [Base EXCEPT !.reports = FALSE, !.retries = 2, !.max = 2, !.batches = {<<>>, <<"plain">>},
                   !.posts = {"m1"}],
      [Base EXCEPT !.path = "boundary", !.guard = TRUE, !.max = 2, !.batches = {<<>>, <<"plain">>}],
      [Base EXCEPT !.path = "boundary", !.reports = FALSE],
      [Base EXCEPT !.path = "atomic", !.guard = TRUE, !.max = 2, !.batches = {<<>>, <<"plain">>}],
      \* batches: a mixed one, one that reaches a limit, an observed one
      [Base EXCEPT !.retries = 0, !.max = 3, !.observe = TRUE, !.confirm = TRUE,
                   !.batches = {<<"human", "plain">>, <<"limit">>, <<"confirm", "deferred">>}],
      \* waits for approval, with and without a callback; a resume that fails and is
      \* started over
      [Base EXCEPT !.retries = 0, !.guard = TRUE, !.durable = TRUE, !.max = 2, !.resumes = 3,
                   !.batches = {<<>>, <<"confirm", "deferred">>}],
      [Base EXCEPT !.retries = 0, !.durable = TRUE, !.observe = TRUE, !.resumes = 3, !.max = 2,
                   !.batches = {<<>>, <<"plain", "confirm", "plain">>}],
      [Base EXCEPT !.guard = TRUE, !.durable = TRUE, !.confirm = TRUE, !.path = "atomic",
                   !.batches = {<<"plain", "confirm", "confirm">>}],
      \* waits for an answer and for more budget
      [Base EXCEPT !.retries = 0, !.guard = TRUE, !.durable = TRUE, !.human = TRUE,
                   !.onmax = TRUE, !.batches = {<<>>, <<"human">>}],
      [Base EXCEPT !.retries = 0, !.max = 2, !.resumes = 2, !.posts = {"m1"},
                   !.batches = {<<>>, <<"human">>}],
      [Base EXCEPT !.retries = 0, !.guard = TRUE, !.durable = TRUE, !.onmax = TRUE,
                   !.confirm = TRUE, !.batches = {<<"plain", "confirm">>}],
      \* a bundle that outgrows its limit once and is written with its events apart
      [Base EXCEPT !.retries = 0, !.cap = 3, !.durable = TRUE, !.max = 3, !.resumes = 3,
                   !.batches = {<<>>, <<"confirm">>}] }

---------------------------------------------------------------------------
(* Subagents: which tools, which limits, with or without the durable          *)
(* completion sink, and the ways a child may end.                             *)

Policy(tools, ends, durableSink, bounds, kids, total, depth, open, mail, board, pool) ==
    [tools |-> tools, ends |-> ends, durable |-> durableSink, turns |-> bounds[1],
     nest |-> bounds[2], max_children_per_parent |-> kids,
     max_total_subagents |-> total, max_depth |-> depth, max_open_threads |-> open,
     max_mailbox_messages |-> mail, max_board_items |-> board, max_parallel_workers |-> pool]

Completed == {"completed"}

AllEnds == {"completed", "max_iterations", "needs_clarification", "awaiting_interaction"}

Suspends == {"completed", "needs_clarification"}

MCConfs ==
    {Policy({"worker", "board"}, Completed, TRUE, <<3, 0>>, 3, 2, 2, 1, 1, 1, 2),
     Policy({"delegate", "worker"}, Completed, TRUE, <<2, 1>>, 2, 3, 2, 1, 1, 1, 2),
     Policy({"delegate", "handoff", "return_handoff", "board"}, Suspends, TRUE, <<3, 1>>, 2, 2, 2, 1, 1, 1, 1),
     Policy({"thread", "message", "close", "board"}, AllEnds, FALSE, <<4, 0>>, 2, 2, 1, 1, 2, 2, 1),
     Policy({"thread", "message"}, Completed, TRUE, <<3, 1>>, 2, 2, 1, 1, 1, 1, 1)}

MCBatches == {<<"run", "run">>, <<"run", "empty", "run", "unsafe">>}

S == INSTANCE Subagents WITH conf <- sconf, started <- begun, crashes <- scrashes

---------------------------------------------------------------------------
(* TurnTools: two tools, one of which asks for approval; every provider, with *)
(* and without tools, remote continuation, formats and beta headers that       *)
(* overlap.                                                                    *)

WireTool(n, confirm, betas) == [name |-> n, fn |-> <<0, 1>>, man |-> "m1", schema |-> 1,
                            confirm |-> confirm, betas |-> betas]

MCShipped == <<WireTool("read", FALSE, <<"b1", "b2">>), WireTool("write", TRUE, <<"b2", "b3">>)>>

User == [role |-> "user", body |-> "text"]
System == [role |-> "system", body |-> "text"]
Block == [role |-> "assistant", body |-> "blocks"]

Turn(p, supports, betas, formatted, previous) ==
    [provider |-> p, supports |-> supports, betas |-> betas, formatted |-> formatted,
     keys |-> {}, messages |-> <<System, User, Block>>, previous |-> previous,
     fallback |-> IF previous THEN <<System, User>> ELSE <<>>]

MCTurnSites == {Turn("openai", TRUE, <<>>, TRUE, TRUE), Turn("openai", TRUE, <<>>, FALSE, FALSE),
            Turn("anthropic", TRUE, <<"b0", "b2", "b0">>, TRUE, FALSE),
            Turn("hyperspace", FALSE, <<"b0">>, FALSE, FALSE),
            Turn("gemini", TRUE, <<>>, TRUE, FALSE), Turn("ollama", TRUE, <<>>, TRUE, FALSE)}

MCToolChanges == {[field |-> "schema", value |-> 2], [field |-> "confirm", value |-> FALSE],
              [field |-> "confirm", value |-> TRUE], [field |-> "fn", value |-> <<9, 2>>],
              [field |-> "man", value |-> "m2"], [field |-> "betas", value |-> <<"b4">>]}

T == INSTANCE TurnTools WITH
    Sites <- TurnSites, Changes <- ToolChanges, site <- tsite, run <- trun, store <- tstore,
    effects <- teffects, changes <- tchanges, crashes <- tcrashes

---------------------------------------------------------------------------
(* ToolExposure: three tools, of which one is always loaded, one is deferred   *)
(* by default and two ask for approval; room for one or two of them beside     *)
(* the meta tools.                                                             *)

Tool(n, schema, always, defer, confirm) ==
    [name |-> n, schema |-> schema, always |-> always, defer |-> defer, confirm |-> confirm]

Kit == <<Tool(3, 1, FALSE, TRUE, TRUE), Tool(1, 1, TRUE, FALSE, FALSE), Tool(2, 1, FALSE, FALSE, TRUE)>>

Plain == <<Tool(2, 1, FALSE, FALSE, TRUE), Tool(3, 1, FALSE, TRUE, FALSE)>>

MCKits == {Kit, Plain}

On(trigger, max) == [enabled |-> TRUE, trigger |-> trigger, max_direct_tools |-> max]

Off == [enabled |-> FALSE, trigger |-> 1, max_direct_tools |-> 6]

MCOptimizers == {On(1, 6), On(1, 5), On(2, 5), On(1, 3), Off}

MCHosts == {[durable |-> TRUE, asks |-> FALSE], [durable |-> FALSE, asks |-> TRUE],
            [durable |-> FALSE, asks |-> FALSE]}

NewSchema == [Kit EXCEPT ![3].schema = 2]
NoApproval == [Kit EXCEPT ![1].confirm = FALSE]
Grown == Kit \o <<Tool(4, 1, FALSE, FALSE, FALSE)>>

MCKitChanges == {[kit |-> k, optimizer |-> o] : k \in {Kit, NewSchema, NoApproval, Grown, Plain},
                                             o \in {On(1, 6), Off}}

X == INSTANCE ToolExposure WITH
    Changes <- KitChanges, host <- xhost, st <- xst, cont <- xcont, call <- xcall,
    effects <- xeffects, changes <- xchanges

---------------------------------------------------------------------------
(* CodingWorkspace *)

Rd(f, n) == [tool |-> "read", file |-> f, limit |-> n]

Wr(f, new) == [tool |-> "write", file |-> f, new |-> new]

Ed(f, old, line, every) == [tool |-> "edit", file |-> f, old |-> old, line |-> line, all |-> every]

Sh(f, new) == [tool |-> "shell", file |-> f, new |-> new]

Wide == [max_files |-> 3, max_size |-> 3, per_file |-> 6, total |-> 6]

Workspace(initial, sessions, calls, others, tries, b) ==
    [initial |-> initial, sessions |-> sessions, calls |-> calls, others |-> others, tries |-> tries,
     max_files |-> b.max_files, max_size |-> b.max_size, per_file |-> b.per_file, total |-> b.total]

\* One session and a person editing the same files; one session alone, with undo at
\* its bounds, binary files and carriage returns; two sessions on one file; a
\* workspace larger than the tracker follows.
MCCodingSites ==
    {Workspace(<<<<"a", "b">>, <<"gone">>>>, {1},
          {Rd(1, 2), Rd(1, 1), Wr(1, <<"c">>), Ed(1, "a", "c", FALSE), Wr(2, <<"a">>)},
          {<<"a", "a">>, <<"b">>, <<"gone">>}, <<2, 3>>, Wide),
     Workspace(<<<<"a", "b">>, <<"gone">>>>, {1},
          {Rd(1, 3), Wr(1, <<"c">>), Ed(1, "a", "c", TRUE), Wr(2, <<"a">>), Sh(1, <<"gone">>), Sh(2, <<"b", "a">>),
           Sh(1, <<"a", "a">>), Sh(2, <<"gone">>), Sh(2, <<Nul>>)},
          {}, <<0, 4>>, Wide),
     Workspace(<<<<"a", Cr, "b">>, <<Nul>>>>, {1},
          {Rd(1, 3), Rd(2, 3), Ed(1, "a", "c", TRUE), Wr(1, <<"c", "c", "c", "c">>), Wr(2, <<"c">>),
           Sh(2, <<"a">>), Sh(1, <<"c", "b">>)},
          {<<"a">>}, <<1, 3>>, [Wide EXCEPT !.per_file = 5]),
     Workspace(<<<<"a">>>>, {1, 2},
          {Rd(1, 2), Wr(1, <<"b">>), Ed(1, "a", "c", FALSE), Sh(1, <<"d">>)},
          {<<"a">>}, <<0, 2, 2>>, Wide),
     Workspace(<<<<"a">>, <<"b">>>>, {1},
          {Rd(2, 2), Wr(2, <<"c">>), Sh(1, <<"gone">>), Sh(2, <<"d">>)},
          {<<"gone">>}, <<1, 4>>, [Wide EXCEPT !.max_files = 1])}

W == INSTANCE CodingWorkspace WITH Sites <- CodingSites, site <- wsite, call <- wcall

---------------------------------------------------------------------------
(* JobTools *)

Command(command, cwd, background) ==
    [action |-> "run", command |-> command, cwd |-> cwd, background |-> background]

\* In the directory of the session, in a named one, and in the foreground (what a
\* person may change the arguments to).
MCArguments ==
    {Command("make", "default", TRUE), Command("make", "sub", TRUE), Command("make", "default", FALSE)}

J == INSTANCE JobTools WITH Root <- HomeDir

---------------------------------------------------------------------------
(* ToolOutput *)

\* One output of two pages or more beside a short one; one whose first page is cut
\* inside a character, read once more; and a host without the output manager.
MCOutputSites ==
    {[content |-> << <<"a", "q", "q", "h", "t", "q", "h", "t", "a">>, <<"q", "h", "t">> >>,
      policy |-> <<"default", "head_tail">>, native |-> TRUE, coalesced |-> TRUE,
      managed |-> TRUE, reads |-> 2],
     [content |-> << <<"q", "q", "q", "h", "t", "q", "q">> >>,
      policy |-> <<"artifact_only">>, native |-> FALSE, coalesced |-> FALSE,
      managed |-> TRUE, reads |-> 3],
     [content |-> << <<"a", "q", "q", "h", "t", "q", "a">>, <<"a", "a", "a">> >>,
      policy |-> <<"default", "default">>, native |-> TRUE, coalesced |-> FALSE,
      managed |-> FALSE, reads |-> 2]}

O == INSTANCE ToolOutput WITH Sites <- OutputSites, site <- osite

---------------------------------------------------------------------------
NoKernel ==
    /\ conf = 0 /\ pc = 0 /\ mode = 0 /\ exc = 0 /\ st = 0 /\ i = 0 /\ answer = 0
    /\ effmax = 0 /\ atts = 0 /\ src = 0 /\ led = 0 /\ db = 0 /\ own = 0 /\ inv = 0
    /\ cont = 0 /\ kept = 0 /\ redone = 0 /\ observed = 0 /\ terminals = 0 /\ wire = 0 /\ ran = 0 /\ asked = 0
    /\ grants = 0 /\ heirs = 0 /\ fyi = 0

NoSubagents ==
    /\ sconf = 0 /\ agents = 0 /\ turns = 0 /\ execs = 0 /\ inputs = 0 /\ begun = 0
    /\ results = 0 /\ prepared = 0 /\ latched = 0 /\ snapshot = 0 /\ scrashes = 0 /\ late = 0
    /\ broken = 0 /\ reported = 0

NoTurnTools ==
    /\ tsite = 0 /\ heap = 0 /\ kit = 0 /\ shipped = 0 /\ trun = 0 /\ tstore = 0
    /\ teffects = 0 /\ tchanges = 0 /\ tcrashes = 0

NoExposure ==
    /\ xhost = 0 /\ config = 0 /\ full = 0 /\ xst = 0 /\ rt = 0 /\ xcont = 0
    /\ xcall = 0 /\ xeffects = 0 /\ xchanges = 0 /\ loads = 0

NoWorkspace ==
    /\ wsite = 0 /\ fs = 0 /\ snaps = 0 /\ wcall = 0 /\ tracker = 0 /\ left = 0
    /\ undo = 0 /\ mark = 0

NoJobTools ==
    /\ host = 0 /\ pending = 0 /\ jobs = 0 /\ running = 0 /\ answers = 0 /\ restarts = 0

NoOutput ==
    /\ osite = 0 /\ log = 0 /\ start = 0 /\ covered = 0 /\ shown = 0 /\ failure = 0
    /\ trouble = 0

MCInit ==
    /\ part \in Parts
    /\ Init /\ (part = "tools" \/ owners[p1] = owners[p2])
    /\ IF part = "kernel" THEN K!Init ELSE NoKernel
    /\ IF part = "subagents" THEN S!Init ELSE NoSubagents
    /\ IF part = "turn" THEN T!Init ELSE NoTurnTools
    /\ IF part = "exposure" THEN X!Init ELSE NoExposure
    /\ IF part = "workspace" THEN W!Init ELSE NoWorkspace
    /\ IF part = "jobs" THEN J!Init ELSE NoJobTools
    /\ IF part = "output" THEN O!Init ELSE NoOutput

\* A run and a tree of runs always come to an end of their own; the other parts
\* stop where their bounds do.
MCNext ==
    /\ UNCHANGED part
    /\ \/ part = "tools" /\ Next /\ UNCHANGED <<kvars, svars, tvars, xvars, wvars, jvars, ovars>>
       \/ part = "kernel" /\ K!Next /\ UNCHANGED <<vars, svars, tvars, xvars, wvars, jvars, ovars>>
       \/ part = "subagents" /\ S!Next /\ UNCHANGED <<vars, kvars, tvars, xvars, wvars, jvars, ovars>>
       \/ part = "turn" /\ T!Next /\ UNCHANGED <<vars, kvars, svars, xvars, wvars, jvars, ovars>>
       \/ part = "exposure" /\ X!Next /\ UNCHANGED <<vars, kvars, svars, tvars, wvars, jvars, ovars>>
       \/ part = "workspace" /\ W!Next /\ UNCHANGED <<vars, kvars, svars, tvars, xvars, jvars, ovars>>
       \/ part = "jobs" /\ J!Next /\ UNCHANGED <<vars, kvars, svars, tvars, xvars, wvars, ovars>>
       \/ part = "output" /\ O!Next /\ UNCHANGED <<vars, kvars, svars, tvars, xvars, wvars, jvars>>
       \/ part \notin {"kernel", "subagents"} /\ UNCHANGED all

MCSpec == MCInit /\ [][MCNext]_all

\* What the ledger says of the calls to the provider is true: every send is
\* accounted for (KernelLoop!SendsAccounted), a seal says what became of the call
\* (KernelLoop!SealsTruthful), and the stored bundle tells how the run ended
\* (KernelLoop!BundleTellsTheEnd).
AccountsAreTrue ==
    part = "kernel" => K!SendsAccounted /\ K!SealsTruthful /\ K!BundleTellsTheEnd

\* The loop keeps its promises through pauses and resumes: one end, a failure that
\* was resumed apart (KernelLoop!TerminalDiscipline), every tool call run at most
\* once, but for what a resume after a failure repeats, and only as approved
\* (KernelLoop!CallsOnce), no more iterations than were granted
\* (KernelLoop!BudgetKept), every live message shown once (KernelLoop!FyiOnce);
\* and the state transition of a durable call is applied once
\* (ToolExecution!TransitionsOnce).
LoopDiscipline ==
    /\ part = "kernel" => K!TerminalDiscipline /\ K!CallsOnce /\ K!BudgetKept /\ K!FyiOnce
    /\ part = "tools" => TransitionsOnce

\* A child runs once however often its parent is resumed
\* (Subagents!ChildrenRunOnce), within the limits checked at its start
\* (Subagents!GatesHold); a parent ends with no child open
\* that did not stop at an approval (Subagents!NothingLeftOpen), a failure is not reported as a success
\* (Subagents!FailureWins), and what is reported was merged
\* (Subagents!ReportedIsMerged).
ChildrenRunOnce ==
    part = "subagents" => /\ S!ChildrenRunOnce /\ S!GatesHold /\ S!NothingLeftOpen
                          /\ S!FailureWins /\ S!ReportedIsMerged

\* Docs: max_depth bounds the depth of the tree (Subagents!DepthBounded).
DepthBounded == part = "subagents" => S!DepthBounded

\* A follow-up a child answered is kept (Subagents!FollowUpsKept).
FollowUpsKept == part = "subagents" => S!FollowUpsKept

\* What runs after an approval is what was approved, and a resumed turn is refused
\* only if something changed: on a turn's own tools (TurnTools!RunsAsApproved,
\* TurnTools!OnlyChangeFails), on a deferred one (ToolExposure!DeferredAsApproved,
\* ToolExposure!UnchangedResumes) and for a job (JobTools!JobAsApproved).
RunsAsApproved ==
    /\ part = "turn" => T!RunsAsApproved /\ T!OnlyChangeFails
    /\ part = "exposure" => X!DeferredAsApproved /\ X!UnchangedResumes
    /\ part = "jobs" => J!JobAsApproved

\* What a model is shown of its tools is what they are: the wire of a turn
\* (TurnTools!WireShowsLiveTools) and the selection of a resumed run
\* (ToolExposure!ReplayIsExact).
ShownAsTheyAre ==
    [][/\ part = "turn" => T!WireStep
       /\ part = "exposure" => X!ReplayStep]_all

\* The tools destroy no text of somebody else they have not read, but for an edit made
\* during one of their own calls, which an undo takes for theirs
\* (CodingWorkspace!NoUnseenLoss), put in place what the person was shown
\* (CodingWorkspace!AppliedAsShown), and an undo that reports success returned the
\* files (CodingWorkspace!UndoReturns).
NoUnseenLoss ==
    [][part = "workspace" => W!KeepsUnseen /\ W!PutsAsShown /\ W!UndoReturns']_all

\* A reader that follows the pages reads the whole output (ToolOutput!ReadsWhole),
\* and keeps its place when old pages are compacted (ToolOutput!PlaceKept).
ReadsWhole == part = "output" => O!ReadsWhole /\ O!PlaceKept
=============================================================================
