# unchain: models, checks and proofs

unchain is a Python library that runs LLM agents: a kernel loop alternates
provider calls and tool calls, and a durable layer (jobs on disk, session
records, a SQLite execution journal, a memory workspace) lets a run be suspended,
killed, taken over and resumed without doing anything twice. That layer is where
several processes meet, where crashes fall between two writes, and where a unit
test sees only the orders somebody thought of. This directory models it in TLA+,
checks it with TLC on small instances, and proves the properties of its seven most
exposed protocols with TLAPS for every value of their constants.

Every module is translated from `src/src/unchain`; `PROJECT.json` maps each
definition to the lines it stands for. Paths below are relative to that package.

To repeat a check: `tlc -workers 2 -config X.cfg MCModule`; to repeat a proof:
`tlapm ExecutionLeaseSafety.tla` (likewise the other modules of the proof
section).

# Inventory

| part | its state | what is hard about it | modules | run |
|---|---|---|---|---|
| durable jobs (`jobs/`) | one directory per job: spec, state, cursor, claim, heartbeat, cancel marker | several wrappers race for one command; any of them, or the supervisor, dies anywhere; pids are reused | `JobStore`, `DurableJobs`, `CommandOnce` | `jobs`, `progress` |
| execution lease (`execution.py`, `memory/qdrant.py`) | active lease, last token, tombstones, session revision | expiry during a model call, a heartbeat thread, borrowed guards, a clock set back | `SessionStore`, `ExecutionLease` | `sessions` |
| durable interaction (`interaction/`, `memory/runtime.py`, `kernel/loop.py`) | checkpoint and journal in the session record | clients, callbacks, cancel and resume race on one record | `SessionJournal`, `DurableInteraction` | `memory` |
| durable provider turn (`providers/`, `context/provider_*.py`) | catalog and wire receipts, request lease and result per subject, ledger | a request may have left when the process died | `ProviderTurn` | `progress` |
| durable tool execution (`context/tool_*.py`, `context/runtime.py`) | intent, started, sealed, result receipts; artifacts; checkpoint | an effect may have happened when the process died; approvals; state transitions | `ToolExecution` | `agents` |
| graph execution (`context/graph_*.py`) | the events of a graph's attempts | steps start from stale readings; two readers interpret one journal | `GraphJournal`, `GraphExecution` | `chats` |
| chat generations (`persistence/sqlite_generation_*`, `sqlite_legacy_bootstrap_v2`, `sqlite_chat_deletion_v2`) | heads, transitions, bindings, receipts, manifests, tombstones, events | four services write one database from old readings; late writers after deletion | `ChatGenerations` | `chats` |
| curator (`memory/curator`, `persistence/sqlite_curator*`) | candidates, jobs, claims, reviews, entries, revisions, receipts | leases expire while a model thinks; effects and completion are separate transactions | `MemoryWorkspace`, `Curator` | `chats` |
| Memory V2 plane (`memory/workspace`, `persistence/sqlite_memory_v2.py`, `sqlite_promotion_v2.py`) | entries, links, full-text and vector index, listings, task state, promotions | reads span transactions; an index fails and comes back | `MemoryWorkspace`, `MemoryPlane` | `memory` |
| context compiler (`context/compiler.py`, `coordinator.py`, `request_factory.py`) | checkpoints, builds, the journal they are computed from | two passes over a journal that grows; crash between two stored writes | `ContextProjection`, `ContextCompile` | `memory` |
| history reduction (`optimizers/`, `kernel/microcompact.py`, `tools/result_budget.py`) | the transcript and the request built from it | stages that shorten independently | `HistoryReduction` | `memory` |
| memory commit (`memory/manager.py`) | session document, vector index, facts, cursors | external calls between load and save | `MemoryCommit` | `memory` |
| run accounting (`run_bundle*.py`, `pricing_catalog.py`, `kernel/run_ledger.py`) | receipts, metric events, bundles of a run tree | bundles arrive again, reordered or compacted | `BundleUsage`, `RunBundle`, `RunLedger` | `memory`, `agents` |
| kernel loop (`kernel/loop.py`, `tools/execution.py`, `kernel/transient_retry.py`) | iteration, batch, pauses, ledger | a batch pauses in the middle; the run ends by an exception of its own | `KernelLoop` | `agents` |
| subagents (`subagents/`) | tree of runs, threads, mailboxes, boards | worker pools time out; a crash replays the call that started a child | `Subagents` | `agents` |
| turn tools and wire (`tools/handler_registry.py`, `context/tool_catalog.py`, `providers/wire_*.py`, `prepared_turn.py`) | live tools, catalog, wire envelope, routes | tools change between the question and the answer | `WireFormat`, `TurnTools` | `agents` |
| tool exposure (`tools/exposure.py`) | the plan of exposed, loaded and deferred tools | a resumed run must show what the paused one did | `ToolExposure` | `agents` |
| coding workspace (`toolkits/builtin/core/coding_backend.py`, `workspace_changes/`) | files, read snapshots, change tracker | somebody else edits the same files | `CodingWorkspace` | `agents` |
| job tools (`jobs/plugin.py`) | cached intents, approvals, jobs | the process restarts between question and answer | `JobTools` | `agents` |
| tool output (`tools/output_management`, `context_content.py`, `memory/toolkit`) | outputs, pages, views | pages end inside characters; pages that were read are compacted | `ToolOutput` | `agents` |
| shell tasks (`toolkits/builtin/core/shell_runtime.py`) | processes, buffers, watcher threads | reader, watcher and callers run concurrently | `ShellTasks` | `sessions` |

`PROJECT.json` lists the parts that are left out, and what is left out of each
part above.

# How the runs are built

Each component module is a specification of its own (`Init`, `Next`, `Spec`,
`TypeOK`). An MC module extends one component, instantiates others and adds a
variable `part`: `Init` chooses the part, no step changes it, and the variables of
the other parts stay as they are. One run thus covers several independent state
spaces; it is their disjoint union, not their product, and nothing is assumed
about one part while another is checked.

A run often asks one question of several deployments too: one process or two
racing ones, with or without semantic memory, a steady clock or one that is set
back. The deployment is then a variable (`site`, `scenario`, `kind`, `owners`,
`plan`, `conf`) that `Init` chooses from a constant set and no step changes; a
property that the code promises for some deployments only says for which.

The modules of the durable protocols have a type invariant `TypeOK`. It is a
conjunct of a structural property of their run (`FilesRecoverable`,
`HolderIsCurrent`, `JournalBound`, `SendOnce`, `SealBindsResult`, `Lineage`,
`JournalStaysRebasable`, `SnapshotsAgree`).

| run | parts | distinct states | seconds |
|---|---|---|---|
| `jobs` (`MCDurableJobs`) | jobs | 901,434 | 65 |
| `progress` (`MCProgress`) | provider, jobs | 164,663 | 130 |
| `sessions` (`MCSessions`) | lease, shell | 481,431 | 140 |
| `chats` (`MCChats`) | chats, graph, curator | 200,404 | 90 |
| `memory` (`MCMemory`) | interaction, plane, context, history, commit, bundle | 457,984 | 125 |
| `agents` (`MCAgents`) | tools, kernel, subagents, turn, exposure, workspace, jobs, output | 1,073,820 | 140 |

Every property was also checked against a defective variant of the code's logic
(a dropped guard, a missing reset, a swapped order), which breaks it; the variants
stand before the definitions they replace, and `PROJECT.json` pairs them.

Deadlock is checked in `agents`, where `KernelLoop` and `Subagents` must always
come to an end of their own. In the other runs a state without a next step is a
bound that was reached or a database nobody calls any more.

# Components

## Durable jobs: `JobStore`, `DurableJobs`, `CommandOnce`

`jobs/store.py` keeps one directory per job; every public operation holds the
job's file lock from its first read to its last write, so `JobStore` makes each
operation one formula over the files (`spec`, `state`, `cursor`, `claim`,
`heartbeat`, `cancelMarker`). `DurableJobs` adds the processes that call those
operations and everything that can happen between two of them:

| in the code | in the model |
|---|---|
| `ProcessJobSupervisor` of a runtime, one call at a time | `spc[s]`, `op[s]`: where the call is and which call it is |
| the snapshot, heartbeat and claim a call has read | `snap`, `seenSeq`, `seenFresh`, `seenClaim` (stale as soon as another process moves) |
| `_suspect_observations` | `suspect[s]` |
| `start`, `inspect`/`poll`/`wait`, `cancel`, `reattach`, `close` | `Start`, `Inspect`, `WriteCancelMarker`, `Reattach`, `Close`/`Reopen` |
| the store operations inside `_reconcile`, in order | `ReconcileLaunched`, `ReconcileQueued`, `ReadClaim`, `ProbePid`, `ClearClaim`, `SpawnWorker`/`SpawnNothing`, `PersistOutcomeUnknown` |
| `run_worker`, one action per store operation or process operation | `WorkerClaim`, `LeaseStart`, `WriteStarting`, `CheckCancel`, `CancelBeforeLaunch`, `CheckClaim`, `Popen`, `WriteRunning`, `Loop*`, `WriteFinal` |
| the `except` block and `_record_orchestration_failure` | `WorkerRaises`, `HandlerLoad`, `HandlerStop`, `HandlerWrite` |
| `_HeartbeatLease._run` | `HeartbeatThread`, concurrent with its own wrapper |
| SIGKILL, power loss, the user command | `CrashSupervisor`, `CrashInReserve`, `CrashWorker`, `ChildExits` |

Ages (heartbeat timeout, launch grace, suspicion window) compare wall-clock
readings that a paused process makes arbitrary, so each comparison is a Boolean
that may come out either way. A claim id is a fresh uuid and a wrapper claims at
most once, so the wrapper itself stands for it; a pid may be used again.

`CommandOnce` is the promise to the caller: the command is reserved, runs at most
once, and ends with one outcome, which may be "unknown". `ImplementsCommandOnce`
checks that every step of `DurableJobs` is a step of it or a stutter, under the
mapping written in `DurableJobs`.

The run `jobs` has two sites: one runtime that may close and reopen, with two
heartbeats and any number of calls; and two runtimes that make three calls between
them. There are two wrappers, two pids that are reused, and one crash, which may
fall at any step. Two wrappers are enough for a race; the run `progress` has a
third for the retry after a dead one.

| property | says |
|---|---|
| `AtMostOneLaunch` | the user command is launched by at most one wrapper |
| `StatusIsTrue` | the recorded status is true of the command |
| `FilesRecoverable` | no crash leaves a directory that a repeated `start` refuses |
| `OnlyDeadClaimsCleared` | only the claim of a wrapper that is gone is deleted |
| `GivesUpOnlyUnchangedEvidence` | a job is given up only on the evidence its suspicion window began with |
| `ImplementsCommandOnce` | every step is a step of `CommandOnce` or a stutter |
| `WorkEnds` (run `progress`) | a job somebody waits for settles, whatever crashes |

## Execution lease: `SessionStore`, `ExecutionLease`

`SessionStore` holds the operations of the session record that
`memory/qdrant.py` runs under its lock: acquire (a live lease of the same owner
is returned, an expired one is replaced with the next token), renew, release,
cancel, verify, and the fenced and unfenced writes. `ExecutionLease` runs
`ExecutionGuard` on top: the run itself (`Acquire`, `Load`, `SaveFenced`,
`Release`), its heartbeat thread (`Heartbeat`), a model call in flight (`Fetch`,
`FetchReturns`), a child that borrows the guard for a tool batch (`Borrow`,
`ChildFetch`, `ChildEnds`), a wait with the lease suspended (`ReleaseForWait`,
`Reacquire`), errors that unwind, cancellation and crashes. Of the session state the
model keeps the checkpoint with the attempt it belongs to and whether its interaction
is settled. Beside the holder write those that ask for no lease (`WriteBeside`): an
answer (`RecordAnswer`) and a cancellation (`Settle`) while the interaction is open,
the reconciliation of a cancelled attempt (`Reconcile`), and, while no lease is live,
code that saves without one (`SaveUnfenced`). Time is a small counter; `Ttl` is the time to
live and `Adjustable` lets the clock go back.

Part `lease` of the run `sessions`: two processes, of two owners with a steady
clock and two writes, or of one owner with a clock that may be set back and one
write; time 0..2, `Ttl` 2, two tokens. That has an instant before, at and after expiry, and a
successor of the first lease.

| property | says |
|---|---|
| `FencedInOrder` | writes under a fence come in the order of their tokens, also when the clock goes back |
| `AnswerStillOwned` | a model answer reaches only a run that owned the execution all the time the call was in flight; a cancelled owner stays stopped |
| `HolderIsCurrent` | with a steady clock, a run that verifiably holds the lease and has written under it was not overtaken by anybody, duplicates of its own attempt apart, unless it has an interaction open or not yet applied: answers and cancellations take no lease and pass it |

## Shell tasks: `ShellTasks`

Foreground commands, and background commands with one reader thread per stream and
a watcher thread. Output is a sequence of bytes, some of which are halves of one
character; readers take it in blocks, callers consume increments cut at a limit.

Part `shell` of `sessions`: two sessions and one background task; the first session
makes three calls, the second one; output of three bytes in blocks of two.
`TasksServed`: what is reported over any number of polls, waits and kills is a
prefix of what the readers decoded, a task reported as completed is not running
and one reported as successful ended by itself with code 0; the process ends, unless
the signal has no effect (`_terminate_task` goes on when neither `killpg` nor `kill` works), and every call
returns.

Observed while translating, and left in the model as the code does it:
`pipe.read(4096)` blocks until a block is full or the pipe closes, so a poll may
see nothing of a long-running command; decoding block by block replaces a character
cut at a block boundary; killing a task that has just finished reports "killed"; a
poll between SIGKILL and the flag says "completed", and the flag set later changes
what the next poll says; children that hold the pipe outlive a kill.

## Durable interaction: `SessionJournal`, `DurableInteraction`

`SessionJournal` is the session record with its checkpoint and the entry of one
interaction (pending, answered, applied, cancelled); `DurableInteraction` has the
attempts that ask and resume, the clients that submit, the callback that answers
in place, `cancel_pending`, and crashes. A resumed run bootstraps in two reads, the
checkpoint and then the revision (`ReadRevision`, `Booted`), and others may write
between them (`mem.late` says that somebody did, or that the checkpoint was gone). A compare-and-swap is computed from the
state it read and refused when the revision moved. `kind` says whether the session
uses `memory/durability.py` or the semantic memory of `memory/bootstrap.py`.

Part `interaction` of the run `memory`: both kinds of session, two attempts whose
callbacks say no, a client who says yes, a cancellation at any time, three revisions.

| property | says |
|---|---|
| `JournalBound` | the pending interaction of the checkpoint is the pending entry of the journal, through every write, crash and cancellation |
| `OneAnswer` | all runs act on one answer, and what a client was told stays recorded |
| `AbandonedRunCannotWrite` | where `memory/durability.py` insists on the checkpoint, a run that resumed an interaction which was then abandoned has no write left that the store accepts, unless its bootstrap read the revision only after the abandonment |

Two kinds of run are not covered by the last property, because nothing in the code
fences them. With semantic memory a run that read its answer before `cancel_pending`
bootstraps on the state without the checkpoint and can commit. With
`memory/durability.py` a cancellation that falls between the two loads of a bootstrap
leaves a run with the old checkpoint and the new revision, and its next write is
accepted.

## Provider turn: `ProviderTurn`

One turn is a set of subjects (request, route, retry ordinal). A process makes
the tool catalog and the wire envelope durable, then for each subject reads the
request lease, claims it, sends, and records result, failure or uncertainty; an
accounting receipt is written per physical send. Every store call is one SQLite
transaction and one step. What the provider answers is a class (`ok`, `status_429`,
`previous_response`, `dropped`, ...), which `exact_route_transport` turns into the
failure kinds the coordinator accepts. A crash is possible at every step and a
crashed process starts over.

Part `provider` of the run `progress`, two processes, three sites: OpenAI that
enforces, with retry and fallback route; OpenAI with modes enforce and off and two
possible requests; Gemini with a budget of three. Ordinals 0..3.

| property | says |
|---|---|
| `SendOnce` | no subject is sent twice, every send carries the one envelope that was let through, and what processes return is one completed result |
| `RetriesAreEarned` | a retry or the fallback rests on a recorded failure that allows it; receipts belong to sends, and a failed or completed subject has the receipt of its send |
| `WorkEnds` | every call returns or raises |

## Tool execution: `ToolExecution`

A batch of calls in order. For each call a process asks the boundary for an
authorization, which the receipts in the journal decide: run the handler, finalize
a sealed completion, reuse a result, or refuse because a start without a result is
uncertain. Approval suspends the run with a checkpoint and resumes it. Handlers of
stateful calls produce a transition of the subagent state, which is bound into
the seal and applied with the result. The lease may be lost between any two steps.

Part `tools` of the run `agents`: two processes, with owner ids of their own or
sharing one; two stateful calls, the second guarded; three tokens.

| property | says |
|---|---|
| `EffectOnce` | a handler runs at most once, after its start is durable and only as decided, also when two processes of one owner share a fencing token |
| `SealBindsResult` | the sealed, the recorded and the delivered completion are one, and what a receipt refers to can be read back |
| `LoopDiscipline` (its second conjunct) | the state transition of a call is applied once |

## Kernel loop and run ledger: `KernelLoop`, `RunLedger`

One run over all its invocations: `run()`, then a resumption from each saved
continuation. An action covers the code between two checks of the execution guard.
`KernelLoop` has the iterations of `_run_state`, the physical sends of `step_once`
with retry, hand-over to the durable boundary and atomic receipts, the batch of
`tools/execution.py` with confirmation, deferred and human calls, limits, live
messages, and the failure paths. `RunLedger` is the accounting of the run in
memory and in the tables of `sqlite_v2.py`.

Part `kernel` of `agents`: twelve configurations of one run (the sends, the
batches, the waits, a bundle that outgrows its limit), up to three iterations and
three resumptions, one live message in the configurations that post.

A resumed run that fails leaves the checkpoint it started from, and may be resumed
from it again: the sends and the tool calls behind the checkpoint are then repeated
under the same identities, and `run_failed` may be followed by `run_completed`. The
properties say exactly what such a resumption may repeat (`redone`). A process that
is killed, as opposed to failing, is modelled only while it waits.

| property | says |
|---|---|
| `AccountsAreTrue` | a send has an identity and a receipt of its own, except that a run started over repeats those of the failed one; a seal says what became of the call; the stored bundle tells how the run ended |
| `LoopDiscipline` | nothing follows `run_completed` or `run_cancelled`, and only a resumption follows `run_failed`; every tool call runs as approved and at most once, except what a run started over repeats; no more iterations than were granted; every live message is shown once |

## Subagents: `Subagents`

A tree of runs named by their paths. The tools of `subagents/plugin.py` (delegate,
worker batches in a pool, handoff, threads with mailboxes, blackboards) start
children; limits are checked at the start of a child; with the durable sink the
input and the result of every child are recorded, and a call interrupted by a crash
may be executed again. Part `subagents` of `agents`: five policies, one crash.

`ChildrenRunOnce`: with the durable sink a child run is started at most once, also
when the process dies and the interrupted call is executed again; after the first
durable failure of a batch every sibling makes at most the turn it had already
begun; a durable failure wins over results and time-outs on every level above it;
no run keeps a return frame, a batch or a thread that `wait_agent_messages` calls
running, and none counts more children or messages than its policy allows; what a call reports was merged, each
board item once. Two claims of the documentation fail, see the findings.

Observed: a child that stops at an approval ends as `awaiting_interaction`, which the
wait does not know, so its thread is called running for ever (the property leaves
these threads out); a status update may reopen a thread past `max_open_threads`; merging
boards extends them past `max_board_items`; items and bundles of a worker that
timed out are lost.

## Turn tools and wire formats: `WireFormat`, `TurnTools`

`WireFormat` has the conversions from live tools to handler registrations, frozen
provider tools, catalog and wire envelope with its routes, on every provider;
`TurnTools` follows one durable attempt from the live objects to the invocation
while the host edits a tool in place, puts another object in the toolkit, or ships
other code and restarts. A tool has a function object and the module and qualified
name it is known by after a restart; a digest is the value it digests. A call is
bound in three steps (`FreezeRoute`, `PrepareToolConfirmation`, `RequestApproval`):
the flag that asks for approval is read from the live tool after the route is frozen.

Part `turn` of `agents`: six turns over all providers, two tools one of which asks
for approval, one change, one crash.

Observed: `supports_tools` becoming false is not noticed by a resumed turn; the
resume boundary binds a paused call to the live toolkit without comparing the
catalog; a handler's identity is its module and qualified name, so changed code
under one name passes.

## Tool exposure: `ToolExposure`

When a run has many tools a selector picks the few the provider sees; the others
are reachable through four meta tools. The plan of exposed, loaded and deferred
tools is stored at a pause, and the resuming process rebuilds the exposure from it
or refuses. Part `exposure` of `agents`: two toolkits of two or three tools, five
optimizer settings, three kinds of host, one change of the kit, two loads.

Observed: a run without a selector plan is not compared on resume; without an
interaction runtime and without a confirmation callback a confirmable tool runs
unasked.

## Job tools: `JobTools`

The shell tool over durable jobs behind an approval: the intent (command,
directory, environment profile) the approval is bound to, its cache, a restart
between question and answer, and the job started under the id of the call. Part
`jobs` of `agents`: two calls, two directories, two profiles, one restart, a cache
of one intent.

Observed: the working directory of a session is kept in memory, so after a restart
the approval of a command in the default directory no longer matches and is refused
for good (it fails closed); likewise after a change of the environment profile.

The three parts share two properties:

| property | says |
|---|---|
| `RunsAsApproved` | what runs after an approval is what was approved, and a resumed turn is refused only if something changed: for a turn's own tools, deferred ones and jobs |
| `ShownAsTheyAre` | the wire of a turn shows the live tools as they are; a resumed run shows the selection of the paused one |

## Coding workspace: `CodingWorkspace`

Read, write, edit and shell on two files, inside a tool call with its approval of a
diff, with the change tracker and the undo of a run. A text is a sequence of lines
with symbols for binary content and carriage returns; every write gives a new
modification time; somebody else may change any file at any moment. Part
`workspace` of `agents`: five workspaces with one or two sessions and the bounds of
the tracker at their edge.

`NoUnseenLoss`: the tools destroy no text of somebody else that the session has not
read, except that an undo takes an edit made during one of the run's tool calls for
the run's own; they put in place what the person was shown; and an undo that reports
success returned the files.

Observed: undoing a run that touched a file with carriage returns always reports a
conflict; an outsider's edit during a tool call is attributed to the run and undone
with it; changes of background tasks, of binary and large files and of files beyond
the tracker's maximum are not tracked; a lost lease skips the recording; there is a
window between the freshness check and the write.

## Tool output: `ToolOutput`

The projection of long outputs, the pages of `context_content_read` with their
binary search over the serialized size, its refusal of reads that make no progress,
and the compaction of pages that were shown. Bytes are of four kinds: plain,
escaped by JSON, and the two halves of a character. Part `output` of `agents`:
three sites with outputs of up to nine bytes, up to three reads, one store failure.
On two of them the host has the output manager; on the third it has not, and the
model is shown a preview without a request to read on.

`ReadsWhole`: a reader that follows the pages reads every byte in order, and keeps
its place when earlier pages are compacted.

Observed: the size of a page is not monotone in its length, yet the search always
progresses; a read past the end that fails in the store is not counted as "no
progress"; a read refused twice stays refused until another read; a coalesced
Anthropic message that holds the current page is not compacted; the branch of
`_compacted_context_content` that restores a marker is not reachable from compiles
of a journal.

## Graph execution: `GraphJournal`, `GraphExecution`

`GraphJournal` has the two readers of a graph's journal as operators: the
checkpoint scan of `context/graph_checkpoint.py` and the preflight of
`sqlite_generation_rebase_v2.py`. `GraphExecution` has the hosts that write it, one
append per step, and the sidecar that tries to cut the chat over. The run inside
a step is reduced to the events that matter to the readers: requests, answers,
tool calls, terminals, limits, stops.

Part `graph` of the run `chats`, two hosts, six scenarios: two steps with a
question and a crash; one step that prompts, waits for a callback and calls a tool;
one step that asks twice; one step whose host may lose its lease or be stopped; two
steps whose hosts start from old readings as well; one step that waits for a larger
budget.

| property | says |
|---|---|
| `JournalStaysRebasable` | steps follow each other's seals and seals say what the runs recorded, in every scenario; while a graph is orderly the preflight does not find its journal incompatible, between the two appends of `start_step` apart (`HalfStarted`) |
| `ReadersAgree` | while a graph is orderly the two readers agree: unless a question or a tool call is open, the preflight lets a chat go exactly when the scan says the graph is over |
| `CutOnlyWhenDead` | while it is orderly, a graph is cut over only when no run of it will record anything more |

A graph is orderly as long as no host starts from a stale reading, none waits for a
larger budget, no running host has lost its lease and nobody has stopped the graph
(`Orderly`). Each of these puts an event behind a terminal, or a second terminal on an
attempt (one of them is a finding), and the readers are not written for that. No liveness is checked
here: the guards of a host's steps are scans of the journal, and the fairness graph
is out of TLC's reach at useful bounds.

## Chat generations: `ChatGenerations`

One SQLite database with the rows of four services. Each operation is one
transaction, with the request chosen freely from identifiers (any earlier reading
of the heads is such a request). A request that is refused, or answered from its
receipt, changes no row and is no step; that an answer can still be found is part
of `StaysServiceable`. `Services` selects what a host uses, because the rebase
declares itself exclusive with `advance` and the legacy bootstrap. Identifiers are
numbers; of the unused ones a request takes the least, because they differ in
nothing.

A deletion is modelled for the tables of these services: its scope, the check that
the scope has not changed, the rows it removes and the tombstone.

Part `chats` of `chats`, four sites: one chat with three generations and five
events; two chats that compete for two executions; one chat served by all four
services; one whose history is bootstrapped, at any time, and that nobody advances.

| property | says |
|---|---|
| `Lineage` | the generations of a chat are one line that its head ends; a binding names the generation of its revision; imported events stay where their manifest says |
| `StaysServiceable` | a chat that the rebase alone serves can always be read and deleted, and every rebase it accepted is answered with its receipt |
| `NotResurrected` | where no host uses `advance`, nothing of a deleted chat comes back |

## Curator: `MemoryWorkspace`, `Curator`

`MemoryWorkspace` has the entry tree with its revision checks and operation
receipts as operators on one record; `Curator` has candidates, jobs, claims,
reviews, the workers and the user. The model call inside a worker is a free choice
between apply, review and reject. A worker checks its fence in one transaction and
writes in the next. What a runner reports is not compared with the workspace: it may
name an entry or a review that nobody has written (`Reports`). Isolation
lists at most `Limit` + 1 candidates.

Part `curator` of `chats`, three sites: three completions of one root run race for
one candidate, with retries; two candidates for one path; one candidate while the
user edits the workspace. Two workers, two operation ids, jobs of at most two
candidates.

| property | says |
|---|---|
| `SnapshotsAgree` | every job carries the current rows of its candidates, which belong to no other job |
| `AppliedOnce` | nothing of a candidate is in the workspace unless a job has it, and without retryable failures a candidate creates at most one entry |
| `DecidedAsReviewed` | an entry is replaced only as it was reviewed, only the latest claim completes a job, and outcomes are final |

Effects are written once only without retryable failures: after a retry the
effect's operation id changes with the binding revision, and an entry that the
user moved in the meantime is written again. Curator liveness is not checked; the
host decides when to call `process_next`.

Workers, operation ids, chats, executions and hosts are interchangeable and the
parts share model values, so one permutation set serves as symmetry for the run.

## Memory plane: `MemoryWorkspace`, `MemoryPlane`

The workspace service of a chat and one long-term namespace, its full-text and
vector indexes, paged listings, hybrid search, the pinned task state and promotion
behind a confirmation. Every SQLite transaction is one step; a caller reads in one
and writes in another. Part `plane` of the run `memory`, seven plans: listings and
links against a changing workspace; the full-text index with outages and restarts,
in one process and in two that have the database open; the vector index with its watermark; task-state updates; promotions of a note that
is still edited; two decisions on one proposal.

| property | says |
|---|---|
| `ReadsAreWhole` | an index that says it is ready has every live entry, with several stores open until one of them has written without its index; a listing read to its end shows every entry that stayed in place, once |
| `WritesStand` | every accepted task-state update was applied to what its caller saw; a promotion is what the user confirmed |

Observed: `list_children` and `list_projection_points` check the revision and read
the rows in different transactions; the marker of an unavailable index is best
effort; a store that writes without its index while another store has the database
open can leave a ready marker over missing rows, until the index is built anew; a confirmation consumed before a crash leaves its proposal pending; a retry
of `propose` or `decide` after a success that was not heard of may conflict.

## Context compiler: `ContextProjection`, `ContextCompile`

`ContextProjection` is what one model call is shown of a snapshot of the journal:
which events project to messages, what a checkpoint replaces, reduction to the
budget with the previews that results are compacted to under pressure
(`Compacted`), and the coordinator's checks. `ContextCompile` is the two-pass compile:
request, coordinator, stored checkpoints and builds, one stored write per step, with
the events the run appends in between. Part `context` of `memory`, three chats: a
growing chat whose later turns need checkpoints; two tool calls at a time with a
question to the person and two crashes; a graph turn of two steps and turns after it.

`BuildsAreWhole`: every build shows each message of the chat once and fits its
budget, and a compile repeated after a crash agrees with the build it finds unless
the chat went on.

Observed: a recompile with the same trigger after the journal advanced raises
`ContextConflictError` for good; handoffs, artifact references and resolved
interactions accumulate until `_SEMANTIC_HISTORY_LIMIT`; a superseded run that
commits its checkpoint late makes the next build conflict.

## History reduction: `HistoryReduction`

Without a context compiler, the transcript is shortened in stages: budget of a
batch, microcompaction, deferred compaction, summary, sliding window, last-N. The
model has the message shapes of each provider, sizes instead of text, and who
shortened what last. Part `history` of `memory`: four sites (Anthropic, OpenAI,
Ollama and Gemini; with pictures, with a tool that has its own optimizer, with
small windows and summaries that fail).

`SeenWhole`: the model sees every result whole before it is shortened, no stage
separates a result from its call, and the results of a batch fit its budget or
cannot be any shorter. The first two are stated for transcripts without pictures: a Gemini result with an
image, or an Ollama screenshot, is a message of its own and splits a turn.

Observed: `ToolPairSafety` returns nothing when the count of messages is unchanged,
does not know OpenAI items and Gemini parts, and is not among the default
components; `computer_call_output` is never budgeted; deferred compaction of rich
Anthropic content writes a bare dictionary; the savings of microcompaction count
image bytes; window and last-N may drop turns that the summary does not cover;
`estimate_tokens` ignores Ollama tool calls beside content.

## Memory commit: `MemoryCommit`

`commit_messages` with each external call (vector store, profile store, extractor,
session store) as a step, between which a lease may be lost and a process may die.
Part `commit` of `memory`: two workers that add a turn, an unanswered question, a
continuation or a turn with a tool result, up to four messages, one trouble.

`NoTurnPassedOver`: the cursors of the vector index and of the fact extraction never
pass a turn that was answered and not handled.

Observed: a refused or crashed commit leaves its turns in the vector index; a turn
indexed at the tail and extended later loses its rest; load, extract and save of the
profile are not protected against another commit; `_split_turns` takes an Anthropic
tool result for the start of a turn.

## Run bundles: `BundleUsage`, `RunBundle`

`BundleUsage` converts what each provider reports (all of it, part of it, aliases
that disagree, legacy counts, nothing) into usage with unknown counters, and prices
it by a pinned catalog. `RunBundle` has the ledgers of a tree of runs, the bundles
they publish, and their merge in any order, repeatedly and after a completion
repair, with events kept apart over one size and a summary over another. Part
`bundle` of `memory`: five run trees of up to three runs, each with one or two
revisions.

`CompleteIsExact`: every counter a published total claims to know is the sum of what
the calls of the tree really used, each counted once, and a later revision accounts
for everything an earlier one did.

Observed: a newer bundle of a child with another status raises "one child run id has
conflicting topology"; `merge_run_bundle_values` requires the identity of the root,
so a subagent run with a repair policy always raises; merging a root bundle with
events apart drops them; a compact projection at a revision that did not advance is
refused after a full bundle; `from_legacy` puts inclusive OpenAI input into
`input_uncached`.

# Fairness

Liveness is checked in two runs, each under the fairness the code's own scheduling
gives:

- jobs (`WorkEnds`): every wrapper and every supervisor call in progress keeps
  taking steps (threads of the operating system); somebody polls, because the owner
  of the job waits for it; a spawn that is possible again and again succeeds (strong
  fairness, because the guard of a spawn is re-read on every poll); and an age that
  is compared again and again is eventually found too old (`AgesGrow`), because time
  passes. A crashed process takes no step and nobody is obliged to crash.
- provider calls (`WorkEnds`): a process that is not crashed goes on with its call.
  Nobody waits for another process, so nothing more is needed.
- shell (`TasksServed`): the watcher thread and a call in progress go on. Nothing is
  assumed about the command itself, which may run for ever until it is killed, nor
  about readers.

# Proofs

Eight modules prove, for every set of processes, wrappers, calls, requests, chats
and sites and every bound, what the runs check on small ones. Each result rests on
an inductive invariant; the property alone is never inductive, because it says
nothing of what a process in the middle of an operation has read. All steps are
checked by tlapm with its SMT, Zenon and LS4 backends; no step is left open.

A proof has one lemma per action (or per group of actions that touch the same
fields). What a step may do to the rest of the state is stated once for the module
(`StepKeeps`, `OthersKept`, `SubjectsKept`, `SessionStep`, `WriteKeeps`, ...) and
cited, so that the lemma of an action only shows what is particular to it.

## Durable jobs: `DurableJobsSafety`, `DurableJobsRefinement`

Assumptions: wrapper ids are naturals (a stand-in for uuids), `None` is no pid,
claim or number, every runtime has a profile, sites are well formed.

`JobInv` is the conjunction of

- `TypeInv`: `TypeOK` with what each position of a supervisor call implies about
  what it has read (a call about to delete a claim has read one);
- `ClaimInv`: a claim names a wrapper that has started and its pid; a supervisor
  about to delete a claim has seen its writer gone; a wrapper between
  `claim_worker` and its exit holds the claim. Without this nothing says that the
  second wrapper is turned away;
- `LaunchInv`: the wrapper of a launched command still has its name on the claim,
  and the job is past QUEUED from the STARTING receipt on; while a wrapper owns the
  job no known outcome is recorded.

`GivenUpInv` adds that no wrapper passes the STARTING receipt of a job that was
given up while queued. `RefInv` adds what the refinement needs: `BirthInv` (before
the cursor is written nobody knows the job), `CallInv` (what the snapshot of a call
is at each of its steps, and that the suspicion a call is about to act on is the
evidence it has just read) and `StageInv` (the status is the stage of the wrapper
that holds the claim, or "unknown").

| theorem | states |
|---|---|
| `TypeCorrect` | `[]TypeOK` |
| `OneLaunch` | `[]AtMostOneLaunch` |
| `StatusTruthful` | `[]StatusIsTrue` |
| `TerminalForever` | a terminal `state.json` is never rewritten |
| `ClaimsOfTheLivingStay` | `OnlyDeadClaimsCleared` |
| `RefInvariant` | `[]RefInv` |
| `DirectoryCompletes` | `[]FilesRecoverable` |
| `GivesUpOnEvidence` | `GivesUpOnlyUnchangedEvidence` |
| `RefinesCommandOnce` | `Spec => ImplementsCommandOnce`: initial states map to initial states, and every step to a step of `CommandOnce` or a stutter |

## Execution lease: `ExecutionLeaseSafety`

Assumptions: a positive time to live, bounds that are naturals, well-formed sites,
`None` is no owner and no number. The invariant has `LeaseInv` (the active lease is
the last one issued, the last fenced write was under an issued token), `GuardInv`
(every guard's token was issued, and the last token belongs to one owner), `SoleInv`
(a process without a duplicate has its owner's lease only while it works under it),
`SnapInv` (a process that knows the current revision knows whether the checkpoint
asks) and `Current` (of a process that holds the lease alone and has written under
it: the checkpoint is its own, or none, or one that asks; and what it knows is
current unless it asks). `HolderIsCurrent` needs the first half of `Current`: the
writers without a lease touch only a checkpoint that asks or one of a cancelled
attempt, so neither can pass a holder whose checkpoint is its own and settled.

| theorem | states |
|---|---|
| `LeaseInvariant` | `[]IInv` |
| `WritesInTokenOrder` | `FencedInOrder` |
| `AnswersOwned` | `AnswerStillOwned` |
| `HolderNotOvertaken` | `[]HolderIsCurrent` |

## Durable interaction: `DurableInteractionSafety`

Assumption `NamesFit`: the markers `None` and `Stopped` are no answers, ids or
attempts, every client has an answer, memory starts empty. The invariant: `Good` (the
session record by itself: checkpoint and journal bound, ids older than the record),
`AnswersInv` (every answer that was told, acted on or resumed from is in the journal),
`CallsInv` (a compare-and-swap that will win finds the state it was computed from) and
`RunsInv` (a run whose memory is current, and whose bootstrap was not overtaken by a
cancellation, resumed an interaction that was not abandoned). Every write is shown once to keep entries and receipts (`Keeps`).

| theorem | states |
|---|---|
| `InteractionInvariant` | `[]IInv` |
| `JournalMovesWithCheckpoint` | `[]JournalBound` |
| `ActsOnTheRecordedAnswer` | `[]OneAnswer` |
| `AbandonedIsStopped` | `[]AbandonedRunCannotWrite`, for every run whose bootstrap did not read the revision after the abandonment |

## Tool execution: `ToolExecutionSafety`

Assumption `BatchFit`: the calls of a batch are distinct, owners are no `None`. The
invariant: `CallOk` (the receipts of a call: a seal or result has a start, the start
has the approval that was given, artifacts of a receipt exist, at most one effect and
it is the started one), `PlaceOk` and `HoldOk` (what a process holds at each label
under each disposition), `Exclusive` (one process at most is authorized to run a
call) and that what was delivered is recorded. `Exclusive` is what makes `EffectOnce`
inductive: it is the append of `tool.started`, not the lease, that admits one
process, so it holds also for two processes with one owner id.

| theorem | states |
|---|---|
| `ToolInvariant` | `[]IInv` |
| `HandlerRunsOnce` | `[]EffectOnce` |
| `RecordedIsSealed` | `[]SealBindsResult` |
| `LostOutcomeIsFinal` | `LostStaysUncertain`: a call whose outcome was lost is neither authorized, run nor given a result later |

## Provider turn: `ProviderTurnSafety`

Assumption `SitesFit`: well-formed sites, a natural bound on ordinals, `None` is no
request, process or receipt. The invariant: `WireInv` (the artifact binds the
receipts and they bind the leases to one envelope), `WalkOk`/`OwnOk`/`DoneOk` (what a
process knows of the subject it is at), `LeaseOk`/`FailedOk`/`ResultOk` (what the
store holds of a subject, with `Earned`: everything before it failed in a way that
allows it), `OneOwner`, `LedgerInv` and `HistoryInv`. `OneResult` follows because a
completed subject never allows the next one, so two results would earn each other.

| theorem | states |
|---|---|
| `ProviderInvariant` | `[]IInv` |
| `SentOnce` | `[]SendOnce` |
| `RetriesFollowFailures` | `[]RetriesAreEarned` |
| `SendsWait` | `SendsOnlyWhenSettled`: a send starts only when every other subject was never claimed or failed in a way that allows going on |

## Chat generations: `ChatGenerationsSafety`

Assumptions `SitesFit`, `NoneFits`. The invariant is `Lineage`, `RangesFit` (an import
fills a row), `NotResurrected` and, for hosts that only rebase, `Serviced`: both heads
of a chat are those of one manifest, every manifest stands with the rows its rebase
wrote (`Backed`), every operation has its manifest, and no two chats share an
execution. `StaysServiceable` itself only says that rows can be read; `Serviced` says
which rows there are, and that a rebase or a deletion of another chat leaves them.

| theorem | states |
|---|---|
| `ChatInvariant` | `[]IInv` |
| `OneLineOfGenerations` | `[]Lineage` |
| `DeletedStaysDeleted` | `[]NotResurrected` |
| `ChatsStayServiceable` | `[]StaysServiceable` |

## Curator: `CuratorSafety`

Assumptions `SitesFit`, `NoneFits`. The invariant: `Tables` (job and candidate rows
agree, no candidate is in two jobs, and the status of a job says where its candidates
stand), `Claimed`, `Requested` and `Reviewed` (a receipt of a claim names a lease of
its job, a review names a candidate of its job and an entry on file), `Working` (what
a worker holds is of a job on file), `Applied` (every entry of a candidate is of one
that has a job) and `Archive` (heads and receipts have their revision on file, no two
live entries share a path and, without retryable failures, the entry id a candidate
creates is that of its second binding). That last part is why `AppliedOnce` holds
when a late worker writes after its job was taken over: without retries the binding
revision of a candidate is 2 whenever its job is leased, so every worker derives the
same entry id.

| theorem | states |
|---|---|
| `CuratorInvariant` | `[]IInv` |
| `JobsAgree` | `[]SnapshotsAgree` |
| `WritesAreClaimed` | `[]AppliedOnce` |
| `ReviewsDecide` | `DecidedAsReviewed` |

The run `chats` checks these formulas on the instance of `Curator` in `MCChats`.

The assumptions that are stated as definitions (`NamesFit`, `BatchFit`, `SitesFit`,
`NoneFits`) are assumed in the MC modules of the runs, so TLC evaluates them on the
checked instances.

## Model-checked only

- `WorkEnds` and the second half of `TasksServed`: liveness under fairness and
  ENABLED are outside the prover.
- `LoopDiscipline` for `ToolExecution` (`TransitionsOnce`): it counts the applied
  transitions with `SelectSeq`, and what a recursive function computes needs
  induction over data, which the prover's backends cannot instantiate.
- `CompleteIsExact`, `SeenWhole`, `ReadsWhole`, `BuildsAreWhole` and `ShownAsTheyAre`:
  they rest on sums, sorts, folds and recursive operators over sequences, for the
  same reason.
- `JournalStaysRebasable`, `ReadersAgree`, `CutOnlyWhenDead`, `ReadsAreWhole`,
  `WritesStand`, `NoTurnPassedOver`, `AccountsAreTrue`, `ChildrenRunOnce`, `RunsAsApproved`,
  `NoUnseenLoss`: within the prover's reach as far as is known, and not proved yet.
  What stands in the way is size: their inductive invariants have to say what every
  position of every process implies, as the ones above do.

# Findings

Each is a run that is expected to fail. `PROJECT.json` quotes the line of the
repository that the run contradicts.

- `provider_fallback`: a previous-response rejection of a retried send is classified
  as safe to persist, and then refused by the coordinator, so its lease stays STARTED
  and every later call ends as uncertain.
- `graph_second_terminal`: a host that starts a step which is complete by the time it
  holds the lease leaves a second terminal, and no rebase accepts the journal any more.
- `chat_resurrected`: the guard of the host-generation tables is installed only when
  the deletion service is opened; with tables created later, `advance` gives a deleted
  chat a new generation.
- `history_evidence`: when the summary fails, the sliding window still removes turns
  that nothing replaces, although the documentation says the original context remains.
- `subagent_depth`: every child run starts with a fresh state whose lineage has one
  element, so `max_depth` does not stop a child from delegating further.
- `subagent_follow_up`: the second message to a thread reuses the run id of the first;
  the child answers, the two bundles conflict, and the message is dropped.

# Hazards without a property

`PROJECT.json` lists where this code is exposed. Two hazards have no property: a wall
clock set back below `created_at_ms` of a job (the models compare ages as free
Booleans and keep no timestamps), and a graph that can never advance (the fairness
graph of `GraphExecution` is too large).

# Not modelled

The SDK calls of the provider adapters, the Qdrant service, web and language-server
I/O of the toolkits, terminal rendering, schema classes and the construction of
canonical JSON (its identity is what the models use); the assembly of agents and
toolkits, which keeps no state during a run; provider context assembly, events,
skills and character, which are pure conversions; the environment profiles, whose
identity is an input of the job modules; and the plan file, which is loaded, changed
and saved without a lock. Of the parts that are modelled, `PROJECT.json` says what is
left out: log reading, completion markers and retention of jobs; provider-native tool
calls; nested plugins behind `tool_execute_deferred`; the merge of state deltas of
concurrent harnesses; retrieval and ranking; quotas and garbage collection of
artifacts. Data inside events and messages is abstracted to what the properties
distinguish.
