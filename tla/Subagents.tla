------------------------------ MODULE Subagents ------------------------------
(***************************************************************************)
(* A tree of agent runs.  Every run may call the subagent tools of         *)
(* subagents/plugin.py; the children of a call run as jobs (one job, or    *)
(* the thread pool of a worker batch), each child is itself a run with a   *)
(* fresh SubagentState.  With conf.durable the Context V2 runtime records  *)
(* the input and the result of every child, and a call interrupted by a    *)
(* crash may be executed again.                                            *)
(*                                                                         *)
(* A run is named by its path: <<>> is the root, Append(n, k) the k-th     *)
(* child the state of n counted.  Messages, prompts and templates are      *)
(* left out; an item of a blackboard is its author and its number.         *)
(***************************************************************************)
EXTENDS Naturals, Sequences, SequencesExt, FiniteSets, FiniteSetsExt, TLC

CONSTANTS Confs,      \* policies, tools and bounds: conf.turns bounds the model turns
                      \* of the whole tree, conf.nest the level of runs that call
          Batches,    \* the task lists a worker batch may be given
          MaxCrashes

VARIABLES conf, agents, turns, execs, inputs, started, results, prepared, latched,
          snapshot, crashes, late, broken, reported

memory == <<agents, prepared, latched>>
durable == <<inputs, started, results, snapshot>>
history == <<execs, late, broken, reported>>
vars == <<conf, memory, durable, history, turns, crashes>>

Root == <<>>

NoCall == [kind |-> "none"]

----------------------------------------------------------------------------
(* SubagentState and its merges.                                          *)

\* What _ensure_state makes of the empty state a run starts with.
_ensure_state(n) ==
    [lineage |-> <<n>>, counter |-> 0, threads |-> <<>>, mail |-> <<>>, board |-> <<>>,
     bundles |-> <<>>, frames |-> {}, batches |-> {}, handoffs |-> <<>>, blocked |-> 0]

\* One more child of this run: [ok, child, st].
_next_subagent_identity(n, st) ==
    LET child == Append(n, st.counter + 1)
    IN  [ok |-> /\ Len(st.lineage) <= conf.max_depth
                /\ st.counter < conf.max_children_per_parent
                /\ st.counter < conf.max_total_subagents,
         child |-> child,
         st |-> [st EXCEPT !.counter = @ + 1]]

\* Only a delegate and a handoff put the call into the identity of the run.
_build_child_run_id(kind, child, call) ==
    CASE kind \in {"delegate", "handoff"} -> <<"call", child, call>>
      [] kind = "message" -> <<"message", child>>
      [] OTHER -> <<"child", child>>

OpenThreads(st) ==
    {t \in DOMAIN st.threads : st.threads[t] \notin {"completed", "failed", "closed"}}

\* [ok, st]: only a new open thread is counted against the limit.
upsert_thread(st, t, status) ==
    [ok |-> \/ t \in DOMAIN st.threads
            \/ status \in {"completed", "failed", "closed"}
            \/ Cardinality(OpenThreads(st)) < conf.max_open_threads,
     st |-> [st EXCEPT !.threads = (t :> status) @@ @]]

\* A thread that exists, is known under this name, and is not closed.
require_thread(st, t) == t \in DOMAIN st.threads /\ st.threads[t] # "closed"

Mailbox(st, t) == IF t \in DOMAIN st.mail THEN st.mail[t] ELSE <<>>

append_message(st, t, call) ==
    [ok |-> t \in DOMAIN st.threads /\ Len(Mailbox(st, t)) < conf.max_mailbox_messages,
     st |-> [st EXCEPT !.mail = (t :> Append(Mailbox(st, t), call)) @@ @]]

append_board_item(st, item) ==
    [ok |-> Len(st.board) < conf.max_board_items,
     st |-> [st EXCEPT !.board = Append(@, item)]]

\* SubagentState.merged: boards are extended, a bundle is stored by its id; the
\* same revision with another content is a protocol error.
merged(st, items, run, exec) ==
    [ok |-> exec = 0 \/ run \notin DOMAIN st.bundles \/ st.bundles[run] = exec,
     st |-> [st EXCEPT !.board = @ \o items,
                       !.bundles = IF exec = 0 THEN @ ELSE (run :> exec) @@ @]]

\* Items, and the bundle of this execution, of a child that ended.
_merge_result_subagent_state(st, j) == merged(st, j.items, j.run, j.exec)

\* The question of a child that waits for a human is kept for the parent.
Clarified(st, j) ==
    IF j.status = "needs_clarification" THEN [st EXCEPT !.blocked = @ + 1] ELSE st

----------------------------------------------------------------------------
(* Jobs: one child of one call.                                           *)

Job(kind, child, call) ==
    [kind |-> kind, child |-> child, run |-> _build_child_run_id(kind, child, call),
     call |-> call, state |-> "queued", how |-> "none", status |-> "none",
     items |-> <<>>, exec |-> 0]

\* A task that fails before it runs: no task text, or a template that is not
\* parallel_safe.
Prebuilt(child) ==
    [Job("worker", child, 0) EXCEPT !.state = "done", !.how = "prebuilt", !.status = "failed"]

\* Identities are allocated for the whole batch before anything runs: [ok, st, jobs].
AllocateWorkers(n, st, tasks, call) ==
    LET Allocate(acc, task) ==
            LET id == _next_subagent_identity(n, acc.st)
            IN  CASE task = "empty" -> [acc EXCEPT !.jobs = Append(@, Prebuilt(n))]
                  [] task # "empty" /\ ~id.ok -> [acc EXCEPT !.ok = FALSE]
                  [] OTHER -> [acc EXCEPT !.st = id.st,
                                          !.jobs = Append(@, IF task = "unsafe"
                                                             THEN Prebuilt(id.child)
                                                             ELSE Job("worker", id.child, call))]
    IN  FoldLeft(Allocate, [ok |-> TRUE, st |-> st, jobs |-> <<>>], tasks)

Agent(n) ==
    [phase |-> "gate", st |-> _ensure_state(n), call |-> NoCall, next |-> _ensure_state(n),
     jobs |-> <<>>, failed |-> FALSE, timedOut |-> FALSE, begun |-> n = Root]

Live(n) == n \in DOMAIN agents /\ agents[n].phase \notin {"done", "raised"}

\* The job of the parent a running child belongs to.
JobOf(n) ==
    CHOOSE i \in DOMAIN agents[Front(n)].jobs :
        agents[Front(n)].jobs[i].child = n /\ agents[Front(n)].jobs[i].state = "running"

Ancestors(n) == {SubSeq(n, 1, k) : k \in 0 .. Len(n) - 1}

GuardNotWrapped(n) == TRUE

\* _assert_batch_active through every guard this run borrowed from its ancestors.
BatchActive(n) == \A a \in Ancestors(n) : ~agents[a].failed

\* The child callbacks on the way up capture an item once each.
CaptureBoardItem(ags, n, item) ==
    [a \in DOMAIN ags |->
        IF a \notin Ancestors(n) THEN ags[a]
        ELSE [ags[a] EXCEPT !.jobs =
                [i \in DOMAIN @ |->
                    IF /\ @[i].state = "running"
                       /\ IsPrefix(@[i].child, n)
                       /\ item \notin Range(@[i].items)
                    THEN [@[i] EXCEPT !.items = Append(@, item)] ELSE @[i]]]]

----------------------------------------------------------------------------
(* Tool calls.  An entry is [ok, next, jobs]; a refusal changes nothing.   *)

\* A child of its own identity; target, template and mode were resolved.
EnterDelegate(n, kind, call) ==
    LET id == _next_subagent_identity(n, agents[n].st)
    IN  [ok |-> id.ok, next |-> id.st, jobs |-> <<Job(kind, id.child, call)>>]

EnterHandoff(n, call) == EnterDelegate(n, "handoff", call)

\* The frame of a temporary handoff is pushed before the child runs.
EnterReturnHandoff(n, call) ==
    LET e == EnterDelegate(n, "return_handoff", call)
    IN  [e EXCEPT !.next.frames = @ \cup {e.jobs[1].run}]

EnterThread(n, call) ==
    LET e == EnterDelegate(n, "thread", call)
        open == upsert_thread(e.next, e.jobs[1].child, "running")
    IN  [e EXCEPT !.ok = @ /\ open.ok, !.next = open.st]

EnterMessage(n, t, call) ==
    LET sent == append_message(agents[n].st, t, call)
    IN  [ok |-> require_thread(agents[n].st, t) /\ sent.ok, next |-> sent.st,
         jobs |-> <<Job("message", t, call)>>]

EnterBatch(n, tasks, call) ==
    LET st == [agents[n].st EXCEPT !.batches = @ \cup {call}]
        alloc == AllocateWorkers(n, st, tasks, call)
    IN  [ok |-> alloc.ok, next |-> alloc.st, jobs |-> alloc.jobs]

\* Every entry a turn of n can make, as [kind, arg].
Requests(n) ==
    {[kind |-> k, arg |-> Root] : k \in conf.tools \cap {"delegate", "handoff", "return_handoff",
                                                         "thread"}}
    \cup (IF "message" \in conf.tools
          THEN {[kind |-> "message", arg |-> t] : t \in DOMAIN agents[n].st.threads} ELSE {})
    \cup (IF "worker" \in conf.tools
          THEN {[kind |-> "worker", arg |-> b] : b \in Batches} ELSE {})

Enter(n, r, call) ==
    CASE r.kind = "delegate" -> EnterDelegate(n, "delegate", call)
      [] r.kind = "handoff" -> EnterHandoff(n, call)
      [] r.kind = "return_handoff" -> EnterReturnHandoff(n, call)
      [] r.kind = "thread" -> EnterThread(n, call)
      [] r.kind = "message" -> EnterMessage(n, r.arg, call)
      [] OTHER -> EnterBatch(n, r.arg, call)

----------------------------------------------------------------------------
(* The end of a call: [ok, st] from the state next and the finished job.   *)

Reported(j) == j.how \in {"result", "error", "recovered"}

FailedChildDropped(next, j) ==
    LET m == _merge_result_subagent_state(next, j)
    IN  IF j.how = "error" THEN [ok |-> TRUE, st |-> next] ELSE [m EXCEPT !.st = Clarified(@, j)]

\* Items and bundle are merged from a result and from a failure alike.
FinishDelegate(next, j) ==
    LET m == _merge_result_subagent_state(next, j)
    IN  [m EXCEPT !.st = Clarified(@, j)]

\* The thread takes the status of its child; a failed child fails the thread.
FinishThread(next, j) == FinishDelegate(upsert_thread(next, j.child, j.status).st, j)

FinishMessage(next, j) == FinishThread(next, j)

\* The frame is taken off whether the child returned or failed.
FrameLeftOnFailure(next, j) ==
    LET m == FinishDelegate(next, j)
    IN  [m EXCEPT !.st.frames = IF j.how = "error" THEN @ ELSE @ \ {j.run}]

FinishReturnHandoff(next, j) ==
    LET m == FinishDelegate(next, j) IN [m EXCEPT !.st.frames = @ \ {j.run}]

FinishHandoff(next, n, j) ==
    LET m == FinishDelegate(next, j)
        taken == [m.st EXCEPT !.lineage = Append(next.lineage, j.child),
                              !.handoffs = Append(next.handoffs, <<n, j.child>>)]
    IN  IF j.status = "completed" THEN [m EXCEPT !.st = taken] ELSE m

\* The results of a batch are merged in the order of its tasks.
FinishBatch(next, jobs, call) ==
    LET Merge(acc, j) ==
            IF ~Reported(j) THEN acc
            ELSE LET m == FinishDelegate(acc.st, j) IN [m EXCEPT !.ok = @ /\ acc.ok]
    IN  FoldLeft(Merge, [ok |-> TRUE, st |-> [next EXCEPT !.batches = @ \ {call}]], jobs)

Finish(n) ==
    LET a == agents[n] j == a.jobs[1]
    IN  CASE a.call.kind = "delegate" -> FinishDelegate(a.next, j)
          [] a.call.kind = "handoff" -> FinishHandoff(a.next, n, j)
          [] a.call.kind = "return_handoff" -> FinishReturnHandoff(a.next, j)
          [] a.call.kind = "thread" -> FinishThread(a.next, j)
          [] a.call.kind = "message" -> FinishMessage(a.next, j)
          [] OTHER -> FinishBatch(a.next, a.jobs, a.call.id)

----------------------------------------------------------------------------
(* The end of a child: its job takes the result.                          *)

TimeoutHidesFailure(p, i, how, status) ==
    LET j == agents[p].jobs[i]
        kept == IF j.how = "timeout" THEN "timeout"
                ELSE IF agents[p].failed /\ how # "durable" THEN "aborted" ELSE how
    IN  [agents[p] EXCEPT
            !.jobs[i] = [j EXCEPT !.state = "done", !.how = kept,
                                  !.status = IF kept = "timeout" THEN @ ELSE status],
            !.failed = @ \/ (how = "durable" /\ j.kind = "worker")]

\* A durable failure raises the failure event of the batch it happens in.
JobEnded(p, i, how, status) ==
    LET j == agents[p].jobs[i]
        kept == IF j.how = "timeout" /\ how # "durable" THEN "timeout"
                ELSE IF agents[p].failed /\ how # "durable" THEN "aborted" ELSE how
    IN  [agents[p] EXCEPT
            !.jobs[i] = [j EXCEPT !.state = "done", !.how = kept,
                                  !.status = IF kept = "timeout" THEN @ ELSE status],
            !.failed = @ \/ (how = "durable" /\ j.kind = "worker")]

\* Run n ends; the root keeps how it ended, a child leaves its job behind.
RunEnded(ags, n, how, status) ==
    IF n = Root
    THEN [ags EXCEPT ![Root].phase = IF how = "durable" THEN "raised" ELSE "done",
                     ![Root].call = NoCall, ![Root].jobs = <<>>]
    ELSE (Front(n) :> JobEnded(Front(n), JobOf(n), how, status))
         @@ [m \in DOMAIN ags \ {n} |-> ags[m]]

\* The completion sink keeps the result of a child that returned while its batch
\* was still active.
Completion(n, how, status) ==
    LET j == agents[Front(n)].jobs[JobOf(n)]
    IN  IF n = Root \/ ~conf.durable \/ how # "result" \/ agents[Front(n)].failed THEN <<>>
        ELSE j.run :> [call |-> j.call, status |-> status, items |-> j.items, exec |-> j.exec]

\* The input of this run was persisted for this very call.
_has_exact_persisted_input(j) == j.run \in DOMAIN inputs /\ inputs[j.run] = j.call

StartedRunsAgain(j) == j.run \in DOMAIN results /\ ~_has_exact_persisted_input(j)

\* A completion needs its input; a run that started without one fails closed.
RecoveryFails(j) ==
    IF j.run \in DOMAIN results THEN ~_has_exact_persisted_input(j) ELSE j.run \in started

\* One run is bound to one call for the life of the process.
_register_prepared_subagent_input(j) ==
    IF conf.durable THEN (j.run :> j.call) @@ prepared ELSE prepared

\* The sink refuses the job before the child runs.
PrepareFails(p, j) ==
    \/ p \in latched
    \/ j.run \in DOMAIN prepared /\ prepared[j.run] # j.call
    \/ RecoveryFails(j)

\* The bootstrap of the child persists its input before the first turn.
persist_subagent_input(j) == IF conf.durable THEN (j.run :> j.call) @@ inputs ELSE inputs

----------------------------------------------------------------------------
(* Steps.                                                                 *)

Init ==
    /\ conf \in Confs
    /\ agents = (Root :> Agent(Root))
    /\ turns = 0 /\ crashes = 0
    /\ execs = <<>> /\ late = <<>> /\ broken = {} /\ reported = {}
    /\ inputs = <<>> /\ started = {} /\ results = <<>> /\ prepared = <<>> /\ latched = {}
    /\ snapshot = _ensure_state(Root)

\* The effect gate of the kernel: the guard is asserted, then the turn is made.
Gate(n) ==
    LET p == Front(n) i == JobOf(n) run == agents[p].jobs[i].run
        exec == 1 + (IF run \in DOMAIN execs THEN execs[run] ELSE 0)
    IN  /\ Live(n) /\ agents[n].phase = "gate"
        /\ IF ~BatchActive(n)
           THEN /\ agents' = RunEnded(agents, n, "error", "failed")
                /\ UNCHANGED <<started, execs>>
           ELSE IF agents[n].begun
           THEN /\ agents' = [agents EXCEPT ![n].phase = "turn"]
                /\ UNCHANGED <<started, execs>>
           ELSE /\ agents' = [agents EXCEPT ![n].phase = "turn", ![n].begun = TRUE,
                                            ![p].jobs[i].exec = exec]
                /\ execs' = (run :> exec) @@ execs
                /\ started' = IF conf.durable THEN started \cup {run} ELSE started
        /\ UNCHANGED <<conf, turns, crashes, late, broken, reported, inputs, results, prepared,
                       latched, snapshot>>

\* A turn made after the batch of an ancestor failed.
CountLate(n) ==
    late' = IF \A a \in Ancestors(n) : ~agents[a].failed THEN late
            ELSE (n :> 1 + (IF n \in DOMAIN late THEN late[n] ELSE 0)) @@ late

AtTurn(n) == Live(n) /\ agents[n].phase = "turn"

Spend(n) == turns < conf.turns /\ turns' = turns + 1 /\ CountLate(n)

\* execute: the handler runs until its children are queued; an error of the
\* handler becomes a tool result and leaves the state as it was.
Call(n) ==
    /\ AtTurn(n) /\ Spend(n) /\ Len(n) <= conf.nest
    /\ \E r \in Requests(n) :
        LET e == Enter(n, r, turns + 1)
        IN  agents' = [agents EXCEPT ![n] =
                IF ~e.ok THEN [@ EXCEPT !.phase = "gate"]
                ELSE [@ EXCEPT !.phase = "calling", !.next = e.next, !.jobs = e.jobs,
                               !.call = [kind |-> r.kind, arg |-> r.arg, id |-> turns + 1],
                               !.failed = FALSE, !.timedOut = FALSE]]
    /\ UNCHANGED <<conf, crashes, execs, broken, reported, prepared, latched, durable>>

Saved(n, st) == snapshot' = IF n = Root /\ conf.durable THEN st ELSE snapshot

\* write_agent_board: on the own board, and seen by the callbacks above.
_write_agent_board(n) ==
    LET item == <<n, turns + 1>>
        put == append_board_item(agents[n].st, item)
        st == IF put.ok THEN put.st ELSE agents[n].st
        wrote == [agents EXCEPT ![n].phase = "gate", ![n].st = st]
    IN  /\ AtTurn(n) /\ "board" \in conf.tools /\ Spend(n)
        /\ agents' = IF put.ok THEN CaptureBoardItem(wrote, n, item) ELSE wrote
        /\ Saved(n, st)
        /\ UNCHANGED <<conf, crashes, execs, broken, reported, inputs, started, results,
                       prepared, latched>>

_close_agent_thread(n, t) ==
    LET st == [agents[n].st EXCEPT !.threads[t] = "closed"]
    IN  /\ AtTurn(n) /\ "close" \in conf.tools /\ Spend(n)
        /\ t \in DOMAIN agents[n].st.threads
        /\ agents' = [agents EXCEPT ![n].phase = "gate", ![n].st = st]
        /\ Saved(n, st)
        /\ UNCHANGED <<conf, crashes, execs, broken, reported, inputs, started, results,
                       prepared, latched>>

\* A run ends: a child never asks a human and never gets more iterations.  One that
\* stops at a question is needs_clarification, one that stops at an approval nobody
\* can give is awaiting_interaction.
End(n, how, status) ==
    /\ AtTurn(n)
    /\ CountLate(n)
    /\ agents' = RunEnded(agents, n, how, status)
    /\ results' = Completion(n, how, status) @@ results
    /\ broken' = IF how = "durable" THEN broken \cup {n} ELSE broken
    /\ UNCHANGED <<conf, turns, crashes, execs, reported, inputs, started, prepared,
                   latched, snapshot>>

\* The result is there, but writing it to the parent fails.
RecordFails(n) ==
    /\ AtTurn(n) /\ n # Root /\ conf.durable /\ ~agents[Front(n)].failed
    /\ CountLate(n)
    /\ agents' = RunEnded(agents, n, "durable", "failed")
    /\ latched' = latched \cup {Front(n)}
    /\ broken' = broken \cup {n}
    /\ UNCHANGED <<conf, turns, crashes, execs, reported, inputs, started, results,
                   prepared, snapshot>>

Running(p) == {i \in DOMAIN agents[p].jobs : agents[p].jobs[i].state = "running"}

\* _run_guarded and _run_child up to agent.run.
StartJob(p, i) ==
    LET a == agents[p] j == a.jobs[i]
    IN  /\ Live(p) /\ a.phase = "calling"
        /\ j.state = "queued" /\ Cardinality(Running(p)) < conf.max_parallel_workers
        /\ \/ /\ a.failed
              /\ agents' = [agents EXCEPT ![p] = JobEnded(p, i, "aborted", "failed")]
              /\ UNCHANGED <<broken, inputs, prepared, latched>>
           \/ /\ ~a.failed /\ conf.durable /\ PrepareFails(p, j)
              /\ agents' = [agents EXCEPT ![p] = JobEnded(p, i, "durable", "failed")]
              /\ broken' = broken \cup {j.child} /\ latched' = latched \cup {p}
              /\ UNCHANGED <<inputs, prepared>>
           \/ /\ ~a.failed /\ conf.durable /\ ~PrepareFails(p, j) /\ j.run \in DOMAIN results
              /\ agents' = [agents EXCEPT ![p].jobs[i] =
                    [@ EXCEPT !.state = "done", !.how = "recovered",
                              !.status = results[j.run].status,
                              !.items = results[j.run].items, !.exec = results[j.run].exec]]
              /\ prepared' = _register_prepared_subagent_input(j)
              /\ UNCHANGED <<broken, inputs, latched>>
           \/ /\ ~a.failed
              /\ conf.durable => ~PrepareFails(p, j) /\ j.run \notin DOMAIN results
              /\ agents' = (j.child :> Agent(j.child)) @@ [agents EXCEPT ![p].jobs[i].state = "running"]
              /\ inputs' = persist_subagent_input(j)
              /\ prepared' = _register_prepared_subagent_input(j)
              /\ UNCHANGED <<broken, latched>>
        /\ reported' = {r \in reported : r[1] # j.child}
        /\ UNCHANGED <<conf, turns, crashes, execs, late, started, results, snapshot>>

\* as_completed times out: what has not ended is reported as timed out; a worker
\* that runs is still joined when the pool closes.
WorkersTimeOut(p) ==
    /\ Live(p) /\ agents[p].call.kind = "worker" /\ ~agents[p].timedOut
    /\ \E i \in DOMAIN agents[p].jobs : agents[p].jobs[i].state # "done"
    /\ agents' = [agents EXCEPT ![p].timedOut = TRUE,
            ![p].jobs = [i \in DOMAIN @ |->
                IF @[i].state = "done" THEN @[i]
                ELSE [@[i] EXCEPT !.how = "timeout", !.status = "timeout",
                                  !.state = IF @ = "queued" THEN "done" ELSE @]]]
    /\ UNCHANGED <<conf, turns, crashes, execs, late, broken, reported, durable, prepared, latched>>

\* Every job ended: a durable failure is raised, otherwise the handler ends.
Join(p) ==
    LET a == agents[p] f == Finish(p)
        st == IF f.ok THEN f.st ELSE a.st
        over == f.ok /\ a.call.kind = "handoff" /\ a.jobs[1].status = "completed"
        back == [agents EXCEPT ![p] = [@ EXCEPT !.phase = "gate", !.st = st, !.call = NoCall,
                                                !.jobs = <<>>, !.failed = FALSE, !.timedOut = FALSE,
                                                !.next = _ensure_state(p)]]
    IN  /\ Live(p) /\ a.phase = "calling"
        /\ \A i \in DOMAIN a.jobs : a.jobs[i].state = "done"
        /\ \/ /\ \E i \in DOMAIN a.jobs : a.jobs[i].how = "durable"
              /\ agents' = RunEnded(agents, p, "durable", "failed")
              /\ broken' = broken \cup {p}
              /\ UNCHANGED <<reported, results, snapshot>>
           \/ /\ \A i \in DOMAIN a.jobs : a.jobs[i].how # "durable"
              /\ agents' = IF over THEN RunEnded(back, p, "result", "completed") ELSE back
              /\ results' = (IF over THEN Completion(p, "result", "completed") ELSE <<>>) @@ results
              /\ Saved(p, st)
              /\ reported' = IF ~f.ok THEN reported
                             ELSE reported \cup {<<p, j.run, j.exec>> : j \in
                                                 {x \in Range(a.jobs) : Reported(x)}}
              /\ UNCHANGED broken
        /\ UNCHANGED <<conf, turns, crashes, execs, late, inputs, started, prepared, latched>>

\* The process dies: only the journal is left, and the call the root was in.
Crash ==
    LET root == agents[Root]
    IN  /\ conf.durable /\ crashes < MaxCrashes /\ Live(Root)
        /\ crashes' = crashes + 1
        /\ agents' = (Root :> [Agent(Root) EXCEPT !.st = snapshot, !.call = root.call,
                             !.phase = IF root.phase = "calling" THEN "replay" ELSE "gate"])
        /\ prepared' = <<>> /\ latched' = {}
        /\ reported' = {r \in reported : r[1] = Root}
        /\ late' = <<>> /\ broken' = {}
        /\ UNCHANGED <<conf, turns, durable, execs>>

\* The durable tool boundary executes the interrupted call again.
Replay ==
    LET call == agents[Root].call e == Enter(Root, call, call.id)
    IN  /\ agents[Root].phase = "replay"
        /\ agents' = [agents EXCEPT ![Root].phase = "calling", ![Root].next = e.next,
                                    ![Root].jobs = e.jobs]
        /\ UNCHANGED <<conf, turns, crashes, durable, history, prepared, latched>>

Next ==
    \/ \E n \in DOMAIN agents :
        \/ Gate(n) \/ Call(n) \/ _write_agent_board(n)
        \/ \E t \in DOMAIN agents[n].st.threads : _close_agent_thread(n, t)
        \/ \E s \in conf.ends : End(n, "result", s)
        \/ End(n, "error", "failed")
        \/ conf.durable /\ End(n, "durable", "failed")
        \/ RecordFails(n)
        \/ \E i \in DOMAIN agents[n].jobs : StartJob(n, i)
        \/ WorkersTimeOut(n) \/ Join(n)
    \/ Crash \/ Replay
    \/ ~Live(Root) /\ UNCHANGED vars

Spec == Init /\ [][Next]_vars

----------------------------------------------------------------------------
(* Properties.                                                            *)

\* wait_agent_messages: a snapshot of the threads.
_wait_agent_messages(st, threads) ==
    IF ~(threads \subseteq DOMAIN st.threads) THEN "not_found"
    ELSE IF \A t \in threads : st.threads[t] \in {"completed", "failed", "closed", "max_iterations",
                                                 "needs_clarification", "awaiting_human_input"}
    THEN "completed" ELSE "running"

\* Whatever a call did - children that fail, abort, time out or suspend, a merge
\* that is refused, a crash and a replay - a run that is not inside a call has no
\* return frame, no running batch and no thread a wait would still call running
\* except one whose child stopped at an approval, and it never counted more children
\* than its policy allows.
NothingLeftOpen ==
    \A n \in DOMAIN agents :
        LET st == agents[n].st
        IN  /\ st.frames = {} /\ st.batches = {}
            /\ LET ended == {t \in DOMAIN st.threads : st.threads[t] # "awaiting_interaction"}
               IN  _wait_agent_messages(st, ended) = "completed"
            /\ st.counter <= conf.max_children_per_parent /\ st.counter <= conf.max_total_subagents
            /\ \A t \in DOMAIN st.mail : Len(st.mail[t]) <= conf.max_mailbox_messages

\* With a completion sink a child run is started at most once, even when the
\* process dies and the interrupted call is executed again.
ChildrenRunOnce == conf.durable => \A r \in DOMAIN execs : execs[r] <= 1

\* After the first durable failure in a batch every sibling, and every run below
\* it, makes at most the one turn it had already passed the gate for.
GatesHold == \A n \in DOMAIN late : late[n] <= 1

\* A durable failure below a run always wins over results and timeouts: no run
\* above it returns from the call, and when a run is gone or back from its call
\* no child of it is still running.
FailureWins ==
    /\ \A n \in broken : \A a \in Ancestors(n) :
           a \in DOMAIN agents => agents[a].phase \in {"calling", "raised"}
    /\ \A n \in DOMAIN agents \ {Root} :
           /\ Front(n) \in DOMAIN agents /\ agents[Front(n)].phase = "calling"
           /\ \E i \in DOMAIN agents[Front(n)].jobs :
                 agents[Front(n)].jobs[i].child = n /\ agents[Front(n)].jobs[i].state = "running"

\* What a call reports of its children is in the state of the caller: the bundle
\* of every reported execution, and every item on the board exactly once.
ReportedIsMerged ==
    /\ \A r \in reported : r[1] \in DOMAIN agents /\ r[3] # 0 =>
           r[2] \in DOMAIN agents[r[1]].st.bundles
    /\ \A n \in DOMAIN agents : IsInjective(agents[n].st.board)

\* docs/en/skills/agent-and-team.md: max_depth bounds the depth of the tree.
DepthBounded == \A n \in DOMAIN agents : Len(n) <= conf.max_depth

\* A follow-up a child answered is kept in the mailbox of its thread.
FollowUpsKept ==
    \A n \in DOMAIN agents : agents[n].phase = "gate" =>
        \A t \in DOMAIN agents[n].st.threads :
            <<"message", t>> \in DOMAIN execs =>
                Len(Mailbox(agents[n].st, t)) >= execs[<<"message", t>>]
=============================================================================
