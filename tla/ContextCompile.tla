--------------------------- MODULE ContextCompile ---------------------------
(***************************************************************************)
(* The two-pass context compile of a durable run: the request a run makes  *)
(* of its journal (context/request_factory.py), the coordinator that binds *)
(* both passes to one snapshot and stores checkpoints and builds           *)
(* (context/coordinator.py, persistence/sqlite_context_compiler_v2.py),    *)
(* and the events the run appends in between (context/projector.py,        *)
(* journal/runtime.py).  An attempt is a run; a graph turn has one attempt *)
(* for the coordinator and one per step.  Every stored write is one step,  *)
(* so that a process may stop between any two of them.                     *)
(***************************************************************************)
EXTENDS ContextProjection, TLC

CONSTANT Plans      \* the chats that are run, see MCContextCompile

VARIABLES
    plan,           \* the chat
    journal,        \* events of the generation, in store_seq order
    checkpoints,    \* compiler-owned rows, in the order they were committed last
    builds,         \* one row per trigger
    run,            \* attempt -> the state of its process
    stops           \* crashes so far

vars == <<plan, journal, checkpoints, builds, run, stops>>

Attempts == 1 .. Len(plan.runs)

Script(a) == plan.runs[a]

NewProcess ==
    [pc |-> "new", view |-> 0, trigger |-> 0, visible |-> 0, pass |-> Failed("none"), why |-> "none"]

Start(p) ==
    /\ plan = p
    /\ journal = p.history
    /\ checkpoints = <<>>
    /\ builds = <<>>
    /\ run = [a \in 1 .. Len(p.runs) |-> NewProcess]
    /\ stops = 0

Init == \E p \in Plans : Start(p)

----------------------------------------------------------------------------
(* The journal.                                                           *)

\* The identity of a draft: its attempt, its type and what tells two events of
\* the type apart.
_identity(e) ==
    <<e.attempt, e.type,
      CASE e.type \in {"tool_call", "tool_result"} -> e.call
        [] e.type \in {"interaction.requested", "interaction.resolved"} -> e.iid
        [] e.type \in {"provider.wire_snapshot", "provider.turn_result"} -> e.iter
        [] OTHER -> 0>>

\* Appending an event that is already there changes nothing.
append_projected(es, e) ==
    IF \E i \in DOMAIN es : _identity(es[i]) = _identity(e) THEN es ELSE Append(es, e)

AppendAll(es, new) == FoldLeft(append_projected, es, new)

\* RunLocalJournalViewCache.capture_snapshot: the cached prefix and the tail.
capture_snapshot(view) ==
    IF view = 0 THEN journal ELSE SubSeq(journal, 1, view) \o SubSeq(journal, view + 1, Len(journal))

EventsOf(es, a, types) == {i \in Ids(es, types) : es[i].attempt = a}

Answered(a) == Cardinality(EventsOf(journal, a, {"provider.turn_result"}))

Ended(a) == EventsOf(journal, a, TerminalTypes) # {}

\* The attempt that leads the turn of this one.
Lead(a) == IF Script(a).of = 0 THEN a ELSE Script(a).of

\* A later turn has begun: the host has given this one up.
Superseded(a) == \E b \in Attempts : Lead(b) > Lead(a) /\ run[b].pc # "new"

\* The turn before this attempt is over, or its process is gone or was given up.
Free(a) ==
    \A b \in 1 .. a - 1 :
        \/ Ended(b)
        \/ Ended(Lead(b))
        \/ run[b].pc \in {"down", "ready", "requested", "planned", "bound", "final"}

\* run_user_message of a turn, or of the coordinator of a graph turn with its
\* admission.
project_user_message(a) ==
    LET user == [Event("message.user", a) EXCEPT !.sz = Script(a).size]
    IN  /\ run[a].pc = "new"
        /\ Script(a).of = 0
        /\ Free(a)
        /\ journal' = AppendAll(journal,
               IF Script(a).steps = {} THEN <<user>>
               ELSE <<user, [Event("graph.execution.admitted", a) EXCEPT !.src = Len(journal) + 1]>>)
        /\ run' = [run EXCEPT ![a].pc = IF Script(a).steps = {} THEN "ready" ELSE "waiting"]
        /\ UNCHANGED <<plan, stops, checkpoints, builds>>

\* The steps of a graph turn before this one.
EarlierSteps(a) == {b \in plan.runs[Script(a).of].steps : b < a}

LastStep(a) == a = Max(plan.runs[Script(a).of].steps)

\* A graph step begins with the handoff it consumes, its derived input and its
\* start receipt; the first step's input stands for the message of the turn.
StartStep(a) ==
    /\ run[a].pc = "new"
    /\ Script(a).of # 0
    /\ run[Script(a).of].pc = "waiting"
    /\ \A b \in EarlierSteps(a) :
          EventsOf(journal, b, {"run_completed"}) # {}
    /\ LET source == IF EarlierSteps(a) = {}
                     THEN Min(EventsOf(journal, Script(a).of, {"message.user"}))
                     ELSE Max(EventsOf(journal, Max(EarlierSteps(a)), {"final_message"}))
       IN  journal' = AppendAll(journal,
               <<[Event("handoff.recorded", a) EXCEPT !.src = source],
                 [Event("message.user", a) EXCEPT !.src = source],
                 [Event("graph.step.started", a) EXCEPT !.src = Len(journal) + 2]>>)
    /\ run' = [run EXCEPT ![a].pc = "ready"]
    /\ UNCHANGED <<plan, stops, checkpoints, builds>>

----------------------------------------------------------------------------
(* The request.                                                           *)

\* The seeds of graph turns: the user message of the turn, the derived input of
\* its first step and the handoff between them.
_graph_seed_projections(es) ==
    {[source |-> es[g].src, input |-> es[s].src, handoff |-> es[s].src - 1] :
        <<g, s>> \in {<<x, y>> \in Ids(es, {"graph.execution.admitted"})
                                   \X Ids(es, {"graph.step.started"}) :
                         es[es[y].src].src = es[x].src}}

_is_verified_derived_input(es, trigger) ==
    /\ es[trigger].type = "message.user"
    /\ es[trigger].src # 0
    /\ \E h \in EventsOf(es, es[trigger].attempt, {"handoff.recorded"}) :
          h < trigger /\ es[h].src = es[trigger].src

\* An answer needs the one request it answers.
_pending_interaction_resolution(es, trigger) ==
    es[trigger].type = "interaction.resolved" =>
        /\ Cardinality({q \in Ids(es, {"interaction.requested"}) :
                            q < trigger /\ es[q].iid = es[trigger].iid}) = 1
        /\ {r \in Ids(es, {"interaction.resolved"}) : es[r].iid = es[trigger].iid} = {trigger}

Fail(a, why) == [run EXCEPT ![a].pc = "failed", ![a].why = why]

\* JournalContextRequestFactory.__call__: the last input of the attempt must be
\* the last of the generation.
RequestContext(a) ==
    LET es == capture_snapshot(run[a].view)
        inputs == Ids(es, InputTypes)
        mine == EventsOf(es, a, InputTypes)
        trigger == Max(mine)
        visible == {s.source : s \in {x \in _graph_seed_projections(es) : x.input = trigger}}
    IN  /\ run[a].pc = "ready"
        /\ UNCHANGED <<plan, stops, journal, checkpoints, builds>>
        /\ IF Max(inputs) # trigger /\ ~_is_verified_derived_input(es, trigger)
           THEN run' = [Fail(a, "foreign_input") EXCEPT ![a].view = 0]
           ELSE IF ~_pending_interaction_resolution(es, trigger)
           THEN run' = [Fail(a, "no_unique_request") EXCEPT ![a].view = Len(es)]
           ELSE run' = [run EXCEPT ![a].pc = "requested", ![a].view = Len(es),
                            ![a].trigger = trigger,
                            ![a].visible = IF visible = {} THEN trigger ELSE Max(visible)]

----------------------------------------------------------------------------
(* The coordinator.                                                       *)

\* The request against the coordinator's own snapshot.
Request(a, es) ==
    CompileRequest(es, run[a].trigger,
                   IF es[run[a].trigger].type = "message.user" THEN run[a].visible ELSE 0,
                   {s.handoff : s \in _graph_seed_projections(es)},
                   plan.native, Script(a).budget)

\* The receipt that authorizes the build: for the first step of a graph the
\* derived input, whose message is the one of the turn.
InputReceipt(a, es) ==
    LET seed == {s.input : s \in {x \in _graph_seed_projections(es) :
                                     x.source = run[a].visible /\ es[x.input].attempt = a}}
    IN  IF es[run[a].trigger].type # "message.user" THEN run[a].trigger
        ELSE IF seed = {} THEN run[a].visible ELSE Max(seed)

\* A pending tool result has one call, earlier, and is the one result of it.
_validated_pending_task_inputs(es, trigger) ==
    es[trigger].type = "tool_result" =>
        /\ Cardinality({i \in Ids(es, {"tool_call"}) : es[i].call = es[trigger].call}) = 1
        /\ \A i \in Ids(es, {"tool_call"}) : es[i].call = es[trigger].call => i < trigger
        /\ {i \in Ids(es, {"tool_result"}) : es[i].call = es[trigger].call} = {trigger}

\* The result of the provider turn that made the calls is there, before them,
\* names exactly these calls, and follows the request that was sent.
_verified_provider_wire_snapshot_for_result(es, a, result) ==
    /\ Cardinality({i \in EventsOf(es, a, {"provider.wire_snapshot"}) : es[i].iter = es[result].iter}) = 1
    /\ \A i \in EventsOf(es, a, {"provider.wire_snapshot"}) : es[i].iter = es[result].iter => i < result

_verified_current_provider_turn(es, a, trigger) ==
    (plan.native /\ es[trigger].type = "tool_result") =>
        LET batch == _current_completed_tool_batch(es, trigger)
            results == {i \in EventsOf(es, a, {"provider.turn_result"}) : es[i].iter = es[trigger].iter}
        IN  /\ batch # {}
            /\ Cardinality(results) = 1
            /\ \A r \in results :
                  /\ es[r].calls = batch
                  /\ \A i \in Ids(es, {"tool_call"}) : es[i].call \in batch => r < i
                  /\ _verified_provider_wire_snapshot_for_result(es, a, r)

\* _prepare_journal_view: "none" when the snapshot authorizes the build.
ViewRefusal(a, es) ==
    IF ~_validated_pending_task_inputs(es, run[a].trigger) THEN "pending_input_invalid"
    ELSE IF ProjectionFails(es) THEN "projection_invalid"
    ELSE IF ~_verified_current_provider_turn(es, a, run[a].trigger) THEN "provider_turn_invalid"
    ELSE IF EventsOf(es, a, TerminalTypes) # {} THEN "terminal_attempt"
    ELSE IF \/ InputReceipt(a, es) # Max(Ids(es, InputTypes))
            \/ es[InputReceipt(a, es)].attempt # a
         THEN "receipt_absent"
    ELSE IF NeutralFails(es) THEN "neutral_invalid"
    ELSE "none"

BuildId(a, trigger) == <<a, trigger>>

\* _verify_input_trigger_claim.
TriggerClaimed(a, receipt) ==
    receipt \in DOMAIN builds /\ builds[receipt].id # BuildId(a, receipt)

\* Committed checkpoints, newest first; one of an earlier head is passed over.
_verified_committed_checkpoint_bindings(q) ==
    SelectSeq(Reverse(checkpoints),
              LAMBDA c : c.status = "committed" /\ _checkpoint_materialization(q.es, q.msgs, c.req))

\* The pass of the first binding whose bound pass consumes it, else the first
\* pass of its own.
FirstPass(q) ==
    LET bindings == _verified_committed_checkpoint_bindings(q)
        passes == [i \in DOMAIN bindings |-> _compile_for_coordinator(q, bindings[i].req)]
        good == {i \in DOMAIN passes : passes[i].status = "complete"}
    IN  IF good = {} THEN _compile_for_coordinator(q, NoRequest) ELSE passes[Min(good)]

\* compile, up to its first write: one snapshot, its view, the claim on the
\* input, then a committed checkpoint or the first pass.
Compile(a) ==
    LET es == capture_snapshot(run[a].view)
        receipt == InputReceipt(a, es)
        refusal == ViewRefusal(a, es)
    IN  /\ run[a].pc = "requested"
        /\ UNCHANGED <<plan, stops, journal, checkpoints, builds>>
        /\ IF refusal # "none"
           THEN run' = [Fail(a, refusal) EXCEPT ![a].view = Len(es)]
           ELSE IF TriggerClaimed(a, receipt)
           THEN run' = [Fail(a, "trigger_claimed") EXCEPT ![a].view = Len(es)]
           ELSE \E q \in {Request(a, es)} : \E first \in {FirstPass(q)} :
                run' = [run EXCEPT ![a].view = Len(es), ![a].trigger = receipt,
                            ![a].pass = first,
                            ![a].why = IF first.status \in {"complete", "checkpoint_required"}
                                       THEN "none" ELSE first.status,
                            ![a].pc = CASE first.status = "complete" -> "final"
                                        [] first.status = "checkpoint_required" -> "planned"
                                        [] OTHER -> "failed"]

\* The snapshot the compile of an attempt works on.
Snapshot(a) == SubSeq(journal, 1, run[a].view)

StoredRows(req) == {i \in DOMAIN checkpoints : checkpoints[i].req = req}

\* SQLiteBoundCheckpointRepository.prepare: one row per operation.
prepare(req) ==
    IF StoredRows(req) # {} THEN checkpoints
    ELSE Append(checkpoints, [req |-> req, status |-> "prepared"])

\* The first pass is kept, with the reference put in.
FirstPassKept(a) ==
    /\ run[a].pc = "planned"
    /\ checkpoints' = prepare(run[a].pass.req)
    /\ run' = [run EXCEPT ![a].pc = "bound",
                   ![a].pass = [Complete(Request(a, Snapshot(a)), run[a].pass.dropped, 0, 0)
                                  EXCEPT !.req = run[a].pass.req]]
    /\ UNCHANGED <<plan, stops, journal, builds>>

\* _prepare_checkpoint and the bound pass; a pass that does not fit with the
\* stored reference plans a longer prefix.
PrepareCheckpoint(a) ==
    /\ run[a].pc = "planned"
    /\ checkpoints' = prepare(run[a].pass.req)
    /\ \E q \in {Request(a, Snapshot(a))} :
       \E bound \in {_compile_for_coordinator(q, run[a].pass.req)} :
       \E longer \in {_compile_core(q, NoRequest, run[a].pass.dropped + 1)} :
          run' = IF bound.status = "complete"
                 THEN [run EXCEPT ![a].pc = "bound", ![a].pass = bound]
                 ELSE IF longer.status = "checkpoint_required"
                 THEN [run EXCEPT ![a].pass = longer]
                 ELSE Fail(a, "checkpoint_retry")
    /\ UNCHANGED <<plan, stops, journal, builds>>

\* commit: a prepared row becomes committed, and the newest.
commit(req) ==
    LET row == CHOOSE i \in StoredRows(req) : TRUE
    IN  IF checkpoints[row].status = "committed" THEN checkpoints
        ELSE Append(RemoveAt(checkpoints, row), [req |-> req, status |-> "committed"])

CommitCheckpoint(a) ==
    /\ run[a].pc = "bound"
    /\ checkpoints' = commit(run[a].pass.req)
    /\ run' = [run EXCEPT ![a].pc = "final"]
    /\ UNCHANGED <<plan, stops, journal, builds>>

\* The payload the build operation is bound to: envelope, messages, snapshot and
\* consumption proof.
_context_build_operation_payload(a) ==
    [id |-> BuildId(a, run[a].trigger), snapshot |-> run[a].view, pass |-> run[a].pass]

\* _record_build: the operation is named by the trigger alone.
RecordBuild(a) ==
    LET build == _context_build_operation_payload(a)
        t == run[a].trigger
    IN  /\ run[a].pc = "final"
        /\ builds' = IF t \in DOMAIN builds THEN builds ELSE builds @@ (t :> build)
        /\ run' = IF t \in DOMAIN builds /\ builds[t] # build
                  THEN Fail(a, "build_conflict")
                  ELSE [run EXCEPT ![a].pc = IF Superseded(a) THEN "down" ELSE "built"]
        /\ UNCHANGED <<plan, stops, journal, checkpoints>>

----------------------------------------------------------------------------
(* The run between two compiles.                                          *)

\* The calls a provider turn makes; calls are numbered over the whole chat.
CallsOf(a, turn) ==
    LET n == 10 * a + 3 * turn
    IN  CASE Script(a).turns[turn] = "tools2" -> {n, n + 1}
          [] Script(a).turns[turn] \in {"tools1", "ask"} -> {n}
          [] OTHER -> {}

\* Calls of the last turn that have neither a result nor the answer of a person.
OpenCalls(a) ==
    IF Answered(a) = 0 THEN {}
    ELSE {c \in CallsOf(a, Answered(a)) :
             ~\E i \in EventsOf(journal, a, {"tool_result", "interaction.resolved"}) :
                 journal[i].call = c}

Log(a, e, pc) ==
    /\ journal' = append_projected(journal, e)
    /\ run' = [run EXCEPT ![a].pc = pc]
    /\ UNCHANGED <<plan, stops, checkpoints, builds>>

\* The wire snapshot is written before the request leaves.
SendRequest(a) ==
    /\ run[a].pc = "built"
    /\ OpenCalls(a) = {}
    /\ Answered(a) < Len(Script(a).turns)
    /\ Log(a, [Event("provider.wire_snapshot", a) EXCEPT !.iter = Answered(a) + 1], "sent")

\* A turn whose result is recorded is not sent again; its open calls go on.
RecoverTurn(a) ==
    /\ run[a].pc = "built"
    /\ OpenCalls(a) # {}
    /\ run' = [run EXCEPT ![a].pc = "calls"]
    /\ UNCHANGED <<plan, stops, journal, checkpoints, builds>>

RecordResult(a) ==
    LET turn == Answered(a) + 1
    IN  /\ run[a].pc = "sent"
        /\ Log(a, [Event("provider.turn_result", a) EXCEPT !.iter = turn, !.calls = CallsOf(a, turn)],
               CASE Script(a).turns[turn] = "final" -> "finish"
                 [] Script(a).turns[turn] = "fail" -> "failed"
                 [] OTHER -> "calls")

Uncalled(a) == CallsOf(a, Answered(a)) \ {journal[i].call : i \in EventsOf(journal, a, {"tool_call"})}

_project_tool_call(a) ==
    /\ run[a].pc = "calls"
    /\ Uncalled(a) # {}
    /\ Log(a, [Event("tool_call", a) EXCEPT !.iter = Answered(a), !.call = Min(Uncalled(a))], "calls")

\* Results arrive in any order; the next model call waits for all of them.
_project_tool_result(a) ==
    /\ run[a].pc = "calls"
    /\ Uncalled(a) = {}
    /\ Script(a).turns[Answered(a)] # "ask"
    /\ \E c \in OpenCalls(a) :
          Log(a, [Event("tool_result", a) EXCEPT !.iter = Answered(a), !.call = c],
              IF OpenCalls(a) = {c} THEN "ready" ELSE "calls")

_project_interaction_requested(a) ==
    /\ run[a].pc = "calls"
    /\ Uncalled(a) = {}
    /\ Script(a).turns[Answered(a)] = "ask"
    /\ \E c \in OpenCalls(a) :
          Log(a, [Event("interaction.requested", a)
                    EXCEPT !.iid = c, !.call = c, !.human = TRUE], "asking")

\* The person's answer, which lets the run continue.
project_interaction_resolution(a) ==
    /\ run[a].pc = "asking"
    /\ \E c \in OpenCalls(a) :
          Log(a, [Event("interaction.resolved", a)
                    EXCEPT !.iid = c, !.call = c, !.human = TRUE], "ready")

IsMid(a) == Script(a).of # 0 /\ ~LastStep(a)

\* The answer and the outcome are two events.
WriteFinal(a) ==
    /\ run[a].pc = "finish"
    /\ Log(a, [Event("final_message", a) EXCEPT !.mid = IsMid(a)], "closing")

CompleteRun(a) ==
    /\ run[a].pc = "closing"
    /\ Log(a, [Event("run_completed", a) EXCEPT !.mid = IsMid(a)], "done")

FailRun(a) ==
    /\ run[a].pc = "failed"
    /\ ~Superseded(a)
    /\ Log(a, [Event("run_failed", a) EXCEPT !.mid = IsMid(a)], "done")

\* The coordinator copies the answer of the last step, or fails with a step.
JoinSteps(a) ==
    LET failed == {b \in Script(a).steps : EventsOf(journal, b, {"run_failed"}) # {}}
    IN  /\ run[a].pc = "waiting"
        /\ failed # {} \/ EventsOf(journal, Max(Script(a).steps), {"run_completed"}) # {}
        /\ run' = [run EXCEPT ![a].pc = IF failed # {} THEN "failed" ELSE "finish"]
        /\ UNCHANGED <<plan, stops, journal, checkpoints, builds>>

\* The process stops.
Crash(a) ==
    /\ run[a].pc \notin {"new", "done", "down"}
    /\ stops < plan.crashes
    /\ stops' = stops + 1
    /\ run' = [run EXCEPT ![a] = [NewProcess EXCEPT !.pc = "down"]]
    /\ UNCHANGED <<plan, journal, checkpoints, builds>>

\* The same run again, in a new process.
Resume(a) ==
    /\ run[a].pc = "down"
    /\ ~Ended(a)
    /\ ~Superseded(a)
    /\ run' = [run EXCEPT ![a].pc = IF Script(a).steps = {} THEN "ready" ELSE "waiting"]
    /\ UNCHANGED <<plan, stops, journal, checkpoints, builds>>

Next ==
    \E a \in Attempts :
        \/ project_user_message(a) \/ StartStep(a) \/ RequestContext(a) \/ Compile(a)
        \/ PrepareCheckpoint(a) \/ CommitCheckpoint(a) \/ RecordBuild(a)
        \/ SendRequest(a) \/ RecoverTurn(a) \/ RecordResult(a)
        \/ _project_tool_call(a) \/ _project_tool_result(a)
        \/ _project_interaction_requested(a) \/ project_interaction_resolution(a)
        \/ WriteFinal(a) \/ CompleteRun(a) \/ FailRun(a) \/ JoinSteps(a)
        \/ Crash(a) \/ Resume(a)

Spec == Init /\ [][Next]_vars

----------------------------------------------------------------------------
(* Properties.                                                            *)

\* The messages of the chat at a snapshot, told turn by turn: what the person
\* wrote, the questions they were asked and their answers, the imported history,
\* and one answer of each turn that completed: the coordinator's, or the last
\* step's while the coordinator has not answered.
Answer(es, a) ==
    LET finals(b) == EventsOf(es, b, {"final_message"})
        ended(b) == EventsOf(es, b, {"run_completed"}) # {}
        last == Max(Script(a).steps)
    IN  IF EventsOf(es, a, {"run_completed"}) # {} THEN {Max(finals(a))}
        ELSE IF Script(a).steps # {} /\ ended(last) THEN {Max(finals(last))}
        ELSE {}

Transcript(es) ==
    UNION {Answer(es, a) : a \in {b \in Attempts : Script(b).of = 0}}
    \cup {i \in DOMAIN es :
            \/ es[i].type = "message.user" /\ es[i].src = 0
            \/ es[i].type = "message.assistant"
            \/ es[i].human}

\* The turn an event belongs to: its message of the person.
TurnOf(es, i) == Max({j \in 1 .. i : es[j].type = "message.user" /\ es[j].src = 0})

\* Every build that was recorded shows each message of the chat once: in full, or
\* in a checkpoint that is committed and covers a prefix; only the input of a
\* graph step is shown on top of them.  What it shows, with the tool exchanges,
\* fits the budget; an exchange is left to the checkpoint only with the turn it
\* belongs to; the input it answers is the last of the chat.
BuildsAreWhole ==
    \A t \in DOMAIN builds :
        LET b == builds[t]
            es == SubSeq(journal, 1, b.snapshot)
            covered == CoveredThrough(b.pass.req)
            exchanges == {i \in Ids(es, {"tool_result"}) : i <= covered}
        IN  /\ b.pass.shown \cap b.pass.req.src = {}
            /\ {i \in b.pass.shown \cup b.pass.req.src : es[i].src = 0} = Transcript(es)
            /\ {i \in b.pass.shown \cup b.pass.req.src : es[i].src # 0} \subseteq {t}
            /\ b.pass.req # NoRequest =>
                  /\ [req |-> b.pass.req, status |-> "committed"] \in Range(checkpoints)
                  /\ \A i \in b.pass.req.src, j \in b.pass.shown : i < j
            /\ \A i \in exchanges : TurnOf(es, i) \in b.pass.req.src
            /\ Size(es, b.pass.shown) + b.pass.injected <= Script(es[t].attempt).budget
            /\ t = Max(Ids(es, InputTypes))

\* A compile that is repeated after a crash, whatever was stored before it, meets
\* no conflict with the build of its input unless the chat went on after that
\* build: events were journalled, or a run that was given up committed one more
\* checkpoint.
RetryAgrees ==
    \A a \in Attempts : run[a].why = "build_conflict" =>
        LET b == builds[run[a].trigger]
            used == Max({0} \cup StoredRows(b.pass.req))
        IN  \/ b.snapshot < run[a].view
            \/ \E i \in DOMAIN checkpoints : i > used /\ checkpoints[i].status = "committed"
=============================================================================
