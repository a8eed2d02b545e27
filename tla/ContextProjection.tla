-------------------------- MODULE ContextProjection --------------------------
(***************************************************************************)
(* What one model call is shown: context/compiler.py over a snapshot of    *)
(* the journal, with the checks of context/coordinator.py on the snapshot. *)
(* A snapshot es is a sequence of events; the index of an event is its     *)
(* store_seq.  A message is the index of the event it is projected from.   *)
(* Token estimates are abstracted to the sizes of events: a message costs  *)
(* its size, a tool exchange, a native call and a checkpoint marker cost   *)
(* one.  The messages of a journal carry no provider tool wire             *)
(* (_reject_event_provider_tool_wire), so no tool pair spans two turns.    *)
(***************************************************************************)
EXTENDS Naturals, Sequences, FiniteSets, SequencesExt, FiniteSetsExt

CONSTANT HistoryLimit      \* _SEMANTIC_HISTORY_LIMIT: closed exchanges shown inline

\* The fields of a semantic event: src is the seq a graph receipt refers to, mid
\* marks a workflow step that is not the last one.  A child run keeps a journal
\* of its own session, so every event here is of a root run.
Event(type, attempt) ==
    [type |-> type, attempt |-> attempt, iter |-> 0, call |-> 0, iid |-> 0,
     human |-> FALSE, src |-> 0, mid |-> FALSE, calls |-> {}, sz |-> 1]

Ids(es, types) == {i \in DOMAIN es : es[i].type \in types}

InputTypes == {"message.user", "interaction.resolved", "tool_result"}

TerminalTypes == {"run_completed", "run_failed"}

----------------------------------------------------------------------------
(* The transcript.                                                        *)

_terminal_succeeded(e) == e.type = "run_completed"

failed_attempts(es) ==
    {es[i].attempt : i \in {j \in Ids(es, TerminalTypes) : ~_terminal_succeeded(es[j])}}

\* The terminals of a workflow step that is not the last one do not count.
terminals_by_attempt(es, a) ==
    {i \in Ids(es, TerminalTypes) : es[i].attempt = a /\ ~es[i].mid}

\* The final messages of an attempt that has no canonical answer and has not
\* failed; the last of each attempt stays.
latest_derived_by_attempt(es) ==
    LET canonical == {es[i].attempt : i \in Ids(es, {"message.assistant"})}
        open == {i \in Ids(es, {"final_message"}) :
                    /\ ~es[i].mid
                    /\ es[i].attempt \notin canonical \cup failed_attempts(es)}
    IN  {i \in open : \A j \in open : es[j].attempt = es[i].attempt => j <= i}

later_terminals(es, i) == {t \in terminals_by_attempt(es, es[i].attempt) : t > i}

\* A final message is an answer once its attempt has completed after it.
qualified_finals(es) ==
    {i \in latest_derived_by_attempt(es) :
        /\ later_terminals(es, i) # {}
        /\ _terminal_succeeded(es[Min(later_terminals(es, i))])}

\* User messages; the input record of a graph step is shown only to the step
\* that is bound to it.
_is_derived_handoff_plumbing(es, i, bound) == es[i].src # 0 /\ i # bound

UserMessages(es, bound) ==
    {i \in Ids(es, {"message.user"}) : ~_is_derived_handoff_plumbing(es, i, bound)}

\* Defect: an answer counts once its attempt has completed; imported ones never do.
CompletedAnswers(es) ==
    {i \in Ids(es, {"message.assistant"}) :
        \E t \in Ids(es, {"run_completed"}) : es[t].attempt = es[i].attempt}

AssistantMessages(es) ==
    {i \in Ids(es, {"message.assistant"}) : es[i].attempt \notin failed_attempts(es)}

_projected_interaction_question(es) == {i \in Ids(es, {"interaction.requested"}) : es[i].human}

_projected_interaction_answer(es) ==
    {i \in Ids(es, {"interaction.resolved"}) :
        \E q \in _projected_interaction_question(es) : q < i /\ es[q].iid = es[i].iid}

\* bisect_right over the user messages.
segment(users, i) == Cardinality({u \in users : u <= i})

\* One answer per segment: the last that qualifies.
finals_by_segment(es, users) ==
    {i \in qualified_finals(es) :
        \A j \in qualified_finals(es) : segment(users, i) = segment(users, j) => j <= i}

_canonical_journal_message_projection(es, bound) ==
    LET users == UserMessages(es, bound)
    IN  users \cup AssistantMessages(es) \cup _projected_interaction_question(es)
        \cup _projected_interaction_answer(es) \cup finals_by_segment(es, users)

\* JournalMessageProjectionError: two outcomes of one attempt, or an answer after
\* the outcome.
ProjectionFails(es) ==
    \/ \E a \in {es[i].attempt : i \in DOMAIN es} : Cardinality(terminals_by_attempt(es, a)) > 1
    \/ \E i \in AssistantMessages(es) : \E t \in terminals_by_attempt(es, es[i].attempt) : t < i

\* The terminal receipts the answers among msgs rest on.
projection_dependencies(es, msgs) ==
    {<<i, Min(later_terminals(es, i))>> : i \in msgs \cap qualified_finals(es)}

----------------------------------------------------------------------------
(* Checkpoint requests.                                                   *)

NoRequest == [src |-> {}, deps |-> {}]

_checkpoint_request_for_indexes(es, omitted) ==
    [src |-> omitted, deps |-> projection_dependencies(es, omitted)]

\* _coverage_range: the receipts count; 0 when nothing is covered.
CoveredThrough(req) ==
    IF req = NoRequest THEN 0 ELSE Max(req.src \cup {d[2] : d \in req.deps})

\* The request can be rebuilt, with the same identity, from this snapshot.
_checkpoint_materialization(es, msgs, req) ==
    /\ req.src \subseteq msgs
    /\ req = _checkpoint_request_for_indexes(es, req.src)

----------------------------------------------------------------------------
(* The tool exchanges and interactions beside the transcript.             *)

CallIds(es) == {es[i].call : i \in Ids(es, {"tool_call"})}

ResultIds(es) == {es[i].call : i \in Ids(es, {"tool_result"})}

ResultSeq(es, c) == CHOOSE i \in Ids(es, {"tool_result"}) : es[i].call = c

\* The whole batch of the pending result: every call of its iteration answered.
_current_completed_tool_batch(es, pending) ==
    LET same(type) == {es[i].call : i \in {j \in Ids(es, {type}) :
                          es[j].attempt = es[pending].attempt /\ es[j].iter = es[pending].iter}}
    IN  IF same("tool_call") = same("tool_result") THEN same("tool_call") ELSE {}

\* Rendered as the provider's own tool wire when the provider made the calls.
_current_native_tool_batch(es, pending, native) ==
    IF pending = 0 \/ es[pending].type # "tool_result" \/ ~native THEN {}
    ELSE _current_completed_tool_batch(es, pending)

\* The calls of questions that were answered by the person.
resolved_human_interaction_call_ids(es) ==
    {es[q].call : q \in {p \in _projected_interaction_question(es) :
        \E r \in _projected_interaction_answer(es) : es[r].iid = es[p].iid}}

\* An interaction stays pending until its answer, the result of its call or the
\* end of its attempt.
pending_interactions(es) ==
    {q \in Ids(es, {"interaction.requested"}) :
        ~\E i \in q + 1 .. Len(es) :
            \/ es[i].type = "interaction.resolved" /\ es[i].iid = es[q].iid
            \/ es[i].type = "tool_result" /\ es[i].call = es[q].call
            \/ es[i].type \in TerminalTypes /\ es[i].attempt = es[q].attempt
               /\ (es[i].type = "run_completed" => ~es[i].mid)}

\* Exchanges that ended inside the range of the checkpoint are left to it.
closed_tool_exchanges(es, native, covered) ==
    {c \in (CallIds(es) \cap ResultIds(es)) \ native : ResultSeq(es, c) > covered}

unfinished_call_ids(es) ==
    (CallIds(es) \ ResultIds(es)) \ resolved_human_interaction_call_ids(es)

\* Handoffs, save the seeds of graph turns, are never covered.
HandoffRecords(es, seeds) == Ids(es, {"handoff.recorded"}) \ seeds

\* ContextCompilerError of _neutral_context.
NeutralFails(es) ==
    \/ ResultIds(es) \ CallIds(es) # {}
    \/ Cardinality(pending_interactions(es)) > 1

----------------------------------------------------------------------------
(* Fitting the budget.                                                    *)

\* The pinned message: unfinished calls, a pending input, a pending question.
HasPinned(es, trigger) ==
    \/ unfinished_call_ids(es) # {}
    \/ es[trigger].type # "message.user"
    \/ pending_interactions(es) # {}

\* _split_turns: a turn starts at every message of a person.
_split_turns(es, msgs) ==
    {i \in msgs : es[i].type \in {"message.user", "interaction.resolved"} \/ i = Min(msgs)}

Size(es, msgs) == MapThenSumSet(LAMBDA i : es[i].sz, msgs)

\* Omitting the first k turns: the request for what is omitted, what is kept and
\* what it costs.
CutAt(es, msgs, starts, k) ==
    LET omitted == {i \in msgs : Cardinality({s \in starts : s <= i}) <= k}
    IN  [req |-> _checkpoint_request_for_indexes(es, omitted),
         kept |-> msgs \ omitted, cost |-> Size(es, msgs \ omitted)]

\* The request over messages msgs: the snapshot, the seq of the input, the cuts at
\* complete turns, the native batch, the exchanges a checkpoint may cover, the
\* records that none covers, and pressure_threshold_tokens less the overhead.
Neutral(es, trigger, msgs, starts, batch, seeds, budget) ==
    [es |-> es, trigger |-> trigger, msgs |-> msgs, batch |-> batch, budget |-> budget,
     turns |-> Cardinality(starts),
     cut |-> [k \in 0 .. Cardinality(starts) |-> CutAt(es, msgs, starts, k)],
     pinned |-> HasPinned(es, trigger),
     closed |-> closed_tool_exchanges(es, batch, 0),
     records |-> Cardinality(HandoffRecords(es, seeds))
                 + Cardinality(resolved_human_interaction_call_ids(es))]

\* visible is the message bound as the source of the input, seeds the handoffs of
\* graph turns, native whether the calls are the provider's own.
CompileRequest(es, trigger, visible, seeds, native, budget) ==
    LET msgs == _canonical_journal_message_projection(es, visible)
    IN  Neutral(es, trigger, msgs, _split_turns(es, msgs),
                _current_native_tool_batch(es, trigger, native), seeds, budget)

OptionalHistory(q, covered) ==
    Cardinality({c \in q.closed : ResultSeq(q.es, c) > covered}) + q.records

\* What is injected beside the transcript, in full: the calls of the native
\* batch come last, each with its result.
Injected(q, covered, optional) ==
    (IF optional THEN OptionalHistory(q, covered) ELSE 0)
    + (IF q.pinned THEN 1 ELSE 0)
    + 2 * Cardinality(q.batch)

\* compact_message: under pressure the result of a call is a preview, priced with it.
Compacted(q, injected) == injected - Cardinality(q.batch)

Complete(q, k, covered, injected) ==
    [status |-> "complete", dropped |-> k, req |-> NoRequest, covered |-> covered,
     shown |-> q.cut[k].kept, injected |-> injected]

CheckpointRequired(q, k) ==
    [status |-> "checkpoint_required", dropped |-> k, req |-> q.cut[k].req, covered |-> 0,
     shown |-> {}, injected |-> 0]

Failed(why) ==
    [status |-> why, dropped |-> 0, req |-> NoRequest, covered |-> 0, shown |-> {}, injected |-> 0]

\* A cut may leave the turn of the input only; what it keeps, and the marker of
\* what it omits, fits.  A bound pass accepts the cut of its own checkpoint.
Cutoffs(q, injected, bound, minimum) ==
    {k \in minimum .. q.turns - 1 :
        /\ bound # NoRequest => k > 0 /\ q.cut[k].req = bound
        /\ q.cut[k].cost + injected + (IF k = 0 THEN 0 ELSE 1) <= q.budget}

\* The whole history while it fits and nothing is archived; else the smallest
\* cut at complete turns, which needs a checkpoint of exactly what it omits.  When
\* what no cut may omit does not fit, everything shown is compacted.
_reduce(q, full, covered, bound, minimum) ==
    LET mandatory == q.cut[q.turns - 1].cost
        injected == IF mandatory + full <= q.budget THEN full ELSE Compacted(q, full)
        cuts == Cutoffs(q, injected, bound, minimum)
    IN  IF q.cut[0].cost + full <= q.budget /\ bound = NoRequest /\ minimum = 0
        THEN Complete(q, 0, covered, full)
        ELSE IF mandatory + injected > q.budget
        THEN Failed("pinned_task_state_budget")
        ELSE IF cuts = {}
        THEN Failed(IF bound # NoRequest THEN "checkpoint_consumption_invalid"
                    ELSE "context_budget_exceeded")
        ELSE IF bound = NoRequest /\ Min(cuts) > 0 THEN CheckpointRequired(q, Min(cuts))
        ELSE Complete(q, Min(cuts), covered, injected)

BudgetErrors == {"context_budget_exceeded", "pinned_task_state_budget"}

\* _assemble and _reduce together; the inline history has a limit of its own.
AssembleAndReduce(q, covered, bound, minimum) ==
    IF OptionalHistory(q, covered) > HistoryLimit THEN Failed("context_budget_exceeded")
    ELSE _reduce(q, Injected(q, covered, TRUE), covered, bound, minimum)

\* Planning after a budget error: cut the history without its exchanges, then
\* put back the exchanges the cut does not cover.
Planned(q, m) ==
    LET plan == _reduce(q, Injected(q, 0, FALSE), 0, NoRequest, m)
    IN  IF plan.status # "checkpoint_required" THEN {}
        ELSE {r \in {AssembleAndReduce(q, CoveredThrough(plan.req), NoRequest, plan.dropped)} :
                 r.status \notin BudgetErrors}

\* The first minimum cutoff for which planning succeeds.
RecoverBudget(q, minimum, error) ==
    LET tried == {<<m, Planned(q, m)>> : m \in Max({1, minimum}) .. Cardinality(q.msgs)}
        good == {t \in tried : t[2] # {}}
    IN  IF good = {} THEN error
        ELSE CHOOSE r \in UNION {t[2] : t \in good} :
                \E t \in good : r \in t[2] /\ \A u \in good : t[1] <= u[1]

_compile_core(q, bound, minimum) ==
    LET first == AssembleAndReduce(q, CoveredThrough(bound), bound, minimum)
    IN  IF first.status \notin BudgetErrors THEN first
        ELSE IF bound # NoRequest THEN Failed("checkpoint_consumption_invalid")
        ELSE RecoverBudget(q, minimum, first)

\* A bound pass must have consumed exactly its checkpoint.
_compile_for_coordinator(q, bound) ==
    LET pass == _compile_core(q, bound, 0)
    IN  IF bound = NoRequest \/ pass.status # "complete" THEN pass
        ELSE IF _checkpoint_request_for_indexes(q.es, q.msgs \ pass.shown) = bound
        THEN [pass EXCEPT !.req = bound]
        ELSE Failed("checkpoint_consumption_invalid")
=============================================================================
