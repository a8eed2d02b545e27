---------------------------- MODULE ToolExposure ----------------------------
(***************************************************************************)
(* The tool optimizer (tools/exposure.py) across a durable pause.  When a  *)
(* run has many tools, a selector model picks the few the provider sees;   *)
(* the others stay reachable through four meta tools, which search,        *)
(* describe, load and execute deferred tools.  What was exposed, loaded    *)
(* and deferred is a plan; a pause stores the plan, and the process that   *)
(* resumes rebuilds the exposure from it (agent/builder.py) or refuses.    *)
(*                                                                         *)
(* Tool names are numbers, so that they sort; the meta tools are numbers   *)
(* above them.  A tool is [name, schema, always, defer, confirm].          *)
(***************************************************************************)
EXTENDS Naturals, Sequences, SequencesExt, FiniteSets, FiniteSetsExt

CONSTANTS Kits,         \* toolkits an agent may be built with
          Optimizers,   \* records [enabled, trigger, max_direct_tools]
          Hosts,        \* records [durable, asks]: interaction runtime, on_tool_confirm
          Ghost,        \* a name no toolkit has
          Changes,      \* what a deploy may do to a toolkit: operators' arguments
          MaxLoads, MaxCalls, MaxChanges

VARIABLES host, config, full, st, rt, cont, call, effects, changes, loads

vars == <<host, config, full, st, rt, cont, call, effects, changes, loads>>

META_TOOL_NAMES == <<101, 102, 103, 104>>

META == ToSet(META_TOOL_NAMES)

NamesOf(kit) == [i \in DOMAIN kit |-> kit[i].name]

Names == ToSet(NamesOf(full))

ToolNamed(kit, n) == kit[CHOOSE i \in DOMAIN kit : kit[i].name = n]

Without(s, S) == SelectSeq(s, LAMBDA x : x \notin S)

\* A sequence without its repetitions: _unique_names.
Unique(s) == FoldLeft(LAMBDA acc, x : IF x \in ToSet(acc) THEN acc ELSE Append(acc, x), <<>>, s)

NoPlan == [direct |-> <<>>, deferred |-> <<>>, loaded |-> <<>>, catalog |-> <<>>]

NoCall == [outer |-> "none", name |-> Ghost]

NoRequest == [call |-> NoCall, schema |-> 0]

NoContinuation == [kind |-> "none", plan |-> NoPlan, request |-> NoRequest, answer |-> "none",
                   exposed |-> {}]

----------------------------------------------------------------------------
(* The selection.                                                         *)

_always_load_names(kit) == NamesOf(SelectSeq(kit, LAMBDA t : t.always))

\* What the selector model names, cleaned of the names it invented.
_sanitize_selector_names(kit, named) == Unique(SelectSeq(named, LAMBDA n : n \in ToSet(NamesOf(kit))))

\* By score, of which a tool deferred by default loses 5 (the others gain it here),
\* those that are not deferred by default first, then by name.
_fallback_tool_names(kit, score) ==
    LET worth(n) == IF ToolNamed(kit, n).defer THEN score[n] ELSE score[n] + 5
        before(m, n) == \/ worth(m) > worth(n)
                        \/ worth(m) = worth(n) /\ ToolNamed(kit, n).defer /\ ~ToolNamed(kit, m).defer
                        \/ /\ worth(m) = worth(n) /\ ToolNamed(kit, n).defer = ToolNamed(kit, m).defer
                           /\ m < n
    IN  SetToSortSeq(ToSet(NamesOf(kit)), before)

\* The names of the selector; the fallback order when it failed or named none.
_select_tool_names(kit, named, score) ==
    LET chosen == _sanitize_selector_names(kit, named)
    IN  IF chosen = <<>> THEN _fallback_tool_names(kit, score) ELSE chosen

\* The tools that are always loaded, then the selected ones within the budget.
_resolve_direct_original_names(kit, optimizer, selected) ==
    LET always == _always_load_names(kit)
        budget == IF optimizer.max_direct_tools > Len(META_TOOL_NAMES)
                  THEN optimizer.max_direct_tools - Len(META_TOOL_NAMES) ELSE 0
        others == Without(selected, ToSet(always))
    IN  IF Len(always) >= budget THEN always
        ELSE always \o SubSeq(others, 1, Min({Len(others), budget - Len(always)}))

\* Direct tools first, then the meta tools.
_build_exposed_toolkit(direct) == direct \o META_TOOL_NAMES

NotSelected(kit) == [used |-> FALSE, direct |-> NamesOf(kit), deferred |-> <<>>, loaded |-> <<>>,
                     exposed |-> NamesOf(kit)]

\* ToolExposureRuntime.prepare without a plan to replay.
prepare(kit, optimizer, named, score) ==
    IF ~optimizer.enabled \/ Len(kit) <= optimizer.trigger THEN NotSelected(kit)
    ELSE LET direct == _resolve_direct_original_names(kit, optimizer,
                                                      _select_tool_names(kit, named, score))
         IN  [used |-> TRUE, direct |-> direct \o META_TOOL_NAMES,
              deferred |-> Without(NamesOf(kit), ToSet(direct)), loaded |-> <<>>,
              exposed |-> _build_exposed_toolkit(direct)]

----------------------------------------------------------------------------
(* The plan of a pause, and its replay.                                   *)

\* What the digest of the catalog covers: not whether a tool asks for approval.
_catalog_manifest(kit) ==
    [i \in DOMAIN kit |-> [name |-> kit[i].name, schema |-> kit[i].schema,
                           always |-> kit[i].always, defer |-> kit[i].defer]]

durable_plan_snapshot ==
    IF ~rt.used THEN NoPlan
    ELSE [direct |-> Without(rt.direct, META), deferred |-> rt.deferred, loaded |-> rt.loaded,
          catalog |-> _catalog_manifest(full)]

_plan_name_list(s) == Len(s) = Cardinality(ToSet(s))

\* The plan is checked for its shape only.
ReplaysUnchecked(plan, kit) ==
    /\ _plan_name_list(plan.direct) /\ _plan_name_list(plan.deferred) /\ _plan_name_list(plan.loaded)
    /\ ToSet(plan.loaded) \subseteq ToSet(plan.direct)

\* The plan names this very catalog and partitions it.
Replays(plan, kit) ==
    /\ plan.catalog = _catalog_manifest(kit)
    /\ _plan_name_list(plan.direct) /\ _plan_name_list(plan.deferred) /\ _plan_name_list(plan.loaded)
    /\ ToSet(plan.direct) \cap ToSet(plan.deferred) = {}
    /\ ToSet(plan.direct) \cup ToSet(plan.deferred) = ToSet(NamesOf(kit))
    /\ ToSet(plan.loaded) \subseteq ToSet(plan.direct)

_prepare_replay_plan(plan) ==
    [used |-> TRUE, direct |-> plan.direct \o META_TOOL_NAMES, deferred |-> plan.deferred,
     loaded |-> plan.loaded, exposed |-> _build_exposed_toolkit(plan.direct)]

\* A continuation of a durable pause may not select again.
RequiresPlan(kit, optimizer, plan) ==
    optimizer.enabled /\ plan = NoPlan /\ Len(kit) > optimizer.trigger

\* _prepare_tool_exposure for a continuation: refused, or the new runtime.
ResumeRefused(plan) ==
    \/ plan # NoPlan /\ ~config.enabled
    \/ RequiresPlan(full, config, plan)
    \/ plan # NoPlan /\ ~Replays(plan, full)

ResumedRuntime(plan) ==
    IF plan # NoPlan THEN _prepare_replay_plan(plan) ELSE NotSelected(full)

----------------------------------------------------------------------------
(* Calls.                                                                 *)

\* prepare_tool_confirmation: the flag of the tool and its policy.
NeedsConfirmation(n) == n \in Names /\ ToolNamed(full, n).confirm

\* parse_execute_deferred_arguments and the two refusals behind it.
Executable(n) == n \in Names /\ n \notin META

\* What an approval is bound to: the tool, its arguments and schema and, for a
\* deferred tool, the outer call.
build_tool_approval_interaction_request(c) == [call |-> c, schema |-> ToolNamed(full, c.name).schema]

Suspend(kind, request) ==
    /\ st' = "suspended"
    /\ cont' = [kind |-> kind, plan |-> durable_plan_snapshot, request |-> request,
                answer |-> "none", exposed |-> ToSet(rt.exposed)]

\* execute_confirmable_tool_call: a denial runs nothing, an edited approval runs
\* with the edited arguments; no one to ask, the tool runs.
execute_confirmable_tool_call(c, answer) ==
    effects' = IF answer = "denied" THEN effects
               ELSE effects \cup {[outer |-> c.outer, name |-> c.name, answer |-> answer,
                                   schema |-> ToolNamed(full, c.name).schema,
                                   asked |-> NeedsConfirmation(c.name),
                                   request |-> cont.request]}

Answers == {"approved", "edited", "denied"}

----------------------------------------------------------------------------
Init ==
    /\ host \in Hosts /\ config \in Optimizers /\ full \in Kits
    /\ st = "new" /\ rt = NotSelected(full) /\ cont = NoContinuation /\ call = NoCall
    /\ effects = {} /\ changes = 0 /\ loads = 0

\* The first exposure of the run: any answer of the selector, or none.
Prepare(named, score) ==
    /\ st = "new"
    /\ st' = "running"
    /\ rt' = prepare(full, config, named, score)
    /\ UNCHANGED <<host, config, full, cont, call, effects, changes, loads>>

\* tool_load: unknown and exposed tools change nothing, the others are
\* registered; they move from the deferred to the direct names.
DeferredKept(names) == rt.deferred

DeferredLeft(names) == Without(rt.deferred, ToSet(names))

tool_load(names) ==
    LET new == SelectSeq(Unique(names), LAMBDA n : n \in Names /\ n \notin ToSet(rt.exposed))
        loaded == Unique(rt.loaded \o new)
    IN  /\ st = "running" /\ rt.used /\ loads < MaxLoads
        /\ rt' = [rt EXCEPT !.exposed = @ \o new, !.loaded = loaded,
                            !.direct = Unique(@ \o loaded), !.deferred = DeferredLeft(loaded)]
        /\ loads' = loads + 1
        /\ UNCHANGED <<host, config, full, st, cont, call, effects, changes>>

\* The model calls a tool it sees, or a deferred one through tool_execute_deferred.
Callable(outer, n) ==
    \/ outer = "direct" /\ n \in ToSet(rt.exposed) \ META
    \/ outer = "deferred" /\ rt.used

\* The harness asks first where it can wait for the answer; a deferred tool is
\* asked for by its plugin; what cannot be executed is answered with an error.
on_tool_call(outer, n) ==
    LET c == [outer |-> outer, name |-> n]
        waits == host.durable /\ Executable(n) /\ NeedsConfirmation(n)
    IN  /\ st = "running" /\ Callable(outer, n) /\ Cardinality(effects) < MaxCalls
        /\ IF waits
           THEN /\ Suspend("tool_approval", build_tool_approval_interaction_request(c))
                /\ call' = c
                /\ UNCHANGED effects
           ELSE /\ IF ~Executable(n) THEN UNCHANGED effects
                   ELSE \E answer \in (IF NeedsConfirmation(n) /\ host.asks THEN Answers
                                       ELSE {"unasked"}) :
                          execute_confirmable_tool_call(c, answer)
                /\ UNCHANGED <<st, cont, call>>
        /\ UNCHANGED <<host, config, full, rt, changes, loads>>

\* The run pauses for a question or because its iterations are used up.
Pause(kind) ==
    /\ st = "running" /\ host.durable
    /\ Suspend(kind, NoRequest)
    /\ UNCHANGED <<host, config, full, rt, call, effects, changes, loads>>

Respond(answer) ==
    /\ st = "suspended" /\ cont.answer = "none"
    /\ cont' = [cont EXCEPT !.answer = answer]
    /\ UNCHANGED <<host, config, full, st, rt, call, effects, changes, loads>>

\* The agent is deployed anew while the run waits: a tool changes, comes or goes,
\* or the optimizer is switched off.
Deploy(kit, optimizer) ==
    /\ st = "suspended" /\ changes < MaxChanges
    /\ <<kit, optimizer>> # <<full, config>>
    /\ full' = kit /\ config' = optimizer
    /\ changes' = changes + 1
    /\ UNCHANGED <<host, st, rt, cont, call, effects, loads>>

\* A process resumes the answered pause: it rebuilds the exposure or fails.
Resume ==
    /\ st = "suspended" /\ cont.answer # "none"
    /\ IF ResumeRefused(cont.plan)
       THEN st' = "failed" /\ UNCHANGED <<rt, cont>>
       ELSE /\ rt' = ResumedRuntime(cont.plan)
            /\ st' = IF cont.kind = "tool_approval" THEN "resumed" ELSE "running"
            /\ cont' = IF cont.kind = "tool_approval" THEN cont ELSE NoContinuation
    /\ UNCHANGED <<host, config, full, call, effects, changes, loads>>

\* The approval still asks for what is about to run.
NoBinding(stored, c) == TRUE

ensure_interaction_binding_matches(stored, c) ==
    /\ c.name \in Names
    /\ stored = build_tool_approval_interaction_request(c)

\* The paused call is prepared again: it must still need the approval it has.
ResumedCall ==
    /\ st = "resumed"
    /\ IF Executable(call.name) /\ NeedsConfirmation(call.name)
          /\ ensure_interaction_binding_matches(cont.request, call)
       THEN /\ execute_confirmable_tool_call(call, cont.answer)
            /\ st' = "running" /\ cont' = NoContinuation /\ call' = NoCall
       ELSE /\ st' = "failed"
            /\ UNCHANGED <<effects, cont, call>>
    /\ UNCHANGED <<host, config, full, rt, changes, loads>>

Selections == SeqOf({t.name : t \in UNION {ToSet(k) : k \in Kits}} \cup {Ghost}, 2)

Next ==
    \/ \E named \in Selections : \E score \in [Names -> {0, 1}] : Prepare(named, score)
    \/ \E names \in Selections : tool_load(names)
    \/ \E outer \in {"direct", "deferred"} : \E n \in Names \cup {Ghost} \cup META : on_tool_call(outer, n)
    \/ \E kind \in {"human_input", "max_budget"} : Pause(kind)
    \/ \E answer \in Answers : Respond(answer)
    \/ \E c \in Changes : Deploy(c.kit, c.optimizer)
    \/ Resume
    \/ ResumedCall

Spec == Init /\ [][Next]_vars

----------------------------------------------------------------------------
\* A resumed run whose tools were selected shows the provider exactly the tools
\* the paused run showed, with the schemas they had, and keeps every other tool
\* reachable; no resumed run selects anew (_prepare_replay_plan, the plan that is
\* required of a durable continuation).
ReplayStep ==
    (st = "suspended" /\ st' \in {"resumed", "running"}) =>
      /\ rt'.used <=> cont.plan # NoPlan
      /\ rt'.used => /\ ToSet(rt'.exposed) = cont.exposed
                     /\ cont.plan.catalog = _catalog_manifest(full)
                     /\ Names = (ToSet(rt'.exposed) \ META) \cup ToSet(rt'.deferred)

ReplayIsExact == [][ReplayStep]_vars

\* Whatever was loaded and in whatever order, a paused run whose agent did not
\* change can be resumed: the plan tool_load keeps is always a partition.
UnchangedResumes == st = "failed" => changes > 0

\* A tool that asks for approval runs, directly or through tool_execute_deferred,
\* only with the answer to the request for that very tool, outer call and schema,
\* whenever the run can wait for one (execute, ensure_interaction_binding_matches).
DeferredAsApproved ==
    \A e \in effects :
        (e.asked /\ host.durable) =>
            /\ e.answer \in {"approved", "edited"}
            /\ e.request.call = [outer |-> e.outer, name |-> e.name]
            /\ e.request.schema = e.schema
=============================================================================
