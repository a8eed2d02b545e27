----------------------------- MODULE TurnTools -----------------------------
(***************************************************************************)
(* The tools of one durable attempt, from the live objects of a process to *)
(* the provider's wire and back to the invocation: context/runtime.py      *)
(* (boundary, prepare_tool_execution), context/provider_turns.py,          *)
(* context/tool_routes.py and providers/prepared_turn.py over the formats  *)
(* of WireFormat.  The host may change its tools at any moment: edit an    *)
(* object in place, put another object in the toolkit, or ship other code  *)
(* and restart.  heap holds the tool objects of the living process, kit    *)
(* which of them its toolkit exposes, shipped what a restart builds.  The  *)
(* interleavings of the durable writes are ProviderTurn's and              *)
(* ToolExecution's subject; here each write is one step.                   *)
(***************************************************************************)
EXTENDS WireFormat

CONSTANTS Sites,       \* turns: provider, messages, payload, capability
          Shipped0,    \* the tools a fresh process builds, in toolkit order
          Changes,     \* the changes a host may make: [field, value] records
          MaxChanges,  \* bound on the changes of a behaviour
          MaxCrashes,  \* bound on the restarts
          MaxIters     \* bound on the iterations

VARIABLES site, heap, kit, shipped, run, store, effects, changes, crashes

vars == <<site, heap, kit, shipped, run, store, effects, changes, crashes>>

NoCall == [name |-> "none", args |-> 0]

NoRequest == [kind |-> "none"]

NoDraft == [regs |-> <<>>, frozen |-> <<>>, catalog |-> <<>>, request |-> <<>>]

Idle(i) == [pc |-> "start", iter |-> i, bound |-> <<>>, draft |-> NoDraft,
            wire |-> Refused, call |-> NoCall, route |-> NoRequest, permit |-> NoRequest,
            resumed |-> FALSE]

Init ==
    /\ site \in Sites
    /\ heap = Shipped0 /\ kit = [i \in DOMAIN Shipped0 |-> i]
    /\ shipped = Shipped0
    /\ run = Idle(1)
    /\ store = [catalogs |-> <<>>, wires |-> <<>>, answers |-> <<>>, request |-> NoRequest,
                receipt |-> NoRequest]
    /\ effects = <<>> /\ changes = 0 /\ crashes = 0

At(pc) == run.pc = pc

Fails == run' = [run EXCEPT !.pc = "failed"]

Live(o) == heap[o]

\* What a toolkit shows now: the identities of its tools and functions.
tool_identities(objs) == [i \in DOMAIN objs |-> <<Live(objs[i]).name, objs[i], Live(objs[i]).fn>>]

Objs == [i \in DOMAIN run.bound |-> run.bound[i][2]]

Named(n) == {i \in DOMAIN run.bound : run.bound[i][1] = n}

---------------------------------------------------------------------------
(* The host. *)

\* A tool object changed in place.
EditTool(o, c) ==
    /\ changes < MaxChanges /\ run.pc \notin {"failed", "done"}
    /\ o \in ToSet(kit) /\ Live(o)[c.field] # c.value
    /\ heap' = [heap EXCEPT ![o][c.field] = c.value]
    /\ changes' = changes + 1
    /\ UNCHANGED <<site, kit, shipped, run, store, effects, crashes>>

\* Another object registered under the name.
ReplaceTool(i, c) ==
    /\ changes < MaxChanges /\ run.pc \notin {"failed", "done"}
    /\ Live(kit[i])[c.field] # c.value
    /\ heap' = Append(heap, [Live(kit[i]) EXCEPT ![c.field] = c.value])
    /\ kit' = [kit EXCEPT ![i] = Len(heap) + 1]
    /\ changes' = changes + 1
    /\ UNCHANGED <<site, shipped, run, store, effects, crashes>>

\* The process dies; the next one builds its tools, other objects, from the code it
\* ships with.
Crash(next) ==
    /\ crashes < MaxCrashes /\ run.pc \notin {"failed", "done"}
    /\ heap' = [i \in DOMAIN next |-> [next[i] EXCEPT !.fn = <<crashes + 1, @[2]>>]] /\ kit' = [i \in DOMAIN next |-> i] /\ shipped' = next
    /\ run' = IF At("suspended") THEN run ELSE [Idle(run.iter) EXCEPT
                 !.pc = IF store.request # NoRequest THEN "suspended" ELSE "start",
                 !.call = IF store.request # NoRequest THEN store.request.call ELSE NoCall]
    /\ crashes' = crashes + 1
    /\ UNCHANGED <<site, store, effects>>

Restart == Crash(shipped) /\ UNCHANGED changes

Redeploy(i, c) ==
    /\ changes < MaxChanges /\ shipped[i][c.field] # c.value
    /\ Crash([shipped EXCEPT ![i][c.field] = c.value])
    /\ changes' = changes + 1

---------------------------------------------------------------------------
(* One provider turn. *)

\* The boundary: two toolkits over the objects of the source toolkit, and the
\* binding that names them.
PrepareBoundary ==
    /\ At("start")
    /\ run' = [run EXCEPT !.pc = "bound", !.bound = tool_identities(kit)]
    /\ UNCHANGED <<site, heap, kit, shipped, store, effects, changes, crashes>>

Registrations == [i \in DOMAIN run.bound |-> register_exact(Objs[i], Live(Objs[i]))]

RequestOf(i) == resolve_request_payload(site, site.provider)

Prompt(i) == [messages |-> site.messages, format |-> RequestOf(i).format]

\* The draft of a turn; a model without tools keeps no resolutions.
provider_turn_draft(i, regs) ==
    LET frozen == frozen_toolkit(regs, site.provider, site.supports)
    IN  [regs |-> IF site.supports THEN regs ELSE <<>>, frozen |-> frozen,
         catalog |-> tool_catalog(i, site.provider, frozen, Prompt(i)), request |-> RequestOf(i)]

\* The frozen toolkit is still what the registered tools would be frozen into.
verify_frozen_toolkit(d) ==
    /\ frozen_toolkit_valid(d.frozen, site.supports)
    /\ Len(d.regs) = Len(d.frozen)
    /\ \A i \in DOMAIN d.regs :
         /\ verify_resolution(d.regs[i], Live(d.regs[i].obj))
         /\ d.frozen[i] = frozen_tool(d.regs[i], site.provider)

\* The registry of the turn, the frozen toolkit and the draft over it.
BuildDraft ==
    /\ At("bound")
    /\ \E regs \in {Registrations} : \E d \in {provider_turn_draft(run.iter, regs)} :
         run' = IF /\ RegistryAccepts(regs) /\ request_payload_accepts(d.request)
                   /\ verify_frozen_toolkit(d) /\ catalog_valid(d.catalog)
                THEN [run EXCEPT !.pc = "draft", !.draft = d]
                ELSE [run EXCEPT !.pc = "failed"]
    /\ UNCHANGED <<site, heap, kit, shipped, store, effects, changes, crashes>>

\* The draft still describes its tools and its request.
verify_draft(d) ==
    /\ verify_frozen_toolkit(d)
    /\ catalog_valid(d.catalog) /\ d.catalog.iteration = run.iter
    /\ d.catalog.schemas = WithTools(d.frozen) /\ d.catalog.betas = toolkit_betas(d.frozen)

\* A prepared turn may be issued: the recorded catalog is the draft's.
issue_prepared_turn(d) == verify_draft(d) /\ store.catalogs[run.iter] = d.catalog

\* A prepared turn may be consumed: nothing moved since it was issued.
prepared_record(d) == verify_draft(d) /\ store.catalogs[run.iter] = d.catalog

Has(f, i) == i \in DOMAIN f

Put(f, i, v) == [j \in DOMAIN f \cup {i} |-> IF j = i THEN v ELSE f[j]]

\* The catalog of the iteration: the one recorded, which must be the draft's, or
\* the draft's, recorded now.
AdoptCatalog ==
    /\ At("draft")
    /\ IF Has(store.catalogs, run.iter)
       THEN /\ run' = [run EXCEPT !.pc = IF store.catalogs[run.iter] = run.draft.catalog
                                         THEN "catalog" ELSE "failed"]
            /\ UNCHANGED store
       ELSE /\ run' = [run EXCEPT !.pc = "catalog"]
            /\ store' = [store EXCEPT !.catalogs = Put(@, run.iter, run.draft.catalog)]
    /\ UNCHANGED <<site, heap, kit, shipped, effects, changes, crashes>>

\* The prepared turn binds the draft to the recorded catalog.
IssuePrepared ==
    /\ At("catalog")
    /\ IF issue_prepared_turn(run.draft) THEN run' = [run EXCEPT !.pc = "prepared"] ELSE Fails
    /\ UNCHANGED <<site, heap, kit, shipped, store, effects, changes, crashes>>

\* The turn is consumed, which verifies the tools once more, and becomes a wire.
PrepareWire ==
    /\ At("prepared")
    /\ \E w \in {IF prepared_record(run.draft)
                 THEN prepare_wire(run.iter, run.draft.request, run.draft.frozen, run.draft.catalog)
                 ELSE Refused} :
         IF w = Refused THEN Fails ELSE run' = [run EXCEPT !.pc = "wire", !.wire = w]
    /\ UNCHANGED <<site, heap, kit, shipped, store, effects, changes, crashes>>

\* The wire of the iteration: the one recorded, which must be this one and
\* belong to the catalog, or this one, recorded and read back.
WireAuthority ==
    /\ At("wire")
    /\ IF Has(store.wires, run.iter)
       THEN /\ run' = [run EXCEPT !.pc =
                 IF /\ store.wires[run.iter] = run.wire
                    /\ valid_envelope(run.wire)
                    /\ verify_against_catalog(run.wire, store.catalogs[run.iter])
                 THEN "send" ELSE "failed"]
            /\ UNCHANGED store
       ELSE /\ run' = [run EXCEPT !.pc = "send"]
            /\ store' = [store EXCEPT !.wires = Put(@, run.iter, run.wire)]
    /\ UNCHANGED <<site, heap, kit, shipped, effects, changes, crashes>>

\* The provider answers: it calls a tool it was shown, or it ends the turn.  An
\* answer already recorded for the iteration is not asked for again.
Answers(w) ==
    {[name |-> w.routes[1].request.tools[i].name, args |-> 1] :
        i \in DOMAIN w.routes[1].request.tools} \cup {NoCall}

Send ==
    /\ At("send")
    /\ IF Has(store.answers, run.iter)
       THEN /\ run' = [run EXCEPT !.pc = "answered", !.call = store.answers[run.iter]]
            /\ UNCHANGED store
       ELSE \E a \in IF run.iter < MaxIters THEN Answers(run.wire) ELSE {NoCall} :
              /\ run' = [run EXCEPT !.pc = "answered", !.call = a]
              /\ store' = [store EXCEPT !.answers = Put(@, run.iter, a)]
    /\ UNCHANGED <<site, heap, kit, shipped, effects, changes, crashes>>

\* The binding still names the tools of the execution toolkit.
binding_matches == tool_identities(Objs) = run.bound

ValidateTurn ==
    /\ At("answered")
    /\ run' = [run EXCEPT !.pc = IF ~binding_matches THEN "failed"
                                 ELSE IF run.call = NoCall THEN "done" ELSE "call"]
    /\ UNCHANGED <<site, heap, kit, shipped, store, effects, changes, crashes>>

---------------------------------------------------------------------------
(* One tool call. *)

\* The frozen route: a copy of the tool, its function and its manifest.
normal_route(t) == [manifest |-> [name |-> t.name, schema |-> t.schema, man |-> t.man],
                    tool |-> t]

\* What a request for approval is bound to: the call, the schema its tool shows now,
\* the frozen route.
runtime_schema_subject(t) == [provider |-> site.provider, schema |-> to_provider_json(t, site.provider)]

approval_request(t) ==
    [kind |-> "tool_approval", call |-> run.call, iter |-> run.iter,
     runtime |-> runtime_schema_subject(t), route |-> run.route.manifest]

ensure_interaction_binding_matches(stored, now) == stored = now

Permit(state, args) == [kind |-> state, args |-> args]

Called == Live(Objs[CHOOSE i \in Named(run.call.name) : TRUE])

\* prepare_tool_execution first freezes the route of the call.
FreezeRoute ==
    /\ At("call")
    /\ run' = IF binding_matches /\ Named(run.call.name) # {}
              THEN [run EXCEPT !.pc = "frozen", !.route = normal_route(Called) @@ [changes |-> changes]]
              ELSE [run EXCEPT !.pc = "failed"]
    /\ UNCHANGED <<site, heap, kit, shipped, store, effects, changes, crashes>>

\* Then it asks the tool, as it is by then, whether it wants an approval.  A call whose
\* tool no longer asks runs as it is, unless an approval is pending.
PrepareToolConfirmation ==
    /\ At("frozen")
    /\ \E asked \in {run.route @@ [asks |-> Called.confirm, edited |-> changes # run.route.changes]} :
         run' = IF Called.confirm THEN [run EXCEPT !.pc = "asking", !.route = asked]
                ELSE IF run.resumed THEN [run EXCEPT !.pc = "failed"]
                ELSE [run EXCEPT !.pc = "permitted", !.route = asked,
                                 !.permit = Permit("not_required", run.call.args)]
    /\ UNCHANGED <<site, heap, kit, shipped, store, effects, changes, crashes>>

\* A call that needs approval either suspends with a request or, resumed, must
\* find the receipt of the request it would make now.
RequestApproval ==
    /\ At("asking")
    /\ IF ~run.resumed
       THEN /\ store' = [store EXCEPT !.request = approval_request(Called)]
            /\ run' = [run EXCEPT !.pc = "suspended"]
       ELSE /\ UNCHANGED store
            /\ run' = IF ensure_interaction_binding_matches(store.request, approval_request(Called))
                      THEN [run EXCEPT !.pc = "permitted",
                              !.permit = IF store.receipt.approved
                                         THEN Permit("approved", store.receipt.args)
                                         ELSE Permit("denied", 0)]
                      ELSE [run EXCEPT !.pc = "failed"]
    /\ UNCHANGED <<site, heap, kit, shipped, effects, changes, crashes>>

\* The operator answers: approved, perhaps with other arguments, or denied.
Respond(approved, args) ==
    /\ store.request # NoRequest /\ store.receipt = NoRequest
    /\ store' = [store EXCEPT !.receipt = [approved |-> approved, args |-> args]]
    /\ UNCHANGED <<site, heap, kit, shipped, run, effects, changes, crashes>>

\* The resumed attempt binds the paused call to the toolkit of this process.
PrepareToolResume ==
    /\ At("suspended") /\ store.receipt # NoRequest
    /\ run' = [Idle(run.iter) EXCEPT !.pc = "call", !.call = store.request.call,
                                     !.bound = tool_identities(kit), !.resumed = TRUE]
    /\ UNCHANGED <<site, heap, kit, shipped, store, effects, changes, crashes>>

\* The permit is spent on the frozen route; a denied call completes without it.
\* The interaction is cleared with the completed batch.
ExecutePrepared ==
    /\ At("permitted")
    /\ effects' = IF run.permit.kind = "denied" THEN effects
                  ELSE Append(effects,
                         [iter |-> run.iter, manifest |-> run.route.manifest,
                          tool |-> run.route.tool, asks |-> run.route.asks,
                          edited |-> run.route.edited, args |-> run.permit.args,
                          state |-> run.permit.kind, request |-> store.request,
                          receipt |-> store.receipt])
    /\ store' = [store EXCEPT !.request = NoRequest, !.receipt = NoRequest]
    /\ run' = Idle(run.iter + 1)
    /\ UNCHANGED <<site, heap, kit, shipped, changes, crashes>>

Next ==
    \/ \E o \in DOMAIN heap, c \in Changes : EditTool(o, c)
    \/ \E i \in DOMAIN kit, c \in Changes : ReplaceTool(i, c)
    \/ Restart
    \/ \E i \in DOMAIN shipped, c \in Changes : Redeploy(i, c)
    \/ PrepareBoundary \/ BuildDraft \/ AdoptCatalog \/ IssuePrepared \/ PrepareWire
    \/ WireAuthority \/ Send \/ ValidateTurn
    \/ FreezeRoute \/ PrepareToolConfirmation \/ RequestApproval
    \/ \E a \in BOOLEAN, x \in 1..2 : Respond(a, x)
    \/ PrepareToolResume \/ ExecutePrepared

Spec == Init /\ [][Next]_vars

---------------------------------------------------------------------------
\* A wire becomes a turn's wire only when every tool it shows is shown as the live
\* object stands at that moment, in toolkit order, on every route, and the beta
\* header is the request's followed by what the tools need (prepare_provider_wire
\* consuming the prepared turn).
WireStep ==
    run.pc = "prepared" /\ run'.pc = "wire" =>
      LET live == IF site.supports
                  THEN [i \in DOMAIN run.bound |-> Live(Objs[i])] ELSE <<>>
          needed == IF site.provider \in Anthropic
                    THEN ToSet(site.betas) \cup UNION {ToSet(live[i].betas) : i \in DOMAIN live}
                    ELSE {}
      IN  \A r \in DOMAIN run'.wire.routes :
            /\ run'.wire.routes[r].request.tools =
                 [i \in DOMAIN live |-> to_provider_json(live[i], site.provider)]
            /\ ToSet(run'.wire.routes[r].request.betas) = needed
            /\ Len(run'.wire.routes[r].request.betas) = Cardinality(needed)

WireShowsLiveTools == [][WireStep]_vars

\* Every invocation runs a tool the provider was shown in that iteration, under the
\* manifest and arguments the operator approved if the tool asked for approval.  A
\* tool that asks when it is asked never runs without an approval, and the copy that
\* runs asks too, unless the host changed its tools between the freezing of the route
\* and the question (prepare_tool_execution).
RunsAsApproved ==
    \A k \in DOMAIN effects :
      LET e == effects[k]
      IN  /\ \E i \in DOMAIN store.catalogs[e.iter].schemas :
               store.catalogs[e.iter].schemas[i].name = e.manifest.name
          /\ e.asks <=> e.state = "approved"
          /\ e.tool.confirm = e.asks \/ e.edited
          /\ e.state = "approved" =>
               /\ e.request.route = e.manifest /\ e.receipt.approved
               /\ e.args = e.receipt.args
               /\ e.request.call = store.answers[e.iter]
          /\ \A j \in DOMAIN effects : effects[j].iter = e.iter => j = k

\* Tools that nobody changed never fail an attempt, whatever crashes it meets: a new
\* process rebuilds the same catalog, wire and approval request from other objects.
OnlyChangeFails == At("failed") => changes > 0
=============================================================================
