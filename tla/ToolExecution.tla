--------------------------- MODULE ToolExecution ---------------------------
(* The tool calls of one model turn, run by host processes that overlap,   *)
(* stall, crash and restart.  Every call leaves receipts in the execution  *)
(* journal: the intent, the start, for a stateful tool the sealed          *)
(* completion, and the result.  A process asks for an authorization, which *)
(* says whether to run the handler, to finalize a sealed completion or to  *)
(* reuse a result.  Each store call is one transaction and one step here;  *)
(* the execution lease may be lost between any two of them.                *)
EXTENDS Naturals, Sequences, Functions

CONSTANTS Procs,      \* host processes
          Owners,     \* the lease owner ids the processes may be given
          Batch,      \* the tool calls of the turn, in order
          Stateful,   \* calls whose handler changes the subagent state
          Guarded,    \* calls that need the user's approval
          MaxToken,   \* bound on the fencing tokens handed out
          None

Calls == Range(Batch)

VARIABLES owners,      \* the lease owner id of each process, one of Owners
          lease,      \* the execution lease: owner and fencing token
          decision,   \* the receipt of the user's answer for each call
          saved,      \* the checkpoint written when the run suspends
          intent,     \* calls with a tool_call event
          started,    \* the tool.started receipt of each call: its subject
          sealed,     \* the sealed completion of each call
          result,     \* the tool_result receipt of each call
          artifacts,  \* artifacts that are durable
          proc,       \* what each process is doing
          effects,    \* history: handler runs of each call
          delivered   \* history: completions handed to the model

receipts == <<intent, started, sealed, result>>
durable == <<lease, decision, saved, receipts, artifacts>>
history == <<effects, delivered>>
vars == <<owners, durable, proc, history>>

Decisions == {"approved", "modified", "denied"}

Subjects == [approval : Decisions \union {"not_required"},
             owner : UNION {Range(o) : o \in Owners}, token : 1..MaxToken]

States == Seq(Stateful)

\* The completion envelope: the subject it was produced under and the state
\* transition, from one snapshot of the subagent state to the next.
Completions == [subject : Subjects, base : States, next : States]

\* What the code takes for granted of a turn: its calls are distinct, and no value is None.
BatchFit ==
    /\ MaxToken \in Nat
    /\ Batch \in Seq(Calls) /\ IsInjective(Batch)
    /\ Stateful \subseteq Calls /\ Guarded \subseteq Calls
    /\ \A o \in Owners : o \in [Procs -> Range(o)] /\ None \notin Range(o)
    /\ None \notin Calls \union Decisions \union {"not_required"}
    /\ None \notin Subjects /\ None \notin Completions

Fresh == [pending |-> None, state |-> <<>>, done |-> <<>>]

Idle == [st |-> "idle", token |-> 0, resumed |-> None, bound |-> FALSE,
         subject |-> None, disp |-> "none", completion |-> None,
         state |-> <<>>, done |-> <<>>]

Init ==
    /\ owners \in Owners
    /\ lease = [owner |-> None, token |-> 0]
    /\ decision = [c \in Calls |-> None]
    /\ saved = Fresh
    /\ intent = {}
    /\ started = [c \in Calls |-> None]
    /\ sealed = [c \in Calls |-> None]
    /\ result = [c \in Calls |-> None]
    /\ artifacts = {}
    /\ proc = [p \in Procs |-> Idle]
    /\ effects = [c \in Calls |-> <<>>]
    /\ delivered = {}

At(p, l) == proc[p].st = l
Goto(p, l) == proc' = [proc EXCEPT ![p].st = l]

\* The call process p is at.
Call(p) == Batch[Len(proc[p].done) + 1]

\* The fence of the guard p holds, and whether the store agrees with it.
Fence(p) == [owner |-> owners[p], token |-> proc[p].token]
Live(p) == lease = Fence(p)

Released(p) == IF Live(p) THEN [lease EXCEPT !.owner = None] ELSE lease

\* The run ends: it returns, or raises and the attempt's failure is latched.
Ends(p) == proc' = [proc EXCEPT ![p] = Idle] /\ lease' = Released(p)
Raises(p, error) == Ends(p)

\* recover_tool_side_effect: what the receipts of a call say.
Recovery(c) ==
    IF c \notin intent THEN "corrupt"
    ELSE IF result[c] # None THEN "reusable"
    ELSE IF sealed[c] # None THEN "finalizable"
    ELSE IF started[c] # None THEN "uncertain"
    ELSE "not_started"

\* _verify_event_subject with allow_newer_fence.
Admits(recorded, current) ==
    /\ current.approval = recorded.approval
    /\ current.token >= recorded.token
    /\ current.token = recorded.token => current.owner = recorded.owner

HasTransition(k) == k.next # k.base

\* The artifacts of a completion; their operation ids carry the subject.
Artifacts(c, k) == {<<"result", c, k.subject>>, <<"completion", c, k.subject>>}
    \union (IF HasTransition(k) THEN {<<"next", c, k.subject>>} ELSE {})

---------------------------------------------------------------------------
(* Runs, the lease and approvals *)

\* A run of the attempt begins, or resumes from the checkpoint once the user
\* has answered.  A lease that expired is taken over under the next token; a
\* process with the owner id of the current lease is given the same token.
Acquire(p) ==
    /\ At(p, "idle")
    /\ saved.pending # None => decision[saved.pending] # None
    /\ \/ lease.owner = owners[p] /\ lease' = lease
       \/ /\ lease.token < MaxToken
          /\ lease' = [owner |-> owners[p], token |-> lease.token + 1]
    /\ proc' = [proc EXCEPT ![p] = [Idle EXCEPT
                  !.st = "ready", !.token = lease'.token,
                  !.resumed = saved.pending,
                  !.state = saved.state, !.done = saved.done]]
    /\ UNCHANGED <<decision, saved, receipts, artifacts, history>>

\* The harness journals the intent; its event is keyed by the call.
EmitCall(p) ==
    /\ At(p, "ready") /\ proc[p].done # Batch
    /\ intent' = intent \union {Call(p)}
    /\ Goto(p, "prepare")
    /\ UNCHANGED <<lease, decision, saved, started, sealed, result, artifacts,
                   history>>

\* The subject a call is run under: how it was approved, and the fence of the
\* guard, read without asking the store.
Subject(p, a) == [approval |-> a, owner |-> owners[p], token |-> proc[p].token]

\* prepare_tool_execution: a recorded completion is recovered under its own
\* subject and the current fence; otherwise the subject follows the approval.
Prepare(p) ==
    LET c == Call(p)
        Prepared(a) == proc' = [proc EXCEPT ![p].st = "execute",
                                            ![p].subject = Subject(p, a)] IN
    /\ At(p, "prepare")
    /\ IF Recovery(c) \in {"finalizable", "reusable"}
       THEN Prepared(started[c].approval)
       ELSE IF c \notin Guarded THEN Prepared("not_required")
       ELSE IF proc[p].resumed = c THEN Prepared(decision[c])
       ELSE Goto(p, "suspend")
    /\ UNCHANGED <<durable, history>>

\* The kernel suspends the run: the checkpoint is saved under the lease, with
\* the calls executed so far, the state and the pending approval.
Suspend(p) ==
    /\ At(p, "suspend")
    /\ IF /\ Live(p) /\ decision[Call(p)] = None
          /\ saved.pending \in {None, Call(p)} \/ decision[saved.pending] # None
       THEN saved' = [pending |-> Call(p), state |-> proc[p].state,
                      done |-> proc[p].done]
       ELSE UNCHANGED saved
    /\ Ends(p)
    /\ UNCHANGED <<decision, receipts, artifacts, history>>

Decide ==
    /\ saved.pending # None /\ decision[saved.pending] = None
    /\ \E d \in Decisions : decision' = [decision EXCEPT ![saved.pending] = d]
    /\ UNCHANGED <<lease, saved, receipts, artifacts, proc, history>>

---------------------------------------------------------------------------
(* One call: DurableToolExecutor._execute_once *)

\* A fresh call is bound to the handler it was prepared with.
Enter(p) ==
    /\ At(p, "execute")
    /\ proc' = [proc EXCEPT ![p].st = "guard_authorize",
                            ![p].bound = Recovery(Call(p)) = "not_started"]
    /\ UNCHANGED <<durable, history>>

\* The points where the executor verifies its lease in the store, and what it
\* does next.
AfterGuard == [guard_authorize |-> "authorize", guard_run |-> "run",
               guard_reuse |-> "recover", guard_finalize |-> "finalize",
               guard_store |-> "put_result", guard_seal |-> "seal",
               guard_result |-> "persist", guard_return |-> "deliver"]

AssertLive(p) ==
    /\ proc[p].st \in DOMAIN AfterGuard
    /\ IF Live(p) THEN Goto(p, AfterGuard[proc[p].st]) /\ UNCHANGED lease
       ELSE Raises(p, "lease lost")
    /\ UNCHANGED <<decision, saved, receipts, artifacts, history>>

Authorized(p, d) ==
    proc' = [proc EXCEPT ![p].st = "validate", ![p].disp = d,
                ![p].completion = IF d = "finalize" THEN sealed[Call(p)]
                                  ELSE IF d = "reuse" THEN result[Call(p)]
                                  ELSE None]

\* authorize_execution reads the receipts; only a call that was not started
\* goes on to claim it, and one that may have run is never run again.
Authorize(p) ==
    LET c == Call(p) IN
    /\ At(p, "authorize")
    /\ IF Recovery(c) = "not_started" THEN Goto(p, "claim") /\ UNCHANGED lease
       ELSE IF Recovery(c) \in {"corrupt", "uncertain"}
               \/ ~Admits(started[c], proc[p].subject)
       THEN Raises(p, "uncertain or corrupt")
       ELSE /\ Authorized(p, IF Recovery(c) = "finalizable" THEN "finalize"
                             ELSE "reuse")
            /\ UNCHANGED lease
    /\ UNCHANGED <<decision, saved, receipts, artifacts, history>>

\* The start is appended: the event is keyed by the call, so one subject wins
\* and a replay of the same one is a duplicate, which authorizes nothing.
Claim(p) ==
    LET c == Call(p) IN
    /\ At(p, "claim")
    /\ IF started[c] = None
       THEN /\ started' = [started EXCEPT ![c] = proc[p].subject]
            /\ Authorized(p, "execute") /\ UNCHANGED lease
       ELSE IF started[c] = proc[p].subject
       THEN Goto(p, "authorize") /\ UNCHANGED <<started, lease>>
       ELSE Raises(p, "conflict") /\ UNCHANGED started
    /\ UNCHANGED <<decision, saved, intent, sealed, result, artifacts, history>>

\* _validate_authorization: the receipts must still say what they said.
Validate(p) ==
    LET backing == [execute |-> "uncertain", finalize |-> "finalizable",
                    reuse |-> "reusable"]
        next == [execute |-> "guard_run", finalize |-> "guard_finalize",
                 reuse |-> "guard_reuse"]
        d == proc[p].disp IN
    /\ At(p, "validate")
    /\ IF /\ Recovery(Call(p)) = backing[d]
          /\ d = "execute" => started[Call(p)] = proc[p].subject
                              /\ proc[p].bound
       THEN Goto(p, next[d]) /\ UNCHANGED lease
       ELSE Raises(p, "authorization not backed")
    /\ UNCHANGED <<decision, saved, receipts, artifacts, history>>

\* The handler runs with the arguments of the subject; a denial only builds
\* the result that says so.
RunHandler(p) ==
    LET c == Call(p)
        s == proc[p].subject IN
    /\ At(p, "run")
    /\ effects' = IF s.approval = "denied" THEN effects
                  ELSE [effects EXCEPT ![c] = Append(@, s)]
    /\ proc' = [proc EXCEPT ![p].st = "guard_store",
                  ![p].completion =
                     [subject |-> s, base |-> proc[p].state,
                      next |-> IF c \in Stateful /\ s.approval # "denied"
                               THEN Append(proc[p].state, c)
                               ELSE proc[p].state]]
    /\ UNCHANGED <<durable, delivered>>

\* Defect: a handler that raised is tried again.
HandlerRetried(p) ==
    /\ At(p, "run")
    /\ effects' = [effects EXCEPT ![Call(p)] = Append(@, proc[p].subject)]
    /\ proc[p].subject.approval # "denied"
    /\ Goto(p, "run")
    /\ UNCHANGED <<durable, delivered>>

\* The handler raises, possibly after its effect.
HandlerFails(p) ==
    /\ At(p, "run")
    /\ effects' = [effects EXCEPT ![Call(p)] = Append(@, proc[p].subject)]
    /\ proc[p].subject.approval # "denied"
    /\ Raises(p, "invocation failed")
    /\ UNCHANGED <<decision, saved, receipts, artifacts, delivered>>

\* Defect: the receipts are written before the completion artifact.
PutArtifactLate(p) ==
    LET k == proc[p].completion IN
    /\ At(p, "put_result")
    /\ artifacts' = artifacts \union {<<"result", Call(p), k.subject>>}
    /\ Goto(p, IF HasTransition(k) THEN "guard_seal" ELSE "guard_result")
    /\ UNCHANGED <<lease, decision, saved, receipts, history>>

\* The artifacts become durable one by one, each under its own operation.
PutArtifact(p) ==
    LET c == Call(p)
        k == proc[p].completion
        after == [put_result |-> IF HasTransition(k) THEN "put_next"
                                 ELSE "put_completion",
                  put_next |-> "put_completion",
                  put_completion |-> IF HasTransition(k) THEN "guard_seal"
                                     ELSE "guard_result"]
        kind == [put_result |-> "result", put_next |-> "next",
                 put_completion |-> "completion"] IN
    /\ proc[p].st \in DOMAIN kind
    /\ artifacts' = artifacts \union {<<kind[proc[p].st], c, k.subject>>}
    /\ Goto(p, after[proc[p].st])
    /\ UNCHANGED <<lease, decision, saved, receipts, history>>

\* persist_sealed_completion: the completion of a stateful call is claimed
\* before its result is appended.  Only the process that ran the handler
\* holds an execute authorization, and the seal is keyed by the call.
Seal(p) ==
    LET c == Call(p) IN
    /\ At(p, "seal")
    /\ IF Recovery(c) = "uncertain" /\ started[c] = proc[p].subject
       THEN /\ sealed' = [sealed EXCEPT ![c] = proc[p].completion]
            /\ Goto(p, "guard_result") /\ UNCHANGED lease
       ELSE IF sealed[c] = proc[p].completion /\ result[c] = None
       THEN Goto(p, "guard_result") /\ UNCHANGED <<lease, sealed>>
       ELSE Raises(p, "seal conflict") /\ UNCHANGED sealed
    /\ UNCHANGED <<decision, saved, intent, started, result, artifacts, history>>

\* _finalize_sealed_completion reads the sealed artifacts back.
Finalize(p) ==
    /\ At(p, "finalize")
    /\ IF Artifacts(Call(p), proc[p].completion) \subseteq artifacts
       THEN Goto(p, "persist") /\ UNCHANGED lease
       ELSE Raises(p, "artifact missing")
    /\ UNCHANGED <<decision, saved, receipts, artifacts, history>>

\* _recover_completion does the same for a recorded result.
Recover(p) ==
    /\ At(p, "recover")
    /\ IF Artifacts(Call(p), proc[p].completion) \subseteq artifacts
       THEN Goto(p, "guard_return") /\ UNCHANGED lease
       ELSE Raises(p, "artifact missing")
    /\ UNCHANGED <<decision, saved, receipts, artifacts, history>>

\* persist_prepared_result: a result that raced must be of this completion,
\* and a completion with a transition needs its seal.
PersistCheck(p) ==
    LET c == Call(p)
        k == proc[p].completion IN
    /\ At(p, "persist")
    /\ IF Recovery(c) = "reusable" /\ result[c] = k
       THEN Goto(p, "guard_return") /\ UNCHANGED lease
       ELSE IF \/ Recovery(c) = "finalizable" /\ sealed[c] = k
               \/ Recovery(c) = "uncertain" /\ ~HasTransition(k)
                  /\ started[c] = k.subject
       THEN Goto(p, "append_result") /\ UNCHANGED lease
       ELSE Raises(p, "result not backed")
    /\ UNCHANGED <<decision, saved, receipts, artifacts, history>>

\* The result is appended under the key of the call.
AppendResult(p) ==
    LET c == Call(p)
        k == proc[p].completion IN
    /\ At(p, "append_result")
    /\ IF result[c] \in {None, k}
       THEN /\ result' = [result EXCEPT ![c] = k]
            /\ Goto(p, "guard_return") /\ UNCHANGED lease
       ELSE Raises(p, "result conflict") /\ UNCHANGED result
    /\ UNCHANGED <<decision, saved, intent, started, sealed, artifacts, history>>

\* The receipt reaches the model and resolve_subagent_transition_cas moves
\* the state from the base snapshot to the next; from the next, it stays.
Deliver(p) ==
    LET c == Call(p)
        k == proc[p].completion IN
    /\ At(p, "deliver")
    /\ delivered' = delivered \union {<<c, k>>}
    /\ IF HasTransition(k) => proc[p].state \in {k.base, k.next}
       THEN /\ proc' = [proc EXCEPT ![p] = [Idle EXCEPT
                  !.st = "ready", !.token = proc[p].token,
                  !.resumed = proc[p].resumed,
                  !.state = IF HasTransition(k) THEN k.next ELSE proc[p].state,
                  !.done = Append(proc[p].done, c)]]
            /\ UNCHANGED lease
       ELSE Raises(p, "transition conflict")
    /\ UNCHANGED <<decision, saved, receipts, artifacts, effects>>

Finish(p) ==
    /\ At(p, "ready") /\ proc[p].done = Batch
    /\ Ends(p)
    /\ UNCHANGED <<decision, saved, receipts, artifacts, history>>

Crash(p) ==
    /\ ~At(p, "idle")
    /\ proc' = [proc EXCEPT ![p] = Idle]
    /\ UNCHANGED <<durable, history>>

Step(p) ==
    \/ EmitCall(p) \/ Prepare(p) \/ Suspend(p) \/ Enter(p) \/ AssertLive(p)
    \/ Authorize(p) \/ Claim(p) \/ Validate(p) \/ RunHandler(p)
    \/ HandlerFails(p) \/ PutArtifact(p) \/ Seal(p) \/ Finalize(p)
    \/ Recover(p) \/ PersistCheck(p) \/ AppendResult(p) \/ Deliver(p)
    \/ Finish(p)

Next == /\ Decide \/ \E p \in Procs : Acquire(p) \/ Step(p) \/ Crash(p)
        /\ UNCHANGED owners

Spec == Init /\ [][Next]_vars

---------------------------------------------------------------------------
\* Types of the lease, the receipts and the process-local state.
TypeOK ==
    /\ owners \in Owners
    /\ lease \in [owner : Range(owners) \union {None}, token : 0..MaxToken]
    /\ decision \in [Calls -> Decisions \union {None}]
    /\ saved.pending \in Calls \union {None} /\ saved.state \in States
    /\ intent \subseteq Calls
    /\ started \in [Calls -> Subjects \union {None}]
    /\ sealed \in [Calls -> Completions \union {None}]
    /\ result \in [Calls -> Completions \union {None}]
    /\ \A p \in Procs :
         /\ proc[p].token \in 0..MaxToken /\ proc[p].bound \in BOOLEAN
         /\ proc[p].subject \in Subjects \union {None}
         /\ proc[p].completion \in Completions \union {None}
         /\ proc[p].state \in States
         /\ \E n \in 0..Len(Batch) : proc[p].done = SubSeq(Batch, 1, n)

\* The handler of a call runs at most once, however often the attempt is
\* restarted, taken over or run twice under one owner id
\* (DurableToolBoundary.authorize_execution); after its start is durable; and
\* only as the user decided, with the approved arguments
\* (ContextRuntime.prepare_tool_execution).
EffectOnce ==
    \A c \in Calls :
        /\ Len(effects[c]) <= 1
        /\ effects[c] # <<>> =>
             /\ started[c] = effects[c][1]
             /\ effects[c][1].approval =
                   IF c \in Guarded THEN decision[c] ELSE "not_required"

\* The subagent state a run carries is the effect of the stateful calls it
\* counts as executed, each applied once and in order, and so is the one in
\* the checkpoint (resolve_subagent_transition_cas).
TransitionsOnce ==
    LET Applied(done) == SelectSeq(done, LAMBDA c :
            c \in Stateful /\ HasTransition(result[c])) IN
    /\ \A p \in Procs : proc[p].state = Applied(proc[p].done)
    /\ saved.state = Applied(saved.done)

\* A completion that was sealed is the one that is recorded, and one with a
\* transition is never recorded without its seal
\* (DurableToolBoundary.persist_prepared_result); every run hands the model the
\* recorded completion (_recover_completion, _finalize_sealed_completion); and
\* whatever a seal or a result refers to can be read back after a crash (the
\* order of DurableToolExecutor._execute_once).
SealBindsResult ==
    /\ TypeOK
    /\ \A c \in Calls : result[c] # None =>
         sealed[c] = IF HasTransition(result[c]) THEN result[c] ELSE None
    /\ \A d \in delivered : result[d[1]] = d[2]
    /\ \A c \in Calls : \A k \in {sealed[c], result[c]} \ {None} :
         Artifacts(c, k) \subseteq artifacts

\* A call whose start is durable and whose outcome is not stays that way once
\* no process is left that holds the authorization to run it: it is neither
\* authorized, run nor given a result later (the DurableToolBoundary
\* docstring).
LostStaysUncertain ==
    [][\A c \in Calls :
         (/\ Recovery(c) = "uncertain"
          /\ \A p \in Procs : proc[p].disp = "execute" => Call(p) # c)
         => /\ Recovery(c)' = "uncertain" /\ effects'[c] = effects[c]
            /\ \A p \in Procs : proc'[p].disp = "execute" => Call(p)' # c]_vars
=============================================================================
