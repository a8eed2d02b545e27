----------------------------- MODULE KernelLoop -----------------------------
(***************************************************************************)
(* One run of the kernel loop (kernel/loop.py): the iterations of          *)
(* _run_state, the physical sends of step_once and their accounting, the   *)
(* tool batch of tools/execution.py, the waits for a person, and what the  *)
(* run leaves behind when it fails.  The run keeps one id over every       *)
(* invocation: run(), then resume_human_input or resume_interaction from   *)
(* the continuation the last suspension saved.  What is saved stays until  *)
(* the run persists its next suspension or its end: an invocation that     *)
(* fails before that can be started over from the same continuation, with  *)
(* the answer already recorded for it.                                     *)
(*                                                                         *)
(* An action covers the code between two checks of the execution guard:    *)
(* losing or cancelling the lease is seen by the next action that starts   *)
(* with a check.  A tool call is named by the iteration that asked for it  *)
(* and its place in the batch.                                             *)
(***************************************************************************)
EXTENDS RunLedger, SequencesExt

CONSTANTS
    Configs,        \* how the run is called, and how often its host posts and resumes
    Successors,     \* fresh runs that want to continue a suspended one
    MaxIterations   \* bound on the iterations of the run

VARIABLES
    conf,       \* the chosen configuration
    pc,         \* where the invocation is
    mode,       \* who runs the tool batch: step_once, a callback or a resume
    exc,        \* the exception being raised
    st,         \* RunState: iteration, status, pending calls, tool batch
    i,          \* the tool call on_tool_call is dispatched for
    answer,     \* the decision for the paused call
    effmax,     \* effective_max
    atts,       \* provider_attempts of the step
    src,        \* the ordinal the fetcher gives its next attempt
    led, db,    \* the run ledger and the run-bundle tables
    own,        \* the execution lease as the guard sees it
    inv,        \* the number of resumed invocations
    cont,       \* the continuation in memory
    kept,       \* the kept continuation and the answer recorded for it
    redone,     \* the invocations that started over from a used continuation
    observed,   \* the invocation attempted a terminal event
    terminals,  \* the terminal events that were delivered
    wire,       \* every physical send: its identity and what came of it
    ran,        \* every execution of a tool call
    asked,      \* the calls some person approved
    grants,     \* the iterations the callers granted
    heirs,      \* the successors that were told they continue the run
    fyi         \* the live channel and the messages already injected

vars == <<conf, pc, mode, exc, st, i, answer, effmax, atts, src, led, db, own, inv,
          cont, kept, redone, observed, terminals, wire, ran, asked, grants, heirs, fyi>>

batchvars == <<mode, i, answer, effmax, inv, cont, redone, grants, heirs>>

loopvars == <<batchvars, kept>>

NoCont == [kind |-> "none"]

\* A continuation whose question nobody has answered yet.
Unanswered(c) == [cont |-> c, answer |-> "none"]

NoneSaved == Unanswered(NoCont)

FreshState ==
    [iteration |-> 0, status |-> "running", pending |-> <<>>, executed |-> {},
     human |-> FALSE, paused |-> 0, turn |-> 0]

Init ==
    /\ conf \in Configs
    /\ pc = "idle" /\ mode = "step" /\ exc = "none"
    /\ st = FreshState /\ i = 1 /\ answer = "none" /\ effmax = conf.max
    /\ atts = <<>> /\ src = 0
    /\ led = EmptyLedger /\ db = [EmptyStore EXCEPT !.on = conf.store]
    /\ own = IF conf.guard THEN "held" ELSE "none"
    /\ inv = 0 /\ cont = NoCont /\ kept = NoneSaved /\ redone = {} /\ observed = FALSE /\ terminals = <<>>
    /\ wire = <<>> /\ ran = <<>> /\ asked = {} /\ grants = conf.max /\ heirs = {}
    /\ fyi = [pending |-> <<>>, accepted |-> {}, injected |-> <<>>]

Owned == own \in {"none", "held"}

\* The exception a refused guard raises.
LeaseError == IF own = "cancelled" THEN "cancelled" ELSE "lost"

Raise(code) == pc' = "raise" /\ exc' = code

----------------------------------------------------------------------------
(* Starting, and the head of the loop.                                    *)

\* run: the ledger attaches to the store, bootstrap runs under the guard, and
\* run_started opens the attempt.
run ==
    LET a == attach_persistence(EmptyLedger, db)
    IN  /\ pc = "idle"
        /\ IF a.ok /\ Owned
           THEN pc' = "top" /\ exc' = exc /\ led' = a.l /\ db' = a.d
           ELSE /\ Raise(IF Owned THEN "failed" ELSE LeaseError)
                /\ UNCHANGED <<led, db>>
        /\ observed' = FALSE
        /\ UNCHANGED <<conf, st, atts, src, own, terminals, wire, ran, asked, fyi, loopvars>>

\* The limit itself is still allowed.
WithinBudgetInclusive == st.iteration <= effmax

WithinBudget == st.iteration < effmax

\* A resumed batch may already have ended the run; then the budget is looked at
\* and the iteration starts.
_run_state ==
    /\ pc = "top"
    /\ st' = IF st.status = "max_iterations" /\ WithinBudget
             THEN [st EXCEPT !.status = "running"] ELSE st
    /\ pc' = IF st.status = "completed" THEN "finish"
             ELSE IF WithinBudget THEN "before"
             ELSE IF conf.onmax THEN "maxwait" ELSE "finish_max"
    /\ UNCHANGED <<conf, exc, atts, src, led, db, own, observed, terminals, wire, ran,
                   asked, fyi, loopvars>>

\* before_wait: the wait is persisted and the lease given up, then the limit is
\* announced, without the guard of a terminal event.
resolve_max_iterations_boundary ==
    /\ pc = "maxwait"
    /\ IF Owned
       THEN /\ st' = [st EXCEPT !.status = "max_iterations"]
            /\ own' = IF own = "held" /\ conf.durable THEN "released" ELSE own
            /\ observed' = TRUE /\ terminals' = Append(terminals, [type |-> "run_max_iterations", inv |-> inv])
            /\ pc' = "maxask" /\ exc' = exc
            /\ kept' = IF conf.durable
                        THEN Unanswered([kind |-> "max_budget", st |-> st', max |-> effmax])
                        ELSE kept
       ELSE Raise(LeaseError) /\ UNCHANGED <<st, own, observed, terminals, kept>>
    /\ UNCHANGED <<conf, mode, i, answer, effmax, inv, cont, redone, atts, src, led, db, wire, ran, asked,
                   grants, heirs, fyi>>

\* The answer recorded for the kept continuation, where it is durable.
Record(decision) ==
    kept' = IF conf.durable THEN [kept EXCEPT !.answer = decision] ELSE kept

\* The callback answers, its receipt is recorded, and the lease is taken back.  A
\* receipt has no place for an approval that grants nothing.
MaxAnswered(approved, extra) ==
    /\ pc = "maxask"
    /\ IF conf.durable /\ approved /\ extra = 0
       THEN Raise("failed") /\ UNCHANGED <<st, own, effmax, grants, kept>>
       ELSE IF own \in {"none", "held", "released"}
       THEN /\ own' = IF own = "released" THEN "held" ELSE own
            /\ Record(IF approved THEN "yes" ELSE "no")
            /\ IF approved
               THEN /\ effmax' = effmax + Max({1, extra})
                    /\ grants' = grants + Max({1, extra})
                    /\ st' = [st EXCEPT !.status = "running"] /\ pc' = "before"
               ELSE pc' = "finish_max_quiet" /\ UNCHANGED <<effmax, grants, st>>
            /\ exc' = exc
       ELSE Raise(LeaseError) /\ UNCHANGED <<st, own, effmax, grants, kept>>
    /\ UNCHANGED <<conf, mode, i, answer, inv, cont, redone, heirs, atts, src, led, db, observed, terminals, wire,
                   ran, asked, fyi>>

----------------------------------------------------------------------------
(* One step: the model turn.                                              *)

\* The live messages posted so far enter the transcript; a harness may fail.
BeforeModel ==
    /\ pc = "before"
    /\ \/ /\ Owned
          /\ pc' = "fetch" /\ exc' = exc
          /\ fyi' = [fyi EXCEPT !.pending = <<>>, !.injected = @ \o fyi.pending]
       \/ Owned /\ Raise("failed") /\ fyi' = fyi
       \/ ~Owned /\ Raise(LeaseError) /\ fyi' = fyi
    /\ atts' = <<>> /\ src' = 0
    /\ UNCHANGED <<conf, st, led, db, own, observed, terminals, wire, ran, asked, loopvars>>

\* The fetcher's own count.
OrdinalOfSource == src

\* The ordinal of a send never falls back when a boundary hands off.
Ordinal == Max({Len(atts), src})

\* The identity of a send: build_model_attempt_receipt.
SendId(iteration, purpose, ordinal) == <<iteration, purpose, ordinal>>

provider_attempt_started ==
    LET n == Ordinal
    IN  /\ pc = "fetch"
        /\ IF Owned
           THEN /\ atts' = Append(atts, [source |-> src, ordinal |-> n, outcome |-> "open"])
                /\ wire' = Append(wire, [id |-> SendId(st.iteration, "agent_turn", n),
                                         inv |-> inv, truth |-> "unknown", shown |-> FALSE])
                /\ pc' = "sent" /\ exc' = exc
           ELSE pc' = "unsent" /\ exc' = LeaseError /\ UNCHANGED <<atts, wire>>
        /\ UNCHANGED <<conf, st, src, led, db, own, observed, terminals, ran, asked, fyi,
                       loopvars>>

\* A completion closes the one open attempt with its ordinal, or is an error.
provider_attempt_completed(outcome) ==
    LET open == {k \in DOMAIN atts : atts[k].source = src /\ atts[k].outcome = "open"}
    IN  IF ~conf.reports THEN [ok |-> TRUE, atts |-> atts]
        ELSE IF Cardinality(open) # 1 THEN [ok |-> FALSE, atts |-> atts]
        ELSE [ok |-> TRUE,
              atts |-> [atts EXCEPT ![CHOOSE k \in open : TRUE].outcome = outcome]]

\* The receipt a durable result carries is stored in the same transaction.
AtomicReceipt(status) ==
    IF conf.path = "atomic"
    THEN RecordReceipt(led, db, Last(wire).id, status) ELSE Ok(led, db)

Known(truth, shown) ==
    wire' = [wire EXCEPT ![Len(wire)].truth = truth, ![Len(wire)].shown = shown]

\* The reply arrives.
Answered ==
    LET c == provider_attempt_completed("completed")
        r == AtomicReceipt("completed")
    IN  /\ pc = "sent"
        /\ Known("completed", TRUE) /\ atts' = c.atts
        /\ led' = r.l /\ db' = r.d
        /\ IF c.ok THEN pc' = "validate" /\ exc' = exc ELSE pc' = "unsent" /\ exc' = "failed"
        /\ UNCHANGED <<conf, st, src, own, observed, terminals, ran, asked, fyi, loopvars>>

\* The result and its receipt were committed, and closing the lease then failed:
\* the ledger in memory has not seen the receipt.
CommittedUnseen ==
    /\ pc = "sent" /\ conf.path = "atomic" /\ conf.store
    /\ Known("completed", TRUE)
    /\ db' = AtomicReceipt("completed").d
    /\ pc' = "unsent" /\ exc' = "failed"
    /\ UNCHANGED <<conf, st, atts, src, led, own, observed, terminals, ran, asked, fyi, loopvars>>

\* The provider refuses with a response ("failed") or the connection breaks
\* ("uncertain"); another try follows only a transient error that showed nothing.
execute_with_retry(truth, retryable, visible) ==
    LET c == provider_attempt_completed(truth)
        r == AtomicReceipt(truth)
    IN  /\ pc = "sent"
        /\ Known(truth, visible) /\ atts' = c.atts
        /\ led' = r.l /\ db' = r.d
        /\ IF c.ok /\ retryable /\ ~visible /\ src < conf.retries
           THEN pc' = "fetch" /\ src' = src + 1 /\ exc' = exc
           ELSE pc' = "unsent" /\ src' = src /\ exc' = "failed"
        /\ UNCHANGED <<conf, st, own, observed, terminals, ran, asked, fyi, loopvars>>

\* A boundary that sent and got no turn hands over to the ordinary fetcher, which
\* counts its attempts from zero again.
fetch_prepared_none ==
    /\ pc = "sent" /\ conf.path = "boundary" /\ Len(atts) = 1
    /\ Known("uncertain", FALSE) /\ atts' = provider_attempt_completed("uncertain").atts
    /\ pc' = "fetch" /\ src' = 0
    /\ UNCHANGED <<conf, exc, st, led, db, own, observed, terminals, ran, asked, fyi, loopvars>>

\* The guard, and the boundary's own validation, may still refuse the turn.
ValidateTurn ==
    /\ pc = "validate"
    /\ \/ Owned /\ pc' = "record" /\ exc' = exc
       \/ Owned /\ conf.path = "boundary" /\ pc' = "unsent" /\ exc' = "failed"
       \/ ~Owned /\ pc' = "unsent" /\ exc' = LeaseError
    /\ UNCHANGED <<conf, st, atts, src, led, db, own, observed, terminals, wire, ran, asked,
                   fyi, loopvars>>

\* Receipts for the attempts in order; an exception stops at the first conflict.
RecordAttempts(l, d, list, iteration, default) ==
    FoldLeft(LAMBDA acc, a :
                 IF ~acc.ok THEN acc
                 ELSE RecordReceipt(acc.l, acc.d, SendId(iteration, "agent_turn", a.ordinal),
                                    IF a.outcome = "open" THEN default ELSE a.outcome),
             Ok(l, d), list)

\* The step's exception handler: the index is refreshed from the store, then
\* every attempt gets a receipt, an attempt nothing closed an uncertain one.
AccountFailedFetch ==
    LET a == attach_persistence(led, db)
        r == IF a.ok THEN RecordAttempts(a.l, a.d, atts, st.iteration, "uncertain") ELSE a
    IN  /\ pc = "unsent"
        /\ led' = r.l /\ db' = r.d
        /\ Raise(IF r.ok THEN exc ELSE "failed")
        /\ UNCHANGED <<conf, st, atts, src, own, observed, terminals, wire, ran, asked, fyi,
                       loopvars>>

\* ask_user_question and handoff_to_subagent are refused in company: every call
\* of the batch is answered with the error.
Mixed(b) == Len(b) > 1 /\ \E k \in DOMAIN b : b[k] \in {"human", "handoff"}

\* The successful turn: the last attempt is closed by the return, receipts are
\* recorded, and the reply with its tool calls is applied.
RecordTurn(b) ==
    LET r0 == RecordAttempts(led, db, Front(atts), st.iteration, "uncertain")
        r == IF r0.ok THEN RecordAttempts(r0.l, r0.d, <<Last(atts)>>, st.iteration, "completed")
             ELSE r0
    IN  /\ pc = "record"
        /\ led' = r.l /\ db' = r.d
        /\ IF r.ok
           THEN /\ st' = [st EXCEPT !.status = "running", !.pending = b, !.turn = Len(b),
                                    !.executed = IF Mixed(b) THEN DOMAIN b ELSE {},
                                    !.human = FALSE, !.paused = 0]
                /\ pc' = IF b = <<>> THEN "commit" ELSE "tool"
                /\ exc' = exc
           ELSE Raise("failed") /\ st' = st
        /\ mode' = "step" /\ i' = 1 /\ answer' = "none"
        /\ UNCHANGED <<conf, effmax, inv, cont, kept, redone, grants, heirs, atts, src, own, observed, terminals,
                       wire, ran, asked, fyi>>

\* before_commit of a turn without tool calls; the commit of a semantic memory
\* clears the checkpoint, a durability-only one leaves it to the end.
BeforeCommit ==
    /\ pc = "commit"
    /\ IF Owned THEN /\ pc' = "settle" /\ exc' = exc /\ st' = [st EXCEPT !.iteration = @ + 1]
                     /\ kept' \in {kept, IF conf.durable THEN NoneSaved ELSE kept}
       ELSE Raise(LeaseError) /\ UNCHANGED <<st, kept>>
    /\ UNCHANGED <<conf, atts, src, led, db, own, observed, terminals, wire, ran, asked, fyi,
                   batchvars>>

----------------------------------------------------------------------------
(* The tool batch.                                                        *)

\* An exception in a resumed batch seals its iteration first; in resume_interaction
\* nothing else records it, and the checkpoint stays what it was.
ToolRaise(code) ==
    /\ led' = IF mode = "step" THEN led
              ELSE record_iteration_outcome(led, st.iteration, "failed")
    /\ pc' = IF mode = "resume" THEN "done" ELSE "raise"
    /\ exc' = code

Call == <<st.iteration, i>>

Skipped == i \in st.executed \/ st.human \/ st.status = "awaiting_interaction"

\* The receipt the batch was resumed with decides the paused call.
Decided == answer # "none" /\ i = st.paused

\* The call needs a person's decision that nobody gave yet, and a session to
\* keep the question in.
MustAsk == ~Skipped /\ st.pending[i] = "confirm" /\ conf.durable /\ ~Decided

\* So does a call a runtime plugin routes to a deferred tool that needs one.
MustAskNested == ~Skipped /\ st.pending[i] = "deferred" /\ conf.durable /\ ~Decided

\* The continuation forgets what the batch already did.
BatchForgotten == [st EXCEPT !.paused = i, !.executed = {}]

\* build_tool_approval_continuation: the calls, what was executed, the paused call.
BatchSoFar == [st EXCEPT !.paused = i]

\* The batch so far is kept in the continuation and the run will suspend.
AskApproval ==
    /\ st' = [st EXCEPT !.status = "awaiting_interaction", !.paused = i]
    /\ cont' = [kind |-> "tool_approval", max |-> effmax,
                st |-> BatchSoFar]
    /\ UNCHANGED <<led, pc, exc, ran, asked>>

\* A decision: the one the receipt carries, or the callback's, or none at all
\* when nothing is durable and no callback was given.
Decisions ==
    IF st.pending[i] \notin {"confirm", "deferred"} THEN {"none"}
    ELSE IF conf.durable THEN {answer}
    ELSE IF conf.confirm THEN {"yes", "no"} ELSE {"none"}

\* A refused call is answered with the refusal; an executed one may raise.
Executed(decision) ==
    /\ asked' = IF decision = "yes" THEN asked \cup {Call} ELSE asked
    /\ ran' = IF decision = "no" THEN ran ELSE Append(ran, [call |-> Call, kind |-> st.pending[i], inv |-> inv])
    /\ cont' = cont
    /\ \/ st' = [st EXCEPT !.executed = @ \cup {i}] /\ UNCHANGED <<led, pc, exc>>
       \/ decision # "no" /\ ToolRaise("failed") /\ st' = st

execute_confirmable_tool_call(decision) ==
    /\ ~Skipped /\ ~MustAsk /\ st.pending[i] \notin {"human", "deferred"}
    /\ decision \in Decisions
    /\ Executed(decision)

\* A plugin that handles the call answers it; the confirmation the nested call
\* got covers it.
run_tool_runtime_plugins(decision) ==
    /\ ~Skipped /\ ~MustAskNested /\ st.pending[i] = "deferred"
    /\ decision \in Decisions
    /\ Executed(decision)

\* ask_user_question: the batch waits for a person, or the question is malformed
\* and answered with an error.
AskHuman ==
    /\ ~Skipped /\ st.pending[i] = "human"
    /\ \E ok \in BOOLEAN :
           st' = [st EXCEPT !.human = ok, !.executed = @ \cup {i}]
    /\ UNCHANGED <<led, pc, exc, cont, ran, asked>>

_on_tool_call ==
    /\ pc = "tool" /\ i <= Len(st.pending)
    /\ \/ /\ Owned
          /\ \/ Skipped /\ UNCHANGED <<st, led, pc, exc, cont, ran, asked>>
             \/ (MustAsk \/ MustAskNested) /\ AskApproval
             \/ AskHuman
             \/ \E decision \in {"none", "yes", "no"} :
                    \/ execute_confirmable_tool_call(decision)
                    \/ run_tool_runtime_plugins(decision)
       \/ ~Owned /\ ToolRaise(LeaseError) /\ UNCHANGED <<st, cont, ran, asked>>
    /\ i' = i + 1
    /\ UNCHANGED <<conf, mode, answer, effmax, inv, kept, redone, grants, heirs, atts, src, db, own, observed,
                   terminals, wire, fyi>>

\* The extra model call that looks at the results; its failure is swallowed.
Observe(truth) ==
    LET id == SendId(st.iteration, "tool_observation", 0)
        r == RecordReceipt(led, db, id, truth)
    IN  /\ wire' = Append(wire, [id |-> id, inv |-> inv, truth |-> truth, shown |-> FALSE])
        /\ led' = r.l /\ db' = r.d

\* The end of the batch: a pending question becomes the run's continuation,
\* otherwise the results enter the transcript and the batch is cleared.
_after_tool_batch ==
    LET waiting == st.status = "awaiting_interaction"
        limit == \E k \in st.executed : st.pending[k] = "limit"
        next == [st EXCEPT !.iteration = @ + 1]
        cleared == [next EXCEPT !.pending = <<>>, !.executed = {}, !.human = FALSE]
    IN  /\ pc = "tool" /\ i > Len(st.pending)
        /\ IF Owned
           THEN /\ pc' = IF mode = "step" THEN "settle" ELSE "resumed"
                /\ exc' = exc
                /\ IF waiting THEN st' = next /\ cont' = cont
                   ELSE IF st.human
                   THEN /\ st' = [cleared EXCEPT !.status = "awaiting_human_input"]
                        /\ cont' = [kind |-> "human_input", st |-> cleared, max |-> effmax]
                   ELSE /\ st' = [cleared EXCEPT !.status = IF limit THEN "completed" ELSE "running"]
                        /\ cont' = NoCont
                /\ IF conf.observe /\ ~waiting /\ ~st.human /\ ~limit
                   THEN \E truth \in {"completed", "uncertain"} : Observe(truth)
                   ELSE UNCHANGED <<led, db, wire>>
           ELSE ToolRaise(LeaseError) /\ UNCHANGED <<st, cont, db, wire>>
        /\ UNCHANGED <<conf, mode, i, answer, effmax, inv, kept, redone, grants, heirs, atts, src, own, observed,
                       terminals, ran, asked, fyi>>

----------------------------------------------------------------------------
(* After the step: waits, the next iteration, the end.                    *)

\* The iteration about to start.
LeftCurrent == st.iteration

\* The iteration a step or a resumed batch has just left.
Left == st.iteration - 1

\* _run_state after step_once: a wait, the end, or the next iteration.  A wait no
\* callback can answer leaves its iteration uncertain.
SettleIteration ==
    LET waits == st.status \in {"awaiting_interaction", "awaiting_human_input"}
        callback == IF st.status = "awaiting_interaction" THEN conf.confirm ELSE conf.human
    IN  /\ pc = "settle"
        /\ led' = IF ~waits THEN record_iteration_outcome(led, Left, "completed")
                  ELSE IF callback THEN led
                  ELSE record_iteration_outcome(led, Left, "uncertain")
        /\ pc' = IF waits THEN "suspend"
                 ELSE IF st.status = "completed" \/ st.turn = 0 THEN "finish" ELSE "top"
        /\ UNCHANGED <<conf, exc, st, atts, src, db, own, observed, terminals, wire, ran,
                       asked, fyi, loopvars>>

\* finish_awaiting_interaction_run and finish_awaiting_human_input_run: the
\* suspension is persisted under the guard, the bundle materialized, the lease
\* given up; without a callback the invocation returns.
Suspend ==
    LET m == materialize(led, db, st.status, conf.cap)
        callback == /\ mode # "resume"
                    /\ IF st.status = "awaiting_interaction" THEN conf.confirm ELSE conf.human
    IN  /\ pc = "suspend"
        /\ IF Owned /\ m.ok
           THEN /\ pc' = IF callback THEN "ask" ELSE "suspended"
                /\ own' = IF own = "held" /\ conf.durable THEN "released" ELSE own
                /\ exc' = exc /\ led' = m.l /\ db' = m.d
           ELSE /\ exc' = IF Owned THEN "failed" ELSE LeaseError
                /\ pc' = IF mode = "resume" THEN "done" ELSE "raise"
                /\ led' = IF Owned THEN m.l ELSE led
                /\ UNCHANGED <<own, db>>
        /\ kept' = IF Owned THEN Unanswered(cont) ELSE kept
        /\ UNCHANGED <<conf, st, atts, src, observed, terminals, wire, ran, asked, fyi, batchvars>>

\* A person's answer closes the batch that asked for it.
_dispatch_on_resume ==
    /\ st' = [kept.cont.st EXCEPT !.status = "running"]
    /\ pc' = "top" /\ mode' = "step"
    /\ UNCHANGED <<i, answer>>

\* The batch is restored from the continuation and run again from its first call:
\* the executed calls are skipped and the paused one gets the decision.
_dispatch_tool_approval_resume(decision, by) ==
    /\ st' = [kept.cont.st EXCEPT !.status = "running"]
    /\ pc' = "tool" /\ mode' = by /\ i' = 1 /\ answer' = decision

\* The callback answers; its receipt is recorded and the lease taken back.
CallbackAnswers(decision) ==
    /\ pc = "ask"
    /\ IF own \in {"none", "held", "released"}
       THEN /\ own' = IF own = "released" THEN "held" ELSE own
            /\ IF kept.cont.kind = "human_input" THEN _dispatch_on_resume
               ELSE _dispatch_tool_approval_resume(decision, "callback")
            /\ exc' = exc /\ Record(decision)
            /\ led' = IF kept.cont.kind = "human_input"
                      THEN record_iteration_outcome(led, Left, "completed") ELSE led
       ELSE Raise(LeaseError) /\ UNCHANGED <<st, own, led, mode, i, answer, kept>>
    /\ UNCHANGED <<conf, effmax, inv, cont, redone, grants, heirs, atts, src, db, observed, terminals, wire,
                   ran, asked, fyi>>

\* After a resumed batch: it asked again, or its iteration is over.  A later
\* resume_interaction returns at the second question and seals nothing.
BatchResumed ==
    /\ pc = "resumed"
    /\ IF st.status = "awaiting_interaction"
       THEN /\ pc' = "suspend" /\ mode' = mode
            /\ led' = IF mode = "callback" /\ ~conf.confirm
                      THEN record_iteration_outcome(led, Left, "uncertain") ELSE led
       ELSE /\ pc' = "top" /\ mode' = "step"
            /\ led' = IF mode = "callback"
                      THEN record_iteration_outcome(led, Left, "completed") ELSE led
    /\ UNCHANGED <<conf, exc, st, i, answer, effmax, inv, cont, kept, redone, grants, heirs, atts, src, db, own,
                   observed, terminals, wire, ran, asked, fyi>>

\* The invocation returned at a question, or it failed.
Resumable == pc = "suspended" \/ (pc = "done" /\ exc # "none")

\* A new process takes the run up at the kept continuation: the ledger is read
\* back from the store and a new guard acquired.  A receipt that is already there
\* is the one the invocation works with (require_receipt); a fresh run that
\* continues the session has abandoned the question (DurableInteraction).
Reopened(decision) ==
    LET a == attach_persistence(EmptyLedger, db)
    IN  /\ Resumable /\ kept # NoneSaved /\ own # "cancelled" /\ heirs = {} /\ a.ok
        /\ kept.answer \in {"none", decision}
        /\ kept' = [kept EXCEPT !.answer = decision]
        /\ redone' = IF kept.answer = "none" THEN redone
                     ELSE redone \cup {[inv |-> inv + 1, from |-> kept.cont.st.iteration,
                                        held |-> kept.cont.st.executed]}
        /\ led' = a.l /\ db' = a.d
        /\ own' = IF conf.guard THEN "held" ELSE "none"
        /\ observed' = FALSE /\ exc' = "none" /\ inv' = inv + 1 /\ cont' = NoCont
        /\ UNCHANGED <<heirs, atts, src, terminals, wire, ran, asked, fyi>>

\* The limit the suspended invocation had is the limit of the next.
resume_human_input ==
    /\ kept.cont.kind = "human_input" /\ Reopened("yes")
    /\ _dispatch_on_resume
    /\ effmax' = kept.cont.max /\ UNCHANGED <<conf, grants>>

\* resume_interaction with the receipt of a tool approval.
ResumeApproval(decision) ==
    /\ kept.cont.kind = "tool_approval" /\ Reopened(decision)
    /\ _dispatch_tool_approval_resume(decision, "resume")
    /\ effmax' = kept.cont.max /\ UNCHANGED <<conf, grants>>

\* resume_interaction with the receipt of a budget decision: what it grants counts
\* from the iteration reached, and a refusal is not asked about again.
ResumeBudget(decision) ==
    LET granted == IF decision = "yes" THEN 1 ELSE 0
    IN  /\ kept.cont.kind = "max_budget" /\ Reopened(decision)
        /\ effmax' = kept.cont.st.iteration + granted
        /\ grants' = IF kept.answer = "none" THEN grants + granted ELSE grants
        /\ conf' = [conf EXCEPT !.onmax = @ /\ decision = "yes"]
        /\ st' = kept.cont.st /\ pc' = "top" /\ mode' = "step"
        /\ UNCHANGED <<i, answer>>

\* The checkpoint is cleared, or replaced by one that asks nothing.
CheckpointSettled == NoneSaved

\* finish_completed_run and finish_max_iterations_run up to the terminal event; a
\* harness may fail before the checkpoint is settled or after it.
Finalize ==
    /\ pc \in {"finish", "finish_max", "finish_max_quiet"}
    /\ \/ /\ Owned
          /\ st' = [st EXCEPT !.status = IF pc = "finish" THEN "completed" ELSE "max_iterations"]
          /\ pc' = IF pc = "finish_max_quiet" THEN "result" ELSE "emit"
          /\ exc' = exc /\ kept' = CheckpointSettled
       \/ Owned /\ Raise("failed") /\ st' = st /\ kept' \in {kept, CheckpointSettled}
       \/ ~Owned /\ Raise(LeaseError) /\ UNCHANGED <<st, kept>>
    /\ UNCHANGED <<conf, atts, src, led, db, own, observed, terminals, wire, ran, asked, fyi,
                   batchvars>>

\* The guarded terminal event; the host's callback may raise.
EmitTerminal ==
    LET type == IF st.status = "completed" THEN "run_completed" ELSE "run_max_iterations"
    IN  /\ pc = "emit"
        /\ \/ /\ Owned /\ observed' = TRUE
              /\ terminals' = Append(terminals, [type |-> type, inv |-> inv])
              /\ pc' = "emitted" /\ exc' = exc
           \/ /\ Owned /\ observed' = TRUE
              /\ Raise("failed") /\ terminals' = terminals
           \/ ~Owned /\ Raise(LeaseError) /\ UNCHANGED <<observed, terminals>>
        /\ UNCHANGED <<conf, st, atts, src, led, db, own, wire, ran, asked, fyi, loopvars>>

\* build_kernel_run_result: the guard once more after the event, then the bundle.
build_kernel_run_result ==
    LET m == materialize(led, db, st.status, conf.cap)
    IN  /\ pc \in {"emitted", "result"}
        /\ IF pc = "result" \/ Owned
           THEN /\ led' = m.l /\ db' = m.d
                /\ IF m.ok THEN pc' = "done" /\ exc' = exc ELSE Raise("failed")
           ELSE Raise(LeaseError) /\ UNCHANGED <<led, db>>
        /\ UNCHANGED <<conf, st, atts, src, own, observed, terminals, wire, ran, asked, fyi,
                       loopvars>>

----------------------------------------------------------------------------
(* Failure, the host and the lease.                                       *)

\* The iteration a failure is charged to: the last one that sent anything.
FailedIteration(l) ==
    IF l.receipts = <<>> THEN st.iteration ELSE Max({id[1] : id \in DOMAIN l.receipts})

\* A failure is always told.
MayTellAgain == exc # "lost"

\* A failure is told unless a terminal was attempted or the lease is another's.
MayTell == ~observed /\ exc # "lost"

\* The run's error is recorded, its iteration sealed, the failed bundle written;
\* then one terminal event, unless one was attempted or the lease was lost.
_run_state_with_failure_bundle ==
    LET k == FailedIteration(led)
        uncertain == \E id \in DOMAIN led.receipts :
                         id[1] = k /\ led.receipts[id] = "uncertain"
        l1 == record_iteration_outcome(record_error(led, exc), k,
                                       IF uncertain THEN "uncertain" ELSE "failed")
        m == materialize(l1, db, "failed", conf.cap)
    IN  /\ pc = "raise"
        /\ st' = [st EXCEPT !.status = "failed"]
        /\ led' = m.l /\ db' = m.d
        /\ pc' = "done"
        /\ IF m.ok /\ MayTell
           THEN /\ observed' = TRUE
                /\ terminals' = Append(terminals,
                       [type |-> IF exc = "cancelled" THEN "run_cancelled" ELSE "run_failed",
                        inv |-> inv])
           ELSE UNCHANGED <<observed, terminals>>
        /\ UNCHANGED <<conf, exc, atts, src, own, wire, ran, asked, fyi, loopvars>>

\* The process dies while a callback is being waited for: the kept continuation
\* is all that is left.
CrashWaiting ==
    /\ pc \in {"ask", "maxask"} /\ conf.durable
    /\ pc' = "suspended" /\ led' = EmptyLedger
    /\ UNCHANGED <<conf, exc, st, atts, src, db, own, observed, terminals, wire, ran, asked,
                   fyi, loopvars>>

\* Another owner takes the execution over, or somebody cancels it.
LeaseGone ==
    /\ own \in {"held", "released"} /\ pc # "done"
    /\ own' \in {"lost", "cancelled"}
    /\ UNCHANGED <<conf, pc, exc, st, atts, src, led, db, observed, terminals, wire, ran,
                   asked, fyi, loopvars>>

\* Every post is queued.
QueuedAgain(m) ==
    [fyi EXCEPT !.accepted = @ \cup {m}, !.pending = Append(@, m)]

Queued(m) ==
    IF m \in fyi.accepted THEN fyi
    ELSE [fyi EXCEPT !.accepted = @ \cup {m}, !.pending = Append(@, m)]

\* FyiChannel.post from any thread: an id is accepted once.
post(m) ==
    /\ pc # "done"
    /\ fyi' = Queued(m)
    /\ UNCHANGED <<conf, pc, exc, st, atts, src, led, db, own, observed, terminals, wire,
                   ran, asked, loopvars>>

\* A fresh run of the execution attaches and asks to continue the suspended one;
\* it may die and ask again.
ContinueFrom(s) ==
    LET c == claim_continuation(db, s)
    IN  /\ Resumable /\ db.on
        /\ db' = c.d
        /\ heirs' = IF c.ok THEN heirs \cup {s} ELSE heirs
        /\ UNCHANGED <<conf, pc, mode, exc, st, i, answer, effmax, atts, src, led, own, inv,
                       cont, kept, redone, observed, terminals, wire, ran, asked, grants, fyi>>

Step ==
    \/ run
    \/ _run_state
    \/ resolve_max_iterations_boundary
    \/ \E approved \in BOOLEAN, extra \in 0..1 :
           grants < MaxIterations /\ MaxAnswered(approved, extra)
    \/ MaxAnswered(FALSE, 0)
    \/ BeforeModel
    \/ provider_attempt_started
    \/ Answered
    \/ CommittedUnseen
    \/ \E truth \in {"failed", "uncertain"}, retryable, visible \in BOOLEAN :
           execute_with_retry(truth, retryable, visible)
    \/ fetch_prepared_none
    \/ ValidateTurn
    \/ AccountFailedFetch
    \/ \E b \in conf.batches : RecordTurn(b)
    \/ BeforeCommit
    \/ _on_tool_call
    \/ _after_tool_batch
    \/ SettleIteration
    \/ Suspend
    \/ \E decision \in {"yes", "no"} : CallbackAnswers(decision)
    \/ BatchResumed
    \/ inv < conf.resumes /\ resume_human_input
    \/ \E decision \in {"yes", "no"} : inv < conf.resumes /\ ResumeApproval(decision)
    \/ \E decision \in {"yes", "no"} :
           inv < conf.resumes /\ (decision # kept.answer => grants < MaxIterations) /\ ResumeBudget(decision)
    \/ Finalize
    \/ EmitTerminal
    \/ build_kernel_run_result
    \/ _run_state_with_failure_bundle

\* The invocation is over, or nobody answers its question.
Over == pc \in {"done", "suspended"} /\ UNCHANGED vars

Next == Step \/ CrashWaiting \/ LeaseGone \/ (\E m \in conf.posts : post(m))
        \/ (\E s \in Successors : ContinueFrom(s)) \/ Over

Spec == Init /\ [][Next]_vars

----------------------------------------------------------------------------

\* Between two steps of the run an invocation started over, at an iteration not
\* after k: the first of them belongs to an invocation that failed.
StartedOver(x, y, k) == \E r \in redone : x.inv < r.inv /\ r.inv <= y.inv /\ r.from <= k

\* Accounting is exact: a physical send has an identity of its own, except that an
\* invocation started over from a checkpoint sends again, under the same identity,
\* what the failed one had sent after that checkpoint; a receipt claims completion
\* or failure only of a send that completed or failed; a second send of an iteration
\* otherwise never follows a reply or shown output; and at the end the store has one
\* receipt for each identity, a retried, handed over or interrupted send included.
SendsAccounted ==
    /\ \A a, b \in DOMAIN wire : a < b /\ ~StartedOver(wire[a], wire[b], wire[a].id[1]) =>
           /\ wire[a].id # wire[b].id
           /\ wire[a].id[1] = wire[b].id[1] /\ wire[b].id[2] = "agent_turn" =>
                  ~wire[a].shown /\ wire[a].truth # "completed"
    /\ \A id \in DOMAIN led.receipts : \E a \in DOMAIN wire :
           /\ wire[a].id = id
           /\ led.receipts[id] # "uncertain" => wire[a].truth = led.receipts[id]
    /\ pc = "done" /\ conf.store =>
           /\ DOMAIN db.receipts = {wire[a].id : a \in DOMAIN wire}
           /\ led.receipts = db.receipts

\* An iteration is sealed completed only when its reply was recorded and the run
\* moved past it, or had moved past it in an invocation that failed later; a run
\* that returns in the process it started in has sealed every iteration that sent
\* something.  (A process that dies in a wait takes the seals of its memory with it.)
SealsTruthful ==
    /\ \A k \in DOMAIN led.seals : led.seals[k] = "completed" =>
           /\ k < st.iteration \/ \E r \in redone : r.from <= k
           /\ \E id \in DOMAIN led.receipts : id[1] = k /\ led.receipts[id] = "completed"
    /\ /\ pc = "done" /\ exc = "none" /\ conf.store
       /\ inv = 0 \/ ~conf.durable
       => {wire[a].id[1] : a \in DOMAIN wire} \subseteq DOMAIN led.seals

\* The stored bundle tells how the run ended: the newest revision has the status
\* of the invocation that ended, with every receipt and seal; and at most one
\* later run continues it, however many ask and ask again.
BundleTellsTheEnd ==
    /\ /\ pc = "done" /\ conf.store
       /\ mode = "resume" => exc = "none"
       => LET b == ContinuationHead(db)
          IN  /\ b # NoBundle
              /\ b.facts.status = _lifecycle_status(st.status)
              /\ b.facts.receipts = db.receipts /\ b.facts.seals = led.seals
    /\ Cardinality(heirs) <= 1

\* A run ends once: nothing follows run_completed or run_cancelled in any later
\* invocation, however it is resumed; run_failed is followed only by what an
\* invocation resumed from the checkpoint has to tell; and in one invocation no
\* failure follows an announced limit.
TerminalDiscipline ==
    \A a, b \in DOMAIN terminals : a < b =>
        /\ terminals[a].type \in {"run_max_iterations", "run_failed"}
        /\ terminals[a].inv = terminals[b].inv =>
               /\ terminals[a].type = "run_max_iterations"
               /\ terminals[b].type \notin {"run_failed", "run_cancelled"}

\* A tool call is executed at most once however often its batch was suspended,
\* crashed in a wait and was resumed, unless an invocation failed after it and was
\* started over from a checkpoint that does not hold its result; and a call that
\* needs approval only after somebody approved it, where somebody can be asked.
CallsOnce ==
    /\ \A a, b \in DOMAIN ran : a < b /\ ran[a].call = ran[b].call =>
           \E r \in redone :
               /\ ran[a].inv < r.inv /\ r.inv <= ran[b].inv
               /\ \/ r.from < ran[a].call[1]
                  \/ r.from = ran[a].call[1] /\ ran[a].call[2] \notin r.held
    /\ conf.durable \/ conf.confirm =>
           \A a \in DOMAIN ran : ran[a].kind \in {"confirm", "deferred"} => ran[a].call \in asked

\* The run never starts more iterations than its callers granted, counting the
\* grants of callbacks and of later resumes; one recorded grant counts once however
\* often the run is resumed from it.
BudgetKept == Cardinality({wire[a].id[1] : a \in DOMAIN wire}) <= grants

\* A live message posted during the run enters the transcript at most once and is
\* never dropped while the run goes on, whichever thread posts it and when.
FyiOnce ==
    /\ ToSet(fyi.pending \o fyi.injected) = fyi.accepted
    /\ Cardinality(fyi.accepted) = Len(fyi.pending) + Len(fyi.injected)
=============================================================================
