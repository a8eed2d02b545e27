--------------------------- MODULE GraphExecution ---------------------------
(* Hosts that advance one linear graph of agent runs, and a sidecar that     *)
(* tries to cut the chat over to a new generation.  All they share is the   *)
(* execution journal, where each append is one transaction, and the         *)
(* execution lease.  A host reads the journal before it has the lease, may  *)
(* stall between any two appends, lose its lease or crash.                  *)
EXTENDS GraphJournal

CONSTANTS Hosts,
          Scenarios,   \* see ScenarioType
          None

\* A linear plan and what may happen to its runs: how they may end, durable
\* requests and tool calls per step, leases that expire under a host that
\* still runs, crashes, and whether a host may start a step from an old
\* reading of the journal.
ScenarioType ==
    [steps : Nat \ {0},
     outcomes : SUBSET {"completed", "failed", "cancelled", "max", "max_wait",
                        "prompt", "callback", "stop"},
     asks : Nat, tools : Nat, lost : Nat, crashes : Nat, stale : BOOLEAN]

ScenariosFit == Scenarios \subseteq ScenarioType

VARIABLES journal, lease, host, sidecar, cut, lost, crashes
vars == <<scenario, journal, lease, host, sidecar, cut, lost, crashes>>

Outcomes == scenario.outcomes
MaxAsks == scenario.asks
StaleStart == scenario.stale

\* lease: the host that holds it, with the revision of the session state and
\* the interaction its checkpoint waits for (0: none).
\* host: what each host does (pc), the step, the interaction or the event to
\* append, where to go after a seal, and the revision it waits under.
Idle == [pc |-> "idle", k |-> 0, i |-> 0, at |-> 0, then |-> "idle", e |-> 0]
Quiet == [pc |-> "idle", k |-> 0, at |-> 0]

Init ==
    /\ scenario \in Scenarios
    /\ journal = <<Ev(Root, "message.user", 0, 0)>>
    /\ lease = [holder |-> None, rev |-> 0, ask |-> 0]
    /\ host = [h \in Hosts |-> Idle]
    /\ sidecar = Quiet
    /\ cut = FALSE
    /\ lost = 0 /\ crashes = 0

\* An append whose event is already there returns the recorded one.
Has(e) == \E n \in DOMAIN journal :
             journal[n].a = e.a /\ journal[n].t = e.t /\ journal[n].i = e.i
With(e) == IF Has(e) THEN journal ELSE Append(journal, e)
Append1(e) == journal' = With(e)

At(h, pc) == host[h].pc = pc
Goto(h, pc) == host' = [host EXCEPT ![h].pc = pc]

Ends(h) == host' = [host EXCEPT ![h] = Idle]
Holds(h) == lease.holder = h
Release(h) == lease' = IF Holds(h) THEN [lease EXCEPT !.holder = None] ELSE lease

\* The run saves its state under the lease and gives it up.
Save(h, ask) ==
    lease' = IF Holds(h)
             THEN [holder |-> None, rev |-> lease.rev + 1, ask |-> ask] ELSE lease
others == <<sidecar, cut, lost, crashes>>

\* h is inside a run of the kernel, from the bootstrap to the last event.
Running == {"boot", "handoff", "input", "start", "admit", "run", "ask", "wait",
            "final", "fail"}

---------------------------------------------------------------------------
(* GraphCheckpointService *)

Admit(h) ==
    /\ At(h, "idle") /\ Len(journal) = 1
    /\ Append1(Ev(Root, "execution.admitted", 0, 1))
    /\ UNCHANGED <<lease, host, others>>

\* Seal the terminal n: the second half of recover, complete_step, fail_step.
Sealing(h, n, then) ==
    host' = [host EXCEPT ![h].pc = "seal", ![h].at = n, ![h].then = then]
AfterSeal(h) == IF host[h].then = "idle" THEN Ends(h) ELSE Goto(h, host[h].then)

\* A seal of the same kind that names another terminal: the append conflicts.
Conflicts(e) == \E n \in Typed(journal, e.a, {e.t}) : journal[n].at # e.at

Seal(h) ==
    LET n == host[h].at
        e == Ev(journal[n].a, SealOf(journal[n].t), 0, n)
    IN
    /\ At(h, "seal")
    /\ Append1(e)
    /\ IF ~Conflicts(e) THEN AfterSeal(h)
       ELSE IF host[h].then = "boot" THEN Goto(h, "fail") ELSE Ends(h)
    /\ UNCHANGED <<lease, others>>

\* A host recovers the graph and picks what to do, without the lease.
Recover(h) ==
    /\ At(h, "idle") /\ Len(journal) > 1
    /\ \E r \in {Recovery(journal)} :
         /\ ~r.fails
         /\ IF r.unsealed > 0 THEN Sealing(h, r.unsealed, "idle")
            ELSE \/ /\ r.scan.phase = "next"
                    /\ host' = [host EXCEPT ![h].pc = "begin", ![h].k = r.scan.at]
                 \/ /\ r.scan.phase \in {"resume_ready", "resuming"}
                    /\ r.scan.status = "none"
                    /\ \E c \in {Cycle(journal, r.scan.at)} :
                         host' = [host EXCEPT ![h].pc = "begin", ![h].k = r.scan.at,
                                              ![h].i = c.id, ![h].at = c.res]
                 \/ r.scan.prefix = Steps /\ r.scan.status = "none" /\ Goto(h, "finalize")
    /\ UNCHANGED <<journal, lease, others>>

\* finalize: recover saw every step completed; the append is a later step.
Finalize(h) ==
    /\ At(h, "finalize")
    /\ \E s \in {Scan(journal)} :
         IF ~ScanFails(journal) /\ s.prefix = Steps /\ s.status = "none"
         THEN Goto(h, "execute") ELSE Ends(h)
    /\ UNCHANGED <<journal, lease, others>>

FinalizeAppend(h) ==
    /\ At(h, "execute")
    /\ Append1(Ev(Root, "execution.completed", 0,
                  The(Typed(journal, Steps, {"step.completed"}))))
    /\ Ends(h)
    /\ UNCHANGED <<lease, others>>

\* The host ends the orchestration attempt: after the graph, or by a stop.
EndRoot(h) ==
    /\ At(h, "idle") /\ Len(journal) > 1
    /\ Typed(journal, Root, Canonical) = {}
    /\ IF Typed(journal, Root, {"execution.completed"}) # {}
       THEN Append1(Ev(Root, "run_completed", 0, 0))
       ELSE "stop" \in Outcomes /\ Append1(Ev(Root, "run_cancelled", 0, 0))
    /\ UNCHANGED <<lease, host, others>>

---------------------------------------------------------------------------
(* A run of a step: the lease, the graph bootstrap harness, the kernel *)

\* With StaleStart a host acts on what it read before it had the lease;
\* without, only on a reading that is still right when it gets it.  A resume
\* needs the checkpoint of its interaction, and raises before the run if it
\* is gone.
Begin(h) ==
    /\ At(h, "begin")
    /\ \E r \in {Recovery(journal)} :
         IF /\ host[h].i \in {0, lease.ask}
            /\ \/ StaleStart
               \/ /\ ~r.fails /\ r.unsealed = 0 /\ r.scan.at = host[h].k
                  /\ r.scan.phase \in IF host[h].i = 0 THEN {"next"}
                                      ELSE {"resume_ready", "resuming"}
         THEN /\ lease.holder = None
              /\ lease' = [lease EXCEPT !.holder = h]
              /\ Goto(h, "boot")
         ELSE Ends(h) /\ UNCHANGED lease
    /\ UNCHANGED <<journal, others>>

Refused(h) == Goto(h, "fail")

\* start_step: recover, then start only the next step of the plan.  A step
\* that is complete makes the bootstrap harness raise.
StartStep(h) ==
    /\ At(h, "boot") /\ host[h].i = 0
    /\ \E r \in {Recovery(journal)} :
         IF r.fails THEN Refused(h)
         ELSE IF r.unsealed > 0 THEN Sealing(h, r.unsealed, "boot")
         ELSE IF r.scan.phase = "next" /\ r.scan.at = host[h].k THEN Goto(h, "handoff")
         ELSE Refused(h)
    /\ UNCHANGED <<journal, lease, others>>

Source(k) == IF k = 1 THEN 1 ELSE The(Typed(journal, k - 1, {"step.completed"}))

Handoff(h) ==
    /\ At(h, "handoff")
    /\ Append1(Ev(host[h].k, "handoff", 0, Source(host[h].k)))
    /\ Goto(h, "input")
    /\ UNCHANGED <<lease, others>>

Input(h) ==
    /\ At(h, "input")
    /\ Append1(Ev(host[h].k, "message.user", 0, 0))
    /\ Goto(h, "start")
    /\ UNCHANGED <<lease, others>>

\* repository.start; that the start was already there is not looked at.
Start(h) ==
    /\ At(h, "start")
    /\ Append1(Ev(host[h].k, "step.started", 0, 0))
    /\ Goto(h, "run")
    /\ UNCHANGED <<lease, others>>

\* The resume harness: recover, then resume_step with the evidence the host
\* read; an admission with the same evidence is returned as it is.
ResumeStep(h) ==
    LET k == host[h].k
        admitted == \E n \in Typed(journal, k, {"step.resumed"}) :
                       journal[n].i = host[h].i /\ journal[n].at = host[h].at
    IN
    /\ At(h, "boot") /\ host[h].i # 0
    /\ \E r \in {Recovery(journal)}, c \in {Cycle(journal, k)} :
         IF r.fails THEN Refused(h)
         ELSE IF r.unsealed > 0 THEN Sealing(h, r.unsealed, "boot")
         ELSE IF r.scan.prefix >= k \/ r.scan.status # "none" THEN Refused(h)
         ELSE IF admitted THEN Goto(h, "run")
         ELSE IF /\ r.scan.phase = "resume_ready" /\ r.scan.at = k
                 /\ c.id = host[h].i /\ c.res = host[h].at
              THEN Goto(h, "admit") ELSE Refused(h)
    /\ UNCHANGED <<journal, lease, others>>

\* The admission is appended, read back, and the run begins.
AdmitResume(h) ==
    /\ At(h, "admit")
    /\ Append1(Ev(host[h].k, "step.resumed", host[h].i, host[h].at))
    /\ IF ~ScanFails(journal') /\ Scan(journal').phase = "resuming"
       THEN Goto(h, "run") ELSE Refused(h)
    /\ UNCHANGED <<lease, others>>

\* _run_state_with_failure_bundle: the error of the bootstrap is recorded as
\* the terminal of the attempt.
FailBootstrap(h) ==
    /\ At(h, "fail")
    /\ Append1(Ev(host[h].k, "run_failed", 0, 0))
    /\ Ends(h) /\ Release(h)
    /\ UNCHANGED others

Count(k, t) == Cardinality(Typed(journal, k, {t}))

\* Nothing the run has begun is still open.
Answered(k) == /\ Count(k, "prompted") = Count(k, "confirmed")
               /\ Count(k, "tool.started") = Count(k, "tool.result")

\* A tool call of the run: its start and its result, which no lease guards.
ToolStart(h) ==
    LET k == host[h].k
        call == Count(k, "tool.started") + 1
    IN
    /\ At(h, "run") /\ Answered(k) /\ call <= scenario.tools
    /\ Append1(Ev(k, "tool.started", call, 0))
    /\ host' = [host EXCEPT ![h].e = call]
    /\ UNCHANGED <<lease, others>>

ToolResult(h) ==
    /\ At(h, "run") /\ host[h].e # 0
    /\ Append1(Ev(host[h].k, "tool.result", host[h].e, 0))
    /\ host' = [host EXCEPT ![h].e = 0]
    /\ UNCHANGED <<lease, others>>

\* A confirmation answered in the run.
Prompt(h) ==
    LET k == host[h].k IN
    /\ At(h, "run") /\ "prompt" \in Outcomes
    /\ Answered(k) /\ Count(k, "prompted") = 0
    /\ Append1(Ev(k, "prompted", -k, 0))
    /\ UNCHANGED <<lease, host, others>>

Confirm(h) ==
    LET k == host[h].k IN
    /\ At(h, "run") /\ Count(k, "prompted") > Count(k, "confirmed")
    /\ Append1(Ev(k, "confirmed", -k, 0))
    /\ UNCHANGED <<lease, host, others>>

AskId(k) == MaxAsks * (k - 1) + Count(k, "asked") + 1

\* The run asks the user: the lease is given up, then the request is recorded.
\* With a callback the run stays in place and waits, else it returns.
Ask(h) ==
    /\ At(h, "run") /\ Holds(h) /\ Answered(host[h].k)
    /\ Count(host[h].k, "asked") < MaxAsks
    /\ Goto(h, "ask") /\ Save(h, AskId(host[h].k))
    /\ UNCHANGED <<journal, others>>

AskAppend(h) ==
    /\ At(h, "ask")
    /\ Append1(Ev(host[h].k, "asked", AskId(host[h].k), 0))
    /\ \/ Ends(h)
       \/ /\ "callback" \in Outcomes
          /\ host' = [host EXCEPT ![h].pc = "wait", ![h].e = lease.rev]
    /\ UNCHANGED <<lease, others>>

\* The callback returns.  The guard is reacquired at the revision the wait
\* began with; an answer recorded elsewhere or a run of another host makes
\* that fail, and the error of a lost lease writes no terminal.
Answer(h) ==
    LET k == host[h].k IN
    /\ At(h, "wait")
    /\ IF lease.holder = None /\ lease.rev = host[h].e
       THEN /\ lease' = [lease EXCEPT !.holder = h, !.rev = @ + 1]
            /\ Append1(Ev(k, "activity", lease.rev, 0))
            /\ host' = [host EXCEPT ![h].pc = "run", ![h].then = "idle", ![h].e = 0]
       ELSE Ends(h) /\ UNCHANGED <<journal, lease>>
    /\ UNCHANGED others

\* The callback of the budget wait declines: the run is over.
Decline(h) ==
    /\ At(h, "wait") /\ host[h].then = "done"
    /\ IF lease.holder = None /\ lease.rev = host[h].e
       THEN Goto(h, "done") /\ lease' = [lease EXCEPT !.rev = @ + 1]
       ELSE Ends(h) /\ UNCHANGED lease
    /\ UNCHANGED <<journal, others>>

\* Defect: the answer is recorded though the run has gone on without it.
ResolveLate ==
    /\ \E k \in StepIds : \E q \in Typed(journal, k, {"asked"}) :
         Append1(Ev(k, "resolved", journal[q].i, 0))
    /\ lease' = [lease EXCEPT !.rev = @ + 1]
    /\ UNCHANGED <<host, others>>

\* The user's answer to a durable request is recorded by the host boundary.
Resolve ==
    /\ \E k \in StepIds : \E q \in Typed(journal, k, {"asked"}) :
         /\ ~\E n \in Of(journal, k) : n > q /\ journal[n].t \notin Exempt
         /\ ~Has(Ev(k, "resolved", journal[q].i, 0))
         /\ Append1(Ev(k, "resolved", journal[q].i, 0))
    /\ lease' = [lease EXCEPT !.rev = @ + 1]
    /\ UNCHANGED <<host, others>>

\* The run ends.  A terminal of a finished run is written under the guard, a
\* run that lost its lease leaves none; a failure is written without asking.
Final(h) ==
    /\ At(h, "run") /\ Answered(host[h].k) /\ "completed" \in Outcomes
    /\ Append1(Ev(host[h].k, "final_message", 0, 0))
    /\ Goto(h, "final")
    /\ UNCHANGED <<lease, others>>

Complete(h) ==
    /\ At(h, "final")
    /\ IF Holds(h)
       THEN Append1(Ev(host[h].k, "run_completed", 0, 0)) /\ Goto(h, "done")
       ELSE UNCHANGED journal /\ Ends(h)
    /\ Save(h, 0)
    /\ UNCHANGED others

RunFails(h) ==
    /\ At(h, "run")
    /\ \/ "failed" \in Outcomes /\ Append1(Ev(host[h].k, "run_failed", 1, 0))
       \/ /\ "cancelled" \in Outcomes
          /\ Append1(Ev(host[h].k, "run_cancelled", 1, 0))
    /\ Goto(h, "done") /\ Release(h)
    /\ UNCHANGED others

MaxIterations(h) ==
    /\ At(h, "run") /\ Holds(h) /\ "max" \in Outcomes
    /\ Answered(host[h].k)
    /\ Append1(Ev(host[h].k, "run_max", 0, 0))
    /\ Goto(h, "done") /\ Save(h, 0)
    /\ UNCHANGED others

\* The legacy wait for a larger budget: run_max_iterations is recorded, and
\* the callback may still let the run go on.
MaxWait(h) ==
    /\ At(h, "run") /\ Holds(h) /\ "max_wait" \in Outcomes
    /\ Answered(host[h].k) /\ Count(host[h].k, "run_max") = 0
    /\ Append1(Ev(host[h].k, "run_max", 0, 0))
    /\ host' = [host EXCEPT ![h].pc = "wait", ![h].then = "done",
                            ![h].e = lease.rev + 1]
    /\ Save(h, 0)
    /\ UNCHANGED others

\* complete_step and fail_step after the run: scan, and seal the terminal.
SealStep(h) ==
    /\ At(h, "done")
    /\ \E n \in {TerminalAfterStart(journal, host[h].k)} :
         IF ~ScanFails(journal) /\ n > 0 /\ Typed(journal, host[h].k, Seals) = {}
            /\ (journal[n].t = "run_completed" => HasOutput(journal, n))
         THEN Sealing(h, n, "idle") ELSE Ends(h)
    /\ UNCHANGED <<journal, lease, others>>

---------------------------------------------------------------------------
(* The sidecar: rebase and recover_generation_rebase_attempt *)

\* Defect: an unsealed terminal does not hold the cutover up.
RebaseUnsealed ==
    /\ sidecar.pc = "idle" /\ ~cut /\ Len(journal) > 1
    /\ Preflight(journal) # "incompatible" /\ ~PendingRequest(journal)
    /\ \A k \in Started(journal) : TerminalAfterStart(journal, k) # 0
    /\ cut' = TRUE
    /\ UNCHANGED <<journal, lease, host, sidecar, lost, crashes>>

\* One transaction: the preflight, and the cutover when it passes.  When a
\* seal is missing the failure names the step and the terminal, or the root.
Rebase ==
    /\ sidecar.pc = "idle" /\ ~cut /\ Len(journal) > 1
    /\ \E found \in {Preflight(journal)},
          need \in {{k \in StepIds : StepState(journal, k) = "recovery_required"}} :
         \/ found = "quiet" /\ cut' = TRUE /\ UNCHANGED sidecar
         \/ /\ found = "recovery_required" /\ UNCHANGED cut
            /\ sidecar' = IF need = {} THEN [pc |-> "seal", k |-> Root, at |-> 2]
                          ELSE [pc |-> "seal", k |-> Min(need),
                                at |-> TerminalAfterStart(journal, Min(need))]
    /\ UNCHANGED <<journal, lease, host, lost, crashes>>

\* recover_generation_rebase_attempt checks the evidence against the journal
\* as it is now; a seal that is already there is left alone.
EvidenceCurrent(k, at) ==
    IF k = Root
    THEN /\ \A s \in StepIds : StepState(journal, s) = "step.completed"
         /\ ~ScanFails(journal) /\ Scan(journal).status = "none"
    ELSE /\ StepState(journal, k) = "recovery_required"
         /\ ~ScanFails(journal)
         /\ TerminalAfterStart(journal, k) = at

SidecarCheck ==
    /\ sidecar.pc = "seal"
    /\ sidecar' = IF EvidenceCurrent(sidecar.k, sidecar.at)
                  THEN [sidecar EXCEPT !.pc = "append"] ELSE Quiet
    /\ UNCHANGED <<journal, lease, host, cut, lost, crashes>>

SidecarSeal ==
    /\ sidecar.pc = "append"
    /\ IF sidecar.k = Root
       THEN Append1(Ev(Root, "execution.completed", 0,
                       The(Typed(journal, Steps, {"step.completed"}))))
       ELSE Append1(Ev(sidecar.k, SealOf(journal[sidecar.at].t), 0, sidecar.at))
    /\ sidecar' = Quiet
    /\ UNCHANGED <<lease, host, cut, lost, crashes>>

---------------------------------------------------------------------------

\* The lease of a host that still runs expires.
Lose ==
    /\ lost < scenario.lost /\ lease.holder # None
    /\ lease' = [lease EXCEPT !.holder = None]
    /\ lost' = lost + 1
    /\ UNCHANGED <<journal, host, sidecar, cut, crashes>>

\* A host dies; its lease expires before anyone else can have it.
Crash(h) ==
    /\ crashes < scenario.crashes /\ ~At(h, "idle")
    /\ crashes' = crashes + 1
    /\ Ends(h) /\ Release(h)
    /\ UNCHANGED <<journal, sidecar, cut, lost>>

HostStep(h) ==
    \/ Admit(h) \/ Recover(h) \/ Seal(h) \/ Finalize(h) \/ FinalizeAppend(h)
    \/ EndRoot(h) \/ Begin(h) \/ StartStep(h) \/ Handoff(h) \/ Input(h)
    \/ Start(h) \/ ResumeStep(h) \/ AdmitResume(h) \/ FailBootstrap(h)
    \/ ToolStart(h) \/ ToolResult(h) \/ Prompt(h) \/ Confirm(h) \/ Ask(h) \/ AskAppend(h)
    \/ Answer(h) \/ Decline(h) \/ Final(h) \/ Complete(h) \/ RunFails(h)
    \/ MaxIterations(h) \/ MaxWait(h) \/ SealStep(h)

SidecarStep == Rebase \/ SidecarCheck \/ SidecarSeal

Next ==
    /\ \/ \E h \in Hosts : HostStep(h) \/ Crash(h)
       \/ SidecarStep \/ Resolve \/ Lose
    /\ UNCHANGED scenario

Spec == Init /\ [][Next]_vars

---------------------------------------------------------------------------
(* Properties *)

\* Hosts, the sidecar and the journal hold what their code writes.
TypeOK ==
    /\ scenario \in Scenarios
    /\ journal \in Seq([a : 0..Steps, t : STRING, i : Int, at : 0..Len(journal)])
    /\ lease \in [holder : Hosts \union {None}, rev : Nat,
                 ask : 0..(Steps * MaxAsks)]
    /\ \A h \in Hosts :
         /\ host[h].pc \in Running \union {"idle", "begin", "seal", "finalize",
                                          "execute", "done"}
         /\ host[h].k \in 0..Steps /\ host[h].at \in 0..Len(journal)
         /\ host[h].pc \in Running => host[h].k # 0
    /\ sidecar.pc \in {"idle", "seal", "append"} /\ cut \in BOOLEAN

\* A start_step that has recorded its input and not the start.
HalfStarted(J) == \E k \in StepIds : Of(J, k) # {} /\ StartOf(J, k) = 0

\* Every host starts from a reading that is still right under the lease, none
\* uses the legacy wait for a larger budget, and so far no host that still runs
\* has lost its lease and nobody has stopped the graph.  Each of these puts an
\* event behind a terminal, or a second terminal on an attempt.
Orderly ==
    /\ ~StaleStart /\ "max_wait" \notin Outcomes
    /\ lost = 0 /\ Typed(journal, Root, {"run_cancelled"}) = {}

\* A step is started only behind the completed seal of the step before, a seal says what
\* the terminal of its own run says, and the graph is completed only with the
\* seal of its last step.
SealsAreTrue ==
    /\ TypeOK
    /\ \A k \in StepIds \ {1} : \A n \in Of(journal, k) :
          \E s \in Typed(journal, k - 1, {"step.completed"}) : s < n
    /\ \A k \in StepIds : \A n \in Typed(journal, k, Seals) :
          LET m == journal[n].at IN
          /\ m \in After(journal, k) /\ m < n
          /\ journal[n].t = SealOf(journal[m].t)
          /\ journal[n].t = "step.completed" => HasOutput(journal, m)
    /\ \A n \in Typed(journal, Root, {"execution.completed"}) :
          journal[n].at \in Typed(journal, Steps, {"step.completed"})

\* As long as the graph is orderly, however the hosts, the sidecar, the answers
\* and the crashes interleave, the rebase preflight does not find its journal
\* incompatible, for which it has no remedy: one start, at most one terminal and
\* one seal per step, the seal right behind its terminal, steps in order of the
\* plan.  And whether orderly or not, whatever the hosts read, whenever they lose
\* their leases and whoever stops the graph, SealsAreTrue.
JournalStaysRebasable ==
    /\ SealsAreTrue
    /\ Orderly /\ Preflight(journal) = "incompatible" => HalfStarted(journal)

\* over: the scan says the graph is over, and no step is open or half started.
AgreeOn(s, unsealed, found) ==
    LET toSeal == unsealed > 0 \/ (s.prefix = Steps /\ s.status = "none")
        over == s.status # "none" /\ s.phase = "none" /\ ~HalfStarted(journal)
    IN  /\ ScanFails(journal) => found = "incompatible"
        /\ found = "quiet" => over
        /\ found = "recovery_required" => toSeal
        /\ ~PendingRequest(journal) /\ ~OpenTool(journal) =>
              /\ over => found = "quiet"
              /\ toSeal => found = "recovery_required"

\* As long as a graph is orderly, the two readers of its journal agree: unless a question
\* is left without an answer or a tool call without a result, the rebase
\* preflight lets a chat go exactly when the checkpoint scan says the graph is
\* over, and asks for a recovery exactly when the scan has a terminal to seal
\* or a graph to finalize.
ReadersAgree ==
    Orderly /\ Len(journal) > 1 =>
        \E r \in {Recovery(journal)}, found \in {Preflight(journal)} :
            AgreeOn(r.scan, r.unsealed, found)

\* h is in a run that will go on to record events.
Live(h) == \/ host[h].pc \in {"handoff", "input", "start", "admit", "run", "ask",
                               "final"}
           \/ At(h, "wait") /\ lease.rev = host[h].e

\* The generation of a graph that is still orderly, not stopped in particular, is
\* cut over only when no run of it is live: "Reject a cutover while
\* current-generation work is still live."
CutStep == Orderly /\ cut' # cut => \A h \in Hosts : ~Live(h)
CutOnlyWhenDead == [][CutStep]_vars

\* An attempt has one terminal: "a terminal written here would become a second
\* one and quarantine the chat", of a run that lost its lease.
OneTerminal == \A k \in StepIds : Cardinality(Typed(journal, k, Canonical)) <= 1
=============================================================================
