---------------------------- MODULE GraphJournal ----------------------------
(* What two readers make of the journal of one graph execution: the graph   *)
(* checkpoint scan, which hosts use to recover and advance the graph, and   *)
(* the generation-rebase preflight, which decides whether a chat may be cut *)
(* over to a new generation.  They share the vocabulary of terminals, seals *)
(* and interactions and nothing else.                                       *)
EXTENDS Integers, Sequences, FiniteSets, SequencesExt

VARIABLE scenario   \* the plan of the graph and the host around it

\* The steps of the plan are 1..Steps; 0 is the orchestration.
Steps == scenario.steps
Root == 0
StepIds == 1..Steps

Canonical == {"run_completed", "run_failed", "run_cancelled"}
DeadTerminals == {"run_failed", "run_cancelled"}
Seals == {"step.completed", "step.failed", "step.cancelled"}
Requests == {"asked", "prompted"}
Exempt == {"resolved", "confirmed", "step.resumed", "handoff"}

\* The seal a terminal calls for; run_max_iterations stands in for a failure.
SealOf(t) ==
    IF t = "run_completed" THEN "step.completed"
    ELSE IF t = "run_cancelled" THEN "step.cancelled" ELSE "step.failed"

\* An event: its attempt, its type, the interaction or iteration it is about
\* (0: none) and the position of the event its payload points to (0: none).
Ev(a, t, i, at) == [a |-> a, t |-> t, i |-> i, at |-> at]

Of(J, a) == {n \in DOMAIN J : J[n].a = a}
Typed(J, a, T) == {n \in Of(J, a) : J[n].t \in T}
Only(S) == CHOOSE x \in S : TRUE
The(S) == IF S = {} THEN 0 ELSE Max(S)

StartOf(J, k) == The(Typed(J, k, {"step.started"}))
After(J, k) == {n \in Of(J, k) : n > StartOf(J, k)}

Ambiguous == -1

\* select_attempt_terminal over the events S of an attempt: the canonical
\* terminal, or the last max-iterations event, followed only by allowed types.
LastIf(J, S, allowed, candidate) ==
    IF \A n \in S : n > candidate => J[n].t \in allowed THEN candidate ELSE 0

SelectTerminal(J, S, allowed) ==
    LET C == {n \in S : J[n].t \in Canonical}
    IN  IF Cardinality(C) > 1 THEN Ambiguous
        ELSE LastIf(J, S, allowed,
                    The(IF C # {} THEN C ELSE {n \in S : J[n].t = "run_max"}))

---------------------------------------------------------------------------
(* The graph checkpoint scan *)

NoCycle == [ok |-> TRUE, id |-> 0, res |-> 0, adm |-> 0, seen |-> {}]

\* Defect: run activity leaves the cycle open.
ScanCycleKeeps(J, admitted, c, n) ==
    LET e == J[n] IN
    CASE e.t \in Requests ->
             IF (c.id # 0 /\ c.adm = 0) \/ e.i \in c.seen
             THEN [c EXCEPT !.ok = FALSE]
             ELSE [c EXCEPT !.id = e.i, !.res = 0, !.adm = 0, !.seen = @ \union {e.i}]
      [] e.t \in {"resolved", "confirmed"} /\ c.id = e.i -> [c EXCEPT !.res = n]
      [] e.t = "step.resumed" -> [c EXCEPT !.adm = n]
      [] OTHER -> c

\* Run activity closes a cycle nobody admitted: it was answered in the run.
Activity(admitted, c, e) ==
    IF c.id # 0 /\ c.adm = 0 /\ c.id \notin admitted /\ e.t \notin Exempt
    THEN [NoCycle EXCEPT !.ok = c.ok, !.seen = c.seen] ELSE c

\* The event e, at n, after that: Bad is a cycle that is out of order.
ScanEvent(admitted, c, Bad, e, n) ==
    CASE e.t \in Requests ->
             IF (c.id # 0 /\ c.adm = 0) \/ e.i \in c.seen THEN Bad
             ELSE [ok |-> c.ok, id |-> e.i, res |-> 0, adm |-> 0,
                   seen |-> c.seen \union {e.i}]
      [] e.t = "resolved" ->
             IF c.id # e.i \/ c.res # 0 THEN Bad ELSE [c EXCEPT !.res = n]
      [] e.t = "confirmed" ->
             IF c.id # e.i \/ (c.res # 0 /\ c.adm # 0) THEN c
             ELSE IF c.res # 0 THEN Bad
             ELSE IF c.id \notin admitted
                  THEN [NoCycle EXCEPT !.ok = c.ok, !.seen = c.seen]
                  ELSE [c EXCEPT !.res = n]
      [] e.t = "step.resumed" ->
             IF c.id # e.i \/ c.res = 0 \/ c.res # e.at \/ c.adm # 0
             THEN Bad ELSE [c EXCEPT !.adm = n]
      [] OTHER -> c

\* One step of the scan's fold over the events of a started step: c is the
\* open interaction cycle, admitted the interactions with a resume admission.
ScanCycle(J, admitted, c0, n) ==
    Only({ScanEvent(admitted, c, [c EXCEPT !.ok = FALSE], J[n], n) :
            c \in {Activity(admitted, c0, J[n])}})

Admitted(J, k) == {J[n].i : n \in Typed(J, k, {"step.resumed"})}

CycleFrom(J, k, start, admitted) ==
    LET cycle[n \in 0..Len(J)] ==
            IF n < start THEN NoCycle
            ELSE IF J[n].a # k THEN cycle[n - 1]
            ELSE Only({ScanCycle(J, admitted, c, n) : c \in {cycle[n - 1]}})
    IN  cycle[Len(J)]

Cycle(J, k) == CycleFrom(J, k, StartOf(J, k), Admitted(J, k))

\* Steps sealed completed, as a prefix of the plan.
Completed(J) == {k \in StepIds : Typed(J, k, {"step.completed"}) # {}}
DeadSteps(J) == {k \in StepIds : Typed(J, k, {"step.failed", "step.cancelled"}) # {}}
Started(J) == {k \in StepIds : StartOf(J, k) # 0}

\* The status the root gave the graph: its completion, or an earlier terminal.
GraphTerminal(J, done, dead) ==
    IF done # 0 /\ \A n \in dead : n > done THEN "completed"
    ELSE IF dead = {} THEN "none"
    ELSE IF J[The(dead)].t = "run_failed" THEN "failed" ELSE "cancelled"

Done(J) == The(Typed(J, Root, {"execution.completed"}))
Dead(J) == Typed(J, Root, DeadTerminals)

\* scan raises on any of these, given the end of the graph, the terminals of
\* its root, and its completed and started steps.
OutOfOrder(J, done, dead, completed, started) ==
    \/ done # 0 /\ \E n \in dead : n < done
    \/ done = 0 /\ Cardinality(dead) > 1
    \/ Typed(J, Root, {"execution.admitted"}) = {}
    \/ \E k \in StepIds : Cardinality(Typed(J, k, Seals)) > 1
    \/ completed # 1..Cardinality(completed)
    \/ ~(completed \subseteq started)
    \/ \E k \in started : ~Cycle(J, k).ok
    \/ \E k \in StepIds \ started : Admitted(J, k) # {}
    \/ /\ done = 0 /\ dead = {}
       /\ \E d \in DeadSteps(J) : \E k \in started : k > d
ScanFails(J) == OutOfOrder(J, Done(J), Dead(J), Completed(J), Started(J))

\* The phase of a started step, from its cycle.
PhaseOf(c) == IF c.id = 0 THEN "uncertain"
              ELSE IF c.res = 0 THEN "suspended"
              ELSE IF c.adm = 0 THEN "resume_ready" ELSE "resuming"

\* scan: the completed prefix, the step it is at with its phase, the status.
ScanAt(J, terminal, prefix, dead, at) ==
    [prefix |-> prefix, at |-> at,
     phase |-> IF at = 0 THEN "none"
               ELSE IF at \in Started(J) THEN PhaseOf(Cycle(J, at))
               ELSE IF terminal = "none" THEN "next" ELSE "none",
     status |-> IF terminal # "none" \/ dead = {} THEN terminal
                ELSE IF Typed(J, Min(dead), {"step.failed"}) # {}
                     THEN "failed" ELSE "cancelled"]
ScanTo(J, terminal, prefix, dead) ==
    ScanAt(J, terminal, prefix, dead,
           IF terminal = "completed" \/ prefix = Steps \/ dead # {}
           THEN 0 ELSE prefix + 1)
Scan(J) ==
    ScanTo(J, GraphTerminal(J, Done(J), Dead(J)), Cardinality(Completed(J)), DeadSteps(J))

Pending == {"uncertain", "suspended", "resume_ready", "resuming"}

TerminalAfterStart(J, k) ==
    IF StartOf(J, k) = 0 THEN 0 ELSE SelectTerminal(J, After(J, k), {})

HasOutput(J, n) == \E f \in Typed(J, J[n].a, {"final_message"}) : f < n

\* What recover makes of the journal: the scan s, the terminal of the pending
\* step, which it has to seal (0 if there is none), and whether it raises: on
\* ambiguous terminals, and on a completion without an output.
Recovered(J, s, n) ==
    [scan |-> s, unsealed |-> n,
     fails |-> \/ ScanFails(J) \/ n = Ambiguous
               \/ n > 0 /\ J[n].t = "run_completed" /\ ~HasOutput(J, n)]
RecoverFrom(J, s) ==
    Recovered(J, s, IF s.phase \in Pending THEN TerminalAfterStart(J, s.at) ELSE 0)
Recovery(J) == RecoverFrom(J, Scan(J))

---------------------------------------------------------------------------
(* The generation-rebase preflight *)

\* _validate_graph_step_interaction_cycles: one step of the validator's fold;
\* mine: the event is about the open cycle.
ValidEvent(admitted, c, mine, e, n) ==
    LET good ==
          CASE e.t \in Requests -> (c.id = 0 \/ c.adm # 0) /\ e.i \notin c.seen
            [] e.t = "resolved" -> mine /\ c.res = 0
            [] e.t = "confirmed" -> mine /\ c.res # 0 => c.adm # 0
            [] e.t = "step.resumed" ->
                   mine /\ c.res # 0 /\ c.res = e.at /\ c.adm = 0
            [] OTHER -> TRUE
    IN  IF ~good THEN [c EXCEPT !.ok = FALSE]
        ELSE CASE e.t \in Requests ->
                    [c EXCEPT !.id = e.i, !.res = 0, !.adm = 0,
                              !.seen = @ \union {e.i}]
               [] e.t = "resolved" -> [c EXCEPT !.res = n]
               [] e.t = "confirmed" /\ mine /\ c.res = 0 ->
                    IF c.id \in admitted THEN [c EXCEPT !.res = n]
                    ELSE [NoCycle EXCEPT !.ok = c.ok, !.seen = c.seen]
               [] e.t = "step.resumed" -> [c EXCEPT !.adm = n]
               [] OTHER -> c

ValidCycle(J, admitted, c0, n) ==
    Only({ValidEvent(admitted, c, c.id # 0 /\ c.id = J[n].i, J[n], n) :
            c \in {Activity(admitted, c0, J[n])}})

ValidFrom(J, k, start, admitted) ==
    LET cycle[n \in 0..Len(J)] ==
            IF n < start THEN NoCycle
            ELSE IF J[n].a # k THEN cycle[n - 1]
            ELSE Only({ValidCycle(J, admitted, c, n) : c \in {cycle[n - 1]}})
    IN  cycle[Len(J)].ok
ValidCycles(J, k) == ValidFrom(J, k, StartOf(J, k), Admitted(J, k))

\* Where the input of a started step comes from: the handoff names the seal of
\* the step before, or the user's message for the first one.
ResumesAnswered(J, k) ==
    \A n \in Typed(J, k, {"step.resumed"}) :
        \E q \in Typed(J, k, Requests) :
            /\ J[q].i = J[n].i /\ StartOf(J, k) < q /\ q < J[n].at /\ J[n].at < n
            /\ J[J[n].at].t \in {"resolved", "confirmed"}

Provenance(J, k) ==
    LET start == StartOf(J, k)
        h == The(Typed(J, k, {"handoff"}))
        m == The(Typed(J, k, {"message.user"}))
    IN  /\ h # 0 /\ h < m /\ m < start
        /\ IF k = 1 THEN J[h].at = 1
           ELSE \E s \in Typed(J, k - 1, {"step.completed"}) :
                   s < h /\ J[h].at = s

\* A seal follows its terminal at once, is of its kind and names it.
SealFits(J, k, seal, terminal) ==
    /\ ~\E n \in Of(J, k) : terminal < n /\ n < seal
    /\ J[seal].t = SealOf(J[terminal].t)
    /\ J[seal].at = terminal

\* _classify_graph_step_attempt, for an attempt that has events.
ClassifyBy(J, k, after, seals, seal, terminal) ==
    IF \/ StartOf(J, k) = 0 \/ ~Provenance(J, k) \/ ~ResumesAnswered(J, k)
       \/ ~ValidCycles(J, k)
       \/ terminal = Ambiguous \/ Cardinality(seals) > 1
       \/ seal # 0 /\ seal # Max(Of(J, k))
    THEN "incompatible"
    ELSE IF terminal = 0
    THEN IF seal # 0 \/ \E n \in after : J[n].t \in Canonical
         THEN "incompatible" ELSE "blocked"
    ELSE IF seal = 0 THEN "recovery_required"
    ELSE IF SealFits(J, k, seal, terminal) THEN J[seal].t
    ELSE "incompatible"
ClassifyAfter(J, k, after, seals) ==
    ClassifyBy(J, k, after, seals, The(seals), SelectTerminal(J, after, Seals))
Classify(J, k) == ClassifyAfter(J, k, After(J, k), Typed(J, k, Seals))

StepState(J, k) == IF Of(J, k) = {} THEN "absent" ELSE Classify(J, k)

\* The checks on the orchestration attempt, given the states of its steps.
RootBy(J, step, seal, terminal, completed, dead) ==
    LET events == Of(J, Root)
        admission == The(Typed(J, Root, {"execution.admitted"}))
    IN  IF \/ Cardinality(Typed(J, Root, {"execution.completed"})) > 1
           \/ Cardinality(Typed(J, Root, Canonical)) > 1
           \/ terminal # 0 /\ terminal # Max(events)
           \/ \E k \in StepIds : /\ step[k] # "absent"
                                 /\ \E p \in 1..(k - 1) :
                                       step[p] # "step.completed"
           \/ /\ seal # 0
              /\ \/ step[Steps] # "step.completed"
                 \/ J[seal].at # The(Typed(J, Steps, Seals)) \/ seal < J[seal].at
        THEN "incompatible"
        ELSE IF terminal # 0 /\ seal = 0 /\ J[terminal].t \in DeadTerminals
        THEN IF \E n \in events : admission < n /\ n < terminal
             THEN "incompatible" ELSE "quiet"
        ELSE IF terminal # 0
        THEN IF ~completed \/ seal = 0 \/ seal > terminal
             THEN "incompatible" ELSE "quiet"
        ELSE IF seal # 0
        THEN IF seal # Max(events) \/ ~completed THEN "incompatible" ELSE "quiet"
        ELSE IF dead # {}
        THEN IF Cardinality(dead) # 1 \/ admission # Max(events)
             THEN "incompatible" ELSE "quiet"
        ELSE IF completed /\ admission = Max(events) THEN "recovery_required"
        ELSE "blocked"
RootState(J, step) ==
    RootBy(J, step, Done(J), The(Typed(J, Root, Canonical)),
           \A k \in StepIds : step[k] = "step.completed",
           {k \in StepIds : step[k] \in {"step.failed", "step.cancelled"}})

\* _assert_no_pending_interaction: a durable request is pending until it is
\* resolved or its attempt has a canonical terminal.
Unpaired(J) ==
    \E n \in DOMAIN J : /\ J[n].t = "resolved"
                        /\ ~\E q \in Typed(J, J[n].a, {"asked"}) :
                               q < n /\ J[q].i = J[n].i
PendingRequest(J) ==
    \E q \in DOMAIN J : /\ J[q].t = "asked"
                        /\ ~\E n \in Of(J, J[q].a) :
                              \/ J[n].t = "resolved" /\ J[n].i = J[q].i
                              \/ n > q /\ J[n].t \in Canonical

\* A tool call that was started has no result: nobody knows what it did.
OpenTool(J) == \E n \in DOMAIN J :
                  /\ J[n].t = "tool.started"
                  /\ ~\E m \in Typed(J, J[n].a, {"tool.result"}) : J[m].i = J[n].i

\* _assert_durable_preflight: what a cutover finds.
FoundIn(J, states) ==
    IF Unpaired(J) THEN "incompatible"
    ELSE IF PendingRequest(J) THEN "blocked"
    ELSE IF "incompatible" \in states THEN "incompatible"
    ELSE IF "recovery_required" \in states THEN "recovery_required"
    ELSE IF "blocked" \in states \/ OpenTool(J) THEN "blocked" ELSE "quiet"
StatesWith(J, step) == Range(step) \union {RootState(J, step)}
Preflight(J) == FoundIn(J, StatesWith(J, [k \in StepIds |-> StepState(J, k)]))
=============================================================================
