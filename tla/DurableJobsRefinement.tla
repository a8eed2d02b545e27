----------------------- MODULE DurableJobsRefinement -----------------------
(***************************************************************************)
(* Supervisors, wrappers and files implement CommandOnce, step by step;    *)
(* the job directory can always be completed; and a job is given up only   *)
(* on the evidence its suspicion window began with.                        *)
(***************************************************************************)
EXTENDS DurableJobsSafety

\* Most steps need no arithmetic; the ones that do name the SMT solver.
USE Zenon

(***************************************************************************)
(* The job directory before its cursor is written                          *)
(***************************************************************************)

Queued0 == [NoState EXCEPT !.status = "queued"]

\* Nobody knows the job, and nothing but reserve_process_job has happened to it.
Unborn ==
    /\ state \in {NoState, Queued0} /\ ~LaunchArtifacts /\ ~published
    /\ \A s \in Supervisors : spc[s] = "idle"
    /\ \A w \in Workers : wpc[w] = "unborn"

\* The cursor is the last of the initial files; with it there is a state.
BirthInv == IF cursor THEN state.status # "absent" ELSE Unborn

\* What the snapshot of a call and the claim it read are at each of its steps.
Active == {"queued", "starting", "running"}

CallOk(s) ==
    /\ spc[s] \notin {"idle", "load"} => snap[s].status \in Active
    /\ spc[s] \in {"idle", "load", "heartbeat", "claim", "request"} => seenClaim[s] = None
    /\ spc[s] = "unknown" /\ suspect[s] # None =>
         suspect[s] = Signature(snap[s],
                                IF seenClaim[s] = None THEN None ELSE seenClaim[s].id,
                                seenSeq[s])

CallInv == \A s \in Supervisors : CallOk(s)

(***************************************************************************)
(* The status while a wrapper is at work                                   *)
(***************************************************************************)

\* Between the STARTING receipt and the RUNNING one, and after it.
Launching == {"cancelCheck", "cancelWrite", "claimCheck", "popen", "runWrite"}
Looping == {"loop", "final"}

StageOk(w) ==
    /\ wpc[w] \in Launching => state.status \in {"starting", "outcome_unknown"}
    /\ wpc[w] \in Looping => state.status \in {"running", "outcome_unknown"}
    /\ wpc[w] \in Looping \cup {"runWrite"} => child[w] # "none"

StageInv == \A w \in Workers : StageOk(w)

RefInv == JobInv /\ BirthInv /\ CallInv /\ StageInv

(***************************************************************************)
(* The initial files                                                       *)
(***************************************************************************)

\* A status that is there stays there.
LEMMA StatusStays ==
    ASSUME JobInv, [Next]_vars, state.status # "absent"
    PROVE  state'.status # "absent"
<1>t. TypeInv /\ state \in States
  BY DEF JobInv, TypeInv, StoreTypeOK
<1>1. ASSUME NEW s \in Supervisors, SupervisorAction(s) PROVE state'.status # "absent"
  <2>1. SupervisorEffect
    BY <1>1, <1>t, SupervisorActionEffect
  <2>2. NoState.status = "absent"
    BY DEF NoState
  <2>3. QED BY <1>t, <2>1, <2>2 DEF SupervisorEffect, States
<1>2. ASSUME NEW status, NEW p, UpdateState(status, p), status # "absent"
      PROVE  state'.status # "absent"
  BY <1>t, <1>2 DEF UpdateState, States
<1>3. ASSUME NEW w \in Workers, WriteStarting(w) \/ CancelBeforeLaunch(w) \/ WriteRunning(w)
                                \/ HandlerWrite(w)
      PROVE  state'.status # "absent"
  BY <1>2, <1>3 DEF WriteStarting, CancelBeforeLaunch, WriteRunning, HandlerWrite, TryUpdate,
     storeVars
<1>4. ASSUME NEW w \in Workers, WriteFinal(w) PROVE state'.status # "absent"
  <2>1. verdict[w] # "absent"
    BY <1>t DEF TypeInv, WorkerTypeInv, WorkerTypeOK, TERMINAL_JOB_STATUSES
  <2>2. QED BY <1>2, <1>4, <2>1 DEF WriteFinal, TryUpdate, storeVars
<1>5. ASSUME NEW w \in Workers, CheckClaim(w) PROVE state'.status # "absent"
  BY <1>5, <1>t DEF CheckClaim, TransitionToOutcomeUnknown, States, storeVars
<1>6. ASSUME NEW w \in Workers, WorkerStep(w) PROVE state'.status # "absent"
  BY <1>3, <1>4, <1>5, <1>6
  DEF WorkerStep, WorkerClaim, ClaimWorker, LeaseStart, WriteHeartbeat, CheckCancel, Popen,
      LoopCancel, LoopTimeout, LoopChildExited, EndLoop, HandlerLoad, HandlerStop, storeVars
<1>7. ASSUME NEW w \in Workers,
             WorkerRaises(w) \/ HeartbeatThread(w) \/ ChildExits(w) \/ CrashWorker(w)
      PROVE state'.status # "absent"
  BY <1>7 DEF WorkerRaises, HeartbeatThread, WriteHeartbeat, ChildExits, CrashWorker, storeVars
<1>8. CASE UNCHANGED vars
  BY <1>8 DEF vars, storeVars
<1>9. QED BY <1>1, <1>6, <1>7, <1>8 DEF Next, Move, SupervisorAction

\* The cursor is never deleted.
LEMMA CursorStays ==
    ASSUME [Next]_vars, cursor
    PROVE  cursor'
<1> USE DEF storeVars
<1>1. ASSUME NEW s \in Supervisors, SupervisorStep(s) PROVE cursor'
  BY <1>1 DEF SupervisorStep, LoadAfterReserve, WriteCancelMarker, RequestCancel, ClearClaim,
     ClearStaleClaim, SpawnNothing, SpawnWorker, ReconcileLaunched, ReconcileQueued, ReadClaim,
     ProbePid, PersistOutcomeUnknown, TransitionToOutcomeUnknown
<1>2. ASSUME NEW s \in Supervisors, SupervisorAction(s) PROVE cursor'
  BY <1>1, <1>2 DEF SupervisorAction, Start, CrashInReserve, ReserveProcessJob, EnsureInitialFiles,
     Inspect, Reattach, Close, Reopen, CrashSupervisor
<1>3. ASSUME NEW w \in Workers, WorkerStep(w) PROVE cursor'
  BY <1>3 DEF WorkerStep, WorkerClaim, ClaimWorker, LeaseStart, WriteHeartbeat, WriteStarting,
     CheckCancel, CancelBeforeLaunch, CheckClaim, TransitionToOutcomeUnknown, Popen, WriteRunning,
     LoopCancel, LoopTimeout, LoopChildExited, EndLoop, WriteFinal, HandlerLoad, HandlerStop,
     HandlerWrite, TryUpdate, UpdateState
<1>4. ASSUME NEW w \in Workers,
             WorkerRaises(w) \/ HeartbeatThread(w) \/ ChildExits(w) \/ CrashWorker(w)
      PROVE cursor'
  BY <1>4 DEF WorkerRaises, HeartbeatThread, WriteHeartbeat, ChildExits, CrashWorker
<1>5. CASE UNCHANGED vars
  BY <1>5 DEF vars
<1>6. QED BY <1>2, <1>3, <1>4, <1>5 DEF Next, Move, SupervisorAction

\* Before the cursor is written only reserve_process_job and reattach do anything.
LEMMA NextBirthInv == JobInv /\ BirthInv /\ [Next]_vars => BirthInv'
<1> SUFFICES ASSUME JobInv, BirthInv, [Next]_vars PROVE BirthInv'
  OBVIOUS
<1>t. TypeInv /\ SupervisorTypeOK /\ WorkerTypeOK /\ LaunchInv
  BY DEF JobInv, TypeInv, SupervisorTypeInv, WorkerTypeInv
<1>1. CASE cursor
  BY <1>1, StatusStays, CursorStays DEF BirthInv
<1>2. CASE ~cursor
  <2>1. Unborn
    BY <1>2 DEF BirthInv
  <2>2. claim = None /\ heartbeat.pid = None /\ ~cancelMarker
    BY <2>1 DEF Unborn, LaunchArtifacts
  <2>3. Queued0.status = "queued"
    BY DEF Queued0, NoState
  <2>4. ASSUME state' \in {NoState, Queued0}, ~published',
               UNCHANGED <<claim, heartbeat, cancelMarker, wpc>>,
               \A s \in Supervisors : spc'[s] = "idle", ~cursor'
        PROVE  BirthInv'
    BY <2>1, <2>2, <2>4 DEF Unborn, BirthInv, LaunchArtifacts
  <2>5. ASSUME NEW s \in Supervisors, NEW i \in Intents, Start(s, i) PROVE BirthInv'
    <3>1. cursor' /\ state' \in {Queued0}
      BY <2>1, <2>5 DEF Start, ReserveProcessJob, EnsureInitialFiles, Unborn, Queued0
    <3>2. QED BY <2>3, <3>1 DEF BirthInv
  <2>6. ASSUME NEW s \in Supervisors, Reattach(s) PROVE BirthInv'
    <3>1. cursor' /\ state' \in {Queued0}
      BY <2>1, <2>6 DEF Reattach, EnsureInitialFiles, Unborn, Queued0
    <3>2. QED BY <2>3, <3>1 DEF BirthInv
  <2>7. ASSUME NEW s \in Supervisors, NEW i \in Intents, NEW last \in {"spec", "state"},
               CrashInReserve(s, i, last)
        PROVE  BirthInv'
    <3>1. /\ ~cursor' /\ state' \in {NoState, Queued0}
          /\ UNCHANGED <<claim, heartbeat, cancelMarker, wpc, published, spc>>
      BY <1>2, <2>1, <2>7 DEF CrashInReserve, ReserveProcessJob, EnsureInitialFiles, Unborn, Queued0
    <3>2. QED BY <2>1, <2>4, <3>1 DEF Unborn
  <2>8. ASSUME NEW s \in Supervisors, Close(s) \/ Reopen(s) \/ CrashSupervisor(s) PROVE BirthInv'
    <3>1. UNCHANGED <<storeVars, published, wpc>>
      BY <2>8 DEF Close, Reopen, CrashSupervisor, SameWorkers, workerVars
    <3>2. spc' = spc \/ spc' = [spc EXCEPT ![s] = "idle"]
      BY <2>8 DEF Close, Reopen, CrashSupervisor, Finish, Goto
    <3>3. \A r \in Supervisors : spc'[r] = "idle"
      BY <1>t, <2>1, <3>2 DEF Unborn, SupervisorTypeOK
    <3>4. QED BY <1>2, <2>1, <2>4, <3>1, <3>3 DEF Unborn, storeVars
  <2>9. ASSUME NEW s \in Supervisors, Inspect(s) \/ SupervisorStep(s) PROVE FALSE
    BY <2>1, <2>9 DEF Unborn, Inspect, SupervisorStep, LoadAfterReserve, WriteCancelMarker, ClearClaim,
       SpawnNothing, SpawnWorker, ReconcileLaunched, ReconcileQueued, ReadClaim, ProbePid,
       PersistOutcomeUnknown
  <2>10. ASSUME NEW w \in Workers, WorkerStep(w) \/ WorkerRaises(w) \/ CrashWorker(w) PROVE FALSE
    <3>1. wpc[w] = "unborn"
      BY <2>1 DEF Unborn
    <3>2. CASE WorkerStep(w)
      BY <3>1, <3>2 DEF WorkerStep, WorkerClaim, LeaseStart, WriteStarting, CheckCancel,
         CancelBeforeLaunch, CheckClaim, Popen, WriteRunning, LoopCancel, LoopTimeout,
         LoopChildExited, EndLoop, WriteFinal, HandlerLoad, HandlerStop, HandlerWrite
    <3>3. CASE WorkerRaises(w) \/ CrashWorker(w)
      BY <3>1, <3>3 DEF WorkerRaises, CrashWorker, Guarded, Alive, Owning
    <3>4. QED BY <2>10, <3>2, <3>3
  <2>11. ASSUME NEW w \in Workers, HeartbeatThread(w) \/ ChildExits(w) PROVE BirthInv'
    <3>1. ~ChildExits(w)
      BY <1>t, <2>1 DEF Unborn, ChildExits, LaunchInv, BeforePopen
    <3>2. ~WriteHeartbeat(pid[w])
      BY <2>2 DEF WriteHeartbeat, CanHeartbeat, WorkerClaimIsCurrent
    <3>3. UNCHANGED <<storeVars, published, spc, wpc>>
      BY <2>11, <3>1, <3>2 DEF HeartbeatThread, SameSupervisors, supVars
    <3>4. QED BY <1>2, <2>1, <2>4, <3>3 DEF Unborn, storeVars
  <2>12. CASE UNCHANGED vars
    BY <1>2, <2>1, <2>4, <2>12 DEF Unborn, vars, storeVars, supVars, workerVars
  <2>13. QED
    BY <2>5, <2>6, <2>7, <2>8, <2>9, <2>10, <2>11, <2>12 DEF Next, Move
<1>3. QED BY <1>1, <1>2

(***************************************************************************)
(* The evidence of a call                                                  *)
(***************************************************************************)

\* A step touches the call of one supervisor.
OnlyCallOf(s) ==
    \A r \in Supervisors \ {s} :
        /\ spc'[r] = spc[r] /\ snap'[r] = snap[r] /\ seenClaim'[r] = seenClaim[r]
        /\ suspect'[r] = suspect[r] /\ seenSeq'[r] = seenSeq[r]

\* The other calls keep their evidence.
LEMMA CallKept ==
    ASSUME CallInv, NEW s \in Supervisors, OnlyCallOf(s), CallOk(s)'
    PROVE  CallInv'
<1>1. ASSUME NEW r \in Supervisors \ {s} PROVE CallOk(r)'
  <2>1. CallOk(r)
    BY DEF CallInv
  <2>2. QED BY <2>1 DEF CallOk, OnlyCallOf, Signature
<1>2. QED BY <1>1 DEF CallInv

\* Where Goto, Finish and Return leave the call.
LEMMA GotoCall ==
    ASSUME SupervisorTypeOK, NEW s \in Supervisors, NEW pc, NEW o, NEW sn, Goto(s, pc, o, sn)
    PROVE  /\ spc'[s] = pc /\ snap'[s] = sn
           /\ \A r \in Supervisors \ {s} : spc'[r] = spc[r] /\ snap'[r] = snap[r]
BY DEF SupervisorTypeOK, Goto

LEMMA ForgetCall ==
    ASSUME SupervisorTypeOK, NEW s \in Supervisors, Forget(s)
    PROVE  /\ seenClaim'[s] = None
           /\ \A r \in Supervisors \ {s} :
                 seenClaim'[r] = seenClaim[r] /\ seenSeq'[r] = seenSeq[r]
BY DEF SupervisorTypeOK, Forget

LEMMA SuspectCall ==
    ASSUME SupervisorTypeOK, NEW s \in Supervisors,
           \/ UNCHANGED suspect \/ ClearSuspicion(s)
           \/ \E c, q : Observe(s, c, q)
    PROVE  \A r \in Supervisors \ {s} : suspect'[r] = suspect[r]
BY DEF SupervisorTypeOK, ClearSuspicion, Observe

\* A call that ends has forgotten its evidence, whatever it suspects.
LEMMA FinishCall ==
    ASSUME SupervisorTypeOK, CallInv, NEW s \in Supervisors, Finish(s),
           \/ UNCHANGED suspect \/ ClearSuspicion(s) \/ \E c, q : Observe(s, c, q)
    PROVE  CallInv'
<1>1. spc'[s] = "idle" /\ seenClaim'[s] = None
  BY GotoCall, ForgetCall DEF Finish
<1>2. OnlyCallOf(s)
  BY GotoCall, ForgetCall, SuspectCall DEF Finish, OnlyCallOf
<1>3. CallOk(s)'
  BY <1>1 DEF CallOk
<1>4. QED BY <1>2, <1>3, CallKept

\* Also when it goes on to the cancel marker, with a snapshot that is not terminal.
LEMMA ReturnCall ==
    ASSUME SupervisorTypeOK, CallInv, NEW s \in Supervisors, NEW sn, Return(s, sn),
           Terminal(sn) \/ sn.status \in Active,
           \/ UNCHANGED suspect \/ ClearSuspicion(s) \/ \E c, q : Observe(s, c, q)
    PROVE  CallInv'
<1>1. CASE Finish(s)
  BY <1>1, FinishCall
<1>2. CASE Goto(s, "request", "cancel", sn) /\ Forget(s) /\ ~Terminal(sn)
  <2>1. spc'[s] = "request" /\ snap'[s] = sn /\ seenClaim'[s] = None
    BY <1>2, ForgetCall DEF SupervisorTypeOK, Goto
  <2>2. OnlyCallOf(s)
    BY <1>2, GotoCall, ForgetCall, SuspectCall DEF OnlyCallOf
  <2>3. CallOk(s)'
    BY <1>2, <2>1 DEF CallOk
  <2>4. QED BY <2>2, <2>3, CallKept
<1>3. QED BY <1>1, <1>2 DEF Return

\* A call goes to another step that is not the last one.
LEMMA GotoKeepsCall ==
    ASSUME SupervisorTypeOK, CallInv, NEW s \in Supervisors, NEW pc, NEW o, NEW sn,
           Goto(s, pc, o, sn), pc # "unknown",
           sn.status \in Active \/ pc \in {"idle", "load"},
           pc \in {"idle", "load", "heartbeat", "claim", "request"} => seenClaim'[s] = None,
           \A r \in Supervisors \ {s} : seenClaim'[r] = seenClaim[r] /\ seenSeq'[r] = seenSeq[r],
           UNCHANGED suspect \/ ClearSuspicion(s)
    PROVE  CallInv'
<1>1. spc'[s] = pc /\ snap'[s] = sn
  BY DEF SupervisorTypeOK, Goto
<1>2. OnlyCallOf(s)
  BY GotoCall, SuspectCall DEF OnlyCallOf
<1>3. CallOk(s)'
  BY <1>1 DEF CallOk
<1>4. QED BY <1>2, <1>3, CallKept

\* A status that is there is terminal or active.
LEMMA ActiveOrTerminal ==
    ASSUME NEW st \in States, st.status # "absent"
    PROVE  Terminal(st) \/ st.status \in Active
BY DEF States, JOB_STATUSES, Terminal, Active

\* The calls that begin: the state they load is there.
LEMMA BeginCall ==
    ASSUME JobInv, BirthInv, CallInv, NEW s \in Supervisors, BirthInv', StoreTypeOK',
           \/ \E i \in Intents : Start(s, i)
           \/ Inspect(s) \/ Reattach(s) \/ LoadAfterReserve(s)
    PROVE  CallInv'
<1>t. SupervisorTypeOK /\ state \in States /\ state' \in States /\ CallOk(s)
  BY DEF JobInv, TypeInv, SupervisorTypeInv, StoreTypeOK, CallInv
<1>1. ASSUME NEW i \in Intents, Start(s, i) PROVE CallInv'
  <2>1. Goto(s, "load", "launch", NoState) /\ UNCHANGED <<seenClaim, seenSeq, suspect>> /\ spc[s] = "idle"
    BY <1>1 DEF Start
  <2>2. seenClaim'[s] = None
    BY <1>t, <2>1 DEF CallOk
  <2>3. QED BY <1>t, <2>1, <2>2, GotoKeepsCall
<1>2. ASSUME NEW o, LoadInto(s, o), spc[s] \in {"idle", "load"}, state.status # "absent"
      PROVE  CallInv'
  <2>1. CASE Terminal(state)
    BY <1>t, <1>2, <2>1, FinishCall DEF LoadInto
  <2>2. CASE ~Terminal(state)
    <3>1. Goto(s, "heartbeat", o, state) /\ UNCHANGED <<seenClaim, seenSeq, suspect>>
      BY <1>2, <2>2 DEF LoadInto
    <3>2. seenClaim'[s] = None
      BY <1>t, <1>2, <3>1 DEF CallOk
    <3>3. state.status \in Active
      BY <1>t, <1>2, <2>2, ActiveOrTerminal
    <3>4. PICK sn \in States : sn = state
      BY <1>t
    <3>5. Goto(s, "heartbeat", o, sn) /\ sn.status \in Active
      BY <3>1, <3>3, <3>4
    <3>6. QED BY <1>t, <3>1, <3>2, <3>5, GotoKeepsCall
  <2>3. QED BY <2>1, <2>2
<1>3. CASE Inspect(s) \/ LoadAfterReserve(s)
  <2>1. spc[s] \in {"idle", "load"} /\ (published \/ spc[s] # "idle")
    BY <1>3 DEF Inspect, LoadAfterReserve
  <2>2. state.status # "absent"
    BY <2>1 DEF BirthInv, Unborn
  <2>3. PICK o : LoadInto(s, o)
    BY <1>3 DEF Inspect, LoadAfterReserve
  <2>4. QED BY <1>2, <2>1, <2>2, <2>3
<1>4. CASE Reattach(s)
  <2>1. cursor' /\ spc[s] = "idle"
    BY <1>4 DEF Reattach, EnsureInitialFiles
  <2>2. state'.status # "absent"
    BY <2>1 DEF BirthInv
  <2>3. CASE Terminal(state')
    BY <1>t, <1>4, <2>3, FinishCall DEF Reattach
  <2>4. CASE ~Terminal(state')
    <3>1. PICK sn \in States : sn = state'
      BY <1>t
    <3>2. PICK o : o = LaunchUnlessClosed(s)
      OBVIOUS
    <3>3. Goto(s, "heartbeat", o, sn) /\ UNCHANGED <<seenClaim, seenSeq, suspect>>
      BY <1>4, <2>4, <3>1, <3>2 DEF Reattach
    <3>4. sn.status \in Active
      BY <2>2, <2>4, <3>1, ActiveOrTerminal DEF Terminal
    <3>5. seenClaim'[s] = None
      BY <1>t, <2>1, <3>3 DEF CallOk
    <3>6. QED BY <1>t, <3>3, <3>4, <3>5, GotoKeepsCall
  <2>5. QED BY <2>3, <2>4
<1>5. QED BY <1>1, <1>3, <1>4

\* The steps of _reconcile and of the end of cancel.
LEMMA ReconcileCall ==
    ASSUME JobInv, BirthInv, CallInv, NEW s \in Supervisors, SupervisorStep(s),
           ~LoadAfterReserve(s), StoreTypeOK'
    PROVE  CallInv'
<1>t. /\ SupervisorTypeOK /\ state \in States /\ state' \in States /\ CallOk(s)
      /\ claim \in Claims \cup {None}
  BY DEF JobInv, TypeInv, SupervisorTypeInv, StoreTypeOK, CallInv
<1>s. spc[s] \notin {"idle", "load"} => snap[s] \in States /\ snap[s].status \in Active
  BY <1>t DEF CallOk, SupervisorTypeOK
<1>r. ASSUME spc[s] \notin {"idle", "load"}, Return(s, snap[s]),
             \/ UNCHANGED suspect \/ ClearSuspicion(s) \/ \E c, q : Observe(s, c, q)
      PROVE  CallInv'
  <2>1. PICK sn \in States : sn = snap[s]
    BY <1>s, <1>r
  <2>2. Return(s, sn) /\ sn.status \in Active
    BY <1>s, <1>r, <2>1
  <2>3. QED BY <1>t, <1>r, <2>2, ReturnCall
<1>g. ASSUME NEW pc, NEW o, spc[s] \notin {"idle", "load"}, Goto(s, pc, o, snap[s]), pc # "unknown",
             pc \in {"idle", "load", "heartbeat", "claim", "request"} => seenClaim'[s] = None,
             \A r \in Supervisors \ {s} : seenClaim'[r] = seenClaim[r] /\ seenSeq'[r] = seenSeq[r],
             UNCHANGED suspect \/ ClearSuspicion(s)
      PROVE  CallInv'
  <2>1. PICK sn \in States : sn = snap[s]
    BY <1>s, <1>g
  <2>2. Goto(s, pc, o, sn) /\ sn.status \in Active
    BY <1>s, <1>g, <2>1
  <2>3. QED BY <1>t, <1>g, <2>2, GotoKeepsCall
<1>1. CASE WriteCancelMarker(s)
  <2>1. PICK o : o = LaunchUnlessClosed(s)
    OBVIOUS
  <2>2. /\ spc[s] = "request" /\ Goto(s, "heartbeat", o, snap[s])
        /\ UNCHANGED <<seenClaim, seenSeq, suspect>>
    BY <1>1, <2>1 DEF WriteCancelMarker
  <2>3. seenClaim'[s] = None
    BY <1>t, <2>2 DEF CallOk
  <2>4. QED BY <1>g, <2>2, <2>3
<1>2. ASSUME NEW young, NEW inGrace, NEW waited, ReconcileLaunched(s, young, inGrace, waited)
      PROVE  CallInv'
  <2>1. spc[s] = "heartbeat"
    BY <1>2 DEF ReconcileLaunched
  <2>2. CASE Return(s, snap[s])
    BY <1>2, <1>r, <2>1, <2>2 DEF ReconcileLaunched
  <2>3. CASE /\ Goto(s, "unknown", op[s], snap[s])
             /\ SuspectGraceElapsed(s, None, heartbeat.seq, waited)
             /\ seenSeq' = [seenSeq EXCEPT ![s] = heartbeat.seq]
             /\ UNCHANGED <<seenClaim, suspect>>
    <3>1. /\ spc'[s] = "unknown" /\ snap'[s] = snap[s] /\ seenSeq'[s] = heartbeat.seq
          /\ OnlyCallOf(s)
      BY <1>t, <2>3 DEF SupervisorTypeOK, Goto, OnlyCallOf
    <3>2. seenClaim'[s] = None /\ snap'[s].status \in Active
      BY <1>t, <2>1, <2>3, <3>1 DEF CallOk
    <3>3. suspect'[s] = Signature(snap'[s], None, seenSeq'[s])
      BY <2>3, <3>1 DEF SuspectGraceElapsed
    <3>4. CallOk(s)'
      BY <3>1, <3>2, <3>3 DEF CallOk, Signature
    <3>5. QED BY <3>1, <3>4, CallKept
  <2>4. QED BY <1>2, <2>2, <2>3 DEF ReconcileLaunched
<1>3. ASSUME NEW young, ReconcileQueued(s, young) PROVE CallInv'
  <2>1. PICK o : o = op[s]
    OBVIOUS
  <2>2. /\ spc[s] = "heartbeat" /\ Goto(s, "claim", o, snap[s])
        /\ UNCHANGED <<seenClaim, suspect>>
        /\ \A r \in Supervisors \ {s} : seenSeq'[r] = seenSeq[r]
    BY <1>t, <1>3, <2>1 DEF ReconcileQueued, SupervisorTypeOK
  <2>3. seenClaim'[s] = None
    BY <1>t, <2>2 DEF CallOk
  <2>4. QED BY <1>g, <2>2, <2>3
<1>4. ASSUME NEW inGrace, ReadClaim(s, inGrace) PROVE CallInv'
  <2>1. spc[s] = "claim"
    BY <1>4 DEF ReadClaim
  <2>2. CASE Return(s, snap[s])
    BY <1>4, <1>r, <2>1, <2>2 DEF ReadClaim
  <2>3. CASE /\ \E pc \in {"probe", "spawn"} : Goto(s, pc, op[s], snap[s])
             /\ UNCHANGED suspect \/ ClearSuspicion(s)
             /\ seenSeq' = seenSeq
             /\ seenClaim' = seenClaim \/ seenClaim' = [seenClaim EXCEPT ![s] = claim]
    <3>1. PICK o : o = op[s]
      OBVIOUS
    <3>2. PICK pc \in {"probe", "spawn"} : Goto(s, pc, o, snap[s])
      BY <2>3, <3>1
    <3>3. \A r \in Supervisors \ {s} : seenClaim'[r] = seenClaim[r] /\ seenSeq'[r] = seenSeq[r]
      BY <1>t, <2>3 DEF SupervisorTypeOK
    <3>4. QED BY <1>g, <2>1, <2>3, <3>2, <3>3
  <2>4. QED BY <1>4, <2>2, <2>3 DEF ReadClaim
<1>5. ASSUME NEW alive, NEW waited, ProbePid(s, alive, waited) PROVE CallInv'
  <2>1. spc[s] = "probe"
    BY <1>5 DEF ProbePid
  <2>2. CASE Return(s, snap[s])
    BY <1>5, <1>r, <2>1, <2>2 DEF ProbePid
  <2>3. CASE /\ Goto(s, "unknown", op[s], snap[s])
             /\ SuspectGraceElapsed(s, seenClaim[s].id, seenSeq[s], waited)
             /\ UNCHANGED <<seenSeq, seenClaim, suspect>>
    <3>1. spc'[s] = "unknown" /\ snap'[s] = snap[s] /\ OnlyCallOf(s)
      BY <1>t, <2>3 DEF SupervisorTypeOK, Goto, OnlyCallOf
    <3>2. seenClaim'[s] # None
      BY <2>1, <2>3, NoneAssumption DEF JobInv, TypeInv, SupervisorTypeInv, Claims
    <3>3. snap'[s].status \in Active
      BY <1>s, <2>1, <3>1
    <3>4. suspect'[s] = Signature(snap'[s], seenClaim'[s].id, seenSeq'[s])
      BY <2>3, <3>1 DEF SuspectGraceElapsed
    <3>5. CallOk(s)'
      BY <3>1, <3>2, <3>3, <3>4 DEF CallOk, Signature
    <3>6. QED BY <3>1, <3>5, CallKept
  <2>4. CASE /\ Goto(s, "clear", op[s], snap[s]) /\ ClearSuspicion(s)
             /\ UNCHANGED <<seenSeq, seenClaim>>
    <3>1. PICK o : o = op[s]
      OBVIOUS
    <3>2. QED BY <1>g, <2>1, <2>4, <3>1
  <2>5. QED BY <1>5, <2>2, <2>3, <2>4 DEF ProbePid
<1>6. CASE ClearClaim(s)
  <2>1. spc[s] = "clear" /\ UNCHANGED suspect
    BY <1>6 DEF ClearClaim
  <2>2. CASE Return(s, snap[s])
    BY <1>r, <2>1, <2>2
  <2>3. CASE Goto(s, "spawn", op[s], snap[s]) /\ UNCHANGED <<seenSeq, seenClaim>>
    <3>1. PICK o : o = op[s]
      OBVIOUS
    <3>2. QED BY <1>g, <2>1, <2>3, <3>1
  <2>4. QED BY <1>6, <2>2, <2>3 DEF ClearClaim
<1>7. CASE SpawnNothing(s)
  BY <1>t, <1>7, FinishCall DEF SpawnNothing
<1>8. ASSUME NEW w \in Workers, NEW p \in Pids, SpawnWorker(s, w, p) PROVE CallInv'
  BY <1>t, <1>8, FinishCall DEF SpawnWorker
<1>9. ASSUME NEW fresh, PersistOutcomeUnknown(s, fresh) PROVE CallInv'
  <2>1. spc[s] = "unknown" /\ ClearSuspicion(s) /\ Return(s, state')
    BY <1>9 DEF PersistOutcomeUnknown
  <2>2. PICK sn \in States : sn = state'
    BY <1>t
  <2>3. state' = state \/ state'.status = "outcome_unknown"
    BY <1>t, <1>9 DEF PersistOutcomeUnknown, TransitionToOutcomeUnknown, States
  <2>4. Terminal(sn) \/ sn.status \in Active
    <3>1. state.status # "absent"
      BY <2>1 DEF BirthInv, Unborn
    <3>2. sn.status # "absent"
      BY <2>2, <2>3, <3>1
    <3>3. QED BY <3>2, ActiveOrTerminal
  <2>5. Return(s, sn)
    BY <2>1, <2>2
  <2>6. QED BY <1>t, <2>1, <2>4, <2>5, ReturnCall
<1>10. QED
  BY <1>1, <1>2, <1>3, <1>4, <1>5, <1>6, <1>7, <1>8, <1>9 DEF SupervisorStep

\* A call knows what it is about to act on.
LEMMA NextCallInv == JobInv /\ BirthInv /\ CallInv /\ [Next]_vars => CallInv'
<1> SUFFICES ASSUME JobInv, BirthInv, CallInv, [Next]_vars PROVE CallInv'
  OBVIOUS
<1>t. SupervisorTypeOK /\ BirthInv' /\ StoreTypeOK'
  BY NextBirthInv, NextTypeInv DEF JobInv, TypeInv, SupervisorTypeInv
<1>1. ASSUME NEW s \in Supervisors,
             \/ \E i \in Intents : Start(s, i)
             \/ Inspect(s) \/ Reattach(s) \/ LoadAfterReserve(s)
      PROVE  CallInv'
  BY <1>t, <1>1, BeginCall
<1>2. ASSUME NEW s \in Supervisors, SupervisorStep(s), ~LoadAfterReserve(s) PROVE CallInv'
  BY <1>t, <1>2, ReconcileCall
<1>3. ASSUME NEW s \in Supervisors,
             \/ \E i \in Intents, last \in {"spec", "state"} : CrashInReserve(s, i, last)
             \/ Close(s) \/ Reopen(s)
      PROVE  CallInv'
  <2>1. UNCHANGED <<spc, snap, seenSeq, seenClaim>>
    BY <1>3 DEF CrashInReserve, Close, Reopen
  <2>2. UNCHANGED suspect \/ ClearSuspicion(s)
    BY <1>3 DEF CrashInReserve, Close, Reopen
  <2>3. OnlyCallOf(s)
    BY <1>t, <2>1, <2>2, SuspectCall DEF OnlyCallOf
  <2>4. suspect'[s] = suspect[s] \/ suspect'[s] = None
    BY <1>t, <2>2 DEF ClearSuspicion, SupervisorTypeOK
  <2>5. CallOk(s)'
    BY <2>1, <2>4 DEF CallInv, CallOk, Signature
  <2>6. QED BY <2>3, <2>5, CallKept
<1>4. ASSUME NEW s \in Supervisors, CrashSupervisor(s) PROVE CallInv'
  BY <1>t, <1>4, FinishCall DEF CrashSupervisor
<1>5. CASE UNCHANGED supVars
  BY <1>5 DEF supVars, CallInv, CallOk, Signature
<1>6. ASSUME NEW w \in Workers,
             \/ WorkerStep(w) \/ WorkerRaises(w) \/ HeartbeatThread(w)
             \/ ChildExits(w) \/ CrashWorker(w)
      PROVE  UNCHANGED supVars
  BY <1>6 DEF WorkerStep, WorkerClaim, LeaseStart, WriteStarting, CheckCancel, CancelBeforeLaunch,
     CheckClaim, Popen, WriteRunning, LoopCancel, LoopTimeout, LoopChildExited, EndLoop,
     WriteFinal, HandlerLoad, HandlerStop, HandlerWrite, WorkerRaises, HeartbeatThread,
     ChildExits, CrashWorker, SameSupervisors
<1>7. QED BY <1>1, <1>2, <1>3, <1>4, <1>5, <1>6 DEF Next, Move, vars

(***************************************************************************)
(* The stages of a wrapper                                                 *)
(***************************************************************************)

\* Only the owner of the claim changes the status, and the other wrappers
\* are at no stage then.
LEMMA StageKept ==
    ASSUME JobInv, StageInv, NEW w \in Workers, StageOk(w)',
           \A v \in Workers \ {w} : wpc'[v] = wpc[v] /\ child'[v] = child[v],
           wpc[w] \in Owning \/ UNCHANGED state
    PROVE  StageInv'
<1>1. ASSUME NEW v \in Workers \ {w} PROVE StageOk(v)'
  <2>1. StageOk(v) /\ wpc'[v] = wpc[v] /\ child'[v] = child[v]
    BY DEF StageInv
  <2>2. CASE UNCHANGED state
    BY <2>1, <2>2 DEF StageOk
  <2>3. CASE wpc[w] \in Owning
    <3>1. wpc[v] \notin Owning
      BY <2>3, OneOwner DEF JobInv
    <3>2. QED BY <2>1, <3>1 DEF StageOk, Launching, Looping, Owning
  <2>4. QED BY <2>2, <2>3
<1>2. QED BY <1>1 DEF StageInv

\* Where Step leaves the wrapper.
LEMMA StepAt ==
    ASSUME WorkerTypeOK, NEW w \in Workers, NEW pc, Step(w, pc)
    PROVE  wpc'[w] = pc /\ \A v \in Workers \ {w} : wpc'[v] = wpc[v]
BY DEF WorkerTypeOK, Step

\* A receipt that is written has its status; one that is refused goes to the handler.
LEMMA TryUpdateAt ==
    ASSUME JobInv, NEW w \in Workers, NEW status, NEW pc, TryUpdate(w, status, pc)
    PROVE  /\ \A v \in Workers \ {w} : wpc'[v] = wpc[v]
           /\ \/ wpc'[w] = pc /\ state'.status = status
                 /\ AllowedTransition(state.status, status)
              \/ wpc'[w] = "handler" /\ UNCHANGED state
<1>t. WorkerTypeOK /\ state \in States
  BY DEF JobInv, TypeInv, WorkerTypeInv, StoreTypeOK
<1>1. CASE AllowedTransition(state.status, status)
  <2>1. UpdateState(status, pid[w]) /\ Step(w, pc)
    BY <1>1 DEF TryUpdate
  <2>2. state'.status = status
    BY <1>t, <2>1 DEF UpdateState, States
  <2>3. QED BY <1>1, <1>t, <2>1, <2>2, StepAt
<1>2. CASE ~AllowedTransition(state.status, status)
  BY <1>2, <1>t, StepAt DEF TryUpdate, storeVars
<1>3. QED BY <1>1, <1>2

LEMMA WorkerStageInv ==
    ASSUME JobInv, StageInv, NEW w \in Workers, WorkerStep(w)
    PROVE  StageInv'
<1>t. WorkerTypeOK /\ StageOk(w)
  BY DEF JobInv, TypeInv, WorkerTypeInv, StageInv
<1> USE DEF Launching, Looping
<1>1. ASSUME NEW pc, Step(w, pc), pc \notin Launching \cup Looping, UNCHANGED <<state, child>>
      PROVE  StageInv'
  <2>1. StageOk(w)'
    BY <1>t, <1>1, StepAt DEF StageOk
  <2>2. QED BY <1>t, <1>1, <2>1, StepAt, StageKept
<1>2. CASE WorkerClaim(w)
  BY <1>1, <1>2 DEF WorkerClaim, ClaimWorker, storeVars
<1>3. CASE LeaseStart(w)
  <2>1. CASE Step(w, "failed") /\ UNCHANGED storeVars
    BY <1>1, <1>3, <2>1 DEF LeaseStart, storeVars
  <2>2. CASE WriteHeartbeat(pid[w]) /\ wpc' = [wpc EXCEPT ![w] = "starting"]
    <3>1. UNCHANGED <<state, child>>
      BY <1>3, <2>2 DEF LeaseStart, WriteHeartbeat
    <3>2. wpc'[w] = "starting" /\ \A v \in Workers \ {w} : wpc'[v] = wpc[v]
      BY <1>t, <2>2 DEF WorkerTypeOK
    <3>3. StageOk(w)'
      BY <3>2 DEF StageOk
    <3>4. QED BY <3>1, <3>2, <3>3, StageKept
  <2>3. QED BY <1>3, <2>1, <2>2 DEF LeaseStart
<1>4. ASSUME NEW status, NEW pc, TryUpdate(w, status, pc), UNCHANGED child, wpc[w] \in Owning,
             pc \in Launching => status = "starting" /\ pc # "runWrite",
             pc \in Looping => status = "running" /\ child[w] # "none"
      PROVE  StageInv'
  <2>1. StageOk(w)'
    BY <1>4, TryUpdateAt DEF StageOk
  <2>2. QED BY <1>4, <2>1, TryUpdateAt, StageKept
<1>5. CASE WriteStarting(w)
  BY <1>4, <1>5 DEF WriteStarting, Owning
<1>6. CASE CancelBeforeLaunch(w)
  BY <1>4, <1>6 DEF CancelBeforeLaunch, Owning
<1>7. CASE WriteRunning(w)
  BY <1>t, <1>4, <1>7 DEF WriteRunning, Owning, StageOk
<1>8. CASE CheckCancel(w)
  <2>1. PICK pc \in {"cancelWrite", "claimCheck"} : Step(w, pc)
    BY <1>8 DEF CheckCancel
  <2>2. wpc[w] = "cancelCheck" /\ UNCHANGED <<state, child>>
    BY <1>8 DEF CheckCancel, storeVars
  <2>3. StageOk(w)'
    BY <1>t, <2>1, <2>2, StepAt DEF StageOk
  <2>4. QED BY <1>t, <2>1, <2>2, <2>3, StepAt, StageKept
<1>9. CASE CheckClaim(w)
  <2>1. wpc[w] = "claimCheck" /\ UNCHANGED child
    BY <1>9 DEF CheckClaim
  <2>2. CASE UNCHANGED storeVars /\ Step(w, "popen")
    <3>p. wpc'[w] = "popen"
      BY <1>t, <2>2 DEF WorkerTypeOK, Step
    <3>1. StageOk(w)'
      BY <1>t, <2>1, <2>2, <3>p DEF StageOk, storeVars
    <3>2. QED BY <1>t, <2>1, <2>2, <3>1, StepAt, StageKept DEF storeVars
  <2>3. CASE Step(w, "exited")
    <3>p. wpc'[w] = "exited"
      BY <1>t, <2>3 DEF WorkerTypeOK, Step
    <3>1. StageOk(w)'
      BY <3>p DEF StageOk
    <3>2. QED BY <1>t, <2>1, <2>3, <3>1, StepAt, StageKept DEF Owning
  <2>4. QED BY <1>9, <2>2, <2>3 DEF CheckClaim
<1>10. CASE Popen(w)
  <2>1. wpc[w] = "popen" /\ UNCHANGED state /\ Step(w, "runWrite")
    BY <1>10 DEF Popen, storeVars
  <2>2. child'[w] = "alive" /\ \A v \in Workers \ {w} : child'[v] = child[v]
    BY <1>t, <1>10 DEF Popen, WorkerTypeOK
  <2>p. wpc'[w] = "runWrite"
    BY <1>t, <2>1 DEF WorkerTypeOK, Step
  <2>3. StageOk(w)'
    BY <1>t, <2>1, <2>2, <2>p DEF StageOk
  <2>4. QED BY <1>t, <2>1, <2>2, <2>3, StepAt, StageKept
<1>11. ASSUME NEW pc, Step(w, pc), TerminateChild(w) \/ UNCHANGED child, UNCHANGED state,
              wpc[w] \in {"loop", "handlerStop"}, pc \in {"final", "handlerWrite", "failed"},
              pc = "final" => wpc[w] = "loop"
       PROVE  StageInv'
  <2>1. /\ child[w] # "none" => child'[w] # "none"
        /\ \A v \in Workers \ {w} : child'[v] = child[v]
    BY <1>t, <1>11 DEF TerminateChild, WorkerTypeOK
  <2>2. StageOk(w)'
    BY <1>t, <1>11, <2>1, StepAt DEF StageOk
  <2>3. QED BY <1>t, <1>11, <2>1, <2>2, StepAt, StageKept
<1>12. CASE LoopCancel(w) \/ LoopTimeout(w) \/ LoopChildExited(w)
  BY <1>11, <1>12 DEF LoopCancel, LoopTimeout, LoopChildExited, EndLoop, storeVars
<1>13. CASE HandlerStop(w)
  BY <1>11, <1>13 DEF HandlerStop, storeVars
<1>14. CASE WriteFinal(w)
  <2>1. wpc[w] = "final" /\ UNCHANGED child
    BY <1>14 DEF WriteFinal
  <2>2. PICK v : v = verdict[w]
    OBVIOUS
  <2>3. CASE TryUpdate(w, v, "exited")
    BY <1>4, <2>1, <2>3 DEF Owning
  <2>4. CASE UNCHANGED storeVars /\ Step(w, "exited")
    BY <1>1, <2>1, <2>4 DEF storeVars
  <2>5. QED BY <1>14, <2>2, <2>3, <2>4 DEF WriteFinal
<1>15. CASE HandlerLoad(w)
  <2>1. PICK pc \in {"failed", "handlerStop"} : Step(w, pc)
    BY <1>15 DEF HandlerLoad
  <2>2. QED BY <1>1, <1>15, <2>1 DEF HandlerLoad, storeVars
<1>16. CASE HandlerWrite(w)
  <2>1. wpc[w] \in Owning /\ Step(w, "failed") /\ UNCHANGED child
    BY <1>16 DEF HandlerWrite, Owning
  <2>p. wpc'[w] = "failed"
    BY <1>t, <2>1 DEF WorkerTypeOK, Step
  <2>2. StageOk(w)'
    BY <2>p DEF StageOk
  <2>3. QED BY <1>t, <2>1, <2>2, StepAt, StageKept
<1>17. QED
  BY <1>2, <1>3, <1>5, <1>6, <1>7, <1>8, <1>9, <1>10, <1>12, <1>13, <1>14, <1>15, <1>16
  DEF WorkerStep

\* The status follows the wrapper that holds the claim.
LEMMA NextStageInv == JobInv /\ StageInv /\ [Next]_vars => StageInv'
<1> SUFFICES ASSUME JobInv, StageInv, [Next]_vars PROVE StageInv'
  OBVIOUS
<1>t. TypeInv /\ WorkerTypeOK /\ state \in States
  BY DEF JobInv, TypeInv, WorkerTypeInv, StoreTypeOK
<1>1. ASSUME NEW s \in Supervisors, SupervisorAction(s) PROVE StageInv'
  <2>1. SupervisorEffect
    BY <1>t, <1>1, SupervisorActionEffect
  <2>2. ASSUME NEW w \in Workers PROVE StageOk(w)'
    <3>1. StageOk(w) /\ child'[w] = child[w]
      BY <2>1 DEF StageInv, SupervisorEffect
    <3>2. wpc'[w] = wpc[w] \/ wpc'[w] = "new"
      BY <1>t, <2>1 DEF SupervisorEffect, WorkerTypeOK
    <3>3. CASE wpc'[w] = "new"
      BY <3>3 DEF StageOk, Launching, Looping
    <3>4. CASE wpc'[w] = wpc[w] /\ UNCHANGED state
      BY <3>1, <3>4 DEF StageOk
    <3>5. CASE wpc'[w] = wpc[w] /\ state = NoState
      <4>1. state.status \in Unlaunched
        BY <3>5 DEF NoState, Unlaunched
      <4>2. wpc[w] \notin Receipted
        BY <4>1 DEF JobInv, LaunchInv
      <4>3. QED BY <3>5, <4>2 DEF StageOk, Launching, Looping, Receipted
    <3>6. CASE wpc'[w] = wpc[w] /\ state'.status = "outcome_unknown"
      BY <3>1, <3>6 DEF StageOk
    <3>7. state' = state \/ state = NoState \/ state'.status = "outcome_unknown"
      BY <1>t, <2>1 DEF SupervisorEffect, States
    <3>8. QED BY <3>2, <3>3, <3>4, <3>5, <3>6, <3>7
  <2>3. QED BY <2>2 DEF StageInv
<1>2. ASSUME NEW w \in Workers, WorkerRaises(w) \/ CrashWorker(w) PROVE StageInv'
  <2>1. PICK pc \in {"handler", "crashed"} : Step(w, pc)
    BY <1>2 DEF WorkerRaises, CrashWorker
  <2>2. UNCHANGED <<state, child>>
    BY <1>2 DEF WorkerRaises, CrashWorker, storeVars
  <2>3. wpc'[w] = pc /\ \A v \in Workers \ {w} : wpc'[v] = wpc[v]
    BY <1>t, <2>1, StepAt
  <2>4. StageOk(w)'
    BY <2>3 DEF StageOk, Launching, Looping
  <2>5. QED BY <2>2, <2>3, <2>4, StageKept
<1>3. ASSUME NEW w \in Workers, HeartbeatThread(w) \/ ChildExits(w) PROVE StageInv'
  <2>1. UNCHANGED <<state, wpc>>
    BY <1>3 DEF HeartbeatThread, WriteHeartbeat, ChildExits, storeVars
  <2>2. \A v \in Workers : child[v] # "none" => child'[v] # "none"
    BY <1>t, <1>3 DEF HeartbeatThread, ChildExits, WorkerTypeOK
  <2>3. QED BY <2>1, <2>2 DEF StageInv, StageOk
<1>4. CASE UNCHANGED vars
  BY <1>4 DEF vars, storeVars, workerVars, StageInv, StageOk
<1>5. QED
  BY <1>1, <1>2, <1>3, <1>4, WorkerStageInv DEF Next, Move, SupervisorAction

\* Nothing has happened to the job before its first call.
LEMMA InitRefInv == Init => RefInv
<1> SUFFICES ASSUME Init PROVE RefInv
  OBVIOUS
<1>1. JobInv
  BY InitJobInv
<1>2. cursor = FALSE /\ state = NoState /\ ~LaunchArtifacts
  BY DEF Init, StoreInit, LaunchArtifacts, NoHeartbeat
<1>3. BirthInv
  BY <1>2 DEF Init, BirthInv, Unborn
<1>4. CallInv
  BY DEF Init, CallInv, CallOk
<1>5. StageInv
  BY DEF Init, StageInv, StageOk, Launching, Looping
<1>6. QED BY <1>1, <1>3, <1>4, <1>5 DEF RefInv

\* Every reachable state of supervisors, wrappers and files satisfies the
\* strengthened invariant: the initial files are written in order, a call
\* acts on evidence it has read, and the status is the stage of the wrapper
\* that holds the claim.
THEOREM RefInvariant == Spec => []RefInv
<1>1. JobInv /\ [Next]_vars => JobInv'
  BY NextTypeInv, NextClaimInv, NextLaunchInv DEF JobInv
<1>2. RefInv /\ [Next]_vars => RefInv'
  BY <1>1, NextBirthInv, NextCallInv, NextStageInv DEF RefInv
<1>3. QED
  BY <1>2, InitRefInv, PTL DEF Spec

(***************************************************************************)
(* The job directory can be completed                                      *)
(***************************************************************************)

\* No crash inside reserve_process_job, and nothing later, leaves a directory
\* that _ensure_initial_files refuses; and every file is well typed.
THEOREM DirectoryCompletes == Spec => []FilesRecoverable
<1>1. RefInv => ~InitialFilesCorrupt
  <2> SUFFICES ASSUME RefInv PROVE ~InitialFilesCorrupt
    OBVIOUS
  <2>1. CASE cursor
    <3>p. NoState.status = "absent"
      BY DEF NoState
    <3>1. state # NoState
      BY <2>1, <3>p DEF RefInv, BirthInv
    <3>2. QED BY <2>1, <3>1 DEF InitialFilesCorrupt
  <2>2. CASE ~cursor
    <3>1. state \in {NoState, Queued0} /\ ~LaunchArtifacts
      BY <2>2 DEF RefInv, BirthInv, Unborn
    <3>2. Queued0.status = "queued" /\ Queued0.rev = 0
      BY DEF Queued0, NoState
    <3>3. QED BY <3>1, <3>2 DEF InitialFilesCorrupt
  <2>3. QED BY <2>1, <2>2
<1>2. RefInv /\ TypeOK => FilesRecoverable
  BY <1>1 DEF FilesRecoverable
<1>3. QED
  BY <1>2, RefInvariant, TypeCorrect, PTL

(***************************************************************************)
(* Giving a job up                                                         *)
(***************************************************************************)

\* A supervisor rewrites state.json only to create it or to give the job up.
LEMMA SupervisorStatus ==
    ASSUME RefInv, NEW s \in Supervisors, SupervisorAction(s), state' # state
    PROVE  \/ state = NoState /\ state' = Queued0 /\ ~cursor
           \/ \E fresh \in BOOLEAN : PersistOutcomeUnknown(s, fresh)
<1> USE DEF storeVars
<1>0. state = NoState => ~cursor
  <2>1. NoState.status = "absent"
    BY DEF NoState
  <2>2. QED BY <2>1 DEF RefInv, BirthInv
<1>1. ASSUME NEW i \in Intents, NEW last,
             Start(s, i) \/ CrashInReserve(s, i, last) \/ Reattach(s)
      PROVE  state = NoState /\ state' = Queued0 /\ ~cursor
  BY <1>0, <1>1 DEF Start, CrashInReserve, Reattach, ReserveProcessJob, EnsureInitialFiles, Queued0
<1>2. CASE Reattach(s)
  BY <1>0, <1>2 DEF Reattach, EnsureInitialFiles, Queued0
<1>3. ASSUME Inspect(s) \/ Close(s) \/ Reopen(s) \/ CrashSupervisor(s) PROVE FALSE
  BY <1>3 DEF Inspect, Close, Reopen, CrashSupervisor
<1>4. CASE SupervisorStep(s)
  BY <1>4 DEF SupervisorStep, LoadAfterReserve, WriteCancelMarker, RequestCancel, ClearClaim,
     ClearStaleClaim, SpawnNothing, SpawnWorker, ReconcileLaunched, ReconcileQueued, ReadClaim,
     ProbePid
<1>5. QED BY <1>1, <1>2, <1>3, <1>4 DEF SupervisorAction

\* The comparison made before a job is given up is with the recorded evidence.
LEMMA EvidenceStep ==
    ASSUME RefInv, [Next]_vars, NEW s \in Supervisors, spc[s] = "unknown",
           spc'[s] # "unknown", state' # state, suspect[s] # None
    PROVE  /\ suspect[s].rev = state.rev
           /\ suspect[s].seq = heartbeat.seq
           /\ suspect[s].claim \in {None, claim.id}
<1>t. SupervisorTypeOK /\ CallOk(s) /\ seenSeq[s] \in Nat /\ seenSeq[s] # None
  BY NoneAssumption DEF RefInv, JobInv, TypeInv, SupervisorTypeInv, SupervisorTypeOK, CallInv
<1>c. cursor
  BY DEF RefInv, BirthInv, Unborn
<1>1. PICK r \in Supervisors : SupervisorAction(r)
  <2>1. ASSUME NEW w \in Workers,
               \/ WorkerStep(w) \/ WorkerRaises(w) \/ HeartbeatThread(w)
               \/ ChildExits(w) \/ CrashWorker(w)
        PROVE  UNCHANGED spc
    BY <2>1 DEF WorkerStep, WorkerClaim, LeaseStart, WriteStarting, CheckCancel,
       CancelBeforeLaunch, CheckClaim, Popen, WriteRunning, LoopCancel, LoopTimeout,
       LoopChildExited, EndLoop, WriteFinal, HandlerLoad, HandlerStop, HandlerWrite,
       WorkerRaises, HeartbeatThread, ChildExits, CrashWorker, SameSupervisors, supVars
  <2>2. QED BY <2>1 DEF Next, Move, SupervisorAction, vars, supVars
<1>2. PICK fresh \in BOOLEAN : PersistOutcomeUnknown(r, fresh)
  BY <1>c, <1>1, SupervisorStatus
<1>3. r = s
  <2>1. \E pc : spc' = [spc EXCEPT ![r] = pc]
    BY <1>2 DEF PersistOutcomeUnknown, Return, Finish, Goto
  <2>2. QED BY <1>t, <2>1 DEF SupervisorTypeOK
<1>4. PICK c : c = (IF seenClaim[s] = None THEN None ELSE seenClaim[s].id)
  OBVIOUS
<1>5. UnknownAllowed(snap[s], c, seenSeq[s], fresh)
  BY <1>2, <1>3, <1>4 DEF PersistOutcomeUnknown, TransitionToOutcomeUnknown
<1>6. state.rev = snap[s].rev /\ heartbeat.seq = seenSeq[s] /\ (c # None => claim.id = c)
  BY <1>t, <1>5 DEF UnknownAllowed
<1>7. suspect[s] = [rev |-> snap[s].rev, claim |-> c, seq |-> seenSeq[s]]
  BY <1>t, <1>4 DEF CallOk, Signature
<1>8. /\ suspect[s].rev = snap[s].rev /\ suspect[s].claim = c
      /\ suspect[s].seq = seenSeq[s]
  BY <1>7, SMT
<1>9. QED BY <1>6, <1>8

\* _persist_outcome_unknown changes state.json only if revision, claim and
\* heartbeat are the ones the suspicion window of this supervisor began with,
\* however many calls and other supervisors ran in between.
THEOREM GivesUpOnEvidence == Spec => GivesUpOnlyUnchangedEvidence
<1>1. RefInv /\ [Next]_vars =>
        [\A s \in Supervisors :
          /\ spc[s] = "unknown" /\ spc'[s] # "unknown"
          /\ state' # state /\ suspect[s] # None
          => /\ suspect[s].rev = state.rev
             /\ suspect[s].seq = heartbeat.seq
             /\ suspect[s].claim \in {None, claim.id}]_vars
  BY EvidenceStep
<1>2. QED
  BY <1>1, RefInvariant, PTL DEF Spec, GivesUpOnlyUnchangedEvidence

(***************************************************************************)
(* The refinement                                                          *)
(***************************************************************************)

Ran == \E w \in Workers : child[w] # "none"

\* A wrapper that holds the claim and has not reached Popen: nobody has.
LEMMA NotYetRan ==
    ASSUME JobInv, NEW w \in Workers, wpc[w] \in Owning, wpc[w] \in BeforePopen
    PROVE  ~Ran
<1>1. \A v \in Workers : child[v] # "none" => v = w
  BY DEF JobInv, ClaimInv, LaunchInv
<1>2. child[w] = "none"
  BY DEF JobInv, LaunchInv
<1>3. QED BY <1>1, <1>2 DEF Ran

\* Stopping or losing a child is not launching one.
LEMMA RanSame ==
    ASSUME \A v \in Workers : child'[v] # "none" <=> child[v] # "none"
    PROVE  UNCHANGED Ran
BY DEF Ran

\* The receipts of a wrapper: the status moves as allowed, the command does not.
LEMMA ReceiptStep ==
    ASSUME JobInv, NEW w \in Workers, NEW status, NEW pc, TryUpdate(w, status, pc)
    PROVE  \/ UNCHANGED state
           \/ state'.status = status /\ AllowedTransition(state.status, status)
BY DEF TryUpdate, UpdateState, States, storeVars, JobInv, TypeInv, StoreTypeOK

\* The wrapper's steps that end an abstract step.
LEMMA WorkerMaps ==
    ASSUME RefInv, NEW w \in Workers, WorkerStep(w)
    PROVE  \/ UNCHANGED <<state.status, Ran>>
           \/ state.status = "queued" /\ state'.status = "starting" /\ UNCHANGED Ran
           \/ /\ state.status \in {"starting", "outcome_unknown"} /\ ~Ran
              /\ Ran' /\ UNCHANGED state.status
           \/ state.status = "starting" /\ Ran /\ state'.status = "running" /\ UNCHANGED Ran
           \/ state.status \in {"queued", "starting"} /\ state'.status = "failed" /\ UNCHANGED Ran
           \/ state.status = "starting" /\ ~Ran /\ state'.status = "cancelled" /\ UNCHANGED Ran
           \/ /\ state.status = "running" /\ UNCHANGED Ran
              /\ state'.status \in {"completed", "failed", "timed_out", "cancelled"}
           \/ state.status = "starting" /\ state'.status = "outcome_unknown" /\ UNCHANGED Ran
<1>t. /\ JobInv /\ WorkerTypeOK /\ StageOk(w) /\ state \in States
      /\ wpc[w] \in Owning => state.status \notin Known
  BY DEF RefInv, JobInv, TypeInv, WorkerTypeInv, StoreTypeOK, StageInv, LaunchInv
<1>c. UNCHANGED child => UNCHANGED Ran
  BY DEF Ran
<1>1. CASE WorkerClaim(w) \/ LeaseStart(w) \/ CheckCancel(w) \/ HandlerLoad(w)
  BY <1>1, <1>c DEF WorkerClaim, ClaimWorker, LeaseStart, WriteHeartbeat, CheckCancel, HandlerLoad,
     storeVars
<1>2. CASE WriteStarting(w)
  <2>1. UNCHANGED child /\ TryUpdate(w, "starting", "cancelCheck")
    BY <1>2 DEF WriteStarting
  <2>2. AllowedTransition(state.status, "starting") => state.status \in {"queued", "starting"}
    BY DEF AllowedTransition, TERMINAL_JOB_STATUSES
  <2>3. QED BY <1>c, <1>t, <2>1, <2>2, ReceiptStep
<1>3. CASE CancelBeforeLaunch(w)
  <2>1. UNCHANGED child /\ TryUpdate(w, "cancelled", "exited") /\ wpc[w] = "cancelWrite"
    BY <1>3 DEF CancelBeforeLaunch
  <2>2. ~Ran
    BY <1>t, <2>1, NotYetRan DEF Owning, BeforePopen
  <2>3. AllowedTransition(state.status, "cancelled") => state.status = "starting"
    BY <1>t, <2>1 DEF AllowedTransition, StageOk, Launching
  <2>4. QED BY <1>c, <1>t, <2>1, <2>2, <2>3, ReceiptStep
<1>4. CASE CheckClaim(w)
  <2>1. UNCHANGED child /\ wpc[w] = "claimCheck"
    BY <1>4 DEF CheckClaim
  <2>2. UNCHANGED state \/ (state'.status = "outcome_unknown" /\ ~Terminal(state))
    BY <1>t, <1>4 DEF CheckClaim, TransitionToOutcomeUnknown, UnknownAllowed, States, storeVars
  <2>3. ~Terminal(state) => state.status = "starting"
    BY <1>t, <2>1 DEF StageOk, Launching, Terminal, TERMINAL_JOB_STATUSES
  <2>4. QED BY <1>c, <2>1, <2>2, <2>3
<1>5. CASE Popen(w)
  <2>1. wpc[w] = "popen" /\ UNCHANGED state /\ child'[w] = "alive"
    BY <1>t, <1>5 DEF Popen, storeVars, WorkerTypeOK
  <2>2. ~Ran
    BY <1>t, <2>1, NotYetRan DEF Owning, BeforePopen
  <2>3. Ran'
    BY <2>1 DEF Ran
  <2>4. QED BY <1>t, <2>1, <2>2, <2>3 DEF StageOk, Launching
<1>6. CASE WriteRunning(w)
  <2>1. UNCHANGED child /\ TryUpdate(w, "running", "loop") /\ wpc[w] = "runWrite"
    BY <1>6 DEF WriteRunning
  <2>2. Ran
    BY <1>t, <2>1 DEF StageOk, Ran
  <2>3. AllowedTransition(state.status, "running") => state.status = "starting"
    BY <1>t, <2>1 DEF AllowedTransition, StageOk, Launching
  <2>4. QED BY <1>c, <1>t, <2>1, <2>2, <2>3, ReceiptStep
<1>7. CASE LoopCancel(w) \/ LoopTimeout(w) \/ LoopChildExited(w) \/ HandlerStop(w)
  <2>1. UNCHANGED state /\ (TerminateChild(w) \/ UNCHANGED child)
    BY <1>7 DEF LoopCancel, LoopTimeout, LoopChildExited, HandlerStop, EndLoop, storeVars
  <2>2. \A v \in Workers : child'[v] # "none" <=> child[v] # "none"
    BY <1>t, <2>1 DEF TerminateChild, WorkerTypeOK
  <2>3. QED BY <2>1, <2>2, RanSame
<1>8. CASE WriteFinal(w)
  <2>1. UNCHANGED child /\ wpc[w] = "final"
    BY <1>8 DEF WriteFinal
  <2>2. PICK v \in Known \cup {"none"} : v = verdict[w]
    BY DEF RefInv, JobInv, TypeInv, WorkerTypeInv, WorkerTypeOK, LaunchInv, Known
  <2>3. UNCHANGED state \/ (state'.status = v /\ AllowedTransition(state.status, v))
    BY <1>8, <1>t, <2>2, ReceiptStep DEF WriteFinal, storeVars
  <2>4. AllowedTransition(state.status, v) => state.status = "running" /\ v \in Known
    BY <1>t, <2>1, <2>2 DEF AllowedTransition, StageOk, Looping, Known, TERMINAL_JOB_STATUSES
  <2>5. Known = {"completed", "failed", "timed_out", "cancelled"}
    BY DEF Known, TERMINAL_JOB_STATUSES
  <2>6. QED BY <1>c, <2>1, <2>3, <2>4, <2>5
<1>9. CASE HandlerWrite(w)
  <2>1. UNCHANGED child /\ wpc[w] \in Owning
    BY <1>9 DEF HandlerWrite, Owning
  <2>2. \/ UNCHANGED state
        \/ state'.status = "failed" /\ AllowedTransition(state.status, "failed")
    BY <1>9, <1>t DEF HandlerWrite, UpdateState, States, storeVars
  <2>3. AllowedTransition(state.status, "failed") => state.status \in {"queued", "starting", "running"}
    BY <1>t, <2>1 DEF AllowedTransition, Known, TERMINAL_JOB_STATUSES
  <2>4. QED BY <1>c, <2>1, <2>2, <2>3
<1>10. QED
  BY <1>1, <1>2, <1>3, <1>4, <1>5, <1>6, <1>7, <1>8, <1>9 DEF WorkerStep

\* Every step of a supervisor, a wrapper, a heartbeat thread, a child or a
\* crash is a step of the abstract job or leaves it alone.
LEMMA StepMaps == RefInv /\ [Next]_vars => [Command!Next]_(Command!vars)
<1> SUFFICES ASSUME RefInv, [Next]_vars PROVE [Command!Next]_(Command!vars)
  OBVIOUS
<1>t. TypeInv /\ WorkerTypeOK /\ state \in States
  BY DEF RefInv, JobInv, TypeInv, WorkerTypeInv, StoreTypeOK
<1>c. UNCHANGED child => UNCHANGED Ran
  BY DEF Ran
<1>0. UNCHANGED <<state.status, Ran>> => [Command!Next]_(Command!vars)
  BY DEF Command!vars, Ran
<1>1. ASSUME NEW s \in Supervisors, SupervisorAction(s) PROVE [Command!Next]_(Command!vars)
  <2>1. UNCHANGED Ran
    BY <1>c, <1>t, <1>1, SupervisorActionEffect DEF SupervisorEffect
  <2>2. CASE UNCHANGED state
    BY <1>0, <2>1, <2>2
  <2>3. CASE state = NoState /\ state' = Queued0
    <3>1. state.status = "absent" /\ state'.status = "queued"
      BY <2>3 DEF NoState, Queued0
    <3>2. Command!Reserve
      BY <2>1, <3>1 DEF Command!Reserve, Ran
    <3>3. QED BY <3>2 DEF Command!Next
  <2>4. ASSUME NEW fresh, PersistOutcomeUnknown(s, fresh), state' # state
        PROVE  [Command!Next]_(Command!vars)
    <3>1. state'.status = "outcome_unknown" /\ ~Terminal(state) /\ spc[s] = "unknown"
      BY <1>t, <2>4 DEF PersistOutcomeUnknown, TransitionToOutcomeUnknown, UnknownAllowed, States
    <3>2. state.status # "absent"
      BY <3>1 DEF RefInv, BirthInv, Unborn
    <3>3. state.status \in Active
      BY <1>t, <3>1, <3>2 DEF States, JOB_STATUSES, Terminal, Active
    <3>4. Command!GiveUp
      BY <2>1, <3>1, <3>3 DEF Command!GiveUp, Ran, Active
    <3>5. QED BY <3>4 DEF Command!Next
  <2>5. QED BY <1>1, <2>2, <2>3, <2>4, SupervisorStatus
<1>2. ASSUME NEW w \in Workers, WorkerStep(w) PROVE [Command!Next]_(Command!vars)
  BY <1>0, <1>2, WorkerMaps
  DEF Command!Next, Command!Begin, Command!Launch, Command!Confirm, Command!Stop, Command!GiveUp, Ran
<1>3. ASSUME NEW w \in Workers,
             WorkerRaises(w) \/ HeartbeatThread(w) \/ ChildExits(w) \/ CrashWorker(w)
      PROVE  [Command!Next]_(Command!vars)
  <2>1. UNCHANGED state
    BY <1>3 DEF WorkerRaises, HeartbeatThread, WriteHeartbeat, ChildExits, CrashWorker, storeVars
  <2>2. \A v \in Workers : child'[v] # "none" <=> child[v] # "none"
    BY <1>t, <1>3 DEF WorkerRaises, HeartbeatThread, ChildExits, CrashWorker, WorkerTypeOK
  <2>3. QED BY <1>0, <2>1, <2>2, RanSame
<1>4. CASE UNCHANGED vars
  BY <1>0, <1>c, <1>4 DEF vars, storeVars, workerVars
<1>5. QED BY <1>1, <1>2, <1>3, <1>4 DEF Next, Move, SupervisorAction

\* However many supervisors and wrappers work on a job, and whatever crashes,
\* what its callers see is CommandOnce: one command, launched at most once,
\* and a status that only moves forward.
THEOREM RefinesCommandOnce == Spec => ImplementsCommandOnce
<1>1. Init => Command!Init
  <2> SUFFICES ASSUME Init PROVE Command!Init
    OBVIOUS
  <2>1. state.status = "absent"
    BY DEF Init, StoreInit, NoState
  <2>2. \A w \in Workers : child[w] = "none"
    BY DEF Init
  <2>3. QED BY <2>1, <2>2 DEF Command!Init
<1>2. QED
  BY <1>1, StepMaps, RefInvariant, PTL DEF Spec, ImplementsCommandOnce, Command!Spec
=============================================================================
