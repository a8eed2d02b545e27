---------------------------- MODULE DurableJobs ----------------------------
(***************************************************************************)
(* One durable background job: the job directory (JobStore), the           *)
(* supervisors of several runtimes (ProcessJobSupervisor, jobs/process.py) *)
(* and the detached wrapper processes they spawn (run_worker,              *)
(* jobs/_worker.py), each of which may launch the user command.            *)
(*                                                                         *)
(* A supervisor runs one call at a time; between two store operations of   *)
(* a call every other process may move.  Supervisors and wrappers may      *)
(* crash at any point; a crashed supervisor is restarted with an empty     *)
(* memory, a crashed wrapper leaves its child running.                     *)
(***************************************************************************)
EXTENDS JobStore

CONSTANTS
    Supervisors,     \* runtimes sharing the store
    Profile,         \* Profile[s]: environment profile frozen by supervisor s
    Sites,           \* which of them run and within which bounds, see SiteType
    MaxCrashes       \* bound: crashes of supervisors, wrappers, I/O faults

ASSUME ProfileAssumption == Profile \in [Supervisors -> Profiles]
ASSUME BoundAssumption == MaxCrashes \in Nat

\* The runtimes that run, those of them whose host closes and reopens them,
\* and two bounds: heartbeats written by the heartbeat thread, and calls made
\* by the runtimes (0 for no bound).
SiteType == [active : SUBSET Supervisors, closers : SUBSET Supervisors,
             maxHeartbeats : Nat, maxCalls : Nat]

ASSUME SitesAssumption == Sites \subseteq SiteType

VARIABLES
    site,        \* one of Sites
    published,   \* some caller knows the job id
    \* supervisors
    spc,         \* where the current call of a supervisor is
    op,          \* which call it is
    snap,        \* the DurableJobSnapshot the call works with
    seenSeq,     \* heartbeat_seq read by the call
    seenFresh,   \* heartbeat_fresh computed by the call
    seenClaim,   \* the worker claim read by the call
    suspect,     \* _suspect_observations
    closed,      \* _closed
    \* wrappers
    wpc,         \* where run_worker is
    pid,         \* os.getpid()
    parent,      \* the supervisor whose _worker_wrappers holds the wrapper
    child,       \* the user command
    beating,     \* the heartbeat thread is running
    verdict,     \* terminal status chosen by the worker loop
    \* history
    crashes,     \* crashes so far
    calls,       \* calls so far
    cancelledWhileQueued   \* the marker was written while the job was queued

supVars == <<spc, op, snap, seenSeq, seenFresh, seenClaim, suspect, closed>>
workerVars == <<wpc, pid, parent, child, beating, verdict>>
history == <<crashes, calls, cancelledWhileQueued>>
vars == <<site, storeVars, published, supVars, workerVars, history>>

SupervisorPCs ==
    {"idle", "load", "heartbeat", "claim", "probe", "clear", "spawn", "unknown",
     "request"}

\* Why _reconcile is running: with allow_launch, without it, or without it in
\* the first half of cancel().
Ops == {"none", "launch", "observe", "cancel"}

\* Code positions of run_worker.
Owning == {"lease", "starting", "cancelCheck", "cancelWrite", "claimCheck",
           "popen", "runWrite", "loop", "final", "handler", "handlerStop",
           "handlerWrite"}
Gone == {"exited", "failed", "crashed"}
WorkerPCs == {"unborn", "new"} \cup Owning \cup Gone

\* Positions inside the try block once `snapshot' is set.
Guarded == Owning \ {"lease", "handler", "handlerStop", "handlerWrite"}

Suspicions == [rev : Nat, claim : Workers \cup {None}, seq : Nat]

SupervisorTypeOK ==
    /\ spc \in [Supervisors -> SupervisorPCs]
    /\ op \in [Supervisors -> Ops]
    /\ snap \in [Supervisors -> States]
    /\ seenSeq \in [Supervisors -> Nat]
    /\ seenFresh \in [Supervisors -> BOOLEAN]
    /\ seenClaim \in [Supervisors -> Claims \cup {None}]
    /\ suspect \in [Supervisors -> Suspicions \cup {None}]
    /\ closed \in [Supervisors -> BOOLEAN]

WorkerTypeOK ==
    /\ wpc \in [Workers -> WorkerPCs]
    /\ pid \in [Workers -> Pids \cup {None}]
    /\ parent \in [Workers -> Supervisors \cup {None}]
    /\ child \in [Workers -> {"none", "alive", "unstoppable", "exited"}]
    /\ beating \in [Workers -> BOOLEAN]
    /\ verdict \in [Workers -> TERMINAL_JOB_STATUSES \cup {"none"}]

TypeOK ==
    /\ site \in Sites
    /\ StoreTypeOK
    /\ SupervisorTypeOK
    /\ WorkerTypeOK
    /\ published \in BOOLEAN
    /\ crashes \in Nat
    /\ calls \in Nat
    /\ cancelledWhileQueued \in BOOLEAN

Init ==
    /\ site \in Sites
    /\ StoreInit
    /\ published = FALSE
    /\ spc = [s \in Supervisors |-> "idle"]
    /\ op = [s \in Supervisors |-> "none"]
    /\ snap = [s \in Supervisors |-> NoState]
    /\ seenSeq = [s \in Supervisors |-> 0]
    /\ seenFresh = [s \in Supervisors |-> FALSE]
    /\ seenClaim = [s \in Supervisors |-> None]
    /\ suspect = [s \in Supervisors |-> None]
    /\ closed = [s \in Supervisors |-> FALSE]
    /\ wpc = [w \in Workers |-> "unborn"]
    /\ pid = [w \in Workers |-> None]
    /\ parent = [w \in Workers |-> None]
    /\ child = [w \in Workers |-> "none"]
    /\ beating = [w \in Workers |-> FALSE]
    /\ verdict = [w \in Workers |-> "none"]
    /\ crashes = 0
    /\ calls = 0
    /\ cancelledWhileQueued = FALSE

Alive(w) == wpc[w] \in {"new"} \cup Owning

PidInUse(p) == \E w \in Workers : Alive(w) /\ pid[w] = p

(***************************************************************************)
(* Supervisor: the calls                                                   *)
(***************************************************************************)

\* What every step of a call leaves alone, besides what it names.
SameWorkers == UNCHANGED <<workerVars, history>>

\* A runtime makes one more call.
Call ==
    /\ calls' = IF site.maxCalls = 0 THEN 0 ELSE calls + 1
    /\ calls' <= site.maxCalls
    /\ UNCHANGED <<workerVars, crashes, cancelledWhileQueued>>

\* A runtime's table of wrappers goes away with it.
Orphan(s) == parent' = [w \in Workers |-> IF parent[w] = s THEN None ELSE parent[w]]

\* The call ends, or goes to step pc of _reconcile with snapshot sn.
Goto(s, pc, o, sn) ==
    /\ spc' = [spc EXCEPT ![s] = pc]
    /\ op' = [op EXCEPT ![s] = o]
    /\ snap' = [snap EXCEPT ![s] = sn]

Forget(s) ==
    /\ seenSeq' = [seenSeq EXCEPT ![s] = 0]
    /\ seenFresh' = [seenFresh EXCEPT ![s] = FALSE]
    /\ seenClaim' = [seenClaim EXCEPT ![s] = None]

Finish(s) == Goto(s, "idle", "none", NoState) /\ Forget(s)

\* _reconcile returns `result': cancel goes on to the marker if the job is
\* not terminal, every other call is done.
Return(s, result) ==
    IF op[s] = "cancel" /\ ~Terminal(result)
    THEN Goto(s, "request", "cancel", result) /\ Forget(s)
    ELSE Finish(s)

ClearSuspicion(s) == suspect' = [suspect EXCEPT ![s] = None]

AllowLaunch(s) == op[s] = "launch"

\* allow_launch=not self._closed
LaunchUnlessClosed(s) == IF closed[s] THEN "observe" ELSE "launch"

\* start(): reserve_process_job under the lock, load in a second step.
Start(s, i) ==
    /\ spc[s] = "idle" /\ ~closed[s]
    /\ ReserveProcessJob(i, Profile[s], "cursor")
    /\ published' = TRUE
    /\ Goto(s, "load", "launch", NoState)
    /\ UNCHANGED <<seenSeq, seenFresh, seenClaim, suspect, closed>>
    /\ Call

\* The runtime dies inside reserve_process_job after writing `last'.
CrashInReserve(s, i, last) ==
    /\ spc[s] = "idle" /\ ~closed[s]
    /\ crashes < MaxCrashes
    /\ ReserveProcessJob(i, Profile[s], last)
    /\ ClearSuspicion(s)
    /\ Orphan(s)
    /\ crashes' = crashes + 1
    /\ UNCHANGED <<published, spc, op, snap, seenSeq, seenFresh, seenClaim, closed,
                   wpc, pid, child, beating, verdict, calls, cancelledWhileQueued>>

\* store.load, then the first test of _reconcile.
LoadInto(s, o) ==
    IF Terminal(state)
    THEN Finish(s) /\ ClearSuspicion(s)
    ELSE /\ Goto(s, "heartbeat", o, state)
         /\ UNCHANGED <<seenSeq, seenFresh, seenClaim, suspect>>

LoadAfterReserve(s) ==
    /\ spc[s] = "load"
    /\ LoadInto(s, "launch")
    /\ UNCHANGED <<storeVars, published, closed>>
    /\ SameWorkers

\* inspect(), which poll(), wait() and the tail of cancel() repeat, and the
\* beginning of cancel().
Inspect(s) ==
    /\ spc[s] = "idle" /\ published
    /\ \E o \in {LaunchUnlessClosed(s), "cancel"} : LoadInto(s, o)
    /\ UNCHANGED <<storeVars, published, closed>>
    /\ Call

\* reattach(): list_execution completes the files of the jobs it lists.
Reattach(s) ==
    /\ spc[s] = "idle" /\ spec # None
    /\ EnsureInitialFiles("cursor")
    /\ published' = TRUE
    /\ IF Terminal(state')
       THEN Finish(s) /\ ClearSuspicion(s)
       ELSE /\ Goto(s, "heartbeat", LaunchUnlessClosed(s), state')
            /\ UNCHANGED <<seenSeq, seenFresh, seenClaim, suspect>>
    /\ UNCHANGED <<spec, claim, heartbeat, cancelMarker, closed>>
    /\ Call

\* The cancel marker, then a second _reconcile with the snapshot of the first.
WriteCancelMarker(s) ==
    /\ spc[s] = "request"
    /\ RequestCancel
    /\ Goto(s, "heartbeat", LaunchUnlessClosed(s), snap[s])
    /\ cancelledWhileQueued' = (cancelledWhileQueued \/ state.status = "queued")
    /\ UNCHANGED <<published, seenSeq, seenFresh, seenClaim, suspect, closed,
                   workerVars, crashes, calls>>

(***************************************************************************)
(* Supervisor: _reconcile                                                  *)
(***************************************************************************)

\* _heartbeat_is_fresh, `young' being the test of the heartbeat's age.
HeartbeatIsFresh(sn, young) ==
    heartbeat.pid # None /\ sn.pid \in {None, heartbeat.pid} /\ young

\* _suspect_grace_elapsed: the evidence is the one recorded before, and
\* suspect_grace_ms have passed since (`waited').  The revision determines
\* status and worker_pid, the sequence number the rest of the heartbeat.
Signature(sn, c, q) == [rev |-> sn.rev, claim |-> c, seq |-> q]

SuspectGraceElapsed(s, c, q, waited) == suspect[s] = Signature(snap[s], c, q) /\ waited

\* Defect: the observation is not kept for the next call.
ObserveForgotten(s, c, q) == suspect' = [suspect EXCEPT ![s] = None]

Observe(s, c, q) == suspect' = [suspect EXCEPT ![s] = Signature(snap[s], c, q)]

\* _reconcile of a starting or running job, from read_heartbeat on; `inGrace'
\* is the comparison of updated_at_ms with launch_grace_ms.
ReconcileLaunched(s, young, inGrace, waited) ==
    /\ spc[s] = "heartbeat" /\ snap[s].status \in {"starting", "running"}
    /\ IF HeartbeatIsFresh(snap[s], young) \/ inGrace
       THEN ClearSuspicion(s) /\ Return(s, snap[s])
       ELSE IF SuspectGraceElapsed(s, None, heartbeat.seq, waited)
       THEN /\ Goto(s, "unknown", op[s], snap[s])
            /\ seenSeq' = [seenSeq EXCEPT ![s] = heartbeat.seq]
            /\ UNCHANGED <<seenFresh, seenClaim, suspect>>
       ELSE Observe(s, None, heartbeat.seq) /\ Return(s, snap[s])
    /\ UNCHANGED <<storeVars, published, closed>>
    /\ SameWorkers

\* _reconcile of a queued job: read_heartbeat.
ReconcileQueued(s, young) ==
    /\ spc[s] = "heartbeat" /\ snap[s].status = "queued"
    /\ Goto(s, "claim", op[s], snap[s])
    /\ seenSeq' = [seenSeq EXCEPT ![s] = heartbeat.seq]
    /\ seenFresh' = [seenFresh EXCEPT ![s] = HeartbeatIsFresh(snap[s], young)]
    /\ UNCHANGED <<storeVars, published, seenClaim, suspect, closed>>
    /\ SameWorkers

\* read_claim and the decisions that follow it up to the probe of the pid.
ReadClaim(s, inGrace) ==
    /\ spc[s] = "claim"
    /\ IF claim # None /\ ~seenFresh[s] /\ ~inGrace
       THEN /\ Goto(s, "probe", op[s], snap[s])
            /\ seenClaim' = [seenClaim EXCEPT ![s] = claim]
            /\ UNCHANGED <<seenSeq, seenFresh, suspect>>
       ELSE /\ ClearSuspicion(s)
            /\ IF claim = None /\ AllowLaunch(s)
               THEN /\ Goto(s, "spawn", op[s], snap[s])
                    /\ UNCHANGED <<seenSeq, seenFresh, seenClaim>>
               ELSE Return(s, snap[s])
    /\ UNCHANGED <<storeVars, published, closed>>
    /\ SameWorkers

\* _pid_may_be_alive: a number in use by a wrapper answers; any other may
\* belong to an unrelated process or to nobody.
ProbePid(s, alive, waited) ==
    /\ spc[s] = "probe"
    /\ PidInUse(seenClaim[s].pid) => alive
    /\ IF alive
       THEN IF SuspectGraceElapsed(s, seenClaim[s].id, seenSeq[s], waited)
            THEN /\ Goto(s, "unknown", op[s], snap[s])
                 /\ UNCHANGED <<seenSeq, seenFresh, seenClaim, suspect>>
            ELSE Observe(s, seenClaim[s].id, seenSeq[s]) /\ Return(s, snap[s])
       ELSE /\ ClearSuspicion(s)
            /\ IF AllowLaunch(s)
               THEN /\ Goto(s, "clear", op[s], snap[s])
                    /\ UNCHANGED <<seenSeq, seenFresh, seenClaim>>
               ELSE Return(s, snap[s])
    /\ UNCHANGED <<storeVars, published, closed>>
    /\ SameWorkers

\* clear_stale_claim: only its success goes on to _spawn_worker.
ClearClaim(s) ==
    /\ spc[s] = "clear"
    /\ IF CanClearStaleClaim(seenClaim[s])
       THEN /\ ClearStaleClaim(seenClaim[s])
            /\ Goto(s, "spawn", op[s], snap[s])
            /\ UNCHANGED <<seenSeq, seenFresh, seenClaim>>
       ELSE UNCHANGED storeVars /\ Return(s, snap[s])
    /\ UNCHANGED <<published, suspect, closed>>
    /\ SameWorkers

\* _spawn_worker's early returns: closed, another profile, a live wrapper of
\* its own, or the retry cooldown.
SpawnNothing(s) ==
    /\ spc[s] = "spawn"
    /\ Finish(s)
    /\ UNCHANGED <<storeVars, published, suspect, closed>>
    /\ SameWorkers

\* _spawn_worker: Popen of a detached wrapper.
SpawnWorker(s, w, p) ==
    /\ spc[s] = "spawn"
    /\ ~closed[s]
    /\ spec.profile = Profile[s]
    /\ \A v \in Workers : parent[v] # s
    /\ wpc[w] = "unborn" /\ \A v \in Workers : v < w => wpc[v] # "unborn"
    /\ ~PidInUse(p)
    /\ wpc' = [wpc EXCEPT ![w] = "new"]
    /\ pid' = [pid EXCEPT ![w] = p]
    /\ parent' = [parent EXCEPT ![w] = s]
    /\ Finish(s)
    /\ UNCHANGED <<storeVars, published, suspect, closed, child, beating, verdict,
                   history>>

\* _persist_outcome_unknown
PersistOutcomeUnknown(s, fresh) ==
    /\ spc[s] = "unknown"
    /\ LET c == IF seenClaim[s] = None THEN None ELSE seenClaim[s].id
           reason == IF snap[s].status = "queued"
                     THEN "worker_heartbeat_lost_before_launch"
                     ELSE "worker_heartbeat_lost"
       IN  TransitionToOutcomeUnknown(snap[s], reason, c, seenSeq[s], fresh)
    /\ ClearSuspicion(s)
    /\ Return(s, state')
    /\ UNCHANGED <<published, closed>>
    /\ SameWorkers

Close(s) ==
    /\ s \in site.closers /\ ~closed[s]
    /\ closed' = [closed EXCEPT ![s] = TRUE]
    /\ ClearSuspicion(s)
    /\ UNCHANGED <<storeVars, published, spc, op, snap, seenSeq, seenFresh, seenClaim>>
    /\ SameWorkers

\* The runtime builds a new supervisor on the same store.
Reopen(s) ==
    /\ closed[s] /\ spc[s] = "idle"
    /\ closed' = [closed EXCEPT ![s] = FALSE]
    /\ Orphan(s)
    /\ UNCHANGED <<storeVars, published, spc, op, snap, seenSeq, seenFresh, seenClaim,
                   suspect, wpc, pid, child, beating, verdict, history>>

\* The runtime dies and a new one opens the same store.
CrashSupervisor(s) ==
    /\ crashes < MaxCrashes
    /\ Finish(s)
    /\ ClearSuspicion(s)
    /\ Orphan(s)
    /\ closed' = [closed EXCEPT ![s] = FALSE]
    /\ crashes' = crashes + 1
    /\ UNCHANGED <<storeVars, published, wpc, pid, child, beating, verdict,
                   calls, cancelledWhileQueued>>

(***************************************************************************)
(* Wrapper: run_worker                                                     *)
(***************************************************************************)

SameSupervisors == UNCHANGED <<published, supVars, history>>

\* The wrapper goes to pc; leaving stops its heartbeat thread and has it
\* reaped by its supervisor.
Step(w, pc) ==
    /\ wpc' = [wpc EXCEPT ![w] = pc]
    /\ IF pc \in Gone
       THEN /\ beating' = [beating EXCEPT ![w] = FALSE]
            /\ parent' = [parent EXCEPT ![w] = None]
       ELSE UNCHANGED <<beating, parent>>

\* claim_worker, or exit 0 because somebody else holds the claim.
WorkerClaim(w) ==
    /\ wpc[w] = "new"
    /\ IF CanClaim
       THEN ClaimWorker(w, pid[w]) /\ Step(w, "lease")
       ELSE UNCHANGED storeVars /\ Step(w, "exited")
    /\ UNCHANGED <<pid, child, verdict>>
    /\ SameSupervisors

\* lease.start(): the first heartbeat, or an exception while `snapshot' is
\* still None, so that nothing is recorded.
LeaseStart(w) ==
    /\ wpc[w] = "lease"
    /\ IF CanHeartbeat(pid[w])
       THEN /\ WriteHeartbeat(pid[w])
            /\ wpc' = [wpc EXCEPT ![w] = "starting"]
            /\ beating' = [beating EXCEPT ![w] = TRUE]
            /\ UNCHANGED parent
       ELSE UNCHANGED storeVars /\ Step(w, "failed")
    /\ UNCHANGED <<pid, child, verdict>>
    /\ SameSupervisors

\* update_state to `status' that goes on at pc, or raises into the handler.
TryUpdate(w, status, pc) ==
    IF AllowedTransition(state.status, status)
    THEN UpdateState(status, pid[w]) /\ Step(w, pc)
    ELSE UNCHANGED storeVars /\ Step(w, "handler")

\* Defect: the STARTING receipt is left out.
WriteStartingSkipped(w) ==
    /\ wpc[w] = "starting"
    /\ Step(w, "cancelCheck")
    /\ UNCHANGED <<storeVars, pid, child, verdict>>
    /\ SameSupervisors

\* The durable STARTING receipt, written before Popen.
WriteStarting(w) ==
    /\ wpc[w] = "starting"
    /\ TryUpdate(w, "starting", "cancelCheck")
    /\ UNCHANGED <<pid, child, verdict>>
    /\ SameSupervisors

\* Defect: the marker is not looked at before the launch.
CheckCancelSkipped(w) ==
    /\ wpc[w] = "cancelCheck"
    /\ Step(w, "claimCheck")
    /\ UNCHANGED <<storeVars, pid, child, verdict>>
    /\ SameSupervisors

CheckCancel(w) ==
    /\ wpc[w] = "cancelCheck"
    /\ Step(w, IF cancelMarker THEN "cancelWrite" ELSE "claimCheck")
    /\ UNCHANGED <<storeVars, pid, child, verdict>>
    /\ SameSupervisors

CancelBeforeLaunch(w) ==
    /\ wpc[w] = "cancelWrite"
    /\ TryUpdate(w, "cancelled", "exited")
    /\ UNCHANGED <<pid, child, verdict>>
    /\ SameSupervisors

\* The final launch fence, worker_claim_is_current.
CheckClaim(w) ==
    /\ wpc[w] = "claimCheck"
    /\ IF WorkerClaimIsCurrent(pid[w])
       THEN UNCHANGED storeVars /\ Step(w, "popen")
       ELSE /\ TransitionToOutcomeUnknown(state, "worker_claim_lost_before_launch",
                                          None, None, FALSE)
            /\ Step(w, "exited")
    /\ UNCHANGED <<pid, child, verdict>>
    /\ SameSupervisors

\* Popen of the user command.
Popen(w) ==
    /\ wpc[w] = "popen"
    /\ child' = [child EXCEPT ![w] = "alive"]
    /\ Step(w, "runWrite")
    /\ UNCHANGED <<storeVars, pid, verdict>>
    /\ SameSupervisors

WriteRunning(w) ==
    /\ wpc[w] = "runWrite"
    /\ TryUpdate(w, "running", "loop")
    /\ UNCHANGED <<pid, child, verdict>>
    /\ SameSupervisors

\* _terminate_child: SIGTERM, then SIGKILL; the child may survive both.
TerminateChild(w) ==
    IF child[w] = "alive"
    THEN \E c \in {"exited", "unstoppable"} : child' = [child EXCEPT ![w] = c]
    ELSE UNCHANGED child

\* One pass of the worker loop that ends it.
EndLoop(w, v) ==
    /\ wpc[w] = "loop"
    /\ verdict' = [verdict EXCEPT ![w] = v]
    /\ Step(w, "final")
    /\ UNCHANGED <<storeVars, pid>>
    /\ SameSupervisors

LoopCancel(w) ==
    /\ child[w] = "alive" /\ cancelMarker
    /\ TerminateChild(w)
    /\ EndLoop(w, "cancelled")

LoopTimeout(w) ==
    /\ child[w] = "alive"
    /\ TerminateChild(w)
    /\ EndLoop(w, "timed_out")

LoopChildExited(w) ==
    /\ child[w] = "exited"
    /\ UNCHANGED child
    /\ \E v \in {"completed", "failed"} : EndLoop(w, v)

\* The terminal receipt; a child that would not stop leaves none.
WriteFinal(w) ==
    /\ wpc[w] = "final"
    /\ IF child[w] = "exited"
       THEN TryUpdate(w, verdict[w], "exited")
       ELSE UNCHANGED storeVars /\ Step(w, "exited")
    /\ verdict' = [verdict EXCEPT ![w] = "none"]
    /\ UNCHANGED <<pid, child>>
    /\ SameSupervisors

(***************************************************************************)
(* Wrapper: the exception boundary                                         *)
(***************************************************************************)

\* A command that cannot be started, or an I/O error of the store or the
\* log pumps, at any point of the try block.
WorkerRaises(w) ==
    /\ crashes < MaxCrashes
    /\ wpc[w] \in Guarded
    /\ Step(w, "handler")
    /\ crashes' = crashes + 1
    /\ UNCHANGED <<storeVars, published, supVars, pid, child, verdict,
                   calls, cancelledWhileQueued>>

\* _record_orchestration_failure: give up if the job is already terminal.
HandlerLoad(w) ==
    /\ wpc[w] = "handler"
    /\ Step(w, IF Terminal(state) THEN "failed" ELSE "handlerStop")
    /\ UNCHANGED <<storeVars, pid, child, verdict>>
    /\ SameSupervisors

HandlerStop(w) ==
    /\ wpc[w] = "handlerStop"
    /\ TerminateChild(w)
    /\ Step(w, IF child'[w] \in {"none", "exited"} THEN "handlerWrite" ELSE "failed")
    /\ UNCHANGED <<storeVars, pid, verdict>>
    /\ SameSupervisors

\* A refused update_state is swallowed.
HandlerWrite(w) ==
    /\ wpc[w] = "handlerWrite"
    /\ IF AllowedTransition(state.status, "failed")
       THEN UpdateState("failed", pid[w]) ELSE UNCHANGED storeVars
    /\ Step(w, "failed")
    /\ UNCHANGED <<pid, child, verdict>>
    /\ SameSupervisors

(***************************************************************************)
(* The heartbeat thread, the child, crashes                                *)
(***************************************************************************)

\* _HeartbeatLease._run: stops on a terminal job, swallows a refusal.
HeartbeatThread(w) ==
    /\ beating[w]
    /\ IF Terminal(state)
       THEN beating' = [beating EXCEPT ![w] = FALSE] /\ UNCHANGED storeVars
       ELSE /\ heartbeat.seq < site.maxHeartbeats
            /\ WriteHeartbeat(pid[w])
            /\ UNCHANGED beating
    /\ UNCHANGED <<wpc, pid, parent, child, verdict>>
    /\ SameSupervisors

ChildExits(w) ==
    /\ child[w] \in {"alive", "unstoppable"}
    /\ child' = [child EXCEPT ![w] = "exited"]
    /\ UNCHANGED <<storeVars, wpc, pid, parent, beating, verdict>>
    /\ SameSupervisors

CrashWorker(w) ==
    /\ crashes < MaxCrashes
    /\ Alive(w)
    /\ Step(w, "crashed")
    /\ crashes' = crashes + 1
    /\ UNCHANGED <<storeVars, published, supVars, pid, child, verdict,
                   calls, cancelledWhileQueued>>

SupervisorStep(s) ==
    \/ LoadAfterReserve(s) \/ WriteCancelMarker(s) \/ ClearClaim(s) \/ SpawnNothing(s)
    \/ \E w \in Workers, p \in Pids : SpawnWorker(s, w, p)
    \/ \E young, inGrace, waited \in BOOLEAN : ReconcileLaunched(s, young, inGrace, waited)
    \/ \E young \in BOOLEAN : ReconcileQueued(s, young)
    \/ \E inGrace \in BOOLEAN : ReadClaim(s, inGrace)
    \/ \E alive, waited \in BOOLEAN : ProbePid(s, alive, waited)
    \/ \E fresh \in BOOLEAN : PersistOutcomeUnknown(s, fresh)

WorkerStep(w) ==
    \/ WorkerClaim(w) \/ LeaseStart(w) \/ WriteStarting(w) \/ CheckCancel(w)
    \/ CancelBeforeLaunch(w) \/ CheckClaim(w) \/ Popen(w) \/ WriteRunning(w)
    \/ LoopCancel(w) \/ LoopTimeout(w) \/ LoopChildExited(w) \/ WriteFinal(w)
    \/ HandlerLoad(w) \/ HandlerStop(w) \/ HandlerWrite(w)

Move ==
    \/ \E s \in Supervisors : s \in site.active /\
          \/ \E i \in Intents : Start(s, i)
          \/ \E i \in Intents, last \in {"spec", "state"} : CrashInReserve(s, i, last)
          \/ Inspect(s) \/ Reattach(s) \/ SupervisorStep(s)
          \/ Close(s) \/ Reopen(s) \/ CrashSupervisor(s)
    \/ \E w \in Workers :
          \/ WorkerStep(w) \/ WorkerRaises(w) \/ HeartbeatThread(w)
          \/ ChildExits(w) \/ CrashWorker(w)

Next == Move /\ UNCHANGED site

Spec == Init /\ [][Next]_vars

\* Nobody renews the heartbeat any more.
LeaseAbandoned == \A w \in Workers : ~beating[w]

\* The steps of _reconcile that find every age beyond its limit.
FindsOutdated(s) ==
    \/ ReconcileLaunched(s, FALSE, FALSE, TRUE)
    \/ ReconcileQueued(s, FALSE)
    \/ ReadClaim(s, FALSE)
    \/ ProbePid(s, PidInUse(seenClaim[s].pid), TRUE)
    \/ PersistOutcomeUnknown(s, FALSE)

\* Time: once nobody renews the heartbeat, its age, the launch grace and the
\* suspicion window all pass, and an unrelated process that got the number of
\* a dead wrapper ends.
LooksFindOutdated ==
    \A s \in Supervisors :
        spc[s] \in {"heartbeat", "claim", "probe", "unknown"} /\ spc'[s] # spc[s]
        => FindsOutdated(s)

AgesGrow == <>[]LeaseAbandoned => <>[][LooksFindOutdated]_vars

\* What the scheduling gives: a wrapper and a call that can go on do go on
\* (LoopTimeout bounds the command), a caller that waits for the job looks at
\* it again and again, and the retry cooldown ends.
Fairness ==
    /\ AgesGrow
    /\ \A w \in Workers : WF_vars(WorkerStep(w) /\ UNCHANGED site)
    /\ \A s \in Supervisors :
          /\ WF_vars(SupervisorStep(s) /\ UNCHANGED site)
          /\ WF_vars(s \in site.active /\ Inspect(s) /\ UNCHANGED site)
          /\ SF_vars(/\ \E w \in Workers, p \in Pids : SpawnWorker(s, w, p)
                     /\ UNCHANGED site)

(***************************************************************************)
(* Properties                                                              *)
(***************************************************************************)

\* Concurrent supervisors may spawn several wrappers, some of them after a
\* crash and with a reused pid, but only one ever runs the user command
\* (_worker.py, comment in run_worker above "return 0").
AtMostOneLaunch ==
    \A v, w \in Workers : child[v] # "none" /\ child[w] # "none" => v = w

\* A job that is still queued has never run its command: this is what makes
\* the retry after clear_stale_claim safe (process.py, _reconcile).
QueuedNeverLaunched ==
    state.status \in {"absent", "queued"} => \A w \in Workers : child[w] = "none"

\* A status that claims to know the outcome is only recorded when the command
\* is not running any more (it exited, or was never started).
KnownOutcomeMeansStopped ==
    state.status \in TERMINAL_JOB_STATUSES \ {"outcome_unknown"} =>
        \A w \in Workers : child[w] \in {"none", "exited"}

\* A job given up before its launch, or cancelled while it was still queued,
\* never runs its command later, whatever a late wrapper does.
GivenUpNeverLaunched ==
    \/ state.reason = "worker_heartbeat_lost_before_launch"
    \/ cancelledWhileQueued
    => \A w \in Workers : child[w] = "none"

\* What the status says about the command is true, in every order in which
\* supervisors, wrappers and crashes may come.
StatusIsTrue == QueuedNeverLaunched /\ KnownOutcomeMeansStopped /\ GivenUpNeverLaunched

\* No crash during reservation or later leaves a directory that
\* _ensure_initial_files refuses, so the job stays reachable by start() and
\* reattach(); and what is in it is well typed.
FilesRecoverable == TypeOK /\ ~InitialFilesCorrupt

\* A terminal state.json is never rewritten: no late heartbeat, worker or
\* supervisor revives the job (transition_to_outcome_unknown's contract).
TerminalIsFinal == [][Terminal(state) => state' = state]_vars

\* A claim disappears only when the wrapper that wrote it is gone: a
\* supervisor that proved an older claim stale never deletes its replacement.
OnlyDeadClaimsCleared ==
    [][claim # None /\ claim' # claim => claim' = None /\ ~Alive(claim.id)]_vars

\* A supervisor gives a job up only if revision, claim and heartbeat are
\* still the ones it recorded when its suspicion window began.
GivesUpOnlyUnchangedEvidence ==
    [][\A s \in Supervisors :
          /\ spc[s] = "unknown" /\ spc'[s] # "unknown"
          /\ state' # state /\ suspect[s] # None
          => /\ suspect[s].rev = state.rev
             /\ suspect[s].seq = heartbeat.seq
             /\ suspect[s].claim \in {None, claim.id}]_vars

\* Supervisors, wrappers and files together implement a command that runs at
\* most once and a status that only moves forward.
Command == INSTANCE CommandOnce
             WITH status <- state.status, ran <- \E w \in Workers : child[w] # "none"

ImplementsCommandOnce == Command!Spec
=============================================================================
