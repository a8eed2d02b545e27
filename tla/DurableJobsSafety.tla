------------------------- MODULE DurableJobsSafety -------------------------
(***************************************************************************)
(* Safety of DurableJobs for any number of runtimes, wrappers, process     *)
(* numbers, launch intents and environment profiles, and for any bounds on *)
(* calls, crashes and heartbeats: the command is launched at most once,    *)
(* statuses are truthful and final, claims and evidence are current when   *)
(* they are used.                                                          *)
(***************************************************************************)
EXTENDS DurableJobs, TLAPS

\* Most steps need no arithmetic; the ones that do name the SMT solver.
USE Zenon

(***************************************************************************)
(* Type correctness                                                        *)
(***************************************************************************)

\* A call that probes or clears a claim has read one.
SupervisorTypeInv ==
    /\ SupervisorTypeOK
    /\ \A s \in Supervisors : spc[s] \in {"probe", "clear"} => seenClaim[s] \in Claims

\* A wrapper that was spawned has a pid.
WorkerTypeInv ==
    /\ WorkerTypeOK
    /\ \A w \in Workers : wpc[w] # "unborn" => pid[w] \in Pids

OtherTypeOK ==
    /\ published \in BOOLEAN
    /\ crashes \in Nat
    /\ calls \in Nat
    /\ cancelledWhileQueued \in BOOLEAN

TypeInv == StoreTypeOK /\ SupervisorTypeInv /\ WorkerTypeInv /\ OtherTypeOK

\* The initial job directory and the initial processes are type correct.
LEMMA InitTypeInv == Init => TypeInv
<1> SUFFICES ASSUME Init PROVE TypeInv
  OBVIOUS
<1> USE DEF Init, StoreInit
<1>1. NoState \in States
  BY DEF States, NoState, Reasons
<1>2. StoreTypeOK
  BY <1>1 DEF StoreTypeOK, Heartbeats, NoHeartbeat
<1>3. SupervisorTypeInv
  BY <1>1 DEF SupervisorTypeInv, SupervisorTypeOK, SupervisorPCs, Ops
<1>4. WorkerTypeInv
  BY DEF WorkerTypeInv, WorkerTypeOK, WorkerPCs
<1>5. OtherTypeOK
  BY DEF OtherTypeOK
<1> QED
  BY <1>2, <1>3, <1>4, <1>5 DEF TypeInv

\* Reservation binds the job to a well-formed intent and writes whole files.
LEMMA ReserveType ==
    ASSUME StoreTypeOK, NEW i \in Intents, NEW p \in Profiles, NEW last,
           ReserveProcessJob(i, p, last)
    PROVE  StoreTypeOK'
BY DEF StoreTypeOK, ReserveProcessJob, EnsureInitialFiles, NoState, States, Specs, Reasons,
       JOB_STATUSES

\* update_state accepts only statuses of the model.
LEMMA UpdateType ==
    ASSUME StoreTypeOK, NEW p \in Pids \cup {None}, NEW status, UpdateState(status, p)
    PROVE  StoreTypeOK'
<1>1. status \in JOB_STATUSES \cup {"absent"}
  BY DEF UpdateState, AllowedTransition, StoreTypeOK, States, JOB_STATUSES,
         TERMINAL_JOB_STATUSES
<1>2. state \in States /\ state.rev + 1 \in Nat
  BY SMT DEF StoreTypeOK, States
<1>3. [state EXCEPT !.status = status, !.pid = p, !.rev = @ + 1] \in States
  BY <1>1, <1>2 DEF States
<1> QED
  BY <1>3 DEF StoreTypeOK, UpdateState

LEMMA UnknownType ==
    ASSUME StoreTypeOK, NEW sn, NEW reason \in Reasons, NEW c, NEW q, NEW fresh,
           TransitionToOutcomeUnknown(sn, reason, c, q, fresh)
    PROVE  StoreTypeOK'
<1>1. state \in States /\ state.rev + 1 \in Nat /\ "outcome_unknown" \in JOB_STATUSES
  BY SMT DEF StoreTypeOK, States, JOB_STATUSES, TERMINAL_JOB_STATUSES
<1>2. [state EXCEPT !.status = "outcome_unknown", !.reason = reason, !.rev = @ + 1] \in States
  BY <1>1 DEF States
<1> QED
  BY <1>1, <1>2 DEF StoreTypeOK, TransitionToOutcomeUnknown

\* The remaining operations of the store each write one file.
LEMMA ClaimType ==
    ASSUME StoreTypeOK, NEW w \in Workers, NEW p \in Pids, ClaimWorker(w, p)
    PROVE  StoreTypeOK'
BY DEF StoreTypeOK, ClaimWorker, Claims

LEMMA ClearType ==
    ASSUME StoreTypeOK, NEW c, ClearStaleClaim(c)
    PROVE  StoreTypeOK'
BY DEF StoreTypeOK, ClearStaleClaim

LEMMA HeartbeatType ==
    ASSUME StoreTypeOK, NEW p \in Pids, WriteHeartbeat(p)
    PROVE  StoreTypeOK'
BY SMT DEF StoreTypeOK, WriteHeartbeat, Heartbeats

LEMMA CancelType ==
    ASSUME StoreTypeOK, RequestCancel
    PROVE  StoreTypeOK'
BY DEF StoreTypeOK, RequestCancel

LEMMA SameStoreType ==
    ASSUME StoreTypeOK, UNCHANGED storeVars
    PROVE  StoreTypeOK'
BY DEF StoreTypeOK, storeVars

(***************************************************************************)
(* The bookkeeping of a call                                               *)
(***************************************************************************)

LEMMA NoStateType == NoState \in States
BY DEF States, NoState, Reasons

\* Going to another step of _reconcile, keeping what the call has read.
LEMMA GotoType ==
    ASSUME SupervisorTypeInv, NEW s \in Supervisors, NEW pc \in SupervisorPCs,
           NEW o \in Ops, NEW sn \in States, Goto(s, pc, o, sn),
           pc \in {"probe", "clear"} => seenClaim'[s] \in Claims,
           seenSeq' \in [Supervisors -> Nat], seenFresh' \in [Supervisors -> BOOLEAN],
           seenClaim' \in [Supervisors -> Claims \cup {None}],
           \A r \in Supervisors \ {s} : seenClaim'[r] = seenClaim[r],
           suspect' \in [Supervisors -> Suspicions \cup {None}],
           closed' \in [Supervisors -> BOOLEAN]
    PROVE  SupervisorTypeInv'
BY DEF SupervisorTypeInv, SupervisorTypeOK, Goto

LEMMA ForgetType ==
    ASSUME SupervisorTypeInv, NEW s \in Supervisors, Forget(s)
    PROVE  /\ seenSeq' \in [Supervisors -> Nat]
           /\ seenFresh' \in [Supervisors -> BOOLEAN]
           /\ seenClaim' \in [Supervisors -> Claims \cup {None}]
           /\ \A r \in Supervisors \ {s} : seenClaim'[r] = seenClaim[r]
BY DEF SupervisorTypeInv, SupervisorTypeOK, Forget

\* Every way a call of _reconcile ends.
LEMMA ReturnType ==
    ASSUME SupervisorTypeInv, NEW s \in Supervisors, NEW sn \in States,
           Return(s, sn) \/ Finish(s),
           suspect' \in [Supervisors -> Suspicions \cup {None}],
           closed' \in [Supervisors -> BOOLEAN]
    PROVE  SupervisorTypeInv'
<1>1. Forget(s)
  BY DEF Return, Finish
<1>2. \E pc \in {"idle", "request"}, o \in {"none", "cancel"}, r \in States : Goto(s, pc, o, r)
  BY NoStateType DEF Return, Finish
<1> QED
  BY <1>1, <1>2, ForgetType, GotoType, SMT DEF SupervisorPCs, Ops

LEMMA SuspectType ==
    ASSUME SupervisorTypeInv, NEW s \in Supervisors, NEW c \in Workers \cup {None},
           NEW q \in Nat, ClearSuspicion(s) \/ Observe(s, c, q)
    PROVE  suspect' \in [Supervisors -> Suspicions \cup {None}]
<1>1. Signature(snap[s], c, q) \in Suspicions
  BY DEF SupervisorTypeInv, SupervisorTypeOK, States, Signature, Suspicions
<1> QED
  BY <1>1 DEF SupervisorTypeInv, SupervisorTypeOK, ClearSuspicion, Observe

LEMMA LoadType ==
    ASSUME TypeInv, NEW s \in Supervisors, NEW o \in Ops, LoadInto(s, o), UNCHANGED closed
    PROVE  SupervisorTypeInv'
<1> USE DEF TypeInv, StoreTypeOK
<1>1. CASE Finish(s) /\ ClearSuspicion(s)
  <2>1. suspect' \in [Supervisors -> Suspicions \cup {None}]
    BY <1>1 DEF SupervisorTypeInv, SupervisorTypeOK, ClearSuspicion
  <2> QED
    BY <1>1, <2>1, NoStateType, ReturnType DEF SupervisorTypeInv, SupervisorTypeOK
<1>2. CASE ~(Finish(s) /\ ClearSuspicion(s))
  BY <1>2, GotoType DEF LoadInto, SupervisorTypeInv, SupervisorTypeOK, SupervisorPCs
<1> QED
  BY <1>1, <1>2

(***************************************************************************)
(* Steps of a supervisor keep the types                                    *)
(***************************************************************************)

\* A step that leaves the wrappers alone.
LEMMA SameWorkersType ==
    ASSUME WorkerTypeInv, OtherTypeOK, SameWorkers \/ Call, published' \in BOOLEAN
    PROVE  WorkerTypeInv' /\ OtherTypeOK'
BY SMT DEF WorkerTypeInv, WorkerTypeOK, OtherTypeOK, SameWorkers, Call, workerVars, history

\* A step that only orphans the wrappers of a runtime.
LEMMA OrphanType ==
    ASSUME WorkerTypeInv, NEW s, Orphan(s), UNCHANGED <<wpc, pid, child, beating, verdict>>
    PROVE  WorkerTypeInv'
BY DEF WorkerTypeInv, WorkerTypeOK, Orphan

LEMMA CallType ==
    ASSUME TypeInv, NEW s \in Supervisors,
           \/ \E i \in Intents : Start(s, i)
           \/ \E i \in Intents, last \in {"spec", "state"} : CrashInReserve(s, i, last)
           \/ Inspect(s) \/ Reattach(s) \/ LoadAfterReserve(s) \/ WriteCancelMarker(s)
           \/ Close(s) \/ Reopen(s) \/ CrashSupervisor(s)
    PROVE  TypeInv'
<1> USE DEF TypeInv
<1>1. ASSUME NEW i \in Intents, Start(s, i) PROVE TypeInv'
  <2>1. StoreTypeOK'
    BY <1>1, ProfileAssumption, ReserveType DEF Start
  <2>2. SupervisorTypeInv'
    BY <1>1, NoStateType, GotoType
    DEF Start, SupervisorTypeInv, SupervisorTypeOK, SupervisorPCs, Ops
  <2> QED
    BY <1>1, <2>1, <2>2, SameWorkersType DEF Start
<1>2. ASSUME NEW i \in Intents, NEW last, CrashInReserve(s, i, last) PROVE TypeInv'
  <2>1. StoreTypeOK'
    BY <1>2, ProfileAssumption, ReserveType DEF CrashInReserve
  <2>2. SupervisorTypeInv'
    BY <1>2 DEF CrashInReserve, ClearSuspicion, SupervisorTypeInv, SupervisorTypeOK
  <2>3. WorkerTypeInv'
    BY <1>2, OrphanType DEF CrashInReserve
  <2> QED
    BY <1>2, <2>1, <2>2, <2>3, SMT DEF CrashInReserve, OtherTypeOK
<1>3. CASE Inspect(s)
  <2>1. PICK o \in Ops : LoadInto(s, o)
    BY <1>3 DEF Inspect, LaunchUnlessClosed, Ops
  <2> QED
    BY <1>3, <2>1, LoadType, SameStoreType, SameWorkersType DEF Inspect, OtherTypeOK
<1>4. CASE Reattach(s)
  <2>1. state' \in States /\ cursor' \in BOOLEAN
    BY <1>4 DEF Reattach, EnsureInitialFiles, StoreTypeOK, States, NoState, JOB_STATUSES, Reasons
  <2>2. StoreTypeOK'
    BY <1>4, <2>1 DEF Reattach, StoreTypeOK
  <2>3. SupervisorTypeInv'
    <3>1. CASE Terminal(state')
      <4>1. suspect' \in [Supervisors -> Suspicions \cup {None}]
        BY <1>4, <3>1 DEF Reattach, ClearSuspicion, SupervisorTypeInv, SupervisorTypeOK
      <4> QED
        BY <1>4, <3>1, <4>1, NoStateType, ReturnType
        DEF Reattach, SupervisorTypeInv, SupervisorTypeOK
    <3>2. CASE ~Terminal(state')
      <4>1. Goto(s, "heartbeat", LaunchUnlessClosed(s), state') /\ LaunchUnlessClosed(s) \in Ops
        BY <1>4, <3>2 DEF Reattach, LaunchUnlessClosed, Ops
      <4>2. UNCHANGED <<seenSeq, seenFresh, seenClaim, suspect, closed>>
        BY <1>4, <3>2 DEF Reattach
      <4> QED
        BY <2>1, <4>1, <4>2, GotoType DEF SupervisorTypeInv, SupervisorTypeOK, SupervisorPCs
    <3> QED
      BY <3>1, <3>2
  <2> QED
    BY <1>4, <2>2, <2>3, SameWorkersType DEF Reattach
<1>5. CASE LoadAfterReserve(s)
  BY <1>5, LoadType, SameStoreType, SameWorkersType DEF LoadAfterReserve, Ops, OtherTypeOK
<1>6. CASE WriteCancelMarker(s)
  <2>1. SupervisorTypeInv'
    <3>1. Goto(s, "heartbeat", LaunchUnlessClosed(s), snap[s]) /\ LaunchUnlessClosed(s) \in Ops
      BY <1>6 DEF WriteCancelMarker, LaunchUnlessClosed, Ops
    <3> QED
      BY <1>6, <3>1, GotoType
      DEF WriteCancelMarker, SupervisorTypeInv, SupervisorTypeOK, SupervisorPCs
  <2>2. WorkerTypeInv' /\ OtherTypeOK'
    BY <1>6 DEF WriteCancelMarker, workerVars, WorkerTypeInv, WorkerTypeOK, OtherTypeOK
  <2> QED
    BY <1>6, <2>1, <2>2, CancelType DEF WriteCancelMarker
<1>7. CASE Close(s)
  <2>1. SupervisorTypeInv'
    BY <1>7 DEF Close, ClearSuspicion, SupervisorTypeInv, SupervisorTypeOK
  <2> QED
    BY <1>7, <2>1, SameStoreType, SameWorkersType DEF Close, OtherTypeOK
<1>8. CASE Reopen(s)
  <2>1. SupervisorTypeInv'
    BY <1>8 DEF Reopen, SupervisorTypeInv, SupervisorTypeOK
  <2> QED
    BY <1>8, <2>1, SameStoreType, OrphanType DEF Reopen, OtherTypeOK, history
<1>9. CASE CrashSupervisor(s)
  <2>1. suspect' \in [Supervisors -> Suspicions \cup {None}] /\ closed' \in [Supervisors -> BOOLEAN]
    BY <1>9 DEF CrashSupervisor, ClearSuspicion, SupervisorTypeInv, SupervisorTypeOK
  <2>2. SupervisorTypeInv'
    BY <1>9, <2>1, NoStateType, ReturnType DEF CrashSupervisor
  <2> QED
    BY <1>9, <2>2, SameStoreType, OrphanType, SMT DEF CrashSupervisor, OtherTypeOK
<1> QED
  BY <1>1, <1>2, <1>3, <1>4, <1>5, <1>6, <1>7, <1>8, <1>9

LEMMA ReconcileType ==
    ASSUME TypeInv, NEW s \in Supervisors, SupervisorStep(s),
           ~LoadAfterReserve(s), ~WriteCancelMarker(s)
    PROVE  TypeInv'
<1> USE DEF TypeInv
<1>t. /\ snap[s] \in States /\ op[s] \in Ops /\ heartbeat.seq \in Nat /\ seenSeq[s] \in Nat
      /\ suspect \in [Supervisors -> Suspicions \cup {None}]
      /\ closed \in [Supervisors -> BOOLEAN]
  BY DEF StoreTypeOK, Heartbeats, SupervisorTypeInv, SupervisorTypeOK
<1>0. (UNCHANGED <<storeVars, published>> /\ SameWorkers) => StoreTypeOK' /\ WorkerTypeInv' /\ OtherTypeOK'
  BY SameStoreType, SameWorkersType DEF OtherTypeOK
<1>1. ASSUME NEW young, NEW inGrace, NEW waited, ReconcileLaunched(s, young, inGrace, waited)
      PROVE TypeInv'
  <2>1. CASE Return(s, snap[s])
    <3>1. ClearSuspicion(s) \/ Observe(s, None, heartbeat.seq) \/ UNCHANGED suspect
      BY <1>1 DEF ReconcileLaunched
    <3> QED
      BY <1>1, <1>0, <1>t, <2>1, <3>1, SuspectType, ReturnType DEF ReconcileLaunched
  <2>2. CASE ~Return(s, snap[s])
    <3>1. /\ Goto(s, "unknown", op[s], snap[s])
          /\ seenSeq' = [seenSeq EXCEPT ![s] = heartbeat.seq]
          /\ UNCHANGED <<seenFresh, seenClaim, suspect, closed>>
      BY <1>1, <2>2 DEF ReconcileLaunched
    <3>2. SupervisorTypeInv'
      BY <1>t, <3>1, GotoType DEF SupervisorTypeInv, SupervisorTypeOK, SupervisorPCs
    <3> QED
      BY <1>1, <1>0, <3>2 DEF ReconcileLaunched
  <2> QED
    BY <2>1, <2>2
<1>2. ASSUME NEW young \in BOOLEAN, ReconcileQueued(s, young) PROVE TypeInv'
  <2>1. HeartbeatIsFresh(snap[s], young) \in BOOLEAN
    BY DEF HeartbeatIsFresh
  <2>2. SupervisorTypeInv'
    BY <1>2, <1>t, <2>1, GotoType
    DEF ReconcileQueued, SupervisorTypeInv, SupervisorTypeOK, SupervisorPCs
  <2> QED
    BY <1>2, <1>0, <2>2 DEF ReconcileQueued
<1>3. ASSUME NEW inGrace, ReadClaim(s, inGrace) PROVE TypeInv'
  <2>1. CASE claim # None /\ ~seenFresh[s] /\ ~inGrace
    <3>1. /\ Goto(s, "probe", op[s], snap[s])
          /\ seenClaim' = [seenClaim EXCEPT ![s] = claim]
          /\ UNCHANGED <<seenSeq, seenFresh, suspect, closed>>
          /\ claim \in Claims
      BY <1>3, <2>1 DEF ReadClaim, StoreTypeOK
    <3>2. SupervisorTypeInv'
      BY <1>t, <3>1, GotoType DEF SupervisorTypeInv, SupervisorTypeOK, SupervisorPCs
    <3> QED
      BY <1>3, <1>0, <3>2 DEF ReadClaim
  <2>2. CASE ~(claim # None /\ ~seenFresh[s] /\ ~inGrace)
    <3>1. suspect' \in [Supervisors -> Suspicions \cup {None}] /\ UNCHANGED closed
      BY <1>3, <2>2, <1>t, SuspectType DEF ReadClaim
    <3>2. CASE Return(s, snap[s])
      BY <1>3, <1>0, <1>t, <3>1, <3>2, ReturnType DEF ReadClaim
    <3>3. CASE ~Return(s, snap[s])
      <4>1. Goto(s, "spawn", op[s], snap[s]) /\ UNCHANGED <<seenSeq, seenFresh, seenClaim>>
        BY <1>3, <2>2, <3>3 DEF ReadClaim
      <4>2. SupervisorTypeInv'
        BY <1>t, <3>1, <4>1, GotoType DEF SupervisorTypeInv, SupervisorTypeOK, SupervisorPCs
      <4> QED
        BY <1>3, <1>0, <4>2 DEF ReadClaim
    <3> QED
      BY <3>2, <3>3
  <2> QED
    BY <2>1, <2>2
<1>4. ASSUME NEW alive, NEW waited, ProbePid(s, alive, waited) PROVE TypeInv'
  <2>1. seenClaim[s] \in Claims /\ seenClaim[s].id \in Workers
    BY <1>4 DEF ProbePid, SupervisorTypeInv, Claims
  <2>2. \/ ClearSuspicion(s) \/ Observe(s, seenClaim[s].id, seenSeq[s])
        \/ UNCHANGED suspect
    BY <1>4 DEF ProbePid
  <2>3. suspect' \in [Supervisors -> Suspicions \cup {None}]
    BY <1>t, <2>1, <2>2, SuspectType
  <2>4. CASE Return(s, snap[s])
    BY <1>4, <1>0, <1>t, <2>3, <2>4, ReturnType DEF ProbePid
  <2>5. CASE ~Return(s, snap[s])
    <3>1. /\ \E pc \in {"unknown", "clear"} : Goto(s, pc, op[s], snap[s])
          /\ UNCHANGED <<seenSeq, seenFresh, seenClaim, closed>>
      BY <1>4, <2>5 DEF ProbePid
    <3>2. SupervisorTypeInv'
      BY <1>t, <2>1, <2>3, <3>1, GotoType, ZenonT(30)
        DEF SupervisorTypeInv, SupervisorTypeOK, SupervisorPCs
    <3> QED
      BY <1>4, <1>0, <3>2 DEF ProbePid
  <2> QED
    BY <2>4, <2>5
<1>5. CASE ClearClaim(s)
  <2>1. StoreTypeOK' /\ WorkerTypeInv' /\ OtherTypeOK'
    BY <1>5, ClearType, SameStoreType, SameWorkersType DEF ClearClaim, OtherTypeOK
  <2>2. CASE Return(s, snap[s])
    BY <1>5, <1>t, <2>1, <2>2, ReturnType DEF ClearClaim
  <2>3. CASE ~Return(s, snap[s])
    BY <1>5, <1>t, <2>1, <2>3, GotoType
    DEF ClearClaim, SupervisorTypeInv, SupervisorTypeOK, SupervisorPCs
  <2> QED
    BY <2>2, <2>3
<1>6. CASE SpawnNothing(s)
  BY <1>6, <1>0, <1>t, ReturnType DEF SpawnNothing
<1>7. ASSUME NEW w \in Workers, NEW p \in Pids, SpawnWorker(s, w, p) PROVE TypeInv'
  <2>1. WorkerTypeInv' /\ OtherTypeOK'
    BY <1>7 DEF SpawnWorker, WorkerTypeInv, WorkerTypeOK, WorkerPCs, OtherTypeOK, history
  <2> QED
    BY <1>7, <1>t, <2>1, SameStoreType, ReturnType DEF SpawnWorker
<1>8. ASSUME NEW fresh, PersistOutcomeUnknown(s, fresh) PROVE TypeInv'
  <2>1. StoreTypeOK'
    BY <1>8, UnknownType DEF PersistOutcomeUnknown, Reasons
  <2>2. suspect' \in [Supervisors -> Suspicions \cup {None}] /\ UNCHANGED closed
    BY <1>8, <1>t, SuspectType DEF PersistOutcomeUnknown
  <2>3. SupervisorTypeInv'
    BY <1>8, <1>t, <2>1, <2>2, ReturnType DEF PersistOutcomeUnknown, StoreTypeOK
  <2> QED
    BY <1>8, <2>1, <2>3, SameWorkersType DEF PersistOutcomeUnknown, OtherTypeOK
<1> QED
  BY <1>1, <1>2, <1>3, <1>4, <1>5, <1>6, <1>7, <1>8 DEF SupervisorStep

(***************************************************************************)
(* Steps of a wrapper keep the types                                       *)
(***************************************************************************)

\* The wrapper moves within run_worker or leaves it.
LEMMA StepType ==
    ASSUME WorkerTypeInv, NEW w \in Workers, NEW pc \in WorkerPCs, Step(w, pc),
           wpc[w] # "unborn", UNCHANGED pid,
           child' \in [Workers -> {"none", "alive", "unstoppable", "exited"}],
           verdict' \in [Workers -> TERMINAL_JOB_STATUSES \cup {"none"}]
    PROVE  WorkerTypeInv'
BY DEF WorkerTypeInv, WorkerTypeOK, Step

LEMMA SameSupervisorsType ==
    ASSUME SupervisorTypeInv, OtherTypeOK, SameSupervisors
    PROVE  SupervisorTypeInv' /\ OtherTypeOK'
BY DEF SupervisorTypeInv, SupervisorTypeOK, OtherTypeOK, SameSupervisors, supVars, history

LEMMA TryUpdateType ==
    ASSUME TypeInv, NEW w \in Workers, NEW status, NEW pc \in WorkerPCs,
           TryUpdate(w, status, pc), wpc[w] # "unborn", UNCHANGED <<pid, child>>, SameSupervisors,
           verdict' \in [Workers -> TERMINAL_JOB_STATUSES \cup {"none"}]
    PROVE  TypeInv'
<1> USE DEF TypeInv
<1>1. StoreTypeOK'
  BY UpdateType, SameStoreType DEF TryUpdate, WorkerTypeInv, WorkerTypeOK
<1>2. \E q \in WorkerPCs : Step(w, q)
  BY DEF TryUpdate, WorkerPCs, Owning
<1>3. WorkerTypeInv'
  BY <1>2, StepType DEF WorkerTypeInv, WorkerTypeOK
<1> QED
  BY <1>1, <1>3, SameSupervisorsType

LEMMA TerminateType ==
    ASSUME WorkerTypeInv, NEW w \in Workers, TerminateChild(w)
    PROVE  child' \in [Workers -> {"none", "alive", "unstoppable", "exited"}]
BY DEF WorkerTypeInv, WorkerTypeOK, TerminateChild

\* A wrapper that moves without touching the store.
LEMMA QuietType ==
    ASSUME TypeInv, NEW w \in Workers, NEW pc \in WorkerPCs, Step(w, pc),
           wpc[w] # "unborn", UNCHANGED <<storeVars, pid>>, SameSupervisors,
           child' \in [Workers -> {"none", "alive", "unstoppable", "exited"}],
           verdict' \in [Workers -> TERMINAL_JOB_STATUSES \cup {"none"}]
    PROVE  TypeInv'
BY StepType, SameStoreType, SameSupervisorsType DEF TypeInv

LEMMA WorkerStepType ==
    ASSUME TypeInv, NEW w \in Workers, WorkerStep(w)
    PROVE  TypeInv'
<1>t. /\ pid[w] \in Pids \cup {None} /\ (wpc[w] # "unborn" => pid[w] \in Pids)
      /\ child \in [Workers -> {"none", "alive", "unstoppable", "exited"}]
      /\ verdict \in [Workers -> TERMINAL_JOB_STATUSES \cup {"none"}]
      /\ StoreTypeOK /\ WorkerTypeInv /\ SupervisorTypeInv /\ OtherTypeOK
  BY DEF TypeInv, WorkerTypeInv, WorkerTypeOK
<1> USE DEF WorkerPCs, Owning, Gone
<1>1. CASE WorkerClaim(w)
  <2>1. StoreTypeOK'
    BY <1>1, <1>t, ClaimType, SameStoreType DEF WorkerClaim
  <2>2. \E pc \in WorkerPCs : Step(w, pc)
    BY <1>1 DEF WorkerClaim
  <2> QED
    BY <1>1, <1>t, <2>1, <2>2, StepType, SameSupervisorsType DEF WorkerClaim, TypeInv
<1>2. CASE LeaseStart(w)
  <2>1. StoreTypeOK'
    BY <1>2, <1>t, HeartbeatType, SameStoreType DEF LeaseStart
  <2>2. WorkerTypeInv'
    BY <1>2, <1>t, ZenonT(30) DEF LeaseStart, Step, WorkerTypeInv, WorkerTypeOK
  <2> QED
    BY <1>2, <1>t, <2>1, <2>2, SameSupervisorsType DEF LeaseStart, TypeInv
<1>3. CASE WriteStarting(w) \/ CancelBeforeLaunch(w) \/ WriteRunning(w)
  BY <1>3, <1>t, TryUpdateType DEF WriteStarting, CancelBeforeLaunch, WriteRunning
<1>4. CASE CheckCancel(w) \/ HandlerLoad(w)
  BY <1>4, <1>t, QuietType DEF CheckCancel, HandlerLoad
<1>5. CASE CheckClaim(w)
  <2>1. StoreTypeOK'
    BY <1>5, <1>t, UnknownType, SameStoreType DEF CheckClaim, Reasons
  <2> QED
    BY <1>5, <1>t, <2>1, StepType, SameSupervisorsType DEF CheckClaim, TypeInv
<1>6. CASE Popen(w)
  BY <1>6, <1>t, QuietType DEF Popen
<1>7. CASE LoopCancel(w) \/ LoopTimeout(w) \/ LoopChildExited(w)
  <2>1. child' \in [Workers -> {"none", "alive", "unstoppable", "exited"}]
    BY <1>7, <1>t, TerminateType DEF LoopCancel, LoopTimeout, LoopChildExited
  <2>2. PICK v \in TERMINAL_JOB_STATUSES : EndLoop(w, v)
    BY <1>7 DEF LoopCancel, LoopTimeout, LoopChildExited, TERMINAL_JOB_STATUSES
  <2> QED
    BY <2>1, <2>2, <1>t, QuietType DEF EndLoop
<1>8. CASE WriteFinal(w)
  <2>1. verdict' \in [Workers -> TERMINAL_JOB_STATUSES \cup {"none"}]
    BY <1>8, <1>t DEF WriteFinal
  <2> QED
    BY <1>8, <2>1, <1>t, TryUpdateType, QuietType DEF WriteFinal
<1>9. CASE HandlerStop(w)
  <2>1. child' \in [Workers -> {"none", "alive", "unstoppable", "exited"}]
    BY <1>9, <1>t, TerminateType DEF HandlerStop
  <2> QED
    BY <1>9, <2>1, <1>t, QuietType DEF HandlerStop
<1>10. CASE HandlerWrite(w)
  <2>1. StoreTypeOK'
    BY <1>10, <1>t, UpdateType, SameStoreType DEF HandlerWrite
  <2> QED
    BY <1>10, <1>t, <2>1, StepType, SameSupervisorsType DEF HandlerWrite, TypeInv
<1> QED
  BY <1>1, <1>2, <1>3, <1>4, <1>5, <1>6, <1>7, <1>8, <1>9, <1>10 DEF WorkerStep

\* Crashes, exceptions, the heartbeat thread and the command itself.
LEMMA EnvironmentType ==
    ASSUME TypeInv, NEW w \in Workers,
           WorkerRaises(w) \/ HeartbeatThread(w) \/ ChildExits(w) \/ CrashWorker(w)
    PROVE  TypeInv'
<1> USE DEF TypeInv
<1>1. CASE WorkerRaises(w) \/ CrashWorker(w)
  <2>1. SupervisorTypeInv' /\ OtherTypeOK'
    BY <1>1, SMT
      DEF WorkerRaises, CrashWorker, supVars, SupervisorTypeInv, SupervisorTypeOK, OtherTypeOK
  <2>2. wpc[w] # "unborn" /\ \E pc \in WorkerPCs : Step(w, pc)
    BY <1>1 DEF WorkerRaises, CrashWorker, Guarded, Owning, Alive, WorkerPCs, Gone
  <2> QED
    BY <1>1, <2>1, <2>2, StepType, SameStoreType
    DEF WorkerRaises, CrashWorker, WorkerTypeInv, WorkerTypeOK
<1>2. CASE HeartbeatThread(w)
  <2>1. StoreTypeOK'
    <3>1. CASE Terminal(state)
      BY <1>2, <3>1, SameStoreType DEF HeartbeatThread
    <3>2. CASE ~Terminal(state)
      <4>1. WriteHeartbeat(pid[w])
        BY <1>2, <3>2 DEF HeartbeatThread
      <4>2. pid[w] \in Pids
        BY <4>1 DEF WriteHeartbeat, CanHeartbeat, WorkerClaimIsCurrent, StoreTypeOK, Claims
      <4> QED
        BY <4>1, <4>2, HeartbeatType
    <3> QED
      BY <3>1, <3>2
  <2>2. WorkerTypeInv'
    BY <1>2 DEF HeartbeatThread, WorkerTypeInv, WorkerTypeOK
  <2> QED
    BY <1>2, <2>1, <2>2, SameSupervisorsType DEF HeartbeatThread
<1>3. CASE ChildExits(w)
  <2>1. WorkerTypeInv'
    BY <1>3 DEF ChildExits, WorkerTypeInv, WorkerTypeOK
  <2> QED
    BY <1>3, <2>1, SameStoreType, SameSupervisorsType DEF ChildExits
<1> QED
  BY <1>1, <1>2, <1>3

LEMMA NextTypeInv == TypeInv /\ [Next]_vars => TypeInv'
<1>1. TypeInv /\ Next => TypeInv'
  BY CallType, ReconcileType, WorkerStepType, EnvironmentType DEF Next, Move
<1>2. TypeInv /\ UNCHANGED vars => TypeInv'
  BY DEF vars, storeVars, supVars, workerVars, history, TypeInv, StoreTypeOK, SupervisorTypeInv,
         SupervisorTypeOK, WorkerTypeInv, WorkerTypeOK, OtherTypeOK
<1> QED
  BY <1>1, <1>2

\* Every reachable job directory is one the validators of store.py accept
\* (_validate_state, _validate_claim, _validate_heartbeat), and every process
\* is at one of the positions the model knows.
THEOREM TypeCorrect == Spec => []TypeOK
<1>1. TypeInv /\ site \in Sites => TypeOK
  BY DEF TypeInv, TypeOK, SupervisorTypeInv, WorkerTypeInv, OtherTypeOK
<1>2. Init => site \in Sites
  BY DEF Init
<1>3. site \in Sites /\ [Next]_vars => (site \in Sites)'
  BY DEF Next, vars
<1> QED
  BY <1>1, <1>2, <1>3, InitTypeInv, NextTypeInv, PTL DEF Spec

(***************************************************************************)
(* Who holds the claim                                                     *)
(***************************************************************************)

Known == TERMINAL_JOB_STATUSES \ {"outcome_unknown"}

\* A claim that was written names a wrapper that has started, and its pid.
Written(c) == wpc[c.id] \notin {"unborn", "new"} /\ pid[c.id] = c.pid

\* A wrapper past claim_worker holds the claim until it leaves; a supervisor
\* about to delete a claim knows that its writer is gone.
ClaimInv ==
    /\ claim # None => Written(claim)
    /\ \A s \in Supervisors : seenClaim[s] # None => Written(seenClaim[s])
    /\ \A s \in Supervisors : spc[s] = "clear" => wpc[seenClaim[s].id] \in Gone
    /\ \A w \in Workers : wpc[w] \in Owning => claim # None /\ claim.id = w

\* What a supervisor step that spawns nothing and deletes nothing does to the
\* claims it and the others have read.
LEMMA ClaimsRead ==
    ASSUME TypeInv, ClaimInv, NEW s \in Supervisors,
           UNCHANGED <<claim, wpc, pid>>,
           \A r \in Supervisors \ {s} : spc'[r] = spc[r] /\ seenClaim'[r] = seenClaim[r],
           seenClaim'[s] \in {seenClaim[s], claim, None},
           spc'[s] = "clear" => wpc[seenClaim'[s].id] \in Gone
    PROVE  ClaimInv'
BY SMT DEF ClaimInv, Written

\* A wrapper past claim_worker moves on, or leaves for good.
OwnerStep(w) ==
    /\ wpc[w] \in Owning
    /\ \E pc \in Owning \cup Gone : wpc' = [wpc EXCEPT ![w] = pc]
    /\ UNCHANGED <<claim, pid, spc, seenClaim>>

LEMMA WorkerStepOwns ==
    ASSUME NEW w \in Workers, WorkerStep(w), ~WorkerClaim(w)
    PROVE  OwnerStep(w)
<1> USE DEF Owning, Gone, Step, SameSupervisors, supVars, OwnerStep
<1>1. CASE LeaseStart(w)
  BY <1>1 DEF LeaseStart, WriteHeartbeat, storeVars
<1>2. CASE WriteStarting(w) \/ CancelBeforeLaunch(w) \/ WriteRunning(w)
  BY <1>2 DEF WriteStarting, CancelBeforeLaunch, WriteRunning, TryUpdate, UpdateState, storeVars
<1>3. CASE CheckCancel(w) \/ Popen(w) \/ HandlerLoad(w) \/ HandlerStop(w)
  BY <1>3 DEF CheckCancel, Popen, HandlerLoad, HandlerStop, storeVars
<1>4. CASE CheckClaim(w)
  BY <1>4 DEF CheckClaim, TransitionToOutcomeUnknown, storeVars
<1>5. CASE LoopCancel(w) \/ LoopTimeout(w) \/ LoopChildExited(w)
  BY <1>5 DEF LoopCancel, LoopTimeout, LoopChildExited, EndLoop, storeVars
<1>6. CASE WriteFinal(w)
  BY <1>6 DEF WriteFinal, TryUpdate, UpdateState, storeVars
<1>7. CASE HandlerWrite(w)
  BY <1>7 DEF HandlerWrite, UpdateState, storeVars
<1> QED
  BY <1>1, <1>2, <1>3, <1>4, <1>5, <1>6, <1>7 DEF WorkerStep

LEMMA NextClaimInv == TypeInv /\ ClaimInv /\ [Next]_vars => ClaimInv'
<1> SUFFICES ASSUME TypeInv, ClaimInv, [Next]_vars PROVE ClaimInv'
  OBVIOUS
<1>t. SupervisorTypeOK /\ WorkerTypeOK /\ StoreTypeOK
  BY DEF TypeInv, SupervisorTypeInv, WorkerTypeInv
<1> USE DEF SupervisorTypeOK, WorkerTypeOK
<1>c. /\ claim # None => claim.id \in Workers
      /\ \A r \in Supervisors : seenClaim[r] # None => seenClaim[r].id \in Workers
      /\ \A r \in Supervisors : spc[r] = "clear" => seenClaim[r] # None
  BY <1>t, NoneAssumption DEF StoreTypeOK, Claims, TypeInv, SupervisorTypeInv
<1>1. ASSUME NEW s \in Supervisors, NEW i \in Intents, Start(s, i) PROVE ClaimInv'
  BY <1>1, <1>t, ClaimsRead DEF Start, ReserveProcessJob, Goto, Call, workerVars
<1>2. ASSUME NEW s \in Supervisors, NEW i \in Intents, NEW last, CrashInReserve(s, i, last)
      PROVE ClaimInv'
  BY <1>2, <1>t, ClaimsRead DEF CrashInReserve, ReserveProcessJob, ClaimInv
<1>3. ASSUME NEW s \in Supervisors, Inspect(s) PROVE ClaimInv'
  BY <1>3, <1>t, ClaimsRead, SMT
  DEF Inspect, LoadInto, Finish, Goto, Forget, Call, workerVars, storeVars
<1>4. ASSUME NEW s \in Supervisors, Reattach(s) PROVE ClaimInv'
  BY <1>4, <1>t, ClaimsRead, SMT DEF Reattach, Finish, Goto, Forget, Call, workerVars
<1>5. ASSUME NEW s \in Supervisors, LoadAfterReserve(s) PROVE ClaimInv'
  BY <1>5, <1>t, ClaimsRead, SMT
  DEF LoadAfterReserve, LoadInto, Finish, Goto, Forget, SameWorkers, workerVars, storeVars
<1>6. ASSUME NEW s \in Supervisors, WriteCancelMarker(s) PROVE ClaimInv'
  BY <1>6, <1>t, ClaimsRead DEF WriteCancelMarker, RequestCancel, Goto, workerVars
<1>7. ASSUME NEW s \in Supervisors, NEW a, NEW b, NEW c, ReconcileLaunched(s, a, b, c)
      PROVE ClaimInv'
  BY <1>7, <1>t, ClaimsRead, SMT
  DEF ReconcileLaunched, Return, Finish, Goto, Forget, SameWorkers, workerVars, storeVars
<1>8. ASSUME NEW s \in Supervisors, NEW young, ReconcileQueued(s, young) PROVE ClaimInv'
  BY <1>8, <1>t, ClaimsRead DEF ReconcileQueued, Goto, SameWorkers, workerVars, storeVars
<1>9. ASSUME NEW s \in Supervisors, NEW inGrace, ReadClaim(s, inGrace) PROVE ClaimInv'
  BY <1>9, <1>t, ClaimsRead, SMT
  DEF ReadClaim, Return, Finish, Goto, Forget, SameWorkers, workerVars, storeVars
<1>10. ASSUME NEW s \in Supervisors, NEW alive, NEW waited, ProbePid(s, alive, waited)
       PROVE ClaimInv'
  <2>1. CASE spc'[s] = "clear"
    <3>1. /\ ~PidInUse(seenClaim[s].pid)
          /\ seenClaim'[s] = seenClaim[s] /\ seenClaim[s] \in Claims /\ seenClaim[s] # None
      BY <1>10, <1>t, <2>1, NoneAssumption, SMT
      DEF ProbePid, Return, Finish, Goto, Forget, TypeInv, SupervisorTypeInv, Claims
    <3>2. Written(seenClaim[s]) /\ seenClaim[s].id \in Workers
      BY <3>1 DEF ClaimInv, Claims
    <3>3. wpc[seenClaim[s].id] \in Gone
      BY <1>t, <3>1, <3>2 DEF PidInUse, Alive, Written, WorkerPCs
    <3> QED
      BY <1>10, <1>t, <3>1, <3>3, ClaimsRead
      DEF ProbePid, Return, Finish, Goto, Forget, SameWorkers, workerVars, storeVars
  <2>2. CASE spc'[s] # "clear"
    BY <1>10, <1>t, <2>2, ClaimsRead, SMT
    DEF ProbePid, Return, Finish, Goto, Forget, SameWorkers, workerVars, storeVars
  <2> QED
    BY <2>1, <2>2
<1>11. ASSUME NEW s \in Supervisors, ClearClaim(s) PROVE ClaimInv'
  <2>1. CASE CanClearStaleClaim(seenClaim[s])
    <3>1. \A w \in Workers : wpc[w] \notin Owning
      BY <1>11, <2>1 DEF ClearClaim, CanClearStaleClaim, ClaimInv, Gone, Owning
    <3> QED
      BY <1>11, <1>t, <2>1, <3>1, SMT
      DEF ClearClaim, ClearStaleClaim, Goto, SameWorkers, workerVars, ClaimInv, Written
  <2>2. CASE ~CanClearStaleClaim(seenClaim[s])
    BY <1>11, <1>t, <2>2, ClaimsRead, SMT
    DEF ClearClaim, Return, Finish, Goto, Forget, SameWorkers, workerVars, storeVars
  <2> QED
    BY <2>1, <2>2
<1>12. ASSUME NEW s \in Supervisors, SpawnNothing(s) PROVE ClaimInv'
  BY <1>12, <1>t, ClaimsRead
  DEF SpawnNothing, Finish, Goto, Forget, SameWorkers, workerVars, storeVars
<1>13. ASSUME NEW s \in Supervisors, NEW w \in Workers, NEW p \in Pids, SpawnWorker(s, w, p)
       PROVE ClaimInv'
  <2>1. /\ claim # None => claim.id # w
        /\ \A r \in Supervisors : seenClaim[r] # None => seenClaim[r].id # w
    BY <1>13, <1>t, SMT DEF SpawnWorker, ClaimInv, Written
  <2>2. /\ wpc' = [wpc EXCEPT ![w] = "new"] /\ pid' = [pid EXCEPT ![w] = p] /\ claim' = claim
        /\ spc' = [spc EXCEPT ![s] = "idle"] /\ seenClaim' = [seenClaim EXCEPT ![s] = None]
    BY <1>13 DEF SpawnWorker, Finish, Goto, Forget, storeVars
  <2> QED
    BY <1>t, <1>c, <2>1, <2>2, SMT DEF ClaimInv, Written, Owning, Gone
<1>14. ASSUME NEW s \in Supervisors, NEW fresh, PersistOutcomeUnknown(s, fresh) PROVE ClaimInv'
  BY <1>14, <1>t, ClaimsRead, SMT
  DEF PersistOutcomeUnknown, TransitionToOutcomeUnknown, Return, Finish, Goto, Forget,
      SameWorkers, workerVars
<1>15. ASSUME NEW s \in Supervisors, Close(s) \/ Reopen(s) \/ CrashSupervisor(s) PROVE ClaimInv'
  BY <1>15, <1>t, ClaimsRead, SMT
  DEF Close, Reopen, CrashSupervisor, Finish, Goto, Forget, SameWorkers, workerVars, storeVars,
      ClaimInv
<1>16. ASSUME NEW w \in Workers, OwnerStep(w) PROVE ClaimInv'
  BY <1>16, <1>t, <1>c, SMT DEF OwnerStep, ClaimInv, Written, Owning, Gone
<1>17. ASSUME NEW w \in Workers, WorkerClaim(w) PROVE ClaimInv'
  <2>5. UNCHANGED <<spc, seenClaim, pid>>
    BY <1>17 DEF WorkerClaim, SameSupervisors, supVars
  <2>6. CASE CanClaim
    <3>1. claim = None /\ claim' = [id |-> w, pid |-> pid[w]] /\ wpc' = [wpc EXCEPT ![w] = "lease"]
      BY <1>17, <2>6 DEF WorkerClaim, CanClaim, ClaimWorker, Step
    <3> QED
      BY <1>t, <1>17, <1>c, <2>5, <3>1, NoneAssumption, SMT
      DEF WorkerClaim, ClaimInv, Written, Owning, Gone, Claims, TypeInv, WorkerTypeInv
  <2>7. CASE ~CanClaim
    <3>1. claim' = claim /\ wpc' = [wpc EXCEPT ![w] = "exited"]
      BY <1>17, <2>7 DEF WorkerClaim, Step, storeVars
    <3> QED
      BY <1>t, <1>17, <1>c, <2>5, <3>1, SMT
      DEF WorkerClaim, ClaimInv, Written, Owning, Gone
  <2> QED
    BY <2>6, <2>7
<1>18. ASSUME NEW w \in Workers, WorkerRaises(w) PROVE ClaimInv'
  <2>1. OwnerStep(w)
    BY <1>18 DEF WorkerRaises, Guarded, Owning, Gone, Step, supVars, storeVars, OwnerStep
  <2> QED
    BY <1>16, <2>1
<1>19. ASSUME NEW w \in Workers, CrashWorker(w) PROVE ClaimInv'
  <2>1. wpc' = [wpc EXCEPT ![w] = "crashed"] /\ UNCHANGED <<claim, pid, spc, seenClaim>>
    BY <1>19 DEF CrashWorker, Step, supVars, storeVars
  <2> QED
    BY <1>t, <1>c, <2>1, SMT DEF ClaimInv, Written, Owning, Gone
<1>20. ASSUME NEW w \in Workers, HeartbeatThread(w) \/ ChildExits(w) PROVE ClaimInv'
  <2>1. UNCHANGED <<claim, wpc, pid, spc, seenClaim>>
    BY <1>20 DEF HeartbeatThread, ChildExits, WriteHeartbeat, SameSupervisors, supVars, storeVars
  <2> QED
    BY <2>1 DEF ClaimInv, Written
<1>21. CASE UNCHANGED vars
  BY <1>21 DEF vars, storeVars, supVars, workerVars, ClaimInv, Written
<1>22. CASE \E s \in Supervisors : SupervisorStep(s)
  BY <1>22, <1>5, <1>6, <1>7, <1>8, <1>9, <1>10, <1>11, <1>12, <1>13, <1>14 DEF SupervisorStep
<1>23. CASE \E w \in Workers : WorkerStep(w)
  BY <1>23, <1>16, <1>17, WorkerStepOwns
<1> QED
  BY <1>1, <1>2, <1>3, <1>4, <1>15, <1>18, <1>19, <1>20, <1>21, <1>22, <1>23 DEF Next, Move

(***************************************************************************)
(* What the steps do to the job                                            *)
(***************************************************************************)

\* A supervisor only ever reserves, spawns, deletes the claim of a queued job,
\* asks for cancellation, or gives up.
SupervisorEffect ==
    /\ UNCHANGED <<child, verdict>>
    /\ \/ wpc' = wpc
       \/ \E w \in Workers : wpc[w] = "unborn" /\ wpc' = [wpc EXCEPT ![w] = "new"]
    /\ \/ UNCHANGED claim
       \/ /\ state.status = "queued" /\ claim' = None
          /\ \E s \in Supervisors : spc[s] = "clear" /\ seenClaim[s] = claim
    /\ \/ UNCHANGED state
       \/ state = NoState /\ state' = [NoState EXCEPT !.status = "queued"]
       \/ /\ ~Terminal(state)
          /\ state' = [state EXCEPT !.status = "outcome_unknown",
                          !.reason = IF state.status = "queued"
                                     THEN "worker_heartbeat_lost_before_launch"
                                     ELSE "worker_heartbeat_lost",
                          !.rev = @ + 1]
    /\ \/ UNCHANGED <<cancelMarker, cancelledWhileQueued>>
       \/ /\ cancelMarker' = TRUE /\ UNCHANGED state
          /\ cancelledWhileQueued' = (cancelledWhileQueued \/ state.status = "queued")

SupervisorAction(s) ==
    \/ \E i \in Intents : Start(s, i)
    \/ \E i \in Intents, last \in {"spec", "state"} : CrashInReserve(s, i, last)
    \/ Inspect(s) \/ Reattach(s) \/ SupervisorStep(s)
    \/ Close(s) \/ Reopen(s) \/ CrashSupervisor(s)

LEMMA SupervisorActionEffect ==
    ASSUME TypeInv, NEW s \in Supervisors, SupervisorAction(s)
    PROVE  SupervisorEffect
<1> USE DEF SupervisorEffect, workerVars, storeVars, history, SameWorkers, Call
<1>1. ASSUME NEW i \in Intents, Start(s, i) PROVE SupervisorEffect
  BY <1>1 DEF Start, ReserveProcessJob, EnsureInitialFiles
<1>2. ASSUME NEW i \in Intents, NEW last, CrashInReserve(s, i, last) PROVE SupervisorEffect
  BY <1>2 DEF CrashInReserve, ReserveProcessJob, EnsureInitialFiles
<1>3. CASE Reattach(s)
  BY <1>3 DEF Reattach, EnsureInitialFiles
<1>4. CASE Inspect(s) \/ Close(s) \/ Reopen(s) \/ CrashSupervisor(s)
  BY <1>4 DEF Inspect, Close, Reopen, CrashSupervisor
<1>5. CASE LoadAfterReserve(s) \/ SpawnNothing(s)
  BY <1>5 DEF LoadAfterReserve, SpawnNothing
<1>6. CASE WriteCancelMarker(s)
  BY <1>6 DEF WriteCancelMarker, RequestCancel
<1>7. CASE ClearClaim(s)
  BY <1>7 DEF ClearClaim, ClearStaleClaim, CanClearStaleClaim
<1>8. ASSUME NEW w \in Workers, NEW p \in Pids, SpawnWorker(s, w, p) PROVE SupervisorEffect
  BY <1>8 DEF SpawnWorker
<1>9. ASSUME NEW a, NEW b, NEW c, ReconcileLaunched(s, a, b, c) PROVE SupervisorEffect
  BY <1>9 DEF ReconcileLaunched
<1>10. ASSUME NEW a, NEW b, ReconcileQueued(s, a) \/ ReadClaim(s, a) \/ ProbePid(s, a, b)
       PROVE SupervisorEffect
  BY <1>10 DEF ReconcileQueued, ReadClaim, ProbePid
<1>11. ASSUME NEW fresh, PersistOutcomeUnknown(s, fresh) PROVE SupervisorEffect
  <2>1. UNCHANGED <<claim, cancelMarker, cancelledWhileQueued, wpc, child, verdict>>
    BY <1>11 DEF PersistOutcomeUnknown, TransitionToOutcomeUnknown
  <2>2. CASE UNCHANGED state
    BY <2>1, <2>2
  <2>3. CASE state' # state
    BY <1>11, <2>1, <2>3 DEF PersistOutcomeUnknown, TransitionToOutcomeUnknown, UnknownAllowed
  <2> QED
    BY <2>2, <2>3
<1> QED
  BY <1>1, <1>2, <1>3, <1>4, <1>5, <1>6, <1>7, <1>8, <1>9, <1>10, <1>11
  DEF SupervisorAction, SupervisorStep

(***************************************************************************)
(* When the command runs                                                   *)
(***************************************************************************)

\* Positions of run_worker after the STARTING receipt, and before Popen.
Receipted == {"cancelCheck", "cancelWrite", "claimCheck", "popen", "runWrite", "loop", "final"}
BeforePopen == {"unborn", "new", "lease", "starting", "cancelCheck", "cancelWrite",
                "claimCheck", "popen"}

Unlaunched == {"absent", "queued"}

\* The command belongs to the holder of the claim, comes after the receipt,
\* and no owner is left once a known outcome is recorded.
LaunchInv ==
    /\ \A w \in Workers : child[w] # "none" =>
          claim # None /\ claim.id = w /\ state.status \notin Unlaunched
    /\ \A w \in Workers : wpc[w] \in Receipted => state.status \notin Unlaunched
    /\ \A w \in Workers : wpc[w] \in BeforePopen => child[w] = "none"
    /\ \A w \in Workers : wpc[w] = "handlerWrite" => child[w] \in {"none", "exited"}
    /\ \A w \in Workers : wpc[w] \in Owning => state.status \notin Known
    /\ \A w \in Workers : verdict[w] # "outcome_unknown"
    /\ KnownOutcomeMeansStopped

\* Only one wrapper is past claim_worker.
LEMMA OneOwner ==
    ASSUME ClaimInv, NEW v \in Workers, NEW w \in Workers,
           wpc[v] \in Owning, wpc[w] \in Owning
    PROVE  v = w
BY DEF ClaimInv

\* update_state never takes a job back to queued.
LEMMA UpdateEffect ==
    ASSUME TypeInv, NEW status, NEW p, UpdateState(status, p), status \notin Unlaunched
    PROVE  /\ state.status \notin Unlaunched \/ state.status = "queued"
           /\ state' = [state EXCEPT !.status = status, !.pid = p, !.rev = @ + 1]
           /\ state'.status = status /\ state'.reason = state.reason
           /\ UNCHANGED <<claim, cancelMarker>>
           /\ Terminal(state) => status = state.status
BY DEF TypeInv, StoreTypeOK, States, UpdateState, AllowedTransition, Terminal,
       Unlaunched, JOB_STATUSES, TERMINAL_JOB_STATUSES

LEMMA NextLaunchInv == TypeInv /\ ClaimInv /\ LaunchInv /\ [Next]_vars => LaunchInv'
<1> SUFFICES ASSUME TypeInv, ClaimInv, LaunchInv, [Next]_vars PROVE LaunchInv'
  OBVIOUS
<1>t. WorkerTypeOK /\ state \in States
  BY DEF TypeInv, WorkerTypeInv, StoreTypeOK
<1> USE DEF WorkerTypeOK, LaunchInv, KnownOutcomeMeansStopped, Known
<1>1. ASSUME NEW s \in Supervisors, SupervisorAction(s) PROVE LaunchInv'
  <2>1. SupervisorEffect
    BY <1>1, SupervisorActionEffect
  <2>2. CASE UNCHANGED state
    BY <1>t, <2>1, <2>2, SMT DEF SupervisorEffect, Unlaunched, Receipted, BeforePopen, Owning
  <2>3. CASE state = NoState /\ state' = [NoState EXCEPT !.status = "queued"]
    <3>1. state.status = "absent" /\ state'.status = "queued"
      BY <2>3 DEF NoState
    <3> QED
      BY <1>t, <2>1, <3>1, SMT DEF SupervisorEffect, Unlaunched, Receipted, BeforePopen, Owning,
                              TERMINAL_JOB_STATUSES
  <2>4. CASE state'.status = "outcome_unknown"
    BY <1>t, <2>1, <2>4, SMT
    DEF SupervisorEffect, Unlaunched, Receipted, BeforePopen, Owning, TERMINAL_JOB_STATUSES
  <2> QED
    BY <1>t, <2>1, <2>2, <2>3, <2>4 DEF SupervisorEffect, States
<1>2. ASSUME NEW w \in Workers, WorkerClaim(w) PROVE LaunchInv'
  BY <1>2, <1>t, SMT
  DEF WorkerClaim, CanClaim, ClaimWorker, Step, storeVars, Unlaunched, Receipted, BeforePopen,
      Owning, Gone, TERMINAL_JOB_STATUSES
<1>3. ASSUME NEW w \in Workers, LeaseStart(w) PROVE LaunchInv'
  BY <1>3, <1>t, SMT
  DEF LeaseStart, WriteHeartbeat, Step, storeVars, Unlaunched, Receipted, BeforePopen, Owning, Gone
<1>4. ASSUME NEW w \in Workers, WriteStarting(w) PROVE LaunchInv'
  <2>1. CASE AllowedTransition(state.status, "starting")
    <3>1. state'.status = "starting" /\ claim' = claim
      BY <1>4, <2>1, UpdateEffect DEF WriteStarting, TryUpdate, Unlaunched
    <3> QED
      BY <1>4, <1>t, <2>1, <3>1, SMT
      DEF WriteStarting, TryUpdate, Step, Unlaunched, Receipted, BeforePopen, Owning, Gone,
          TERMINAL_JOB_STATUSES
  <2>2. CASE ~AllowedTransition(state.status, "starting")
    BY <1>4, <1>t, <2>2, SMT
    DEF WriteStarting, TryUpdate, Step, storeVars, Receipted, BeforePopen, Owning, Gone
  <2> QED
    BY <2>1, <2>2
<1>5. ASSUME NEW w \in Workers, CancelBeforeLaunch(w) PROVE LaunchInv'
  <2>1. CASE AllowedTransition(state.status, "cancelled")
    <3>1. state'.status = "cancelled" /\ claim' = claim
      BY <1>5, <2>1, UpdateEffect DEF CancelBeforeLaunch, TryUpdate, Unlaunched
    <3>2. \A v \in Workers : child[v] = "none"
      BY <1>5 DEF CancelBeforeLaunch, ClaimInv, Owning, BeforePopen
    <3>3. \A v \in Workers : wpc'[v] \notin Owning
      BY <1>5, <1>t, <2>1, OneOwner, SMT DEF CancelBeforeLaunch, TryUpdate, Step, Owning
    <3> QED
      BY <1>5, <1>t, <2>1, <3>1, <3>2, <3>3
      DEF CancelBeforeLaunch, TryUpdate, Step, Unlaunched, Receipted, BeforePopen, Owning
  <2>2. CASE ~AllowedTransition(state.status, "cancelled")
    BY <1>5, <1>t, <2>2, SMT
    DEF CancelBeforeLaunch, TryUpdate, Step, storeVars, Receipted, BeforePopen, Owning, Gone
  <2> QED
    BY <2>1, <2>2
<1>6. ASSUME NEW w \in Workers, CheckCancel(w) \/ HandlerLoad(w) PROVE LaunchInv'
  BY <1>6, <1>t, SMT
  DEF CheckCancel, HandlerLoad, Step, storeVars, Unlaunched, Receipted, BeforePopen, Owning, Gone
<1>7. ASSUME NEW w \in Workers, CheckClaim(w) PROVE LaunchInv'
  <2>1. state' = state \/ state'.status = "outcome_unknown"
    BY <1>7, <1>t, ZenonT(30) DEF CheckClaim, TransitionToOutcomeUnknown, States, storeVars
  <2>2. /\ UNCHANGED <<claim, child, verdict>>
        /\ \E pc \in {"popen", "exited"} : wpc' = [wpc EXCEPT ![w] = pc]
    BY <1>7 DEF CheckClaim, TransitionToOutcomeUnknown, Step, storeVars
  <2> QED
    BY <1>7, <1>t, <2>1, <2>2, SMT
    DEF CheckClaim, Unlaunched, Receipted, BeforePopen, Owning, TERMINAL_JOB_STATUSES
<1>8. ASSUME NEW w \in Workers, Popen(w) PROVE LaunchInv'
  BY <1>8, <1>t, SMT
  DEF Popen, Step, storeVars, ClaimInv, Unlaunched, Receipted, BeforePopen, Owning, Gone
<1>9. ASSUME NEW w \in Workers, WriteRunning(w) PROVE LaunchInv'
  <2>1. CASE AllowedTransition(state.status, "running")
    <3>1. state'.status = "running" /\ claim' = claim
      BY <1>9, <2>1, UpdateEffect DEF WriteRunning, TryUpdate, Unlaunched
    <3> QED
      BY <1>9, <1>t, <2>1, <3>1, SMT
      DEF WriteRunning, TryUpdate, Step, Unlaunched, Receipted, BeforePopen, Owning, Gone,
          TERMINAL_JOB_STATUSES
  <2>2. CASE ~AllowedTransition(state.status, "running")
    BY <1>9, <1>t, <2>2, SMT
    DEF WriteRunning, TryUpdate, Step, storeVars, Receipted, BeforePopen, Owning, Gone
  <2> QED
    BY <2>1, <2>2
<1>10. ASSUME NEW w \in Workers, LoopCancel(w) \/ LoopTimeout(w) \/ LoopChildExited(w)
       PROVE LaunchInv'
  <2>1. PICK outcome \in Known : EndLoop(w, outcome)
    BY <1>10 DEF LoopCancel, LoopTimeout, LoopChildExited, TERMINAL_JOB_STATUSES
  <2>2. child[w] # "none" /\ \A v \in Workers \ {w} : child'[v] = child[v]
    BY <1>10, <1>t DEF LoopCancel, LoopTimeout, LoopChildExited, TerminateChild
  <2> QED
    BY <1>t, <2>1, <2>2, SMT
    DEF EndLoop, Step, storeVars, Receipted, BeforePopen, Owning, Gone
<1>11. ASSUME NEW w \in Workers, WriteFinal(w) PROVE LaunchInv'
  <2>1. CASE child[w] = "exited" /\ AllowedTransition(state.status, verdict[w])
    <3>1. verdict[w] \in TERMINAL_JOB_STATUSES
      BY <1>t, <1>11, <2>1 DEF WriteFinal, AllowedTransition, Receipted, Unlaunched, States,
                               JOB_STATUSES, TERMINAL_JOB_STATUSES
    <3>2. state'.status = verdict[w] /\ claim' = claim
      BY <1>11, <2>1, <3>1, UpdateEffect
      DEF WriteFinal, TryUpdate, Unlaunched, TERMINAL_JOB_STATUSES
    <3>3. \A v \in Workers : v # w => child[v] = "none"
      BY <2>1
    <3>4. \A v \in Workers : wpc'[v] \notin Owning
      BY <1>11, <1>t, <2>1, OneOwner DEF WriteFinal, TryUpdate, Step, Owning
    <3>5. /\ wpc' = [wpc EXCEPT ![w] = "exited"] /\ child' = child
          /\ verdict' = [verdict EXCEPT ![w] = "none"]
      BY <1>11, <2>1 DEF WriteFinal, TryUpdate, Step
    <3> QED
      BY <1>t, <2>1, <3>1, <3>2, <3>3, <3>4, <3>5
      DEF Unlaunched, Receipted, BeforePopen, Owning, TERMINAL_JOB_STATUSES
  <2>2. CASE ~(child[w] = "exited" /\ AllowedTransition(state.status, verdict[w]))
    <3>1. /\ \E pc \in {"exited", "handler"} : wpc' = [wpc EXCEPT ![w] = pc]
          /\ UNCHANGED <<state, claim, child>> /\ verdict' = [verdict EXCEPT ![w] = "none"]
      BY <1>11, <2>2 DEF WriteFinal, TryUpdate, Step, storeVars
    <3> QED
      BY <1>11, <1>t, <3>1, SMT DEF WriteFinal, Receipted, BeforePopen, Owning
  <2> QED
    BY <2>1, <2>2
<1>12. ASSUME NEW w \in Workers, HandlerStop(w) PROVE LaunchInv'
  <2>1. /\ \A v \in Workers \ {w} : child'[v] = child[v]
        /\ child[w] = "none" => child'[w] = "none"
        /\ KnownOutcomeMeansStopped'
    BY <1>12, <1>t, SMT DEF HandlerStop, TerminateChild, storeVars, Owning
  <2>2. \E pc \in {"handlerWrite", "failed"} :
           /\ wpc' = [wpc EXCEPT ![w] = pc]
           /\ pc = "handlerWrite" => child'[w] \in {"none", "exited"}
    BY <1>12 DEF HandlerStop, Step
  <2>3. UNCHANGED <<state, claim, verdict>>
    BY <1>12 DEF HandlerStop, storeVars
  <2> QED
    BY <1>12, <1>t, <2>1, <2>2, <2>3, SMT DEF HandlerStop, Receipted, BeforePopen, Owning
<1>13. ASSUME NEW w \in Workers, HandlerWrite(w) PROVE LaunchInv'
  <2>1. /\ wpc' = [wpc EXCEPT ![w] = "failed"] /\ UNCHANGED <<child, verdict>>
        /\ \A v \in Workers : wpc'[v] \notin Owning
    BY <1>13, <1>t, OneOwner DEF HandlerWrite, Step, Owning
  <2>2. \A v \in Workers : child[v] \in {"none", "exited"}
    BY <1>13 DEF HandlerWrite, ClaimInv, Owning
  <2>3. claim' = claim /\ (state' = state \/ state'.status = "failed")
    BY <1>13, UpdateEffect DEF HandlerWrite, Unlaunched, storeVars
  <2> QED
    BY <1>t, <2>1, <2>2, <2>3 DEF Unlaunched, Receipted, BeforePopen, Owning
<1>14. ASSUME NEW w \in Workers, WorkerRaises(w) \/ CrashWorker(w) PROVE LaunchInv'
  BY <1>14, <1>t, SMT
  DEF WorkerRaises, CrashWorker, Guarded, Alive, Step, storeVars, Receipted, BeforePopen,
      Owning, Gone
<1>15. ASSUME NEW w \in Workers, HeartbeatThread(w) PROVE LaunchInv'
  BY <1>15 DEF HeartbeatThread, WriteHeartbeat, storeVars
<1>16. ASSUME NEW w \in Workers, ChildExits(w) PROVE LaunchInv'
  BY <1>16, <1>t DEF ChildExits, storeVars
<1>17. CASE UNCHANGED vars
  BY <1>17 DEF vars, storeVars, workerVars
<1>18. CASE \E w \in Workers : WorkerStep(w)
  BY <1>18, <1>2, <1>3, <1>4, <1>5, <1>6, <1>7, <1>8, <1>9, <1>10, <1>11, <1>12, <1>13
  DEF WorkerStep
<1> QED
  BY <1>1, <1>14, <1>15, <1>16, <1>17, <1>18 DEF Next, Move, SupervisorAction

(***************************************************************************)
(* At most one launch                                                      *)
(***************************************************************************)

JobInv == TypeInv /\ ClaimInv /\ LaunchInv

LEMMA InitJobInv == Init => JobInv
<1> SUFFICES ASSUME Init PROVE JobInv
  OBVIOUS
<1>1. TypeInv
  BY InitTypeInv
<1>2. ClaimInv /\ LaunchInv
  BY DEF Init, StoreInit, NoState, ClaimInv, LaunchInv, Owning, Receipted, KnownOutcomeMeansStopped,
         TERMINAL_JOB_STATUSES, Known
<1> QED
  BY <1>1, <1>2 DEF JobInv

THEOREM JobInvariant == Spec => []JobInv
<1>1. JobInv /\ [Next]_vars => JobInv'
  BY NextTypeInv, NextClaimInv, NextLaunchInv DEF JobInv
<1> QED
  BY <1>1, InitJobInv, PTL DEF Spec

\* However many supervisors race, and whatever crashes and pid reuse happen,
\* no two wrappers launch the user command of a job.
THEOREM OneLaunch == Spec => []AtMostOneLaunch
<1>1. JobInv => AtMostOneLaunch
  BY DEF JobInv, LaunchInv, AtMostOneLaunch
<1> QED
  BY <1>1, JobInvariant, PTL

(***************************************************************************)
(* What a step may never do                                                *)
(***************************************************************************)

LEMMA TerminalStep == JobInv /\ [Next]_vars => (Terminal(state) => state' = state)
<1> SUFFICES ASSUME JobInv, [Next]_vars, Terminal(state) PROVE state' = state
  OBVIOUS
<1> USE DEF JobInv
<1>1. ASSUME NEW s \in Supervisors, SupervisorAction(s) PROVE state' = state
  <2>1. SupervisorEffect
    BY <1>1, SupervisorActionEffect
  <2>2. NoState.status = "absent" /\ state.status # "absent"
    BY DEF NoState, Terminal, TERMINAL_JOB_STATUSES
  <2> QED
    BY <2>1, <2>2 DEF SupervisorEffect
<1>2. ASSUME NEW w \in Workers, wpc[w] \in Owning, NEW status, NEW p, UpdateState(status, p),
             status \in Known \cup {"starting", "running"}
      PROVE  FALSE
  <2>1. status = state.status
    BY <1>2, UpdateEffect DEF Unlaunched, Known, TERMINAL_JOB_STATUSES
  <2> QED
    BY <1>2, <2>1 DEF LaunchInv, Terminal, TERMINAL_JOB_STATUSES
<1>3. ASSUME NEW w \in Workers, NEW pc, NEW status, wpc[w] \in Owning, TryUpdate(w, status, pc),
             status \in Known \cup {"starting", "running"}
      PROVE  state' = state
  BY <1>2, <1>3 DEF TryUpdate, storeVars
<1>4. ASSUME NEW w \in Workers, WriteStarting(w) \/ CancelBeforeLaunch(w) \/ WriteRunning(w)
      PROVE state' = state
  BY <1>3, <1>4, SMT DEF WriteStarting, CancelBeforeLaunch, WriteRunning, Owning, Known,
                    TERMINAL_JOB_STATUSES
<1>5. ASSUME NEW w \in Workers, WriteFinal(w) PROVE state' = state
  <2>1. verdict[w] \in Known \cup {"none"}
    BY DEF TypeInv, WorkerTypeInv, WorkerTypeOK, LaunchInv, Known
  <2>2. verdict[w] = "none" => ~AllowedTransition(state.status, verdict[w])
    BY DEF AllowedTransition, Terminal, TERMINAL_JOB_STATUSES
  <2> QED
    BY <1>3, <1>5, <2>1, <2>2, SMT DEF WriteFinal, TryUpdate, Owning, storeVars
<1>6. ASSUME NEW w \in Workers, HandlerWrite(w) PROVE state' = state
  BY <1>2, <1>6 DEF HandlerWrite, Owning, Known, TERMINAL_JOB_STATUSES, storeVars
<1>7. ASSUME NEW w \in Workers, CheckClaim(w) PROVE state' = state
  BY <1>7 DEF CheckClaim, TransitionToOutcomeUnknown, UnknownAllowed, storeVars
<1>8. ASSUME NEW w \in Workers, WorkerStep(w) PROVE state' = state
  BY <1>4, <1>5, <1>6, <1>7, <1>8
  DEF WorkerStep, WorkerClaim, ClaimWorker, LeaseStart, WriteHeartbeat, CheckCancel, Popen,
      LoopCancel, LoopTimeout, LoopChildExited, EndLoop, HandlerLoad, HandlerStop, storeVars
<1>9. ASSUME NEW w \in Workers,
             WorkerRaises(w) \/ HeartbeatThread(w) \/ ChildExits(w) \/ CrashWorker(w)
      PROVE state' = state
  BY <1>9 DEF WorkerRaises, HeartbeatThread, WriteHeartbeat, ChildExits, CrashWorker, storeVars
<1>10. CASE UNCHANGED vars
  BY <1>10 DEF vars, storeVars
<1> QED
  BY <1>1, <1>8, <1>9, <1>10 DEF Next, Move, SupervisorAction

\* A terminal state.json is never rewritten, not even with the same status.
THEOREM TerminalForever == Spec => TerminalIsFinal
<1>1. JobInv /\ [Next]_vars => [Terminal(state) => state' = state]_vars
  BY TerminalStep
<1> QED
  BY <1>1, JobInvariant, PTL DEF Spec, TerminalIsFinal

(***************************************************************************)
(* A job given up or cancelled before its launch                           *)
(***************************************************************************)

LostQueued == state.reason = "worker_heartbeat_lost_before_launch"

\* Once a queued job is given up no wrapper gets its STARTING receipt; once
\* its marker is written the wrapper with the receipt does not pass the check.
GivenUpInv ==
    /\ LostQueued => /\ state.status = "outcome_unknown"
                     /\ \A w \in Workers : wpc[w] \notin Receipted /\ child[w] = "none"
    /\ cancelledWhileQueued =>
          /\ cancelMarker
          /\ \A w \in Workers : /\ wpc[w] \notin Receipted \ {"cancelCheck", "cancelWrite"}
                                /\ child[w] = "none"

\* What a wrapper's step does to the reason, the marker and its position.
WrapperEffect(w) ==
    /\ UNCHANGED <<cancelMarker, cancelledWhileQueued>>
    /\ LostQueued' => LostQueued
    /\ \E pc : wpc' = [wpc EXCEPT ![w] = pc]
    /\ wpc'[w] \in Receipted /\ wpc[w] \notin Receipted =>
          wpc'[w] = "cancelCheck" /\ AllowedTransition(state.status, "starting")
    /\ wpc'[w] \in Receipted /\ wpc[w] \in {"cancelCheck", "cancelWrite"} =>
          wpc'[w] = wpc[w] \/ ~cancelMarker \/ wpc'[w] = "cancelWrite"
    /\ \A v \in Workers : child'[v] # "none" => child[v] # "none" \/ wpc[v] \in {"popen", "loop"}

LEMMA WrapperStepEffect ==
    ASSUME TypeInv, NEW w \in Workers,
           \/ WorkerStep(w) \/ WorkerRaises(w) \/ HeartbeatThread(w)
           \/ ChildExits(w) \/ CrashWorker(w)
    PROVE  WrapperEffect(w)
<1>t. WorkerTypeOK /\ state \in States
  BY DEF TypeInv, WorkerTypeInv, StoreTypeOK
<1> USE <1>t DEF WrapperEffect, WorkerTypeOK, Receipted, Step, SameSupervisors, history, storeVars
<1>1. CASE WorkerClaim(w) \/ LeaseStart(w)
  BY <1>1 DEF WorkerClaim, ClaimWorker, LeaseStart, WriteHeartbeat, LostQueued
<1>2. CASE WriteStarting(w)
  BY <1>2, ZenonT(30) DEF WriteStarting, TryUpdate, UpdateState, LostQueued, States
<1>3. CASE CheckCancel(w) \/ Popen(w)
  BY <1>3 DEF CheckCancel, Popen, LostQueued
<1>4. CASE CancelBeforeLaunch(w) \/ WriteRunning(w)
  BY <1>4, ZenonT(30)
    DEF CancelBeforeLaunch, WriteRunning, TryUpdate, UpdateState, LostQueued, States
<1>5. CASE CheckClaim(w)
  <2>1. LostQueued' => LostQueued
    BY <1>5 DEF CheckClaim, TransitionToOutcomeUnknown, LostQueued, States
  <2> QED
    BY <1>5, <2>1 DEF CheckClaim, TransitionToOutcomeUnknown
<1>6. CASE LoopCancel(w) \/ LoopTimeout(w) \/ LoopChildExited(w)
  BY <1>6 DEF LoopCancel, LoopTimeout, LoopChildExited, EndLoop, TerminateChild, LostQueued
<1>7. CASE WriteFinal(w) \/ HandlerWrite(w)
  BY <1>7, ZenonT(30) DEF WriteFinal, HandlerWrite, TryUpdate, UpdateState, LostQueued, States
<1>8. CASE HandlerLoad(w) \/ HandlerStop(w)
  BY <1>8 DEF HandlerLoad, HandlerStop, TerminateChild, LostQueued
<1>9. CASE WorkerRaises(w) \/ CrashWorker(w)
  BY <1>9 DEF WorkerRaises, CrashWorker, LostQueued
<1>10. CASE HeartbeatThread(w) \/ ChildExits(w)
  <2>1. wpc' = wpc
    BY <1>10 DEF HeartbeatThread, ChildExits
  <2>2. \E pc : wpc' = [wpc EXCEPT ![w] = pc]
    <3>1. wpc' = [wpc EXCEPT ![w] = wpc[w]]
      BY <2>1
    <3> QED
      BY <3>1
  <2>3. /\ UNCHANGED <<cancelMarker, cancelledWhileQueued, state>>
        /\ \A v \in Workers : child'[v] # "none" => child[v] # "none"
    BY <1>10 DEF HeartbeatThread, WriteHeartbeat, ChildExits
  <2>4. LostQueued' => LostQueued
    BY <2>3 DEF LostQueued
  <2> QED
    BY <2>1, <2>2, <2>3, <2>4
<1> QED
  BY <1>1, <1>2, <1>3, <1>4, <1>5, <1>6, <1>7, <1>8, <1>9, <1>10 DEF WorkerStep

LEMMA NextGivenUpInv == JobInv /\ GivenUpInv /\ [Next]_vars => GivenUpInv'
<1> SUFFICES ASSUME JobInv, GivenUpInv, [Next]_vars PROVE GivenUpInv'
  OBVIOUS
<1>t. TypeInv /\ WorkerTypeOK /\ state \in States
  BY DEF JobInv, TypeInv, WorkerTypeInv, StoreTypeOK
<1>1. ASSUME NEW s \in Supervisors, SupervisorAction(s) PROVE GivenUpInv'
  <2>1. SupervisorEffect
    BY <1>1, <1>t, SupervisorActionEffect
  <2>2. \A w \in Workers : /\ child'[w] = child[w]
                           /\ wpc'[w] \in Receipted => wpc'[w] = wpc[w]
    BY <1>t, <2>1 DEF SupervisorEffect, WorkerTypeOK, Receipted
  <2>3. state.status \in Unlaunched =>
           \A w \in Workers : wpc[w] \notin Receipted /\ child[w] = "none"
    BY DEF JobInv, LaunchInv
  <2>4. LostQueued' => \/ LostQueued /\ state' = state
                       \/ state.status = "queued" /\ state'.status = "outcome_unknown"
    BY <1>t, <2>1 DEF SupervisorEffect, LostQueued, States, NoState, GivenUpInv, Terminal,
                      TERMINAL_JOB_STATUSES
  <2>5. cancelledWhileQueued' =>
           cancelMarker' /\ (cancelledWhileQueued \/ state.status = "queued")
    <3>1. \/ UNCHANGED <<cancelMarker, cancelledWhileQueued>>
          \/ /\ cancelMarker' = TRUE
             /\ cancelledWhileQueued' = (cancelledWhileQueued \/ state.status = "queued")
      BY <2>1 DEF SupervisorEffect
    <3>2. cancelledWhileQueued => cancelMarker
      BY DEF GivenUpInv
    <3>3. CASE UNCHANGED <<cancelMarker, cancelledWhileQueued>>
      BY <3>2, <3>3
    <3>4. CASE /\ cancelMarker' = TRUE
               /\ cancelledWhileQueued' = (cancelledWhileQueued \/ state.status = "queued")
      BY <3>4
    <3> QED
      BY <3>1, <3>3, <3>4
  <2> QED
    BY <2>2, <2>3, <2>4, <2>5 DEF GivenUpInv, Unlaunched
<1>2. ASSUME NEW w \in Workers,
             \/ WorkerStep(w) \/ WorkerRaises(w) \/ HeartbeatThread(w)
             \/ ChildExits(w) \/ CrashWorker(w)
      PROVE GivenUpInv'
  <2>1. WrapperEffect(w)
    BY <1>2, <1>t, WrapperStepEffect
  <2>2. \A v \in Workers \ {w} : wpc'[v] = wpc[v]
    BY <1>t, <2>1 DEF WrapperEffect, WorkerTypeOK
  <2>3. LostQueued =>
           /\ state' = state
           /\ \A v \in Workers : wpc'[v] \notin Receipted /\ child'[v] = "none"
    BY <2>1, <2>2, TerminalStep
    DEF WrapperEffect, GivenUpInv, Terminal, TERMINAL_JOB_STATUSES, AllowedTransition, Receipted
  <2>4. cancelledWhileQueued =>
           /\ cancelMarker'
           /\ \A v \in Workers : /\ wpc'[v] \notin Receipted \ {"cancelCheck", "cancelWrite"}
                                 /\ child'[v] = "none"
    BY <2>1, <2>2 DEF WrapperEffect, GivenUpInv, Receipted
  <2> QED
    BY <2>1, <2>3, <2>4 DEF WrapperEffect, GivenUpInv
<1>3. CASE UNCHANGED vars
  BY <1>3 DEF vars, storeVars, workerVars, history, GivenUpInv, LostQueued
<1> QED
  BY <1>1, <1>2, <1>3 DEF Next, Move, SupervisorAction

\* A recorded status tells the truth about the command: not started while the
\* job is queued or when it was given up or cancelled as queued, not running
\* when the outcome is known.
THEOREM StatusTruthful == Spec => []StatusIsTrue
<1>1. Init => GivenUpInv
  <2> SUFFICES ASSUME Init PROVE GivenUpInv
    OBVIOUS
  <2>1. ~LostQueued
    BY DEF Init, StoreInit, NoState, LostQueued
  <2>2. cancelledWhileQueued = FALSE
    BY DEF Init
  <2> QED
    BY <2>1, <2>2 DEF GivenUpInv
<1>2. JobInv /\ GivenUpInv => StatusIsTrue
  BY DEF JobInv, LaunchInv, GivenUpInv, LostQueued, StatusIsTrue, QueuedNeverLaunched,
         KnownOutcomeMeansStopped, GivenUpNeverLaunched, Unlaunched
<1> QED
  BY <1>1, <1>2, NextGivenUpInv, JobInvariant, PTL DEF Spec

LEMMA ClaimStep ==
    JobInv /\ [Next]_vars =>
        (claim # None /\ claim' # claim => claim' = None /\ ~Alive(claim.id))
<1> SUFFICES ASSUME JobInv, [Next]_vars, claim # None, claim' # claim
             PROVE  claim' = None /\ ~Alive(claim.id)
  OBVIOUS
<1> USE DEF JobInv
<1>1. ASSUME NEW s \in Supervisors, SupervisorAction(s)
      PROVE  claim' = None /\ ~Alive(claim.id)
  BY <1>1, SupervisorActionEffect DEF SupervisorEffect, ClaimInv, Alive, Owning, Gone
<1>2. ASSUME NEW w \in Workers, WorkerStep(w) PROVE FALSE
  BY <1>2, WorkerStepOwns DEF OwnerStep, WorkerClaim, CanClaim, storeVars
<1>3. ASSUME NEW w \in Workers,
             WorkerRaises(w) \/ HeartbeatThread(w) \/ ChildExits(w) \/ CrashWorker(w)
      PROVE FALSE
  BY <1>3 DEF WorkerRaises, HeartbeatThread, WriteHeartbeat, ChildExits, CrashWorker, storeVars
<1>4. CASE UNCHANGED vars
  BY <1>4 DEF vars, storeVars
<1> QED
  BY <1>1, <1>2, <1>3, <1>4 DEF Next, Move, SupervisorAction

\* clear_stale_claim never deletes the claim of a living wrapper, although the
\* pid is probed in an earlier step than the one that deletes.
THEOREM ClaimsOfTheLivingStay == Spec => OnlyDeadClaimsCleared
<1>1. JobInv /\ [Next]_vars =>
        [claim # None /\ claim' # claim => claim' = None /\ ~Alive(claim.id)]_vars
  BY ClaimStep
<1> QED
  BY <1>1, JobInvariant, PTL DEF Spec, OnlyDeadClaimsCleared
=============================================================================
