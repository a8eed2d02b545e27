------------------------------ MODULE JobStore ------------------------------
(***************************************************************************)
(* One job directory of JsonFileJobStore (jobs/store.py).  Every public    *)
(* operation of the store holds the per-job file lock from its first read  *)
(* to its last write, so each is one atomic formula over the files:        *)
(*                                                                         *)
(*   spec          spec.json             the immutable launch intent       *)
(*   state         state.json            status, revision, worker_pid      *)
(*   cursor        cursor.json           exists or not (see JobLogs)       *)
(*   claim         worker-claim.json     which wrapper may launch          *)
(*   heartbeat     heartbeat.json        the liveness lease                *)
(*   cancelMarker  cancel-request.json   exists or not                     *)
(*                                                                         *)
(* A claim_id is a fresh uuid and a wrapper process claims at most once,   *)
(* so the identity of the wrapper stands for the claim_id.  A pid is only  *)
(* an operating-system number that a later wrapper may get again.          *)
(*                                                                         *)
(* Ages of heartbeats, claims and states are wall-clock differences that   *)
(* a paused process or a clock adjustment can make anything: a test of an  *)
(* age against a limit is a Boolean the caller chooses.                    *)
(***************************************************************************)
EXTENDS Integers, FiniteSets

CONSTANTS
    Workers,    \* wrapper processes, numbered in the order they are spawned
    Pids,       \* operating-system process numbers
    Intents,    \* digests of argv, cwd, timeout, log cap
    Profiles,   \* environment-profile digests
    None        \* JSON null, or a file that does not exist

ASSUME WorkersAssumption == Workers \subseteq Nat

ASSUME NoneAssumption == /\ None \notin Nat /\ None \notin Pids
                         /\ None \notin [id : Workers, pid : Pids]

VARIABLES spec, state, cursor, claim, heartbeat, cancelMarker

storeVars == <<spec, state, cursor, claim, heartbeat, cancelMarker>>

TERMINAL_JOB_STATUSES ==
    {"completed", "failed", "timed_out", "cancelled", "outcome_unknown"}

JOB_STATUSES == {"queued", "starting", "running"} \cup TERMINAL_JOB_STATUSES

Reasons == {"", "worker_heartbeat_lost", "worker_heartbeat_lost_before_launch",
            "worker_claim_lost_before_launch"}

Specs == [intent : Intents, profile : Profiles]

States == [status : JOB_STATUSES \cup {"absent"}, rev : Nat,
           pid : Pids \cup {None}, reason : Reasons]

Claims == [id : Workers, pid : Pids]

Heartbeats == [pid : Pids \cup {None}, seq : Nat]

NoState == [status |-> "absent", rev |-> 0, pid |-> None, reason |-> ""]

NoHeartbeat == [pid |-> None, seq |-> 0]

StoreTypeOK ==
    /\ spec \in Specs \cup {None}
    /\ state \in States
    /\ cursor \in BOOLEAN
    /\ claim \in Claims \cup {None}
    /\ heartbeat \in Heartbeats
    /\ cancelMarker \in BOOLEAN

StoreInit ==
    /\ spec = None
    /\ state = NoState
    /\ cursor = FALSE
    /\ claim = None
    /\ heartbeat = NoHeartbeat
    /\ cancelMarker = FALSE

Terminal(st) == st.status \in TERMINAL_JOB_STATUSES

(***************************************************************************)
(* Reservation                                                             *)
(***************************************************************************)

\* Files whose presence means a worker may already have been launched.
LaunchArtifacts == claim # None \/ heartbeat.pid # None \/ cancelMarker

\* The two refusals of _ensure_initial_files.
InitialFilesCorrupt ==
    \/ state = NoState /\ LaunchArtifacts
    \/ /\ ~cursor /\ state # NoState
       /\ state.status # "queued" \/ state.rev # 0 \/ LaunchArtifacts

\* Defect: the cursor is only written together with a new state.json.
EnsureInitialFilesNoRepair(last) ==
    /\ ~InitialFilesCorrupt
    /\ state' = IF state = NoState /\ last # "spec"
                THEN [NoState EXCEPT !.status = "queued"] ELSE state
    /\ cursor' = (cursor \/ (last = "cursor" /\ state = NoState))

\* _ensure_initial_files writes state.json, then cursor.json; `last' is the
\* last file that reaches the disk when the process dies in between.
EnsureInitialFiles(last) ==
    /\ ~InitialFilesCorrupt
    /\ state' = IF state = NoState /\ last # "spec"
                THEN [NoState EXCEPT !.status = "queued"] ELSE state
    /\ cursor' = (cursor \/ last = "cursor")

\* reserve_process_job: bind the key to one intent, then complete the files.
ReserveProcessJob(i, p, last) ==
    /\ spec \in {None, [intent |-> i, profile |-> p]}
    /\ spec' = [intent |-> i, profile |-> p]
    /\ EnsureInitialFiles(last)
    /\ UNCHANGED <<claim, heartbeat, cancelMarker>>

(***************************************************************************)
(* State transitions                                                       *)
(***************************************************************************)

AllowedTransition(current, next) ==
    CASE current = "queued" ->
            next \in {"queued", "starting", "cancelled", "failed", "outcome_unknown"}
      [] current = "starting" ->
            next \in {"starting", "running", "cancelled", "failed", "timed_out",
                      "outcome_unknown"}
      [] current = "running" ->
            next \in {"running"} \cup TERMINAL_JOB_STATUSES
      [] OTHER -> next = current

\* update_state by the wrapper with process number p.
UpdateState(status, p) ==
    /\ AllowedTransition(state.status, status)
    /\ state' = [state EXCEPT !.status = status, !.pid = p, !.rev = @ + 1]
    /\ UNCHANGED <<spec, cursor, claim, heartbeat, cancelMarker>>

\* Defect: the heartbeat sequence number is not compared again.
UnknownAllowedNoSeq(snapshot, expectedClaim, expectedSeq, fresh) ==
    /\ ~Terminal(state)
    /\ state.rev = snapshot.rev
    /\ state.status = snapshot.status
    /\ expectedClaim # None => claim # None /\ claim.id = expectedClaim
    /\ ~fresh

\* The compare part of transition_to_outcome_unknown.  expectedClaim and
\* expectedSeq are None when the caller passes no such expectation; a
\* heartbeat cutoff is passed exactly when a sequence number is, and `fresh'
\* is the outcome of comparing the heartbeat with it.
UnknownAllowed(snapshot, expectedClaim, expectedSeq, fresh) ==
    LET expectedPid == IF state.pid = None /\ expectedClaim # None
                       THEN claim.pid ELSE state.pid
    IN  /\ ~Terminal(state)
        /\ state.rev = snapshot.rev
        /\ state.status = snapshot.status
        /\ expectedClaim # None => claim # None /\ claim.id = expectedClaim
        /\ expectedSeq # None =>
              /\ heartbeat.seq = expectedSeq
              /\ ~(fresh /\ heartbeat.pid = expectedPid)

\* transition_to_outcome_unknown: compare and set, or leave everything alone.
TransitionToOutcomeUnknown(snapshot, reason, expectedClaim, expectedSeq, fresh) ==
    /\ state' = IF UnknownAllowed(snapshot, expectedClaim, expectedSeq, fresh)
                THEN [state EXCEPT !.status = "outcome_unknown",
                                   !.reason = reason, !.rev = @ + 1]
                ELSE state
    /\ UNCHANGED <<spec, cursor, claim, heartbeat, cancelMarker>>

(***************************************************************************)
(* Claim, heartbeat, cancel marker                                         *)
(***************************************************************************)

\* Defect: claim_worker overwrites whatever claim there is.
CanClaimAnytime == TRUE

CanClaim == state.status = "queued" /\ claim = None

\* claim_worker when it returns True.
ClaimWorker(w, p) ==
    /\ CanClaim
    /\ claim' = [id |-> w, pid |-> p]
    /\ UNCHANGED <<spec, state, cursor, heartbeat, cancelMarker>>

\* Defect: the claim is deleted without comparing its claim_id.
CanClearAnyClaim(expected) == state.status = "queued" /\ claim # None

CanClearStaleClaim(expected) ==
    state.status = "queued" /\ claim # None /\ claim = expected

\* clear_stale_claim when it returns True: compare-and-delete one exact claim.
ClearStaleClaim(expected) ==
    /\ CanClearStaleClaim(expected)
    /\ claim' = None
    /\ UNCHANGED <<spec, state, cursor, heartbeat, cancelMarker>>

WorkerClaimIsCurrent(p) == claim # None /\ claim.pid = p

CanHeartbeat(p) ==
    /\ ~Terminal(state)
    /\ WorkerClaimIsCurrent(p)
    /\ state.pid \in {None, p}

\* write_heartbeat when it returns True.
WriteHeartbeat(p) ==
    /\ CanHeartbeat(p)
    /\ heartbeat' = [pid |-> p, seq |-> heartbeat.seq + 1]
    /\ UNCHANGED <<spec, state, cursor, claim, cancelMarker>>

\* request_cancel writes the marker whatever the status is.
RequestCancel ==
    /\ cancelMarker' = TRUE
    /\ UNCHANGED <<spec, state, cursor, claim, heartbeat>>
=============================================================================
