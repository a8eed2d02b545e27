--------------------------- MODULE ExecutionLease ---------------------------
(***************************************************************************)
(* Single-writer execution of one session (execution.py): processes that   *)
(* run inside ExecutionRuntime.scope, each with an ExecutionGuard, its     *)
(* heartbeat thread, a model call in flight, and a child that borrows the  *)
(* guard during a tool batch.  Processes with the same owner id are        *)
(* restarts or duplicates of one attempt.  Unleased writers, those who     *)
(* answer or cancel an interaction, cancellation and crashes run beside    *)
(* them.                                                                   *)
(*                                                                         *)
(*   lease, cancelled, revision   the store (SessionStore)                 *)
(*   checkpoint                   the owner of the session's checkpoint    *)
(*                                and what is left of its interaction      *)
(*   now                          time.time(), shared by the processes     *)
(*   pc[p]        the run: out, run, fetch, batch, childFetch, wait,       *)
(*                ending (an error propagates), done, crashed              *)
(*   guard[p]     [state, token, beating, error]: _state, the fencing      *)
(*                token of _lease, the heartbeat thread, _heartbeat_error  *)
(*   child[p]     _borrow_state of the child's _BorrowedExecutionGuard     *)
(*   snap[p]      the session revision the run last read or wrote          *)
(*   asked[p]     whether that state had an interaction not yet applied    *)
(*   calledAt[p]  history: lease.last when the call in flight was admitted *)
(*   fenced       history: token of the last write under a fence           *)
(***************************************************************************)
EXTENDS SessionStore

CONSTANTS
    Procs,          \* processes running the session
    Sites,          \* deployments: the owner id each process uses, whether the
                    \* wall clock may be set back, and a bound on the writes
    MaxTime,        \* bound on the clock
    MaxToken        \* bound on the leases issued

ASSUME SitesAssumption ==
    Sites \subseteq [owner : [Procs -> Owners], adjustable : BOOLEAN, writes : Nat]

ASSUME BoundsAssumption ==
    MaxTime \in Nat /\ MaxToken \in Nat

VARIABLES site, lease, cancelled, revision, checkpoint, now, fenced,
          pc, guard, child, snap, asked, calledAt

store == <<lease, cancelled, revision, checkpoint, now, fenced>>
vars == <<site, store, pc, guard, child, snap, asked, calledAt>>

OwnerOf == site.owner
Adjustable == site.adjustable
MaxRevision == site.writes

\* A checkpoint that asks has an interaction, open until its receipt is recorded.
Checkpoints == [owner : Owners, asks : {"nothing", "open", "answered"}]

ASSUME CheckpointAssumption == None \notin Checkpoints

Asks(c) == c # None /\ c.asks # "nothing"

NoGuard == [state |-> "none", token |-> 0, beating |-> FALSE, error |-> FALSE]

TypeOK ==
    /\ site \in Sites
    /\ lease \in Leases
    /\ cancelled \subseteq Owners
    /\ revision \in Nat /\ now \in Nat /\ fenced \in Nat
    /\ checkpoint \in Checkpoints \cup {None}
    /\ pc \in [Procs -> {"out", "run", "fetch", "batch", "childFetch", "wait",
                         "ending", "done", "crashed"}]
    /\ guard \in [Procs -> [state : {"none", "active", "waiting"},
                            token : Nat, beating : BOOLEAN, error : BOOLEAN]]
    /\ child \in [Procs -> {"none", "active", "waiting"}]
    /\ snap \in [Procs -> Nat \cup {None}]
    /\ asked \in [Procs -> BOOLEAN]
    /\ calledAt \in [Procs -> Nat]

Init ==
    /\ site \in Sites
    /\ lease = NoLease
    /\ cancelled = {}
    /\ revision = 0 /\ checkpoint = None /\ now = 0 /\ fenced = 0
    /\ pc = [p \in Procs |-> "out"]
    /\ guard = [p \in Procs |-> NoGuard]
    /\ child = [p \in Procs |-> "none"]
    /\ snap = [p \in Procs |-> None]
    /\ asked = [p \in Procs |-> FALSE]
    /\ calledAt = [p \in Procs |-> 0]

(***************************************************************************)
(* The guard                                                               *)
(***************************************************************************)

Goto(p, label) == pc' = [pc EXCEPT ![p] = label]

\* _ensure_active_locked: the guard is usable and its heartbeat is well.
EnsureActive(p) == guard[p].state = "active" /\ ~guard[p].error

\* The store accepts the guard's fence now.
Holds(p) == Verifies(lease, cancelled, now, OwnerOf[p], guard[p].token)

\* Defect: assert_active trusts the guard's own state.
AssertActiveLocal(p) == EnsureActive(p)

\* assert_active
AssertActive(p) == EnsureActive(p) /\ Holds(p)

\* An operation of the run raised: the error propagates out of the scope.
Raise(p) ==
    /\ Goto(p, "ending")
    /\ snap' = [snap EXCEPT ![p] = None]
    /\ asked' = [asked EXCEPT ![p] = FALSE]
    /\ calledAt' = [calledAt EXCEPT ![p] = 0]
    /\ UNCHANGED <<store, guard, child>>

\* The run is over: its memory is gone.
Over(p, label) ==
    /\ Goto(p, label)
    /\ guard' = [guard EXCEPT ![p] = NoGuard]
    /\ child' = [child EXCEPT ![p] = "none"]
    /\ snap' = [snap EXCEPT ![p] = None]
    /\ asked' = [asked EXCEPT ![p] = FALSE]
    /\ calledAt' = [calledAt EXCEPT ![p] = 0]

\* ExecutionRuntime.acquire starts the guard and its heartbeat thread.
Acquire(p) ==
    /\ pc[p] = "out" /\ lease.last < MaxToken
    /\ CanAcquire(lease, cancelled, now, OwnerOf[p], revision, None)
    /\ lease' = Acquired(lease, now, OwnerOf[p])
    /\ guard' = [guard EXCEPT ![p] = [state |-> "active", token |-> lease'.active.token,
                                      beating |-> TRUE, error |-> FALSE]]
    /\ Goto(p, "run")
    /\ UNCHANGED <<cancelled, revision, checkpoint, now, fenced, child, snap, asked, calledAt>>

\* One pass of _heartbeat_loop: renew, or record the error and stop.
Heartbeat(p) ==
    /\ guard[p].beating
    /\ IF Holds(p)
       THEN lease' = Renewed(lease, now) /\ UNCHANGED guard
       ELSE guard' = [guard EXCEPT ![p].beating = FALSE, ![p].error = TRUE] /\ UNCHANGED lease
    /\ UNCHANGED <<cancelled, revision, checkpoint, now, fenced, pc, child, snap, asked, calledAt>>

\* release at the end of the scope: stop the heartbeat, then give an active
\* lease back.  When the store refuses, the scope raises; either way the run
\* is over and nothing uses the guard again.
Release(p) ==
    /\ pc[p] \in {"run", "ending"}
    /\ lease' = IF guard[p].state = "active"
                   /\ CanRelease(lease, cancelled, now, OwnerOf[p], guard[p].token)
                THEN Released(lease) ELSE lease
    /\ Over(p, "done")
    /\ UNCHANGED <<cancelled, revision, checkpoint, now, fenced>>

\* release_for_wait: a run that has asked pauses for the answer without the lease.
ReleaseForWait(p) ==
    /\ pc[p] = "run" /\ snap[p] # None /\ asked[p]
    /\ guard[p].state = "active"
    /\ IF CanRelease(lease, cancelled, now, OwnerOf[p], guard[p].token)
       THEN /\ lease' = Released(lease)
            /\ guard' = [guard EXCEPT ![p].state = "waiting", ![p].beating = FALSE,
                                      ![p].error = FALSE]
            /\ Goto(p, "wait")
       ELSE /\ guard' = [guard EXCEPT ![p].beating = FALSE]
            /\ Goto(p, "ending")
            /\ UNCHANGED lease
    /\ UNCHANGED <<cancelled, revision, checkpoint, now, fenced, child, snap, asked, calledAt>>

\* reacquire with the revision the wait's answer was saved at.
Reacquire(p) ==
    /\ pc[p] = "wait" /\ lease.last < MaxToken
    /\ CanAcquire(lease, cancelled, now, OwnerOf[p], revision, snap[p])
    /\ lease' = Acquired(lease, now, OwnerOf[p])
    /\ lease'.active.token > guard[p].token
    /\ guard' = [guard EXCEPT ![p] = [state |-> "active", token |-> lease'.active.token,
                                      beating |-> TRUE, error |-> FALSE]]
    /\ Goto(p, "run")
    /\ UNCHANGED <<cancelled, revision, checkpoint, now, fenced, child, snap, asked, calledAt>>

\* reacquire raised: revision conflict, another holder, or cancelled.
ReacquireRefused(p) ==
    /\ pc[p] = "wait"
    /\ ~CanAcquire(lease, cancelled, now, OwnerOf[p], revision, snap[p])
    /\ Raise(p)

(***************************************************************************)
(* What the run does under its guard                                       *)
(***************************************************************************)

\* load_session_snapshot
Load(p) ==
    /\ pc[p] = "run"
    /\ snap' = [snap EXCEPT ![p] = revision]
    /\ asked' = [asked EXCEPT ![p] = Asks(checkpoint)]
    /\ UNCHANGED <<store, pc, guard, child, calledAt>>

\* The checkpoint with the receipt of its interaction.
Answered ==
    {c \in Checkpoints : c.asks = "answered" /\ checkpoint = [owner |-> c.owner, asks |-> "open"]}

\* What a run leaves in the session: no checkpoint once it is through, its own,
\* asking or not, when it suspends, and the receipt it was resumed with.
Leaves(p) == {None} \cup [owner : {OwnerOf[p]}, asks : {"nothing", "open"}] \cup Answered

\* A write of p leaves the checkpoint c; p knows the state it wrote.
Wrote(p, c) ==
    /\ revision' = revision + 1
    /\ checkpoint' = c
    /\ snap' = [snap EXCEPT ![p] = revision + 1]
    /\ asked' = [asked EXCEPT ![p] = Asks(c)]

\* Defect: the revision is compared, the fence is not.
SaveFencedUnverified(p) ==
    /\ pc[p] = "run" /\ snap[p] = revision /\ revision < MaxRevision
    /\ Wrote(p, None)
    /\ fenced' = guard[p].token
    /\ UNCHANGED <<lease, cancelled, now, pc, guard, child, calledAt>>

\* save_session_snapshot with the guard's fence: fence and revision are
\* checked in one critical section (save_if_revision_and_fence).
SaveFenced(p) ==
    /\ pc[p] = "run" /\ snap[p] # None /\ revision < MaxRevision
    /\ IF EnsureActive(p) /\ Holds(p) /\ snap[p] = revision
       THEN /\ \E c \in Leaves(p) : Wrote(p, c)
            /\ fenced' = guard[p].token
            /\ UNCHANGED <<lease, cancelled, now, pc, guard, child, calledAt>>
       ELSE Raise(p)

\* renew, called by the run itself.
Renew(p) == EnsureActive(p) /\ Holds(p) /\ lease' = Renewed(lease, now)

\* _GuardedModelIO.fetch_turn, first half: renew, then call the provider.
Fetch(p) ==
    /\ pc[p] = "run"
    /\ IF AssertActive(p)
       THEN /\ Renew(p)
            /\ Goto(p, "fetch")
            /\ calledAt' = [calledAt EXCEPT ![p] = lease.last]
            /\ UNCHANGED <<cancelled, revision, checkpoint, now, fenced, guard, child, snap, asked>>
       ELSE Raise(p)

\* Second half: the answer is returned only if the guard still holds.
FetchReturns(p) ==
    /\ pc[p] = "fetch"
    /\ IF AssertActive(p)
       THEN /\ Goto(p, "run")
            /\ calledAt' = [calledAt EXCEPT ![p] = 0]
            /\ UNCHANGED <<store, guard, child, snap, asked>>
       ELSE Raise(p)

(***************************************************************************)
(* A child run borrows the guard; the parent waits in its tool batch       *)
(***************************************************************************)

\* _borrow_execution_guard
Borrow(p) ==
    /\ pc[p] = "run"
    /\ IF AssertActive(p)
       THEN /\ child' = [child EXCEPT ![p] = "active"]
            /\ Goto(p, "batch")
            /\ UNCHANGED <<store, guard, snap, asked, calledAt>>
       ELSE Raise(p)

\* _BorrowedExecutionGuard.release_for_wait pauses only the view.
ChildWait(p) ==
    /\ pc[p] = "batch" /\ child[p] = "active" /\ AssertActive(p)
    /\ child' = [child EXCEPT ![p] = "waiting"]
    /\ UNCHANGED <<store, pc, guard, snap, asked, calledAt>>

\* _BorrowedExecutionGuard.reacquire
ChildReacquire(p) ==
    /\ pc[p] = "batch" /\ child[p] = "waiting" /\ AssertActive(p)
    /\ child' = [child EXCEPT ![p] = "active"]
    /\ UNCHANGED <<store, pc, guard, snap, asked, calledAt>>

\* fetch_turn of the child, first half: renew through the parent.
ChildFetch(p) ==
    /\ pc[p] = "batch" /\ child[p] = "active" /\ AssertActive(p)
    /\ Renew(p)
    /\ Goto(p, "childFetch")
    /\ calledAt' = [calledAt EXCEPT ![p] = lease.last]
    /\ UNCHANGED <<cancelled, revision, checkpoint, now, fenced, guard, child, snap, asked>>

\* Second half: assert_active of the parent's guard.
ChildFetchReturns(p) ==
    /\ pc[p] = "childFetch" /\ AssertActive(p)
    /\ Goto(p, "batch")
    /\ calledAt' = [calledAt EXCEPT ![p] = 0]
    /\ UNCHANGED <<store, guard, child, snap, asked>>

\* The child ended, well or with any error: its view is released and the
\* parent's tool batch continues.
ChildEnds(p) ==
    /\ pc[p] \in {"batch", "childFetch"}
    /\ child' = [child EXCEPT ![p] = "none"]
    /\ Goto(p, "run")
    /\ calledAt' = [calledAt EXCEPT ![p] = 0]
    /\ UNCHANGED <<store, guard, snap, asked>>

(***************************************************************************)
(* The rest of the world                                                   *)
(***************************************************************************)

\* record_receipt for the answer to p's wait, by the revision p waits at: it is
\* recorded now, or the same answer is found on record.  Either way p goes on with
\* the revision of the state it was given back.
RecordAnswer(p) ==
    /\ pc[p] = "wait" /\ OwnerOf[p] \notin cancelled
    /\ \/ /\ revision < MaxRevision /\ snap[p] = revision
          /\ \E c \in Answered : Wrote(p, c)
       \/ /\ checkpoint = [owner |-> OwnerOf[p], asks |-> "answered"]
          /\ snap' = [snap EXCEPT ![p] = revision]
          /\ asked' = [asked EXCEPT ![p] = TRUE]
          /\ UNCHANGED <<revision, checkpoint>>
    /\ UNCHANGED <<lease, cancelled, now, fenced, pc, guard, child, calledAt>>

\* A write that asks for no lease leaves the checkpoint c.
WriteBeside(c) ==
    /\ revision < MaxRevision
    /\ revision' = revision + 1
    /\ checkpoint' = c
    /\ UNCHANGED <<lease, cancelled, now, fenced, pc, guard, child, snap, asked, calledAt>>

\* record_receipt by anybody, and cancel_pending, which abandons interaction and
\* checkpoint: save_if_revision_and_execution_not_cancelled compares the revision
\* and the tombstone of the checkpoint's owner, and looks at no lease.
Settle ==
    /\ Asks(checkpoint) /\ checkpoint.owner \notin cancelled
    /\ \E c \in Answered \cup {None} : WriteBeside(c)

\* Whoever loads a checkpoint whose owner has a tombstone drops it first
\* (save_if_revision_and_execution_cancelled).
Reconcile ==
    /\ checkpoint # None /\ checkpoint.owner \in cancelled
    /\ WriteBeside(None)

\* save or save_if_revision by code that holds no lease.
SaveUnfenced ==
    /\ UnfencedAllowed(lease, now)
    /\ \E c \in {checkpoint, None} : WriteBeside(c)

\* request_execution_cancel: a tombstone for exactly one owner.  For an owner without
\* a process here it changes nothing that these processes see.
RequestCancel(o) ==
    /\ o \notin cancelled
    /\ cancelled' = cancelled \cup {o}
    /\ lease' = Cancelled(lease, o)
    /\ UNCHANGED <<revision, checkpoint, now, fenced, pc, guard, child, snap, asked, calledAt>>

Crash(p) ==
    /\ pc[p] \notin {"out", "done", "crashed"}
    /\ Over(p, "crashed")
    /\ UNCHANGED store

Tick ==
    /\ now' \in IF Adjustable THEN (0 .. MaxTime) \ {now} ELSE {now + 1} \cap (0 .. MaxTime)
    /\ UNCHANGED <<lease, cancelled, revision, checkpoint, fenced, pc, guard, child, snap, asked,
                   calledAt>>

Step ==
    \/ \E p \in Procs :
          \/ Acquire(p) \/ Heartbeat(p) \/ Release(p)
          \/ ReleaseForWait(p) \/ Reacquire(p) \/ ReacquireRefused(p)
          \/ Load(p) \/ SaveFenced(p) \/ Fetch(p) \/ FetchReturns(p)
          \/ Borrow(p) \/ ChildWait(p) \/ ChildReacquire(p)
          \/ ChildFetch(p) \/ ChildFetchReturns(p) \/ ChildEnds(p)
          \/ RecordAnswer(p) \/ Crash(p)
    \/ Settle \/ Reconcile \/ SaveUnfenced
    \/ \E p \in Procs : RequestCancel(OwnerOf[p])
    \/ Tick

Next == Step /\ UNCHANGED site

Spec == Init /\ [][Next]_vars

(***************************************************************************)
(* Properties                                                              *)
(***************************************************************************)

\* Writes under a fence reach the session in the order of their tokens: a
\* worker that was taken over after its lease expired, was released or was
\* cancelled can never write after its successor did.
FencedInOrder == [][fenced' >= fenced]_vars

\* No lease was issued between the admission of a model call and the return of
\* its answer to the run, or to a child run.
HandsOverOwned ==
    \A p \in Procs :
        (pc[p] = "fetch" /\ pc'[p] = "run") \/ (pc[p] = "childFetch" /\ pc'[p] = "batch")
        => lease.last = calledAt[p]

\* A process of a cancelled owner starts or finishes no model call, writes nothing
\* under a fence and gets no lease.
KeepsStopped ==
    \A p \in Procs : OwnerOf[p] \in cancelled =>
        /\ pc'[p] \in {"fetch", "childFetch", "batch"} => pc'[p] = pc[p]
        /\ fenced' = fenced \/ fenced' # guard[p].token
        /\ guard'[p].token \in {guard[p].token, 0}

\* A model answer is handed on only to a run that owned the execution all the time
\* the call was in flight (assert_active after the model call), and once an owner
\* has a tombstone none of its processes goes on.
AnswerStillOwned == [][HandsOverOwned /\ KeepsStopped]_vars

\* While a run verifiably holds the lease and has written under it, nobody without
\* the fence has changed the session behind its back: what it read or wrote last is
\* still the current revision (other processes of the same owner apart).  The
\* exception is a run that has left an interaction open, or was resumed with one not
\* yet applied: answers and cancellations ask for no lease and overtake it.  A clock
\* that is set back may revive a lease that an unleased writer saw expired.
HolderIsCurrent ==
    /\ TypeOK
    /\ ~Adjustable => \A p \in Procs :
        /\ pc[p] \in {"run", "fetch", "batch", "childFetch"}
        /\ Holds(p) /\ snap[p] # None /\ ~asked[p] /\ fenced = guard[p].token
        /\ \A q \in Procs \ {p} : OwnerOf[q] # OwnerOf[p]
        => snap[p] = revision
=============================================================================
