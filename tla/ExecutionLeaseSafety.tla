----------------------- MODULE ExecutionLeaseSafety -----------------------
(***************************************************************************)
(* Safety of ExecutionLease, for every set of processes and owners, every  *)
(* lease lifetime and every deployment: fenced writes come in the order of *)
(* their tokens, an answer reaches only a run that owned the execution all *)
(* the time, and a run that holds the lease and asks nothing is not        *)
(* overtaken.                                                              *)
(***************************************************************************)
EXTENDS ExecutionLease, TLAPS

\* Most steps need no arithmetic; the ones that do name the SMT solver.
USE Zenon

(***************************************************************************)
(* The lease record                                                        *)
(***************************************************************************)

\* max(expires, now + ttl) is one of the two.
LEMMA MaxOfTwo ==
    ASSUME NEW a \in Nat, NEW b \in Nat
    PROVE  Max({a, b}) \in Nat
<1>1. \E x \in {a, b} : \A y \in {a, b} : x >= y
  <2>1. CASE a >= b
    BY <2>1, SMT
  <2>2. CASE b >= a
    BY <2>2, SMT
  <2>3. QED BY <2>1, <2>2, SMT
<1>2. Max({a, b}) \in {a, b}
  BY <1>1 DEF Max
<1>3. QED BY <1>2

\* renew_lease changes the expiry of the active lease, and nothing else.
LEMMA RenewedLease ==
    ASSUME NEW L \in Leases, L.active # None, NEW t \in Nat
    PROVE  /\ Renewed(L, t) \in Leases
           /\ Renewed(L, t).last = L.last /\ Renewed(L, t).lastOwner = L.lastOwner
           /\ Renewed(L, t).active.token = L.active.token
           /\ Renewed(L, t).active.owner = L.active.owner
<1>1. L.active \in ActiveLeases
  BY DEF Leases
<1>2. Max({L.active.expires, t + Ttl}) \in Nat
  BY <1>1, MaxOfTwo, TtlAssumption, SMT DEF ActiveLeases
<1>3. QED
  BY <1>1, <1>2 DEF Renewed, Leases, ActiveLeases

(***************************************************************************)
(* The inductive invariant                                                 *)
(***************************************************************************)

\* The active lease is the last one issued, and the last fenced write was
\* under a lease that was issued.
LeaseInv ==
    /\ fenced <= lease.last
    /\ lease.active # None =>
          /\ lease.active.token = lease.last /\ lease.last > 0
          /\ lease.active.owner = lease.lastOwner

\* The token of a guard was issued, and the last token belongs to one owner.
GuardInv ==
    \A p \in Procs :
        /\ guard[p].token <= lease.last
        /\ guard[p].token = lease.last /\ lease.last > 0 => lease.lastOwner = OwnerOf[p]
        /\ pc[p] \in {"fetch", "childFetch"} => calledAt[p] = guard[p].token

\* No other process uses the owner id of p: there is no duplicate of its attempt.
Sole(p) == \A q \in Procs \ {p} : OwnerOf[q] # OwnerOf[p]

\* The active lease is p's, whatever the time.
Leased(p) == lease.active # None /\ lease.active.owner = OwnerOf[p]

\* A process without a duplicate that is still alive has its owner's lease only
\* while it works under it.
SoleInv ==
    \A p \in Procs :
        /\ pc[p] = "out" => snap[p] = None
        /\ Sole(p) /\ Leased(p) =>
              \/ pc[p] \in {"done", "crashed"}
              \/ guard[p].token = lease.active.token /\ pc[p] \notin {"out", "wait"}

\* A process that knows the current revision knows whether its state asks.
SnapInv ==
    \A p \in Procs : snap[p] # None =>
        snap[p] <= revision /\ (snap[p] = revision => asked[p] = Asks(checkpoint))

Working == {"run", "fetch", "batch", "childFetch"}

\* p holds the lease, alone of its attempt, and has written under it.
Writer(p) == pc[p] \in Working /\ Holds(p) /\ fenced = guard[p].token /\ Sole(p)

\* The checkpoint is one that nobody may drop while p holds the lease, or it asks.
Guarded(p) == checkpoint = None \/ checkpoint.owner = OwnerOf[p] \/ Asks(checkpoint)

\* What p knows is current, unless it asks.
UpToDate(p) == snap[p] # None /\ ~asked[p] => snap[p] = revision

\* The two, of every process that writes: HolderIsCurrent with what keeps it.
Current == ~Adjustable => \A p \in Procs : Writer(p) => Guarded(p) /\ UpToDate(p)

IInv == TypeOK /\ LeaseInv /\ GuardInv /\ SoleInv /\ SnapInv /\ Current

(***************************************************************************)
(* Types                                                                   *)
(***************************************************************************)

\* A site gives every process an owner.
LEMMA SiteTypes ==
    ASSUME TypeOK
    PROVE  OwnerOf \in [Procs -> Owners]
BY SitesAssumption DEF TypeOK, OwnerOf

\* acquire_lease answers with a well-formed lease.
LEMMA AcquiredType ==
    ASSUME TypeOK, NEW p \in Procs
    PROVE  Acquired(lease, now, OwnerOf[p]) \in Leases
BY SiteTypes, TtlAssumption, SMT DEF TypeOK, Acquired, NewLease, Leases, ActiveLeases

\* release_lease answers with a well-formed lease.
LEMMA ReleasedType ==
    ASSUME NEW L \in Leases
    PROVE  Released(L) \in Leases
BY DEF Released, Leases

Guards == [state : {"none", "active", "waiting"}, token : Nat, beating : BOOLEAN, error : BOOLEAN]

\* The heartbeat of one guard stops, with an error or without one, or the run pauses.
LEMMA GuardStops ==
    ASSUME TypeOK, NEW p \in Procs
    PROVE  /\ [guard EXCEPT ![p].beating = FALSE] \in [Procs -> Guards]
           /\ [guard EXCEPT ![p].beating = FALSE, ![p].error = TRUE] \in [Procs -> Guards]
           /\ [guard EXCEPT ![p].state = "waiting", ![p].beating = FALSE, ![p].error = FALSE]
                 \in [Procs -> Guards]
<1>1. guard \in [Procs -> Guards] /\ guard[p] \in Guards
  BY DEF TypeOK, Guards
<1>2. /\ [guard[p] EXCEPT !.beating = FALSE] \in Guards
      /\ [guard[p] EXCEPT !.beating = FALSE, !.error = TRUE] \in Guards
      /\ [guard[p] EXCEPT !.state = "waiting", !.beating = FALSE, !.error = FALSE] \in Guards
  BY <1>1 DEF Guards
<1>3. QED
  BY <1>1, <1>2

\* What a run leaves in the session is a checkpoint, or none.
LEMMA LeavesTypes ==
    ASSUME TypeOK, NEW p \in Procs
    PROVE  Leaves(p) \subseteq Checkpoints \cup {None} /\ Answered \subseteq Checkpoints
BY SiteTypes DEF Leaves, Answered, Checkpoints

\* Asks is a truth value.
LEMMA AsksType == \A c : Asks(c) \in BOOLEAN
BY DEF Asks

\* A receipt is recorded of a checkpoint that asks, and leaves one that does.
LEMMA AnsweredAsks ==
    ASSUME TypeOK, NEW c \in Answered
    PROVE  Asks(checkpoint) /\ Asks(c)
<1>1. c \in Checkpoints /\ c.asks = "answered" /\ checkpoint = [owner |-> c.owner, asks |-> "open"]
  BY DEF Answered
<1>2. checkpoint.asks = "open"
  BY <1>1
<1>3. checkpoint # None /\ c # None
  <2>1. c.owner \in Owners
    BY <1>1 DEF Checkpoints
  <2>2. checkpoint \in Checkpoints
    BY <1>1, <2>1, SMT DEF Checkpoints
  <2>3. QED BY <1>1, <2>2, CheckpointAssumption
<1>4. QED BY <1>1, <1>2, <1>3, SMT DEF Asks

\* The initial state is well-formed.
LEMMA TypeInit == Init => TypeOK
BY SMT DEF Init, TypeOK, NoLease, Leases, NoGuard

\* Every step keeps the state well-formed.
LEMMA TypeStep == TypeOK /\ [Next]_vars => TypeOK'
<1> SUFFICES ASSUME TypeOK, [Next]_vars PROVE TypeOK'
  OBVIOUS
<1> USE DEF Goto, store, NoGuard
<1>0. CASE UNCHANGED vars
  BY <1>0 DEF vars, TypeOK
<1>1. CASE Step /\ UNCHANGED site
  <2>0. site' = site
    BY <1>1
  <2>1. ASSUME NEW p \in Procs, Acquire(p) PROVE TypeOK'
    <3>1. lease' \in Leases
      BY <2>1, AcquiredType DEF Acquire
    <3>2. lease'.active.token \in Nat
      BY <2>1, SiteTypes, TtlAssumption, SMT
        DEF Acquire, Acquired, NewLease, Leases, ActiveLeases, Unexpired, TypeOK
    <3>3. QED BY <2>0, <2>1, <3>1, <3>2 DEF Acquire, TypeOK
  <2>2. ASSUME NEW p \in Procs, Heartbeat(p) PROVE TypeOK'
    <3>1. CASE Holds(p)
      BY <2>0, <2>2, <3>1, RenewedLease, SMT DEF Heartbeat, Holds, Verifies, Unexpired, TypeOK
    <3>2. CASE ~Holds(p)
      <4>1. guard' \in [Procs -> Guards]
        BY <2>2, <3>2, GuardStops, ZenonT(30) DEF Heartbeat
      <4>2. UNCHANGED <<lease, cancelled, revision, checkpoint, now, fenced, pc, child, snap, asked,
                        calledAt>>
        BY <2>2, <3>2 DEF Heartbeat
      <4>3. QED BY <2>0, <4>1, <4>2, ZenonT(30) DEF Guards, TypeOK
    <3>3. QED BY <3>1, <3>2
  <2>3. ASSUME NEW p \in Procs, Release(p) PROVE TypeOK'
    BY <2>0, <2>3, ReleasedType DEF Release, Over, TypeOK
  <2>4. ASSUME NEW p \in Procs, ReleaseForWait(p) PROVE TypeOK'
    <3>1. guard' \in [Procs -> Guards]
      BY <2>4, GuardStops, ZenonT(30) DEF ReleaseForWait
    <3>2. lease' \in Leases
      BY <2>4, ReleasedType, SMT DEF ReleaseForWait, TypeOK
    <3>3. QED BY <2>0, <2>4, <3>1, <3>2, ZenonT(30) DEF ReleaseForWait, Guards, TypeOK
  <2>5. ASSUME NEW p \in Procs, Reacquire(p) PROVE TypeOK'
    <3>1. lease' \in Leases
      BY <2>5, AcquiredType DEF Reacquire
    <3>2. lease'.active.token \in Nat
      BY <2>5, SiteTypes, TtlAssumption, SMT
        DEF Reacquire, Acquired, NewLease, Leases, ActiveLeases, Unexpired, TypeOK
    <3>3. QED BY <2>0, <2>5, <3>1, <3>2 DEF Reacquire, TypeOK
  <2>6. ASSUME NEW p \in Procs,
               ReacquireRefused(p) \/ Load(p) \/ SaveFenced(p) \/ FetchReturns(p) \/ Borrow(p)
        PROVE  TypeOK'
    <3>1. CASE ReacquireRefused(p) \/ Raise(p)
      <4>1. Raise(p)
        BY <3>1 DEF ReacquireRefused
      <4>2. QED BY <2>0, <4>1 DEF Raise, TypeOK
    <3>2. CASE Load(p)
      BY <2>0, <3>2, AsksType DEF Load, TypeOK
    <3>3. CASE SaveFenced(p) /\ ~Raise(p)
      <4>1. PICK c \in Leaves(p) : Wrote(p, c)
        BY <3>3 DEF SaveFenced
      <4>2. c \in Checkpoints \cup {None} /\ revision + 1 \in Nat /\ guard[p].token \in Nat
        BY <4>1, LeavesTypes, SMT DEF TypeOK
      <4>3. fenced' = guard[p].token /\ UNCHANGED <<lease, cancelled, now, pc, guard, child, calledAt>>
        BY <3>3 DEF SaveFenced
      <4>4. QED BY <2>0, <4>1, <4>2, <4>3, AsksType DEF Wrote, TypeOK
    <3>4. CASE FetchReturns(p) /\ ~Raise(p)
      BY <2>0, <3>4, SMT DEF FetchReturns, TypeOK
    <3>5. CASE Borrow(p) /\ ~Raise(p)
      BY <2>0, <3>5 DEF Borrow, TypeOK
    <3>6. QED BY <2>6, <3>1, <3>2, <3>3, <3>4, <3>5
  <2>7. ASSUME NEW p \in Procs, Fetch(p) \/ ChildFetch(p) PROVE TypeOK'
    <3>1. CASE AssertActive(p)
      <4>1. lease' \in Leases /\ lease.last \in Nat
        BY <2>7, <3>1, RenewedLease, SMT
        DEF Fetch, ChildFetch, Renew, AssertActive, Holds, Verifies, Unexpired, Leases, TypeOK
      <4>2. CASE Fetch(p)
        BY <2>0, <3>1, <4>1, <4>2 DEF Fetch, TypeOK
      <4>3. CASE ChildFetch(p)
        BY <2>0, <3>1, <4>1, <4>3 DEF ChildFetch, TypeOK
      <4>4. QED BY <2>7, <4>2, <4>3
    <3>2. CASE ~AssertActive(p)
      <4>1. Raise(p)
        BY <2>7, <3>2 DEF Fetch, ChildFetch
      <4>2. QED BY <2>0, <4>1 DEF Raise, TypeOK
    <3>3. QED BY <3>1, <3>2
  <2>8. ASSUME NEW p \in Procs,
               ChildWait(p) \/ ChildReacquire(p) \/ ChildFetchReturns(p) \/ ChildEnds(p)
               \/ RecordAnswer(p) \/ Crash(p)
        PROVE  TypeOK'
    <3>1. CASE ChildWait(p) \/ ChildReacquire(p)
      BY <2>0, <3>1 DEF ChildWait, ChildReacquire, TypeOK
    <3>2. CASE ChildFetchReturns(p)
      BY <2>0, <3>2 DEF ChildFetchReturns, TypeOK
    <3>3. CASE ChildEnds(p)
      BY <2>0, <3>3 DEF ChildEnds, TypeOK
    <3>4. CASE RecordAnswer(p)
      <4>1. CASE \E c \in Answered : Wrote(p, c)
        <5>1. PICK c \in Answered : Wrote(p, c)
          BY <4>1
        <5>2. c \in Checkpoints \cup {None} /\ revision + 1 \in Nat
          BY <5>1, LeavesTypes, SMT DEF TypeOK
        <5>3. QED BY <2>0, <3>4, <5>1, <5>2, AsksType DEF RecordAnswer, Wrote, TypeOK
      <4>2. CASE ~\E c \in Answered : Wrote(p, c)
        <5>1. /\ snap' = [snap EXCEPT ![p] = revision] /\ asked' = [asked EXCEPT ![p] = TRUE]
              /\ UNCHANGED <<lease, cancelled, revision, checkpoint, now, fenced, pc, guard, child,
                             calledAt>>
          BY <3>4, <4>2 DEF RecordAnswer
        <5>2. QED BY <2>0, <5>1 DEF TypeOK
      <4>3. QED BY <4>1, <4>2
    <3>5. CASE Crash(p)
      BY <2>0, <3>5 DEF Crash, Over, TypeOK
    <3>6. QED BY <2>8, <3>1, <3>2, <3>3, <3>4, <3>5
  <2>9. CASE Settle \/ Reconcile \/ SaveUnfenced
    <3>1. PICK c \in Answered \cup {None, checkpoint} : WriteBeside(c)
      BY <2>9 DEF Settle, Reconcile, SaveUnfenced
    <3>2. c \in Checkpoints \cup {None} /\ revision + 1 \in Nat
      BY <3>1, SMT DEF Answered, TypeOK
    <3>3. QED BY <2>0, <3>1, <3>2 DEF WriteBeside, TypeOK
  <2>10. ASSUME NEW p \in Procs, RequestCancel(OwnerOf[p]) PROVE TypeOK'
    BY <2>0, <2>10, ReleasedType, SiteTypes, SMT DEF RequestCancel, Cancelled, TypeOK
  <2>11. CASE Tick
    BY <2>0, <2>11, BoundsAssumption, SMT DEF Tick, TypeOK
  <2>12. QED
    BY <1>1, <2>1, <2>2, <2>3, <2>4, <2>5, <2>6, <2>7, <2>8, <2>9, <2>10, <2>11 DEF Step
<1>2. QED BY <1>0, <1>1 DEF Next

(***************************************************************************)
(* Tokens                                                                  *)
(***************************************************************************)

\* acquire_lease gives the owner the lease it has, or the next token.
LEMMA AcquiredLease ==
    ASSUME TypeOK, LeaseInv, NEW p \in Procs, NEW e,
           CanAcquire(lease, cancelled, now, OwnerOf[p], revision, e),
           lease' = Acquired(lease, now, OwnerOf[p])
    PROVE  /\ lease'.active.owner = OwnerOf[p] /\ lease'.lastOwner = OwnerOf[p]
           /\ lease'.active.token = lease'.last
           /\ lease'.last \in Nat /\ lease'.last > 0
           /\ (lease' = lease /\ Leased(p)) \/ lease'.last = lease.last + 1
<1>1. CASE Unexpired(lease, now)
  BY <1>1 DEF Acquired, CanAcquire, Unexpired, Leased, LeaseInv, TypeOK, Leases
<1>2. CASE ~Unexpired(lease, now)
  BY <1>2, SiteTypes, SMT DEF Acquired, NewLease, TypeOK, Leases
<1>3. QED BY <1>1, <1>2

\* What a guard is verified with is the last lease.
LEMMA HolderLast ==
    ASSUME TypeOK, LeaseInv, NEW p \in Procs, Holds(p)
    PROVE  /\ lease.active # None
           /\ lease.active.owner = OwnerOf[p] /\ lease.lastOwner = OwnerOf[p]
           /\ lease.active.token = guard[p].token /\ lease.last = guard[p].token
           /\ lease.last > 0 /\ OwnerOf[p] \notin cancelled
BY DEF Holds, Verifies, Unexpired, LeaseInv

\* What an operation of the store other than acquire_lease does to the lease.
SameTokens ==
    /\ lease'.last = lease.last /\ lease'.lastOwner = lease.lastOwner
    /\ lease'.active # None =>
          /\ lease.active # None
          /\ lease'.active.token = lease.active.token
          /\ lease'.active.owner = lease.active.owner

\* renew_lease issues nothing.
LEMMA RenewedTokens ==
    ASSUME TypeOK, NEW p \in Procs, Holds(p), lease' = Renewed(lease, now)
    PROVE  SameTokens
BY RenewedLease DEF TypeOK, Holds, Verifies, Unexpired, SameTokens

\* release_lease issues nothing.
LEMMA ReleasedTokens ==
    ASSUME TypeOK, lease' = lease \/ lease' = Released(lease)
    PROVE  SameTokens
BY DEF TypeOK, Leases, Released, SameTokens

\* LeaseInv and GuardInv do not look at more than this.
LEMMA TokensKept ==
    ASSUME TypeOK, TypeOK', LeaseInv, GuardInv, SameTokens, site' = site,
           fenced' = fenced,
           \A p \in Procs :
              /\ guard'[p].token \in {guard[p].token, 0}
              /\ pc'[p] \in {"fetch", "childFetch"} => calledAt'[p] = guard'[p].token
    PROVE  LeaseInv' /\ GuardInv'
<1>1. LeaseInv'
  BY DEF LeaseInv, SameTokens, TypeOK, Leases
<1>2. GuardInv'
  BY SMT DEF GuardInv, SameTokens, TypeOK, Leases, OwnerOf
<1>3. QED BY <1>1, <1>2

\* Every step keeps the bounds on the tokens.
LEMMA TokensStep ==
    ASSUME TypeOK, TypeOK', LeaseInv, GuardInv, [Next]_vars
    PROVE  LeaseInv' /\ GuardInv'
<1> USE DEF Goto, store
<1>0. CASE UNCHANGED vars
  BY <1>0 DEF vars, LeaseInv, GuardInv, OwnerOf
<1>1. CASE Step /\ UNCHANGED site
  <2>0. site' = site /\ OwnerOf' = OwnerOf
    BY <1>1 DEF OwnerOf
  <2>1. ASSUME NEW p \in Procs, Acquire(p) \/ Reacquire(p) PROVE LeaseInv' /\ GuardInv'
    <3>1. /\ lease' = Acquired(lease, now, OwnerOf[p])
          /\ \E e : CanAcquire(lease, cancelled, now, OwnerOf[p], revision, e)
          /\ guard'[p].token = lease'.active.token
          /\ \A q \in Procs \ {p} : guard'[q] = guard[q] /\ pc'[q] = pc[q]
          /\ pc'[p] = "run" /\ calledAt' = calledAt /\ fenced' = fenced
      BY <2>1, SMT DEF Acquire, Reacquire, TypeOK
    <3>2. /\ lease'.active.owner = OwnerOf[p] /\ lease'.lastOwner = OwnerOf[p]
          /\ lease'.active.token = lease'.last
          /\ lease'.last \in Nat /\ lease'.last > 0
          /\ (lease' = lease /\ Leased(p)) \/ lease'.last = lease.last + 1
      BY <3>1, AcquiredLease
    <3>3. LeaseInv'
      BY <3>1, <3>2, SMT DEF LeaseInv, TypeOK, Leases
    <3>4. ASSUME NEW q \in Procs
          PROVE  /\ guard'[q].token <= lease'.last
                 /\ guard'[q].token = lease'.last => lease'.lastOwner = OwnerOf[q]
                 /\ pc'[q] \in {"fetch", "childFetch"} => calledAt'[q] = guard'[q].token
      <4>1. CASE q = p
        BY <3>1, <3>2, <4>1, SMT DEF TypeOK, Leases
      <4>2. CASE q # p
        BY <3>1, <3>2, <4>2, SMT DEF GuardInv, TypeOK, Leases
      <4>3. QED BY <4>1, <4>2
    <3>5. QED BY <2>0, <3>3, <3>4 DEF GuardInv
  <2>2. ASSUME NEW p \in Procs, Heartbeat(p) PROVE LeaseInv' /\ GuardInv'
    <3>1. SameTokens
      BY <2>2, RenewedTokens, ReleasedTokens DEF Heartbeat
    <3>2. \A q \in Procs : guard'[q].token = guard[q].token
      BY <2>2, SMT DEF Heartbeat, TypeOK
    <3>3. QED BY <2>0, <2>2, <3>1, <3>2, TokensKept DEF Heartbeat, GuardInv
  <2>3. ASSUME NEW p \in Procs, Release(p) PROVE LeaseInv' /\ GuardInv'
    <3>1. SameTokens
      BY <2>3, ReleasedTokens DEF Release
    <3>2. /\ fenced' = fenced
          /\ \A q \in Procs : /\ guard'[q].token \in {guard[q].token, 0}
                              /\ pc'[q] \in {"fetch", "childFetch"} => calledAt'[q] = guard'[q].token
      BY <2>3, SMT DEF Release, Over, NoGuard, TypeOK, GuardInv
    <3>3. QED BY <2>0, <3>1, <3>2, TokensKept
  <2>4. ASSUME NEW p \in Procs, ReleaseForWait(p) PROVE LeaseInv' /\ GuardInv'
    <3>1. SameTokens
      BY <2>4, ReleasedTokens DEF ReleaseForWait
    <3>2. /\ fenced' = fenced
          /\ \A q \in Procs : /\ guard'[q].token \in {guard[q].token, 0}
                              /\ pc'[q] \in {"fetch", "childFetch"} => calledAt'[q] = guard'[q].token
      BY <2>4, SMT DEF ReleaseForWait, TypeOK, GuardInv
    <3>3. QED BY <2>0, <3>1, <3>2, TokensKept
  <2>5. ASSUME NEW p \in Procs, SaveFenced(p), ~Raise(p) PROVE LeaseInv' /\ GuardInv'
    <3>1. /\ Holds(p) /\ fenced' = guard[p].token
          /\ UNCHANGED <<lease, pc, guard, calledAt>>
      BY <2>5 DEF SaveFenced
    <3>2. QED BY <2>0, <3>1, HolderLast DEF LeaseInv, GuardInv, TypeOK, Leases
  <2>6. ASSUME NEW p \in Procs, Raise(p) PROVE LeaseInv' /\ GuardInv'
    <3>1. SameTokens
      BY <2>6, ReleasedTokens DEF Raise
    <3>2. QED BY <2>0, <2>6, <3>1, TokensKept DEF Raise, GuardInv, TypeOK
  <2>7. ASSUME NEW p \in Procs, Fetch(p) \/ ChildFetch(p), ~Raise(p) PROVE LeaseInv' /\ GuardInv'
    <3>1. Holds(p) /\ lease' = Renewed(lease, now) /\ fenced' = fenced /\ guard' = guard
      BY <2>7 DEF Fetch, ChildFetch, Renew
    <3>2. /\ calledAt' = [calledAt EXCEPT ![p] = lease.last]
          /\ \A q \in Procs \ {p} : pc'[q] = pc[q]
      BY <2>7, SMT DEF Fetch, ChildFetch, TypeOK
    <3>3. SameTokens
      BY <3>1, RenewedTokens
    <3>4. \A q \in Procs : pc'[q] \in {"fetch", "childFetch"} => calledAt'[q] = guard'[q].token
      BY <3>1, <3>2, HolderLast DEF GuardInv, TypeOK
    <3>5. QED BY <2>0, <3>1, <3>3, <3>4, TokensKept
  <2>8. ASSUME NEW p \in Procs,
               \/ Load(p) \/ FetchReturns(p) \/ Borrow(p) \/ ChildWait(p) \/ ChildReacquire(p)
               \/ ChildFetchReturns(p) \/ ChildEnds(p) \/ RecordAnswer(p),
               ~Raise(p)
        PROVE  LeaseInv' /\ GuardInv'
    <3>1. /\ UNCHANGED <<lease, fenced, guard>>
          /\ \A q \in Procs : pc'[q] \in {"fetch", "childFetch"}
                => pc'[q] = pc[q] /\ calledAt'[q] = calledAt[q]
      BY <2>8, SMT
        DEF Load, FetchReturns, Borrow, ChildWait, ChildReacquire, ChildFetchReturns, ChildEnds,
         RecordAnswer, TypeOK
    <3>2. SameTokens
      BY <3>1, ReleasedTokens
    <3>3. QED BY <2>0, <3>1, <3>2, TokensKept DEF GuardInv
  <2>9. ASSUME NEW p \in Procs, Crash(p) PROVE LeaseInv' /\ GuardInv'
    <3>1. SameTokens
      BY <2>9, ReleasedTokens DEF Crash
    <3>2. /\ fenced' = fenced
          /\ \A q \in Procs : /\ guard'[q].token \in {guard[q].token, 0}
                              /\ pc'[q] \in {"fetch", "childFetch"} => calledAt'[q] = guard'[q].token
      BY <2>9, SMT DEF Crash, Over, NoGuard, TypeOK, GuardInv
    <3>3. QED BY <2>0, <3>1, <3>2, TokensKept
  <2>10. CASE Settle \/ Reconcile \/ SaveUnfenced \/ Tick
    <3>1. UNCHANGED <<lease, fenced, guard, pc, calledAt>>
      BY <2>10 DEF Settle, Reconcile, SaveUnfenced, WriteBeside, Tick
    <3>2. QED BY <2>0, <3>1, ReleasedTokens, TokensKept DEF GuardInv
  <2>11. ASSUME NEW p \in Procs, RequestCancel(OwnerOf[p]) PROVE LeaseInv' /\ GuardInv'
    BY <2>0, <2>11, ReleasedTokens, TokensKept DEF RequestCancel, Cancelled, GuardInv
  <2>12. QED
    BY <1>1, <2>1, <2>2, <2>3, <2>4, <2>5, <2>6, <2>7, <2>8, <2>9, <2>10, <2>11
    DEF Step, ReacquireRefused
<1>2. QED BY <1>0, <1>1 DEF Next

(***************************************************************************)
(* A process without a duplicate                                           *)
(***************************************************************************)

\* SoleInv does not look at more than this.
LEMMA SoleKept ==
    ASSUME TypeOK, SoleInv, SameTokens, site' = site,
           \A p \in Procs :
              \/ pc'[p] = pc[p] /\ guard'[p].token = guard[p].token /\ snap'[p] = snap[p]
              \/ pc'[p] \in {"done", "crashed"}
              \/ /\ pc[p] \notin {"out", "done", "crashed"} /\ pc'[p] \notin {"out", "wait"}
                 /\ guard'[p].token = guard[p].token
              \/ pc'[p] = "wait" /\ lease'.active = None
    PROVE  SoleInv'
BY DEF SoleInv, Sole, Leased, SameTokens, OwnerOf

\* Every step keeps SoleInv.
LEMMA SoleStep ==
    ASSUME TypeOK, TypeOK', LeaseInv, GuardInv, SoleInv, [Next]_vars
    PROVE  SoleInv'
<1> USE DEF Goto, store
<1>0. CASE UNCHANGED vars
  BY <1>0 DEF vars, SoleInv, Sole, Leased, OwnerOf
<1>1. CASE Step /\ UNCHANGED site
  <2>0. site' = site /\ OwnerOf' = OwnerOf
    BY <1>1 DEF OwnerOf
  <2>1. ASSUME NEW p \in Procs, Acquire(p) \/ Reacquire(p) PROVE SoleInv'
    <3>1. /\ lease' = Acquired(lease, now, OwnerOf[p])
          /\ \E e : CanAcquire(lease, cancelled, now, OwnerOf[p], revision, e)
          /\ guard'[p].token = lease'.active.token
          /\ \A q \in Procs \ {p} : guard'[q] = guard[q] /\ pc'[q] = pc[q]
          /\ pc'[p] = "run" /\ snap' = snap
      BY <2>1, SMT DEF Acquire, Reacquire, TypeOK
    <3>2. lease'.active.owner = OwnerOf[p]
      BY <3>1, AcquiredLease
    <3>3. QED BY <2>0, <3>1, <3>2 DEF SoleInv, Sole, Leased
  <2>2. ASSUME NEW p \in Procs, Heartbeat(p) PROVE SoleInv'
    <3>1. SameTokens
      BY <2>2, RenewedTokens, ReleasedTokens DEF Heartbeat
    <3>2. \A q \in Procs : guard'[q].token = guard[q].token
      BY <2>2, SMT DEF Heartbeat, TypeOK
    <3>3. QED BY <2>0, <2>2, <3>1, <3>2, SoleKept DEF Heartbeat
  <2>3. ASSUME NEW p \in Procs, Release(p) \/ Crash(p) PROVE SoleInv'
    <3>1. SameTokens
      BY <2>3, ReleasedTokens DEF Release, Crash
    <3>2. /\ pc'[p] \in {"done", "crashed"}
          /\ \A q \in Procs \ {p} : guard'[q] = guard[q] /\ pc'[q] = pc[q] /\ snap'[q] = snap[q]
      BY <2>3, SMT DEF Release, Crash, Over, TypeOK
    <3>3. QED BY <2>0, <3>1, <3>2, SoleKept
  <2>4. ASSUME NEW p \in Procs, ReleaseForWait(p) PROVE SoleInv'
    <3>1. SameTokens
      BY <2>4, ReleasedTokens DEF ReleaseForWait
    <3>2. /\ \/ pc'[p] = "wait" /\ lease'.active = None
             \/ pc'[p] = "ending" /\ guard'[p].token = guard[p].token
          /\ \A q \in Procs \ {p} : guard'[q] = guard[q] /\ pc'[q] = pc[q]
          /\ snap' = snap /\ pc[p] = "run"
      BY <2>4, SMT DEF ReleaseForWait, Released, TypeOK, Leases
    <3>3. QED BY <2>0, <3>1, <3>2, SoleKept
  <2>5. ASSUME NEW p \in Procs, Raise(p), pc[p] \notin {"out", "done", "crashed"} PROVE SoleInv'
    <3>1. SameTokens
      BY <2>5, ReleasedTokens DEF Raise
    <3>2. /\ pc'[p] = "ending" /\ guard' = guard
          /\ \A q \in Procs \ {p} : pc'[q] = pc[q] /\ snap'[q] = snap[q]
      BY <2>5, SMT DEF Raise, TypeOK
    <3>3. QED BY <2>0, <2>5, <3>1, <3>2, SoleKept
  <2>6. ASSUME NEW p \in Procs, Fetch(p) \/ ChildFetch(p), ~Raise(p) PROVE SoleInv'
    <3>1. Holds(p) /\ lease' = Renewed(lease, now) /\ guard' = guard /\ snap' = snap
      BY <2>6 DEF Fetch, ChildFetch, Renew
    <3>2. /\ pc[p] \in {"run", "batch"} /\ pc'[p] \in {"fetch", "childFetch"}
          /\ \A q \in Procs \ {p} : pc'[q] = pc[q]
      BY <2>6, SMT DEF Fetch, ChildFetch, TypeOK
    <3>3. QED BY <2>0, <3>1, <3>2, RenewedTokens, SoleKept
  <2>7. ASSUME NEW p \in Procs,
               \/ Load(p) \/ SaveFenced(p) \/ FetchReturns(p) \/ Borrow(p) \/ ChildWait(p)
               \/ ChildReacquire(p) \/ ChildFetchReturns(p) \/ ChildEnds(p),
               ~Raise(p)
        PROVE  SoleInv'
    <3>1. /\ UNCHANGED <<lease, guard>>
          /\ pc[p] \in {"run", "fetch", "batch", "childFetch"}
          /\ pc'[p] \in {"run", "batch"}
          /\ \A q \in Procs \ {p} : pc'[q] = pc[q] /\ snap'[q] = snap[q]
      BY <2>7, SMT
        DEF Load, SaveFenced, Wrote, FetchReturns, Borrow, ChildWait, ChildReacquire,
         ChildFetchReturns, ChildEnds, TypeOK
    <3>2. SameTokens
      BY <3>1, ReleasedTokens
    <3>3. QED BY <2>0, <3>1, <3>2, SoleKept
  <2>8. ASSUME NEW p \in Procs, RecordAnswer(p) PROVE SoleInv'
    <3>1. UNCHANGED <<lease, pc, guard>> /\ pc[p] = "wait"
      BY <2>8 DEF RecordAnswer
    <3>2. \A q \in Procs \ {p} : snap'[q] = snap[q]
      BY <2>8 DEF RecordAnswer, Wrote, TypeOK
    <3>3. QED BY <2>0, <3>1, <3>2 DEF SoleInv, Sole, Leased
  <2>9. CASE Settle \/ Reconcile \/ SaveUnfenced \/ Tick
    <3>1. UNCHANGED <<lease, pc, guard, snap>>
      BY <2>9 DEF Settle, Reconcile, SaveUnfenced, WriteBeside, Tick
    <3>2. QED BY <2>0, <3>1 DEF SoleInv, Sole, Leased
  <2>10. ASSUME NEW p \in Procs, RequestCancel(OwnerOf[p]) PROVE SoleInv'
    BY <2>0, <2>10, ReleasedTokens, SoleKept DEF RequestCancel, Cancelled
  <2>11. ASSUME NEW p \in Procs,
                \/ ReacquireRefused(p) \/ Load(p) \/ SaveFenced(p) \/ Fetch(p) \/ FetchReturns(p)
                \/ Borrow(p) \/ ChildWait(p) \/ ChildReacquire(p) \/ ChildFetch(p)
                \/ ChildFetchReturns(p) \/ ChildEnds(p)
         PROVE  pc[p] \notin {"out", "done", "crashed"}
    BY <2>11 DEF ReacquireRefused, Load, SaveFenced, Fetch, FetchReturns, Borrow, ChildWait,
       ChildReacquire, ChildFetch, ChildFetchReturns, ChildEnds
  <2>12. QED
    BY <1>1, <2>1, <2>2, <2>3, <2>4, <2>5, <2>6, <2>7, <2>8, <2>9, <2>10, <2>11
    DEF Step, ReacquireRefused
<1>2. QED BY <1>0, <1>1 DEF Next

(***************************************************************************)
(* Revisions                                                               *)
(***************************************************************************)

\* What a process knows of the session stays, is forgotten or is brought up to date.
Knows(q) ==
    \/ snap'[q] = None
    \/ snap'[q] = snap[q] /\ asked'[q] = asked[q]
    \/ snap'[q] = revision /\ asked'[q] = Asks(checkpoint)

\* A step that writes nothing and issues no lease.
Quiet ==
    /\ SameTokens /\ site' = site /\ UNCHANGED <<fenced, revision, checkpoint>>
    /\ \A q \in Procs :
          /\ guard'[q].token \in {guard[q].token, 0}
          /\ Knows(q)
          /\ pc'[q] \in Working => pc[q] \in Working
    /\ cancelled \subseteq cancelled'
    /\ ~Adjustable /\ Unexpired(lease', now') => Unexpired(lease, now)

\* The answer to p's wait is recorded now.
RecordsAnswer(p) == RecordAnswer(p) /\ \E c \in Answered : Wrote(p, c)

\* Only these steps are not quiet.
LEMMA QuietStep ==
    ASSUME TypeOK, TypeOK', LeaseInv, [Next]_vars
    PROVE  \/ Quiet
           \/ \E p \in Procs : \/ Acquire(p) \/ Reacquire(p) \/ RecordsAnswer(p)
                               \/ SaveFenced(p) /\ ~Raise(p)
           \/ Settle \/ Reconcile \/ SaveUnfenced
<1> USE DEF Goto, store, Working, Knows
<1>0. CASE UNCHANGED vars
  <2>1. SameTokens
    BY <1>0, ReleasedTokens DEF vars
  <2>2. QED BY <1>0, <2>1 DEF vars, Quiet
<1>1. CASE Step /\ UNCHANGED site
  <2>0. site' = site
    BY <1>1
  <2>1. ASSUME NEW p \in Procs, Heartbeat(p) PROVE Quiet
    <3>1. SameTokens
      BY <2>1, RenewedTokens, ReleasedTokens DEF Heartbeat
    <3>2. \A q \in Procs : guard'[q].token = guard[q].token
      BY <2>1, SMT DEF Heartbeat, TypeOK
    <3>3. Unexpired(lease', now') => Unexpired(lease, now)
      BY <2>1 DEF Heartbeat, Holds, Verifies
    <3>4. QED BY <2>0, <2>1, <3>1, <3>2, <3>3 DEF Heartbeat, Quiet
  <2>2. ASSUME NEW p \in Procs, Release(p) \/ Crash(p) PROVE Quiet
    <3>1. SameTokens
      BY <2>2, ReleasedTokens DEF Release, Crash
    <3>2. \A q \in Procs :
             /\ guard'[q].token \in {guard[q].token, 0}
             /\ Knows(q)
             /\ pc'[q] \in Working => pc[q] \in Working
      BY <2>2, SMT DEF Release, Crash, Over, NoGuard, TypeOK
    <3>3. /\ UNCHANGED <<fenced, revision, checkpoint, cancelled, now>>
          /\ lease' = lease \/ lease' = Released(lease)
      BY <2>2 DEF Release, Crash
    <3>4. Unexpired(lease', now') => Unexpired(lease, now)
      BY <3>3 DEF Unexpired, Released, TypeOK, Leases
    <3>5. QED BY <2>0, <3>1, <3>2, <3>3, <3>4 DEF Quiet
  <2>3. ASSUME NEW p \in Procs, ReleaseForWait(p) PROVE Quiet
    <3>1. SameTokens
      BY <2>3, ReleasedTokens DEF ReleaseForWait
    <3>2. \A q \in Procs : guard'[q].token = guard[q].token
      BY <2>3, SMT DEF ReleaseForWait, TypeOK
    <3>3. \A q \in Procs : pc'[q] \in Working => pc[q] \in Working
      BY <2>3, SMT DEF ReleaseForWait, TypeOK
    <3>4. /\ UNCHANGED <<snap, asked, fenced, revision, checkpoint, cancelled, now>>
          /\ lease' = lease \/ lease' = Released(lease)
      BY <2>3 DEF ReleaseForWait
    <3>5. Unexpired(lease', now') => Unexpired(lease, now)
      BY <3>4 DEF Unexpired, Released, TypeOK, Leases
    <3>6. QED BY <2>0, <3>1, <3>2, <3>3, <3>4, <3>5 DEF Quiet
  <2>4. ASSUME NEW p \in Procs, Raise(p) PROVE Quiet
    <3>1. SameTokens
      BY <2>4, ReleasedTokens DEF Raise
    <3>2. /\ UNCHANGED <<lease, cancelled, revision, checkpoint, now, fenced, guard>>
          /\ \A q \in Procs : Knows(q) /\ (pc'[q] \in Working => pc[q] \in Working)
      BY <2>4, SMT DEF Raise, TypeOK
    <3>3. QED BY <2>0, <3>1, <3>2 DEF Quiet
  <2>5. ASSUME NEW p \in Procs, Fetch(p) \/ ChildFetch(p), ~Raise(p) PROVE Quiet
    <3>1. /\ Holds(p) /\ lease' = Renewed(lease, now)
          /\ UNCHANGED <<guard, snap, asked, fenced, revision, checkpoint, cancelled, now>>
      BY <2>5 DEF Fetch, ChildFetch, Renew
    <3>2. \A q \in Procs : pc'[q] \in Working => pc[q] \in Working
      BY <2>5 DEF Fetch, ChildFetch, TypeOK
    <3>3. SameTokens /\ Unexpired(lease, now)
      BY <3>1, RenewedTokens DEF Holds, Verifies
    <3>4. QED BY <2>0, <3>1, <3>2, <3>3 DEF Quiet
  <2>6. ASSUME NEW p \in Procs,
               \/ Load(p) \/ FetchReturns(p) \/ Borrow(p) \/ ChildWait(p) \/ ChildReacquire(p)
               \/ ChildFetchReturns(p) \/ ChildEnds(p) \/ RecordAnswer(p),
               ~Raise(p), ~RecordsAnswer(p)
        PROVE  Quiet
    <3>1. UNCHANGED <<lease, guard, fenced, revision, checkpoint, cancelled, now>>
      BY <2>6
        DEF Load, FetchReturns, Borrow, ChildWait, ChildReacquire, ChildFetchReturns, ChildEnds,
         RecordAnswer, RecordsAnswer
    <3>2. \A q \in Procs : pc'[q] # pc[q] => pc[q] \in Working /\ pc'[q] \in {"run", "batch"}
      BY <2>6, SMT
        DEF Load, FetchReturns, Borrow, ChildWait, ChildReacquire, ChildFetchReturns, ChildEnds,
         RecordAnswer, TypeOK
    <3>3. ASSUME RecordAnswer(p) PROVE \A q \in Procs : Knows(q)
      <4>1. /\ snap' = [snap EXCEPT ![p] = revision] /\ asked' = [asked EXCEPT ![p] = TRUE]
            /\ checkpoint = [owner |-> OwnerOf[p], asks |-> "answered"]
        BY <2>6, <3>3 DEF RecordAnswer, RecordsAnswer
      <4>2. checkpoint # None /\ checkpoint.asks = "answered"
        <5>1. OwnerOf[p] \in Owners
          BY SiteTypes
        <5>2. checkpoint \in Checkpoints /\ checkpoint.asks = "answered"
          BY <4>1, <5>1, SMT DEF Checkpoints
        <5>3. QED BY <5>2, CheckpointAssumption
      <4>3. Asks(checkpoint) = TRUE
        BY <4>2, SMT DEF Asks
      <4>4. QED BY <4>1, <4>3 DEF TypeOK
    <3>4. ASSUME ~RecordAnswer(p) PROVE \A q \in Procs : Knows(q)
      BY <2>6, <3>4
        DEF Load, FetchReturns, Borrow, ChildWait, ChildReacquire, ChildFetchReturns, ChildEnds,
         TypeOK
    <3>5. \A q \in Procs : Knows(q)
      BY <3>3, <3>4
    <3>6. SameTokens
      BY <3>1, ReleasedTokens
    <3>7. QED BY <2>0, <3>1, <3>2, <3>5, <3>6 DEF Quiet
  <2>7. CASE Tick
    <3>1. SameTokens
      BY <2>7, ReleasedTokens DEF Tick
    <3>2. ~Adjustable /\ Unexpired(lease', now') => Unexpired(lease, now)
      BY <2>7, SMT DEF Tick, Unexpired, TypeOK, Leases, ActiveLeases
    <3>3. QED BY <2>0, <2>7, <3>1, <3>2 DEF Tick, Quiet
  <2>8. ASSUME NEW p \in Procs, RequestCancel(OwnerOf[p]) PROVE Quiet
    <3>1. SameTokens
      BY <2>8, ReleasedTokens DEF RequestCancel, Cancelled
    <3>2. Unexpired(lease', now') => Unexpired(lease, now)
      BY <2>8 DEF RequestCancel, Cancelled, Unexpired, Released, TypeOK, Leases
    <3>3. QED BY <2>0, <2>8, <3>1, <3>2 DEF RequestCancel, Quiet
  <2>9. QED
    BY <1>1, <2>1, <2>2, <2>3, <2>4, <2>5, <2>6, <2>7, <2>8 DEF Step, ReacquireRefused
<1>2. QED BY <1>0, <1>1 DEF Next

\* A write by somebody else than p, who knew at most the revision it replaced.
LEMMA Outdated ==
    ASSUME TypeOK, SnapInv, NEW p \in Procs, revision' = revision + 1, snap'[p] = snap[p]
    PROVE  snap'[p] # None => snap'[p] <= revision' /\ snap'[p] # revision'
BY SMT DEF TypeOK, SnapInv

\* Every step keeps SnapInv.
LEMMA SnapStep ==
    ASSUME TypeOK, TypeOK', LeaseInv, SnapInv, [Next]_vars
    PROVE  SnapInv'
<1>1. CASE Quiet
  <2>1. ASSUME NEW q \in Procs, snap'[q] # None
        PROVE  snap'[q] <= revision' /\ (snap'[q] = revision' => asked'[q] = Asks(checkpoint'))
    <3>1. Knows(q) /\ revision' = revision /\ checkpoint' = checkpoint
      BY <1>1 DEF Quiet
    <3>2. revision <= revision
      BY SMT DEF TypeOK
    <3>3. QED BY <2>1, <3>1, <3>2 DEF Knows, SnapInv
  <2>2. QED BY <2>1 DEF SnapInv, Asks
<1>2. ASSUME NEW r \in Procs, Acquire(r) \/ Reacquire(r) PROVE SnapInv'
  BY <1>2 DEF Acquire, Reacquire, SnapInv, Asks
<1>3. ASSUME NEW r \in Procs, NEW c, Wrote(r, c) PROVE SnapInv'
  <2>1. /\ revision' = revision + 1 /\ snap' = [snap EXCEPT ![r] = revision + 1]
        /\ asked' = [asked EXCEPT ![r] = Asks(c)] /\ checkpoint' = c
    BY <1>3 DEF Wrote
  <2>2. snap'[r] = revision' /\ asked'[r] = Asks(checkpoint') /\ revision' <= revision'
    BY <2>1, SMT DEF TypeOK
  <2>3. \A q \in Procs \ {r} : snap'[q] = snap[q]
    BY <2>1 DEF TypeOK
  <2>4. ASSUME NEW q \in Procs, snap'[q] # None
        PROVE  snap'[q] <= revision' /\ (snap'[q] = revision' => asked'[q] = Asks(checkpoint'))
    <3>1. CASE q = r
      BY <2>2, <3>1
    <3>2. CASE q # r
      BY <2>1, <2>3, <2>4, <3>2, Outdated
    <3>3. QED BY <3>1, <3>2
  <2>5. QED BY <2>4 DEF SnapInv, Asks
<1>4. ASSUME NEW c, WriteBeside(c) PROVE SnapInv'
  BY <1>4, Outdated DEF WriteBeside, SnapInv
<1>5. QED
  BY <1>1, <1>2, <1>3, <1>4, QuietStep
  DEF RecordsAnswer, SaveFenced, Settle, Reconcile, SaveUnfenced

\* Whoever settles an interaction, or drops the checkpoint of a cancelled attempt,
\* under the lease of p overtakes p only if p knows of the interaction.
LEMMA Overtaken ==
    ASSUME TypeOK, SnapInv, NEW p \in Procs, Guarded(p), UpToDate(p),
           Asks(checkpoint) \/ (checkpoint # None /\ checkpoint.owner # OwnerOf[p]),
           snap'[p] = snap[p], asked'[p] = asked[p], site' = site,
           checkpoint' = None \/ Asks(checkpoint')
    PROVE  Guarded(p)' /\ UpToDate(p)'
<1>1. Asks(checkpoint)
  BY DEF Guarded
<1>2. ~(snap[p] # None /\ ~asked[p])
  BY <1>1 DEF UpToDate, SnapInv
<1>3. Guarded(p)'
  BY DEF Guarded, Asks
<1>4. QED BY <1>2, <1>3 DEF UpToDate

\* Every step keeps Current.
LEMMA CurrentStep ==
    ASSUME TypeOK, TypeOK', LeaseInv, GuardInv, SoleInv, SnapInv, Current, [Next]_vars
    PROVE  Current'
<1> SUFFICES ASSUME ~Adjustable', NEW p \in Procs, Writer(p)'
             PROVE  Guarded(p)' /\ UpToDate(p)'
  BY DEF Current
<1>0. /\ site' = site /\ OwnerOf' = OwnerOf /\ ~Adjustable /\ Sole(p)
      /\ pc'[p] \in Working /\ fenced' = guard'[p].token
  BY DEF Next, vars, OwnerOf, Adjustable, Sole, Writer
<1>h. /\ OwnerOf[p] \notin cancelled' /\ Unexpired(lease', now') /\ lease'.active # None
      /\ lease'.active.token = guard'[p].token /\ lease'.active.owner = OwnerOf[p]
  BY <1>0 DEF Writer, Holds, Verifies, Unexpired
<1>1. CASE Quiet
  <2>1. pc[p] \in Working /\ Unexpired(lease, now) /\ OwnerOf[p] \notin cancelled
    BY <1>0, <1>1, <1>h DEF Quiet
  <2>2. /\ lease.active.token = lease'.active.token /\ lease.active.owner = OwnerOf[p]
        /\ lease.active.token > 0
    BY <1>1, <1>h DEF Quiet, SameTokens, LeaseInv
  <2>3. guard[p].token = guard'[p].token
    <3>1. guard'[p].token = lease.active.token /\ lease.active.token > 0
      BY <1>h, <2>2
    <3>2. guard'[p].token # 0
      BY <3>1, SMT
    <3>3. QED BY <1>1, <3>2 DEF Quiet
  <2>4. Holds(p)
    BY <1>h, <2>1, <2>2, <2>3 DEF Holds, Verifies
  <2>5. fenced = guard[p].token /\ revision' = revision /\ checkpoint' = checkpoint /\ Knows(p)
    BY <1>0, <1>1, <2>3 DEF Quiet
  <2>6. Guarded(p) /\ UpToDate(p)
    BY <1>0, <2>1, <2>4, <2>5 DEF Current, Writer
  <2>7. Guarded(p)'
    BY <1>0, <2>5, <2>6 DEF Guarded, Asks
  <2>8. UpToDate(p)'
    BY <2>5, <2>6 DEF UpToDate, Knows
  <2>9. QED BY <2>7, <2>8
<1>2. ASSUME NEW r \in Procs, Acquire(r) \/ Reacquire(r) PROVE FALSE
  <2>1. /\ lease' = Acquired(lease, now, OwnerOf[r])
        /\ \E e : CanAcquire(lease, cancelled, now, OwnerOf[r], revision, e)
        /\ pc[r] \in {"out", "wait"} /\ fenced' = fenced
    BY <1>2 DEF Acquire, Reacquire
  <2>2. /\ lease'.active.owner = OwnerOf[r] /\ lease'.active.token = lease'.last
        /\ (lease' = lease /\ Leased(r)) \/ lease'.last = lease.last + 1
    BY <2>1, AcquiredLease
  <2>3. p = r
    BY <1>0, <1>h, <2>2 DEF Sole
  <2>4. ~Leased(r)
    BY <1>0, <2>1, <2>3 DEF SoleInv
  <2>5. fenced = lease.last + 1
    BY <1>0, <1>h, <2>1, <2>2, <2>4
  <2>6. QED BY <2>5, SMT DEF LeaseInv, TypeOK, Leases
<1>3. ASSUME NEW r \in Procs, SaveFenced(r), ~Raise(r) PROVE Guarded(p)' /\ UpToDate(p)'
  <2>1. PICK c \in Leaves(r) : Holds(r) /\ Wrote(r, c) /\ lease' = lease
    BY <1>3 DEF SaveFenced
  <2>2. p = r
    BY <1>0, <1>h, <2>1 DEF Sole, Holds, Verifies
  <2>3. c = None \/ c.owner = OwnerOf[p] \/ Asks(c)
    BY <2>1, <2>2, AnsweredAsks DEF Leaves
  <2>4. Guarded(p)'
    BY <1>0, <2>1, <2>3 DEF Guarded, Wrote, Asks
  <2>5. UpToDate(p)'
    BY <2>1, <2>2 DEF UpToDate, Wrote, TypeOK
  <2>6. QED BY <2>4, <2>5
<1>4. ASSUME UNCHANGED <<lease, cancelled, now, fenced, pc, guard>>,
             snap'[p] = snap[p], asked'[p] = asked[p],
             Asks(checkpoint) \/ (checkpoint # None /\ checkpoint.owner \in cancelled),
             checkpoint' = None \/ Asks(checkpoint')
      PROVE  Guarded(p)' /\ UpToDate(p)'
  <2>1. Writer(p)
    BY <1>0, <1>4 DEF Writer, Holds
  <2>2. Guarded(p) /\ UpToDate(p) /\ OwnerOf[p] \notin cancelled
    BY <1>0, <1>h, <1>4, <2>1 DEF Current
  <2>3. QED BY <1>0, <1>4, <2>2, Overtaken
<1>5. ASSUME NEW r \in Procs, RecordsAnswer(r) PROVE Guarded(p)' /\ UpToDate(p)'
  <2>1. PICK c \in Answered : Wrote(r, c)
    BY <1>5 DEF RecordsAnswer
  <2>2. UNCHANGED <<lease, cancelled, now, fenced, pc, guard>> /\ pc[r] = "wait"
    BY <1>5 DEF RecordsAnswer, RecordAnswer
  <2>3. p # r
    BY <1>0, <2>2 DEF Working
  <2>4. Asks(checkpoint) /\ Asks(c)
    BY <2>1, AnsweredAsks
  <2>5. QED BY <1>4, <2>1, <2>2, <2>3, <2>4 DEF Wrote, TypeOK, Asks
<1>6. CASE Settle \/ Reconcile
  <2>1. PICK c \in Answered \cup {None} :
          /\ WriteBeside(c)
          /\ Asks(checkpoint) \/ (checkpoint # None /\ checkpoint.owner \in cancelled)
    BY <1>6 DEF Settle, Reconcile
  <2>2. c = None \/ Asks(c)
    BY <2>1, AnsweredAsks
  <2>3. QED BY <1>4, <2>1, <2>2 DEF WriteBeside, Asks
<1>7. CASE SaveUnfenced
  BY <1>7, <1>h DEF SaveUnfenced, WriteBeside, UnfencedAllowed
<1>8. QED
  BY <1>1, <1>2, <1>3, <1>5, <1>6, <1>7, QuietStep

(***************************************************************************)
(* The theorems                                                            *)
(***************************************************************************)

\* The inductive invariant of the execution lease.
THEOREM LeaseInvariant == Spec => []IInv
<1>1. Init => IInv
  <2>1. Init => TypeOK
    BY TypeInit
  <2>2. Init => LeaseInv /\ GuardInv /\ SoleInv /\ SnapInv
    BY SMT DEF Init, NoLease, NoGuard, LeaseInv, GuardInv, SoleInv, SnapInv, Leased
  <2>3. Init => Current
    BY DEF Init, Current, Writer, Working
  <2>4. QED BY <2>1, <2>2, <2>3 DEF IInv
<1>2. IInv /\ [Next]_vars => IInv'
  <2> SUFFICES ASSUME IInv, [Next]_vars PROVE IInv'
    OBVIOUS
  <2> USE DEF IInv
  <2>1. TypeOK'
    BY TypeStep
  <2>2. LeaseInv' /\ GuardInv'
    BY <2>1, TokensStep
  <2>3. SoleInv'
    BY <2>1, SoleStep
  <2>4. SnapInv'
    BY <2>1, SnapStep
  <2>5. Current'
    BY <2>1, CurrentStep
  <2>6. QED BY <2>1, <2>2, <2>3, <2>4, <2>5
<1>3. QED BY <1>1, <1>2, PTL DEF Spec

\* Writes under a fence reach the session in the order of their tokens, whatever
\* the clock does (save_if_revision_and_fence).
THEOREM WritesInTokenOrder == Spec => FencedInOrder
<1>1. IInv /\ [Next]_vars => [fenced' >= fenced]_vars
  <2> SUFFICES ASSUME IInv, [Next]_vars PROVE [fenced' >= fenced]_vars
    OBVIOUS
  <2> USE DEF IInv
  <2>1. TypeOK' /\ fenced \in Nat
    BY TypeStep DEF TypeOK
  <2>2. CASE fenced' = fenced
    BY <2>1, <2>2, SMT
  <2>3. ASSUME NEW r \in Procs, SaveFenced(r), ~Raise(r) PROVE fenced' >= fenced
    <3>1. Holds(r) /\ fenced' = guard[r].token
      BY <2>3 DEF SaveFenced
    <3>2. QED BY <3>1, HolderLast DEF LeaseInv, TypeOK, Leases
  <2>4. QED
    BY <2>1, <2>2, <2>3, QuietStep
    DEF Quiet, Acquire, Reacquire, RecordsAnswer, RecordAnswer, Settle, Reconcile, SaveUnfenced,
        WriteBeside
<1>2. QED BY <1>1, LeaseInvariant, PTL DEF Spec, FencedInOrder

\* Where a process goes in one step: to or from a call of the model, or into a tool
\* batch, only after assert_active.
LEMMA Moves ==
    ASSUME TypeOK, Step, NEW p \in Procs, pc'[p] # pc[p]
    PROVE  \/ AssertActive(p)
           \/ pc'[p] \in {"ending", "done", "crashed", "wait"}
           \/ pc[p] \in {"out", "wait", "batch", "childFetch"} /\ pc'[p] = "run"
<1> USE DEF Goto, store
<1>1. ASSUME NEW q \in Procs, Acquire(q) \/ Reacquire(q) \/ ChildEnds(q)
      PROVE  pc[p] \in {"out", "wait", "batch", "childFetch"} /\ pc'[p] = "run"
  BY <1>1 DEF Acquire, Reacquire, ChildEnds, TypeOK
<1>2. ASSUME NEW q \in Procs,
             Raise(q) \/ Release(q) \/ ReleaseForWait(q) \/ ReacquireRefused(q) \/ Crash(q)
      PROVE  pc'[p] \in {"ending", "done", "crashed", "wait"}
  BY <1>2 DEF Raise, Release, ReleaseForWait, ReacquireRefused, Crash, Over, TypeOK
<1>3. ASSUME NEW q \in Procs,
             \/ Fetch(q) \/ FetchReturns(q) \/ Borrow(q) \/ ChildFetch(q) \/ ChildFetchReturns(q),
             ~Raise(q)
      PROVE  AssertActive(p)
  <2>1. AssertActive(q) /\ \E label : pc' = [pc EXCEPT ![q] = label]
    BY <1>3 DEF Fetch, FetchReturns, Borrow, ChildFetch, ChildFetchReturns
  <2>2. p = q
    BY <2>1 DEF TypeOK
  <2>3. QED BY <2>1, <2>2
<1>4. ASSUME NEW q \in Procs,
             \/ Heartbeat(q) \/ Load(q) \/ SaveFenced(q) \/ ChildWait(q) \/ ChildReacquire(q)
             \/ RecordAnswer(q),
             ~Raise(q)
      PROVE  FALSE
  BY <1>4 DEF Heartbeat, Load, SaveFenced, ChildWait, ChildReacquire, RecordAnswer
<1>5. CASE \/ Settle \/ Reconcile \/ SaveUnfenced \/ Tick
           \/ \E q \in Procs : RequestCancel(OwnerOf[q])
  BY <1>5 DEF Settle, Reconcile, SaveUnfenced, WriteBeside, Tick, RequestCancel
<1>6. QED BY <1>1, <1>2, <1>3, <1>4, <1>5 DEF Step

\* A model answer is handed on only to a run that owned the execution all the time the
\* call was in flight (assert_active after the model call), and the processes of an
\* owner with a tombstone call no model, write nothing under a fence and get no lease
\* (request_execution_cancel).
THEOREM AnswersOwned == Spec => AnswerStillOwned
<1>1. IInv /\ [Next]_vars => [HandsOverOwned /\ KeepsStopped]_vars
  <2> SUFFICES ASSUME IInv, [Next]_vars, vars' # vars PROVE HandsOverOwned /\ KeepsStopped
    BY DEF vars
  <2> USE DEF IInv
  <2>0. Step
    BY DEF Next
  <2>1. HandsOverOwned
    <3> SUFFICES ASSUME NEW p \in Procs,
                        \/ pc[p] = "fetch" /\ pc'[p] = "run"
                        \/ pc[p] = "childFetch" /\ pc'[p] = "batch"
                 PROVE  lease.last = calledAt[p]
      BY DEF HandsOverOwned
    <3>1. AssertActive(p)
      BY <2>0, Moves
    <3>2. lease.last = guard[p].token
      BY <3>1, HolderLast DEF AssertActive
    <3>3. QED BY <3>2 DEF GuardInv
  <2>2. ASSUME NEW p \in Procs, OwnerOf[p] \in cancelled,
               pc'[p] \in {"fetch", "childFetch", "batch"}
        PROVE  pc'[p] = pc[p]
    <3>1. ~AssertActive(p)
      BY <2>2 DEF AssertActive, Holds, Verifies
    <3>2. QED BY <2>0, <2>2, <3>1, Moves
  <2>3. ASSUME NEW p \in Procs, OwnerOf[p] \in cancelled
        PROVE  fenced' = fenced \/ fenced' # guard[p].token
    <3>1. ASSUME NEW r \in Procs, SaveFenced(r), ~Raise(r) PROVE fenced' # guard[p].token
      <4>1. Holds(r) /\ fenced' = guard[r].token
        BY <3>1 DEF SaveFenced
      <4>2. fenced' = lease.last /\ lease.last > 0 /\ lease.lastOwner # OwnerOf[p]
        BY <2>3, <4>1, HolderLast
      <4>3. QED BY <4>2 DEF GuardInv
    <3>2. QED
      BY <3>1, TypeStep, QuietStep
      DEF Quiet, Acquire, Reacquire, RecordsAnswer, RecordAnswer, Settle, Reconcile, SaveUnfenced,
          WriteBeside
  <2>4. ASSUME NEW p \in Procs, OwnerOf[p] \in cancelled
        PROVE  guard'[p].token \in {guard[p].token, 0}
    <3>1. ASSUME NEW r \in Procs, Acquire(r) \/ Reacquire(r)
          PROVE  guard'[p] = guard[p]
      <4>1. OwnerOf[r] \notin cancelled /\ \E g : guard' = [guard EXCEPT ![r] = g]
        BY <3>1 DEF Acquire, Reacquire, CanAcquire
      <4>2. QED BY <2>4, <4>1 DEF TypeOK
    <3>2. ASSUME NEW r \in Procs,
                 \/ (SaveFenced(r) /\ ~Raise(r)) \/ RecordsAnswer(r)
                 \/ Settle \/ Reconcile \/ SaveUnfenced
          PROVE  guard' = guard
      BY <3>2 DEF SaveFenced, RecordsAnswer, RecordAnswer, Settle, Reconcile, SaveUnfenced, WriteBeside
    <3>3. QED
      BY <3>1, <3>2, TypeStep, QuietStep DEF Quiet
  <2>5. QED BY <2>1, <2>2, <2>3, <2>4 DEF KeepsStopped
<1>2. QED BY <1>1, LeaseInvariant, PTL DEF Spec, AnswerStillOwned

\* While a run verifiably holds the lease of an attempt without a duplicate, has
\* written under it and left no interaction open, nobody else has changed the session:
\* unleased writers are refused (_ensure_unfenced_write_allowed), and receipts and
\* cancellations, which ask for no lease (save_if_revision_and_execution_not_cancelled),
\* have nothing to settle.
THEOREM HolderNotOvertaken == Spec => []HolderIsCurrent
<1>1. IInv => HolderIsCurrent
  BY DEF IInv, Current, Writer, UpToDate, HolderIsCurrent, Sole, Working
<1>2. QED BY <1>1, LeaseInvariant, PTL
===========================================================================
