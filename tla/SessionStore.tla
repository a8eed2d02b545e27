---------------------------- MODULE SessionStore ----------------------------
(***************************************************************************)
(* The lease record and the compare-and-swap of one session in             *)
(* JsonFileSessionStore (memory/qdrant.py; InMemorySessionStore in         *)
(* memory/manager.py is the same protocol).  Every public operation holds  *)
(* the session's file lock, so each is one formula over                    *)
(*                                                                         *)
(*   L   [last, lastOwner, active]: the fencing watermark and the active   *)
(*       lease [owner, token, expires], or None                            *)
(*   C   the owners with a cancellation tombstone                          *)
(*                                                                         *)
(* A refused operation raises: what it returns here is only the condition  *)
(* under which it does not.                                                *)
(***************************************************************************)
EXTENDS Integers, FiniteSetsExt

CONSTANTS
    Owners,     \* logical execution owners (one per root attempt)
    Ttl,        \* lease lifetime, in clock steps
    None        \* JSON null

ASSUME TtlAssumption == Ttl \in Nat \ {0}

ASSUME NoneAssumption == None \notin Owners /\ None \notin Nat

ActiveLeases == [owner : Owners, token : Nat, expires : Nat]

Leases == [last : Nat, lastOwner : Owners \cup {None},
           active : ActiveLeases \cup {None}]

NoLease == [last |-> 0, lastOwner |-> None, active |-> None]

\* The lease is held and its TTL has not elapsed at time t.
Unexpired(L, t) == L.active # None /\ t < L.active.expires

\* _assert_active_lease_unlocked accepts owner o with fencing token k.
Verifies(L, C, t, o, k) ==
    /\ o \notin C
    /\ Unexpired(L, t) /\ L.active.token = k /\ L.active.owner = o

\* acquire_lease does not raise: the owner is not cancelled, the session is
\* at the expected revision, and no other owner holds an unexpired lease.
CanAcquire(L, C, t, o, rev, expected) ==
    /\ o \notin C
    /\ expected \in {None, rev}
    /\ Unexpired(L, t) => L.active.owner = o

NewLease(o, k, t) == [last |-> k, lastOwner |-> o,
                      active |-> [owner |-> o, token |-> k, expires |-> t + Ttl]]

\* acquire_lease: the same owner gets its unexpired lease back, anybody else
\* a fresh lease with the next token.
Acquired(L, t, o) ==
    IF Unexpired(L, t) THEN L ELSE NewLease(o, L.last + 1, t)

\* renew_lease never shortens a lease.
Renewed(L, t) == [L EXCEPT !.active.expires = Max({@, t + Ttl})]

\* release_lease does not raise: releasing the last lease again is harmless.
CanRelease(L, C, t, o, k) ==
    IF L.active = None THEN L.last = k /\ L.lastOwner = o
                       ELSE Verifies(L, C, t, o, k)

Released(L) == [L EXCEPT !.active = None]

\* request_execution_cancel revokes the lease of exactly that owner.
Cancelled(L, o) ==
    IF L.active # None /\ L.active.owner = o THEN Released(L) ELSE L

\* Defect: an unfenced write ignores the active lease.
UnfencedAlways(L, t) == TRUE

\* _ensure_unfenced_write_allowed_unlocked
UnfencedAllowed(L, t) == ~Unexpired(L, t)
=============================================================================
