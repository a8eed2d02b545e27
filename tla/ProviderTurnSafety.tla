------------------------- MODULE ProviderTurnSafety -------------------------
(***************************************************************************)
(* Safety of ProviderTurn, for every set of processes, requests, sites and *)
(* retry budgets: one envelope and one send per subject, one result, a     *)
(* retry only after the recorded failure before it, and a ledger that      *)
(* accounts for every send.                                                *)
(***************************************************************************)
EXTENDS ProviderTurn, TLAPS

\* Most steps need no arithmetic; the ones that do name the SMT solver.
USE Zenon

(***************************************************************************)
(* The inductive invariant                                                 *)
(***************************************************************************)

\* Where a call is: making its request durable, looking at a subject, owning
\* the lease it claimed, or handling a subject that is settled.
Preparing == {"catalog", "put_catalog", "wire", "put_wire", "append_wire"}
Looking == {"lease", "result", "claim"}
Owning == {"send", "sent", "persist", "fail", "doubt", "doubt_notify"}
Walking == Looking \union Owning \union {"notify", "complete", "return"}
Points == {"idle"} \union Preparing \union Walking

\* Positions after the request was sent.
AfterSend == {"sent", "persist", "fail", "doubt_notify", "notify"}

Modes == {"off"} \union UNION {s.modes : s \in Sites}

CallTypes == [st : Points, mode : Modes, req : Requests \union {None}, max : 0..MaxOrdinal,
              route : Routes, ord : 0..MaxOrdinal, lease : Leases, prev : Leases,
              live : BOOLEAN]

TypeInv ==
    /\ TypeOK
    /\ call \in [Procs -> CallTypes]
    /\ \A p \in Procs : ~At(p, "idle") => call[p].req \in Requests

\* What a lease that was ever written looks like.
LeaseFit(l) == l \in {NoLease, Started(1), Started(2)} \/ l.status \in {"failed", "completed"}

\* A failed subject that allows a retry, and one that allows the fallback.
Retried(l) == l.status = "failed" /\ MayRetry(l)
FellBack(l) == l.status = "failed" /\ l.class = "fallback"

\* The subject <<r, route, n>> may be tried: everything before it failed.
Earned(r, route, n) ==
    /\ \A j \in 0..MaxOrdinal : j < n => Retried(lease[<<r, route, j>>])
    /\ route = "fallback" => FellBack(lease[<<r, "primary", 0>>])

\* One envelope: the artifact binds the receipts, and they bind the leases.
WireInv ==
    /\ \A r \in wires : wireBytes = r
    /\ \A p \in Procs : At(p, "append_wire") => wireBytes = call[p].req
    /\ \A p \in Procs : call[p].st \in Walking => wires = {call[p].req}
    /\ \A s \in Subjects : lease[s] # NoLease => wires = {s[1]}

\* What a process knows of the subject it is at.
WalkOk(p) ==
    /\ call[p].st \in Preparing => call[p].route = "primary" /\ call[p].ord = 0
    /\ call[p].st \in Walking => Earned(call[p].req, call[p].route, call[p].ord)
    /\ call[p].st \in Looking /\ call[p].ord > 0 =>
          call[p].prev = lease[<<call[p].req, call[p].route, call[p].ord - 1>>]
    /\ At(p, "claim") /\ call[p].prev.busy => call[p].ord <= BusyRetryLimit
    /\ At(p, "result") => /\ LeaseFit(call[p].lease)
                          /\ call[p].lease.status = "failed" => lease[Subject(p)] = call[p].lease

OwnOk(p) ==
    /\ call[p].st \in Owning => /\ call[p].lease = Started(1) /\ lease[Subject(p)] = Started(1)
                                /\ result[Subject(p)] = None
    /\ At(p, "send") => sends[Subject(p)] = 0
    /\ call[p].st \in AfterSend => sends[Subject(p)] > 0
    /\ At(p, "fail") =>
          /\ call[p].prev.class # "none"
          /\ ledger[provider_physical_ordinal(Subject(p))] =
                [subject |-> Subject(p), outcome |-> "failed"]

DoneOk(p) ==
    /\ At(p, "complete") =>
          LeaseFit(call[p].lease) /\ call[p].lease.status \in {"started", "completed"}
    /\ call[p].st \in {"complete", "return"} => result[Subject(p)] # None
    /\ At(p, "return") => lease[Subject(p)].status = "completed"
    /\ call[p].live => call[p].st \in {"complete", "return"} /\ result[Subject(p)] = p

\* What the store holds of a subject.
LeaseOk(s) ==
    /\ LeaseFit(lease[s])
    /\ lease[s] = NoLease => sends[s] = 0 /\ result[s] = None
    /\ sends[s] <= 1
    /\ lease[s] # NoLease =>
          /\ Earned(s[1], s[2], s[3])
          /\ s[3] > 0 /\ lease[<<s[1], s[2], s[3] - 1>>].busy => s[3] <= BusyRetryLimit

FailedOk(s) ==
    lease[s].status = "failed" =>
        /\ ledger[provider_physical_ordinal(s)] = [subject |-> s, outcome |-> "failed"]
        /\ lease[s].class = "fallback" => lease[s].retryable /\ s[2] = "primary" /\ s[3] = 0
        /\ MayRetry(lease[s]) => s[3] < MaxOrdinal

ResultOk(s) ==
    result[s] # None =>
        /\ lease[s] = Started(1) \/ lease[s].status = "completed"
        /\ ledger[provider_physical_ordinal(s)] = [subject |-> s, outcome |-> "completed"]

\* A subject has one owner.
OneOwner ==
    \A p, q \in Procs : /\ call[p].st \in Owning /\ call[q].st \in Owning
                        /\ Subject(p) = Subject(q)
                        => p = q

LedgerInv ==
    \A n \in Ordinals : ledger[n] # None =>
        sends[ledger[n].subject] > 0 /\ provider_physical_ordinal(ledger[n].subject) = n

HistoryInv ==
    /\ \A d \in delivered : /\ d[1] \in Subjects /\ d[2] # None /\ result[d[1]] = d[2]
                            /\ lease[d[1]].status = "completed"
    /\ \A p \in emitted : p \in Procs /\ \E s \in Subjects : result[s] = p

ProcInv == \A p \in Procs : WalkOk(p) /\ OwnOk(p) /\ DoneOk(p)
SubjectInv == \A s \in Subjects : LeaseOk(s) /\ FailedOk(s) /\ ResultOk(s)

IInv == TypeInv /\ WireInv /\ ProcInv /\ SubjectInv /\ OneOwner /\ LedgerInv /\ HistoryInv

(***************************************************************************)
(* Operators                                                               *)
(***************************************************************************)

\* The retry limit never exceeds the budget, nor two for a busy model.
LEMMA RetryLimitBound ==
    ASSUME NEW max \in Nat, NEW l
    PROVE  /\ RetryLimit(max, l) \in Nat /\ RetryLimit(max, l) <= max
           /\ l.busy => RetryLimit(max, l) <= BusyRetryLimit
<1>1. \E x \in {max, 2} : \A y \in {max, 2} : x <= y
  <2>1. CASE max <= 2
    BY <2>1, SMT
  <2>2. CASE 2 <= max
    BY <2>2, SMT
  <2>3. max <= 2 \/ 2 <= max
    BY SMT
  <2>4. QED BY <2>1, <2>2, <2>3
<1>2. /\ Min({max, 2}) \in {max, 2}
      /\ \A y \in {max, 2} : Min({max, 2}) <= y
  BY <1>1 DEF Min
<1>3. Min({max, 2}) \in Nat /\ Min({max, 2}) <= max /\ Min({max, 2}) <= 2
  BY <1>2, SMT
<1>4. max <= max
  BY SMT
<1>5. QED BY <1>3, <1>4 DEF RetryLimit, BusyRetryLimit

\* The leases the actions write.
LEMMA LeaseTypes ==
    /\ NoLease \in Leases /\ NoLease.status = "none" /\ NoLease.class = "none"
    /\ ~NoLease.retryable /\ ~NoLease.busy /\ NoLease.rev = 0
    /\ \A r \in {1, 2} : /\ Started(r) \in Leases /\ Started(r).status = "started"
                         /\ Started(r).rev = r /\ Started(r).class = "none"
    /\ Started(1) # Started(2)
<1>1. /\ NoLease \in Leases /\ NoLease.status = "none" /\ NoLease.class = "none"
      /\ ~NoLease.retryable /\ ~NoLease.busy /\ NoLease.rev = 0
  BY SMT DEF NoLease, Leases
<1>2. ASSUME NEW r \in {1, 2}
      PROVE  /\ Started(r) \in Leases /\ Started(r).status = "started"
             /\ Started(r).rev = r /\ Started(r).class = "none"
  <2>1. r \in 0..3
    BY SMT
  <2>2. /\ Started(r).status = "started" /\ Started(r).rev = r /\ Started(r).class = "none"
        /\ Started(r).retryable = FALSE /\ Started(r).busy = FALSE
    BY DEF Started, NoLease
  <2>3. Started(r) \in Leases
    BY <1>1, <2>1 DEF Started, Leases
  <2>4. QED BY <2>2, <2>3
<1>3. Started(1) # Started(2)
  BY <1>2, SMT
<1>4. QED BY <1>1, <1>2, <1>3

\* The subjects of the turn and their ordinals.
LEMMA SubjectTypes ==
    ASSUME SitesFit, NEW r \in Requests, NEW route \in Routes, NEW n \in 0..MaxOrdinal
    PROVE  /\ <<r, route, n>> \in Subjects
           /\ <<r, route, n>>[1] = r /\ <<r, route, n>>[2] = route /\ <<r, route, n>>[3] = n
BY DEF Subjects

LEMMA SubjectParts ==
    ASSUME SitesFit, NEW s \in Subjects
    PROVE  /\ s[1] \in Requests /\ s[2] \in Routes /\ s[3] \in 0..MaxOrdinal
           /\ s = <<s[1], s[2], s[3]>>
           /\ provider_physical_ordinal(s) \in Ordinals
<1>1. /\ s[1] \in Requests /\ s[2] \in Routes /\ s[3] \in 0..MaxOrdinal
      /\ s = <<s[1], s[2], s[3]>>
  BY SMT DEF Subjects
<1>2. s[3] \in 0..(MaxOrdinal + 1) /\ s[3] + 1 \in 0..(MaxOrdinal + 1)
  BY <1>1, SMT DEF SitesFit
<1>3. QED BY <1>1, <1>2 DEF provider_physical_ordinal, Ordinals

\* The receipts of a subject.
LEMMA ReceiptTypes ==
    ASSUME SitesFit, NEW s \in Subjects, NEW how \in {"failed", "uncertain", "completed"}
    PROVE  /\ [subject |-> s, outcome |-> how] \in Receipts
           /\ [subject |-> s, outcome |-> how] # None
           /\ [subject |-> s, outcome |-> how].subject = s
           /\ [subject |-> s, outcome |-> how].outcome = how
<1>1. [subject |-> s, outcome |-> how] \in Receipts
  BY DEF Receipts
<1>2. QED BY <1>1 DEF SitesFit

\* The subject a process is at.
LEMMA SubjectOf ==
    ASSUME SitesFit, TypeInv, NEW p \in Procs, ~At(p, "idle")
    PROVE  /\ Subject(p) \in Subjects
           /\ Subject(p)[1] = call[p].req /\ Subject(p)[2] = call[p].route
           /\ Subject(p)[3] = call[p].ord
BY DEF TypeInv, CallTypes, Subject, Subjects

\* A process that goes elsewhere keeps the rest of its call.
LEMMA MovedType ==
    ASSUME NEW c \in CallTypes, NEW l \in Points
    PROVE  /\ [c EXCEPT !.st = l] \in CallTypes
           /\ [c EXCEPT !.st = l].st = l /\ [c EXCEPT !.st = l].mode = c.mode
           /\ [c EXCEPT !.st = l].req = c.req /\ [c EXCEPT !.st = l].max = c.max
           /\ [c EXCEPT !.st = l].route = c.route /\ [c EXCEPT !.st = l].ord = c.ord
           /\ [c EXCEPT !.st = l].lease = c.lease /\ [c EXCEPT !.st = l].prev = c.prev
           /\ [c EXCEPT !.st = l].live = c.live
BY DEF CallTypes

LEMMA IdleType ==
    ASSUME SitesFit
    PROVE  /\ Idle \in CallTypes /\ Idle.st = "idle" /\ Idle.route = "primary" /\ Idle.ord = 0
           /\ ~Idle.live
<1>1. 0 \in 0..MaxOrdinal
  BY SMT DEF SitesFit
<1>2. QED BY <1>1, LeaseTypes DEF Idle, CallTypes, Points, Modes, Routes

(***************************************************************************)
(* Steps                                                                   *)
(***************************************************************************)

\* A step of p that touches the rows of one subject: what is settled stays,
\* and the rows of a subject are not taken from another owner.
Touch(p, s) ==
    /\ \A q \in Procs \ {p} : call'[q] = call[q]
    /\ \A t \in Subjects \ {s} :
          lease'[t] = lease[t] /\ result'[t] = result[t] /\ sends'[t] = sends[t]
    /\ lease[s].status = "failed" => lease'[s] = lease[s]
    /\ lease[s].status = "completed" => lease'[s].status = "completed"
    /\ result[s] # None => result'[s] = result[s]
    /\ sends[s] > 0 => sends'[s] > 0
    /\ \A n \in Ordinals : ledger[n] # None => ledger'[n] = ledger[n]
    /\ \/ lease'[s] = lease[s] /\ result'[s] = result[s] /\ sends'[s] = sends[s]
       \/ \A q \in Procs \ {p} : call[q].st \in Owning => Subject(q) # s

\* A subject that was earned stays earned.
LEMMA EarnedStays ==
    ASSUME SitesFit, NEW p \in Procs, NEW s \in Subjects, Touch(p, s),
           NEW r \in Requests, NEW route \in Routes, NEW n \in 0..MaxOrdinal, Earned(r, route, n)
    PROVE  /\ Earned(r, route, n)'
           /\ \A j \in 0..MaxOrdinal : j < n => lease'[<<r, route, j>>] = lease[<<r, route, j>>]
<1>1. \A t \in Subjects : lease[t].status = "failed" => lease'[t] = lease[t]
  BY DEF Touch
<1>2. ASSUME NEW j \in 0..MaxOrdinal, j < n
      PROVE  Retried(lease'[<<r, route, j>>]) /\ lease'[<<r, route, j>>] = lease[<<r, route, j>>]
  <2>1. Retried(lease[<<r, route, j>>]) /\ <<r, route, j>> \in Subjects
    BY <1>2, SubjectTypes DEF Earned
  <2>2. lease'[<<r, route, j>>] = lease[<<r, route, j>>]
    BY <1>1, <2>1 DEF Retried
  <2>3. QED BY <2>1, <2>2
<1>3. ASSUME route = "fallback" PROVE FellBack(lease'[<<r, "primary", 0>>])
  <2>1. 0 \in 0..MaxOrdinal /\ "primary" \in Routes
    BY SMT DEF SitesFit, Routes
  <2>2. FellBack(lease[<<r, "primary", 0>>]) /\ <<r, "primary", 0>> \in Subjects
    BY <1>3, <2>1, SubjectTypes DEF Earned
  <2>3. lease'[<<r, "primary", 0>>] = lease[<<r, "primary", 0>>]
    BY <1>1, <2>2 DEF FellBack
  <2>4. QED BY <2>2, <2>3
<1>4. QED BY <1>2, <1>3 DEF Earned, Retried, MayRetry, FellBack

\* The other processes keep what they know.
LEMMA OthersKept ==
    ASSUME SitesFit, IInv, NEW p \in Procs, NEW s \in Subjects, Touch(p, s),
           NEW q \in Procs \ {p}
    PROVE  WalkOk(q)' /\ OwnOk(q)' /\ DoneOk(q)'
<1>t. call'[q] = call[q] /\ call[q] \in CallTypes /\ Subject(q)' = Subject(q)
  BY DEF Touch, IInv, TypeInv, Subject
<1>a. /\ At(q, "result")' <=> At(q, "result")
      /\ At(q, "claim")' <=> At(q, "claim")
      /\ At(q, "send")' <=> At(q, "send")
      /\ At(q, "fail")' <=> At(q, "fail")
      /\ At(q, "complete")' <=> At(q, "complete")
      /\ At(q, "return")' <=> At(q, "return")
  BY <1>t DEF At
<1>o. WalkOk(q) /\ OwnOk(q) /\ DoneOk(q)
  BY DEF IInv, ProcInv
<1>s. ASSUME call[q].st # "idle"
      PROVE  /\ Subject(q) \in Subjects /\ call[q].req \in Requests
             /\ call[q].route \in Routes /\ call[q].ord \in 0..MaxOrdinal
  BY <1>s, <1>t, SubjectOf DEF IInv, TypeInv, At, CallTypes
<1>1. WalkOk(q)'
  <2>1. ASSUME call[q].st \in Walking
        PROVE  /\ Earned(call[q].req, call[q].route, call[q].ord)'
               /\ \A j \in 0..MaxOrdinal : j < call[q].ord =>
                    lease'[<<call[q].req, call[q].route, j>>] = lease[<<call[q].req, call[q].route, j>>]
    <3>1. PICK r \in Requests, route \in Routes, n \in 0..MaxOrdinal :
            r = call[q].req /\ route = call[q].route /\ n = call[q].ord
      BY <2>1, <1>s DEF Walking, Looking, Owning
    <3>2. Earned(r, route, n)
      BY <1>o, <2>1, <3>1 DEF WalkOk
    <3>3. call'[q].req = r /\ call'[q].route = route /\ call'[q].ord = n
      BY <1>t, <3>1
    <3>4. Earned(r, route, n)' /\ \A j \in 0..MaxOrdinal : j < n =>
            lease'[<<r, route, j>>] = lease[<<r, route, j>>]
      BY <3>2, EarnedStays
    <3>5. QED BY <3>1, <3>3, <3>4
  <2>2. ASSUME call[q].st \in Looking, call[q].ord > 0
        PROVE  call[q].prev = lease'[<<call[q].req, call[q].route, call[q].ord - 1>>]
    <3>1. call[q].ord - 1 \in 0..MaxOrdinal /\ call[q].ord - 1 < call[q].ord
      BY <2>2, <1>s, SMT DEF SitesFit, Looking
    <3>2. QED BY <1>o, <2>1, <2>2, <3>1 DEF WalkOk, Walking
  <2>3. ASSUME At(q, "result"), call[q].lease.status = "failed"
        PROVE  lease'[Subject(q)] = call[q].lease
    <3>1. lease[Subject(q)] = call[q].lease /\ Subject(q) \in Subjects
      BY <1>o, <1>s, <2>3 DEF WalkOk, At
    <3>2. QED BY <2>3, <3>1 DEF Touch
  <2>4. QED BY <1>a, <1>o, <1>t, <2>1, <2>2, <2>3 DEF WalkOk, LeaseFit
<1>2. OwnOk(q)'
  <2>1. ASSUME call[q].st \in Owning
        PROVE  /\ lease'[Subject(q)] = lease[Subject(q)]
               /\ result'[Subject(q)] = result[Subject(q)]
               /\ sends'[Subject(q)] = sends[Subject(q)]
    BY <1>s, <2>1 DEF Touch, Owning
  <2>2. ASSUME call[q].st \in AfterSend PROVE sends'[Subject(q)] > 0
    BY <1>o, <1>s, <2>1, <2>2 DEF OwnOk, AfterSend, Touch
  <2>3. ASSUME At(q, "fail")
        PROVE  ledger'[provider_physical_ordinal(Subject(q))] =
                 ledger[provider_physical_ordinal(Subject(q))]
    <3>1. Subject(q) \in Subjects
      BY <1>s, <2>3 DEF At
    <3>2. [subject |-> Subject(q), outcome |-> "failed"] # None
      BY <3>1, ReceiptTypes
    <3>3. provider_physical_ordinal(Subject(q)) \in Ordinals
      BY <3>1, SubjectParts
    <3>4. QED BY <1>o, <2>3, <3>2, <3>3 DEF OwnOk, Touch
  <2>4. "send" \in Owning
    BY DEF Owning
  <2>5. QED BY <1>a, <1>o, <1>t, <2>1, <2>2, <2>3, <2>4 DEF OwnOk, At, provider_physical_ordinal
<1>3. DoneOk(q)'
  <2>1. ASSUME call[q].st \in {"complete", "return"}
        PROVE  result'[Subject(q)] = result[Subject(q)]
    BY <1>o, <1>s, <2>1 DEF DoneOk, Touch
  <2>2. ASSUME At(q, "return") PROVE lease'[Subject(q)].status = "completed"
    BY <1>o, <1>s, <2>2 DEF DoneOk, Touch, At
  <2>3. QED BY <1>a, <1>o, <1>t, <2>1, <2>2 DEF DoneOk, LeaseFit
<1>4. QED BY <1>1, <1>2, <1>3

\* The rows of a subject that keeps them stay in order.
LEMMA SubjectsKept ==
    ASSUME SitesFit, IInv, NEW p \in Procs, NEW s \in Subjects, Touch(p, s), NEW t \in Subjects,
           lease'[t] = lease[t], result'[t] = result[t], sends'[t] = sends[t]
    PROVE  LeaseOk(t)' /\ FailedOk(t)' /\ ResultOk(t)'
<1>t. lease'[t] = lease[t] /\ result'[t] = result[t] /\ sends'[t] = sends[t]
  OBVIOUS
<1>o. LeaseOk(t) /\ FailedOk(t) /\ ResultOk(t)
  BY DEF IInv, SubjectInv
<1>p. t[1] \in Requests /\ t[2] \in Routes /\ t[3] \in 0..MaxOrdinal
  BY SubjectParts
<1>l. ASSUME NEW how \in {"failed", "completed"},
             ledger[provider_physical_ordinal(t)] = [subject |-> t, outcome |-> how]
      PROVE  ledger'[provider_physical_ordinal(t)] = [subject |-> t, outcome |-> how]
  <2>h. how \in {"failed", "uncertain", "completed"} /\ t \in Subjects
    OBVIOUS
  <2>1. [subject |-> t, outcome |-> how] # None
    BY <2>h, ReceiptTypes
  <2>2. provider_physical_ordinal(t) \in Ordinals
    BY SubjectParts
  <2>3. QED BY <1>l, <2>1, <2>2 DEF Touch
<1>1. LeaseOk(t)'
  <2>1. ASSUME lease[t] # NoLease
        PROVE  /\ Earned(t[1], t[2], t[3])'
               /\ t[3] > 0 /\ lease'[<<t[1], t[2], t[3] - 1>>].busy => t[3] <= BusyRetryLimit
    <3>1. Earned(t[1], t[2], t[3])
      BY <1>o, <2>1 DEF LeaseOk
    <3>2. /\ Earned(t[1], t[2], t[3])'
          /\ \A j \in 0..MaxOrdinal : j < t[3] =>
                lease'[<<t[1], t[2], j>>] = lease[<<t[1], t[2], j>>]
      BY <1>p, <3>1, EarnedStays
    <3>3. ASSUME t[3] > 0 PROVE t[3] - 1 \in 0..MaxOrdinal /\ t[3] - 1 < t[3]
      BY <1>p, <3>3, SMT DEF SitesFit
    <3>4. QED BY <1>o, <2>1, <3>2, <3>3 DEF LeaseOk
  <2>2. QED BY <1>o, <1>t, <2>1 DEF LeaseOk, LeaseFit
<1>2. FailedOk(t)'
  BY <1>o, <1>t, <1>l DEF FailedOk
<1>3. ResultOk(t)'
  BY <1>o, <1>t, <1>l DEF ResultOk
<1>4. QED BY <1>1, <1>2, <1>3

\* What was delivered stays true, and receipts keep their sends.
LEMMA HistoryKept ==
    ASSUME SitesFit, IInv, NEW p \in Procs, NEW s \in Subjects, Touch(p, s)
    PROVE  /\ UNCHANGED <<delivered, emitted>> => HistoryInv'
           /\ UNCHANGED ledger => LedgerInv'
<1>1. ASSUME UNCHANGED <<delivered, emitted>> PROVE HistoryInv'
  <2>1. ASSUME NEW d \in delivered
        PROVE  /\ d[1] \in Subjects /\ d[2] # None /\ result'[d[1]] = d[2]
               /\ lease'[d[1]].status = "completed"
    BY DEF IInv, HistoryInv, Touch
  <2>2. ASSUME NEW q \in emitted PROVE q \in Procs /\ \E t \in Subjects : result'[t] = q
    <3>1. PICK t \in Subjects : result[t] = q
      BY DEF IInv, HistoryInv
    <3>2. q \in Procs /\ q # None
      BY DEF IInv, HistoryInv, SitesFit
    <3>3. result'[t] = q
      BY <3>1, <3>2 DEF Touch
    <3>4. QED BY <3>2, <3>3
  <2>3. QED BY <1>1, <2>1, <2>2 DEF HistoryInv
<1>2. ASSUME UNCHANGED ledger PROVE LedgerInv'
  <2>1. ASSUME NEW n \in Ordinals, ledger[n] # None
        PROVE  /\ sends'[ledger[n].subject] > 0
               /\ provider_physical_ordinal(ledger[n].subject) = n
    <3>1. ledger[n].subject \in Subjects
      BY <2>1 DEF IInv, TypeInv, TypeOK, Receipts
    <3>2. QED BY <2>1, <3>1 DEF IInv, LedgerInv, Touch
  <2>2. QED BY <1>2, <2>1 DEF LedgerInv, provider_physical_ordinal
<1>3. QED BY <1>1, <1>2

\* A step of p that touches one subject keeps the invariant if it keeps what
\* is said of p, of the subject, of the ledger and of the history.
LEMMA StepKeeps ==
    ASSUME SitesFit, IInv, TypeInv', NEW p \in Procs, NEW s \in Subjects, Touch(p, s),
           UNCHANGED <<wireBytes, wires>>,
           WalkOk(p)', OwnOk(p)', DoneOk(p)', LeaseOk(s)', FailedOk(s)', ResultOk(s)',
           call'[p].st = "append_wire" => wireBytes = call'[p].req,
           call'[p].st \in Walking => wires = {call'[p].req},
           lease'[s] # NoLease => wires = {s[1]},
           call'[p].st \in Owning =>
               \A q \in Procs \ {p} : call[q].st \in Owning => Subject(q) # Subject(p)',
           LedgerInv', HistoryInv'
    PROVE  IInv'
<1>1. WireInv'
  <2>1. \A q \in Procs \ {p} : call'[q] = call[q]
    BY DEF Touch
  <2>2. \A t \in Subjects \ {s} : lease'[t] = lease[t]
    BY DEF Touch
  <2>3. QED BY <2>1, <2>2 DEF IInv, WireInv, At
<1>2. ProcInv'
  BY OthersKept DEF ProcInv
<1>3. SubjectInv'
  <2>1. ASSUME NEW t \in Subjects, t # s PROVE LeaseOk(t)' /\ FailedOk(t)' /\ ResultOk(t)'
    <3>1. lease'[t] = lease[t] /\ result'[t] = result[t] /\ sends'[t] = sends[t]
      BY <2>1 DEF Touch
    <3>2. QED BY <3>1, SubjectsKept
  <2>2. QED BY <2>1 DEF SubjectInv
<1>4. OneOwner'
  <2>1. ASSUME NEW q \in Procs \ {p}
        PROVE  call'[q] = call[q] /\ Subject(q)' = Subject(q)
    BY DEF Touch, Subject
  <2>2. ASSUME NEW a \in Procs, NEW b \in Procs, call'[a].st \in Owning, call'[b].st \in Owning,
               Subject(a)' = Subject(b)', a # b
        PROVE  FALSE
    <3>1. CASE a = p
      BY <2>1, <2>2, <3>1
    <3>2. CASE b = p
      BY <2>1, <2>2, <3>2
    <3>3. CASE a # p /\ b # p
      BY <2>1, <2>2, <3>3 DEF IInv, OneOwner
    <3>4. QED BY <3>1, <3>2, <3>3
  <2>3. QED BY <2>2 DEF OneOwner
<1>5. QED BY <1>1, <1>2, <1>3, <1>4 DEF IInv

\* The types of a step.
StoreTypes ==
    /\ site \in Sites
    /\ catalogs \subseteq {CatalogOf[r] : r \in Requests}
    /\ wires \subseteq Requests /\ wireBytes \in Requests \union {None}
    /\ lease \in [Subjects -> Leases]
    /\ result \in [Subjects -> Procs \union {None}]
    /\ ledger \in [Ordinals -> Receipts \union {None}]
    /\ sends \in [Subjects -> Nat]

LEMMA StepTypes ==
    ASSUME IInv, NEW p \in Procs, NEW d \in CallTypes, call' = [call EXCEPT ![p] = d],
           d.st # "idle" => d.req \in Requests, StoreTypes'
    PROVE  /\ TypeInv' /\ call'[p] = d
           /\ \A q \in Procs \ {p} : call'[q] = call[q]
<1>1. call' \in [Procs -> CallTypes] /\ call'[p] = d /\ \A q \in Procs \ {p} : call'[q] = call[q]
  BY DEF IInv, TypeInv
<1>2. ASSUME NEW q \in Procs
      PROVE  /\ call'[q].lease \in Leases /\ call'[q].ord \in 0..MaxOrdinal
             /\ call'[q].live \in BOOLEAN
             /\ call'[q].st # "idle" => call'[q].req \in Requests
  <2>1. call'[q] \in CallTypes
    BY <1>1
  <2>2. call'[q].lease \in Leases /\ call'[q].ord \in 0..MaxOrdinal /\ call'[q].live \in BOOLEAN
    BY <2>1 DEF CallTypes
  <2>3. QED BY <1>1, <2>2 DEF IInv, TypeInv, At
<1>3. QED BY <1>1, <1>2 DEF TypeInv, TypeOK, StoreTypes, At

\* A step that touches no subject.
Still == UNCHANGED <<lease, result, ledger, sends, delivered, emitted>>

LEMMA StillKeeps ==
    ASSUME SitesFit, IInv, Still, StoreTypes', WireInv', NEW p \in Procs, NEW d \in CallTypes,
           call' = [call EXCEPT ![p] = d],
           d.st # "idle" => d.req \in Requests,
           WalkOk(p)', OwnOk(p)', DoneOk(p)',
           d.st \in Owning => call[p].st \in Owning /\ Subject(p)' = Subject(p)
    PROVE  IInv'
<1>1. UNCHANGED <<lease, result, ledger, sends, delivered, emitted>>
  BY DEF Still
<1>2. TypeInv' /\ call'[p] = d /\ \A q \in Procs \ {p} : call'[q] = call[q]
  BY StepTypes
<1>3. ASSUME NEW q \in Procs \ {p} PROVE WalkOk(q)' /\ OwnOk(q)' /\ DoneOk(q)'
  <2>1. call'[q] = call[q] /\ Subject(q)' = Subject(q)
    BY <1>2 DEF Subject
  <2>2. WalkOk(q) /\ OwnOk(q) /\ DoneOk(q)
    BY DEF IInv, ProcInv
  <2>3. WalkOk(q)'
    BY <1>1, <2>1, <2>2 DEF WalkOk, Earned, At, LeaseFit
  <2>4. OwnOk(q)'
    BY <1>1, <2>1, <2>2 DEF OwnOk, At, provider_physical_ordinal
  <2>5. DoneOk(q)'
    BY <1>1, <2>1, <2>2 DEF DoneOk, At, LeaseFit
  <2>6. QED BY <2>3, <2>4, <2>5
<1>4. ProcInv'
  BY <1>3 DEF ProcInv
<1>5. SubjectInv'
  BY <1>1 DEF IInv, SubjectInv, LeaseOk, FailedOk, ResultOk, Earned, LeaseFit,
     provider_physical_ordinal
<1>6. OneOwner'
  <2>1. ASSUME NEW q \in Procs
        PROVE  call'[q].st \in Owning => call[q].st \in Owning /\ Subject(q)' = Subject(q)
    BY <1>2 DEF Subject
  <2>2. QED BY <2>1 DEF IInv, OneOwner
<1>7. LedgerInv' /\ HistoryInv'
  BY <1>1 DEF IInv, LedgerInv, HistoryInv, provider_physical_ordinal
<1>8. QED BY <1>2, <1>4, <1>5, <1>6, <1>7 DEF IInv

\* A step that does not touch the envelope either.
Quiet ==
    /\ Still /\ UNCHANGED <<site, wireBytes, wires>>
    /\ catalogs' \subseteq {CatalogOf[r] : r \in Requests}

LEMMA QuietKeeps ==
    ASSUME SitesFit, IInv, Quiet, NEW p \in Procs, NEW d \in CallTypes,
           call' = [call EXCEPT ![p] = d],
           d.st # "idle" => d.req \in Requests,
           WalkOk(p)', OwnOk(p)', DoneOk(p)',
           d.st = "append_wire" => wireBytes = d.req,
           d.st \in Walking => wires = {d.req},
           d.st \in Owning => call[p].st \in Owning /\ Subject(p)' = Subject(p)
    PROVE  IInv'
<1>1. /\ UNCHANGED <<site, wireBytes, wires, lease, result, ledger, sends>>
      /\ catalogs' \subseteq {CatalogOf[r] : r \in Requests}
  BY DEF Quiet, Still
<1>2. StoreTypes'
  BY <1>1 DEF StoreTypes, IInv, TypeInv, TypeOK
<1>3. call'[p] = d /\ \A q \in Procs \ {p} : call'[q] = call[q]
  BY DEF IInv, TypeInv
<1>4. WireInv'
  BY <1>1, <1>3 DEF IInv, WireInv, At
<1>5. QED BY <1>2, <1>4, StillKeeps DEF Quiet

\* A call that ends, or whose process dies, leaves nothing behind.
LEMMA EndsKeeps ==
    ASSUME SitesFit, IInv, Quiet, NEW p \in Procs, Ends(p)
    PROVE  IInv'
<1>1. call' = [call EXCEPT ![p] = Idle] /\ call'[p] = Idle
  BY DEF Ends, IInv, TypeInv
<1>2. Idle \in CallTypes /\ Idle.st = "idle" /\ ~Idle.live
  BY IdleType
<1>3. WalkOk(p)' /\ OwnOk(p)' /\ DoneOk(p)'
  BY <1>1, <1>2 DEF WalkOk, OwnOk, DoneOk, At, Preparing, Walking, Looking, Owning, AfterSend
<1>4. "idle" \notin Walking /\ "idle" \notin Owning
  BY DEF Walking, Looking, Owning
<1>5. QED BY <1>1, <1>2, <1>3, <1>4, QuietKeeps

\* A process that goes elsewhere.
LEMMA GotoFields ==
    ASSUME SitesFit, IInv, NEW p \in Procs, NEW l \in Points, Goto(p, l)
    PROVE  /\ \E d \in CallTypes : call' = [call EXCEPT ![p] = d]
           /\ \A q \in Procs \ {p} : call'[q] = call[q]
           /\ call'[p].st = l /\ call'[p].req = call[p].req /\ call'[p].route = call[p].route
           /\ call'[p].ord = call[p].ord /\ call'[p].lease = call[p].lease
           /\ call'[p].prev = call[p].prev /\ call'[p].live = call[p].live
           /\ Subject(p)' = Subject(p)
<1>1. PICK c \in CallTypes : c = call[p]
  BY DEF IInv, TypeInv
<1>2. PICK d : d = [c EXCEPT !.st = l]
  OBVIOUS
<1>3. /\ d \in CallTypes /\ d.st = l /\ d.req = c.req /\ d.route = c.route /\ d.ord = c.ord
      /\ d.lease = c.lease /\ d.prev = c.prev /\ d.live = c.live
  BY <1>2, MovedType
<1>4. call' = [call EXCEPT ![p] = d]
  BY <1>1, <1>2 DEF Goto
<1>5. call'[p] = d /\ \A q \in Procs \ {p} : call'[q] = call[q]
  BY <1>4 DEF IInv, TypeInv
<1>6. QED BY <1>1, <1>3, <1>4, <1>5 DEF Subject

\* A process that goes elsewhere and writes nothing.
LEMMA GotoKeeps ==
    ASSUME SitesFit, IInv, Quiet, NEW p \in Procs, NEW l \in Points, Goto(p, l),
           call[p].st \notin {"idle", "complete", "return"},
           l \notin {"idle", "append_wire", "result", "send", "fail", "return"},
           l \in Preparing => call[p].st \in Preparing,
           l \in Walking => call[p].st \in Walking \/ (At(p, "wire") /\ wires = {call[p].req}),
           l \in Looking => call[p].st \in Looking \/ At(p, "wire"),
           l \in Owning => call[p].st \in Owning,
           l \in AfterSend => sends[Subject(p)] > 0,
           l = "claim" /\ call[p].prev.busy => call[p].ord <= BusyRetryLimit,
           l = "complete" =>
               /\ LeaseFit(call[p].lease) /\ call[p].lease.status \in {"started", "completed"}
               /\ result[Subject(p)] # None
    PROVE  IInv'
<1>1. PICK d \in CallTypes : call' = [call EXCEPT ![p] = d]
  BY GotoFields
<1>2. /\ call'[p].st = l /\ call'[p].req = call[p].req /\ call'[p].route = call[p].route
      /\ call'[p].ord = call[p].ord /\ call'[p].lease = call[p].lease
      /\ call'[p].prev = call[p].prev /\ call'[p].live = call[p].live
      /\ Subject(p)' = Subject(p)
  BY GotoFields
<1>d. d = call'[p]
  BY <1>1 DEF IInv, TypeInv
<1>o. WalkOk(p) /\ OwnOk(p) /\ DoneOk(p) /\ call[p] \in CallTypes
  BY DEF IInv, ProcInv, TypeInv
<1>s. UNCHANGED <<lease, result, ledger, sends>>
  BY DEF Quiet, Still
<1>r. call[p].req \in Requests
  BY DEF IInv, TypeInv, At
<1>3. WalkOk(p)'
  <2>1. ASSUME l \in Walking PROVE Earned(call[p].req, call[p].route, call[p].ord)
    <3>1. CASE call[p].st \in Walking
      BY <1>o, <3>1 DEF WalkOk
    <3>2. CASE At(p, "wire")
      <4>1. call[p].route = "primary" /\ call[p].ord = 0
        BY <1>o, <3>2 DEF WalkOk, At, Preparing
      <4>2. \A j \in 0..MaxOrdinal : ~(j < 0)
        BY SMT DEF SitesFit
      <4>3. QED BY <4>1, <4>2 DEF Earned
    <3>3. QED BY <2>1, <3>1, <3>2
  <2>2. ASSUME l \in Looking, call[p].ord > 0
        PROVE  call[p].prev = lease[<<call[p].req, call[p].route, call[p].ord - 1>>]
    <3>1. CASE call[p].st \in Looking
      BY <1>o, <2>2, <3>1 DEF WalkOk
    <3>2. CASE At(p, "wire")
      <4>1. call[p].ord = 0
        BY <1>o, <3>2 DEF WalkOk, At, Preparing
      <4>2. ~(0 > 0)
        BY SMT
      <4>3. QED BY <2>2, <4>1, <4>2
    <3>3. QED BY <2>2, <3>1, <3>2
  <2>3. Earned(call[p].req, call[p].route, call[p].ord) =>
          Earned(call[p].req, call[p].route, call[p].ord)'
    BY <1>s, <1>2 DEF Earned
  <2>4. QED BY <1>2, <1>o, <1>s, <2>1, <2>2, <2>3 DEF WalkOk, At
<1>4. OwnOk(p)'
  BY <1>2, <1>o, <1>s DEF OwnOk, At
<1>5. DoneOk(p)'
  BY <1>2, <1>o, <1>s DEF DoneOk, At, LeaseFit
<1>6. l \in Walking => wires = {call[p].req}
  BY DEF IInv, WireInv
<1>7. QED BY <1>1, <1>2, <1>3, <1>4, <1>5, <1>6, <1>d, <1>r, QuietKeeps

(***************************************************************************)
(* The request becomes durable                                             *)
(***************************************************************************)

\* An action that leaves the store and the history alone.
LEMMA QuietAction ==
    ASSUME IInv, UNCHANGED <<durable, sends, delivered, emitted>>, UNCHANGED site
    PROVE  Quiet
BY DEF Quiet, Still, durable, authority, IInv, TypeInv, TypeOK

LEMMA BeginKeeps ==
    ASSUME SitesFit, IInv, NEW p \in Procs, Begin(p), UNCHANGED site
    PROVE  IInv'
<1>1. Quiet
  BY QuietAction DEF Begin, history
<1>2. PICK m \in site.modes, r \in site.requests, b \in site.budgets :
        call' = [call EXCEPT ![p] = [Idle EXCEPT
                    !.st = "catalog", !.mode = m, !.req = r, !.max = b]]
  BY DEF Begin
<1>3. m \in Modes /\ r \in Requests /\ b \in 0..MaxOrdinal
  BY DEF IInv, TypeInv, TypeOK, SitesFit, SiteType, Modes
<1>4. PICK d : d = [Idle EXCEPT !.st = "catalog", !.mode = m, !.req = r, !.max = b]
  OBVIOUS
<1>5. /\ d \in CallTypes /\ d.st = "catalog" /\ d.req = r /\ d.route = "primary" /\ d.ord = 0
      /\ ~d.live
  BY <1>3, <1>4, IdleType DEF CallTypes, Points, Preparing
<1>6. call' = [call EXCEPT ![p] = d] /\ call'[p] = d
  BY <1>2, <1>4 DEF IInv, TypeInv
<1>7. WalkOk(p)' /\ OwnOk(p)' /\ DoneOk(p)'
  BY <1>5, <1>6 DEF WalkOk, OwnOk, DoneOk, At, Walking, Looking, Owning, AfterSend
<1>8. "catalog" \notin Walking /\ "catalog" \notin Owning
  BY DEF Walking, Looking, Owning
<1>9. QED BY <1>1, <1>3, <1>5, <1>6, <1>7, <1>8, QuietKeeps

LEMMA CatalogKeeps ==
    ASSUME SitesFit, IInv, NEW p \in Procs, LoadCatalog(p) \/ PersistCatalog(p), UNCHANGED site
    PROVE  IInv'
<1>1. call[p].st \in {"catalog", "put_catalog"}
  BY DEF LoadCatalog, PersistCatalog, At
<1>2. Quiet
  <2>1. CASE LoadCatalog(p)
    BY <2>1, QuietAction DEF LoadCatalog, history
  <2>2. CASE PersistCatalog(p)
    <3>1. call[p].req \in Requests
      BY <1>1 DEF IInv, TypeInv, At
    <3>2. catalogs' \subseteq {CatalogOf[r] : r \in Requests}
      BY <2>2, <3>1 DEF PersistCatalog, IInv, TypeInv, TypeOK
    <3>3. QED BY <2>2, <3>2 DEF PersistCatalog, Quiet, Still, history
  <2>3. QED BY <2>1, <2>2
<1>3. CASE Ends(p)
  BY <1>2, <1>3, EndsKeeps
<1>4. ASSUME NEW l \in {"wire", "put_catalog"}, Goto(p, l) PROVE IInv'
  <2>1. l \in Points /\ l \in Preparing /\ l \notin Walking /\ call[p].st \in Preparing
    BY <1>1 DEF Points, Preparing, Walking, Looking, Owning
  <2>2. l \notin Looking /\ l \notin Owning /\ l \notin AfterSend
    BY DEF Looking, Owning, AfterSend
  <2>3. QED BY <1>1, <1>2, <1>4, <2>1, <2>2, GotoKeeps
<1>5. Ends(p) \/ \E l \in {"wire", "put_catalog"} : Goto(p, l)
  BY DEF LoadCatalog, PersistCatalog, Returns, Raises
<1>6. QED BY <1>3, <1>4, <1>5

LEMMA LoadWireKeeps ==
    ASSUME SitesFit, IInv, NEW p \in Procs, LoadWire(p), UNCHANGED site
    PROVE  IInv'
<1>1. call[p].st = "wire" /\ At(p, "wire") /\ Quiet
  BY QuietAction DEF LoadWire, At, history
<1>2. CASE Ends(p)
  BY <1>1, <1>2, EndsKeeps
<1>3. ASSUME NEW l \in {"lease", "put_wire"}, Goto(p, l), l = "lease" => wires = {call[p].req}
      PROVE  IInv'
  <2>1. /\ l \in Points /\ (l \in Preparing => call[p].st \in Preparing)
        /\ (l \in Walking => l = "lease")
    BY <1>1 DEF Points, Preparing, Walking, Looking, Owning
  <2>2. l \notin Owning /\ l \notin AfterSend
    BY DEF Owning, AfterSend
  <2>3. QED BY <1>1, <1>3, <2>1, <2>2, GotoKeeps
<1>4. Ends(p) \/ \E l \in {"lease", "put_wire"} : Goto(p, l) /\ (l = "lease" => wires = {call[p].req})
  BY DEF LoadWire, Returns, Raises
<1>5. QED BY <1>2, <1>3, <1>4

\* A process that stays in the first half of its turn knows nothing of subjects.
LEMMA PreparingOk ==
    ASSUME SitesFit, IInv, NEW p \in Procs, call[p].st \in Preparing, NEW l \in Preparing, Goto(p, l)
    PROVE  WalkOk(p)' /\ OwnOk(p)' /\ DoneOk(p)'
<1>1. /\ call'[p].st = l /\ call'[p].route = call[p].route /\ call'[p].ord = call[p].ord
      /\ call'[p].live = call[p].live
  BY GotoFields DEF Points
<1>2. WalkOk(p) /\ DoneOk(p)
  BY DEF IInv, ProcInv
<1>3. QED
  BY <1>1, <1>2 DEF WalkOk, OwnOk, DoneOk, At, Preparing, Walking, Looking, Owning, AfterSend

\* The envelope: the artifact is written once, and only its receipt is appended.
LEMMA WireKeeps ==
    ASSUME SitesFit, IInv, NEW p \in Procs, WriteWire(p) \/ AppendWire(p), UNCHANGED site
    PROVE  IInv'
<1>1. /\ call[p].st \in {"put_wire", "append_wire"} /\ Still /\ call[p].req \in Requests
      /\ UNCHANGED catalogs
  BY DEF WriteWire, AppendWire, At, Still, history, IInv, TypeInv
<1>2. CASE WriteWire(p) /\ Ends(p) /\ UNCHANGED wireBytes
  <2>1. Quiet
    BY <1>1, <1>2 DEF WriteWire, Quiet, IInv, TypeInv, TypeOK
  <2>2. QED BY <1>2, <2>1, EndsKeeps
<1>3. ASSUME NEW l \in {"append_wire", "wire"}, Goto(p, l), WireInv', StoreTypes' PROVE IInv'
  <2>1. l \in Preparing /\ call[p].st \in Preparing /\ l \in Points /\ l \notin Owning
    BY <1>1 DEF Preparing, Points, Owning
  <2>2. WalkOk(p)' /\ OwnOk(p)' /\ DoneOk(p)'
    BY <1>3, <2>1, PreparingOk
  <2>3. PICK d \in CallTypes : call' = [call EXCEPT ![p] = d]
    BY <1>3, <2>1, GotoFields
  <2>4. call'[p].st = l /\ call'[p].req = call[p].req
    BY <1>3, <2>1, GotoFields
  <2>5. d = call'[p]
    BY <2>3 DEF IInv, TypeInv
  <2>6. QED BY <1>1, <1>3, <2>1, <2>2, <2>3, <2>4, <2>5, StillKeeps
<1>4. CASE WriteWire(p) /\ Goto(p, "append_wire") /\ wireBytes' = call[p].req
           /\ wireBytes \in {None, call[p].req}
  <2>1. "append_wire" \in Points /\ "append_wire" \notin Walking
    BY DEF Points, Preparing, Walking, Looking, Owning
  <2>2. /\ call'[p].st = "append_wire" /\ call'[p].req = call[p].req
        /\ \A q \in Procs \ {p} : call'[q] = call[q]
    BY <1>4, <2>1, GotoFields
  <2>3. UNCHANGED <<wires, lease>>
    BY <1>4 DEF WriteWire
  <2>4. wires \subseteq Requests /\ None \notin Requests
    BY DEF IInv, TypeInv, TypeOK, SitesFit
  <2>5. \A r \in wires : wireBytes' = r
    BY <1>4, <2>4 DEF IInv, WireInv
  <2>6. \A q \in Procs \ {p} : At(q, "append_wire")' => wireBytes' = call'[q].req
    BY <1>1, <1>4, <2>2, <2>4 DEF IInv, WireInv, At, TypeInv
  <2>w. \A q \in Procs : call'[q].st \in Walking => wires' = {call'[q].req}
    BY <2>1, <2>2, <2>3 DEF IInv, WireInv
  <2>a. \A q \in Procs : At(q, "append_wire")' => wireBytes' = call'[q].req
    BY <1>4, <2>2, <2>6
  <2>l. \A s \in Subjects : lease'[s] # NoLease => wires' = {s[1]}
    BY <2>3 DEF IInv, WireInv
  <2>7. WireInv'
    BY <2>3, <2>5, <2>a, <2>l, <2>w DEF WireInv
  <2>8. StoreTypes'
    BY <1>1, <1>4, <2>3 DEF StoreTypes, Still, IInv, TypeInv, TypeOK
  <2>9. QED BY <1>3, <1>4, <2>7, <2>8
<1>5. CASE AppendWire(p)
  <2>1. /\ Goto(p, "wire") /\ wires' = wires \union {call[p].req} /\ wireBytes' = wireBytes
        /\ lease' = lease /\ wireBytes = call[p].req
    BY <1>5 DEF AppendWire, IInv, WireInv
  <2>2. "wire" \in Points /\ "wire" \notin Walking
    BY DEF Points, Preparing, Walking, Looking, Owning
  <2>3. /\ call'[p].st = "wire" /\ \A q \in Procs \ {p} : call'[q] = call[q]
    BY <2>1, <2>2, GotoFields
  <2>4. \A r \in wires : wires = {r} => wires' = {r}
    BY <2>1 DEF IInv, WireInv
  <2>w. ASSUME NEW q \in Procs, call'[q].st \in Walking PROVE wires' = {call'[q].req}
    <3>1. call'[q] = call[q]
      BY <2>2, <2>3, <2>w
    <3>2. wires = {call[q].req} /\ call[q].req \in wires
      BY <2>w, <3>1 DEF IInv, WireInv
    <3>3. QED BY <2>4, <3>1, <3>2
  <2>a. \A q \in Procs : At(q, "append_wire")' => wireBytes' = call'[q].req
    BY <2>1, <2>3 DEF IInv, WireInv, At
  <2>l. \A s \in Subjects : lease'[s] # NoLease => wires' = {s[1]}
    BY <2>1, <2>4 DEF IInv, WireInv
  <2>b. \A r \in wires' : wireBytes' = r
    BY <2>1 DEF IInv, WireInv
  <2>5. WireInv'
    BY <2>a, <2>b, <2>l, <2>w DEF WireInv
  <2>6. StoreTypes'
    BY <1>1, <2>1 DEF StoreTypes, Still, IInv, TypeInv, TypeOK
  <2>7. QED BY <1>3, <2>1, <2>5, <2>6
<1>6. QED BY <1>2, <1>4, <1>5 DEF WriteWire, Raises

(***************************************************************************)
(* One subject after the other                                             *)
(***************************************************************************)

\* _inspect_subject reads the lease it will decide on.
LEMMA InspectLeaseKeeps ==
    ASSUME SitesFit, IInv, NEW p \in Procs, InspectLease(p), UNCHANGED site
    PROVE  IInv'
<1>1. At(p, "lease") /\ call[p].st = "lease" /\ Quiet /\ UNCHANGED <<lease, result, sends>>
  BY QuietAction DEF InspectLease, At, history, durable
<1>2. Subject(p) \in Subjects /\ call[p].req \in Requests
  BY <1>1, SubjectOf DEF IInv, TypeInv, At
<1>3. PICK k \in Leases : k = lease[Subject(p)]
  BY <1>2 DEF IInv, TypeInv, TypeOK
<1>4. PICK c \in CallTypes : c = call[p]
  BY DEF IInv, TypeInv
<1>5. PICK d : d = [c EXCEPT !.lease = k, !.st = "result"]
  OBVIOUS
<1>6. /\ d \in CallTypes /\ d.st = "result" /\ d.lease = k /\ d.req = c.req /\ d.route = c.route
      /\ d.ord = c.ord /\ d.prev = c.prev /\ d.live = c.live
  BY <1>5 DEF CallTypes, Points, Walking, Looking
<1>7. call' = [call EXCEPT ![p] = d]
  BY <1>3, <1>4, <1>5 DEF InspectLease
<1>8. call'[p] = d /\ Subject(p)' = Subject(p)
  BY <1>4, <1>6, <1>7 DEF IInv, TypeInv, Subject
<1>9. WalkOk(p) /\ OwnOk(p) /\ DoneOk(p) /\ LeaseFit(k) /\ wires = {call[p].req}
  BY <1>1, <1>2, <1>3 DEF IInv, ProcInv, SubjectInv, LeaseOk, WireInv, Walking, Looking
<1>10. WalkOk(p)'
  <2>1. Earned(c.req, c.route, c.ord)
    BY <1>1, <1>4, <1>9 DEF WalkOk, Walking, Looking
  <2>2. Earned(c.req, c.route, c.ord)'
    BY <1>1, <1>4, <1>6, <1>8, <2>1 DEF Earned
  <2>3. c.ord > 0 => c.prev = lease[<<c.req, c.route, c.ord - 1>>]
    BY <1>1, <1>4, <1>9 DEF WalkOk, Looking
  <2>4. /\ "result" \notin Preparing
        /\ LeaseFit(k) /\ lease'[Subject(p)'] = k
    BY <1>1, <1>3, <1>8, <1>9 DEF Preparing
  <2>5. LeaseFit(call[p].lease)'
    BY <1>6, <1>8, <2>4 DEF LeaseFit
  <2>6. QED BY <1>1, <1>4, <1>6, <1>8, <2>2, <2>3, <2>4, <2>5 DEF WalkOk, At
<1>11. OwnOk(p)'
  BY <1>6, <1>8 DEF OwnOk, At, Owning, AfterSend
<1>12. DoneOk(p)'
  BY <1>1, <1>4, <1>6, <1>8, <1>9 DEF DoneOk, At
<1>13. "result" \notin Owning
  BY DEF Owning
<1>14. QED BY <1>1, <1>2, <1>4, <1>6, <1>7, <1>9, <1>10, <1>11, <1>12, <1>13, QuietKeeps

\* The call that goes on to the next subject.
LEMMA NextFields ==
    ASSUME SitesFit, IInv, NEW p \in Procs, NEW l \in Leases, NextSubject(p, l),
           l.class # "fallback" => call[p].ord < MaxOrdinal
    PROVE  \E d \in CallTypes :
             /\ call' = [call EXCEPT ![p] = d] /\ d.st = "lease" /\ d.req = call[p].req
             /\ d.live = call[p].live
             /\ l.class = "fallback" => d.route = "fallback" /\ d.ord = 0
             /\ l.class # "fallback" => d.route = call[p].route /\ d.ord = call[p].ord + 1
                                        /\ d.prev = l
<1>1. PICK c \in CallTypes : c = call[p]
  BY DEF IInv, TypeInv
<1>2. "lease" \in Points
  BY DEF Points, Walking, Looking
<1>3. CASE l.class = "fallback"
  <2>1. PICK d : d = [c EXCEPT !.st = "lease", !.route = "fallback", !.ord = 0, !.prev = NoLease]
    OBVIOUS
  <2>2. 0 \in 0..MaxOrdinal /\ "fallback" \in Routes
    BY SMT DEF SitesFit, Routes
  <2>3. d \in CallTypes /\ d.st = "lease" /\ d.req = c.req /\ d.live = c.live
        /\ d.route = "fallback" /\ d.ord = 0
    BY <1>2, <2>1, <2>2, LeaseTypes DEF CallTypes
  <2>4. call' = [call EXCEPT ![p] = d]
    BY <1>1, <1>3, <2>1 DEF NextSubject
  <2>5. QED BY <1>1, <1>3, <2>3, <2>4
<1>4. CASE l.class # "fallback"
  <2>1. PICK n \in 0..MaxOrdinal : n = c.ord + 1
    BY <1>1, <1>4, SMT DEF CallTypes, SitesFit
  <2>2. PICK d : d = [c EXCEPT !.st = "lease", !.ord = n, !.prev = l]
    OBVIOUS
  <2>3. d \in CallTypes /\ d.st = "lease" /\ d.req = c.req /\ d.live = c.live
        /\ d.route = c.route /\ d.ord = n /\ d.prev = l
    BY <1>2, <2>1, <2>2 DEF CallTypes
  <2>4. call' = [call EXCEPT ![p] = d]
    BY <1>1, <1>4, <2>1, <2>2 DEF NextSubject
  <2>5. QED BY <1>1, <1>4, <2>1, <2>3, <2>4
<1>5. QED BY <1>3, <1>4

\* A process at a failed subject that allows it goes on to an earned one.
LEMMA NextOk ==
    ASSUME SitesFit, IInv, NEW p \in Procs, NEW s \in Subjects, s = Subject(p), Touch(p, s),
           call[p].st \in Walking, ~call[p].live,
           NEW l \in Leases, NextSubject(p, l), lease'[s] = l, l.status = "failed",
           \/ l.class = "fallback" /\ s[2] = "primary" /\ s[3] = 0
           \/ MayRetry(l) /\ s[3] < MaxOrdinal
    PROVE  /\ \E d \in CallTypes : /\ call' = [call EXCEPT ![p] = d] /\ d.st = "lease"
                                   /\ d.req = call[p].req
           /\ WalkOk(p)' /\ OwnOk(p)' /\ DoneOk(p)'
<1>1. PICK r \in Requests, route \in Routes, n \in 0..MaxOrdinal :
        r = call[p].req /\ route = call[p].route /\ n = call[p].ord
  BY DEF IInv, TypeInv, CallTypes, At, Walking, Looking, Owning
<1>2. s = <<r, route, n>> /\ s[1] = r /\ s[2] = route /\ s[3] = n
  BY <1>1, SubjectTypes DEF Subject
<1>3. Earned(r, route, n)
  BY <1>1 DEF IInv, ProcInv, WalkOk
<1>4. l.class # "fallback" => call[p].ord < MaxOrdinal
  BY <1>1, <1>2
<1>5. PICK d \in CallTypes :
        /\ call' = [call EXCEPT ![p] = d] /\ d.st = "lease" /\ d.req = call[p].req
        /\ d.live = call[p].live
        /\ l.class = "fallback" => d.route = "fallback" /\ d.ord = 0
        /\ l.class # "fallback" => d.route = call[p].route /\ d.ord = call[p].ord + 1
                                   /\ d.prev = l
  BY <1>4, NextFields
<1>6. call'[p] = d
  BY <1>5 DEF IInv, TypeInv
<1>7. CASE l.class = "fallback"
  <2>1. route = "primary" /\ n = 0
    BY <1>2, <1>7 DEF MayRetry
  <2>2. \A j \in 0..MaxOrdinal : ~(j < 0)
    BY SMT DEF SitesFit
  <2>3. FellBack(lease'[<<r, "primary", 0>>])
    BY <1>2, <1>7, <2>1 DEF FellBack
  <2>4. Earned(r, "fallback", 0)'
    BY <2>2, <2>3 DEF Earned, FellBack
  <2>5. ~(0 > 0)
    BY SMT
  <2>6. WalkOk(p)'
    BY <1>1, <1>5, <1>6, <1>7, <2>4, <2>5 DEF WalkOk, At, Preparing
  <2>7. QED
    BY <1>5, <1>6, <2>6 DEF OwnOk, DoneOk, At, Owning, AfterSend
<1>8. CASE l.class # "fallback"
  <2>1. MayRetry(l) /\ Retried(lease'[<<r, route, n>>])
    BY <1>2, <1>8 DEF Retried
  <2>2. /\ Earned(r, route, n)'
        /\ \A j \in 0..MaxOrdinal : j < n => lease'[<<r, route, j>>] = lease[<<r, route, j>>]
    BY <1>3, EarnedStays
  <2>3. \A j \in 0..MaxOrdinal : j < n + 1 => j < n \/ j = n
    BY SMT DEF SitesFit
  <2>4. \A j \in 0..MaxOrdinal : j < n + 1 => Retried(lease'[<<r, route, j>>])
    BY <2>1, <2>2, <2>3 DEF Earned, Retried, MayRetry
  <2>5. Earned(r, route, n + 1)'
    BY <2>2, <2>4 DEF Earned, Retried, MayRetry
  <2>6. (n + 1) - 1 = n
    BY SMT DEF SitesFit
  <2>7. d.prev = lease'[<<r, route, n>>]
    BY <1>2, <1>5, <1>8
  <2>8. WalkOk(p)'
    BY <1>1, <1>5, <1>6, <1>8, <2>5, <2>6, <2>7 DEF WalkOk, At, Preparing
  <2>9. QED
    BY <1>5, <1>6, <2>8 DEF OwnOk, DoneOk, At, Owning, AfterSend
<1>9. QED BY <1>7, <1>8

\* What _inspect_subject may decide.
LEMMA Decides ==
    ASSUME SitesFit, IInv, NEW p \in Procs, InspectResult(p)
    PROVE  \/ Ends(p)
           \/ Goto(p, "claim") /\ ~(call[p].ord > RetryLimit(call[p].max, call[p].prev))
           \/ /\ Goto(p, "complete") /\ call[p].lease.status \in {"started", "completed"}
              /\ result[Subject(p)] # None
           \/ /\ NextSubject(p, call[p].lease) /\ call[p].lease.status = "failed"
              /\ call[p].lease.class = "fallback" \/ MayRetry(call[p].lease)
<1>1. PICK l \in Leases : l = call[p].lease
  BY DEF IInv, TypeInv, TypeOK
<1>2. LeaseFit(l) /\ At(p, "result")
  BY <1>1 DEF InspectResult, IInv, ProcInv, WalkOk
<1>3. l # NoLease => l.status \in {"started", "failed", "completed"}
  BY <1>2, LeaseTypes DEF LeaseFit
<1>4. CASE l = NoLease
  BY <1>1, <1>4 DEF InspectResult, Returns, Raises
<1>5. CASE l # NoLease /\ Closed(p)
  BY <1>1, <1>5 DEF InspectResult, Raises
<1>6. CASE l # NoLease /\ ~Closed(p) /\ result[Subject(p)] # None
  BY <1>1, <1>3, <1>6 DEF InspectResult, Raises
<1>7. CASE l # NoLease /\ ~Closed(p) /\ result[Subject(p)] = None
  <2>1. CASE l.status = "started"
    BY <1>1, <1>7, <2>1 DEF InspectResult, Raises
  <2>2. CASE l.status = "completed"
    BY <1>1, <1>7, <2>2 DEF InspectResult, Raises
  <2>3. CASE l.status = "failed"
    BY <1>1, <1>7, <2>3 DEF InspectResult, Raises
  <2>4. QED BY <1>3, <1>7, <2>1, <2>2, <2>3
<1>8. QED BY <1>4, <1>5, <1>6, <1>7

\* A step that changes no row touches no subject.
LEMMA StillTouches ==
    ASSUME IInv, Still, NEW p \in Procs, NEW s \in Subjects,
           \A q \in Procs \ {p} : call'[q] = call[q]
    PROVE  Touch(p, s)
BY DEF Touch, Still

LEMMA InspectResultKeeps ==
    ASSUME SitesFit, IInv, NEW p \in Procs, InspectResult(p), UNCHANGED site
    PROVE  IInv'
<1>1. At(p, "result") /\ call[p].st = "result" /\ Quiet /\ Still
  BY QuietAction DEF InspectResult, At, history, Quiet
<1>2. call[p] \in CallTypes /\ call[p].req \in Requests /\ Subject(p) \in Subjects
  BY <1>1, SubjectOf DEF IInv, TypeInv, At
<1>3. call[p].st \in Looking /\ call[p].st \in Walking /\ wires = {call[p].req}
  BY <1>1 DEF Looking, Walking, IInv, WireInv
<1>4. /\ LeaseFit(call[p].lease) /\ ~call[p].live
      /\ call[p].lease.status = "failed" => lease[Subject(p)] = call[p].lease
  BY <1>1 DEF IInv, ProcInv, WalkOk, DoneOk
<1>5. CASE Ends(p)
  BY <1>1, <1>5, EndsKeeps
<1>6. CASE Goto(p, "claim") /\ ~(call[p].ord > RetryLimit(call[p].max, call[p].prev))
  <2>1. PICK m \in Nat, n \in Nat, b \in Leases : m = call[p].max /\ n = call[p].ord /\ b = call[p].prev
    BY <1>2, SMT DEF CallTypes
  <2>2. RetryLimit(m, b) \in Nat /\ (b.busy => RetryLimit(m, b) <= BusyRetryLimit)
    BY RetryLimitBound
  <2>3. ASSUME b.busy PROVE n <= BusyRetryLimit
    <3>1. RetryLimit(m, b) <= 2 /\ ~(n > RetryLimit(m, b))
      BY <1>6, <2>1, <2>2, <2>3 DEF BusyRetryLimit
    <3>2. n <= 2
      BY <2>2, <3>1, SMT
    <3>3. QED BY <3>2 DEF BusyRetryLimit
  <2>4. "claim" \in Points /\ "claim" \notin Preparing /\ "claim" \notin Owning
        /\ "claim" \notin AfterSend
    BY DEF Points, Walking, Looking, Preparing, Owning, AfterSend
  <2>5. QED BY <1>1, <1>3, <1>6, <2>1, <2>3, <2>4, GotoKeeps
<1>7. CASE /\ Goto(p, "complete") /\ call[p].lease.status \in {"started", "completed"}
           /\ result[Subject(p)] # None
  <2>1. "complete" \in Points /\ "complete" \notin Preparing /\ "complete" \notin Owning
        /\ "complete" \notin Looking /\ "complete" \notin AfterSend
    BY DEF Points, Walking, Looking, Preparing, Owning, AfterSend
  <2>2. QED BY <1>1, <1>3, <1>4, <1>7, <2>1, GotoKeeps
<1>8. CASE /\ NextSubject(p, call[p].lease) /\ call[p].lease.status = "failed"
           /\ call[p].lease.class = "fallback" \/ MayRetry(call[p].lease)
  <2>1. PICK s \in Subjects : s = Subject(p)
    BY <1>2
  <2>2. PICK l \in Leases : l = call[p].lease
    BY <1>2 DEF CallTypes
  <2>3. lease[s] = l /\ lease'[s] = l /\ l.status = "failed"
    BY <1>1, <1>4, <1>8, <2>1, <2>2 DEF Still
  <2>4. \/ l.class = "fallback" /\ s[2] = "primary" /\ s[3] = 0
        \/ MayRetry(l) /\ s[3] < MaxOrdinal
    BY <1>8, <2>2, <2>3 DEF IInv, SubjectInv, FailedOk
  <2>5. \A q \in Procs \ {p} : call'[q] = call[q]
    BY <1>8 DEF NextSubject, IInv, TypeInv
  <2>6. Touch(p, s)
    BY <1>1, <2>5, StillTouches
  <2>7. NextSubject(p, l)
    BY <1>8, <2>2
  <2>8. /\ \E d \in CallTypes : /\ call' = [call EXCEPT ![p] = d] /\ d.st = "lease"
                                /\ d.req = call[p].req
        /\ WalkOk(p)' /\ OwnOk(p)' /\ DoneOk(p)'
    BY <1>3, <1>4, <2>1, <2>3, <2>4, <2>6, <2>7, NextOk
  <2>9. "lease" \notin Owning
    BY DEF Owning
  <2>10. QED BY <1>1, <1>2, <1>3, <2>8, <2>9, QuietKeeps
<1>9. QED BY <1>5, <1>6, <1>7, <1>8, Decides

(***************************************************************************)
(* A send and how it ends                                                  *)
(***************************************************************************)

\* Steps of the owner, and crashes, that write nothing.
LEMMA OwnerKeeps ==
    ASSUME SitesFit, IInv, NEW p \in Procs,
           CallbackFails(p) \/ AnswerOk(p) \/ AnswerUnclassified(p), UNCHANGED site
    PROVE  IInv'
<1>1. Quiet
  BY QuietAction DEF CallbackFails, AnswerOk, AnswerUnclassified, history
<1>2. call[p].st \in {"send", "persist", "sent"}
  BY DEF CallbackFails, AnswerOk, AnswerUnclassified, At
<1>3. call[p].st \in Owning /\ call[p].st \in Walking
  BY <1>2 DEF Owning, Walking
<1>4. PICK l \in {"doubt", "persist", "doubt_notify"} :
        Goto(p, l) /\ (l # "doubt" => call[p].st = "sent")
  BY DEF CallbackFails, AnswerOk, AnswerUnclassified, At
<1>5. l \in Points /\ l \notin Preparing /\ l \notin Looking /\ (l \in AfterSend => l # "doubt")
  BY DEF Points, Walking, Looking, Preparing, Owning, AfterSend
<1>6. l \in AfterSend => sends[Subject(p)] > 0
  BY <1>4, <1>5 DEF IInv, ProcInv, OwnOk, AfterSend
<1>7. QED BY <1>1, <1>2, <1>3, <1>4, <1>5, <1>6, GotoKeeps

LEMMA CrashKeeps ==
    ASSUME SitesFit, IInv, NEW p \in Procs, Crash(p), UNCHANGED site
    PROVE  IInv'
<1>1. Quiet
  BY QuietAction DEF Crash, history
<1>2. QED BY <1>1, EndsKeeps DEF Crash

\* A call that ends says nothing of subjects.
LEMMA IdleOk ==
    ASSUME SitesFit, IInv, NEW p \in Procs, Ends(p)
    PROVE  /\ Idle \in CallTypes /\ call' = [call EXCEPT ![p] = Idle] /\ Idle.st = "idle"
           /\ call'[p] = Idle /\ \A q \in Procs \ {p} : call'[q] = call[q]
           /\ call'[p].st \notin Walking /\ call'[p].st \notin Owning
           /\ WalkOk(p)' /\ OwnOk(p)' /\ DoneOk(p)'
<1>1. /\ call' = [call EXCEPT ![p] = Idle] /\ call'[p] = Idle
      /\ \A q \in Procs \ {p} : call'[q] = call[q]
  BY DEF Ends, IInv, TypeInv
<1>2. Idle \in CallTypes /\ Idle.st = "idle" /\ ~Idle.live
  BY IdleType
<1>3. WalkOk(p)' /\ OwnOk(p)' /\ DoneOk(p)'
  BY <1>1, <1>2 DEF WalkOk, OwnOk, DoneOk, At, Preparing, Walking, Looking, Owning, AfterSend
<1>4. QED BY <1>1, <1>2, <1>3 DEF Walking, Looking, Owning

\* The subject of a process past its envelope.
LEMMA Here ==
    ASSUME SitesFit, IInv, NEW p \in Procs, call[p].st \in Walking
    PROVE  /\ Subject(p) \in Subjects /\ Subject(p) = <<call[p].req, call[p].route, call[p].ord>>
           /\ Subject(p)[1] = call[p].req /\ Subject(p)[2] = call[p].route
           /\ Subject(p)[3] = call[p].ord /\ call[p].req \in Requests
           /\ call[p].route \in Routes /\ call[p].ord \in 0..MaxOrdinal
           /\ Earned(call[p].req, call[p].route, call[p].ord) /\ wires = {call[p].req}
<1>1. ~At(p, "idle") /\ call[p] \in CallTypes
  BY DEF At, Walking, Looking, Owning, IInv, TypeInv
<1>2. call[p].req \in Requests /\ call[p].route \in Routes /\ call[p].ord \in 0..MaxOrdinal
  BY <1>1 DEF IInv, TypeInv, CallTypes
<1>3. QED BY <1>1, <1>2, SubjectOf DEF IInv, ProcInv, WalkOk, WireInv, Subject

\* A subject that is touched stays earned, and what was before it stays.
LEMMA EarnedHere ==
    ASSUME SitesFit, IInv, NEW p \in Procs, NEW s \in Subjects, Touch(p, s),
           Earned(s[1], s[2], s[3])
    PROVE  /\ Earned(s[1], s[2], s[3])'
           /\ s[3] > 0 => lease'[<<s[1], s[2], s[3] - 1>>] = lease[<<s[1], s[2], s[3] - 1>>]
<1>1. s[1] \in Requests /\ s[2] \in Routes /\ s[3] \in 0..MaxOrdinal
  BY SubjectParts
<1>2. /\ Earned(s[1], s[2], s[3])'
      /\ \A j \in 0..MaxOrdinal : j < s[3] =>
            lease'[<<s[1], s[2], j>>] = lease[<<s[1], s[2], j>>]
  BY <1>1, EarnedStays
<1>3. ASSUME s[3] > 0 PROVE s[3] - 1 \in 0..MaxOrdinal /\ s[3] - 1 < s[3]
  BY <1>1, <1>3, SMT DEF SitesFit
<1>4. QED BY <1>2, <1>3

\* A claimed subject stays in order while its lease moves on.
LEMMA ClaimedStays ==
    ASSUME SitesFit, IInv, NEW p \in Procs, NEW s \in Subjects, Touch(p, s),
           lease[s] # NoLease, lease'[s] # NoLease, LeaseFit(lease'[s]), sends'[s] <= 1
    PROVE  LeaseOk(s)'
<1>1. LeaseOk(s)
  BY DEF IInv, SubjectInv
<1>2. /\ Earned(s[1], s[2], s[3])
      /\ s[3] > 0 /\ lease[<<s[1], s[2], s[3] - 1>>].busy => s[3] <= BusyRetryLimit
  BY <1>1 DEF LeaseOk
<1>3. /\ Earned(s[1], s[2], s[3])'
      /\ s[3] > 0 => lease'[<<s[1], s[2], s[3] - 1>>] = lease[<<s[1], s[2], s[3] - 1>>]
  BY <1>2, EarnedHere
<1>4. LeaseFit(lease[s])'
  BY DEF LeaseFit
<1>5. QED BY <1>2, <1>3, <1>4 DEF LeaseOk

\* The owner of a subject is alone with it.
LEMMA OwnsAlone ==
    ASSUME SitesFit, IInv, NEW p \in Procs, call[p].st \in Owning
    PROVE  /\ Subject(p) \in Subjects /\ lease[Subject(p)] = Started(1)
           /\ lease[Subject(p)] # NoLease
           /\ call[p].lease = Started(1) /\ result[Subject(p)] = None
           /\ lease[Subject(p)].status = "started" /\ ~call[p].live
           /\ \A q \in Procs \ {p} : call[q].st \in Owning => Subject(q) # Subject(p)
<1>1. Subject(p) \in Subjects
  BY Here DEF Walking
<1>2. OwnOk(p) /\ DoneOk(p)
  BY DEF IInv, ProcInv
<1>3. call[p].lease = Started(1) /\ lease[Subject(p)] = Started(1) /\ result[Subject(p)] = None
  BY <1>2 DEF OwnOk
<1>4. Started(1).status = "started" /\ Started(1) # NoLease
  BY LeaseTypes
<1>5. ~call[p].live
  BY <1>2 DEF DoneOk, Owning
<1>6. QED BY <1>1, <1>3, <1>4, <1>5 DEF IInv, OneOwner

\* append of an accounting receipt: one per ordinal, of a subject that was sent.
LEMMA AppendKeeps ==
    ASSUME SitesFit, IInv, NEW s \in Subjects, NEW how \in {"failed", "uncertain", "completed"},
           CanAppend(s, how), ledger' = Appended(s, how), sends' = sends, sends[s] > 0
    PROVE  /\ ledger' \in [Ordinals -> Receipts \union {None}]
           /\ \A n \in Ordinals : ledger[n] # None => ledger'[n] = ledger[n]
           /\ ledger'[provider_physical_ordinal(s)] = [subject |-> s, outcome |-> how]
           /\ LedgerInv'
<1>1. provider_physical_ordinal(s) \in Ordinals
  BY SubjectParts
<1>2. PICK o \in Ordinals : o = provider_physical_ordinal(s)
  BY <1>1
<1>3. PICK e \in Receipts : e = [subject |-> s, outcome |-> how] /\ e # None /\ e.subject = s
  BY ReceiptTypes
<1>4. ledger \in [Ordinals -> Receipts \union {None}]
  BY DEF IInv, TypeInv, TypeOK
<1>5. ledger' = [ledger EXCEPT ![o] = e] /\ ledger[o] \in {None, e}
  BY <1>2, <1>3 DEF Appended, CanAppend
<1>6. /\ ledger' \in [Ordinals -> Receipts \union {None}] /\ ledger'[o] = e
      /\ \A n \in Ordinals \ {o} : ledger'[n] = ledger[n]
  BY <1>4, <1>5
<1>7. \A n \in Ordinals : ledger[n] # None => ledger'[n] = ledger[n]
  BY <1>5, <1>6
<1>8. ASSUME NEW n \in Ordinals, ledger'[n] # None
      PROVE  sends'[ledger'[n].subject] > 0 /\ provider_physical_ordinal(ledger'[n].subject) = n
  <2>1. CASE n = o
    BY <1>2, <1>3, <1>6, <2>1
  <2>2. CASE n # o
    BY <1>6, <1>8, <2>2 DEF IInv, LedgerInv
  <2>3. QED BY <2>1, <2>2
<1>9. LedgerInv'
  BY <1>8 DEF LedgerInv, provider_physical_ordinal
<1>10. QED BY <1>2, <1>3, <1>6, <1>7, <1>9

\* The claim: compare-and-set from revision zero, so there is one owner.
LEMMA ClaimKeeps ==
    ASSUME SitesFit, IInv, NEW p \in Procs, Claim(p), UNCHANGED site
    PROVE  IInv'
<1>1. At(p, "claim") /\ call[p].st = "claim" /\ call[p].st \in Walking /\ call[p].st \in Looking
  BY DEF Claim, At, Walking, Looking
<1>2. UNCHANGED <<site, catalogs, wireBytes, wires, result, ledger, sends, delivered, emitted>>
  BY DEF Claim, authority, history
<1>3. CASE lease[Subject(p)] # NoLease
  <2>1. Goto(p, "lease") /\ Quiet
    BY <1>2, <1>3 DEF Claim, Quiet, Still, IInv, TypeInv, TypeOK
  <2>2. "lease" \in Points /\ "lease" \notin Preparing /\ "lease" \notin Owning
        /\ "lease" \notin AfterSend
    BY DEF Points, Walking, Looking, Preparing, Owning, AfterSend
  <2>3. QED BY <1>1, <2>1, <2>2, GotoKeeps
<1>4. CASE lease[Subject(p)] = NoLease
  <2>1. PICK s \in Subjects : s = Subject(p) /\ s[1] = call[p].req /\ s[2] = call[p].route
                              /\ s[3] = call[p].ord
    BY <1>1, Here
  <2>2. Earned(s[1], s[2], s[3]) /\ wires = {s[1]} /\ call[p].req \in Requests
    BY <1>1, <2>1, Here
  <2>3. PICK k \in Leases : k = Started(1) /\ k # NoLease /\ k.status = "started" /\ LeaseFit(k)
    BY LeaseTypes DEF LeaseFit
  <2>4. PICK c \in CallTypes : c = call[p]
    BY DEF IInv, TypeInv
  <2>5. PICK d : d = [c EXCEPT !.lease = k, !.st = "send"]
    OBVIOUS
  <2>6. /\ d \in CallTypes /\ d.st = "send" /\ d.lease = k /\ d.req = c.req /\ d.route = c.route
        /\ d.ord = c.ord /\ d.live = c.live
    BY <2>5 DEF CallTypes, Points, Walking, Owning
  <2>7. call' = [call EXCEPT ![p] = d] /\ lease' = [lease EXCEPT ![s] = k]
    BY <1>4, <2>1, <2>3, <2>4, <2>5 DEF Claim
  <2>8. /\ lease' \in [Subjects -> Leases] /\ lease'[s] = k
        /\ \A t \in Subjects \ {s} : lease'[t] = lease[t]
    BY <2>7 DEF IInv, TypeInv, TypeOK
  <2>9. StoreTypes'
    BY <1>2, <2>8 DEF StoreTypes, IInv, TypeInv, TypeOK
  <2>10. TypeInv' /\ call'[p] = d /\ \A q \in Procs \ {p} : call'[q] = call[q]
    BY <2>2, <2>4, <2>6, <2>7, <2>9, StepTypes
  <2>11. Subject(p)' = s
    BY <2>1, <2>4, <2>6, <2>10 DEF Subject
  <2>12. sends[s] = 0 /\ result[s] = None /\ lease[s] = NoLease
    BY <1>4, <2>1 DEF IInv, SubjectInv, LeaseOk
  <2>13. \A q \in Procs \ {p} : call[q].st \in Owning => Subject(q) # s
    BY <2>3, <2>12 DEF IInv, ProcInv, OwnOk
  <2>14. lease[s].status # "failed" /\ lease[s].status # "completed"
    BY <2>12, LeaseTypes
  <2>15. Touch(p, s)
    BY <1>2, <2>8, <2>10, <2>13, <2>14 DEF Touch
  <2>16. /\ Earned(s[1], s[2], s[3])'
         /\ s[3] > 0 => lease'[<<s[1], s[2], s[3] - 1>>] = lease[<<s[1], s[2], s[3] - 1>>]
    BY <2>2, <2>15, EarnedHere
  <2>17. Earned(call[p].req, call[p].route, call[p].ord)'
    BY <2>1, <2>4, <2>6, <2>10, <2>16 DEF Earned
  <2>18. LeaseOk(s)'
    <3>1. WalkOk(p)
      BY DEF IInv, ProcInv
    <3>2. s[3] > 0 /\ lease[<<s[1], s[2], s[3] - 1>>].busy => s[3] <= BusyRetryLimit
      BY <1>1, <2>1, <3>1 DEF WalkOk
    <3>3. sends'[s] <= 1 /\ LeaseFit(lease[s])'
      <4>1. 0 <= 1
        BY SMT
      <4>2. QED BY <1>2, <2>3, <2>8, <2>12, <4>1 DEF LeaseFit
    <3>4. QED BY <2>3, <2>8, <2>16, <3>2, <3>3 DEF LeaseOk
  <2>19. FailedOk(s)' /\ ResultOk(s)'
    BY <1>2, <2>3, <2>8, <2>12 DEF FailedOk, ResultOk
  <2>20. WalkOk(p)'
    BY <2>6, <2>10, <2>17 DEF WalkOk, At, Preparing, Looking
  <2>21. OwnOk(p)'
    BY <1>2, <2>3, <2>6, <2>8, <2>10, <2>11, <2>12 DEF OwnOk, At, AfterSend
  <2>22. DoneOk(p)'
    BY <1>1, <2>4, <2>6, <2>10 DEF DoneOk, At, IInv, ProcInv
  <2>23. LedgerInv' /\ HistoryInv'
    BY <1>2, <2>15, HistoryKept
  <2>24. "send" # "append_wire" /\ wires = {call'[p].req}
    BY <2>1, <2>2, <2>4, <2>6, <2>10
  <2>25. QED
    BY <1>2, <2>2, <2>6, <2>10, <2>11, <2>13, <2>15, <2>18, <2>19, <2>20, <2>21, <2>22, <2>23,
       <2>24, StepKeeps
<1>5. QED BY <1>3, <1>4

\* The owner sends, once.
LEMMA SendKeeps ==
    ASSUME SitesFit, IInv, NEW p \in Procs, Send(p), UNCHANGED site
    PROVE  IInv'
<1>1. At(p, "send") /\ call[p].st = "send" /\ call[p].st \in Walking /\ call[p].st \in Owning
  BY DEF Send, At, Walking, Owning
<1>2. /\ UNCHANGED <<site, catalogs, wireBytes, wires, lease, result, ledger, delivered, emitted>>
      /\ Goto(p, "sent")
  BY DEF Send, durable, authority
<1>3. PICK s \in Subjects : s = Subject(p) /\ s[1] = call[p].req /\ s[2] = call[p].route
                            /\ s[3] = call[p].ord
  BY <1>1, Here
<1>4. Earned(s[1], s[2], s[3]) /\ wires = {s[1]} /\ call[p].req \in Requests
  BY <1>1, <1>3, Here
<1>5. /\ lease[s] = Started(1) /\ lease[s] # NoLease /\ result[s] = None
      /\ call[p].lease = Started(1) /\ ~call[p].live /\ lease[s].status = "started"
      /\ \A q \in Procs \ {p} : call[q].st \in Owning => Subject(q) # s
  BY <1>1, <1>3, OwnsAlone
<1>6. sends[s] = 0 /\ LeaseOk(s)
  BY <1>1, <1>3 DEF IInv, ProcInv, OwnOk, SubjectInv
<1>7. "sent" \in Points
  BY DEF Points, Walking, Owning
<1>8. PICK d \in CallTypes : call' = [call EXCEPT ![p] = d]
  BY <1>2, <1>7, GotoFields
<1>9. /\ \A q \in Procs \ {p} : call'[q] = call[q]
      /\ call'[p].st = "sent" /\ call'[p].req = call[p].req /\ call'[p].route = call[p].route
      /\ call'[p].ord = call[p].ord /\ call'[p].lease = call[p].lease
      /\ call'[p].live = call[p].live /\ Subject(p)' = s
  BY <1>2, <1>3, <1>7, GotoFields
<1>10. d = call'[p]
  BY <1>8 DEF IInv, TypeInv
<1>11. sends' \in [Subjects -> Nat] /\ sends'[s] = 1 /\ \A t \in Subjects \ {s} : sends'[t] = sends[t]
  <2>1. sends \in [Subjects -> Nat] /\ sends' = [sends EXCEPT ![s] = 1]
    <3>1. sends' = [sends EXCEPT ![s] = sends[s] + 1] /\ 0 + 1 = 1
      BY <1>3, SMT DEF Send
    <3>2. QED BY <1>6, <3>1 DEF IInv, TypeInv, TypeOK
  <2>2. 1 \in Nat
    BY SMT
  <2>3. QED BY <2>1, <2>2
<1>12. 1 > 0 /\ 1 <= 1 /\ ~(0 > 0)
  BY SMT
<1>13. StoreTypes'
  BY <1>2, <1>11 DEF StoreTypes, IInv, TypeInv, TypeOK
<1>14. TypeInv'
  BY <1>4, <1>8, <1>9, <1>10, <1>13, StepTypes
<1>15. Touch(p, s)
  BY <1>2, <1>5, <1>9, <1>11, <1>12 DEF Touch
<1>16. LeaseOk(s)'
  BY <1>2, <1>5, <1>6, <1>11, <1>12, <1>15, ClaimedStays DEF LeaseOk
<1>17. FailedOk(s)' /\ ResultOk(s)'
  BY <1>2, <1>5 DEF FailedOk, ResultOk
<1>18. Earned(call[p].req, call[p].route, call[p].ord)'
  BY <1>2, <1>3, <1>4, <1>9 DEF Earned
<1>19. WalkOk(p)'
  BY <1>9, <1>18 DEF WalkOk, At, Preparing, Looking
<1>20. OwnOk(p)' /\ DoneOk(p)'
  BY <1>2, <1>3, <1>5, <1>9, <1>11, <1>12 DEF OwnOk, DoneOk, At
<1>21. LedgerInv' /\ HistoryInv'
  BY <1>2, <1>15, HistoryKept
<1>22. QED
  BY <1>2, <1>3, <1>4, <1>5, <1>9, <1>14, <1>15, <1>16, <1>17, <1>19, <1>20, <1>21, StepKeeps

\* _classified_failure_kind.
LEMMA KindTypes ==
    ASSUME NEW a, NEW route
    PROVE  ClassifiedKind(a, route) \in {"none", "transient", "fallback", "terminal"}
BY DEF ClassifiedKind

\* A classified failure: after_send appends the receipt of the send.
LEMMA AnswerFailedKeeps ==
    ASSUME SitesFit, IInv, NEW p \in Procs, AnswerFailed(p), UNCHANGED site
    PROVE  IInv'
<1>1. At(p, "sent") /\ call[p].st = "sent" /\ call[p].st \in Walking /\ call[p].st \in Owning
  BY DEF AnswerFailed, At, Walking, Owning
<1>2. UNCHANGED <<site, catalogs, wireBytes, wires, lease, result, sends, delivered, emitted>>
  BY DEF AnswerFailed, authority, history
<1>3. PICK s \in Subjects : s = Subject(p) /\ s[1] = call[p].req /\ s[2] = call[p].route
                            /\ s[3] = call[p].ord
  BY <1>1, Here
<1>4. Earned(s[1], s[2], s[3]) /\ wires = {s[1]} /\ call[p].req \in Requests
  BY <1>1, <1>3, Here
<1>5. /\ lease[s] = Started(1) /\ lease[s] # NoLease /\ result[s] = None
      /\ call[p].lease = Started(1) /\ ~call[p].live /\ lease[s].status = "started"
      /\ \A q \in Procs \ {p} : call[q].st \in Owning => Subject(q) # s
  BY <1>1, <1>3, OwnsAlone
<1>6. sends[s] > 0
  BY <1>1, <1>3 DEF IInv, ProcInv, OwnOk, AfterSend
<1>7. PICK a \in Answers :
        /\ ClassifiedKind(a, s[2]) # "none"
        /\ IF CanAppend(s, "failed")
           THEN /\ ledger' = Appended(s, "failed")
                /\ call' = [call EXCEPT ![p].st = "fail",
                              ![p].prev = [NoLease EXCEPT !.class = ClassifiedKind(a, s[2]),
                                                          !.busy = a = "status_503"]]
           ELSE Ends(p) /\ UNCHANGED ledger
  BY <1>3 DEF AnswerFailed, Raises
<1>8. CASE ~CanAppend(s, "failed")
  <2>1. Ends(p) /\ Quiet
    BY <1>2, <1>7, <1>8 DEF Quiet, Still, IInv, TypeInv, TypeOK
  <2>2. QED BY <2>1, EndsKeeps
<1>9. CASE CanAppend(s, "failed")
  <2>1. PICK k \in {"transient", "fallback", "terminal"} : k = ClassifiedKind(a, s[2])
    BY <1>7, KindTypes
  <2>2. PICK b : b = [NoLease EXCEPT !.class = k, !.busy = a = "status_503"]
    OBVIOUS
  <2>3. b \in Leases /\ b.class # "none"
    BY <2>2, LeaseTypes DEF Leases
  <2>4. PICK c \in CallTypes : c = call[p]
    BY DEF IInv, TypeInv
  <2>5. PICK d : d = [c EXCEPT !.st = "fail", !.prev = b]
    OBVIOUS
  <2>6. /\ d \in CallTypes /\ d.st = "fail" /\ d.lease = c.lease /\ d.req = c.req
        /\ d.route = c.route /\ d.ord = c.ord /\ d.live = c.live /\ d.prev = b
    BY <2>3, <2>5 DEF CallTypes, Points, Walking, Owning
  <2>7. call' = [call EXCEPT ![p] = d] /\ ledger' = Appended(s, "failed")
    BY <1>7, <1>9, <2>1, <2>2, <2>4, <2>5
  <2>8. /\ ledger' \in [Ordinals -> Receipts \union {None}]
        /\ \A n \in Ordinals : ledger[n] # None => ledger'[n] = ledger[n]
        /\ ledger'[provider_physical_ordinal(s)] = [subject |-> s, outcome |-> "failed"]
        /\ LedgerInv'
    BY <1>2, <1>6, <1>9, <2>7, AppendKeeps
  <2>9. StoreTypes'
    BY <1>2, <2>8 DEF StoreTypes, IInv, TypeInv, TypeOK
  <2>10. TypeInv' /\ call'[p] = d /\ \A q \in Procs \ {p} : call'[q] = call[q]
    BY <1>4, <2>4, <2>6, <2>7, <2>9, StepTypes
  <2>11. Subject(p)' = s
    BY <1>3, <2>4, <2>6, <2>10 DEF Subject
  <2>12. Touch(p, s)
    BY <1>2, <2>8, <2>10 DEF Touch
  <2>13. LeaseOk(s)' /\ FailedOk(s)' /\ ResultOk(s)'
    BY <1>2, <2>12, SubjectsKept
  <2>14. Earned(call[p].req, call[p].route, call[p].ord)'
    BY <1>2, <1>3, <1>4, <2>4, <2>6, <2>10 DEF Earned
  <2>15. WalkOk(p)'
    BY <2>6, <2>10, <2>14 DEF WalkOk, At, Preparing, Looking
  <2>16. ledger'[provider_physical_ordinal(Subject(p))'] =
           [subject |-> Subject(p)', outcome |-> "failed"]
    BY <2>8, <2>11 DEF provider_physical_ordinal
  <2>17. OwnOk(p)'
    BY <1>2, <1>5, <1>6, <2>3, <2>4, <2>6, <2>10, <2>11, <2>16 DEF OwnOk, At
  <2>18. DoneOk(p)'
    BY <1>5, <2>4, <2>6, <2>10 DEF DoneOk, At
  <2>19. HistoryInv'
    BY <1>2, <2>12, HistoryKept
  <2>20. wires = {call'[p].req}
    BY <1>3, <1>4, <2>4, <2>6, <2>10
  <2>21. QED
    BY <1>2, <1>4, <1>5, <2>6, <2>8, <2>10, <2>11, <2>12, <2>13, <2>15, <2>17, <2>18, <2>19,
       <2>20, StepKeeps
<1>10. QED BY <1>8, <1>9

\* record_failure: the owner's lease becomes FAILED, with the receipt before it.
LEMMA RecordFailureKeeps ==
    ASSUME SitesFit, IInv, NEW p \in Procs, RecordFailure(p), UNCHANGED site
    PROVE  IInv'
<1>1. At(p, "fail") /\ call[p].st = "fail" /\ call[p].st \in Walking /\ call[p].st \in Owning
  BY DEF RecordFailure, At, Walking, Owning
<1>2. UNCHANGED <<site, catalogs, wireBytes, wires, result, ledger, sends, delivered, emitted>>
  BY DEF RecordFailure, authority
<1>3. PICK s \in Subjects : s = Subject(p) /\ s[1] = call[p].req /\ s[2] = call[p].route
                            /\ s[3] = call[p].ord
  BY <1>1, Here
<1>4. Earned(s[1], s[2], s[3]) /\ wires = {s[1]} /\ call[p].req \in Requests
  BY <1>1, <1>3, Here
<1>5. /\ lease[s] = Started(1) /\ lease[s] # NoLease /\ result[s] = None
      /\ call[p].lease = Started(1) /\ ~call[p].live /\ lease[s].status = "started"
      /\ \A q \in Procs \ {p} : call[q].st \in Owning => Subject(q) # s
  BY <1>1, <1>3, OwnsAlone
<1>6. /\ call[p].prev.class # "none"
      /\ ledger[provider_physical_ordinal(s)] = [subject |-> s, outcome |-> "failed"]
  BY <1>1, <1>3 DEF IInv, ProcInv, OwnOk
<1>7. PICK b \in Leases, n \in 0..MaxOrdinal, x \in 0..MaxOrdinal :
        b = call[p].prev /\ n = call[p].ord /\ x = call[p].max
  BY DEF IInv, TypeInv, CallTypes
<1>8. PICK m \in BOOLEAN : m <=> n < RetryLimit(x, b)
  OBVIOUS
<1>9. PICK f : f = [b EXCEPT !.status = "failed", !.rev = Started(1).rev + 1,
                     !.retryable = b.class = "fallback" \/ (b.class = "transient" /\ m)]
  OBVIOUS
<1>10. /\ f \in Leases /\ f.status = "failed" /\ f.class = b.class /\ f.busy = b.busy
       /\ f.retryable <=> b.class = "fallback" \/ (b.class = "transient" /\ m)
  <2>1. Started(1).rev = 1 /\ 1 + 1 = 2 /\ 2 \in 0..3
    BY LeaseTypes, SMT
  <2>2. PICK t \in BOOLEAN : t <=> b.class = "fallback" \/ (b.class = "transient" /\ m)
    OBVIOUS
  <2>3. f = [b EXCEPT !.status = "failed", !.rev = 2, !.retryable = t]
    BY <1>9, <2>1, <2>2
  <2>4. /\ f \in Leases /\ f.status = "failed" /\ f.class = b.class /\ f.busy = b.busy
        /\ f.retryable = t
    BY <2>1, <2>3 DEF Leases
  <2>5. QED BY <2>2, <2>4
<1>11. f = [b EXCEPT !.status = "failed", !.rev = call[p].lease.rev + 1,
              !.retryable = b.class = "fallback" \/ (b.class = "transient" /\ n < RetryLimit(x, b))]
  BY <1>5, <1>8, <1>9
<1>12. CASE b.class = "fallback" /\ (s[2] # "primary" \/ s[3] # 0)
  <2>1. Ends(p) /\ UNCHANGED lease
    BY <1>3, <1>7, <1>12 DEF RecordFailure, Raises
  <2>2. Quiet
    BY <1>2, <2>1 DEF Quiet, Still, IInv, TypeInv, TypeOK
  <2>3. QED BY <2>1, <2>2, EndsKeeps
<1>13. CASE ~(b.class = "fallback" /\ (s[2] # "primary" \/ s[3] # 0))
  <2>1. lease' = [lease EXCEPT ![s] = f] /\ IF f.retryable THEN NextSubject(p, f) ELSE Ends(p)
    BY <1>3, <1>5, <1>7, <1>11, <1>13 DEF RecordFailure, Raises
  <2>2. /\ lease' \in [Subjects -> Leases] /\ lease'[s] = f
        /\ \A t \in Subjects \ {s} : lease'[t] = lease[t]
    BY <1>10, <2>1 DEF IInv, TypeInv, TypeOK
  <2>3. \A q \in Procs \ {p} : call'[q] = call[q]
    BY <2>1 DEF NextSubject, Ends, IInv, TypeInv
  <2>4. Touch(p, s)
    BY <1>2, <1>5, <2>2, <2>3 DEF Touch
  <2>5. f # NoLease /\ LeaseFit(f)
    BY <1>10, LeaseTypes DEF LeaseFit
  <2>6. ASSUME MayRetry(f) PROVE n < MaxOrdinal
    <3>1. n < RetryLimit(x, b)
      BY <1>8, <1>10, <2>6 DEF MayRetry
    <3>2. x \in Nat /\ x <= MaxOrdinal
      BY SMT DEF SitesFit
    <3>3. RetryLimit(x, b) \in Nat /\ RetryLimit(x, b) <= x
      BY <3>2, RetryLimitBound
    <3>4. QED BY <3>1, <3>2, <3>3, SMT DEF SitesFit
  <2>7. f.class = "fallback" => f.retryable /\ s[2] = "primary" /\ s[3] = 0
    BY <1>10, <1>13
  <2>8. LeaseOk(s)'
    BY <1>2, <1>5, <2>2, <2>4, <2>5, ClaimedStays DEF IInv, SubjectInv, LeaseOk
  <2>9. FailedOk(s)'
    BY <1>2, <1>3, <1>6, <1>7, <2>2, <2>6, <2>7 DEF FailedOk
  <2>10. ResultOk(s)'
    BY <1>2, <1>5 DEF ResultOk
  <2>11. /\ \E d \in CallTypes : /\ call' = [call EXCEPT ![p] = d] /\ d.st \in {"lease", "idle"}
                                 /\ d.st = "lease" => d.req = call[p].req
         /\ WalkOk(p)' /\ OwnOk(p)' /\ DoneOk(p)'
    <3>1. CASE f.retryable
      <4>1. NextSubject(p, f)
        BY <2>1, <3>1
      <4>2. \/ f.class = "fallback" /\ s[2] = "primary" /\ s[3] = 0
            \/ MayRetry(f) /\ s[3] < MaxOrdinal
        BY <1>3, <1>7, <1>10, <2>6, <2>7, <3>1 DEF MayRetry
      <4>3. QED BY <1>1, <1>3, <1>5, <1>10, <2>2, <2>4, <4>1, <4>2, NextOk
    <3>2. CASE ~f.retryable
      BY <2>1, <3>2, IdleOk
    <3>3. QED BY <3>1, <3>2
  <2>12. PICK d \in CallTypes : /\ call' = [call EXCEPT ![p] = d] /\ d.st \in {"lease", "idle"}
                                /\ d.st = "lease" => d.req = call[p].req
    BY <2>11
  <2>13. StoreTypes'
    BY <1>2, <2>2 DEF StoreTypes, IInv, TypeInv, TypeOK
  <2>14. TypeInv' /\ call'[p] = d
    BY <1>4, <2>12, <2>13, StepTypes
  <2>15. LedgerInv' /\ HistoryInv'
    BY <1>2, <2>4, HistoryKept
  <2>16. "idle" \notin Walking /\ "idle" \notin Owning /\ "lease" \notin Owning
    BY DEF Walking, Looking, Owning
  <2>17. QED
    BY <1>2, <1>3, <1>4, <2>4, <2>8, <2>9, <2>10, <2>11, <2>12, <2>14, <2>15, <2>16, StepKeeps
<1>14. QED BY <1>12, <1>13

\* _uncertain_error: the note that the outcome is unknown, if it succeeds.
LEMMA RecordUncertaintyKeeps ==
    ASSUME SitesFit, IInv, NEW p \in Procs, RecordUncertainty(p), UNCHANGED site
    PROVE  IInv'
<1>1. /\ call[p].st \in {"doubt", "doubt_notify"} /\ call[p].st \in Walking
      /\ call[p].st \in Owning
  BY DEF RecordUncertainty, Walking, Owning
<1>2. UNCHANGED <<site, catalogs, wireBytes, wires, result, ledger, sends, delivered, emitted>>
  BY DEF RecordUncertainty, authority, history
<1>3. PICK s \in Subjects : s = Subject(p) /\ s[1] = call[p].req /\ s[2] = call[p].route
                            /\ s[3] = call[p].ord
  BY <1>1, Here
<1>4. Earned(s[1], s[2], s[3]) /\ wires = {s[1]} /\ call[p].req \in Requests
  BY <1>1, <1>3, Here
<1>5. /\ lease[s] = Started(1) /\ lease[s] # NoLease /\ result[s] = None
      /\ call[p].lease = Started(1) /\ ~call[p].live /\ lease[s].status = "started"
      /\ \A q \in Procs \ {p} : call[q].st \in Owning => Subject(q) # s
  BY <1>1, <1>3, OwnsAlone
<1>6. PICK k \in {Started(1), Started(2)} : lease' = [lease EXCEPT ![s] = k]
  <2>1. CASE lease' = lease
    <3>1. lease' = [lease EXCEPT ![s] = Started(1)]
      BY <1>5, <2>1 DEF IInv, TypeInv, TypeOK
    <3>2. QED BY <3>1
  <2>2. CASE lease' = [lease EXCEPT ![s] = IF @ = call[p].lease THEN Started(2) ELSE @]
    <3>1. lease' = [lease EXCEPT ![s] = Started(2)]
      BY <1>5, <2>2
    <3>2. QED BY <3>1
  <2>3. QED BY <1>3, <2>1, <2>2 DEF RecordUncertainty
<1>7. k \in Leases /\ k # NoLease /\ k.status = "started" /\ LeaseFit(k)
  BY LeaseTypes DEF LeaseFit
<1>8. /\ lease' \in [Subjects -> Leases] /\ lease'[s] = k
      /\ \A t \in Subjects \ {s} : lease'[t] = lease[t]
  BY <1>6, <1>7 DEF IInv, TypeInv, TypeOK
<1>9. PICK d \in CallTypes :
        /\ call' = [call EXCEPT ![p] = d] /\ d.st \in {"idle", "notify"}
        /\ d.st = "notify" => /\ d.req = call[p].req /\ d.route = call[p].route
                              /\ d.ord = call[p].ord /\ d.live = call[p].live
                              /\ call[p].st = "doubt_notify"
        /\ d.st = "idle" => Ends(p)
  <2>1. CASE Ends(p)
    BY <2>1, IdleOk
  <2>2. CASE Goto(p, "notify") /\ call[p].st = "doubt_notify"
    <3>1. "notify" \in Points
      BY DEF Points, Walking
    <3>2. PICK d \in CallTypes : call' = [call EXCEPT ![p] = d]
      BY <2>2, <3>1, GotoFields
    <3>3. d = call'[p]
      BY <3>2 DEF IInv, TypeInv
    <3>4. /\ call'[p].st = "notify" /\ call'[p].req = call[p].req
          /\ call'[p].route = call[p].route /\ call'[p].ord = call[p].ord
          /\ call'[p].live = call[p].live
      BY <2>2, <3>1, GotoFields
    <3>5. QED BY <2>2, <3>2, <3>3, <3>4
  <2>3. QED BY <1>1, <2>1, <2>2 DEF RecordUncertainty, Raises, At
<1>10. call'[p] = d /\ \A q \in Procs \ {p} : call'[q] = call[q]
  BY <1>9 DEF IInv, TypeInv
<1>11. StoreTypes'
  BY <1>2, <1>8 DEF StoreTypes, IInv, TypeInv, TypeOK
<1>12. TypeInv'
  BY <1>4, <1>9, <1>11, StepTypes
<1>13. Touch(p, s)
  BY <1>2, <1>5, <1>8, <1>10 DEF Touch
<1>14. LeaseOk(s)'
  BY <1>2, <1>5, <1>7, <1>8, <1>13, ClaimedStays DEF IInv, SubjectInv, LeaseOk
<1>15. FailedOk(s)' /\ ResultOk(s)'
  BY <1>2, <1>5, <1>7, <1>8 DEF FailedOk, ResultOk
<1>16. WalkOk(p)' /\ OwnOk(p)' /\ DoneOk(p)'
  <2>1. CASE d.st = "idle"
    BY <1>9, <2>1, IdleOk
  <2>2. CASE d.st = "notify"
    <3>1. Subject(p)' = s
      BY <1>3, <1>9, <1>10, <2>2 DEF Subject
    <3>2. sends'[s] > 0
      BY <1>2, <1>3, <1>9, <2>2 DEF IInv, ProcInv, OwnOk, AfterSend
    <3>3. Earned(s[1], s[2], s[3])'
      BY <1>4, <1>13, EarnedHere
    <3>4. Earned(call[p].req, call[p].route, call[p].ord)'
      BY <1>3, <1>9, <1>10, <2>2, <3>3 DEF Earned
    <3>5. WalkOk(p)'
      BY <1>10, <2>2, <3>4 DEF WalkOk, At, Preparing, Looking
    <3>6. OwnOk(p)'
      BY <1>10, <2>2, <3>1, <3>2 DEF OwnOk, At, Owning
    <3>7. DoneOk(p)'
      BY <1>5, <1>9, <1>10, <2>2 DEF DoneOk, At
    <3>8. QED BY <3>5, <3>6, <3>7
  <2>3. QED BY <1>9, <2>1, <2>2
<1>17. LedgerInv' /\ HistoryInv'
  BY <1>2, <1>13, HistoryKept
<1>18. "idle" \notin Walking /\ "idle" \notin Owning /\ "notify" \notin Owning
  BY DEF Walking, Looking, Owning
<1>19. QED
  BY <1>2, <1>3, <1>4, <1>9, <1>10, <1>12, <1>13, <1>14, <1>15, <1>16, <1>17, <1>18, StepKeeps

\* after_send of an uncertain send: its receipt, if the ordinal has none.
LEMMA NotifyKeeps ==
    ASSUME SitesFit, IInv, NEW p \in Procs, NotifyUncertain(p), UNCHANGED site
    PROVE  IInv'
<1>1. At(p, "notify") /\ call[p].st = "notify" /\ call[p].st \in Walking /\ Ends(p)
  BY DEF NotifyUncertain, At, Walking, Raises
<1>2. UNCHANGED <<site, catalogs, wireBytes, wires, lease, result, sends, delivered, emitted>>
  BY DEF NotifyUncertain, authority, history
<1>3. PICK s \in Subjects : s = Subject(p) /\ sends[s] > 0
  BY <1>1, Here DEF IInv, ProcInv, OwnOk, AfterSend
<1>4. CASE ~CanAppend(s, "uncertain")
  <2>1. Quiet
    BY <1>2, <1>3, <1>4 DEF NotifyUncertain, Quiet, Still, IInv, TypeInv, TypeOK
  <2>2. QED BY <1>1, <2>1, EndsKeeps
<1>5. CASE CanAppend(s, "uncertain")
  <2>1. ledger' = Appended(s, "uncertain")
    BY <1>3, <1>5 DEF NotifyUncertain
  <2>2. /\ ledger' \in [Ordinals -> Receipts \union {None}] /\ LedgerInv'
        /\ \A n \in Ordinals : ledger[n] # None => ledger'[n] = ledger[n]
    BY <1>2, <1>3, <1>5, <2>1, AppendKeeps
  <2>3. StoreTypes'
    BY <1>2, <2>2 DEF StoreTypes, IInv, TypeInv, TypeOK
  <2>4. /\ Idle \in CallTypes /\ call' = [call EXCEPT ![p] = Idle] /\ Idle.st = "idle"
        /\ call'[p] = Idle /\ \A q \in Procs \ {p} : call'[q] = call[q]
        /\ call'[p].st \notin Walking /\ call'[p].st \notin Owning
        /\ WalkOk(p)' /\ OwnOk(p)' /\ DoneOk(p)'
    BY <1>1, IdleOk
  <2>5. TypeInv'
    BY <2>3, <2>4, StepTypes
  <2>6. Touch(p, s)
    BY <1>2, <2>2, <2>4 DEF Touch
  <2>7. LeaseOk(s)' /\ FailedOk(s)' /\ ResultOk(s)'
    BY <1>2, <2>6, SubjectsKept
  <2>8. HistoryInv'
    BY <1>2, <2>6, HistoryKept
  <2>9. lease'[s] # NoLease => wires = {s[1]}
    BY <1>2 DEF IInv, WireInv
  <2>10. QED BY <1>2, <2>2, <2>4, <2>5, <2>6, <2>7, <2>8, <2>9, StepKeeps
<1>6. QED BY <1>4, <1>5

\* persist_provider_turn_result_cas: the owner's result, with its receipt.
LEMMA PersistKeeps ==
    ASSUME SitesFit, IInv, NEW p \in Procs, PersistResult(p), UNCHANGED site
    PROVE  IInv'
<1>1. /\ At(p, "persist") /\ call[p].st = "persist" /\ call[p].st \in Walking
      /\ call[p].st \in Owning
  BY DEF PersistResult, At, Walking, Owning
<1>2. UNCHANGED <<site, catalogs, wireBytes, wires, lease, sends, delivered, emitted>>
  BY DEF PersistResult, authority, history
<1>3. PICK s \in Subjects : s = Subject(p) /\ s[1] = call[p].req /\ s[2] = call[p].route
                            /\ s[3] = call[p].ord
  BY <1>1, Here
<1>4. Earned(s[1], s[2], s[3]) /\ wires = {s[1]} /\ call[p].req \in Requests
  BY <1>1, <1>3, Here
<1>5. /\ lease[s] = Started(1) /\ lease[s] # NoLease /\ result[s] = None
      /\ call[p].lease = Started(1) /\ ~call[p].live /\ lease[s].status = "started"
      /\ \A q \in Procs \ {p} : call[q].st \in Owning => Subject(q) # s
  BY <1>1, <1>3, OwnsAlone
<1>6. sends[s] > 0
  BY <1>1, <1>3 DEF IInv, ProcInv, OwnOk, AfterSend
<1>7. CASE ~CanAppend(s, "completed")
  <2>1. Ends(p) /\ Quiet
    BY <1>2, <1>3, <1>7 DEF PersistResult, Raises, Quiet, Still, IInv, TypeInv, TypeOK
  <2>2. QED BY <2>1, EndsKeeps
<1>8. CASE CanAppend(s, "completed")
  <2>1. PICK c \in CallTypes : c = call[p]
    BY DEF IInv, TypeInv
  <2>2. PICK d : d = [c EXCEPT !.st = "complete", !.live = TRUE]
    OBVIOUS
  <2>3. /\ d \in CallTypes /\ d.st = "complete" /\ d.live /\ d.lease = c.lease /\ d.req = c.req
        /\ d.route = c.route /\ d.ord = c.ord
    BY <2>2 DEF CallTypes, Points, Walking
  <2>4. /\ result' = [result EXCEPT ![s] = p] /\ ledger' = Appended(s, "completed")
        /\ call' = [call EXCEPT ![p] = d]
    BY <1>3, <1>5, <1>8, <2>1, <2>2 DEF PersistResult
  <2>5. /\ result' \in [Subjects -> Procs \union {None}] /\ result'[s] = p
        /\ \A t \in Subjects \ {s} : result'[t] = result[t]
    BY <2>4 DEF IInv, TypeInv, TypeOK
  <2>6. /\ ledger' \in [Ordinals -> Receipts \union {None}]
        /\ \A n \in Ordinals : ledger[n] # None => ledger'[n] = ledger[n]
        /\ ledger'[provider_physical_ordinal(s)] = [subject |-> s, outcome |-> "completed"]
        /\ LedgerInv'
    BY <1>2, <1>6, <1>8, <2>4, AppendKeeps
  <2>7. StoreTypes'
    BY <1>2, <2>5, <2>6 DEF StoreTypes, IInv, TypeInv, TypeOK
  <2>8. TypeInv' /\ call'[p] = d /\ \A q \in Procs \ {p} : call'[q] = call[q]
    BY <1>4, <2>1, <2>3, <2>4, <2>7, StepTypes
  <2>9. Subject(p)' = s
    BY <1>3, <2>1, <2>3, <2>8 DEF Subject
  <2>10. p # None
    BY DEF SitesFit
  <2>11. Touch(p, s)
    BY <1>2, <1>5, <2>5, <2>6, <2>8 DEF Touch
  <2>12. LeaseOk(s)'
    BY <1>2, <1>5, <2>11, ClaimedStays DEF IInv, SubjectInv, LeaseOk
  <2>13. FailedOk(s)' /\ ResultOk(s)'
    BY <1>2, <1>5, <2>6 DEF FailedOk, ResultOk
  <2>14. Earned(call[p].req, call[p].route, call[p].ord)'
    BY <1>2, <1>3, <1>4, <2>1, <2>3, <2>8 DEF Earned
  <2>15. WalkOk(p)'
    BY <2>3, <2>8, <2>14 DEF WalkOk, At, Preparing, Looking
  <2>16. OwnOk(p)'
    BY <2>3, <2>8 DEF OwnOk, At, Owning, AfterSend
  <2>17. LeaseFit(call[p].lease)' /\ call'[p].lease.status = "started"
    BY <1>5, <2>1, <2>3, <2>8 DEF LeaseFit
  <2>18. DoneOk(p)'
    BY <2>3, <2>5, <2>8, <2>9, <2>10, <2>17 DEF DoneOk, At
  <2>19. HistoryInv'
    BY <1>2, <2>11, HistoryKept
  <2>20. wires = {call'[p].req} /\ "complete" \notin Owning
    BY <1>3, <1>4, <2>1, <2>3, <2>8 DEF Owning
  <2>21. QED
    BY <1>2, <1>4, <2>3, <2>6, <2>8, <2>11, <2>12, <2>13, <2>15, <2>16, <2>18, <2>19, <2>20,
       StepKeeps
<1>9. QED BY <1>7, <1>8

\* record_completed_result: whoever completes the lease of a persisted result.
LEMMA CompleteKeeps ==
    ASSUME SitesFit, IInv, NEW p \in Procs, Complete(p), UNCHANGED site
    PROVE  IInv'
<1>1. At(p, "complete") /\ call[p].st = "complete" /\ call[p].st \in Walking
  BY DEF Complete, At, Walking
<1>2. UNCHANGED <<site, catalogs, wireBytes, wires, result, ledger, sends, delivered, emitted>>
  BY DEF Complete, authority, history
<1>3. PICK s \in Subjects : s = Subject(p) /\ s[1] = call[p].req /\ s[2] = call[p].route
                            /\ s[3] = call[p].ord
  BY <1>1, Here
<1>4. Earned(s[1], s[2], s[3]) /\ wires = {s[1]} /\ call[p].req \in Requests
  BY <1>1, <1>3, Here
<1>5. PICK l \in Leases : l = call[p].lease
  BY DEF IInv, TypeInv, TypeOK
<1>6. /\ LeaseFit(l) /\ l.status \in {"started", "completed"} /\ result[s] # None
      /\ call[p].live => result[s] = p
  BY <1>1, <1>3, <1>5 DEF IInv, ProcInv, DoneOk
<1>7. /\ lease[s] = Started(1) \/ lease[s].status = "completed"
      /\ ledger[provider_physical_ordinal(s)] = [subject |-> s, outcome |-> "completed"]
      /\ lease[s] # NoLease
  BY <1>6 DEF IInv, SubjectInv, ResultOk, LeaseOk
<1>8. PICK k : k = IF l.status = "completed" THEN l
                   ELSE [l EXCEPT !.status = "completed", !.rev = @ + 1]
  OBVIOUS
<1>9. k \in Leases /\ k.status = "completed"
  <2>1. CASE l.status = "completed"
    BY <1>8, <2>1
  <2>2. CASE l.status = "started"
    <3>1. l.rev \in {1, 2}
      BY <1>6, <2>2, LeaseTypes DEF LeaseFit
    <3>2. l.rev + 1 \in 0..3
      BY <3>1, SMT
    <3>3. k = [l EXCEPT !.status = "completed", !.rev = l.rev + 1]
      BY <1>8, <2>2, SMT DEF Leases
    <3>4. QED BY <3>2, <3>3 DEF Leases
  <2>3. QED BY <1>6, <2>1, <2>2
<1>10. CASE lease[s] \notin {l, k}
  <2>1. Ends(p) /\ UNCHANGED lease
    BY <1>3, <1>5, <1>8, <1>10 DEF Complete, Raises
  <2>2. Quiet
    BY <1>2, <2>1 DEF Quiet, Still, IInv, TypeInv, TypeOK
  <2>3. QED BY <2>1, <2>2, EndsKeeps
<1>11. CASE lease[s] \in {l, k}
  <2>1. lease' = [lease EXCEPT ![s] = k] /\ Goto(p, "return")
    BY <1>3, <1>5, <1>8, <1>11 DEF Complete
  <2>2. /\ lease' \in [Subjects -> Leases] /\ lease'[s] = k
        /\ \A t \in Subjects \ {s} : lease'[t] = lease[t]
    BY <1>9, <2>1 DEF IInv, TypeInv, TypeOK
  <2>3. "return" \in Points /\ "return" \notin Owning
    BY DEF Points, Walking, Owning
  <2>4. PICK d \in CallTypes : call' = [call EXCEPT ![p] = d]
    BY <2>1, <2>3, GotoFields
  <2>5. /\ \A q \in Procs \ {p} : call'[q] = call[q]
        /\ call'[p].st = "return" /\ call'[p].req = call[p].req /\ call'[p].route = call[p].route
        /\ call'[p].ord = call[p].ord /\ call'[p].live = call[p].live /\ Subject(p)' = s
    BY <1>3, <2>1, <2>3, GotoFields
  <2>6. d = call'[p]
    BY <2>4 DEF IInv, TypeInv
  <2>7. StoreTypes'
    BY <1>2, <2>2 DEF StoreTypes, IInv, TypeInv, TypeOK
  <2>8. TypeInv'
    BY <1>4, <2>4, <2>5, <2>6, <2>7, StepTypes
  <2>9. \A q \in Procs \ {p} : call[q].st \in Owning => Subject(q) # s
    BY <1>6 DEF IInv, ProcInv, OwnOk
  <2>10. lease[s].status # "failed"
    BY <1>7, LeaseTypes
  <2>11. Touch(p, s)
    BY <1>2, <1>9, <2>2, <2>5, <2>9, <2>10 DEF Touch
  <2>12. k # NoLease /\ LeaseFit(k)
    BY <1>9, LeaseTypes DEF LeaseFit
  <2>13. LeaseOk(s)'
    BY <1>2, <1>7, <2>2, <2>11, <2>12, ClaimedStays DEF IInv, SubjectInv, LeaseOk
  <2>14. FailedOk(s)' /\ ResultOk(s)'
    BY <1>2, <1>7, <1>9, <2>2 DEF FailedOk, ResultOk
  <2>15. Earned(s[1], s[2], s[3])'
    BY <1>4, <2>11, EarnedHere
  <2>16. Earned(call[p].req, call[p].route, call[p].ord)'
    BY <1>3, <2>5, <2>15 DEF Earned
  <2>17. WalkOk(p)'
    BY <2>5, <2>16 DEF WalkOk, At, Preparing, Looking
  <2>18. OwnOk(p)'
    BY <2>5 DEF OwnOk, At, Owning, AfterSend
  <2>19. DoneOk(p)'
    BY <1>2, <1>6, <1>9, <2>2, <2>5 DEF DoneOk, At
  <2>20. LedgerInv' /\ HistoryInv'
    BY <1>2, <2>11, HistoryKept
  <2>21. QED
    BY <1>2, <1>3, <1>4, <2>3, <2>5, <2>8, <2>11, <2>13, <2>14, <2>17, <2>18, <2>19, <2>20,
       StepKeeps
<1>12. QED BY <1>10, <1>11

\* fetch_prepared returns a completed result, and releases the events of its own.
LEMMA ReturnKeeps ==
    ASSUME SitesFit, IInv, NEW p \in Procs, Return(p), UNCHANGED site
    PROVE  IInv'
<1>1. At(p, "return") /\ call[p].st = "return" /\ call[p].st \in Walking /\ Ends(p)
  BY DEF Return, At, Walking, Returns
<1>2. UNCHANGED <<site, catalogs, wireBytes, wires, lease, result, ledger, sends>>
  BY DEF Return, durable, authority
<1>3. PICK s \in Subjects : s = Subject(p)
  BY <1>1, Here
<1>4. result[s] # None /\ lease[s].status = "completed" /\ (call[p].live => result[s] = p)
  BY <1>1, <1>3 DEF IInv, ProcInv, DoneOk
<1>5. /\ Idle \in CallTypes /\ call' = [call EXCEPT ![p] = Idle] /\ Idle.st = "idle"
      /\ call'[p] = Idle /\ \A q \in Procs \ {p} : call'[q] = call[q]
      /\ call'[p].st \notin Walking /\ call'[p].st \notin Owning
      /\ WalkOk(p)' /\ OwnOk(p)' /\ DoneOk(p)'
  BY <1>1, IdleOk
<1>6. StoreTypes'
  BY <1>2 DEF StoreTypes, IInv, TypeInv, TypeOK
<1>7. TypeInv'
  BY <1>5, <1>6, StepTypes
<1>8. Touch(p, s)
  BY <1>2, <1>5 DEF Touch
<1>9. LeaseOk(s)' /\ FailedOk(s)' /\ ResultOk(s)'
  BY <1>2, <1>8, SubjectsKept
<1>10. LedgerInv'
  BY <1>2, <1>8, HistoryKept
<1>11. HistoryInv'
  <2>1. ASSUME NEW e \in delivered'
        PROVE  /\ e[1] \in Subjects /\ e[2] # None /\ result'[e[1]] = e[2]
               /\ lease'[e[1]].status = "completed"
    <3>1. CASE e \in delivered
      BY <1>2, <3>1 DEF IInv, HistoryInv
    <3>2. CASE e = <<s, result[s]>>
      BY <1>2, <1>4, <3>2
    <3>3. QED BY <1>3, <3>1, <3>2 DEF Return
  <2>2. ASSUME NEW q \in emitted' PROVE q \in Procs /\ \E t \in Subjects : result'[t] = q
    <3>1. CASE q \in emitted
      BY <1>2, <3>1 DEF IInv, HistoryInv
    <3>2. CASE q = p /\ call[p].live
      BY <1>2, <1>4, <3>2
    <3>3. QED BY <3>1, <3>2 DEF Return
  <2>3. QED BY <2>1, <2>2 DEF HistoryInv
<1>12. lease'[s] # NoLease => wires = {s[1]}
  BY <1>2 DEF IInv, WireInv
<1>13. QED BY <1>2, <1>5, <1>7, <1>8, <1>9, <1>10, <1>11, <1>12, StepKeeps

(***************************************************************************)
(* The invariant                                                           *)
(***************************************************************************)

LEMMA InitIInv ==
    ASSUME SitesFit, Init
    PROVE  IInv
<1>1. call = [p \in Procs |-> Idle] /\ \A p \in Procs : call[p] = Idle
  BY DEF Init
<1>2. Idle \in CallTypes /\ Idle.st = "idle" /\ ~Idle.live
  BY IdleType
<1>3. /\ lease = [s \in Subjects |-> NoLease] /\ result = [s \in Subjects |-> None]
      /\ sends = [s \in Subjects |-> 0] /\ ledger = [n \in Ordinals |-> None]
      /\ wires = {} /\ delivered = {} /\ emitted = {} /\ catalogs = {} /\ wireBytes = None
      /\ site \in Sites
  BY DEF Init
<1>4. 0 \in Nat /\ 0 <= 1 /\ ~(0 > 0)
  BY SMT
<1>5. \A p \in Procs : call[p].lease \in Leases /\ call[p].ord \in 0..MaxOrdinal
                       /\ call[p].live \in BOOLEAN
  BY <1>1, <1>2 DEF CallTypes
<1>6. TypeOK
  BY <1>3, <1>4, <1>5, LeaseTypes DEF TypeOK
<1>7. TypeInv
  BY <1>1, <1>2, <1>6 DEF TypeInv, At
<1>8. "idle" \notin Walking /\ "idle" \notin Owning
  BY DEF Walking, Looking, Owning
<1>9. WireInv
  BY <1>1, <1>2, <1>3, <1>8 DEF WireInv, At
<1>10. ASSUME NEW p \in Procs PROVE WalkOk(p) /\ OwnOk(p) /\ DoneOk(p)
  BY <1>1, <1>2 DEF WalkOk, OwnOk, DoneOk, At, Preparing, Walking, Looking, Owning, AfterSend
<1>11. ASSUME NEW s \in Subjects PROVE LeaseOk(s) /\ FailedOk(s) /\ ResultOk(s)
  <2>1. lease[s] = NoLease /\ result[s] = None /\ sends[s] = 0
    BY <1>3
  <2>2. QED BY <1>4, <2>1, LeaseTypes DEF LeaseOk, FailedOk, ResultOk, LeaseFit
<1>12. OneOwner
  BY <1>1, <1>2, <1>8 DEF OneOwner
<1>13. LedgerInv /\ HistoryInv
  BY <1>3 DEF LedgerInv, HistoryInv
<1>14. QED BY <1>7, <1>9, <1>10, <1>11, <1>12, <1>13 DEF IInv, ProcInv, SubjectInv

LEMMA NextIInv ==
    ASSUME SitesFit, IInv, [Next]_vars
    PROVE  IInv'
<1>1. CASE UNCHANGED vars
  <2>1. UNCHANGED <<site, catalogs, wireBytes, wires, lease, result, ledger, call, sends,
                    delivered, emitted>>
    BY <1>1 DEF vars, durable, authority, history
  <2>2. TypeInv' /\ WireInv'
    BY <2>1 DEF IInv, TypeInv, TypeOK, WireInv, At
  <2>3. ASSUME NEW p \in Procs PROVE WalkOk(p)' /\ OwnOk(p)' /\ DoneOk(p)'
    <3>1. WalkOk(p) /\ OwnOk(p) /\ DoneOk(p)
      BY DEF IInv, ProcInv
    <3>2. WalkOk(p)'
      BY <2>1, <3>1 DEF WalkOk, Earned, LeaseFit, At, Subject
    <3>3. OwnOk(p)'
      BY <2>1, <3>1 DEF OwnOk, At, Subject, provider_physical_ordinal
    <3>4. DoneOk(p)'
      BY <2>1, <3>1 DEF DoneOk, LeaseFit, At, Subject
    <3>5. QED BY <3>2, <3>3, <3>4
  <2>4. SubjectInv'
    BY <2>1 DEF IInv, SubjectInv, LeaseOk, FailedOk, ResultOk, Earned, LeaseFit,
       provider_physical_ordinal
  <2>5. OneOwner' /\ LedgerInv' /\ HistoryInv'
    BY <2>1 DEF IInv, OneOwner, LedgerInv, HistoryInv, Subject, provider_physical_ordinal
  <2>6. QED BY <2>2, <2>3, <2>4, <2>5 DEF IInv, ProcInv
<1>2. CASE Next
  <2>1. PICK p \in Procs : Begin(p) \/ Step(p) \/ Crash(p)
    BY <1>2 DEF Next
  <2>2. UNCHANGED site
    BY <1>2 DEF Next
  <2>3. CASE Begin(p) BY <2>2, <2>3, BeginKeeps
  <2>4. CASE Crash(p) BY <2>2, <2>4, CrashKeeps
  <2>5. CASE LoadCatalog(p) \/ PersistCatalog(p) BY <2>2, <2>5, CatalogKeeps
  <2>6. CASE LoadWire(p) BY <2>2, <2>6, LoadWireKeeps
  <2>7. CASE WriteWire(p) \/ AppendWire(p) BY <2>2, <2>7, WireKeeps
  <2>8. CASE InspectLease(p) BY <2>2, <2>8, InspectLeaseKeeps
  <2>9. CASE InspectResult(p) BY <2>2, <2>9, InspectResultKeeps
  <2>10. CASE Claim(p) BY <2>2, <2>10, ClaimKeeps
  <2>11. CASE Send(p) BY <2>2, <2>11, SendKeeps
  <2>12. CASE CallbackFails(p) \/ AnswerOk(p) \/ AnswerUnclassified(p)
    BY <2>2, <2>12, OwnerKeeps
  <2>13. CASE AnswerFailed(p) BY <2>2, <2>13, AnswerFailedKeeps
  <2>14. CASE RecordFailure(p) BY <2>2, <2>14, RecordFailureKeeps
  <2>15. CASE RecordUncertainty(p) BY <2>2, <2>15, RecordUncertaintyKeeps
  <2>16. CASE NotifyUncertain(p) BY <2>2, <2>16, NotifyKeeps
  <2>17. CASE PersistResult(p) BY <2>2, <2>17, PersistKeeps
  <2>18. CASE Complete(p) BY <2>2, <2>18, CompleteKeeps
  <2>19. CASE Return(p) BY <2>2, <2>19, ReturnKeeps
  <2>20. QED
    BY <2>1, <2>3, <2>4, <2>5, <2>6, <2>7, <2>8, <2>9, <2>10, <2>11, <2>12, <2>13, <2>14, <2>15,
       <2>16, <2>17, <2>18, <2>19 DEF Step
<1>3. QED BY <1>1, <1>2

(***************************************************************************)
(* What it means                                                           *)
(***************************************************************************)

\* Of two claimed subjects of the turn, one failed in a way that allows going on.
LEMMA Settled ==
    ASSUME SitesFit, IInv, NEW s \in Subjects, NEW t \in Subjects, s # t,
           lease[s] # NoLease, lease[t] # NoLease
    PROVE  \E u \in {s, t} : lease[u].status = "failed" /\ lease[u].retryable
<1>1. PICK r \in Requests : s[1] = r /\ t[1] = r
  <2>1. wires = {s[1]} /\ wires = {t[1]}
    BY DEF IInv, WireInv
  <2>2. s[1] \in Requests /\ s[1] = t[1]
    BY <2>1, SubjectParts
  <2>3. QED BY <2>2
<1>2. PICK a \in Routes, b \in Routes : a = s[2] /\ b = t[2]
  BY SubjectParts
<1>3. PICK n \in 0..MaxOrdinal, m \in 0..MaxOrdinal : n = s[3] /\ m = t[3]
  BY SubjectParts
<1>4. s = <<r, a, n>> /\ t = <<r, b, m>>
  BY <1>1, <1>2, <1>3, SubjectParts
<1>5. Earned(r, a, n) /\ Earned(r, b, m)
  BY <1>1, <1>2, <1>3 DEF IInv, SubjectInv, LeaseOk
<1>6. n < m \/ m < n \/ n = m
  BY SMT DEF SitesFit
<1>7. CASE a = b
  <2>1. n # m
    BY <1>4, <1>7
  <2>2. Retried(lease[s]) \/ Retried(lease[t])
    BY <1>4, <1>5, <1>6, <1>7, <2>1 DEF Earned
  <2>3. QED BY <2>2 DEF Retried, MayRetry
<1>8. ASSUME NEW x \in Subjects, NEW k \in 0..MaxOrdinal, x = <<r, "primary", k>>,
             Earned(r, "primary", k), FellBack(lease[<<r, "primary", 0>>])
      PROVE  lease[x].status = "failed" /\ lease[x].retryable
  <2>1. k = 0 \/ 0 < k
    BY SMT DEF SitesFit
  <2>2. 0 \in 0..MaxOrdinal
    BY SMT DEF SitesFit
  <2>3. k = 0
    BY <1>8, <2>1, <2>2 DEF Earned, Retried, MayRetry, FellBack
  <2>4. FellBack(lease[x]) /\ FailedOk(x)
    BY <1>8, <2>3 DEF IInv, SubjectInv
  <2>5. QED BY <2>4 DEF FellBack, FailedOk
<1>9. CASE a = "primary" /\ b = "fallback"
  BY <1>4, <1>5, <1>8, <1>9 DEF Earned
<1>10. CASE a = "fallback" /\ b = "primary"
  BY <1>4, <1>5, <1>8, <1>10 DEF Earned
<1>11. QED BY <1>2, <1>7, <1>9, <1>10 DEF Routes

\* One subject has a result.
LEMMA ResultUnique ==
    ASSUME SitesFit, IInv, NEW s \in Subjects, NEW t \in Subjects,
           result[s] # None, result[t] # None
    PROVE  s = t
<1>1. ASSUME NEW u \in {s, t} PROVE lease[u] # NoLease /\ lease[u].status # "failed"
  <2>1. u \in Subjects /\ result[u] # None
    OBVIOUS
  <2>2. lease[u] = Started(1) \/ lease[u].status = "completed"
    BY <2>1 DEF IInv, SubjectInv, ResultOk
  <2>3. QED BY <2>2, LeaseTypes
<1>2. lease[s] # NoLease /\ lease[t] # NoLease
  BY <1>1
<1>3. QED BY <1>1, <1>2, Settled

\* The invariant of a turn: IInv holds in every reachable state.
THEOREM ProviderInvariant ==
    ASSUME SitesFit
    PROVE  Spec => []IInv
<1>1. Init => IInv
  BY InitIInv
<1>2. IInv /\ [Next]_vars => IInv'
  BY NextIInv
<1>3. QED BY <1>1, <1>2, PTL DEF Spec

LEMMA NoSecondSendHolds ==
    ASSUME SitesFit, IInv
    PROVE  NoSecondSend
<1>1. \A s \in Subjects : sends[s] <= 1
  BY DEF IInv, SubjectInv, LeaseOk
<1>2. ASSUME NEW x \in wires \union {s[1] : s \in {t \in Subjects : lease[t] # NoLease}}
      PROVE  x = wireBytes
  <2>1. x \in wires
    BY <1>2 DEF IInv, WireInv
  <2>2. QED BY <2>1 DEF IInv, WireInv
<1>3. QED BY <1>1, <1>2 DEF NoSecondSend

LEMMA OneResultHolds ==
    ASSUME SitesFit, IInv
    PROVE  OneResult
<1>1. TypeOK
  BY DEF IInv, TypeInv
<1>2. \A s, t \in Subjects : result[s] # None /\ result[t] # None => s = t
  BY ResultUnique
<1>3. \A d \in delivered : result[d[1]] = d[2] /\ lease[d[1]].status = "completed"
  BY DEF IInv, HistoryInv
<1>4. ASSUME NEW p \in emitted
      PROVE  \E s \in Subjects : result[s] = p /\ emitted = {p}
  <2>1. PICK s \in Subjects : result[s] = p
    BY DEF IInv, HistoryInv
  <2>2. ASSUME NEW q \in emitted PROVE q = p
    <3>1. PICK t \in Subjects : result[t] = q
      BY DEF IInv, HistoryInv
    <3>2. p # None /\ q # None
      BY DEF IInv, HistoryInv, SitesFit
    <3>3. s = t
      BY <2>1, <3>1, <3>2, ResultUnique
    <3>4. QED BY <2>1, <3>1, <3>3
  <2>3. QED BY <2>1, <2>2
<1>5. QED BY <1>1, <1>2, <1>3, <1>4 DEF OneResult

LEMMA RetriesHold ==
    ASSUME SitesFit, IInv
    PROVE  EarnedRetries
<1>1. ASSUME NEW s \in Subjects, lease[s] # NoLease, s[3] > 0
      PROVE  LET l == lease[<<s[1], s[2], s[3] - 1>>] IN
             l.status = "failed" /\ MayRetry(l) /\ (l.busy => s[3] <= BusyRetryLimit)
  <2>1. LeaseOk(s)
    BY DEF IInv, SubjectInv
  <2>2. s[3] \in 0..MaxOrdinal
    BY SubjectParts
  <2>3. s[3] - 1 \in 0..MaxOrdinal /\ s[3] - 1 < s[3]
    BY <1>1, <2>2, SMT DEF SitesFit
  <2>4. QED BY <1>1, <2>1, <2>3 DEF LeaseOk, Earned, Retried
<1>2. ASSUME NEW s \in Subjects, lease[s] # NoLease, s[2] = "fallback"
      PROVE  lease[<<s[1], "primary", 0>>].class = "fallback"
  BY <1>2 DEF IInv, SubjectInv, LeaseOk, Earned, FellBack
<1>3. QED BY <1>1, <1>2 DEF EarnedRetries

LEMMA LedgerHolds ==
    ASSUME SitesFit, IInv
    PROVE  LedgerFaithful
BY DEF IInv, LedgerInv, SubjectInv, FailedOk, ResultOk, LedgerFaithful

\* No subject of a turn is sent twice, and all of them carry the one envelope
\* that write_provider_wire_cas let through (NoSecondSend); what several processes
\* return is one completed result, and one process releases its events
\* (OneResult).
THEOREM SentOnce ==
    ASSUME SitesFit
    PROVE  Spec => []SendOnce
<1>1. IInv => SendOnce
  BY NoSecondSendHolds, OneResultHolds DEF SendOnce
<1>2. QED BY <1>1, ProviderInvariant, PTL

\* claim_retry and claim_openai_fallback rest on a recorded failure that allows
\* them (EarnedRetries), and the accounting receipts are those of the sends
\* (LedgerFaithful).
THEOREM RetriesFollowFailures ==
    ASSUME SitesFit
    PROVE  Spec => []RetriesAreEarned
<1>1. IInv => RetriesAreEarned
  BY RetriesHold, LedgerHolds DEF RetriesAreEarned
<1>2. QED BY <1>1, ProviderInvariant, PTL

\* A physical send starts only when every other subject of the turn was never
\* claimed or failed in a way that allows going on (SendsOnlyWhenSettled).
THEOREM SendsWait ==
    ASSUME SitesFit
    PROVE  Spec => SendsOnlyWhenSettled
<1> DEFINE A == \A s \in Subjects : sends'[s] # sends[s] =>
                  \A t \in Subjects \ {s} :
                    lease[t] = NoLease \/ (lease[t].status = "failed" /\ lease[t].retryable)
<1>1. ASSUME IInv, Next PROVE A
  <2>1. ASSUME NEW s \in Subjects, sends'[s] # sends[s], NEW t \in Subjects \ {s},
               lease[t] # NoLease
        PROVE  lease[t].status = "failed" /\ lease[t].retryable
    <3>1. PICK p \in Procs : Begin(p) \/ Step(p) \/ Crash(p)
      BY <1>1 DEF Next
    <3>2. Send(p)
      BY <2>1, <3>1 DEF Step, Begin, Crash, LoadCatalog, PersistCatalog, LoadWire, WriteWire,
         AppendWire, InspectLease, InspectResult, Claim, CallbackFails, AnswerOk, AnswerFailed,
         AnswerUnclassified, RecordFailure, RecordUncertainty, NotifyUncertain, PersistResult,
         Complete, Return, history
    <3>3. call[p].st \in Owning
      BY <3>2 DEF Send, At, Owning
    <3>4. lease[Subject(p)] # NoLease /\ lease[Subject(p)].status = "started"
      BY <1>1, <3>3, OwnsAlone
    <3>5. s = Subject(p)
      BY <1>1, <2>1, <3>2 DEF Send, IInv, TypeInv, TypeOK
    <3>6. t \in Subjects /\ t # s /\ lease[s] # NoLease /\ lease[s].status # "failed"
      BY <3>4, <3>5
    <3>7. \E u \in {s, t} : lease[u].status = "failed" /\ lease[u].retryable
      BY <1>1, <2>1, <3>6, Settled
    <3>8. QED BY <3>6, <3>7
  <2>2. QED BY <2>1
<1>2. ASSUME UNCHANGED vars PROVE A
  BY <1>2 DEF vars, history
<1>3. IInv /\ [Next]_vars => [A]_vars
  BY <1>1, <1>2
<1>4. QED BY <1>3, ProviderInvariant, PTL DEF Spec, SendsOnlyWhenSettled
=============================================================================
