---------------------------- MODULE ProviderTurn ----------------------------
(* One exact provider turn: one attempt and one iteration of a run, executed *)
(* by host processes that may overlap, crash and restart.  A process first  *)
(* makes the request durable (tool catalog, then wire envelope), then walks *)
(* the subjects of the turn: a route and a retry ordinal.  Each subject has *)
(* a request lease, moved by compare-and-set, and at most one result.       *)
(* Every store call is one SQLite transaction and one step here.            *)
EXTENDS Naturals, FiniteSetsExt

CONSTANTS Procs,      \* host processes
          Requests,   \* what a process may build the turn's request to be
          CatalogOf,  \* the tool catalog of each
          Sites,      \* deployments, see SiteType
          MaxOrdinal, \* bound on the retry ordinals of a route
          None

Routes == {"primary", "fallback"}
Subjects == Requests \X Routes \X (0..MaxOrdinal)
Ordinals == 0..(MaxOrdinal + 1)
Receipts == [subject : Subjects, outcome : {"failed", "uncertain", "completed"}]

\* The provider ("openai", "gemini" or another), the modes a process may run
\* in, the requests it may build, the max_retries it may be configured with,
\* and what a physical send may end with.
SiteType(s) == /\ DOMAIN s = {"provider", "modes", "requests", "budgets", "answers"}
               /\ s.requests \subseteq Requests /\ s.budgets \subseteq 0..MaxOrdinal

SitesFit == /\ \A s \in Sites : SiteType(s)
            /\ MaxOrdinal \in Nat
            /\ None \notin Requests \union Procs \union Receipts

VARIABLES site,       \* of Sites
          catalogs,   \* tool catalog receipts of the turn
          wireBytes,  \* the wire artifact: one logical key for the turn
          wires,      \* provider wire receipts of the turn
          lease,      \* the request lease of each subject
          result,     \* the result receipt of each subject
          ledger,     \* accounting receipts by physical ordinal
          call,       \* the call in progress in each process
          refused,    \* history: classified failures that were not recorded
          sends,      \* history: physical sends of each subject
          delivered,  \* history: results returned to callers
          emitted     \* history: releases of buffered provider events

authority == <<catalogs, wireBytes, wires>>
durable == <<authority, lease, result, ledger>>
history == <<refused, sends, delivered, emitted>>
vars == <<site, durable, call, history>>

Provider == site.provider
Answers == site.answers

NoLease == [status |-> "none", rev |-> 0, class |-> "none",
            retryable |-> FALSE, busy |-> FALSE]

Leases == [status : {"none", "started", "failed", "completed"}, rev : 0..3,
           class : {"none", "transient", "fallback", "terminal"},
           retryable : BOOLEAN, busy : BOOLEAN]

\* A request that may be on its way: revision one, or two once the process
\* that sent it noted that it does not know how the send ended.
Started(r) == [NoLease EXCEPT !.status = "started", !.rev = r]

Idle == [st |-> "idle", mode |-> "off", req |-> None, max |-> 0,
         route |-> "primary", ord |-> 0, lease |-> NoLease, prev |-> NoLease,
         live |-> FALSE]

Init ==
    /\ site \in Sites
    /\ catalogs = {} /\ wireBytes = None /\ wires = {}
    /\ lease = [s \in Subjects |-> NoLease]
    /\ result = [s \in Subjects |-> None]
    /\ ledger = [n \in Ordinals |-> None]
    /\ call = [p \in Procs |-> Idle]
    /\ refused = {}
    /\ sends = [s \in Subjects |-> 0]
    /\ delivered = {} /\ emitted = {}

\* The subject process p is at.
Subject(p) == <<call[p].req, call[p].route, call[p].ord>>

provider_physical_ordinal(s) == IF s[2] = "primary" THEN s[3] ELSE s[3] + 1

At(p, l) == call[p].st = l

Goto(p, l) == call' = [call EXCEPT ![p].st = l]

\* The call of p returns, or raises the error its action names.
Ends(p) == call' = [call EXCEPT ![p] = Idle]

Returns(p) == Ends(p)
Raises(p, error) == Ends(p)

Closed(p) == call[p].mode \notin {"enforce", "enforce_test"}

---------------------------------------------------------------------------
(* The request becomes durable: ProviderTurnAuthorityService *)

Begin(p) ==
    /\ At(p, "idle")
    /\ \E m \in site.modes, r \in site.requests, b \in site.budgets :
         call' = [call EXCEPT ![p] = [Idle EXCEPT
                    !.st = "catalog", !.mode = m, !.req = r, !.max = b]]
    /\ UNCHANGED <<durable, history>>

\* With no receipt, off leaves the turn to the caller and the other modes
\* write it; a receipt of another catalog, or two of them, is a conflict.
LoadCatalog(p) ==
    /\ At(p, "catalog")
    /\ IF catalogs = {CatalogOf[call[p].req]} THEN Goto(p, "wire")
       ELSE IF catalogs # {} THEN Raises(p, "authority conflict")
       ELSE IF call[p].mode = "off" THEN Returns(p)
       ELSE Goto(p, "put_catalog")
    /\ UNCHANGED <<durable, history>>

\* The artifact and the event are keyed by the digest of the catalog, so
\* another catalog does not collide with this one.
PersistCatalog(p) ==
    /\ At(p, "put_catalog")
    /\ catalogs' = catalogs \union {CatalogOf[call[p].req]}
    /\ Goto(p, "wire")
    /\ UNCHANGED <<wireBytes, wires, lease, result, ledger, history>>

LoadWire(p) ==
    /\ At(p, "wire")
    /\ IF wires = {call[p].req} THEN Goto(p, "lease")
       ELSE IF wires # {} THEN Raises(p, "authority conflict")
       ELSE IF call[p].mode = "off" THEN Returns(p)
       ELSE Goto(p, "put_wire")
    /\ UNCHANGED <<durable, history>>

\* write_provider_wire_cas: the artifact's logical key is the attempt and the
\* iteration, so the second envelope of a turn is refused.
WriteWire(p) ==
    /\ At(p, "put_wire")
    /\ IF wireBytes \in {None, call[p].req}
       THEN wireBytes' = call[p].req /\ Goto(p, "append_wire")
       ELSE Raises(p, "authority conflict") /\ UNCHANGED wireBytes
    /\ UNCHANGED <<catalogs, wires, lease, result, ledger, history>>

\* The receipt is appended, and looked up again before the turn goes on.
AppendWire(p) ==
    /\ At(p, "append_wire")
    /\ wires' = wires \union {call[p].req}
    /\ Goto(p, "wire")
    /\ UNCHANGED <<catalogs, wireBytes, lease, result, ledger, history>>

---------------------------------------------------------------------------
(* One subject: DurableProviderTurnRuntime._execute_route *)

\* _inspect_subject reads the lease ...
InspectLease(p) ==
    /\ At(p, "lease")
    /\ call' = [call EXCEPT ![p].lease = lease[Subject(p)], ![p].st = "result"]
    /\ UNCHANGED <<durable, history>>

BusyRetryLimit == 2

\* Defect: a busy model gets the whole budget.
RetryLimitBusy(max, l) == max

\* A Gemini model that says it is busy gets two retries at the most.
RetryLimit(max, l) == IF l.busy THEN Min({max, BusyRetryLimit}) ELSE max

MayRetry(l) == l.class = "transient" /\ l.retryable

\* The next subject after a failed one: its retry, or the fallback route.
NextSubject(p, l) ==
    call' = [call EXCEPT ![p] =
        IF l.class = "fallback"
        THEN [@ EXCEPT !.st = "lease", !.route = "fallback", !.ord = 0, !.prev = NoLease]
        ELSE [@ EXCEPT !.st = "lease", !.ord = call[p].ord + 1, !.prev = l]]

\* ... then, in a transaction of its own, the result receipt, and decides.
InspectResult(p) ==
    LET s == Subject(p)  l == call[p].lease  r == result[s] IN
    /\ At(p, "result")
    /\ \/ /\ l = NoLease /\ r = None
          /\ IF Closed(p) THEN Returns(p)
             ELSE IF call[p].ord > RetryLimit(call[p].max, call[p].prev)
             THEN Raises(p, "terminal")
             ELSE Goto(p, "claim")
       \/ /\ l = NoLease /\ r # None
          /\ Raises(p, "integrity")
       \/ /\ l # NoLease /\ Closed(p)
          /\ Raises(p, "closed mode")
       \/ /\ l # NoLease /\ ~Closed(p)
          /\ IF r # None
             THEN IF l.status = "failed" THEN Raises(p, "integrity")
                  ELSE Goto(p, "complete")
             ELSE CASE l.status = "started"   -> Raises(p, "uncertain")
                    [] l.status = "completed" -> Raises(p, "integrity")
                    [] l.status = "failed"    ->
                         IF l.class = "fallback" \/ MayRetry(l)
                         THEN NextSubject(p, l)
                         ELSE Raises(p, "terminal")
    /\ UNCHANGED <<durable, history>>

\* Defect: the claim writes whatever the subject holds by now.
ClaimBlind(p) ==
    /\ At(p, "claim")
    /\ lease' = [lease EXCEPT ![Subject(p)] = Started(1)]
    /\ call' = [call EXCEPT ![p].lease = Started(1), ![p].st = "send"]
    /\ UNCHANGED <<authority, result, ledger, history>>

\* claim_initial, claim_retry and claim_openai_fallback: compare-and-set from
\* revision zero.  The loser inspects what the winner did.
Claim(p) ==
    /\ At(p, "claim")
    /\ IF lease[Subject(p)] = NoLease
       THEN /\ lease' = [lease EXCEPT ![Subject(p)] = Started(1)]
            /\ call' = [call EXCEPT ![p].lease = Started(1), ![p].st = "send"]
       ELSE Goto(p, "lease") /\ UNCHANGED lease
    /\ UNCHANGED <<authority, result, ledger, history>>

\* before_send ran and the request is on its way.
Send(p) ==
    /\ At(p, "send")
    /\ sends' = [sends EXCEPT ![Subject(p)] = @ + 1]
    /\ Goto(p, "sent")
    /\ UNCHANGED <<durable, refused, delivered, emitted>>

\* before_send, build_run_receipt or after_send raised around a send.
CallbackFails(p) ==
    /\ call[p].st \in {"send", "persist"}
    /\ Goto(p, "doubt")
    /\ UNCHANGED <<durable, history>>

---------------------------------------------------------------------------
(* How a send ends *)

\* _classified_failure_kind, with the status codes that take different paths.
\* 503 counts as a rejection only when Gemini's own error carries it.
ClassifiedKind(a, route) ==
    CASE a = "previous_response" /\ Provider = "openai" /\ route = "primary" -> "fallback"
      [] a \in {"status_429", "status_502"} -> "transient"
      [] a = "status_503" /\ Provider = "gemini" -> "transient"
      [] a \in {"status_400", "previous_response"} -> "terminal"
      [] OTHER -> "none"

\* The accounting receipt of a physical send: one per ordinal, immutable.
CanAppend(s, how) ==
    ledger[provider_physical_ordinal(s)] \in {None, [subject |-> s, outcome |-> how]}

Appended(s, how) ==
    [ledger EXCEPT ![provider_physical_ordinal(s)] = [subject |-> s, outcome |-> how]]

AnswerOk(p) ==
    /\ At(p, "sent") /\ "ok" \in Answers
    /\ Goto(p, "persist")
    /\ UNCHANGED <<durable, history>>

\* A classified failure: after_send appends the receipt, then the failure is
\* recorded.  An after_send that raises ends the call before that.
AnswerFailed(p) ==
    LET s == Subject(p) IN
    \E a \in Answers :
        /\ At(p, "sent")
        /\ ClassifiedKind(a, s[2]) # "none"
        /\ IF CanAppend(s, "failed")
           THEN /\ ledger' = Appended(s, "failed")
                /\ call' = [call EXCEPT ![p].st = "fail",
                              ![p].prev = [NoLease EXCEPT !.class = ClassifiedKind(a, s[2]),
                                                          !.busy = a = "status_503"]]
           ELSE Raises(p, "ledger conflict") /\ UNCHANGED ledger
        /\ UNCHANGED <<authority, lease, result, history>>

\* Anything else leaves open whether the provider served the request.
AnswerUnclassified(p) ==
    /\ At(p, "sent")
    /\ \E a \in Answers \ {"ok"} : ClassifiedKind(a, call[p].route) = "none"
    /\ Goto(p, "doubt_notify")
    /\ UNCHANGED <<durable, history>>

\* record_failure.  The fallback classification belongs to ordinal zero of the
\* primary route; anywhere else the coordinator refuses to record it.
RecordFailure(p) ==
    LET s == Subject(p)
        k == call[p].prev.class
        more == call[p].ord < RetryLimit(call[p].max, call[p].prev)
        f == [call[p].prev EXCEPT !.status = "failed", !.rev = call[p].lease.rev + 1,
               !.retryable = k = "fallback" \/ (k = "transient" /\ more)]
        misplaced == k = "fallback" /\ (s[2] # "primary" \/ s[3] # 0)
    IN  /\ At(p, "fail")
        /\ IF lease[s] # call[p].lease \/ misplaced
           THEN /\ Raises(p, "transition")
                /\ refused' = refused \union {s}
                /\ UNCHANGED lease
           ELSE /\ lease' = [lease EXCEPT ![s] = f]
                /\ UNCHANGED refused
                /\ IF f.retryable THEN NextSubject(p, f)
                   ELSE Raises(p, "terminal")
        /\ UNCHANGED <<authority, result, ledger, sends, delivered, emitted>>

\* _uncertain_error: the note is best effort, the lease stays STARTED.
RecordUncertainty(p) ==
    /\ call[p].st \in {"doubt", "doubt_notify"}
    /\ lease' \in {lease, [lease EXCEPT ![Subject(p)] =
                            IF @ = call[p].lease THEN Started(2) ELSE @]}
    /\ IF At(p, "doubt") THEN Raises(p, "uncertain")
       ELSE Goto(p, "notify")
    /\ UNCHANGED <<authority, result, ledger, history>>

NotifyUncertain(p) ==
    LET s == Subject(p) IN
    /\ At(p, "notify")
    /\ ledger' = IF CanAppend(s, "uncertain") THEN Appended(s, "uncertain") ELSE ledger
    /\ Raises(p, "uncertain")
    /\ UNCHANGED <<authority, lease, result, history>>

\* persist_provider_turn_result_cas: artifact, event, receipt and accounting
\* receipt in one transaction, under the exact STARTED lease.
PersistResult(p) ==
    LET s == Subject(p) IN
    /\ At(p, "persist")
    /\ IF lease[s] = call[p].lease /\ result[s] = None /\ CanAppend(s, "completed")
       THEN /\ result' = [result EXCEPT ![s] = p]
            /\ ledger' = Appended(s, "completed")
            /\ call' = [call EXCEPT ![p].st = "complete", ![p].live = TRUE]
       ELSE Raises(p, "integrity") /\ UNCHANGED <<result, ledger>>
    /\ UNCHANGED <<authority, lease, history>>

\* record_completed_result is idempotent: whoever comes second finds the
\* replacement it would have written.
Complete(p) ==
    LET s == Subject(p)
        l == call[p].lease
        new == IF l.status = "completed" THEN l
               ELSE [l EXCEPT !.status = "completed", !.rev = @ + 1]
    IN  /\ At(p, "complete")
        /\ IF lease[s] \in {l, new}
           THEN /\ lease' = [lease EXCEPT ![s] = new]
                /\ Goto(p, "return")
           ELSE Raises(p, "integrity") /\ UNCHANGED lease
        /\ UNCHANGED <<authority, result, ledger, history>>

\* fetch_prepared releases the buffered events of a live result, discards the
\* ones of a recovered result, and returns it.
Return(p) ==
    /\ At(p, "return")
    /\ emitted' = IF call[p].live THEN emitted \union {p} ELSE emitted
    /\ delivered' = delivered \union {<<Subject(p), result[Subject(p)]>>}
    /\ Returns(p)
    /\ UNCHANGED <<durable, refused, sends>>

\* The process dies: the store keeps what was committed.
Crash(p) ==
    /\ ~At(p, "idle")
    /\ Ends(p)
    /\ UNCHANGED <<durable, history>>

---------------------------------------------------------------------------

Step(p) ==
    \/ LoadCatalog(p) \/ PersistCatalog(p) \/ LoadWire(p) \/ WriteWire(p)
    \/ AppendWire(p) \/ InspectLease(p) \/ InspectResult(p) \/ Claim(p)
    \/ Send(p) \/ CallbackFails(p) \/ AnswerOk(p) \/ AnswerFailed(p)
    \/ AnswerUnclassified(p) \/ RecordFailure(p) \/ RecordUncertainty(p)
    \/ NotifyUncertain(p) \/ PersistResult(p) \/ Complete(p) \/ Return(p)

Next == (\E p \in Procs : Begin(p) \/ Step(p) \/ Crash(p)) /\ UNCHANGED site

Spec == Init /\ [][Next]_vars

\* A process that has work to do takes it: the calls are synchronous, and the
\* transport answers or times out.
Fairness == \A p \in Procs : WF_vars(Step(p) /\ UNCHANGED site)

---------------------------------------------------------------------------
(* Properties *)

\* Types of the durable rows and of the process-local state.
TypeOK ==
    /\ site \in Sites
    /\ catalogs \subseteq {CatalogOf[r] : r \in Requests}
    /\ wires \subseteq Requests /\ wireBytes \in Requests \union {None}
    /\ lease \in [Subjects -> Leases]
    /\ result \in [Subjects -> Procs \union {None}]
    /\ ledger \in [Ordinals -> Receipts \union {None}]
    /\ sends \in [Subjects -> Nat]
    /\ \A p \in Procs : /\ call[p].lease \in Leases /\ call[p].ord \in 0..MaxOrdinal
                        /\ call[p].live \in BOOLEAN

\* ExactProviderRouteTransport is used once per subject: whatever overlaps,
\* crashes and restarts, no subject of the turn is sent twice, and all of them
\* carry one envelope: a process whose request was built differently is
\* refused before it claims anything (write_provider_wire_cas).
NoSecondSend ==
    /\ \A s \in Subjects : sends[s] <= 1
    /\ LET Carried == wires \union {s[1] : s \in {t \in Subjects : lease[t] # NoLease}}
       IN  \A q, r \in Carried : q = r

\* Whatever several processes return for the turn is the same durable result,
\* the lease of its subject is completed, and the buffered provider events
\* reach the callback from one process only, the one whose send produced it.
OneResult ==
    /\ TypeOK
    /\ \A s, t \in Subjects : result[s] # None /\ result[t] # None => s = t
    /\ \A d \in delivered : result[d[1]] = d[2] /\ lease[d[1]].status = "completed"
    /\ \A p \in emitted : \E s \in Subjects : result[s] = p /\ emitted = {p}

\* However often a turn is run, each of its requests is made once, and what it
\* returns is one answer (_execute_route, persist_result).
SendOnce == NoSecondSend /\ OneResult

\* A physical send starts only when every other subject of the turn was never
\* claimed or failed in a way that allows going on: not beside a send that may
\* still be on its way, not after an uncertain one, not after a result.
SendsOnlyWhenSettled ==
    [][\A s \in Subjects : sends'[s] # sends[s] =>
          \A t \in Subjects \ {s} :
             lease[t] = NoLease \/ (lease[t].status = "failed" /\ lease[t].retryable)]_vars

\* Accounting: receipts belong to sends of the turn, a failed or completed
\* lease has the receipt of its send, and no two sends share an ordinal.
LedgerFaithful ==
    /\ \A n \in Ordinals : ledger[n] # None =>
          LET s == ledger[n].subject IN
          sends[s] > 0 /\ provider_physical_ordinal(s) = n
    /\ \A s \in Subjects :
          LET n == provider_physical_ordinal(s) IN
          /\ lease[s].status = "failed" => ledger[n] = [subject |-> s, outcome |-> "failed"]
          /\ result[s] # None => ledger[n] = [subject |-> s, outcome |-> "completed"]

\* A retry rests on the recorded, retryable failure of the ordinal before it,
\* the fallback on the one of the primary route, and a busy Gemini model is
\* not asked a fourth time, whatever budget the process at work has.
EarnedRetries ==
    \A s \in Subjects : lease[s] # NoLease =>
        /\ s[3] > 0 => LET l == lease[<<s[1], s[2], s[3] - 1>>] IN
                       l.status = "failed" /\ MayRetry(l) /\ (l.busy => s[3] <= BusyRetryLimit)
        /\ s[2] = "fallback" => lease[<<s[1], "primary", 0>>].class = "fallback"

\* What is sent again, and what is accounted, follows from what was recorded
\* (claim_retry, claim_openai_fallback, record_failure).
RetriesAreEarned == EarnedRetries /\ LedgerFaithful

\* "A transport-classified failure that is safe to persist as terminal": the
\* coordinator takes every classified failure of a live process.
ClassifiedFailureIsRecorded == refused = {}
=============================================================================
