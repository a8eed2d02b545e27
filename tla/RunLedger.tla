------------------------------ MODULE RunLedger ------------------------------
(***************************************************************************)
(* The accounting of one run: kernel/run_ledger.py over the run-bundle     *)
(* tables of persistence/sqlite_v2.py.  A ledger l is what the process     *)
(* holds in memory, d what the store holds.  A receipt is keyed by the     *)
(* identity of its physical send (iteration, purpose, retry ordinal); its  *)
(* immutable content is abstracted to the status it reports.  Metric       *)
(* events are the seals of iterations and the error codes of the run.  An  *)
(* operator returns the new pair and whether the call returned normally.   *)
(***************************************************************************)
EXTENDS Naturals, FiniteSets, FiniteSetsExt, TLC

NoBundle == [rev |-> 0]

NoFacts == [status |-> "none"]

EmptyLedger ==
    [receipts |-> <<>>, seals |-> <<>>, errors |-> {}, rev |-> 0, key |-> NoFacts,
     last |-> NoBundle, lastCompact |-> NoBundle]

EmptyStore == [on |-> FALSE, receipts |-> <<>>, v1 |-> {}, v2 |-> {}, links |-> {}]

Ok(l, d) == [l |-> l, d |-> d, ok |-> TRUE]

Refused(l, d) == [l |-> l, d |-> d, ok |-> FALSE]

\* Two partial functions agree where both are defined.
Agree(f, g) == \A x \in DOMAIN f \cap DOMAIN g : f[x] = g[x]

Newest(S) == IF S = {} THEN NoBundle ELSE CHOOSE b \in S : \A c \in S : c.rev <= b.rev

----------------------------------------------------------------------------
(* The store.                                                             *)

\* One row per send; the same id with another content is a conflict.
append_receipt(d, id, status) ==
    IF id \in DOMAIN d.receipts
    THEN [d |-> d, ok |-> d.receipts[id] = status]
    ELSE [d |-> [d EXCEPT !.receipts = @ @@ (id :> status)], ok |-> TRUE]

\* A revision of the full bundle: never below its head, never over a compact one.
persist_bundle(d, b) ==
    IF \/ b.rev < Newest(d.v1).rev
       \/ d.v2 # {}
       \/ \E c \in d.v1 : c.rev = b.rev /\ c # b
    THEN [d |-> d, ok |-> FALSE]
    ELSE [d |-> [d EXCEPT !.v1 = @ \cup {b}], ok |-> TRUE]

\* A compact revision must advance the head of the full bundles.
persist_compact_bundle_with_details(d, b) ==
    IF b \in d.v2
    THEN [d |-> d, ok |-> TRUE]
    ELSE IF \/ \E c \in d.v2 : c.rev = b.rev
            \/ b.rev < Newest(d.v2).rev
            \/ d.v1 # {} /\ b.rev <= Newest(d.v1).rev
         THEN [d |-> d, ok |-> FALSE]
         ELSE [d |-> [d EXCEPT !.v2 = @ \cup {b}], ok |-> TRUE]

\* The newest revision of either schema.
ContinuationHead(d) == Newest(d.v1 \cup d.v2)

\* The head can be continued: _continuation_lineage_matches.
Continuable(d) ==
    /\ ContinuationHead(d) # NoBundle
    /\ ContinuationHead(d).facts.status \in {"suspended", "cancelled"}

\* A fresh run consumes the suspended or cancelled run it continues, once; a
\* successor that comes back finds its own link.
claim_continuation(d, successor) ==
    IF successor \in d.links THEN [d |-> d, ok |-> Continuable(d)]
    ELSE IF d.links = {} /\ Continuable(d)
         THEN [d |-> [d EXCEPT !.links = {successor}], ok |-> TRUE]
         ELSE [d |-> d, ok |-> FALSE]

----------------------------------------------------------------------------
(* The ledger.                                                            *)

\* The revision in the store is not taken over.
RevisionKept(l, b) == l.rev

RevisionRead(l, b) == Max({l.rev, b.rev})

\* Attaching publishes what memory holds, then reads back the receipts and the
\* newest bundle: its revision and its events become the ledger's.
attach_persistence(l, d) ==
    LET b == Newest(d.v1 \cup d.v2)
        bundle == IF b = NoBundle THEN [seals |-> <<>>, errors |-> {}] ELSE b.facts
    IN  IF ~d.on THEN Ok(l, d)
        ELSE IF ~Agree(l.receipts, d.receipts) \/ ~Agree(l.seals, bundle.seals)
        THEN Refused(l, d)
        ELSE Ok([l EXCEPT !.receipts = @ @@ d.receipts,
                          !.seals = @ @@ bundle.seals,
                          !.errors = @ \cup bundle.errors,
                          !.rev = RevisionRead(l, b),
                          !.last = IF b \in d.v1 THEN b ELSE @,
                          !.lastCompact = IF b \in d.v2 THEN b ELSE @],
                [d EXCEPT !.receipts = @ @@ l.receipts])

\* RunLedger.append behind record_model_turn and record_unobserved_model_attempt:
\* a send the index already knows keeps the receipt it has.
RecordReceipt(l, d, id, status) ==
    LET stored == IF d.on THEN append_receipt(d, id, status) ELSE [d |-> d, ok |-> TRUE]
    IN  IF id \in DOMAIN l.receipts THEN Ok(l, d)
        ELSE IF ~stored.ok THEN Refused(l, d)
        ELSE Ok([l EXCEPT !.receipts = @ @@ (id :> status)], stored.d)

\* The first seal of an iteration stays.
record_iteration_outcome(l, iteration, outcome) ==
    IF iteration \in DOMAIN l.seals THEN l
    ELSE [l EXCEPT !.seals = @ @@ (iteration :> outcome)]

record_error(l, code) == [l EXCEPT !.errors = @ \cup {code}]

_lifecycle_status(kernel) ==
    CASE kernel \in {"awaiting_human_input", "awaiting_interaction", "max_iterations"} -> "suspended"
      [] kernel \in {"completed", "failed", "cancelled"} -> kernel
      [] OTHER -> "running"

\* The full bundle while it fits; then the bundle whose events are kept apart;
\* then the compact one.
Shape(receipts, events, cap) ==
    IF receipts + events <= cap THEN "full"
    ELSE IF events > 0 /\ receipts <= cap THEN "details" ELSE "compact"

\* Nothing new is written when the projection did not change; a full bundle
\* takes the next revision; a compact one is written at the current one.
materialize(l, d, kernel, cap) ==
    LET facts == [status |-> _lifecycle_status(kernel), kernel |-> kernel,
                  receipts |-> l.receipts, seals |-> l.seals, errors |-> l.errors]
        events == Cardinality(DOMAIN l.seals) + Cardinality(l.errors)
        current == IF l.rev > 0 THEN l.rev ELSE 1
        next == IF l.rev = 0 THEN 1 ELSE l.rev + 1
        compact == [rev |-> current, facts |-> facts]
        full == [rev |-> next, facts |-> facts]
        known == [l EXCEPT !.key = facts]
        put2 == persist_compact_bundle_with_details(d, compact)
        shape == Shape(Cardinality(DOMAIN l.receipts), events, cap)
        put1 == IF d.on THEN persist_bundle(d, full) ELSE [d |-> d, ok |-> shape = "full"]
    IN  IF l.key = facts /\ (l.last # NoBundle \/ l.lastCompact # NoBundle) THEN Ok(l, d)
        ELSE IF shape = "compact"
        THEN IF d.on /\ put2.ok
             THEN Ok([known EXCEPT !.lastCompact = compact], put2.d)
             ELSE Refused(l, d)
        ELSE IF l.last = compact THEN Ok(known, d)
        ELSE IF put1.ok THEN Ok([known EXCEPT !.rev = next, !.last = full], put1.d)
        ELSE Refused([l EXCEPT !.rev = next], d)
=============================================================================
