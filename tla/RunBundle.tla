------------------------------- MODULE RunBundle -------------------------------
(***************************************************************************)
(* The accounting of a tree of runs: run_bundle.py, run_bundle_v2.py and   *)
(* the projections of kernel/run_ledger.py.  Every run keeps a ledger of   *)
(* its provider calls and metric events; publishing it materializes a      *)
(* bundle, which the run that started it merges into its own, in whatever  *)
(* order results come back, again after a crash, and once more when a      *)
(* completion repair is joined to the run it repaired.                     *)
(*                                                                         *)
(* A digest is the value it digests.  The size of a bundle is the number   *)
(* of its items: over its trigger its events are kept apart in the store, over *)
(* Limit only a summary with its facts in the store is left.               *)
(***************************************************************************)
EXTENDS BundleUsage, TLC

CONSTANTS
    Trees,    \* the run trees to explore, see TreeFields
    Pricing   \* the pricing environment of the process

VARIABLES
    tree,     \* the tree of this behaviour
    led,      \* [run -> its RunLedger, in memory]
    store,    \* [run -> what the store holds of the run]
    inbox,    \* [run -> SubagentState.run_bundles: child run -> bundle]
    results,  \* [run -> the results it has returned: bundle and captured delta]
    real      \* history: [call id -> the tokens the call really used]

vars == <<tree, led, store, inbox, results, real>>

\* parent: [run -> the run that started it, 0 for the root]; repair: the runs
\* that repair the one that started them; turns: [run -> per call, what it may
\* come back with]; trigger: _COMPACT_PROJECTION_TRIGGER_BYTES, in items; limit:
\* the canonical limit of a bundle, in items; revisions: [run -> how often it publishes].
TreeFields == {"parent", "repair", "turns", "trigger", "limit", "revisions"}

Parent == tree.parent

Repair == tree.repair

Runs == DOMAIN Parent

RootRun == CHOOSE r \in Runs : Parent[r] = 0

relation(r) == IF Parent[r] = 0 THEN "root" ELSE IF r \in Repair THEN "auxiliary" ELSE "delegate"

\* RunIdentity.__post_init__: a root has no parent, a child has one and is not the root.
IdentityValid(r) == (relation(r) = "root") <=> (r = RootRun /\ Parent[r] = 0)

----------------------------------------------------------------------------
(* Events, children, coverage and cost.                                   *)

Event(owner, kind, subject, outcome) ==
    [owner |-> owner, parent |-> Parent[owner], kind |-> kind, subject |-> subject, outcome |-> outcome]

\* deterministic_metric_event_id: who, what kind, which subject; not the outcome.
EventId(e) == <<e.owner, e.parent, e.kind, e.subject>>

_metric_event_from_receipt(r) == Event(r.owner, "model_attempt", r.id, r.status)

EventKinds == {"model_attempt", "iteration"}

\* RunMetricCounters.from_events
Counters(events) == [k \in EventKinds |-> Cardinality({e \in events : e.kind = k})]

RunChild(r, status) == [run |-> r, parent |-> Parent[r], relation |-> relation(r), status |-> status]

\* One id, one content.
Unambiguous(S, Id(_)) == \A x, y \in S : Id(x) = Id(y) => x = y

CallsAgree(receipts) == Unambiguous(receipts, LAMBDA r : r.id)

ChildrenAgree(children) == Unambiguous(children, LAMBDA c : c.run)

EventsAgree(events) == Unambiguous(events, EventId)

Covered(r) == r.status = "completed" /\ has_observed_total(r.usage)

\* UsageCoverage.from_receipts
UsageCoverage(receipts) ==
    LET observed == {r \in receipts : Covered(r)}
    IN  [status |-> IF observed = {} THEN "unavailable"
                    ELSE IF observed = receipts THEN "complete" ELSE "partial",
         receipt_count |-> Cardinality(receipts),
         observed_usage_count |-> Cardinality(observed),
         uncertain_call_count |-> Cardinality({r \in receipts : r.status = "uncertain"}),
         missing_usage_call_ids |-> {r.id : r \in receipts \ observed}]

Snapshots(receipts) == {r.pricing.snapshot : r \in {x \in receipts : x.pricing.snapshot # <<>>}}

\* RunCost.from_receipts
RunCost(receipts) ==
    LET estimated == {r \in receipts : r.pricing.status = "estimated"}
    IN  [status |-> IF estimated = {} THEN "unavailable"
                    ELSE IF estimated = receipts THEN "estimated" ELSE "partial",
         amount |-> IF estimated = {} THEN Unknown
                    ELSE MapThenSumSet(LAMBDA r : r.pricing.amount, estimated),
         snapshots |-> Snapshots(receipts)]

SliceKey(r) == <<r.provider, r.model, r.service_tier>>

\* UsageSlice: the calls of one provider, model and tier.
UsageSlices(receipts) ==
    LET group(k) == {r \in receipts : SliceKey(r) = k}
    IN  {[key |-> k, calls |-> {r.id : r \in group(k)}, usage |-> UsageSum(group(k)),
          coverage |-> UsageCoverage(group(k)), cost |-> RunCost(group(k))]
         : k \in {SliceKey(r) : r \in receipts}}

Own(S, run) == {x \in S : x.owner = run}

RunAggregation(run, receipts) ==
    [direct |-> {r.id : r \in Own(receipts, run)},
     descendant |-> {r.id : r \in receipts \ Own(receipts, run)},
     direct_usage |-> UsageSum(Own(receipts, run)),
     descendant_usage |-> UsageSum(receipts \ Own(receipts, run)),
     all_usage |-> UsageSum(receipts)]

ContainsLegacy(receipts) == \E r \in receipts : r.usage.source = "legacy_partial"

----------------------------------------------------------------------------
(* RunBundle: what _validate_projection requires of a bundle.             *)

\* Every child hangs, through the children of the bundle, from its owner.
Rooted(b) ==
    LET ids == {c.run : c \in b.children}
        parent == [i \in ids |-> (CHOOSE c \in b.children : c.run = i).parent]
    IN  /\ b.run \notin ids
        /\ \A c \in b.children : c.parent \in ids \cup {b.run}
        /\ \A i \in ids : \/ parent[i] = b.run
                          \/ parent[i] \in ids /\ parent[i] # i /\ parent[parent[i]] # i

Topology(b) == {b.run} \cup {c.run : c \in b.children}

CallsOwned(b) == \A r \in b.calls : r.owner \in Topology(b)

EventsOwned(b) ==
    \A e \in b.events :
        /\ e.owner \in Topology(b)
        /\ e.parent = IF e.owner = b.run THEN Parent[b.run]
                      ELSE (CHOOSE c \in b.children : c.run = e.owner).parent

CountersAgree(b) ==
    /\ b.metrics.all = Counters(b.events)
    /\ b.metrics.direct = Counters(Own(b.events, b.run))
    /\ b.metrics.descendant = Counters(b.events \ Own(b.events, b.run))

\* The model attempts are exactly the calls, with the outcome of the receipt.
AttemptsAreCalls(b) ==
    LET attempts == {e \in b.events : e.kind = "model_attempt"}
    IN  {<<e.subject, e.outcome>> : e \in attempts} = {<<r.id, r.status>> : r \in b.calls}

AggregationAgrees(b) ==
    /\ b.aggregation.direct \cap b.aggregation.descendant = {}
    /\ b.aggregation = RunAggregation(b.run, b.calls)

CoverageAgrees(b) == b.coverage = UsageCoverage(b.calls) /\ b.cost = RunCost(b.calls)

SlicesPartition(b) ==
    /\ UNION {s.calls : s \in b.slices} = {r.id : r \in b.calls}
    /\ \A s, t \in b.slices : s # t => s.calls \cap t.calls = {}
    /\ \A s \in b.slices :
           LET calls == {r \in b.calls : r.id \in s.calls}
           IN  /\ \A r \in calls : SliceKey(r) = s.key
               /\ s.usage = UsageSum(calls) /\ s.coverage = UsageCoverage(calls)
               /\ s.cost = RunCost(calls)

EvidenceAgrees(b) == b.evidence = [receipts |-> b.calls, snapshots |-> Snapshots(b.calls)]

LegacyAgrees(b) == (b.legacy = "legacy_partial") <=> ContainsLegacy(b.calls)

_validate_projection(b) ==
    /\ Rooted(b) /\ CallsOwned(b) /\ EventsOwned(b) /\ CountersAgree(b) /\ AttemptsAreCalls(b)
    /\ AggregationAgrees(b) /\ CoverageAgrees(b) /\ SlicesPartition(b) /\ EvidenceAgrees(b)
    /\ LegacyAgrees(b)

\* The items of a bundle: its calls with their attempts, its children and the
\* other events it carries.
Size(b) == Cardinality(b.calls) + Cardinality(b.children) + Cardinality(b.events)

NoBundle == [form |-> "none", run |-> 0, rev |-> 0, status |-> "", calls |-> {}, children |-> {}]

Reduced(ok, capacity, b) == [ok |-> ok, capacity |-> capacity, bundle |-> b]

\* The bundle of a run over its facts.
BundleOf(run, status, receipts, children, all, own, rev, ext) ==
    [form |-> "v1", run |-> run, rev |-> rev, status |-> status,
     calls |-> receipts, children |-> children, events |-> all,
     metrics |-> [all |-> Counters(all), direct |-> Counters(own), descendant |-> Counters(all \ own)],
     aggregation |-> RunAggregation(run, receipts),
     slices |-> UsageSlices(receipts),
     coverage |-> UsageCoverage(receipts), cost |-> RunCost(receipts),
     legacy |-> IF ContainsLegacy(receipts) THEN "legacy_partial" ELSE "canonical",
     evidence |-> [receipts |-> receipts, snapshots |-> Snapshots(receipts)],
     ext |-> ext]

WithinLimits(b) ==
    IF ~_validate_projection(b) THEN Reduced(FALSE, FALSE, NoBundle)
    ELSE IF Size(b) > tree.limit THEN Reduced(FALSE, TRUE, NoBundle)
    ELSE Reduced(TRUE, FALSE, b)

ReducedOver(run, status, receipts, children, all, rev, ext) ==
    IF CallsAgree(receipts) /\ ChildrenAgree(children) /\ EventsAgree(all)
    THEN WithinLimits(BundleOf(run, status, receipts, children, all, Own(all, run), rev, ext))
    ELSE Reduced(FALSE, FALSE, NoBundle)

\* RunBundleReducer.reduce: conflicting facts are refused, the rest is a set union.
reduce(run, status, receipts, children, events, rev, ext) ==
    ReducedOver(run, status, receipts, children,
                events \cup {_metric_event_from_receipt(r) : r \in receipts}, rev, ext)

\* A merged bundle of another run is a child of the topology too.
AsChild(bundles, run) == {RunChild(b.run, b.status) : b \in {x \in bundles : x.run # run}}

reduce_bundles(run, status, bundles, rev, ext) ==
    reduce(run, status, UNION {b.calls : b \in bundles},
           UNION {b.children : b \in bundles} \cup AsChild(bundles, run),
           UNION {b.events : b \in bundles}, rev, ext)

----------------------------------------------------------------------------
(* CompactRunBundle: a summary, and digests of the facts it summarizes.   *)

Facts(calls, events, children) == [calls |-> calls, events |-> events, children |-> children]

CountOf(S) == [count |-> Cardinality(S), set |-> S]

_summary_coverage(receipts) ==
    [UsageCoverage(receipts) EXCEPT !.missing_usage_call_ids = CountOf(@)]

_summary_cost(receipts) == [RunCost(receipts) EXCEPT !.snapshots = CountOf(@)]

_summary_evidence(receipts) ==
    [receipts |-> CountOf(receipts), snapshots |-> CountOf(Snapshots(receipts))]

from_facts(run, status, rev, f, ext) ==
    LET own == Own(f.calls, run)
    IN  [form |-> "v2", run |-> run, rev |-> rev, status |-> status,
         provider_call_count |-> Cardinality(f.calls),
         direct_provider_call_count |-> Cardinality(own),
         descendant_provider_call_count |-> Cardinality(f.calls \ own),
         aggregation |-> RunAggregation(run, f.calls),
         metrics |-> [all |-> Counters(f.events), direct |-> Counters(Own(f.events, run)),
                      descendant |-> Counters(f.events \ Own(f.events, run))],
         coverage |-> _summary_coverage(f.calls), cost |-> _summary_cost(f.calls),
         legacy |-> IF ContainsLegacy(f.calls) THEN "legacy_partial" ELSE "canonical",
         evidence |-> _summary_evidence(f.calls), children_set |-> CountOf(f.children),
         details_ref |-> f, ext |-> ext]

\* CompactRunBundle.__post_init__
CompactValid(b) ==
    /\ b.rev > 0
    /\ b.direct_provider_call_count + b.descendant_provider_call_count = b.provider_call_count

\* The facts read back are the ones the reference was made from.
verify_details(b, f) == f = b.details_ref

----------------------------------------------------------------------------
(* The store, and the facts of a bundle read back from it.                *)

EmptyStore == [receipts |-> {}, v1 |-> {}, v2 |-> {}, details |-> {}]

HeadRevision(bundles) == IF bundles = {} THEN 0 ELSE Max({b.rev : b \in bundles})

Head1(bundles) == CHOOSE b \in bundles : b.rev = HeadRevision(bundles)

\* A revision of the full bundle, never below its head nor over a compact one.
CanPersist(st, b) ==
    /\ st.v2 = {}
    /\ b.rev >= HeadRevision(st.v1)
    /\ \A c \in st.v1 : c.rev = b.rev => c = b

CanPersistCompact(st, b) ==
    \/ b \in st.v2
    \/ /\ \A c \in st.v2 : c.rev # b.rev
       /\ b.rev >= HeadRevision(st.v2)
       /\ st.v1 # {} => b.rev > HeadRevision(st.v1)

\* The events of a full bundle: its own, or the ones kept apart under the
\* bundle's revision and the hash of its projection.
EventsReadable(b) == \A k \in b.ext.apart : [rev |-> b.rev, key |-> k] \in store[b.run].details

_load_projection_events_from_durable_bundle(b) ==
    IF b.ext.apart = {} THEN b.events ELSE (CHOOSE k \in b.ext.apart : TRUE).events

\* The facts stay within the run and its children.
WithinBoundary(f, run) ==
    \A x \in f.calls \cup f.events : x.owner \in {run} \cup {c.run : c \in f.children}

FactsReadable(b) ==
    IF b.form = "v1" THEN EventsReadable(b)
    ELSE b \in store[b.run].v2 /\ verify_details(b, b.details_ref) /\ WithinBoundary(b.details_ref, b.run)

_load_projection_facts_from_durable_bundle(b) ==
    IF b.form = "v1"
    THEN Facts(b.calls, _load_projection_events_from_durable_bundle(b), b.children)
    ELSE b.details_ref

----------------------------------------------------------------------------
(* The ledger of a run.                                                   *)

NoKey == [kernel |-> "", calls |-> {}, events |-> {}, children |-> {}]

EmptyLedger ==
    [up |-> FALSE, receipts |-> {}, events |-> {}, seeds |-> {}, rev |-> 0, key |-> NoKey,
     last |-> NoBundle, compact |-> NoBundle]

\* What materialize publishes: the run's own facts and those of its children's
\* bundles, the newest the run was told of.
_merged_projection_inputs(l, bundles, run) ==
    LET facts == {_load_projection_facts_from_durable_bundle(b) : b \in bundles}
    IN  Facts(l.receipts \cup UNION {f.calls : f \in facts},
              l.events \cup UNION {f.events : f \in facts},
              l.seeds \cup UNION {f.children : f \in facts} \cup AsChild(bundles, run))

InputsAgree(f) == CallsAgree(f.calls) /\ ChildrenAgree(f.children) /\ EventsAgree(f.events)

\* The projection carries the last extensions on, but not the mark of events
\* kept apart.
CarriedExtensions(l) ==
    IF l.last # NoBundle THEN [l.last.ext EXCEPT !.apart = {}]
    ELSE IF l.compact # NoBundle THEN [l.compact.ext EXCEPT !.apart = {}]
    ELSE [merged |-> 0, apart |-> {}]

\* The full bundle while it is small, then the bundle with its events apart,
\* then the compact one.
Smallest(f, full, apart, compact) ==
    IF ~full.ok /\ ~full.capacity THEN full
    ELSE IF full.ok /\ (f.events = {} \/ Size(full.bundle) < tree.trigger) THEN full
    ELSE IF ~full.ok /\ f.events = {} THEN compact
    ELSE IF ~apart.ok /\ apart.capacity THEN compact ELSE apart

\* The compact one is written at the revision the run is at.
project(run, l, status, f, key, rev, ext) ==
    Smallest(f, reduce(run, status, f.calls, f.children, f.events, rev, ext),
             reduce(run, status, f.calls, f.children, {}, rev, [ext EXCEPT !.apart = {key}]),
             Reduced(TRUE, TRUE, from_facts(run, status, IF l.rev > 0 THEN l.rev ELSE 1, f, ext)))

\* The outcome of materialize: the ledger, the store of the run and the bundle.
Made(ok, l, st, b) == [ok |-> ok, l |-> l, st |-> st, bundle |-> b]

WithDetails(st, b) ==
    [st EXCEPT !.v1 = @ \cup {b}, !.details = @ \cup {[rev |-> b.rev, key |-> k] : k \in b.ext.apart}]

\* A projection becomes durable before it is the ledger's.
Persisted(l, st, known, made, next) ==
    IF ~made.ok THEN Made(FALSE, l, st, NoBundle)
    ELSE IF made.bundle.form = "v2"
    THEN IF CompactValid(made.bundle) /\ CanPersistCompact(st, made.bundle)
         THEN Made(TRUE, [known EXCEPT !.compact = made.bundle],
                   [st EXCEPT !.v2 = @ \cup {made.bundle}], made.bundle)
         ELSE Made(FALSE, l, st, NoBundle)
    ELSE IF l.last # NoBundle /\ [made.bundle EXCEPT !.rev = l.rev] = l.last
    THEN Made(TRUE, known, st, l.last)
    ELSE IF CanPersist(st, made.bundle)
    THEN Made(TRUE, [known EXCEPT !.rev = next, !.last = made.bundle],
              WithDetails(st, made.bundle), made.bundle)
    ELSE Made(FALSE, [l EXCEPT !.rev = next], st, NoBundle)

KeyOf(status, f) == [kernel |-> status, calls |-> f.calls, events |-> f.events, children |-> f.children]

\* Nothing is projected when no input changed.
Projected(run, l, st, status, f, key) ==
    IF l.key = key /\ l.last # NoBundle THEN Made(TRUE, l, st, l.last)
    ELSE IF l.key = key /\ l.compact # NoBundle THEN Made(TRUE, l, st, l.compact)
    ELSE Persisted(l, st, [l EXCEPT !.key = key],
                   project(run, l, status, f, key, l.rev + 1, CarriedExtensions(l)), l.rev + 1)

MaterializedOver(run, l, st, status, f) ==
    IF InputsAgree(f) THEN Projected(run, l, st, status, f, KeyOf(status, f)) ELSE Made(FALSE, l, st, NoBundle)

materialize(run, l, st, bundles, status) ==
    IF \E b \in bundles : ~FactsReadable(b) THEN Made(FALSE, l, st, NoBundle)
    ELSE MaterializedOver(run, l, st, status, _merged_projection_inputs(l, bundles, run))

\* Only the run's own receipts are read back.
OwnReceiptsReadBack(run, st) ==
    LET bundles == st.v1 \cup st.v2
        head == IF bundles = {} THEN NoBundle ELSE Head1(bundles)
    IN  [up |-> TRUE, receipts |-> st.receipts, events |-> {}, seeds |-> {}, rev |-> head.rev, key |-> NoKey,
         last |-> IF head.form = "v1" THEN head ELSE NoBundle,
         compact |-> IF head.form = "v2" THEN head ELSE NoBundle]

\* Attaching reads back the receipts and the newest bundle with its facts.
attach_persistence(run, st) ==
    LET bundles == st.v1 \cup st.v2
        head == IF bundles = {} THEN NoBundle ELSE Head1(bundles)
        f == IF bundles = {} THEN Facts({}, {}, {}) ELSE _load_projection_facts_from_durable_bundle(head)
    IN  [up |-> TRUE, receipts |-> st.receipts \cup f.calls, events |-> f.events,
         seeds |-> f.children, rev |-> head.rev, key |-> NoKey,
         last |-> IF head.form = "v1" THEN head ELSE NoBundle,
         compact |-> IF head.form = "v2" THEN head ELSE NoBundle]

Attachable(st) == st.v1 \cup st.v2 # {} => FactsReadable(Head1(st.v1 \cup st.v2))

----------------------------------------------------------------------------
(* Joining completion repairs: merge_run_bundle_values.                   *)

\* The one root among the bundles, by identity.
RootCandidates(bundles) == {b \in bundles : Parent[b.run] = 0}

\* The facts of several bundles.
FactsOver(bundles, facts, run) ==
    Facts(UNION {x.calls : x \in facts}, UNION {x.events : x \in facts},
          UNION {x.children : x \in facts} \cup AsChild(bundles, run))

CompactOf(run, status, rev, f, ext) ==
    IF InputsAgree(f) THEN Reduced(TRUE, TRUE, from_facts(run, status, rev, f, ext))
    ELSE Reduced(FALSE, FALSE, NoBundle)

\* The full bundle when all of them are full and it fits, else the compact one.
FullOrCompact(root, bundles, full, compact) ==
    IF Cardinality({b.run : b \in RootCandidates(bundles)}) # 1 THEN Reduced(FALSE, FALSE, NoBundle)
    ELSE IF (\A b \in bundles : b.form = "v1") /\ (full.ok \/ ~full.capacity) THEN full
    ELSE IF \A b \in bundles : FactsReadable(b) THEN compact ELSE Reduced(FALSE, FALSE, NoBundle)

\* root and the repairs that followed it, the last of which is final.
merge_run_bundle_values(root, bundles, final, rev, ext) ==
    FullOrCompact(root, bundles, reduce_bundles(root.run, final.status, bundles, rev, ext),
        CompactOf(root.run, final.status, rev,
                  FactsOver(bundles, {_load_projection_facts_from_durable_bundle(b) : b \in bundles}, root.run), ext))

----------------------------------------------------------------------------
(* Steps.                                                                 *)

Init ==
    /\ tree \in Trees
    /\ led = [r \in Runs |-> [EmptyLedger EXCEPT !.up = TRUE]]
    /\ store = [r \in Runs |-> EmptyStore]
    /\ inbox = [r \in Runs |-> <<>>]
    /\ results = [r \in Runs |-> {}]
    /\ real = <<>>

\* The last result a run returned.
Latest(r) == CHOOSE x \in results[r] : \A y \in results[r] : y.bundle.rev <= x.bundle.rev

\* A repair starts once the run it repairs has returned completed.
Started(r) ==
    r \in Repair => /\ ~led[Parent[r]].up
                    /\ results[Parent[r]] # {}
                    /\ Latest(Parent[r]).bundle.status = "completed"

Sends(r) == Cardinality(Own(led[r].receipts, r))

\* The receipt is durable before the ledger holds it; the iteration is sealed
\* with the outcome of the call.
Recorded(r, receipt) ==
    /\ led' = [led EXCEPT ![r].receipts = @ \cup {receipt},
                          ![r].events = @ \cup {Event(r, "iteration", receipt.id, receipt.status)}]
    /\ store' = [store EXCEPT ![r].receipts = @ \cup {receipt}]

\* The receipt of the run's next send, unless the ledger already has it.
RecordAttempt(r, t, turn, status) ==
    /\ led[r].up /\ Started(r)
    /\ \E receipt \in {build_model_attempt_receipt([owner |-> r, iteration |-> Sends(r) + 1],
                                                    t.dim, turn, status, t.times, Pricing)} :
           /\ ReceiptValid(receipt)
           /\ Recorded(r, receipt)
           /\ real' = real @@ (receipt.id :> t.real)
    /\ UNCHANGED <<tree, inbox, results>>

Convertible(t) == t.turn.kind # "none" /\ from_model_turn_result(t.turn) # RefusedUsage

\* A provider call comes back with a turn.
record_model_turn(r, t) ==
    /\ Convertible(t)
    /\ RecordAttempt(r, t, t.turn, IF AllKnown(t.times) THEN "completed" ELSE "uncertain")

\* It does not, or what it reports cannot be converted.
record_unobserved_model_attempt(r, t) ==
    /\ ~Convertible(t)
    /\ RecordAttempt(r, t, NoTurn, IF Known(t.times[2]) THEN "failed" ELSE "uncertain")

\* SubagentState.merged: the newest revision of each child's bundle stays.
Newer(box, new) ==
    [c \in DOMAIN box \cup DOMAIN new |->
        IF c \notin DOMAIN box THEN new[c]
        ELSE IF c \notin DOMAIN new \/ new[c].rev < box[c].rev THEN box[c] ELSE new[c]]

MergeConflict(box, new) ==
    \E c \in DOMAIN box \cap DOMAIN new : box[c].rev = new[c].rev /\ box[c] # new[c]

\* A run returns, or suspends, with its bundle; both go to whoever called it.
Publish(r, status) ==
    /\ led[r].up /\ Started(r) /\ Cardinality(results[r]) < tree.revisions[r]
    /\ \E made \in {materialize(r, led[r], store[r], Range(inbox[r]), status)} :
           /\ led' = [led EXCEPT ![r] = [made.l EXCEPT !.up = made.ok /\ status = "suspended"]]
           /\ store' = [store EXCEPT ![r] = made.st]
           /\ results' = [results EXCEPT ![r] =
                  IF made.ok THEN @ \cup {[bundle |-> made.bundle, delta |-> inbox[r]]} ELSE @]
    /\ UNCHANGED <<tree, inbox, real>>

\* A result reaches the run that started this one, first the child's own
\* state delta and then its bundle; results come back late, twice or in
\* another order.
_merge_result_subagent_state(r, result) ==
    /\ Parent[r] # 0 /\ r \notin Repair /\ led[Parent[r]].up
    /\ LET p == Parent[r]
           both == Newer(result.delta, r :> result.bundle)
       IN  /\ ~MergeConflict(inbox[p], both)
           /\ inbox' = [inbox EXCEPT ![p] = Newer(@, both)]
    /\ UNCHANGED <<tree, led, store, results, real>>

\* The process of a run dies, or the run is suspended; another process attaches
\* to what is durable.  A suspended run still has its children's bundles.
Reattach(r, kept) ==
    /\ led[r] # EmptyLedger /\ Cardinality(results[r]) < tree.revisions[r]
    /\ led' = [led EXCEPT ![r] =
           IF Attachable(store[r]) THEN attach_persistence(r, store[r]) ELSE EmptyLedger]
    /\ inbox' = [inbox EXCEPT ![r] = IF kept THEN @ ELSE <<>>]
    /\ UNCHANGED <<tree, store, results, real>>

\* PreparedAgent.run after the repairs: one bundle for all, durable as the next
\* revision of the run.
JoinRepair(r, first, last) ==
    /\ ~led[r].up /\ first.bundle.status = "completed" /\ first.bundle.ext.merged = 0
    /\ \E merged \in {merge_run_bundle_values(first.bundle, {first.bundle, last.bundle}, last.bundle,
                         Max({first.bundle.rev, last.bundle.rev}) + 1, [first.bundle.ext EXCEPT !.merged = 2])} :
       LET b == merged.bundle
           kept == merged.ok /\ IF b.form = "v1" THEN CanPersist(store[r], b)
                                ELSE CanPersistCompact(store[r], b)
       IN  /\ kept
           /\ store' = [store EXCEPT ![r] = IF b.form = "v1" THEN [@ EXCEPT !.v1 = @ \cup {b}]
                                            ELSE [@ EXCEPT !.v2 = @ \cup {b}]]
           /\ results' = [results EXCEPT ![r] = @ \cup {[bundle |-> b, delta |-> first.delta]}]
    /\ UNCHANGED <<tree, led, inbox, real>>

Next ==
    \/ \E r \in Runs : Sends(r) < Len(tree.turns[r])
                      /\ \E t \in tree.turns[r][Sends(r) + 1] :
                             record_model_turn(r, t) \/ record_unobserved_model_attempt(r, t)
    \/ \E r \in Runs, status \in {"completed", "suspended"} : Publish(r, status)
    \/ \E r \in Runs : \E result \in results[r] : _merge_result_subagent_state(r, result)
    \/ \E r \in Runs, kept \in BOOLEAN : Reattach(r, kept)
    \/ \E q \in Repair : results[Parent[q]] # {} /\ results[q] # {} /\ JoinRepair(Parent[q], Latest(Parent[q]), Latest(q))

Spec == Init /\ [][Next]_vars

----------------------------------------------------------------------------
(* Properties.                                                            *)

Published == UNION {{x.bundle : x \in results[r]} : r \in Runs}

CallsOf(b) == IF b.form = "v1" THEN b.calls ELSE b.details_ref.calls

ChildrenOf(b) == IF b.form = "v1" THEN b.children ELSE b.details_ref.children

\* The real value of each counter, from what a call really used.
RealField(u, f) ==
    CASE f = "input_uncached_tokens" -> u.fresh
      [] f = "input_cache_read_tokens" -> u.read
      [] f = "input_cache_write_tokens" -> u.w5 + u.w1
      [] f = "input_cache_write_5m_tokens" -> u.w5
      [] f = "input_cache_write_1h_tokens" -> u.w1
      [] f = "input_total_tokens" -> u.fresh + u.read + u.w5 + u.w1
      [] f = "output_visible_tokens" -> u.visible
      [] f = "output_reasoning_tokens" -> u.reasoning
      [] f = "output_total_tokens" -> u.visible + u.reasoning
      [] f = "total_tokens" -> u.fresh + u.read + u.w5 + u.w1 + u.visible + u.reasoning

Spent(b, f) == MapThenSumSet(LAMBDA i : RealField(real[i], f), {r.id : r \in CallsOf(b)})

\* CompleteIsExact: whatever path the calls of a tree of runs took into a bundle
\* (the run's own sends, a child's result, the same child through its parent's
\* delta, a read-back after a restart, a repair joined to its run), each is
\* counted once: every counter the published total claims to know is the sum of
\* what the calls really used, and coverage "complete" means the total is known.
\* Only a bundle marked legacy_partial may count cached input as fresh.
CompleteIsExact ==
    \A b \in Published :
        LET u == b.aggregation.all_usage
        IN  /\ \A f \in _FIELDS :
                  Known(u[f]) /\ (u.source = "legacy_partial" => f = "total_tokens") => u[f] = Spent(b, f)
            /\ b.coverage.status = "complete" => Known(u.total_tokens)
            /\ (u.source = "legacy_partial") => b.legacy = "legacy_partial"

\* RevisionsGrow: a later revision of a run's bundle accounts for every provider
\* call and every descendant an earlier one accounted for, although the process
\* restarts from the store, child results come back late, twice or out of order
\* and the account changes its form when it grows.
RevisionsGrow ==
    \A r \in Runs : \A x, y \in {z.bundle : z \in results[r]} :
        x.rev < y.rev => /\ CallsOf(x) \subseteq CallsOf(y)
                         /\ {c.run : c \in ChildrenOf(x)} \subseteq {c.run : c \in ChildrenOf(y)}
=============================================================================
