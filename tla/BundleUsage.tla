------------------------------ MODULE BundleUsage ------------------------------
(***************************************************************************)
(* What one provider call used and cost: ProviderCallUsage, its conversion *)
(* from what each provider reports, the pricing snapshots of               *)
(* pricing_catalog.py and the receipt that binds them (run_bundle.py).     *)
(*                                                                         *)
(* A counter that is not known is Unknown.  A raw usage report gives, per  *)
(* quantity, the set of values its aliases carry: {} when absent, two      *)
(* values when they disagree.  Timestamps are small numbers, digests are   *)
(* the values they digest, and the two scales of list prices (a million    *)
(* tokens, a million parts) are the constants Million and Ppm.             *)
(***************************************************************************)
EXTENDS Integers, FiniteSets, FiniteSetsExt, Sequences, Functions

CONSTANTS Million, Ppm

Unknown == -1

Known(v) == v # Unknown

_FIELDS ==
    {"input_uncached_tokens", "input_cache_read_tokens", "input_cache_write_tokens",
     "input_cache_write_5m_tokens", "input_cache_write_1h_tokens", "input_total_tokens",
     "output_visible_tokens", "output_reasoning_tokens", "output_total_tokens", "total_tokens"}

\* The sum of the known values of a tuple of counters.
KnownSum(parts) == FoldFunction(LAMBDA v, acc : IF Known(v) THEN v + acc ELSE acc, 0, parts)

AllKnown(parts) == \A i \in DOMAIN parts : Known(parts[i])

----------------------------------------------------------------------------
(* ProviderCallUsage.                                                     *)

Unavailable == [f \in _FIELDS \cup {"source"} |-> IF f = "source" THEN "unavailable" ELSE Unknown]

RefusedUsage == [Unavailable EXCEPT !.source = "refused"]

is_disjoint_complete(u) == \A f \in _FIELDS : Known(u[f])

has_observed_total(u) == Known(u.total_tokens)

InputParts(u) == <<u.input_uncached_tokens, u.input_cache_read_tokens, u.input_cache_write_tokens>>

OutputParts(u) == <<u.output_visible_tokens, u.output_reasoning_tokens>>

TtlParts(u) == <<u.input_cache_write_5m_tokens, u.input_cache_write_1h_tokens>>

\* Parts never exceed their total, and equal it when all of them are known.
PartsFit(parts, total) ==
    Known(total) => /\ KnownSum(parts) <= total
                    /\ AllKnown(parts) => KnownSum(parts) = total

\* Both lifetimes of a cache write give the write itself when it is not reported.
WithCacheWrite(u) ==
    IF AllKnown(TtlParts(u)) /\ ~Known(u.input_cache_write_tokens)
    THEN [u EXCEPT !.input_cache_write_tokens = KnownSum(TtlParts(u))]
    ELSE u

Consistent(u) ==
    /\ AllKnown(TtlParts(u)) => KnownSum(TtlParts(u)) = u.input_cache_write_tokens
    /\ PartsFit(InputParts(u), u.input_total_tokens)
    /\ PartsFit(OutputParts(u), u.output_total_tokens)
    /\ AllKnown(<<u.input_total_tokens, u.output_total_tokens, u.total_tokens>>)
       => u.input_total_tokens + u.output_total_tokens = u.total_tokens

ProviderCallUsage(u) ==
    IF u.source # "refused" /\ Consistent(WithCacheWrite(u)) THEN WithCacheWrite(u) ELSE RefusedUsage

_observed_source(u) ==
    IF \A f \in _FIELDS : ~Known(u[f]) THEN "unavailable"
    ELSE IF is_disjoint_complete(u) THEN "provider_observed" ELSE "provider_observed_partial"

\* The conversions end by constructing the value twice, the second time with
\* the source its fields earn.
Observed(fields) ==
    LET u == ProviderCallUsage([fields EXCEPT !.source = "provider_observed_partial"])
    IN  IF u = RefusedUsage THEN u ELSE [u EXCEPT !.source = _observed_source(u)]

_present_count(values) == IF values = {} THEN Unknown ELSE CHOOSE v \in values : TRUE

AliasesAgree(raw) == \A f \in DOMAIN raw : Cardinality(raw[f]) <= 1

\* a - b when both are known.
Minus(a, b) == IF Known(a) /\ Known(b) THEN a - b ELSE Unknown

Plus(a, b) == IF Known(a) /\ Known(b) THEN a + b ELSE Unknown

Exceeds(part, whole) == Known(part) /\ Known(whole) /\ part > whole

\* OpenAI: input_tokens includes what was cached.
from_openai_usage(raw) ==
    LET input == _present_count(raw.input)
        read == _present_count(raw.read)
        write == _present_count(raw.write)
        output == _present_count(raw.output)
        reasoning == _present_count(raw.reasoning)
        total == _present_count(raw.total)
    IN  IF \/ ~AliasesAgree(raw)
           \/ Exceeds(Plus(read, write), input)
           \/ Exceeds(reasoning, output)
        THEN RefusedUsage
        ELSE Observed([Unavailable EXCEPT
                 !.input_uncached_tokens = Minus(Minus(input, read), write),
                 !.input_cache_read_tokens = read,
                 !.input_cache_write_tokens = write,
                 !.input_total_tokens = input,
                 !.output_visible_tokens = Minus(output, reasoning),
                 !.output_reasoning_tokens = reasoning,
                 !.output_total_tokens = output,
                 !.total_tokens = IF Known(total) THEN total ELSE Plus(input, output)])

\* Reasoning that is neither reported nor present was none.
Reasoned(reported, reasoning_present) ==
    IF ~Known(reported) /\ ~reasoning_present THEN 0 ELSE reported

\* Anthropic: input_tokens excludes what was cached.
from_anthropic_usage(raw, reasoning_present) ==
    LET uncached == _present_count(raw.input)
        read == _present_count(raw.read)
        brief == _present_count(raw.write_5m)
        hourly == _present_count(raw.write_1h)
        write == IF raw.write = {} THEN Plus(brief, hourly) ELSE _present_count(raw.write)
        input == Plus(Plus(uncached, read), write)
        output == _present_count(raw.output)
        reasoning == Reasoned(_present_count(raw.reasoning), reasoning_present)
    IN  IF ~AliasesAgree(raw) \/ Exceeds(reasoning, output)
        THEN RefusedUsage
        ELSE Observed([Unavailable EXCEPT
                 !.input_uncached_tokens = uncached,
                 !.input_cache_read_tokens = read,
                 !.input_cache_write_tokens = write,
                 !.input_cache_write_5m_tokens = brief,
                 !.input_cache_write_1h_tokens = hourly,
                 !.input_total_tokens = input,
                 !.output_visible_tokens = Minus(output, reasoning),
                 !.output_reasoning_tokens = reasoning,
                 !.output_total_tokens = output,
                 !.total_tokens = Plus(input, output)])

\* Ollama has no cache.
from_ollama_usage(raw, reasoning_present) ==
    LET input == _present_count(raw.input)
        output == _present_count(raw.output)
        reasoning == Reasoned(_present_count(raw.reasoning), reasoning_present)
    IN  IF ~AliasesAgree(raw) \/ Exceeds(reasoning, output)
        THEN RefusedUsage
        ELSE Observed([Unavailable EXCEPT
                 !.input_uncached_tokens = input,
                 !.input_cache_read_tokens = 0,
                 !.input_cache_write_tokens = 0,
                 !.input_cache_write_5m_tokens = 0,
                 !.input_cache_write_1h_tokens = 0,
                 !.input_total_tokens = input,
                 !.output_visible_tokens = Minus(output, reasoning),
                 !.output_reasoning_tokens = reasoning,
                 !.output_total_tokens = output,
                 !.total_tokens = Plus(input, output)])

\* A turn without canonical usage: a zero may mean unknown, so it is unknown.
from_legacy_model_turn_result(turn) ==
    LET positive(n) == IF n > 0 THEN n ELSE Unknown
    IN  ProviderCallUsage([Unavailable EXCEPT
            !.input_uncached_tokens = positive(turn.input),
            !.input_cache_read_tokens = positive(turn.read),
            !.input_cache_write_tokens = positive(turn.write),
            !.output_total_tokens = positive(turn.output),
            !.total_tokens = positive(turn.consumed),
            !.source = "legacy_partial"])

SumSource(sources, complete) ==
    IF "legacy_partial" \in sources THEN "legacy_partial"
    ELSE IF sources = {"unavailable"} THEN "unavailable"
    ELSE IF sources = {"provider_observed"} /\ complete THEN "provider_observed"
    ELSE "provider_observed_partial"

\* A counter nobody reported counts as zero.
MissingIsZero(receipts) ==
    LET field(f) == MapThenSumSet(LAMBDA r : IF Known(r.usage[f]) THEN r.usage[f] ELSE 0, receipts)
    IN  [f \in _FIELDS \cup {"source"} |-> IF f = "source" THEN "provider_observed_partial" ELSE field(f)]

\* A counter of the sum is known when it is known of every call.
UsageSum(receipts) ==
    LET field(f) == IF \E r \in receipts : ~Known(r.usage[f]) THEN Unknown
                    ELSE MapThenSumSet(LAMBDA r : r.usage[f], receipts)
        sum == [f \in _FIELDS \cup {"source"} |-> IF f = "source" THEN "" ELSE field(f)]
    IN  IF receipts = {} THEN Unavailable
        ELSE ProviderCallUsage([sum EXCEPT !.source =
                 SumSource({r.usage.source : r \in receipts}, is_disjoint_complete(sum))])

----------------------------------------------------------------------------
(* The pricing catalog.  An entry is a price identity, its six rates, an   *)
(* optional long-context rule and the source it was taken from.            *)

PriceIdentity(e) ==
    <<e.provider, e.billing_surface, e.model, e.service_tier, e.batch, e.inference_geo>>

_validate_source(s) == s.official = s.provider

_validate_entry(e, sources) ==
    /\ e.source_index \in DOMAIN sources
    /\ e.currency = "USD"
    /\ e.rule # <<>> => \A i \in 1..3 : e.rule[i] > 0

_validate_catalog(c) ==
    /\ c.currency = "USD"
    /\ Known(c.effective_to) => c.effective_to > c.effective_from
    /\ c.sources # <<>> /\ c.entries # <<>>
    /\ \A i \in DOMAIN c.sources : _validate_source(c.sources[i])
    /\ \A i \in DOMAIN c.entries : /\ _validate_entry(c.entries[i], c.sources)
                                   /\ c.entries[i].currency = c.currency
                                   /\ c.sources[c.entries[i].source_index].provider = c.entries[i].provider
    /\ \A i, j \in DOMAIN c.entries : PriceIdentity(c.entries[i]) = PriceIdentity(c.entries[j]) => i = j
    /\ \A i \in DOMAIN c.sources : c.sources[i].retrieved_at <= c.retrieved_at

\* The payload digest and the digest over the whole are those of the catalog.
_validate_pricing_projection(p) ==
    /\ _validate_catalog(p.catalog)
    /\ p.payload = p.catalog
    /\ p.projection = p.catalog

\* The snapshots of a projection file whose digest is the pinned one.
from_projection_file(p, pin) ==
    IF ~_validate_pricing_projection(p) THEN [ok |-> FALSE, code |-> "pricing_projection_invalid", entries |-> {}]
    ELSE IF p.projection # pin
    THEN [ok |-> FALSE, code |-> "pricing_projection_untrusted", entries |-> {}]
    ELSE [ok |-> TRUE, code |-> "",
          entries |-> {[entry |-> p.catalog.entries[i], from |-> p.catalog.effective_from,
                        until |-> p.catalog.effective_to] : i \in DOMAIN p.catalog.entries}]

\* No pricing file is configured, only half of it is, or both parts are.
from_environment(env) ==
    IF ~env.path /\ ~env.pinned
    THEN [ok |-> FALSE, code |-> "pricing_catalog_unconfigured", entries |-> {}]
    ELSE IF ~env.path \/ ~env.pinned
    THEN [ok |-> FALSE, code |-> "pricing_catalog_trust_configuration_incomplete", entries |-> {}]
    ELSE from_projection_file(env.file, env.pin)

InForce(s, at) == at >= s.from /\ (Known(s.until) => at < s.until)

resolve_snapshot(entries, identity, at) ==
    LET same == {s \in entries : PriceIdentity(s.entry) = identity}
        matches == {s \in same : InForce(s, at)}
    IN  IF Cardinality(matches) = 1 THEN [code |-> "", snapshot |-> CHOOSE s \in matches : TRUE]
        ELSE [code |-> IF matches # {} THEN "pricing_identity_ambiguous"
                       ELSE IF same # {} THEN "pricing_catalog_not_effective"
                       ELSE "pricing_identity_unknown",
              snapshot |-> <<>>]

Unpriced(reason, snapshot) ==
    [status |-> "unavailable", amount |-> Unknown, reason |-> reason, snapshot |-> snapshot]

\* The tokens that are billed beside the rate of each, the output last.
PricePairs(rates, u) ==
    <<<<u.input_uncached_tokens, rates.uncached>>, <<u.input_cache_read_tokens, rates.read>>>>
    \o (IF AllKnown(TtlParts(u))
        THEN <<<<u.input_cache_write_5m_tokens, rates.write_5m>>,
               <<u.input_cache_write_1h_tokens, rates.write_1h>>>>
        ELSE <<<<u.input_cache_write_tokens, rates.write>>>>)
    \o <<<<u.output_total_tokens, rates.output>>>>

Multipliers(rule, input) ==
    IF rule # <<>> /\ input > rule[1] THEN <<rule[2], rule[3]>> ELSE <<Ppm, Ppm>>

\* A rate that is missing counts for nothing once no token needs it.
Priced(pair) == pair[1] * (IF Known(pair[2]) THEN pair[2] ELSE 0)

estimate(s, u) ==
    LET pairs == PricePairs(s.entry.rates, u)
        last == Len(pairs)
        by == Multipliers(s.entry.rule, u.input_total_tokens)
        amount == by[1] * MapThenSumSet(LAMBDA i : Priced(pairs[i]), 1..last - 1)
                  + by[2] * Priced(pairs[last])
    IN  IF \E i \in 1..last : ~Known(pairs[i][1]) THEN Unpriced("usage_incomplete_for_pricing", s)
        ELSE IF \E i \in 1..last : pairs[i][1] > 0 /\ ~Known(pairs[i][2])
        THEN Unpriced("pricing_rate_unavailable", s)
        ELSE IF ~Known(u.input_total_tokens)
        THEN Unpriced("input_total_unknown_for_pricing_modifier", s)
        ELSE [status |-> "estimated", reason |-> "", snapshot |-> s,
              amount |-> (amount + (Million * Ppm) \div 2) \div (Million * Ppm)]

----------------------------------------------------------------------------
(* The receipt.                                                           *)

\* One physical send has one id, whatever was observed of it.
deterministic_provider_call_id(identity, provider, model) ==
    <<identity.owner, identity.iteration, provider, model>>

ReceiptIdentity(r) == <<r.provider, r.billing_surface, r.model, r.service_tier, r.batch, r.inference_geo>>

\* ProviderCallTiming: an end has a beginning, and follows it.
TimingValid(r) == Known(r.completed_at) => Known(r.started_at) /\ r.started_at <= r.completed_at

\* PricingSnapshotRef: in force for some time, and a rule is whole and positive.
SnapshotValid(s) ==
    /\ Known(s.until) => s.until > s.from
    /\ s.entry.currency = "USD"
    /\ s.entry.rule # <<>> => \A i \in 1..3 : s.entry.rule[i] > 0

\* ProviderCallPricing: an estimate has a snapshot and an amount, anything else a reason.
PricingValid(p) ==
    /\ p.snapshot # <<>> => SnapshotValid(p.snapshot)
    /\ IF p.status = "estimated" THEN p.snapshot # <<>> /\ Known(p.amount) /\ p.reason = ""
       ELSE ~Known(p.amount) /\ p.reason # ""

\* ProviderCallReceipt.__post_init__
ReceiptValid(r) ==
    /\ TimingValid(r) /\ PricingValid(r.pricing)
    /\ r.status \in {"completed", "failed"} => Known(r.started_at) /\ Known(r.completed_at)
    /\ r.pricing.snapshot # <<>> => PriceIdentity(r.pricing.snapshot.entry) = ReceiptIdentity(r)
    /\ r.id = deterministic_provider_call_id(r.identity, r.provider, r.model)

\* Every dimension of the price must be known; nothing is guessed and nothing raises.
resolve_pricing_for_receipt(r, env) ==
    LET catalog == from_environment(env)
        found == resolve_snapshot(catalog.entries, ReceiptIdentity(r), r.started_at)
    IN  IF ~Known(r.started_at) THEN Unpriced("pricing_time_unknown", <<>>)
        ELSE IF r.service_tier = "" THEN Unpriced("pricing_service_tier_unknown", <<>>)
        ELSE IF r.billing_surface = "" THEN Unpriced("pricing_billing_surface_unknown", <<>>)
        ELSE IF r.batch = "" THEN Unpriced("pricing_batch_mode_unknown", <<>>)
        ELSE IF r.inference_geo = "" THEN Unpriced("pricing_inference_geo_unknown", <<>>)
        ELSE IF ~catalog.ok THEN Unpriced(catalog.code, <<>>)
        ELSE IF found.snapshot = <<>> THEN Unpriced(found.code, <<>>)
        ELSE estimate(found.snapshot, r.usage)

\* The usage of a turn: its provider's canonical usage, else the legacy counts.
from_model_turn_result(turn) ==
    CASE turn.kind = "openai" -> from_openai_usage(turn.raw)
      [] turn.kind = "anthropic" -> from_anthropic_usage(turn.raw, turn.reasoned)
      [] turn.kind = "ollama" -> from_ollama_usage(turn.raw, turn.reasoned)
      [] turn.kind = "legacy" -> from_legacy_model_turn_result(turn.raw)

NoTurn == [kind |-> "none"]

\* The receipt of one attempt: dim gives the provider, the model and what the
\* payload says of the price, turn the observed turn or NoTurn.
build_model_attempt_receipt(identity, dim, turn, status, timing, env) ==
    LET bare == [id |-> deterministic_provider_call_id(identity, dim.provider, dim.model),
                 identity |-> identity, owner |-> identity.owner, status |-> status,
                 provider |-> dim.provider, model |-> dim.model, service_tier |-> dim.service_tier,
                 billing_surface |-> dim.billing_surface, batch |-> dim.batch,
                 inference_geo |-> dim.inference_geo,
                 started_at |-> timing[1], completed_at |-> timing[2],
                 usage |-> IF turn.kind = "none" THEN Unavailable ELSE from_model_turn_result(turn),
                 pricing |-> Unpriced("pricing_snapshot_unavailable", <<>>)]
    IN  [bare EXCEPT !.pricing = resolve_pricing_for_receipt(bare, env)]
=============================================================================
