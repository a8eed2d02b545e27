--------------------------- MODULE HistoryReduction ---------------------------
(***************************************************************************)
(* What the model is shown of a long conversation when no context compiler *)
(* owns it: tools/messages.py builds the messages of a tool result for the *)
(* provider, tools/result_budget.py cuts the results of a batch down to    *)
(* their budget, kernel/microcompact.py replaces old results in the        *)
(* transcript, and before each model call the optimizers (optimizers/,     *)
(* with the deferred compaction of memory/manager.py) build the request    *)
(* from the transcript: compact the tools of old turns, summarise, slide   *)
(* the window, keep the last turns, append what the user said meanwhile.   *)
(*                                                                         *)
(* Text is a number of characters (one character is one token); a payload  *)
(* also says who shortened it last (by) and whether it says so itself      *)
(* (mark, the "compacted" field).  n is the place where a message was      *)
(* written, for the properties only.                                       *)
(***************************************************************************)
EXTENDS Integers, Sequences, FiniteSets, SequencesExt, FiniteSetsExt, Functions, TLC

CONSTANTS Sites,       \* provider, tools, configurations, and how often (asks: messages
                       \* of the user, fyis: those sent while the agent works, batches)
          Texts        \* sizes of results

VARIABLES site,
          transcript,  \* RunState.transcript, saved with the session
          phase,       \* idle, model, sent, tools
          request,     \* the last request: its messages, and the summary's verdict
          summary,     \* what the llm_summary bucket covers: message numbers
          seen,        \* calls whose result was sent as the batch left it, or
                       \* whose run ended with the batch
          fyis, asks, batches, lastBatch

vars == <<site, transcript, phase, request, summary, seen, fyis, asks, batches, lastBatch>>

----------------------------------------------------------------------------
(* Messages.                                                              *)

NoCalls == <<>>

Payload(chars, image) == [chars |-> chars, image |-> image, by |-> "tool", mark |-> FALSE]

Msg(who, shape, chars, calls, results, n) ==
    [who |-> who, shape |-> shape, chars |-> chars, calls |-> calls, results |-> results, n |-> n]

Total(f) == FoldSet(LAMBDA c, sum : sum + f[c].chars + f[c].image, 0, DOMAIN f)

_message_chars(msgs) == FoldLeft(LAMBDA sum, m : sum + m.chars + Total(m.calls) + Total(m.results), 0, msgs)

\* Where there is a content, only the content counts: not the calls beside it (Ollama).
_message_to_text(m) ==
    m.chars + Total(m.results) + IF site.provider = "ollama" THEN 0 ELSE Total(m.calls)

estimate_tokens(msgs) == FoldLeft(LAMBDA sum, m : sum + _message_to_text(m), 0, msgs)

Systems(msgs) == SelectSeq(msgs, LAMBDA m : m.who = "system")

NonSystem(msgs) == SelectSeq(msgs, LAMBDA m : m.who # "system")

\* A user message that only carries results; one with a picture beside the
\* results (Gemini) is not.
_is_tool_result_like_message(m) ==
    m.shape \in {"tool_result", "function_response"} /\ m.chars = 0

AnyUserOpens(m) == m.who = "user"

\* The message begins a turn.
OpensTurn(m) == m.who = "user" /\ ~_is_tool_result_like_message(m)

\* The first positions of the turns: split_turns.
split_turns(msgs) ==
    SetToSortSeq({i \in DOMAIN msgs : i = 1 \/ OpensTurn(msgs[i])}, <)

\* The messages from turn k on.
FromTurn(msgs, turns, k) ==
    IF k > Len(turns) THEN <<>> ELSE SubSeq(msgs, turns[k], Len(msgs))

----------------------------------------------------------------------------
(* Building the messages of a batch.                                      *)

\* One result; a picture goes beside the response (Gemini), after it in a message
\* of its own (Ollama), inside it (Anthropic), or is the response (OpenAI).
OpenAIMessageBuilder(c, p, n) ==
    <<IF p.image > 0
      THEN Msg("item", "computer_call_output", 0, NoCalls, c :> [p EXCEPT !.chars = 0], n)
      ELSE Msg("item", "function_call_output", 0, NoCalls, c :> p, n)>>

AnthropicMessageBuilder(c, p, n) == <<Msg("user", "tool_result", 0, NoCalls, c :> p, n)>>

GeminiMessageBuilder(c, p, n) ==
    <<Msg("user", "function_response", p.image, NoCalls, c :> [p EXCEPT !.image = 0], n)>>

OllamaMessageBuilder(c, p, n) ==
    <<Msg("tool", "role_tool", 0, NoCalls, c :> [p EXCEPT !.image = 0], n)>>
    \o IF p.image > 0 THEN <<Msg("user", "text", p.image, NoCalls, NoCalls, n)>> ELSE <<>>

get_provider_message_builder(c, p, n) ==
    CASE site.provider = "openai" -> OpenAIMessageBuilder(c, p, n)
      [] site.provider = "anthropic" -> AnthropicMessageBuilder(c, p, n)
      [] site.provider = "gemini" -> GeminiMessageBuilder(c, p, n)
      [] site.provider = "ollama" -> OllamaMessageBuilder(c, p, n)

\* Anthropic takes the results of a batch in one message.
coalesce_provider_tool_result_messages(msgs) ==
    IF site.provider # "anthropic" \/ msgs = <<>> THEN msgs
    ELSE <<[msgs[1] EXCEPT !.results = FoldLeft(LAMBDA f, m : f @@ m.results, <<>>, msgs)]>>

\* The answer of the model: one item per call for OpenAI, one message otherwise.
AssistantMessages(chars, calls, n) ==
    IF site.provider = "openai"
    THEN (IF chars > 0 \/ calls = NoCalls
          THEN <<Msg("assistant", "text", chars, NoCalls, NoCalls, n)>> ELSE <<>>)
         \o [i \in 1..Cardinality(DOMAIN calls) |->
               LET c == SetToSortSeq(DOMAIN calls, <)[i]
               IN  Msg("item", "function_call", 0, c :> calls[c], NoCalls, n + 1)]
    ELSE <<Msg(IF site.provider = "gemini" /\ calls # NoCalls THEN "model" ELSE "assistant",
               "text", chars, calls, NoCalls, n)>>

----------------------------------------------------------------------------
(* Cutting payloads.                                                      *)

\* Fields of a compacted payload besides its preview.
Envelope == 1

_preview_text(chars, preview) ==
    IF preview <= 0 THEN 0 ELSE IF chars <= 2 * preview THEN chars ELSE 2 * preview

_compact_payload(p, preview, by) ==
    [p EXCEPT !.chars = Envelope + _preview_text(p.chars, preview), !.by = by, !.mark = TRUE]

\* The longest preview that fits the target, none if none does.
_compact_payload_for_target(p, preview, target, by) ==
    LET fits == {v \in 0..preview : _compact_payload(p, v, by).chars <= target}
    IN  _compact_payload(p, IF fits = {} THEN 0 ELSE Max(fits), by)

\* What the tool's own history_result_optimizer returns: some tools have one.
Optimized(p, by) ==
    IF site.own = 0 THEN {} ELSE {[p EXCEPT !.chars = site.own, !.by = by]}

\* A shorter payload replaces the current one.
apply_payload(now, c, p) ==
    IF p.chars >= now[c].chars THEN now ELSE (c :> p) @@ now

apply_soft_compaction(now, raw, c, cfg, by) ==
    LET own == {p \in Optimized(raw[c], by) : p.chars < now[c].chars}
    IN  IF own # {} THEN (c :> CHOOSE p \in own : TRUE) @@ now
        ELSE apply_payload(now, c, _compact_payload(raw[c], cfg.preview, by))

\* The tool's optimizer is asked once; tried says that it has been.
apply_hard_compaction(now, raw, c, cfg, target, tried, by) ==
    LET generic == _compact_payload_for_target(raw[c], cfg.preview, target, by)
        own == IF tried THEN {} ELSE Optimized(raw[c], by)
        best == IF \E p \in own : p.chars <= generic.chars
                THEN CHOOSE p \in own : TRUE ELSE generic
    IN  apply_payload(now, c, best)

Sum(now) == FoldSet(LAMBDA c, sum : sum + now[c].chars, 0, DOMAIN now)

\* Only the largest, once.
OnePass(st, raw, cfg, by) ==
    IF Sum(st.now) <= cfg.maxBatch THEN st
    ELSE LET c == CHOOSE c \in DOMAIN raw : \A d \in DOMAIN raw : st.now[c].chars >= st.now[d].chars
         IN  [st EXCEPT !.now = apply_hard_compaction(st.now, raw, c, cfg, cfg.maxBatch, TRUE, by)]

\* The largest first; each is cut to what the others leave of the batch's budget.
HardPass(st, raw, cfg, by) ==
    LET order == SetToSortSeq(DOMAIN raw, LAMBDA c, d : \/ st.now[c].chars > st.now[d].chars
                                                        \/ st.now[c].chars = st.now[d].chars /\ c < d)
        Cut(s, c) ==
          IF Sum(s.now) <= cfg.maxBatch THEN s
          ELSE [now |-> apply_hard_compaction(s.now, raw, c, cfg,
                           Max({0, cfg.maxBatch - (Sum(s.now) - s.now[c].chars)}),
                           c \in s.tried, by),
                tried |-> s.tried \cup {c}]
    IN  FoldLeft(Cut, st, order)

\* Passes until the batch fits or nothing gets shorter.
RECURSIVE HardCompaction(_, _, _, _)
HardCompaction(st, raw, cfg, by) ==
    IF Sum(st.now) <= cfg.maxBatch THEN st
    ELSE LET next == HardPass(st, raw, cfg, by)
         IN  IF next.now = st.now THEN st ELSE HardCompaction(next, raw, cfg, by)

\* Long results one by one, then the batch.
budget_messages(raw, cfg, by) ==
    LET long == {c \in DOMAIN raw : raw[c].chars >= cfg.min /\ raw[c].chars > cfg.maxResult}
        soft == FoldSet(LAMBDA c, now : apply_soft_compaction(now, raw, c, cfg, by), raw, long)
    IN  HardCompaction([now |-> soft, tried |-> long], raw, cfg, by).now

----------------------------------------------------------------------------
(* Records: the results (and calls) a stage finds in the messages.        *)

\* The shapes the collectors know; a computer screenshot is not one.
ResultShapes == {"function_call_output", "tool_result", "role_tool", "function_response"}

\* Where the results are: the message and the call.
_collect_result_records(msgs) ==
    {<<i, c>> \in UNION {{i} \X DOMAIN msgs[i].results : i \in DOMAIN msgs} :
        msgs[i].shape \in ResultShapes}

\* The calls and the results of old turns, for the deferred compaction.
_normalize_tool_history_records(msgs) ==
    UNION {{i} \X DOMAIN msgs[i].calls : i \in DOMAIN msgs} \cup _collect_result_records(msgs)

_write_record_payload(msgs, r, p) ==
    [msgs EXCEPT ![r[1]] = [@ EXCEPT !.results = (r[2] :> p) @@ @]]

\* The results of a batch, cut to the budget, in place.
BudgetBatch(msgs) ==
    LET records == _collect_result_records(msgs)
        raw == [c \in {r[2] : r \in records} |->
                  LET r == CHOOSE r \in records : r[2] = c IN msgs[r[1]].results[c]]
        now == budget_messages(raw, site.budget, "budget")
    IN  FoldSet(LAMBDA r, ms : _write_record_payload(ms, r, now[r[2]]), msgs, records)

----------------------------------------------------------------------------
(* The microcompaction of the transcript after a batch.                   *)

_is_tool_call_message(m) == m.calls # NoCalls

_is_tool_result_message(m) == m.shape \in ResultShapes

\* The calls answered in each group of results, in order: a group ends at the
\* next call and at the next message of the user or the assistant.
_completed_tool_turn_identities(msgs) ==
    LET Closes(m) == \/ _is_tool_call_message(m)
                     \/ m.who \in {"assistant", "user"} /\ ~_is_tool_result_message(m)
        Step(t, m) ==
          LET open == IF Closes(m) THEN {} ELSE t.open
              done == IF Closes(m) /\ t.open # {} THEN Append(t.done, t.open) ELSE t.done
          IN  [done |-> done,
               open |-> IF _is_tool_result_message(m) THEN open \cup DOMAIN m.results ELSE open]
        end == FoldLeft(Step, [done |-> <<>>, open |-> {}], msgs)
    IN  IF end.open = {} THEN end.done ELSE Append(end.done, end.open)

\* What the collector counts of a payload: its picture too.
RecordChars(p) == p.chars + p.image

\* The oldest groups are kept instead of the newest.
FirstProtected(msgs, records, current) ==
    LET groups == _completed_tool_turn_identities(msgs)
        keep == UNION {groups[k] : k \in {k \in DOMAIN groups : k <= Max({site.micro.keep, 1})}}
    IN  {r \in records : /\ r[2] \notin keep
                         /\ ~msgs[r[1]].results[r[2]].mark
                         /\ RecordChars(msgs[r[1]].results[r[2]]) > site.micro.max}

\* The last groups, the current batch and what is already compacted are left alone.
_select_candidate_identities(msgs, records, current) ==
    LET groups == _completed_tool_turn_identities(msgs)
        keep == UNION {groups[k] : k \in {k \in DOMAIN groups :
                                            k > Len(groups) - Max({site.micro.keep, 1})}}
    IN  {r \in records : /\ r[2] \notin keep \cup current
                         /\ ~msgs[r[1]].results[r[2]].mark
                         /\ RecordChars(msgs[r[1]].results[r[2]]) > site.micro.max}

_estimate_pressure(msgs) ==
    /\ site.window > 0
    /\ \/ 100 * _message_chars(msgs) >= site.micro.ratio * site.window
       \/ site.window - _message_chars(msgs) <= site.micro.remaining

_compact_record(p) ==
    budget_messages(<<p>>, [maxResult |-> site.micro.max, maxBatch |-> site.micro.max,
                            preview |-> site.micro.preview, min |-> 0], "micro")[1]

_compact_messages(msgs, records) ==
    FoldSet(LAMBDA r, ms : _write_record_payload(ms, r, _compact_record(msgs[r[1]].results[r[2]])),
            msgs, records)

\* Under pressure, or when much could be saved; and only if much is.
MidRunMicrocompact(msgs, current) ==
    LET chosen == _select_candidate_identities(msgs, _collect_result_records(msgs), current)
        possible == FoldSet(LAMBDA r, sum : sum + RecordChars(msgs[r[1]].results[r[2]]) - site.micro.max,
                            0, chosen)
        after == _compact_messages(msgs, chosen)
        saved == _message_chars(msgs) - _message_chars(after)
    IN  IF \/ chosen = {}
           \/ ~_estimate_pressure(msgs) /\ possible < site.micro.savings
           \/ after = msgs
           \/ saved < site.micro.savings
        THEN msgs ELSE after

----------------------------------------------------------------------------
(* The optimizers before a model call.                                    *)

\* One payload of an old turn: what says it is compacted stays; a picture goes.
_generic_compact_tool_payload(p) ==
    IF p.mark \/ RecordChars(p) <= site.deferred.max THEN p
    ELSE [_compact_payload(p, site.deferred.preview, "deferred") EXCEPT !.image = 0]

DeferredPayload(p) ==
    IF Optimized(p, "deferred") # {} THEN CHOOSE q \in Optimized(p, "deferred") : TRUE
    ELSE _generic_compact_tool_payload(p)

_compact_tool_history_messages(msgs) ==
    LET known == _normalize_tool_history_records(msgs)
        Compacted(i, f) ==
          IF f = NoCalls THEN f
          ELSE [c \in DOMAIN f |-> IF <<i, c>> \in known THEN DeferredPayload(f[c]) ELSE f[c]]
    IN  [i \in DOMAIN msgs |-> [msgs[i] EXCEPT !.calls = Compacted(i, msgs[i].calls),
                                               !.results = Compacted(i, msgs[i].results)]]

\* The calls and results of all but the last turns.
_apply_deferred_tool_compaction(msgs) ==
    LET body == NonSystem(msgs)
        turns == split_turns(body)
        first == Len(turns) - site.deferred.keep
    IN  IF Len(turns) <= site.deferred.keep + 1 THEN msgs
        ELSE Systems(msgs)
             \o _compact_tool_history_messages(SubSeq(body, 1, turns[first] - 1))
             \o FromTurn(body, turns, first)

\* The turn from which the messages fit a budget; the last turn stays.
FittingFrom(body, turns, budget) ==
    Min({k \in DOMAIN turns : k = Len(turns) \/ estimate_tokens(FromTurn(body, turns, k)) <= budget})

SummaryTokens == 1

\* The old turns become a summary, if one can be had (outcome); if not, later
\* stages are asked to preserve the source.
LlmSummaryOptimizer(msgs, outcome) ==
    LET body == NonSystem(msgs)
        turns == split_turns(body)
        k == FittingFrom(body, turns, site.target - SummaryTokens - estimate_tokens(Systems(msgs)))
        old == {body[i].n : i \in 1..(turns[k] - 1)}
        text == Msg("system", "summary", SummaryTokens, NoCalls, NoCalls, 0)
        asIs == [msgs |-> msgs, summary |-> summary, preserve |-> FALSE, triggered |-> FALSE]
    IN  IF \/ site.window = 0
           \/ 100 * estimate_tokens(msgs) < site.trigger * site.window
           \/ Len(turns) <= 1
        THEN asIs
        ELSE IF k = 1 THEN asIs
        ELSE IF outcome # "text" THEN [asIs EXCEPT !.preserve = TRUE]
        ELSE [msgs |-> Systems(msgs) \o <<text>> \o FromTurn(body, turns, k),
              summary |-> summary \cup old, preserve |-> FALSE, triggered |-> TRUE]

SlidingWindowOptimizer(msgs) ==
    LET body == NonSystem(msgs)
        turns == split_turns(body)
        left == site.slide - estimate_tokens(Systems(msgs))
    IN  IF site.slide = 0 \/ body = <<>> THEN msgs
        ELSE Systems(msgs) \o FromTurn(body, turns, FittingFrom(body, turns, left))

LastNOptimizer(msgs, preserve) ==
    LET body == NonSystem(msgs)
        turns == split_turns(body)
    IN  IF preserve THEN msgs
        ELSE IF site.lastN = 0 THEN Systems(msgs)
        ELSE Systems(msgs) \o FromTurn(body, turns, Max({1, Len(turns) - site.lastN + 1}))

----------------------------------------------------------------------------
(* Steps.                                                                 *)

Init ==
    /\ site \in Sites
    /\ transcript = <<Msg("system", "text", 1, NoCalls, NoCalls, 1)>>
    /\ phase = "idle"
    /\ request = [msgs |-> <<>>, preserve |-> FALSE]
    /\ summary = {} /\ seen = {} /\ lastBatch = {}
    /\ fyis = 0 /\ asks = 0 /\ batches = 0

\* A run starts on the stored conversation.
Ask ==
    /\ phase = "idle" /\ asks < site.asks
    /\ asks' = asks + 1
    /\ transcript' = Append(transcript, Msg("user", "text", 2, NoCalls, NoCalls, Len(transcript) + 1))
    /\ phase' = "model"
    /\ summary' = {}
    /\ UNCHANGED <<site, request, seen, fyis, batches, lastBatch>>

\* The phase before_model: the optimizers in their order, then the messages
\* that came in meanwhile.
before_model(outcome, fyi) ==
    \E s \in {LlmSummaryOptimizer(_apply_deferred_tool_compaction(transcript), outcome)} :
    \E msgs \in {LastNOptimizer(SlidingWindowOptimizer(s.msgs), s.preserve)} :
       LET note == Msg("user", "text", 1, NoCalls, NoCalls, Len(transcript) + 1)
           sent == IF fyi THEN Append(msgs, note) ELSE msgs
       IN  /\ request' = [msgs |-> sent, preserve |-> s.preserve]
           /\ summary' = s.summary
           /\ transcript' = IF fyi THEN Append(transcript, note) ELSE transcript
           /\ seen' = seen \cup {c \in UNION {DOMAIN sent[i].results : i \in DOMAIN sent} :
                                   \A i \in DOMAIN sent : c \in DOMAIN sent[i].results =>
                                     sent[i].results[c].by \in {"tool", "budget"}}

BeforeModel ==
    /\ phase = "model"
    /\ \E outcome \in site.outcomes, fyi \in BOOLEAN :
         /\ fyi => fyis < site.fyis
         /\ fyis' = IF fyi THEN fyis + 1 ELSE fyis
         /\ before_model(outcome, fyi)
    /\ phase' = "sent"
    /\ UNCHANGED <<site, asks, batches, lastBatch>>

\* The model answers, or asks for tools.
ModelTurn ==
    /\ phase = "sent"
    /\ \E k \in (IF batches < site.batches THEN 0..2 ELSE {0}) : \E size \in site.args :
         LET ids == {10 * (batches + 1) + i : i \in 1..k}
             calls == IF k = 0 THEN NoCalls ELSE [c \in ids |-> Payload(size, 0)]
         IN  /\ transcript' = transcript \o AssistantMessages(1, calls, Len(transcript) + 1)
             /\ lastBatch' = ids
             /\ phase' = IF k = 0 THEN "idle" ELSE "tools"
    /\ UNCHANGED <<site, request, summary, seen, fyis, asks, batches>>

\* The results come back: budget, shape, transcript, microcompaction.  A run that
\* has used its iterations ends here.
ToolBatch ==
    /\ phase = "tools"
    /\ batches' = batches + 1
    /\ \E sizes \in [lastBatch -> Texts], pictures \in SUBSET (IF site.rich THEN lastBatch ELSE {}) :
         LET ids == SetToSortSeq(lastBatch, <)
             built == FlattenSeq([i \in DOMAIN ids |->
                        get_provider_message_builder(ids[i],
                          Payload(sizes[ids[i]], IF ids[i] \in pictures THEN 3 ELSE 0),
                          Len(transcript) + i)])
             results == coalesce_provider_tool_result_messages(BudgetBatch(built))
         IN  transcript' = MidRunMicrocompact(transcript \o results, lastBatch)
    /\ \/ phase' = "model" /\ seen' = seen
       \/ phase' = "idle" /\ seen' = seen \cup lastBatch
    /\ UNCHANGED <<site, request, summary, fyis, asks, lastBatch>>

Next == Ask \/ BeforeModel \/ ModelTurn \/ ToolBatch

Spec == Init /\ [][Next]_vars

----------------------------------------------------------------------------
(* Properties.                                                            *)

\* While a run goes on, the model sees every result as its batch left it before the
\* microcompaction shortens it in the transcript or the deferred compaction in a
\* request (unless tools answer with pictures: a picture may open a turn).
SeenWhole ==
    LET Late(msgs) == {c \in UNION {DOMAIN msgs[i].results : i \in DOMAIN msgs} :
                         \E i \in DOMAIN msgs : /\ c \in DOMAIN msgs[i].results
                                                /\ msgs[i].results[c].by \in {"micro", "deferred"}}
    IN  ~site.rich => Late(transcript) \cup Late(request.msgs) \subseteq seen

\* No stage separates a result from its call: unless tools answer with pictures
\* (a picture may open a turn), every result of a request follows its call, and
\* every call of a request is answered in it.
PairsIntact ==
    LET msgs == request.msgs
    IN  ~site.rich
        => /\ \A i \in DOMAIN msgs : \A c \in DOMAIN msgs[i].results :
                \E j \in 1..(i - 1) : c \in DOMAIN msgs[j].calls
           /\ \A i \in DOMAIN msgs : \A c \in DOMAIN msgs[i].calls :
                \E j \in (i + 1)..Len(msgs) : c \in DOMAIN msgs[j].results

\* The results of the last batch fit the batch's budget, or none of them could be
\* any shorter.
BatchInBudget ==
    LET at == {r \in _collect_result_records(transcript) : r[2] \in lastBatch}
        chars == FoldSet(LAMBDA r, sum : sum + transcript[r[1]].results[r[2]].chars, 0, at)
    IN  \/ chars <= site.budget.maxBatch
        \/ \A r \in at : transcript[r[1]].results[r[2]].chars <= Envelope

\* docs/en/skills/memory-system.md: without a summary the original context remains.
EvidenceKept ==
    request.preserve =>
      \A i \in DOMAIN transcript :
        \/ transcript[i].who = "system"
        \/ \E j \in DOMAIN request.msgs : request.msgs[j].n = transcript[i].n
        \/ phase # "sent"
=============================================================================
