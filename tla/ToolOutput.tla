------------------------------ MODULE ToolOutput ------------------------------
(***************************************************************************)
(* What a model sees of the outputs of its tools, and how it reads the     *)
(* rest: the projection of a stored result (tools/output_management), the  *)
(* pages of context_content_read (context_content.py, memory/toolkit), and *)
(* the views context/compiler.py keeps of earlier outputs and pages.       *)
(*                                                                         *)
(* The bytes of an output are of four kinds: "a" is a character of one     *)
(* byte, "q" one that JSON escapes, "h" and "t" are the two bytes of one   *)
(* character.  Room is what the serialized budget of a page leaves to its  *)
(* content.  A compile whose current batch does not fit ends the run and   *)
(* is not a step of this model.                                            *)
(***************************************************************************)
EXTENDS Naturals, Sequences, FiniteSets, SequencesExt, FiniteSetsExt, TLC

CONSTANTS
    Sites,          \* [content, policy: of each output; native, coalesced: of the provider;
                    \*  managed: whether the host runs the output manager;
                    \*  reads: bound on the calls of the reader]
    PageLimit,      \* MAX_CONTEXT_CONTENT_PAGE_READ_BYTES
    Room,           \* MAX_CONTEXT_CONTENT_SERIALIZED_BYTES less the fields of a page
    InlineChars,    \* ToolOutputPolicy.inline_chars
    PreviewChars,   \* _PREVIEW_CHARS
    NativeLimit,    \* _NATIVE_TOOL_RESULT_INLINE_LIMIT
    MaxBatch,       \* bound on the results of one batch
    MaxTrouble      \* bound on the failures of the store

VARIABLES
    site,
    log,        \* the results in the journal, in the order they were recorded
    start,      \* the results up to here are of batches that have been shown
    covered,    \* the results up to here are covered by a checkpoint
    shown,      \* what the last compile showed of each result in the log
    failure,    \* context_content_failure: the last failing read and how often
    trouble

vars == <<site, log, start, covered, shown, failure, trouble>>

Outputs == DOMAIN site.content

NoFailure == [key |-> <<>>, why |-> "none", count |-> 0]

Init ==
    /\ site \in Sites
    /\ log = <<>> /\ start = 0 /\ covered = 0 /\ shown = <<>>
    /\ failure = NoFailure /\ trouble = 0

----------------------------------------------------------------------------
(* Pages.                                                                 *)

\* bytes.decode("utf-8") succeeds.
Decodes(data) ==
    \A i \in DOMAIN data :
        /\ data[i] = "h" => i < Len(data) /\ data[i + 1] = "t"
        /\ data[i] = "t" => i > 1 /\ data[i - 1] = "h"

Escapes(data) == Cardinality({i \in DOMAIN data : data[i] = "q"})

\* What _content takes in the page: text with its escapes, or base64.
_content(data) ==
    IF Decodes(data) THEN Len(data) + Escapes(data) ELSE 4 * ((Len(data) + 2) \div 3)

Fits(data) == _content(data) <= Room

Cut(data, n) == SubSeq(data, 1, n)

\* The place named is the one a full page would have led to.
NextByLimit(src, offset, data, total) ==
    [kind |-> "page", src |-> src, offset |-> offset, data |-> data, total |-> total,
     next |-> IF offset + PageLimit >= total THEN 0 ELSE offset + PageLimit,
     eof |-> offset + PageLimit >= total]

\* The page names the place after what it holds; 0 at the end of the source.
_render_page(src, offset, data, total) ==
    [kind |-> "page", src |-> src, offset |-> offset, data |-> data, total |-> total,
     next |-> IF offset + Len(data) >= total THEN 0 ELSE offset + Len(data),
     eof |-> offset + Len(data) >= total]

\* The search for the longest prefix that fits.  The size is not monotone: a cut
\* inside a character turns the page to base64.
RECURSIVE LongestPrefix(_, _, _)
LongestPrefix(data, lower, upper) ==
    IF lower >= upper THEN lower
    ELSE LET candidate == (lower + upper + 1) \div 2
         IN  IF Fits(Cut(data, candidate))
             THEN LongestPrefix(data, candidate, upper)
             ELSE LongestPrefix(data, lower, candidate - 1)

Failed(why) == [kind |-> "error", why |-> why]

validate_context_content_page(page) ==
    /\ Len(page.data) <= PageLimit
    /\ page.offset + Len(page.data) <= page.total
    /\ IF page.eof
       THEN page.offset + Len(page.data) = page.total /\ page.next = 0
       ELSE /\ page.data # <<>>
            /\ page.next = page.offset + Len(page.data)
            /\ page.next < page.total
    /\ Fits(page.data)

Validated(page) == IF validate_context_content_page(page) THEN page ELSE Failed("protocol")

render_context_content_page(src, offset, data, total) ==
    IF Fits(data) THEN Validated(_render_page(src, offset, data, total))
    ELSE LET n == LongestPrefix(data, 0, Len(data))
         IN  Validated(_render_page(src, offset, Cut(data, n), total))

\* At most limit bytes of the stored source.
read_unique_artifact(src, offset, limit) ==
    SubSeq(site.content[src], offset + 1, Min({offset + limit, Len(site.content[src])}))

\* A page of the store that cannot advance the read is refused.
validate_capability_content_page(data, offset, limit, total) ==
    Len(data) <= Min({limit, PageLimit}) /\ (data = <<>> => offset >= total)

----------------------------------------------------------------------------
(* The reader tool.                                                       *)

Request(src, offset, limit) == [src |-> src, offset |-> offset, limit |-> limit]

note_context_content_failure(prior, key, why, retryable) ==
    IF retryable THEN NoFailure
    ELSE IF prior.key = key /\ prior.why = why THEN [prior EXCEPT !.count = @ + 1]
    ELSE [key |-> key, why |-> why, count |-> 1]

\* A different read cannot continue the streak of the last one.
clear_context_content_failure_if_different(key) ==
    IF failure.key = key THEN failure ELSE NoFailure

\* What one call returns and the streak it leaves.  A store may refuse the
\* reference ("authorize"), retryably or not; an offset past the end raises an
\* error that the streak does not count.
context_content_read(r, down) ==
    LET key == <<r.src, r.offset, r.limit>>
        prior == clear_context_content_failure_if_different(key)
        noted(why, retryable) ==
            [result |-> Failed(why), failure |-> note_context_content_failure(prior, key, why, retryable)]
    IN  IF prior.count >= 2 THEN [result |-> Failed("no_progress"), failure |-> prior]
        ELSE IF r.limit \notin 1 .. PageLimit THEN noted("limit", FALSE)
        ELSE IF down # "up" THEN noted("authorize", down = "retryable")
        ELSE IF r.offset > Len(site.content[r.src])
             THEN [result |-> Failed("offset"), failure |-> prior]
        ELSE LET total == Len(site.content[r.src])
                 data == read_unique_artifact(r.src, r.offset, r.limit)
                 page == render_context_content_page(r.src, r.offset, data, total)
             IN  IF ~validate_capability_content_page(data, r.offset, r.limit, total) \/ page.kind = "error"
                 THEN noted("protocol", FALSE)
                 ELSE [result |-> page, failure |-> NoFailure]

----------------------------------------------------------------------------
(* The stored projection of an output.                                    *)

\* The two ends and a handle; the canonical JSON of a result always decodes.
_paged_context_projection(src) == [kind |-> "output", src |-> src, shape |-> "paged", handle |-> TRUE]

_project_non_page_output(src, policy) ==
    LET shaped(shape) == [kind |-> "output", src |-> src, shape |-> shape, handle |-> FALSE]
    IN  IF site.content[src] = <<>> THEN shaped("empty")
        ELSE IF policy \in {"artifact_only", "head_tail"} THEN shaped(policy)
        ELSE IF Len(site.content[src]) > InlineChars THEN _paged_context_projection(src)
        ELSE shaped("inline")

\* Without the manager the event has no model projection: the result is all there is.
Unprojected(src) == [kind |-> "output", src |-> src, shape |-> "raw", handle |-> FALSE]

\* A page is stored as it is once it validates; an error as one of the fixed codes.
_context_page_projection(result) ==
    IF result.kind = "page" THEN Validated(result)
    ELSE [kind |-> "error", code |-> IF result.why \in {"no_progress", "limit"} THEN result.why ELSE "failed"]

\* Every projected output is given a read handle; pages and errors stay.
project_context_output_for_model(v) ==
    IF v.kind = "output" /\ v.shape # "raw" THEN [v EXCEPT !.handle = TRUE] ELSE v

----------------------------------------------------------------------------
(* The views of a compile.                                                *)

context_content_read_handle(src) == [src |-> src, offset |-> 0, next |-> 0]

canonical_context_output_read_handle(v) == IF v.handle THEN <<context_content_read_handle(v.src)>> ELSE <<>>

Entry(page) == [src |-> page.src, offset |-> page.offset, next |-> page.next]

Marker(entries) == [kind |-> "marker", entries |-> entries]

_compacted_context_content(v) ==
    CASE v.kind = "page" -> <<Entry(v)>>
      [] v.kind = "marker" -> v.entries
      [] v.kind = "output" -> canonical_context_output_read_handle(v)
      [] v.kind = "error" -> <<>>

compact_historical_message(v) == Marker(_compacted_context_content(v))

_historical_context_content_page_marker(page) == Marker(<<Entry(page)>>)

\* A view within the budget stays; a longer one keeps its handle and a preview.
validate_context_output_presentation(v) ==
    v.handle /\ (v.shape = "inline" => Fits(site.content[v.src]))

_preview(v, limit) ==
    [v EXCEPT !.shape = IF Len(site.content[v.src]) <= limit THEN "inline" ELSE "preview"]

_bounded_context_output_preview(v) ==
    IF validate_context_output_presentation(v) THEN v
    ELSE IF v.handle THEN [v EXCEPT !.shape = "preview"]
    ELSE _preview(v, PreviewChars)

\* The last page of all.
NewestOfAll(pages) == {i \in pages : \A j \in pages : j <= i}

\* Of the earlier pages of one source the newest is shown.
_bound_historical_context_page_exchanges(pages) ==
    {i \in pages : \A j \in pages : log[j].src = log[i].src => j <= i}

Hidden == [kind |-> "hidden"]

CurrentBatch == (start + 1) .. Len(log)

CurrentPages == {i \in CurrentBatch : log[i].kind = "page"}

\* A coalesced message that holds a page is not compacted.
Compactable(i) == i \notin CurrentPages /\ ~(site.coalesced /\ CurrentPages # {})

\* A result without a projection is given whole up to a limit of its own, and
\* otherwise as a preview beside its artifact, with no request to copy.
_native_tool_result_payload(v) ==
    IF v.kind = "output" /\ v.shape = "raw" THEN _preview(v, NativeLimit)
    ELSE project_context_output_for_model(v)

\* The batch as the provider's own messages, compacted under pressure.
NativeView(i, pressure) ==
    LET v == _native_tool_result_payload(log[i])
    IN  IF pressure /\ Compactable(i) THEN compact_historical_message(v) ELSE v

\* An exchange in the history the model is told.
ExchangeView(i, pages) ==
    LET v == project_context_output_for_model(log[i])
    IN  CASE v.kind = "output" -> _bounded_context_output_preview(v)
          [] v.kind = "page" /\ i \in CurrentBatch -> v
          [] v.kind = "page" /\ i \notin CurrentBatch ->
                IF i \in pages THEN _historical_context_content_page_marker(v) ELSE Hidden
          [] v.kind = "error" -> v

\* What a compile shows of the log when results up to cover are in a checkpoint.
View(cover, pressure) ==
    LET old == {i \in (cover + 1) .. start : log[i].kind = "page"}
    IN  [i \in DOMAIN log |->
            IF i \in CurrentBatch /\ site.native THEN NativeView(i, pressure)
            ELSE IF i <= cover THEN Hidden
            ELSE ExchangeView(i, _bound_historical_context_page_exchanges(old))]

----------------------------------------------------------------------------
(* The run.                                                               *)

Compile(cover, pressure) ==
    /\ CurrentBatch # {}
    /\ shown' = View(cover, pressure)
    /\ start' = Len(log) /\ covered' = cover
    /\ UNCHANGED <<site, log, failure, trouble>>

Reads == Cardinality({i \in DOMAIN log : log[i].kind # "output"})

\* An ordinary tool: its result is stored whole, then projected.
RunTool(src) ==
    /\ Cardinality(CurrentBatch) < MaxBatch
    /\ \A i \in DOMAIN log : log[i].kind = "output" => log[i].src # src
    /\ log' = Append(log, IF site.managed THEN _project_non_page_output(src, site.policy[src])
                          ELSE Unprojected(src))
    /\ UNCHANGED <<site, start, covered, shown, failure, trouble>>

\* The read requests a view holds out to the model.
RequestsOf(v) ==
    CASE v.kind = "output" -> IF v.handle THEN {Request(v.src, 0, PageLimit)} ELSE {}
      [] v.kind = "page" -> IF v.eof THEN {} ELSE {Request(v.src, v.next, PageLimit)}
      [] v.kind = "marker" ->
            {Request(e.src, e.offset, PageLimit) : e \in Range(v.entries)}
            \cup {Request(e.src, e.next, PageLimit) : e \in {x \in Range(v.entries) : x.next # 0}}
      [] OTHER -> {}

Requests == UNION {RequestsOf(shown[i]) : i \in DOMAIN shown}

\* The model also asks for other ranges of what it knows of.
OtherRequests ==
    {Request(r.src, r.offset + 1, 2) : r \in Requests} \cup {Request(r.src, r.offset, 0) : r \in Requests}

ReadWith(r, down) ==
    \E got \in {context_content_read(r, down)} :
        /\ log' = Append(log, IF got.result.kind = "page"
                              THEN _context_page_projection(got.result)
                              ELSE _context_page_projection(got.result)
                                   @@ [why |-> got.result.why, asShown |-> r \in Requests])
        /\ failure' = got.failure

Read(r, down) ==
    /\ Reads < site.reads /\ Cardinality(CurrentBatch) < MaxBatch
    /\ down # "up" => trouble < MaxTrouble
    /\ trouble' = IF down = "up" THEN trouble ELSE trouble + 1
    /\ ReadWith(r, down)
    /\ UNCHANGED <<site, start, covered, shown>>

Next ==
    \/ \E src \in Outputs : RunTool(src)
    \/ \E cover \in covered .. start, pressure \in BOOLEAN : Compile(cover, pressure)
    \/ \E r \in Requests \cup OtherRequests, down \in {"up", "retryable", "refused"} : Read(r, down)

Spec == Init /\ [][Next]_vars

----------------------------------------------------------------------------
(* What must hold.                                                        *)

\* Following the read requests delivers an output exactly: a page holds the bytes
\* at its place, at least one unless the source ended, and leads to the next byte
\* or says truly that there is none; a request made as it was shown fails only
\* when the store does, or when the same request kept failing.
ReadsWhole ==
    \A i \in DOMAIN log :
        /\ log[i].kind = "page" =>
            LET p == log[i]
                all == site.content[p.src]
                end == p.offset + Len(p.data)
            IN  /\ p.data = SubSeq(all, p.offset + 1, end)
                /\ IF p.eof THEN end = Len(all) ELSE p.data # <<>> /\ p.next = end
        /\ log[i].kind = "error" /\ log[i].asShown => log[i].why \in {"authorize", "no_progress"}

UncoveredPages(src) == {i \in (covered + 1) .. start : log[i].kind = "page" /\ log[i].src = src}

\* Until a checkpoint covers it, an output the manager projected and the model was not
\* shown whole can be read from its beginning, and the place of the newest page read
\* from any output is kept, however much of the conversation was compacted.
PlaceKept ==
    \A i \in (covered + 1) .. start :
        /\ log[i].kind = "output" /\ site.managed =>
            \/ shown[i].kind = "output" /\ shown[i].shape \in {"inline", "empty"}
            \/ Request(log[i].src, 0, PageLimit) \in Requests
        /\ log[i].kind = "page" /\ i = Max(UncoveredPages(log[i].src)) /\ ~log[i].eof =>
            Request(log[i].src, log[i].next, PageLimit) \in Requests
===============================================================================
