----------------------------- MODULE WireFormat -----------------------------
(***************************************************************************)
(* What a provider turn makes of the live tools and of the request: the    *)
(* durable handler registration of each tool (tools/handler_registry.py),  *)
(* the frozen provider toolkit (providers/prepared_turn.py), the tool      *)
(* catalog (context/tool_catalog.py) and the wire envelope with its routes *)
(* (providers/wire_preparer.py, providers/wire_envelope.py).  A tool is    *)
(* [name, fn, man, schema, confirm, betas]: fn is the identity of its      *)
(* function object and man the module and qualified name it is known by    *)
(* after a restart.  Digests are the values they are digests of.           *)
(***************************************************************************)
EXTENDS Naturals, Sequences, SequencesExt, FiniteSets

Anthropic == {"anthropic", "hyperspace"}

Providers == Anthropic \cup {"openai", "gemini", "ollama"}

Refused == [refused |-> TRUE]

---------------------------------------------------------------------------
(* Tools, as the durable side sees them. *)

\* The host configuration, without the visible schema.
tool_config(t) == [confirm |-> t.confirm, betas |-> t.betas]

\* The schema a provider is shown: one of four shapes.
Shape(p) == CASE p \in Anthropic -> "input_schema"
              [] p = "gemini" -> "declaration"
              [] p = "ollama" -> "nested"
              [] OTHER -> "function"

to_provider_json(t, p) == [name |-> t.name, schema |-> t.schema, shape |-> Shape(p)]

tool_descriptor(t) == [name |-> t.name, schema |-> t.schema, config |-> tool_config(t)]

\* What names a handler in every process: no object identity is in it.
handler_id(t) == [name |-> t.name, man |-> t.man]

\* One registration of the fresh registry a turn builds.
register_exact(o, t) ==
    [obj |-> o, fn |-> t.fn, id |-> handler_id(t), config |-> tool_config(t),
     descriptor |-> tool_descriptor(t)]

\* The tool is still what was registered.
verify_resolution(r, t) ==
    /\ t.fn = r.fn
    /\ tool_config(t) = r.config
    /\ tool_descriptor(t) = r.descriptor

\* No two tools of a toolkit may claim one handler identity.
RegistryAccepts(regs) ==
    \A i, j \in DOMAIN regs : regs[i].id = regs[j].id => i = j

---------------------------------------------------------------------------
(* The frozen toolkit and the catalog. *)

\* The schema comes from the verified descriptor; the Gemini projection is
\* derived from the neutral schema in it.
catalog_entry(r, p) ==
    [schema |-> [name |-> r.descriptor.name, schema |-> r.descriptor.schema,
                 shape |-> Shape(p)],
     descriptor |-> r.descriptor, handler |-> r.id]

required_betas_of(r, p) == IF p \in Anthropic THEN r.config.betas ELSE <<>>

\* Append what is not there yet, in order.
merged_betas(base, extra) ==
    FoldLeft(LAMBDA acc, b : IF b \in ToSet(acc) THEN acc ELSE Append(acc, b), base, extra)

frozen_tool(r, p) == [name |-> r.descriptor.name, entry |-> catalog_entry(r, p),
                      betas |-> required_betas_of(r, p)]

\* A model without tools gets an empty toolkit.
frozen_toolkit(regs, p, supports) ==
    IF supports THEN [i \in DOMAIN regs |-> frozen_tool(regs[i], p)] ELSE <<>>

UniqueNames(s) == \A i, j \in DOMAIN s : s[i].name = s[j].name => i = j

\* The name and the schema of a frozen tool are those of its entry.
frozen_tool_valid(t) ==
    t.name = t.entry.descriptor.name /\ t.entry.schema.name = t.name

frozen_toolkit_valid(kit, supports) ==
    /\ kit # <<>> => supports
    /\ \A i \in DOMAIN kit : frozen_tool_valid(kit[i])
    /\ UniqueNames(kit)

toolkit_betas(kit) == FoldLeft(LAMBDA acc, t : merged_betas(acc, t.betas), <<>>, kit)

tool_catalog(iteration, p, kit, prompt) ==
    [iteration |-> iteration, provider |-> p, prompt |-> prompt,
     schemas |-> [i \in DOMAIN kit |-> kit[i].entry.schema],
     entries |-> [i \in DOMAIN kit |-> kit[i].entry],
     betas |-> toolkit_betas(kit)]

\* Schemas and entries agree, in one order.
catalog_valid(c) ==
    /\ UniqueNames(c.schemas)
    /\ Len(c.schemas) = Len(c.entries)
    /\ \A i \in DOMAIN c.schemas : c.schemas[i] = c.entries[i].schema

---------------------------------------------------------------------------
(* The request. *)

\* A message is [role, body], body "text", "blocks" or "none"; the payload is
\* [betas, keys]: the beta header it carries and its other keys.
FormatKinds(p) == CASE p = "openai" -> {"none", "openai_text"}
                    [] p \in Anthropic -> {"none", "anthropic_instruction"}
                    [] p = "ollama" -> {"none", "ollama_format"}
                    [] OTHER -> {"none"}

\* What may be frozen: remote continuation is OpenAI's and needs the local
\* replay it falls back to.
request_payload_accepts(q) ==
    /\ q.provider \in Providers /\ q.messages # <<>>
    /\ q.format \in FormatKinds(q.provider)
    /\ IF q.mode = "remote_continuation"
       THEN q.provider = "openai" /\ q.previous /\ q.fallback # <<>>
       ELSE ~q.previous /\ q.fallback = <<>>

\* The response format becomes part of the frozen request in the provider's
\* own terms; Gemini's goes into the payload.
resolve_request_payload(turn, p) ==
    [provider |-> p, messages |-> turn.messages, betas |-> turn.betas,
     keys |-> turn.keys \cup (IF p \in Anthropic THEN {"max_tokens"} ELSE {})
                       \cup (IF p = "gemini" /\ turn.formatted THEN {"response_schema"} ELSE {}),
     format |-> IF ~turn.formatted \/ p = "gemini" THEN "none"
                ELSE CHOOSE k \in FormatKinds(p) : k # "none",
     previous |-> turn.previous, fallback |-> turn.fallback,
     mode |-> IF turn.previous THEN "remote_continuation" ELSE "local"]

---------------------------------------------------------------------------
(* The routes.  A request is a record of the parts that differ between the   *)
(* providers; cached says which parts end in ephemeral cache_control.        *)

Request(q, input, tools, prev, extra) ==
    [input |-> input, tools |-> tools, previous |-> prev, keys |-> q.keys \cup extra,
     betas |-> <<>>, system |-> FALSE, cached |-> {}]

WithTools(kit) == [i \in DOMAIN kit |-> kit[i].entry.schema]

openai_routes(q, kit) ==
    LET format == IF q.format = "none" THEN {} ELSE {"text"}
        r == Request(q, q.messages, WithTools(kit), q.previous, {"stream"} \cup format)
    IN  IF q.previous
        THEN <<[name |-> "primary", request |-> r],
               [name |-> "openai_previous_response_fallback",
                request |-> [r EXCEPT !.previous = FALSE, !.input = q.fallback]]>>
        ELSE <<[name |-> "primary", request |-> r]>>

IsSystem(m) == m.role \in {"system", "developer"}

\* System messages leave the chat and become one cached system part; the last
\* tool and the last block of the last message are cached as well.
anthropic_route(q, kit) ==
    LET chat == SelectSeq(q.messages, LAMBDA m : ~IsSystem(m))
        system == q.format # "none" \/ \E i \in DOMAIN q.messages :
                    IsSystem(q.messages[i]) /\ q.messages[i].body # "none"
        r == Request(q, chat, WithTools(kit), FALSE, {})
    IN  IF chat = <<>> \/ Last(chat).body = "none" THEN Refused
        ELSE [name |-> "primary",
              request |-> [r EXCEPT !.betas = merged_betas(merged_betas(<<>>, q.betas), toolkit_betas(kit)),
                                    !.system = system,
                                    !.cached = {"input"}
                                       \cup (IF system THEN {"system"} ELSE {})
                                       \cup (IF kit # <<>> THEN {"tools"} ELSE {})]]

ollama_route(q, kit) ==
    [name |-> "primary",
     request |-> Request(q, q.messages, WithTools(kit), FALSE,
                         {"stream"} \cup (IF kit # <<>> THEN {"tool_choice"} ELSE {})
                                    \cup (IF q.format = "none" THEN {} ELSE {"format"}))]

\* System messages become the system instruction.
gemini_route(q, kit) ==
    [name |-> "primary",
     request |-> [Request(q, SelectSeq(q.messages, LAMBDA m : ~IsSystem(m)), WithTools(kit),
                          FALSE, {"no_automatic_calls"})
                  EXCEPT !.system = \E i \in DOMAIN q.messages : IsSystem(q.messages[i])]]

provider_routes(q, kit) ==
    CASE q.provider = "openai" -> openai_routes(q, kit)
      [] q.provider \in Anthropic -> <<anthropic_route(q, kit)>>
      [] q.provider = "gemini" -> <<gemini_route(q, kit)>>
      [] OTHER -> <<ollama_route(q, kit)>>

---------------------------------------------------------------------------
(* The envelope: what it accepts, built here or read back. *)

valid_headers(p, base, required, r) ==
    r.betas = IF p \in Anthropic THEN merged_betas(base, required) ELSE <<>>

valid_request(p, base, required, r) ==
    /\ valid_headers(p, base, required, r)
    /\ CASE p = "openai" -> "stream" \in r.keys
         [] p \in Anthropic -> /\ "stream" \notin r.keys /\ "max_tokens" \in r.keys
                               /\ r.input # <<>> /\ "input" \in r.cached
                               /\ r.system => "system" \in r.cached
         [] p = "gemini" -> r.input # <<>> /\ "no_automatic_calls" \in r.keys
         [] OTHER -> /\ "stream" \in r.keys
                     /\ r.tools # <<>> <=> "tool_choice" \in r.keys

\* The fallback differs from the primary in its input and in nothing else.
valid_openai_routes(routes) ==
    IF routes[1].request.previous
    THEN /\ Len(routes) = 2 /\ routes[2].name = "openai_previous_response_fallback"
         /\ routes[2].request.input # <<>>
         /\ routes[2].request = [routes[1].request EXCEPT
              !.previous = FALSE, !.input = routes[2].request.input]
    ELSE Len(routes) = 1

valid_envelope(e) ==
    /\ Refused \notin ToSet(e.routes)
    /\ e.routes[1].name = "primary"
    /\ e.provider \notin Anthropic => e.required = <<>> /\ e.base = <<>>
    /\ \A i \in DOMAIN e.routes : valid_request(e.provider, e.base, e.required, e.routes[i].request)
    /\ IF e.provider = "openai" THEN valid_openai_routes(e.routes) ELSE Len(e.routes) = 1

\* Every route shows the schemas of the catalog the envelope names.
verify_against_catalog(e, c) ==
    /\ c.iteration = e.iteration /\ c.provider = e.provider /\ c.prompt = e.prompt
    /\ c = e.catalog /\ c.betas = e.required
    /\ \A i \in DOMAIN e.routes :
         /\ e.routes[i].request.tools = c.schemas
         /\ e.provider \in Anthropic /\ c.schemas # <<>> => "tools" \in e.routes[i].request.cached

wire_envelope(iteration, q, kit, c) ==
    [iteration |-> iteration, provider |-> q.provider, prompt |-> c.prompt, catalog |-> c,
     source |-> q, required |-> toolkit_betas(kit),
     base |-> IF q.provider \in Anthropic THEN merged_betas(<<>>, q.betas) ELSE <<>>,
     routes |-> provider_routes(q, kit)]

\* The wire of a turn, or a refusal.
prepare_wire(iteration, q, kit, c) ==
    LET e == wire_envelope(iteration, q, kit, c)
    IN  IF /\ request_payload_accepts(q)
           /\ c.iteration = iteration /\ c.provider = q.provider
           /\ valid_envelope(e) /\ verify_against_catalog(e, c)
        THEN e ELSE Refused
=============================================================================
