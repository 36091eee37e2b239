------------------------------ MODULE Adapter -------------------------------
(***************************************************************************)
(* The OpenAI-compatible adapter (cadmus-llm-openai): a request mapped     *)
(* onto one dialect's wire, the vendor's stream events mapped onto chunks, *)
(* and failures onto error classes.                                        *)
(*                                                                         *)
(* Texts are model values; a temperature is a whole number, of which the   *)
(* vendor range of kimi is 0..1.  The thin client (genai) is external: its *)
(* events are the ones this crate's mapping matches on.                    *)
(***************************************************************************)
EXTENDS Assembler

---------------------------------------------------------------------------
(* The registry: dialects/*.rs and dialect.rs.                             *)

Effort == <<"low", "medium", "high", "max">>
IsEffort(reasoning) == reasoning \in ToSet(Effort)
Rank(level) == CHOOSE k \in DOMAIN Effort : Effort[k] = level

\* dialect_by_name, and "custom" from the command line.
DialectNames == {"kimi", "deepseek", "custom"}

\* CustomDialect::new declares a GPT-5-class model.
Capabilities(dialect) ==
  CASE dialect = "kimi" ->
         [tools |-> TRUE, parallel |-> "yes", output |-> "json mode",
          off |-> FALSE, budget |-> FALSE, efforts |-> {"low", "high", "max"}]
    [] dialect = "deepseek" ->
         [tools |-> TRUE, parallel |-> "yes", output |-> "json mode",
          off |-> TRUE, budget |-> FALSE, efforts |-> {"low", "high"}]
    [] dialect = "custom" ->
         [tools |-> TRUE, parallel |-> "yes", output |-> "strict",
          off |-> TRUE, budget |-> FALSE, efforts |-> {"low", "medium", "high"}]

EchoesReasoning(dialect) == dialect = "deepseek"

ClampedTemperature(dialect, t) == IF dialect = "kimi" /\ t > 1 THEN 1 ELSE t

Mismatch == [error |-> "capability mismatch"]
Invalid == [error |-> "invalid request"]
Fine(value) == [error |-> "none", value |-> value]

FaultPassEffort(efforts, level) == level

Distance(a, b) == IF Rank(a) > Rank(b) THEN Rank(a) - Rank(b) ELSE Rank(b) - Rank(a)

\* The nearest declared tier, the lower one on ties.
Nearest(efforts, level) ==
  CHOOSE e \in efforts : \A f \in efforts :
    \/ Distance(e, level) < Distance(f, level)
    \/ Distance(e, level) = Distance(f, level) /\ Rank(e) <= Rank(f)

\* default_map_reasoning
DefaultReasoning(caps, reasoning) ==
  CASE reasoning = "adaptive" -> Fine("vendor default")
    [] reasoning = "off"      -> IF caps.off THEN Fine("none") ELSE Mismatch
    [] reasoning = "budget"   -> IF caps.budget THEN Fine("budget") ELSE Mismatch
    [] OTHER                  -> IF caps.efforts = {} THEN Mismatch
                                 ELSE Fine(Nearest(caps.efforts, reasoning))

\* DeepSeek's thinking is opt-in, and every tier above low is high.
DeepSeekReasoning(reasoning) ==
  CASE reasoning \in {"off", "adaptive"} -> Fine("vendor default")
    [] reasoning = "budget" -> Mismatch
    [] OTHER -> Fine(IF reasoning = "low" THEN "low" ELSE "high")

MappedReasoning(dialect, reasoning) ==
  IF dialect = "deepseek" THEN DeepSeekReasoning(reasoning)
  ELSE DefaultReasoning(Capabilities(dialect), reasoning)

\* default_map_output: the degradation ladder.
MappedOutput(dialect, output) ==
  LET has == Capabilities(dialect).output IN
  CASE output = "text"   -> Fine("text")
    [] output = "json"   -> IF has = "prompt only" THEN Mismatch ELSE Fine("json mode")
    [] output = "strict" -> IF has = "strict" THEN Fine("strict schema") ELSE Mismatch
    [] output = "schema" -> IF has \in {"strict", "loose"} THEN Fine("schema")
                            ELSE IF has = "json mode" THEN Fine("json mode") ELSE Mismatch

\* Dialect::extra_body
ExtraBody(dialect, reasoning) ==
  IF dialect = "deepseek" /\ IsEffort(reasoning) THEN {"thinking"} ELSE {}

\* build_options assigns extra_body after it merged the parallel flag, and so
\* drops the flag; the request's own extra fields are merged after that.
Body(dialect, r) == ExtraBody(dialect, r.reasoning) \cup r.extra

\* build_options
Options(dialect, r) ==
  LET reasoning == MappedReasoning(dialect, r.reasoning)
      output == MappedOutput(dialect, r.output) IN
  IF r.tools /\ ~Capabilities(dialect).tools THEN Mismatch
  ELSE IF reasoning.error # "none" THEN reasoning
  ELSE IF output.error # "none" THEN output
  ELSE IF r.parallel # "unset" /\ Capabilities(dialect).parallel = "no" THEN Mismatch
  ELSE IF r.cache = "breakpoints" THEN Mismatch
  ELSE Fine([reasoning |-> reasoning.value, output |-> output.value,
             temperature |-> ClampedTemperature(dialect, r.temperature),
             body |-> Body(dialect, r)])

---------------------------------------------------------------------------
(* request_map.rs: the history on the wire.                                *)

Texts(m) == SelectSeq(m.content, LAMBDA p : p.kind = "text")

\* text_of
SingleText(m) == Len(Texts(m)) <= 1

\* The wire has no error channel: an errored result is marked in its text.
MarkedAsError(m) == m.error

EchoedParts(m, echo) == SelectSeq(m.content, LAMBDA p : p.kind # "reasoning" \/ echo)

\* map_message
OnWire(m, echo) ==
  IF m.role = "assistant" THEN [role |-> m.role, content |-> EchoedParts(m, echo)]
  ELSE IF m.role = "tool"
  THEN [role |-> m.role, content |-> Texts(m), answers |-> m.answers,
        marked |-> MarkedAsError(m)]
  ELSE [role |-> m.role, content |-> Texts(m)]

Mappable(m) ==
  IF m.role = "assistant" THEN \A k \in DOMAIN m.content : m.content[k].kind # "image"
  ELSE SingleText(m) /\ (m.role = "tool" => m.answers # "none")

\* Only the leading system messages go to the wire's own slot.
LeadingSystem(messages) ==
  Cardinality({k \in DOMAIN messages : \A j \in 1..k : messages[j].role = "system"})

\* build_genai_request: the first message that cannot be mapped fails it.
WireRequest(messages, echo) ==
  LET lead == LeadingSystem(messages)
      bad == {k \in DOMAIN messages : ~Mappable(messages[k])} IN
  IF bad # {}
  THEN LET first == CHOOSE k \in bad : \A j \in bad : k <= j IN
       IF messages[first].role = "assistant" THEN Mismatch ELSE Invalid
  ELSE Fine([system |-> SubSeq(messages, 1, lead),
             messages |-> [k \in 1..(Len(messages) - lead) |-> OnWire(messages[lead + k], echo)]])

---------------------------------------------------------------------------
(* stream_map.rs.  The mapper's state is the sequence of the calls seen so *)
(* far, whose positions are the chunk indexes, each with the length of the *)
(* arguments already sent.                                                 *)

\* accumulated_args: a JSON value is written out again, without blanks.
Accumulated(event) ==
  IF event.form = "value" THEN SelectSeq(event.args, LAMBDA piece : piece # Blank)
  ELSE event.args

Known(calls, id) == {k \in DOMAIN calls : calls[k].id = id}

FaultResendAll(args, sent) == args

\* suffix_diff: nothing when the arguments did not grow.
Unsent(args, sent) == SubSeq(args, sent + 1, Len(args))

Fragments(index, pieces) ==
  [k \in DOMAIN pieces |-> [kind |-> "args", index |-> index, piece |-> pieces[k]]]

Larger(a, b) == IF a > b THEN a ELSE b

\* map_tool_call
MapCall(calls, event) ==
  LET args == Accumulated(event) IN
  IF Known(calls, event.id) # {}
  THEN LET k == CHOOSE k \in Known(calls, event.id) : TRUE IN
       [calls |-> [calls EXCEPT ![k].sent = Larger(calls[k].sent, Len(args))],
        chunks |-> Fragments(k - 1, Unsent(args, calls[k].sent))]
  ELSE [calls |-> Append(calls, [id |-> event.id, sent |-> Len(args)]),
        chunks |-> <<[kind |-> "start", index |-> Len(calls), id |-> event.id,
                      name |-> event.name]>>
                   \o Fragments(Len(calls), args)]

Ends(calls) == [k \in DOMAIN calls |-> [kind |-> "end", index |-> k - 1]]

\* map_usage: the client's total input includes the cache hits.
InputTokens(total, cached) == IF total > cached THEN total - cached ELSE 0

UsageChunk(usage) ==
  IF usage = Nothing THEN <<>>
  ELSE <<[kind |-> "usage",
          usage |-> [kind |-> "usage", input |-> InputTokens(usage.total, usage.cached),
                     cached |-> usage.cached]]>>

\* map_stop_reason
Finish(stop) ==
  CASE stop \in {"completed", "stop sequence"} -> "stop"
    [] stop = "max tokens" -> "length"
    [] stop = "tool call"  -> "tool calls"
    [] stop = "filter"     -> "content filter"
    [] OTHER               -> "other"

\* map_end: every call ends, then usage, then the terminal chunk.
MapEnd(calls, event) ==
  [calls |-> <<>>,
   chunks |-> Ends(calls) \o UsageChunk(event.usage)
                \o <<[kind |-> "done", finish |-> Finish(event.stop)]>>]

\* map_event
MapEvent(calls, event) ==
  CASE event.kind = "start"     -> [calls |-> calls, chunks |-> <<>>]
    [] event.kind = "content"   ->
         [calls |-> calls, chunks |-> <<[kind |-> "text", piece |-> event.piece]>>]
    [] event.kind = "reasoning" ->
         [calls |-> calls, chunks |-> <<[kind |-> "reasoning", piece |-> event.piece]>>]
    [] event.kind = "signature" ->
         [calls |-> calls,
          chunks |-> <<[kind |-> "opaque",
                        value |-> [kind |-> "object",
                                   fields |-> [thought_signature |-> event.value]]]>>]
    [] event.kind = "call"      -> MapCall(calls, event)
    [] event.kind = "end"       -> MapEnd(calls, event)

---------------------------------------------------------------------------
(* error.rs.                                                               *)

\* classify_http
ClassOfHttp(f) ==
  CASE f.status \in {401, 403}           -> "auth"
    [] f.status \in {408, 409, 425, 429} -> "rate limited"
    [] f.status = 400 -> IF f.context THEN "context length" ELSE "invalid request"
    [] f.status = 413 -> "context length"
    [] OTHER          -> IF f.status >= 500 THEN "server, retriable" ELSE "server"

FaultStreamIsNetwork(f) == "network"

\* map_genai_error_ref: an HTTP answer wrapped in a stream failure.
ClassOfStreamed(f) == IF f.kind = "http" THEN ClassOfHttp(f) ELSE "network"

\* map_genai_error; "streamed" failures arrive as items of the stream.
ErrorClass(f, streamed) ==
  CASE streamed /\ f.kind \in {"http", "transport"} -> ClassOfStreamed(f)
    [] ~streamed /\ f.kind = "http" -> ClassOfHttp(f)
    [] f.kind = "transport" -> "network"
    [] f.kind = "parse"     -> "protocol"
    [] f.kind = "no key"    -> "auth"
    [] f.kind = "body"      -> IF f.limit THEN "rate limited" ELSE "protocol"
    [] OTHER                -> "invalid request"
=============================================================================
