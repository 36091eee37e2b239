---------------------------- MODULE ProviderTurn ----------------------------
(***************************************************************************)
(* One model call, from the command line's provider coordinates to the     *)
(* assembled turn: the dialect is resolved, the request is mapped and sent,*)
(* the vendor's events are mapped to chunks, and the run loop folds them.  *)
(* Any other Provider (the replay provider of the tests, say) may yield    *)
(* whatever chunks it likes: those calls start out as "scripted".          *)
(*                                                                         *)
(* External: the thin client.  It yields at most one "end" event, as its   *)
(* last; an HTTP failure may arrive before the stream or wrapped as an     *)
(* item of it.                                                             *)
(***************************************************************************)
EXTENDS Adapter, FiniteSetsExt

CONSTANTS
  Coordinates,   \* what the command line names: provider, key, model and url
  Requests,      \* requests, as records of the mapped fields
  Events,        \* the events a vendor may send
  Failures,      \* the failures the client reports
  Scripted,      \* the chunks another provider may yield
  Watched,       \* bound: the requests whose answers are followed
  MaxEvents,     \* bound: vendor events of one stream
  MaxChunks      \* bound: chunks of a scripted stream

\* A request's history is a list.
ASSUME ProviderAssumption ==
  \A r \in Requests : r.messages \in Seq({r.messages[k] : k \in DOMAIN r.messages})

VARIABLES
  stage,         \* how far the call is
  from,          \* the coordinates
  request,       \* the request
  sent,          \* what went over the wire
  events,        \* the events received so far
  calls,         \* StreamMapper.calls
  pending,       \* MappedStream.pending
  taken,         \* the chunks the run loop has taken
  assembler,     \* the run loop's assembler
  failure,       \* what failed, its class, and where it surfaced
  turn           \* the completed turn

vars == <<stage, from, request, sent, events, calls, pending, taken, assembler,
          failure, turn>>

stream == <<events, calls, pending>>
folding == <<taken, assembler>>

Streaming == {"peeking", "streaming"}

---------------------------------------------------------------------------
(* build and build_dialect.                                                *)

Init ==
  /\ stage \in {"naming", "scripted"}
  /\ from \in Coordinates
  /\ request \in Requests
  /\ stage = "scripted" => from = CHOOSE c \in Coordinates : TRUE
  /\ stage = "scripted" => request = CHOOSE r \in Requests : TRUE
  /\ sent = Nothing
  /\ events = <<>> /\ calls = <<>> /\ pending = <<>>
  /\ taken = <<>> /\ assembler = NewAssembler
  /\ failure = Nothing /\ turn = Nothing

Refusal(c) ==
  IF c.provider = "custom" /\ ~(c.model /\ c.url) THEN "custom config missing"
  ELSE IF c.provider \notin DialectNames THEN "unknown provider"
  ELSE IF ~c.key THEN "missing api key"
  ELSE "none"

Fails(class, at, cause) ==
  failure' = [kind |-> "failure", class |-> class, at |-> at, cause |-> cause]

Build ==
  /\ stage = "naming"
  /\ IF Refusal(from) = "none"
     THEN stage' = "built" /\ UNCHANGED failure
     ELSE stage' = "failed" /\ Fails(Refusal(from), "build", Nothing)
  /\ UNCHANGED <<from, request, sent, stream, folding, turn>>

---------------------------------------------------------------------------
(* OpenAiProvider::chat_stream.                                            *)

Outgoing == WireRequest(request.messages, EchoesReasoning(from.provider))
Chosen == Options(from.provider, request)

\* The request is mapped before the options are, and both before the wire.
Refuse ==
  /\ stage = "built"
  /\ Outgoing.error # "none" \/ Chosen.error # "none"
  /\ stage' = "failed"
  /\ Fails(IF Outgoing.error # "none" THEN Outgoing.error ELSE Chosen.error, "call",
           Nothing)
  /\ UNCHANGED <<from, request, sent, stream, folding, turn>>

Send ==
  /\ stage = "built"
  /\ Outgoing.error = "none" /\ Chosen.error = "none"
  /\ stage' = "connecting"
  /\ sent' = [kind |-> "sent", request |-> Outgoing.value, options |-> Chosen.value]
  /\ UNCHANGED <<from, request, stream, folding, failure, turn>>

Connect ==
  /\ stage = "connecting"
  /\ \/ stage' = "peeking" /\ UNCHANGED failure
     \/ \E f \in Failures : stage' = "failed" /\ Fails(ErrorClass(f, FALSE), "call", f)
  /\ UNCHANGED <<from, request, sent, stream, folding, turn>>

---------------------------------------------------------------------------
(* MappedStream::poll_next: what is pending goes first.                    *)

Ended == events # <<>> /\ Last(events).kind = "end"

Receive ==
  /\ stage \in Streaming
  /\ pending = <<>> /\ ~Ended /\ Len(events) < MaxEvents
  /\ <<from, request>> \in Watched
  /\ \E event \in Events :
       LET mapped == MapEvent(calls, event) IN
       /\ events' = Append(events, event)
       /\ calls' = mapped.calls
       /\ pending' = mapped.chunks
  /\ UNCHANGED <<stage, from, request, sent, folding, failure, turn>>

\* A failure before the first chunk is the call's own; a later one is an item
\* of the stream.
FailureSite == IF stage = "peeking" THEN "call" ELSE "stream"

\* The run loop leaves the stream at its first error.
WireFails ==
  /\ stage \in Streaming
  /\ pending = <<>> /\ ~Ended
  /\ \E f \in Failures : Fails(ErrorClass(f, TRUE), FailureSite, f)
  /\ stage' = IF FailureSite = "call" THEN "failed" ELSE "broken"
  /\ UNCHANGED <<from, request, sent, stream, folding, turn>>

\* The peeked chunk is handed on with the stream it was taken from.
Take ==
  /\ stage \in Streaming /\ pending # <<>>
  /\ stage' = "streaming"
  /\ taken' = Append(taken, Head(pending))
  /\ assembler' = Push(assembler, Head(pending))
  /\ pending' = Tail(pending)
  /\ UNCHANGED <<from, request, sent, events, calls, failure, turn>>

\* The vendor closes the stream, or the run is interrupted between two chunks.
StreamOver ==
  /\ \/ stage \in Streaming /\ pending = <<>>
     \/ stage = "streaming"
  /\ stage' = "closed"
  /\ UNCHANGED <<from, request, sent, stream, folding, failure, turn>>

TakeScripted ==
  /\ stage = "scripted" /\ Len(taken) < MaxChunks
  /\ \E c \in Scripted :
       /\ taken' = Append(taken, c)
       /\ assembler' = Push(assembler, c)
  /\ UNCHANGED <<stage, from, request, sent, stream, failure, turn>>

Finished ==
  /\ stage \in {"closed", "broken", "scripted"} /\ turn = Nothing
  /\ turn' = Complete(assembler)
  /\ stage' = "done"
  /\ UNCHANGED <<from, request, sent, stream, folding, failure>>

Next ==
  \/ Build \/ Refuse \/ Send \/ Connect
  \/ Receive \/ WireFails \/ Take \/ StreamOver
  \/ TakeScripted \/ Finished

Spec == Init /\ [][Next]_vars

---------------------------------------------------------------------------
(* The reference: what the chunks say, read backwards from their ends.     *)

Of(kind, index) == {k \in DOMAIN taken : taken[k].kind = kind /\ taken[k].index = index}

\* Where the call that ends at position e began: its start, or a fragment
\* nobody opened.
Beginnings(e) ==
  LET index == taken[e].index
      closed == {k \in Of("end", index) : k < e}
      after == {k \in Of("start", index) \cup Of("args", index) :
                  k < e /\ \A c \in closed : c < k}
      starts == {k \in after : taken[k].kind = "start"} IN
  IF starts # {} THEN {Max(starts)} ELSE IF after = {} THEN {} ELSE {Min(after)}

FragmentsOf(b, e) ==
  LET own == SelectSeq([k \in 1..(e - b + 1) |-> taken[b + k - 1]],
                       LAMBDA c : c.kind = "args" /\ c.index = taken[e].index) IN
  [k \in DOMAIN own |-> own[k].piece]

SealsAt(e) ==
  /\ taken[e].kind = "end"
  /\ \E b \in Beginnings(e) : Parses(Trimmed(FragmentsOf(b, e)))

\* The ends that seal a call, by index and then in order of arrival.
Seals ==
  SetToSortSeq({e \in DOMAIN taken : SealsAt(e)},
               LAMBDA x, y : \/ taken[x].index < taken[y].index
                             \/ taken[x].index = taken[y].index /\ x < y)

SealedArguments(e) ==
  LET b == CHOOSE b \in Beginnings(e) : TRUE IN Arguments(Trimmed(FragmentsOf(b, e)))

LeftOpen ==
  \E k \in DOMAIN taken :
    /\ taken[k].kind \in {"start", "args"}
    /\ ~\E e \in Of("end", taken[k].index) : e > k

CallsOf(message) == SelectSeq(message.content, LAMBDA p : p.kind = "call")

---------------------------------------------------------------------------
(* Properties.                                                             *)

\* Whatever a provider yields, a turn's calls are those whose fragments parse,
\* each with the fragments that came after its own start, ordered by index.
\* It is recorded as whole only when it finished with no call left open.
TurnFollowsChunks ==
  turn # Nothing =>
    LET made == CallsOf(turn.message)
        finishes == \E k \in DOMAIN taken : taken[k].kind = "done" IN
    /\ Len(made) = Len(Seals)
    /\ \A k \in DOMAIN made : made[k].call.args = SealedArguments(Seals[k])
    /\ turn.outcome = "content" => finishes /\ ~LeftOpen /\ turn.message.content # <<>>
    /\ turn.outcome = "truncated" => LeftOpen \/ ~finishes

\* The accumulated arguments the wire reported for a call, in order.
Reported(id) == SelectSeq(events, LAMBDA e : e.kind = "call" /\ e.id = id)
OnlyGrows(id) ==
  \A j, k \in DOMAIN Reported(id) : j <= k =>
    IsPrefix(Accumulated(Reported(id)[j]), Accumulated(Reported(id)[k]))
CallIds == {e.id : e \in {e \in Events : e.kind = "call"}}
FirstSeen(id) == Min({k \in DOMAIN events : events[k].kind = "call" /\ events[k].id = id})
Announced ==
  SetToSortSeq({id \in CallIds : Reported(id) # <<>>},
               LAMBDA x, y : FirstSeen(x) < FirstSeen(y))

\* A vendor stream never trips the assembler's own alarms, and when the client
\* only ever grows what it has accumulated, a stream that ended yields every
\* call with the arguments last reported, in order of first appearance, and
\* all of the text.
TurnMatchesWire ==
  turn # Nothing /\ Ended /\ pending = <<>> /\ (\A id \in CallIds : OnlyGrows(id)) =>
    LET whole == SelectSeq(Announced, LAMBDA id :
                   Parses(Trimmed(Accumulated(Last(Reported(id))))))
        made == CallsOf(turn.message) IN
    /\ ToSet(turn.warnings) \subseteq {"malformed arguments"}
    /\ [k \in DOMAIN made |-> made[k].call.id] = whole
    /\ \A k \in DOMAIN made :
         made[k].call.args = Arguments(Trimmed(Accumulated(Last(Reported(whole[k])))))
    /\ Len(assembler.text) = Len(SelectSeq(events, LAMBDA e : e.kind = "content"))

\* A call fails as a call exactly when no chunk of it was ever handed out, and
\* an HTTP status has the same class whether it came before the stream or in it.
FailuresKeepTheirPlace ==
  failure # Nothing /\ failure.at # "build" =>
    /\ (failure.at = "call") <=> (taken = <<>>)
    /\ failure.cause.kind = "http" => failure.class = ClassOfHttp(failure.cause)
    /\ sent = Nothing => failure.class \in {"capability mismatch", "invalid request"}

\* What goes over the wire is within the declared capabilities, at the declared
\* tier nearest to the one asked for, and no tool result loses its error.
SentKeepsRequest ==
  sent # Nothing =>
    LET caps == Capabilities(from.provider)
        asked == request.messages
        lead == Len(sent.request.system) IN
    /\ from.key
    /\ request.tools => caps.tools
    /\ IsEffort(request.reasoning) =>
         /\ sent.options.reasoning \in caps.efforts
         /\ request.reasoning \in caps.efforts => sent.options.reasoning = request.reasoning
    /\ request.output = "strict" => sent.options.output = "strict schema"
    /\ lead + Len(sent.request.messages) = Len(asked)
    /\ \A k \in DOMAIN sent.request.messages :
         asked[lead + k].role = "tool" =>
           /\ sent.request.messages[k].marked = asked[lead + k].error
           /\ sent.request.messages[k].answers = asked[lead + k].answers
=============================================================================
