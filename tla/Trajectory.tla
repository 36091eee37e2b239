----------------------------- MODULE Trajectory -----------------------------
(***************************************************************************)
(* The deterministic replayer (cadmus-core trajectory.rs): a trace's       *)
(* events folded back into the run state, and the walk that places an      *)
(* approval request after the latest response.                             *)
(*                                                                         *)
(* An event is a record with an id and a type.  The types that append to   *)
(* the history carry the message they append in "msg"; texts, provider and *)
(* model names, warnings and scores are left out.                          *)
(***************************************************************************)
EXTENDS Naturals, Sequences, SequencesExt

NoTurn == 0
NotFinished == [turns |-> 0, error |-> "unfinished"]
NoAnchor == [turn |-> NoTurn, index |-> 0]

Appends(e) == e.type \in {"response", "result", "steer", "inject"}

\* A record stamped as it is appended or published.
Stamped(r, field, n) == [f \in DOMAIN r \cup {field} |-> IF f = field THEN n ELSE r[f]]

---------------------------------------------------------------------------
(* replay_trace.                                                           *)

Empty ==
  [seen |-> {}, started |-> FALSE, messages |-> <<>>, results |-> <<>>,
   turns |-> 0, open |-> <<>>, finished |-> NotFinished]

FaultCloseAll(open, call) == SelectSeq(open, LAMBDA c : c # call)

FaultCloseOldest(open, call) == IF open = <<>> THEN open ELSE Tail(open)

\* The first open occurrence of a call id is the one a result closes.
Without(open, call) ==
  IF \E i \in DOMAIN open : open[i] = call
  THEN RemoveAt(open, CHOOSE i \in DOMAIN open :
                        open[i] = call /\ \A j \in 1..(i - 1) : open[j] # call)
  ELSE open

\* Events are deduped by id, first occurrence wins.
Repeated(s, e) == e.id \in s.seen

\* The first start_run seeds the history; a later one is ignored.
Seed(s, e) ==
  IF s.started THEN s
  ELSE [s EXCEPT !.started = TRUE, !.messages = e.base, !.results = <<>>]

\* Only an ok response counts as a completed turn.
Completes(e) == e.ok

\* A gated result is projected at the index its message is about to take.
ProjectedAt(s) == Len(s.messages)

\* One event, past the dedup.
FoldEvent(s, e) ==
  LET said == IF Appends(e) THEN [s EXCEPT !.messages = Append(@, e.msg)] ELSE s
  IN CASE e.type = "start"    -> Seed(s, e)
       [] e.type = "response" -> IF Completes(e) THEN [said EXCEPT !.turns = @ + 1] ELSE said
       [] e.type = "call"     -> [s EXCEPT !.open = Append(@, e.call)]
       [] e.type = "result"   ->
            [said EXCEPT !.open = Without(@, e.call),
                         !.results = IF e.gated
                                     THEN Append(@, [index |-> ProjectedAt(s), call |-> e.call])
                                     ELSE @]
       [] e.type = "finished" -> [s EXCEPT !.finished = [turns |-> e.turns, error |-> e.error]]
       [] OTHER -> said

Replay(events) ==
  LET fold[i \in 0..Len(events)] ==
        IF i = 0 THEN Empty
        ELSE LET before == fold[i - 1] IN
             IF Repeated(before, events[i]) THEN before
             ELSE FoldEvent([before EXCEPT !.seen = @ \cup {events[i].id}], events[i])
  IN fold[Len(events)]

---------------------------------------------------------------------------
(* latest_response_anchor: the index in the replayed messages of the       *)
(* message the latest response appended, with that response's turn.        *)

NoResponseYet == [seen |-> {}, started |-> FALSE, count |-> 0, latest |-> NoAnchor]

\* The events the walk counts as appending a message.
Counts(e) == Appends(e)

Walk(s, e) ==
  CASE e.type = "start" ->
         IF s.started THEN s
         ELSE [s EXCEPT !.started = TRUE, !.count = Len(e.base), !.latest = NoAnchor]
    [] e.type = "response" ->
         [s EXCEPT !.count = @ + 1,
                   !.latest = IF e.turn = NoTurn THEN NoAnchor
                              ELSE [turn |-> e.turn, index |-> s.count]]
    [] OTHER -> IF Counts(e) THEN [s EXCEPT !.count = @ + 1] ELSE s

Anchor(events) ==
  LET walk[i \in 0..Len(events)] ==
        IF i = 0 THEN NoResponseYet
        ELSE LET before == walk[i - 1] IN
             IF events[i].id \in before.seen THEN before
             ELSE Walk([before EXCEPT !.seen = @ \cup {events[i].id}], events[i])
  IN walk[Len(events)].latest
=============================================================================
