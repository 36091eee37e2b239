----------------------------- MODULE Transcript -----------------------------
(***************************************************************************)
(* The terminal client's view of a session (cadmus-tui transcript.rs):     *)
(* live items and baselines become blocks of lines, stable lines become    *)
(* queued rows, rows leave for the scrollback at the caller's pace and are *)
(* confirmed after the insert.                                             *)
(*                                                                         *)
(* A line is <<kind, run, of, n>>: what it shows.  It has two cells, one   *)
(* row when wide and two when narrow.  A text delta is one line, and the   *)
(* last line of an open turn is unstable, as a paragraph that may go on.   *)
(* Labels, previews and blank rows are left out; the first run a line      *)
(* shows up in is its run.                                                 *)
(* An operator named Fault... is a plausible slip in the definition that   *)
(* follows it; none is part of the specification.                          *)
(***************************************************************************)
EXTENDS Integers, Sequences, SequencesExt, FiniteSetsExt

Everything == 1000   \* usize::MAX as a budget: more rows than any run has

Line(kind, run, of, n) == <<kind, run, of, n>>
TurnLines(run, turn, count) == [i \in 1..count |-> Line("turn", run, turn, i)]

---------------------------------------------------------------------------
(* Rows.                                                                   *)

RowsOf(line, width) ==
  IF width = "wide" THEN <<<<<<line, 1>>, <<line, 2>>>>>>
  ELSE <<<<<<line, 1>>>>, <<<<line, 2>>>>>>

WrapRows(lines, width) == FlattenSeq([i \in DOMAIN lines |-> RowsOf(lines[i], width)])
Cells(lines) == FlattenSeq(WrapRows(lines, "wide"))

---------------------------------------------------------------------------
(* Blocks.                                                                 *)

NoTurnOpen == 0
NoPrefix == [lines |-> <<>>, width |-> "wide", rows |-> 0]

Blank ==
  [blocks |-> <<>>, flushed |-> 0, queued |-> 0, queue |-> <<>>, partial |-> NoPrefix,
   openTurn |-> NoTurnOpen, asOf |-> 0, calls |-> {}, approvals |-> <<>>, completed |-> {}]

Static(lines) == [kind |-> "static", lines |-> lines]
Agent(lines, final) ==
  [kind |-> "agent", lines |-> lines, final |-> final, acked |-> 0, emitted |-> 0]

\* seal_open: the open turn's block is finalized with what it has.
Sealed(t) ==
  IF t.openTurn = NoTurnOpen THEN t
  ELSE [t EXCEPT !.openTurn = NoTurnOpen, !.blocks[Len(t.blocks)].final = TRUE]

Pushed(t, block) == [t EXCEPT !.blocks = Append(@, block)]

\* Every static block seals first.
Say(t, lines) == Pushed(Sealed(t), Static(lines))

\* agent_block: the turn's block, made on its first delta.
TurnBlock(t, turn) ==
  IF t.openTurn = turn THEN t
  ELSE [Pushed(Sealed(t), Agent(<<>>, FALSE)) EXCEPT !.openTurn = turn]

\* Text pushed to the open block.
Extended(t, run, turn, count) ==
  [t EXCEPT !.blocks[Len(t.blocks)].lines = @ \o SubSeq(TurnLines(run, turn, Len(@) + count),
                                                       Len(@) + 1, Len(@) + count)]

Spoken(t, run, turn, count) == Extended(TurnBlock(t, turn), run, turn, count)

\* What of a block may leave: all of it once final, all but the last line before.
Stable(b) == IF b.final THEN Len(b.lines) ELSE Max({0, Len(b.lines) - 1})

Lower(x, y) == IF x <= y THEN x ELSE y

---------------------------------------------------------------------------
(* Recorded events and provisional outcomes.                               *)

\* The response replaces the deltas of its own turn; one whose deltas never
\* came is a block of its own, unless it has no text.
Respond(t, e, run) ==
  LET text == TurnLines(run, e.turn, e.msg.lines) IN
  IF e.turn # NoTurnOpen /\ e.turn = t.openTurn
  THEN [t EXCEPT !.openTurn = NoTurnOpen,
                 !.blocks[Len(t.blocks)].lines = text, !.blocks[Len(t.blocks)].final = TRUE]
  ELSE IF text = <<>> THEN t ELSE Pushed(Sealed(t), Agent(text, TRUE))

OutcomeLine(run, span) == Line("outcome", run, span, 0)
CallLine(run, span) == Line("call", run, span, 0)

\* push_completion: a provisional outcome, once per span.
ShowCompletion(t, span, run) ==
  IF span \in t.completed THEN t
  ELSE Say([t EXCEPT !.completed = @ \cup {span}], <<OutcomeLine(run, span)>>)

\* The provisional outcome has shown this result already.
ShownEarly(t, e) == e.span \in t.completed

\* push_result: a success whose opening span was missed stays quiet.
Result(t, e, run) ==
  LET settled == [t EXCEPT !.calls = @ \ {e.span}, !.completed = @ \ {e.span}] IN
  IF ShownEarly(t, e) \/ (e.span \notin t.calls /\ e.ok) THEN settled
  ELSE Say(settled, <<OutcomeLine(run, e.span)>>)

DecidedLine(run, request, slot) == Line("decided", run, request, slot)

Dropping(f, x) == [y \in DOMAIN f \ {x} |-> f[y]]

\* The slots of a request nobody has seen decided yet.
Unsaid(slots) == SelectSeq([i \in DOMAIN slots |-> i], LAMBDA i : slots[i])

\* push_resolution; an unseen request is named by its id.
DecideBatch(t, c, run) ==
  LET seen == c.req \in DOMAIN t.approvals
      slots == IF seen THEN Unsaid(t.approvals[c.req]) ELSE <<0>>
      rest == Sealed([t EXCEPT !.approvals = Dropping(@, c.req)])
  IN IF slots = <<>> THEN rest
     ELSE Pushed(rest, Static([i \in DOMAIN slots |-> DecidedLine(run, c.req, slots[i])]))

\* Taking a name marks its decision rendered.
Rendered(slots, i) == [slots EXCEPT ![i] = FALSE]

\* push_call_resolution.
DecideCall(t, c, run) ==
  IF c.req \notin DOMAIN t.approvals THEN t
  ELSE LET slots == t.approvals[c.req] IN
       IF c.index \notin DOMAIN slots \/ ~slots[c.index] THEN t
       ELSE LET left == Rendered(slots, c.index)
                rest == IF \E i \in DOMAIN left : left[i]
                        THEN [t EXCEPT !.approvals[c.req] = left]
                        ELSE [t EXCEPT !.approvals = Dropping(@, c.req)]
            IN Say(rest, <<DecidedLine(run, c.req, c.index)>>)

\* apply_event.
ApplyEvent(t, e, run) ==
  CASE e.type = "response" -> Respond(t, e, run)
    [] e.type = "call"     ->
         LET marked == Sealed([t EXCEPT !.calls = @ \cup {e.span}]) IN
         IF e.quiet THEN marked ELSE Pushed(marked, Static(<<CallLine(run, e.span)>>))
    [] e.type = "result"   -> Result(t, e, run)
    [] e.type \in {"inject", "steer"} -> Say(t, <<e.msg.of>>)
    [] e.type = "resolve"  -> IF e.cmd.kind = "batch" THEN DecideBatch(t, e.cmd, run)
                              ELSE DecideCall(t, e.cmd, run)
    [] e.type = "finished" ->
         LET over == [t EXCEPT !.calls = {}, !.approvals = <<>>, !.completed = {}] IN
         IF e.error = "ok" THEN over ELSE Say(over, <<Line("failed", run, 0, 0)>>)
    [] e.type = "fold"     -> Say(t, <<Line("fold", run, e.id, 0)>>)
    [] OTHER -> t

\* The one client rule: positions up to the baseline are dropped.
Fresh(t, item) == item.seq > t.asOf

\* apply_item.
ApplyItem(t, item, run) ==
  LET at == [t EXCEPT !.asOf = item.seq] IN
  IF ~Fresh(t, item) THEN t
  ELSE CASE item.kind = "delta"     -> Spoken(at, run, item.turn, 1)
         [] item.kind = "requested" ->
              [at EXCEPT !.approvals = (item.request :> [i \in 1..item.calls |-> TRUE]) @@ @]
         [] item.kind = "completed" -> ShowCompletion(at, item.done.span, run)
         [] item.kind = "recorded"  -> ApplyEvent(at, item.event, run)

---------------------------------------------------------------------------
(* Baselines.                                                              *)

\* The decided calls of a request, in call order, as lines.
DecidedLines(run, request, calls) == [i \in DOMAIN calls |-> DecidedLine(run, request, calls[i])]

DecidedOf(p) == SelectSeq([i \in DOMAIN p.decisions |-> i], LAMBDA i : p.decisions[i] # "none")

\* What a baseline says was decided: the settled window, then the answered
\* part of what is pending.
Settlements(sync) ==
  [i \in DOMAIN sync.settled |-> [request |-> sync.settled[i].request,
                                  index |-> sync.settled[i].index,
                                  calls |-> sync.settled[i].calls]]
  \o SelectSeq([i \in DOMAIN sync.pending |-> [request |-> sync.pending[i].request,
                                               index |-> sync.pending[i].index,
                                               calls |-> DecidedOf(sync.pending[i])]],
               LAMBDA s : s.calls # <<>>)

\* The message a settlement belongs to, when it is an assistant message.
PlacedAt(sync, s) ==
  IF s.index >= 0 /\ s.index < Len(sync.messages) /\ sync.messages[s.index + 1].role = "assistant"
  THEN s.index + 1 ELSE 0

SettledBlocks(sync, at, run) ==
  LET here == SelectSeq(Settlements(sync), LAMBDA s : PlacedAt(sync, s) = at)
  IN [i \in DOMAIN here |-> Static(DecidedLines(run, here[i].request, here[i].calls))]

\* push_history_message: text, then the decisions about its calls, then the
\* markers of the calls.
MessageBlocks(sync, m, run) ==
  LET msg == sync.messages[m] IN
  IF msg.role # "assistant" THEN <<Static(<<msg.of>>)>>
  ELSE LET marked == SelectSeq(msg.calls, LAMBDA c : ~c.quiet) IN
       (IF msg.lines = 0 THEN <<>> ELSE <<Agent(TurnLines(msg.run, msg.turn, msg.lines), TRUE)>>)
       \o SettledBlocks(sync, m, run)
       \o [i \in DOMAIN marked |-> Static(<<CallLine(msg.run, marked[i].span)>>)]

HistoryBlocks(sync, run) ==
  FlattenSeq([m \in DOMAIN sync.messages |-> MessageBlocks(sync, m, run)])
  \o SettledBlocks(sync, 0, run)

\* On a re-sync what the rebuild has so far is in the scrollback already.
PreFlushed(t) == [t EXCEPT !.flushed = Len(t.blocks), !.queued = Len(t.blocks)]

Completions(t, spans, run) ==
  FoldLeft(LAMBDA s, span : ShowCompletion(s, span, run), t, SetToSortSeq(spans, <))

\* sync_completions: those shown before the gap first, pre-flushed; those
\* missed in it after them.
SyncCompletions(t, seen, spans, resync, run) ==
  Completions(IF resync THEN PreFlushed(Completions(t, spans \cap seen, run)) ELSE t, spans, run)

FaultForgetTransfer(t) == [turn |-> NoTurnOpen, acked |-> 0]

\* The open tail's confirmed prefix, which a rebuilt tail takes over.
Transfer(t) ==
  IF t.openTurn = NoTurnOpen THEN [turn |-> NoTurnOpen, acked |-> 0]
  ELSE [turn |-> t.openTurn, acked |-> t.blocks[Len(t.blocks)].acked]

Retailed(t, sync, transfer, run) ==
  IF sync.open.turn = NoTurnOpen THEN t
  ELSE LET tail == Spoken(t, run, sync.open.turn, sync.open.chunks)
           last == Len(tail.blocks)
           kept == IF transfer.turn = sync.open.turn
                   THEN Lower(transfer.acked, Stable(tail.blocks[last])) ELSE 0
       IN [tail EXCEPT !.blocks[last].acked = kept, !.blocks[last].emitted = kept]

\* apply_sync.
ApplySync(t, sync, resync, run) ==
  LET history == [Blank EXCEPT !.blocks = HistoryBlocks(sync, run), !.asOf = sync.last]
      based == IF resync THEN PreFlushed(history) ELSE history
      whole == Retailed(SyncCompletions(based, t.completed, {d.span : d \in sync.done}, resync, run),
                        sync, Transfer(t), run)
      named == {sync.pending[i].request : i \in DOMAIN sync.pending}
      Of(r) == CHOOSE i \in DOMAIN sync.pending : sync.pending[i].request = r
  IN [whole EXCEPT !.approvals =
        [r \in named |-> [i \in DOMAIN sync.pending[Of(r)].decisions |->
                           sync.pending[Of(r)].decisions[i] = "none"]]]

---------------------------------------------------------------------------
(* The emission queue.  An emission is the stable lines queued at once,    *)
(* their rows yet to leave, how many have left, and the acknowledgment     *)
(* its last row carries: "whole" for a static block, else how many lines   *)
(* of the block and whether they complete it.                              *)

Emission(lines, width, ack) ==
  [lines |-> lines, width |-> width, rows |-> WrapRows(lines, width), left |-> 0, ack |-> ack]

Whole == [lines |-> 0, completes |-> TRUE]

\* Lines of a block that are queued already, acknowledged ones included.
Cursor(b) == b.emitted

\* The next block's newly stable lines join the queue.  An unfinished block
\* holds the walk; one finished with all its lines queued sends an empty
\* emission to carry the acknowledgment.
QueueNext(t, k, width) ==
  LET b == t.blocks[k]
      lines == SubSeq(b.lines, Cursor(b) + 1, Stable(b))
      ack == [lines |-> Len(lines), completes |-> b.final]
  IN IF t.queued # k - 1 THEN t
     ELSE IF b.kind = "static"
     THEN [t EXCEPT !.queue = Append(@, Emission(b.lines, width, Whole)), !.queued = k]
     ELSE [t EXCEPT !.queue = IF lines # <<>> \/ b.final
                              THEN Append(@, Emission(lines, width, ack)) ELSE @,
                    !.blocks[k].emitted = Stable(b),
                    !.queued = IF b.final THEN k ELSE @]

\* snapshot.
Snapshot(t, width) ==
  LET walk[k \in t.queued..Len(t.blocks)] ==
        IF k = t.queued THEN t ELSE LET before == walk[k - 1] IN QueueNext(before, k, width)
  IN walk[Len(t.blocks)]

QueuedRows(t) == FoldLeft(LAMBDA n, e : n + Len(e.rows), 0, t.queue)

RowsBefore(t, k) == QueuedRows([t EXCEPT !.queue = SubSeq(@, 1, k - 1)])

\* drain: emissions that leave whole within the budget, then a part of the
\* next one.
Leaving(t, budget) ==
  {k \in DOMAIN t.queue : /\ RowsBefore(t, k) < budget
                          /\ RowsBefore(t, k) + Len(t.queue[k].rows) <= budget}

DrainedRows(t, budget) ==
  SubSeq(FlattenSeq([k \in DOMAIN t.queue |-> t.queue[k].rows]), 1, Lower(budget, QueuedRows(t)))

\* The queue once the drain has left, "part" rows of its head gone with it.
Remaining(t, budget) ==
  LET gone == Cardinality(Leaving(t, budget))
      rest == SubSeq(t.queue, gone + 1, Len(t.queue))
      part == Len(DrainedRows(t, budget)) - RowsBefore(t, gone + 1)
  IN IF part = 0 THEN rest
     ELSE [rest EXCEPT ![1].rows = SubSeq(@, part + 1, Len(@)), ![1].left = @ + part]

DrainedAcks(t, budget) ==
  LET gone == Cardinality(Leaving(t, budget)) IN [k \in 1..gone |-> t.queue[k].ack]

\* One acknowledgment, of the block at the flush cursor.
Acknowledged(t, ack) ==
  LET k == t.flushed + 1
      told == IF t.blocks[k].kind = "static" THEN t ELSE [t EXCEPT !.blocks[k].acked = @ + ack.lines]
  IN IF ack.completes THEN [told EXCEPT !.flushed = k] ELSE told

FaultAckPartial(queue) == NoPrefix

\* The confirmed rows of the emission at the head.
ConfirmedPrefix(queue) ==
  IF queue # <<>> /\ queue[1].left > 0
  THEN [lines |-> queue[1].lines, width |-> queue[1].width, rows |-> queue[1].left]
  ELSE NoPrefix

\* drain, then apply_flush once the insert has succeeded.
Flushed(t, budget) ==
  LET queue == Remaining(t, budget) IN
  [FoldLeft(Acknowledged, [t EXCEPT !.queue = queue], DrainedAcks(t, budget))
     EXCEPT !.partial = ConfirmedPrefix(queue)]

\* Blocks from k on are queued afresh.
Unqueued(b) == IF b.kind = "static" THEN b ELSE [b EXCEPT !.emitted = b.acked]
Requeue(t, k) ==
  [t EXCEPT !.blocks = SubSeq(@, 1, k - 1) \o [j \in 1..(Len(@) + 1 - k) |-> Unqueued(t.blocks[k - 1 + j])]]

\* Rows of the head have left already.
HeadBegun(t) == t.queue # <<>> /\ t.queue[1].left > 0

\* rewind_queue: a begun head keeps its rows as they are wrapped.
Rewound(t) ==
  LET next == t.flushed + 1
      head == t.queue[1]
      kept == IF t.blocks[next].kind = "static" THEN t
              ELSE [t EXCEPT !.blocks[next].emitted = t.blocks[next].acked + head.ack.lines]
  IN IF HeadBegun(t)
     THEN Requeue([kept EXCEPT !.queue = <<head>>,
                               !.queued = IF head.ack.completes THEN next ELSE t.flushed], next + 1)
     ELSE Requeue([t EXCEPT !.queue = <<>>, !.queued = t.flushed], next)

\* replay_tail with a window that fits everything: confirmed lines from
\* their source, then the confirmed rows of the emission at the head.
ReplayedCells(t) ==
  LET prefix == FlattenSeq(SubSeq(WrapRows(t.partial.lines, t.partial.width), 1, t.partial.rows))
      Of(k) == IF t.blocks[k].kind = "agent" THEN Cells(SubSeq(t.blocks[k].lines, 1, t.blocks[k].acked))
               ELSE IF k <= t.flushed THEN Cells(t.blocks[k].lines) ELSE <<>>
  IN FlattenSeq([k \in DOMAIN t.blocks |->
                   IF k = t.flushed + 1 THEN Of(k) \o prefix ELSE Of(k)])
=============================================================================
