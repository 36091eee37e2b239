----------------------------- MODULE AgentStream -----------------------------
(***************************************************************************)
(* One assistant block from its deltas to the scrollback: the Markdown     *)
(* pipeline, the transcript's queue of emissions and the paced drain,      *)
(* while the screen's width changes.  A snapshot renders and queues what   *)
(* became stable; a drain lets rows out and acknowledges the emissions     *)
(* that left whole; a new width folds the queue back, all but an emission  *)
(* that left in part.                                                      *)
(*                                                                         *)
(* A line takes one row; how lines wrap is Terminal's matter.              *)
(***************************************************************************)
EXTENDS MarkdownStream

CONSTANTS
  Texts,      \* the sources a reply may have: a sequence of sequences of lines
  Widths,     \* the widths the screen may take
  Budgets,    \* rows one frame may let out
  Resizes(_), \* bound: how often the width may change while a text streams
  MaxQueue    \* bound: emissions in the queue

VARIABLES
  doc,        \* which of the texts the reply is, as far as it will get
  pushed,     \* lines that have arrived
  pipe,       \* the pipeline's cache
  seen,       \* lines the last render covered
  acked,      \* lines confirmed in the scrollback
  emitted,    \* lines queued so far
  queue,      \* emissions: [rows, left, completes, width, slice]
  scroll,     \* the scrollback, oldest first
  done,       \* the block's completing emission was confirmed
  resizes,    \* bound: widths taken
  broke       \* an index left its range

vars == <<doc, pushed, pipe, seen, acked, emitted, queue, scroll, done, resizes, broke>>

Width == pipe.width

\* Every beginning of every text, parsed, and as it would render in one go.
Beginnings(Of(_, _)) ==
  LET texts == Texts IN
    [t \in DOMAIN texts |-> [n \in 0..Len(texts[t]) |-> [w \in Widths |-> Of(SubSeq(texts[t], 1, n), w)]]]
Parses == Beginnings(Parsed)
Documents == Beginnings(Document)
Lengths == LET texts == Texts IN [t \in DOMAIN texts |-> Len(texts[t])]
Turns == LET texts == Texts IN [t \in DOMAIN texts |-> Resizes(texts[t])]
Total == Lengths[doc]

Init ==
  /\ doc \in DOMAIN Lengths
  /\ \E w \in Widths : pipe = [New EXCEPT !.width = w]
  /\ pushed = 0 /\ seen = 0
  /\ acked = 0 /\ emitted = 0
  /\ queue = <<>> /\ scroll = <<>>
  /\ done = FALSE /\ resizes = 0 /\ broke = FALSE

\* A delta ends a line.
Push ==
  /\ ~pipe.final /\ pushed < Total
  /\ pushed' = pushed + 1
  /\ UNCHANGED <<doc, pipe, seen, acked, emitted, queue, scroll, done, resizes, broke>>

\* The response, or a structural seal with what has arrived.
Seal ==
  /\ ~pipe.final /\ pushed = Total
  /\ pipe' = Finalize(pipe) /\ seen' = 0
  /\ UNCHANGED <<doc, pushed, acked, emitted, queue, scroll, done, resizes, broke>>

----------------------------------------------------------------------------
\* A queued slice, counted back from the end of the source it was cut from.
Emission(rows, completes, width, slice) ==
  [rows |-> rows, left |-> 0, completes |-> completes, width |-> width, slice |-> slice]

\* Is the cursor past the block, its completing emission queued?
Completing(q) == \E k \in DOMAIN q : q[k].completes

\* A slip: a slice is counted as if no unstable lines followed it.
FaultCutAtEnd(p, q, from) ==
  LET live == LiveLines(p)
      flushable == FlushableLen(p)
      waiting == from - acked
      completes == p.final /\ flushable = Len(live)
      slice == [end |-> pushed, trailing |-> 0] IN
    IF waiting > flushable THEN [queue |-> q, emitted |-> from, broke |-> TRUE]
    ELSE [queue |-> IF flushable > waiting \/ completes
                    THEN Append(q, Emission(SubSeq(live, waiting + 1, flushable), completes, p.width, slice))
                    ELSE q,
          emitted |-> acked + flushable, broke |-> FALSE]

\* The queue after a render at a width, its cursor at "from".
Queued(p, q, from) ==
  LET live == LiveLines(p)
      flushable == FlushableLen(p)
      waiting == from - acked
      completes == p.final /\ flushable = Len(live)
      slice == [end |-> pushed, trailing |-> Len(live) - flushable] IN
    IF waiting > flushable THEN [queue |-> q, emitted |-> from, broke |-> TRUE]
    ELSE [queue |-> IF flushable > waiting \/ completes
                    THEN Append(q, Emission(SubSeq(live, waiting + 1, flushable), completes, p.width, slice))
                    ELSE q,
          emitted |-> acked + flushable, broke |-> FALSE]

\* The walk passes a block whose completing emission is queued or confirmed.
Materialize(p, q, from) ==
  /\ pipe' = p /\ seen' = pushed
  /\ \E next \in {IF done \/ Completing(q) THEN [queue |-> q, emitted |-> from, broke |-> FALSE]
                  ELSE Queued(p, q, from)} :
       queue' = next.queue /\ emitted' = next.emitted /\ broke' = next.broke

\* Everything that came in is rendered; a frame drains right after.
Current == seen = pushed

\* One materialization pass of a frame: the open tail renders and queues.
Snapshot ==
  /\ ~broke /\ ~done /\ ~Completing(queue) /\ Len(queue) < MaxQueue
  /\ ~Current \/ pipe.final
  /\ Materialize(Render(pipe, Parses[doc][pushed][Width], Width), queue, emitted)
  /\ UNCHANGED <<doc, pushed, acked, scroll, done, resizes>>

\* Rows leave the queue, up to the budget: [rows, queue, gone].
Pop(q, budget) ==
  LET P[n \in 0..budget, k \in 1..Len(q) + 1] ==
        IF n = 0 \/ k > Len(q) THEN [rows |-> <<>>, queue |-> SubSeq(q, k, Len(q)), gone |-> <<>>]
        ELSE LET rest == After(q[k].rows, q[k].left)
                 rows == SubSeq(rest, 1, Lesser(n, Len(rest))) IN
               IF Len(rows) < Len(rest)
               THEN [rows |-> rows, gone |-> <<>>,
                     queue |-> <<[q[k] EXCEPT !.left = @ + Len(rows)]>> \o SubSeq(q, k + 1, Len(q))]
               ELSE LET more == P[n - Len(rows), k + 1] IN
                      [more EXCEPT !.rows = rows \o @, !.gone = <<q[k]>> \o @]
  IN P[budget, 1]

\* A paced drain and, the insert having succeeded, its acknowledgements.
Drain ==
  /\ ~broke /\ queue # <<>> /\ Current
  /\ \E budget \in Budgets :
       LET d == Pop(queue, budget)
           n == Len(Concat([k \in DOMAIN d.gone |-> d.gone[k].rows])) IN
         /\ queue' = d.queue
         /\ scroll' = scroll \o d.rows
         /\ acked' = acked + n
         /\ pipe' = Ack(pipe, n)
         /\ done' = Completing(d.gone)
         /\ broke' = (n > FlushableLen(pipe))
  /\ UNCHANGED <<doc, pushed, seen, emitted, resizes>>

\* A settled resize to another width: the queue folds back, all but a front
\* that left in part, and the snapshot queues again at the new width.
Kept == IF queue # <<>> /\ Head(queue).left > 0 THEN <<Head(queue)>> ELSE <<>>
Folded == IF done THEN emitted ELSE acked + (IF Kept = <<>> THEN 0 ELSE Len(Kept[1].rows))
Resize ==
  /\ ~broke /\ resizes < Turns[doc]
  /\ \E w \in Widths \ {Width} :
       Materialize(Render(pipe, Parses[doc][pushed][w], w), Kept, Folded)
  /\ resizes' = resizes + 1
  /\ UNCHANGED <<doc, pushed, acked, scroll, done>>

Next == Push \/ Seal \/ Snapshot \/ Drain \/ Resize
Spec == Init /\ [][Next]_vars

----------------------------------------------------------------------------
Row(r) == [r EXCEPT !.link = FALSE]
Bare(rows) == [k \in DOMAIN rows |-> Row(rows[k])]
StartsWith(s, t) == Len(t) <= Len(s) /\ SubSeq(s, 1, Len(t)) = t
EndsWith(s, t) == Len(t) <= Len(s) /\ After(s, Len(s) - Len(t)) = t

\* After a render the live lines are the tail of a one-shot render of the
\* same source at the same width, down to which references resolve: the
\* cache, its incremental fences, its separators and the lines it drops
\* again leave no trace (stream.rs asserts it whenever a resize replays).
LiveIsTail ==
  Current /\ pushed > 0 =>
    EndsWith(Documents[doc][seen][Width], LiveLines(pipe))

OnTheWay(rows, text) == StartsWith(text, rows) /\ (done => text = rows)
\* What reached the scrollback is never taken back, printed twice or left
\* out: however the source goes on, however drains cut the queue and the
\* width changes, it is how the finished text begins, and all of it in the
\* end.  Only a reference defined later may read differently.
FlushedIsFinal == OnTheWay(Bare(scroll), Bare(Documents[doc][Total][Width]))

\* The pipeline leaves no trace: what is on screen and what has left it are
\* the reply as rendering all of it at once would have it.
StreamedIsOneShot == LiveIsTail /\ FlushedIsFinal

Ending(text, trailing, n) == SubSeq(text, Len(text) - trailing - n + 1, Len(text) - trailing)
CutFrom(e, text) == e.rows = Ending(text, e.slice.trailing, Len(e.rows))

\* An emission can be made again at its old width from the source it was cut
\* from, however much came after it: what replays a half-drained one.
SliceIsItsEmission == \A k \in DOMAIN queue :
  CutFrom(queue[k], Documents[doc][queue[k].slice.end][queue[k].width])

\* The queued lines are a prefix of the live ones: no index leaves its range.
NothingBreaks == ~broke
=============================================================================
