--------------------------- MODULE MarkdownStream ---------------------------
(***************************************************************************)
(* The streaming Markdown pipeline of one assistant block: the cache of    *)
(* rendered blocks that a newline-gated source feeds, reconciled with a    *)
(* fresh parse at every render.  The stable prefix of its live lines may   *)
(* leave for the scrollback and is dropped when that is confirmed; a       *)
(* re-rendered block drops as many regenerated lines again.                *)
(*                                                                         *)
(* A rendered line is [pre, of, cut, link]: the container marks before it, *)
(* the source lines it shows, the part or style, and whether a reference   *)
(* in it resolved.  Colours and column arithmetic are left out.            *)
(***************************************************************************)
EXTENDS Integers, Sequences, FiniteSets

CONSTANTS
  Narrow,     \* the width at which a "wide" row does not fit
  MaxLines    \* bound: lines of a source

----------------------------------------------------------------------------
(* What the pipeline asks of pulldown-cmark (tables and strikethrough on):  *)
(* where the blocks of a text begin and end, of which kind they are, which  *)
(* lines each holds and whether a reference resolves.  The library is not   *)
(* part of the repository; this is CommonMark over the lines that tell the  *)
(* pipeline's cases apart.                                                  *)
(*                                                                          *)
(* A line is [at, lead, body].  "at" is its place in the source, "lead"     *)
(* the containers it spells out, outermost first ("item" "- ", "quote"      *)
(* "> ", "two" and "four" spaces), and "body" one of                        *)
(*   text   words                    ref   words with a [r] in them         *)
(*   blank  nothing                  head  # words                          *)
(*   bar    ---                      html  <p>                              *)
(*   tick   ```                      lang  ```rust     maybe  `words        *)
(*   row    a | b                    wide  the same, too wide when narrow   *)
(*   delim  --- | ---                def   [r]: destination                 *)

Spelt(l, mark) == l.lead # <<>> /\ Head(l.lead) = mark
Flush(l) == l.lead = <<>> \/ Head(l.lead) = "two"   \* under four columns: no indent
Blank(l) == l.body = "blank" /\ l.lead \in {<<>>, <<"two">>}
Words(l) == l.body \in {"text", "ref"}
Inner(l) == [l EXCEPT !.lead = IF @ = <<>> THEN @ ELSE Tail(@)]
Slice(ls, a, b) == SubSeq(ls, a, b)

\* What may run on in an open paragraph, and what interrupts one.
Runs(l) == ~Blank(l) /\ ~Spelt(l, "item") /\ ~Spelt(l, "quote")
             /\ l.body \notin {"blank", "head", "bar", "tick", "lang", "html"}
StartsTable(ls, k) == /\ k < Len(ls)
                      /\ Flush(ls[k]) /\ ls[k].body \in {"row", "wide"}
                      /\ Flush(ls[k + 1]) /\ ls[k + 1].body = "delim"
\* A paragraph in a container goes on with an unmarked line of words.
Lazy(ls, k) == k > 1 /\ ls[k].lead = <<>> /\ Words(ls[k]) /\ Words(ls[k - 1])

\* An item that begins with a blank line takes nothing from under a second one.
Detached(ls, k) == /\ k > 2 /\ ~Spelt(ls[k], "item") /\ Blank(ls[k - 1])
                   /\ Spelt(ls[k - 2], "item") /\ ls[k - 2].body = "blank"

\* From k on, how far the lines satisfy Ok (the last such line).
Reach(ls, k, Ok(_)) ==
  LET out == {j \in k..Len(ls) : ~Ok(j)} IN
    IF out = {} THEN Len(ls) ELSE (CHOOSE j \in out : \A o \in out : j <= o) - 1

\* ... and the last of those with Solid: blanks in the middle, none at the end.
Ends(ls, k, Ok(_), Solid(_)) ==
  LET last == Reach(ls, k, Ok) IN CHOOSE j \in k..last : Solid(j) /\ \A o \in j + 1..last : ~Solid(o)

Block(kind, a, b) == [kind |-> kind, from |-> a, to |-> b]

ParagraphAt(ls, k) ==
  LET last == Reach(ls, k, LAMBDA j : j = k \/ (Runs(ls[j]) /\ ~StartsTable(ls, j)))
      bar == last < Len(ls) /\ ls[last + 1].body = "bar" /\ Flush(ls[last + 1]) IN
    IF bar THEN Block("heading", k, last + 1) ELSE Block("paragraph", k, last)

FenceAt(ls, k) ==
  LET last == Reach(ls, k + 1, LAMBDA j : ~(Flush(ls[j]) /\ ls[j].body = "tick"))
      kind == IF ls[k].body = "lang" THEN "code" ELSE "fence" IN
    Block(kind, k, IF last < Len(ls) THEN last + 1 ELSE last)

BlockAt(ls, k) ==
  CASE Spelt(ls[k], "item")  -> Block("list", k, Ends(ls, k,
         LAMBDA j : /\ Spelt(ls[j], "item") \/ Spelt(ls[j], "two") \/ Blank(ls[j]) \/ Lazy(ls, j)
                    /\ ~Detached(ls, j),
         LAMBDA j : ~Blank(ls[j])))
    [] Spelt(ls[k], "quote") -> Block("quote", k, Reach(ls, k,
         LAMBDA j : Spelt(ls[j], "quote") \/ Lazy(ls, j)))
    [] Spelt(ls[k], "four")  -> Block("indented", k, Ends(ls, k,
         LAMBDA j : Spelt(ls[j], "four") \/ Blank(ls[j]), LAMBDA j : ~Blank(ls[j])))
    [] Flush(ls[k]) /\ ls[k].body = "head"           -> Block("heading", k, k)
    [] Flush(ls[k]) /\ ls[k].body = "bar"            -> Block("rule", k, k)
    [] Flush(ls[k]) /\ ls[k].body \in {"tick", "lang"} -> FenceAt(ls, k)
    [] Flush(ls[k]) /\ ls[k].body = "html" -> Block("html", k, Reach(ls, k, LAMBDA j : ~Blank(ls[j])))
    [] Flush(ls[k]) /\ ls[k].body = "def"  -> Block("definition", k, k)
    [] StartsTable(ls, k) -> Block("table", k, Reach(ls, k, LAMBDA j : j <= k + 1 \/ Runs(ls[j])))
    [] OTHER -> ParagraphAt(ls, k)

\* Every block of the lines in order, the definitions among them.
AllBlocks(ls) ==
  LET From[k \in 1..Len(ls) + 1] ==
        IF k > Len(ls) THEN <<>>
        ELSE IF Blank(ls[k]) THEN From[k + 1]
        ELSE LET b == BlockAt(ls, k) IN <<b>> \o From[b.to + 1]
  IN From[1]

Blocks(ls) == SelectSeq(AllBlocks(ls), LAMBDA b : b.kind # "definition")

\* The lines within a container, its marks taken off.
Unmarked(ls, mark) == [k \in DOMAIN ls |-> IF Spelt(ls[k], mark) THEN Inner(ls[k]) ELSE ls[k]]

\* A list's items, each with its lines.
Items(ls) ==
  LET heads == {k \in DOMAIN ls : Spelt(ls[k], "item")}
      First(n) == CHOOSE k \in heads : Cardinality({h \in heads : h <= k}) = n
      Till(n) == IF n = Cardinality(heads) THEN Len(ls) ELSE First(n + 1) - 1 IN
    [n \in 1..Cardinality(heads) |->
       LET own == Slice(ls, First(n), Till(n)) IN
         [k \in DOMAIN own |-> IF own[k].lead # <<>> THEN Inner(own[k]) ELSE own[k]]]

\* [r] resolves: its definition stands where a block may begin.  Bound: texts
\* define nothing inside a container.
HasDefinition(all) == \E k \in DOMAIN all : all[k].kind = "definition"
Resolves(ls) == HasDefinition(AllBlocks(ls))

----------------------------------------------------------------------------
(* The rows of the screen. *)

NoWidth == "none"
Separator == [pre |-> <<>>, of |-> <<>>, cut |-> "blank", link |-> FALSE]
IsEmpty(row) == row.pre = <<>> /\ row.cut = "blank"
Lesser(a, b) == IF a < b THEN a ELSE b
Less(a, b) == IF a < b THEN 0 ELSE a - b

Concat(seqs) ==
  LET C[k \in 0..Len(seqs)] == IF k = 0 THEN <<>> ELSE C[k - 1] \o seqs[k] IN C[Len(seqs)]
After(s, n) == SubSeq(s, n + 1, Len(s))

----------------------------------------------------------------------------
(* Rendering a block's lines.                                               *)

Literal(l, cut) == [pre |-> <<>>, of |-> <<l.at>>, link |-> FALSE,
                    cut |-> IF l.body = "blank" THEN "blank" ELSE cut]
\* A body line that begins with a tick might close its fence.
MaybeClosing(l) == l.body \in {"tick", "lang", "maybe"}
BodyRow(l) == Literal(l, IF MaybeClosing(l) THEN "ticks" ELSE "code")
\* An inline run is one logical line.
Inlines(ls, cut, links) ==
  [pre |-> <<>>, of |-> [k \in DOMAIN ls |-> ls[k].at], cut |-> cut,
   link |-> links /\ \E k \in DOMAIN ls : ls[k].body = "ref"]
Prefixed(rows, first, other) ==
  [k \in DOMAIN rows |-> [rows[k] EXCEPT !.pre = <<IF k = 1 THEN first ELSE other>> \o @]]

Closes(ls) == Len(ls) > 1 /\ Flush(ls[Len(ls)]) /\ ls[Len(ls)].body = "tick"
CodeBody(kind, ls) ==
  IF kind = "indented" THEN ls ELSE SubSeq(ls, 2, IF Closes(ls) THEN Len(ls) - 1 ELSE Len(ls))

\* A table lies flat when its rows fit; else each cell becomes a line.
Table(ls, width) ==
  LET rows == SubSeq(ls, 3, Len(ls))
      fits == width # Narrow \/ \A k \in DOMAIN ls : ls[k].body # "wide"
      Cell(l, cut) == [pre |-> <<>>, of |-> <<ls[1].at, l.at>>, cut |-> cut, link |-> FALSE] IN
    IF fits
    THEN <<Literal(ls[1], "bold"), Literal(ls[2], "divider")>>
           \o [k \in DOMAIN rows |-> Literal(rows[k], "row")]
    ELSE Concat([k \in DOMAIN rows |-> <<Cell(rows[k], "first"), Cell(rows[k], "second")>>])

\* The lines of each block within a container.
RowsOf(ls, own, Within(_, _)) ==
  [k \in DOMAIN own |-> Within(own[k].kind, Slice(ls, own[k].from, own[k].to))]
Children(ls, Within(_, _)) == RowsOf(ls, Blocks(ls), Within)

\* An item's children, one under the other, behind its marker.
Item(rows) ==
  IF rows = <<>> THEN <<[pre |-> <<"- ">>, of |-> <<>>, cut |-> "bare", link |-> FALSE]>>
  ELSE Prefixed(rows, "- ", "  ")
ItemRows(items, Within(_, _)) == [n \in DOMAIN items |-> Item(Concat(Children(items[n], Within)))]

\* A quote's children, a blank line between two of them.
Parted(rows) == [k \in DOMAIN rows |-> IF k = 1 THEN rows[k] ELSE <<Separator>> \o rows[k]]
QuoteRows(ls, Within(_, _)) ==
  Prefixed(Concat(Parted(Children(Unmarked(ls, "quote"), Within))), "> ", "> ")

\* render_content and render_group: the lines of a block of some kind.
Leaf(kind, ls, width, links) ==
  CASE kind = "paragraph" -> <<Inlines(ls, "words", links)>>
    [] kind = "heading" -> <<Inlines(SelectSeq(ls, LAMBDA l : l.body # "bar"), "heading", links)>>
    [] kind = "rule" -> <<Literal(ls[1], "rule")>>
    [] kind = "html" -> [k \in DOMAIN ls |-> Literal(ls[k], "html")]
    [] kind = "table" -> Table(ls, width)
    [] OTHER -> LET body == CodeBody(kind, ls) IN [k \in DOMAIN body |-> BodyRow(body[k])]

Nested(kind, ls, width, links, Within(_, _)) ==
  CASE kind = "quote" -> QuoteRows(ls, Within)
    [] kind = "list" -> Concat(ItemRows(Items(ls), Within))
    [] OTHER -> Leaf(kind, ls, width, links)

\* The same bound: a container within a container.
Child(width, links, kind, ls) ==
  Nested(kind, ls, width, links, LAMBDA k, in : Leaf(k, in, width, links))
Rows(kind, ls, width, links) ==
  Nested(kind, ls, width, links, LAMBDA k, in : Child(width, links, k, in))

\* How many leading lines of an open block may leave already.
AllButLast(items) == Len(Concat(SubSeq(items, 1, Len(items) - 1)))
OpenFlushable(kind, ls, rows, width, links) ==
  CASE kind \in {"heading", "indented", "rule"} -> Len(rows)
    [] kind = "list" -> AllButLast(ItemRows(Items(ls), LAMBDA k, in : Child(width, links, k, in)))
    [] OTHER -> 0

IsFence(kind) == kind \in {"fence", "code"}
FenceClosed(ls, d) == d.to > d.from /\ ls[d.to].body = "tick" /\ ~Spelt(ls[d.to], "quote")

\* The definitions the pipeline watches for: a look at the lines, not a parse.
ScanDefs(ls) == \E k \in DOMAIN ls :
  ls[k].body = "def" /\ \A m \in 1..Len(ls[k].lead) : ls[k].lead[m] \in {"two", "four"}

\* What a parse of the lines gives at a width: the drafts in order, each with
\* its content, and what the last line says of the tail.
Draft(b, ls, rows, width, links, shut) ==
  [start |-> b.from, to |-> b.to, kind |-> b.kind, rows |-> rows,
   open |-> OpenFlushable(b.kind, ls, rows, width, links), shut |-> shut]
DraftOf(b, ls, width, links, shut) == Draft(b, ls, Rows(b.kind, ls, width, links), width, links, shut)
Drafts(own, ls, width, links) ==
  [k \in DOMAIN own |->
     DraftOf(own[k], Slice(ls, own[k].from, own[k].to), width, links, FenceClosed(ls, own[k]))]
Parsed(ls, width) ==
  [drafts |-> Drafts(Blocks(ls), ls, width, Resolves(ls)),
   scan |-> ScanDefs(ls),
   blank |-> ls = <<>> \/ Blank(ls[Len(ls)])]

----------------------------------------------------------------------------
(* The cache: [blocks, pending, scan, width, final].                        *)

New == [blocks |-> <<>>, pending |-> [s \in 1..MaxLines |-> 0], scan |-> FALSE,
        width |-> NoWidth, final |-> FALSE]

\* Lines of a block behind its separator, less those that left already.
Assemble(sep, d, flushed) ==
  LET solid == {k \in DOMAIN d.rows : IsFence(d.kind) \/ ~IsEmpty(d.rows[k])}
      first == CHOOSE k \in solid : \A o \in solid : k <= o
      last == CHOOSE k \in solid : \A o \in solid : k >= o
      body == IF solid = {} THEN <<>> ELSE SubSeq(d.rows, first, last)
      kept == IF solid = {} THEN 0 ELSE Lesser(Less(d.open, first - 1), Len(body))
      led == IF sep /\ body # <<>> THEN <<Separator>> \o body ELSE body
      drop == Lesser(flushed, Len(led)) IN
    [lines |-> After(led, drop), open |-> Less(kept + Len(led) - Len(body), drop)]

\* A separator appears with a block's first content, under earlier output.
Yielded(blocks) == \E k \in DOMAIN blocks : blocks[k].flushed > 0 \/ blocks[k].lines # <<>>
Parts(b, before, content) == b.sep \/ (before /\ content /\ b.flushed = 0)

\* A slip: a dropped block forgets how much of it has left.
FaultForgetFlushed(p, from) == [p EXCEPT !.blocks = SubSeq(@, 1, from - 1)]
Drop(p, from) ==
  LET gone == {k \in from..Len(p.blocks) : p.blocks[k].flushed > 0} IN
    [p EXCEPT !.blocks = SubSeq(@, 1, from - 1),
              !.pending = [s \in DOMAIN p.pending |->
                 IF \E k \in gone : p.blocks[k].start = s
                 THEN p.blocks[CHOOSE k \in gone : p.blocks[k].start = s].flushed ELSE p.pending[s]]]

\* Everything from the first block with live lines is to be rendered again.
Invalidate(p) ==
  LET lively == {k \in DOMAIN p.blocks : p.blocks[k].lines # <<>>} IN
    IF lively = {} THEN p ELSE Drop(p, CHOOSE k \in lively : \A o \in lively : k <= o)

\* A block is closed by a later one, or by a blank line at the end, but a
\* fence by its closer.
ClosedAt(p, text, i) ==
  \/ i < Len(text.drafts)
  \/ IF IsFence(text.drafts[i].kind) THEN text.drafts[i].shut ELSE p.final \/ text.blank

RenderBlock(before, d, closed, flushed) ==
  LET sep == d.rows # <<>> /\ before
      a == Assemble(sep, d, flushed) IN
    [start |-> d.start, to |-> d.to, kind |-> d.kind, closed |-> closed, sep |-> sep,
     flushed |-> flushed, lines |-> a.lines, open |-> a.open,
     body |-> IF IsFence(d.kind) /\ ~closed THEN Len(d.rows) ELSE 0]

\* An open fence catches up with its body: new lines are appended by hand
\* under a separator put in by hand, but a body of a known language is
\* rendered whole again when a new line may be the closer.
FenceUpdate(b, before, d) ==
  LET new == After(d.rows, b.body)
      fallback == \E k \in DOMAIN new : new[k].cut = "ticks"
      sep == Parts(b, before, TRUE)
      lead == IF ~fallback /\ sep /\ b.lines = <<>> /\ b.flushed = 0 THEN <<Separator>> ELSE b.lines IN
    IF new = <<>> THEN b
    ELSE [b EXCEPT !.sep = sep, !.body = Len(d.rows),
                   !.lines = IF fallback /\ b.kind = "code" THEN Assemble(sep, d, b.flushed).lines
                             ELSE lead \o new]

UpdateBlock(b, d, closed, before) ==
  LET sep == Parts(b, before, d.rows # <<>>)
      a == Assemble(sep, d, b.flushed)
      whole == [b EXCEPT !.sep = sep, !.lines = a.lines, !.open = a.open,
                         !.body = IF IsFence(b.kind) /\ ~closed THEN Len(d.rows) ELSE 0]
      grown == IF IsFence(b.kind) /\ ~b.closed THEN FenceUpdate(b, before, d) ELSE whole IN
    [grown EXCEPT !.to = d.to, !.closed = closed]

\* Render the drafts past the cached blocks, each behind those before it.
Fill(p, text) ==
  LET Grown(q, n) == [q EXCEPT !.pending[text.drafts[n].start] = 0,
        !.blocks = Append(@, RenderBlock(Yielded(q.blocks), text.drafts[n], ClosedAt(p, text, n),
                                         q.pending[text.drafts[n].start]))]
      F[n \in Len(p.blocks)..Len(text.drafts)] == IF n = Len(p.blocks) THEN p ELSE Grown(F[n - 1], n) IN
    IF Len(text.drafts) > Len(p.blocks) THEN F[Len(text.drafts)] ELSE p

Same(b, d) == b.start = d.start /\ b.to = d.to /\ b.kind = d.kind
Matched(blocks, drafts) ==
  Cardinality({k \in 1..Lesser(Len(blocks), Len(drafts)) : \A o \in 1..k : Same(blocks[o], drafts[o])})

\* The clean prefix stays, the tail may grow in place, the rest is rendered.
Reconcile(p, text) ==
  LET clean == Matched(p.blocks, text.drafts)
      n == clean + 1
      kept == [k \in 1..clean |-> [p.blocks[k] EXCEPT !.closed = ClosedAt(p, text, k)]]
      closed == [p EXCEPT !.blocks = kept \o After(@, clean)]
      grows == /\ n = Len(p.blocks) /\ n <= Len(text.drafts)
               /\ p.blocks[n].start = text.drafts[n].start /\ p.blocks[n].kind = text.drafts[n].kind
      tail == UpdateBlock(p.blocks[n], text.drafts[n], ClosedAt(p, text, n), Yielded(kept))
  IN Fill(IF grows THEN [closed EXCEPT !.blocks[n] = tail] ELSE Drop(closed, n), text)

\* A slip: a definition that arrives leaves what is on view as it was.
FaultIgnoreDefinitions(p, text, width) ==
  LET sized == IF p.width \notin {width, NoWidth} THEN Invalidate(p) ELSE p IN
    Reconcile([sized EXCEPT !.width = width, !.scan = text.scan], text)

\* One pass over the committed lines at a width.
Render(p, text, width) ==
  LET sized == IF p.width \notin {width, NoWidth} THEN Invalidate(p) ELSE p
      fresh == IF text.scan # p.scan THEN Invalidate(sized) ELSE sized IN
    Reconcile([fresh EXCEPT !.width = width, !.scan = text.scan], text)

\* The source is complete: every open unit closes at the next render.
Finalize(p) == Invalidate([p EXCEPT !.final = TRUE])

\* How many leading lines of a block are stable.
Flushable(b, final) ==
  LET live == Len(b.lines) - (IF b.sep /\ b.flushed = 0 THEN 1 ELSE 0)
      held == live > 0 /\ b.lines[Len(b.lines)].cut = "ticks" IN
    IF b.closed \/ final THEN Len(b.lines)
    ELSE IF IsFence(b.kind) THEN Len(b.lines) - (IF held THEN 1 ELSE 0)
    ELSE Lesser(b.open, Len(b.lines))

LiveLines(p) == Concat([k \in DOMAIN p.blocks |-> p.blocks[k].lines])
FlushableLen(p) ==
  LET F[k \in 1..Len(p.blocks) + 1] ==
        IF k > Len(p.blocks) THEN 0
        ELSE LET n == Flushable(p.blocks[k], p.final) IN
               IF n < Len(p.blocks[k].lines) THEN n ELSE n + F[k + 1] IN F[1]

RECURSIVE Acked(_, _, _)
\* The first n live lines, from block k on, have reached the scrollback.
Acked(blocks, k, n) ==
  IF n = 0 \/ k > Len(blocks) THEN blocks
  ELSE LET take == Lesser(n, Len(blocks[k].lines)) IN
         Acked([blocks EXCEPT ![k].lines = After(@, take), ![k].flushed = @ + take,
                              ![k].open = Less(@, take)], k + 1, n - take)
Ack(p, n) == [p EXCEPT !.blocks = Acked(@, 1, n)]

\* A one-shot render of a complete source.
Document(ls, width) == LiveLines(Render(Finalize(New), Parsed(ls, width), width))
=============================================================================
