---------------------------- MODULE InlineShell ----------------------------
(***************************************************************************)
(* The inline shell: it owns the rectangle of the band at the foot of the  *)
(* transcript, inserts transcript rows above it, and keeps both right      *)
(* while the terminal is resized under it.  Rows are numbers: the source   *)
(* line they show, below zero for what the user's shell printed before.    *)
(* The split of the band among its widgets is here too (layout.rs).        *)
(*                                                                         *)
(* term is the terminal, which is not the program's: its rows, its         *)
(* scrollback (blank rows left out) and what it does with its rows when it *)
(* is resized.  An anchoring terminal keeps its rows where they are; a     *)
(* restoring one brings rows back from the scrollback when it grows, and   *)
(* drops rows that leave a scrolling region smaller than the screen.  Both *)
(* drop what is below the bottom edge of a screen that gets shorter.       *)
(***************************************************************************)
EXTENDS Integers, Sequences, FiniteSets, SequencesExt

CONSTANTS
  ShellRows,   \* what was on screen before
  ComposerMaxRows,
  ApprovalMaxRows

VARIABLES
  term,      \* [back, rows, wrap, class, cut]
  shell      \* [top, height, requested, rows, wrap, width, replay, refit]

Blank == 0
BandRow == -100

Least(a, b) == IF a < b THEN a ELSE b
Most(a, b) == IF a > b THEN a ELSE b
Minus(a, b) == Most(a - b, 0)

Blanks(n) == [i \in 1 .. n |-> Blank]
Written(rows) == SelectSeq(rows, LAMBDA r : r # Blank)
NewestRows(rows, n) == SubSeq(rows, Minus(Len(rows), n) + 1, Len(rows))

----------------------------------------------------------------------------
(* How the band's rows are split among its widgets: the receiving row, the *)
(* approval section, the run status, the composer and the status line,     *)
(* from top to bottom.                                                     *)

\* Either section takes half the screen, rounded up, and a row always.
SectionCap(max, screen) == Most(Least(max, (screen + 1) \div 2), 1)

\* Each widget gets its rows from what those before it left: the dialog
\* first, then the composer, the run status, the status line, and the
\* receiving row last.
Layout(screen, receiving, approval, status, composer) ==
  LET wanted == [approval  |-> Least(approval, SectionCap(ApprovalMaxRows, screen)),
                 composer  |-> Least(composer, SectionCap(ComposerMaxRows, screen)),
                 status    |-> Least(status, 1),
                 line      |-> IF screen >= 2 THEN 1 ELSE 0,
                 receiving |-> Least(receiving, 1)]
      height == Least(wanted.approval + wanted.composer + wanted.status + wanted.line
                         + wanted.receiving, screen)
      a == Least(wanted.approval, height)
      c == Least(wanted.composer, height - a)
      s == Least(wanted.status, height - a - c)
      l == Least(wanted.line, height - a - c - s)
  IN  IF screen = 0
        THEN [height |-> 0, slack |-> 0, receiving |-> 0, approval |-> 0, status |-> 0,
              composer |-> 0, line |-> 0]
        ELSE [height |-> height, slack |-> 0, approval |-> a, composer |-> c, status |-> s,
              line |-> l, receiving |-> Least(wanted.receiving, height - a - c - s - l)]

\* Held at a floor, the band is padded at its top.
HeldAt(split, floor) ==
  IF floor > split.height
    THEN [split EXCEPT !.height = floor, !.slack = floor - split.height]
    ELSE split

NoFloor == -1
Floored(floor, split) == IF floor = NoFloor THEN split ELSE HeldAt(split, floor)

\* The row of the band, from 0, where a widget starts.
ApprovalAt(split) == split.slack + split.receiving
ComposerAt(split) == ApprovalAt(split) + split.approval + split.status

\* What is left of rows that start at `at' in a band of some height: the
\* rest is clipped.
Shown(at, rows, height) == Most(Least(rows, height - at), 0)

----------------------------------------------------------------------------
(* The terminal.                                                            *)

Bottom(t) == Len(t.rows)

\* n lines scroll out at the top of the region of the first `edge' rows.
ScrollUp(t, edge, n) ==
  LET gone == Least(n, edge)
      kept == edge = Bottom(t) \/ t.class = "anchoring"
  IN  [t EXCEPT
        !.rows = SubSeq(t.rows, gone + 1, edge) \o Blanks(gone) \o SubSeq(t.rows, edge + 1, Bottom(t)),
        !.back = IF kept THEN t.back \o Written(SubSeq(t.rows, 1, gone)) ELSE t.back]

ClearBelow(t, top) ==
  [t EXCEPT !.rows = SubSeq(t.rows, 1, Least(top, Bottom(t))) \o Blanks(Minus(Bottom(t), top))]

\* cut keeps what the terminal itself dropped.
Resized(t, rows, wrap) ==
  LET grow  == IF t.class = "restoring" THEN Minus(rows, Bottom(t)) ELSE 0
      back  == Least(grow, Len(t.back))
      all   == Blanks(grow - back) \o NewestRows(t.back, back) \o t.rows
      shown == SubSeq(all, 1, Least(rows, Len(all)))
  IN  [t EXCEPT !.wrap = wrap,
                !.cut = t.cut \cup ToSet(SubSeq(all, rows + 1, Len(all))),
                !.back = SubSeq(t.back, 1, Len(t.back) - back),
                !.rows = shown \o Blanks(rows - Len(shown))]

----------------------------------------------------------------------------
(* Raw history writes.                                                      *)

\* Full-screen scrolling for a terminal whose partial margins lose rows.
FullScreen(t) == t.class = "restoring"

ScrollHistory(t, edge, n) ==
  IF ~FullScreen(t) /\ edge > 1
    THEN ScrollUp(t, edge, n)
    ELSE ScrollUp(ClearBelow(t, edge), Bottom(t), n)

\* New rows go above the band, first into the blank rows below it; what no
\* longer fits leaves at the top.
InsertRows(t, top, height, rows) ==
  LET pushed == Least(Len(rows), Minus(Bottom(t), top + height))
      edge   == top + pushed
      full   == FullScreen(t) \/ edge < 2
      region == IF full THEN Bottom(t) ELSE edge
      long   == SubSeq(t.rows, 1, top) \o rows \o (IF full THEN Blanks(height) ELSE <<>>)
      gone   == Minus(Len(long), region)
      kept   == full \/ t.class = "anchoring"
      shown  == NewestRows(long, region)
  IN  [t EXCEPT !.rows = shown \o Blanks(Bottom(t) - Len(shown)),
                !.back = IF kept THEN t.back \o Written(SubSeq(long, 1, gone)) ELSE t.back]

----------------------------------------------------------------------------
(* The shell.  Its operations take the world w: the terminal and the shell. *)
(* One that writes rows of history ends at the write: the terminal may be   *)
(* resized before the shell asks for its size again.                        *)

World == [t |-> term, s |-> shell]

Clamp(desired, rows) == Least(Most(desired, 1), Most(rows, 1))

Install(w, top, height) == [w EXCEPT !.s.top = top, !.s.height = height]

FaultKeepImage(w) == w

ClearBand(w) == [w EXCEPT !.t = ClearBelow(w.t, w.s.top)]

\* Fit the band to the terminal's size; what a replay still owes is noted.
Fit(w, rows, wrap) ==
  LET s       == w.s
      height  == Clamp(s.requested, rows)
      limit   == Minus(rows, height)
      grow    == Minus(rows, s.rows)
      glued   == s.top >= Minus(s.rows, Clamp(s.requested, s.rows))
      follows == IF FullScreen(w.t) \/ glued THEN s.top + grow ELSE s.top
      top     == Least(follows, limit)
      edge    == IF grow > 0 /\ FullScreen(w.t) THEN follows ELSE Least(s.top, rows)
      moved   == Minus(edge, top)
      erased  == IF grow > 0 /\ ~FullScreen(w.t) /\ top > s.top THEN ClearBelow(w.t, s.top) ELSE w.t
      scrolled == IF moved > 0 THEN ScrollHistory(erased, edge, moved) ELSE erased
      noted   == [s EXCEPT !.replay = s.replay \/ wrap > s.wrap,
                           !.refit = s.refit \/ grow > 0,
                           !.rows = rows, !.wrap = wrap]
  IN  IF <<rows, wrap>> = <<s.rows, s.wrap>> THEN w
      ELSE ClearBand(Install([t |-> scrolled, s |-> noted], top, height))

Sync(w) == Fit(w, Bottom(w.t), w.t.wrap)

Draw(w) ==
  LET f == Sync(w) IN
  [f EXCEPT !.t.rows = [i \in 1 .. Bottom(f.t) |->
                          IF i \in f.s.top + 1 .. f.s.top + f.s.height THEN BandRow ELSE f.t.rows[i]]]

\* The raw write: rows go above the band, which the terminal may outrun.
InsertHistory(w, rows) ==
  LET s   == w.s
      top == Least(s.top, Minus(s.rows, s.height))
      in  == [w EXCEPT !.t = InsertRows(ClearBelow(w.t, top), top, s.height, rows)]
  IN  Install(in, top + Least(Len(rows), Minus(s.rows, top + s.height)), s.height)

\* After a raw write the band is fitted to whatever the terminal is by now.
Refit(w) == ClearBand(Sync(w))

\* The rows some lines take.
RowsOfLines(from, to, wrap) ==
  [i \in 1 .. (to - from + 1) * wrap |-> from + (i - 1) \div wrap]

NeedsHeight(w, desired) == Clamp(desired, Bottom(w.t)) # Clamp(w.s.requested, Bottom(w.t))

\* A taller band takes blank rows below it, then rows of the transcript,
\* which scroll away; a shorter one keeps its top.
SetHeight(w, desired) ==
  LET f      == Sync(w)
      target == Clamp(desired, f.s.rows)
      top    == Least(f.s.top, Minus(f.s.rows, target))
      clear  == ClearBand(f)
      scrolled == [clear EXCEPT !.t = IF f.s.top > top
                                        THEN ScrollHistory(clear.t, f.s.top, f.s.top - top)
                                        ELSE clear.t]
  IN  Install([scrolled EXCEPT !.s.requested = target], top, target)

\* The settled resize.  After a narrower or a taller screen the window is
\* saved into the scrollback and cleared; the newest source lines refill it.
Fitted(w, size) == Fit(w, size[1], size[2])

Owed(w, size) ==
  \/ size[2] > w.s.width \/ w.s.replay \/ size[2] > w.s.wrap
  \/ size[1] > w.s.rows \/ w.s.refit

FaultClearWindow(w, rows) ==
  ClearBand(Install([w EXCEPT !.t = ClearBelow(w.t, 0)], 0, Clamp(w.s.requested, rows)))

SaveWindow(w, rows) ==
  LET saved == IF w.s.top > 0 THEN ScrollHistory(w.t, w.s.top, w.s.top) ELSE w.t
  IN  ClearBand(Install([w EXCEPT !.t = ClearBelow(saved, 0)], 0, Clamp(w.s.requested, rows)))

Replayed(w, size, last) ==
  NewestRows(RowsOfLines(1, last, size[2]), Minus(size[1], w.s.requested))

Paid(w, wrap) == [w EXCEPT !.s.width = wrap, !.s.replay = FALSE, !.s.refit = FALSE]

\* The band is reserved at the cursor, under what is on screen already.
Boot(class, rows, wrap, height) ==
  LET top == Least(Len(ShellRows), Minus(rows, height))
  IN  /\ term = [class |-> class, wrap |-> wrap, cut |-> {},
                 back |-> SubSeq(ShellRows, 1, Len(ShellRows) - top),
                 rows |-> NewestRows(ShellRows, top) \o Blanks(rows - top)]
      /\ shell = [top |-> top, height |-> height, requested |-> height, rows |-> rows,
                  wrap |-> wrap, width |-> wrap, replay |-> FALSE, refit |-> FALSE]
=============================================================================
