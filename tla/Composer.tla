------------------------------ MODULE Composer ------------------------------
(***************************************************************************)
(* The multiline prompt editor.  The buffer is lines of characters and the *)
(* cursor a line and a column; a mark combines with the character before   *)
(* it, so the places the cursor moves between are the borders of such      *)
(* clusters.  Characters are members of small classes: what matters of     *)
(* one is whether it belongs to a word, combines, or is two cells wide.    *)
(***************************************************************************)
EXTENDS Integers, Sequences, FiniteSets, SequencesExt

CONSTANTS
  WordChars,     \* alphanumeric characters
  Marks,         \* combining marks: no cell of their own
  WideChars,     \* characters two cells wide
  Tab,           \* what a tab expands to
  Gutter,        \* columns of the prompt prefix
  MaxUndoUnits,
  MaxUndoSize    \* bound on the characters the undo stack holds

VARIABLES lines, cursor, anchor, preferred, undo, undoSize, run, scroll

composerVars == <<lines, cursor, anchor, preferred, undo, undoSize, run, scroll>>

NoPos == <<0, 0>>
NoCol == -1
Newline == "\n"

SumOf(f(_), s) ==
  LET sum[i \in 0 .. Len(s)] == IF i = 0 THEN 0 ELSE sum[i - 1] + f(s[i])
  IN  sum[Len(s)]
LeastOf(S) == CHOOSE x \in S : \A y \in S : x <= y
GreatestOf(S) == CHOOSE x \in S : \A y \in S : y <= x

\* Marks take no cell and wide characters two.
DisplayCol(line, col) ==
  Cardinality({i \in 1 .. col : line[i] \notin Marks}) + Cardinality({i \in 1 .. col : line[i] \in WideChars})

----------------------------------------------------------------------------
(* Clusters and positions.                                                  *)

\* The columns between clusters, the two ends included.
Borders(line) ==
  {0, Len(line)} \cup {i \in 1 .. Len(line) - 1 : line[i + 1] \notin Marks}

PrevBorder(line, col) == GreatestOf({0} \cup {b \in Borders(line) : b < col})
NextBorder(line, col) == LeastOf({Len(line)} \cup {b \in Borders(line) : b > col})

ColAtWidth(line, width) == GreatestOf({b \in Borders(line) : DisplayCol(line, b) <= width})

Before(p, q) == p[1] < q[1] \/ (p[1] = q[1] /\ p[2] < q[2])

TextOf(ls) ==
  LET text[i \in 1 .. Len(ls)] == IF i = 1 THEN ls[1] ELSE text[i - 1] \o <<Newline>> \o ls[i]
  IN  text[Len(ls)]

OffsetOf(ls, pos) == SumOf(LAMBDA l : Len(l) + 1, SubSeq(ls, 1, pos[1] - 1)) + pos[2]

PosOf(ls, offset) ==
  CHOOSE p \in (1 .. Len(ls)) \X (0 .. offset) : p[2] <= Len(ls[p[1]]) /\ OffsetOf(ls, p) = offset

----------------------------------------------------------------------------
(* The buffer's own operations.                                             *)

\* Lines 1-based, columns counted from 0, as in the cursor.
DeleteRange(ls, from, to) ==
  SubSeq(ls, 1, from[1] - 1)
    \o <<SubSeq(ls[from[1]], 1, from[2]) \o SubSeq(ls[to[1]], to[2] + 1, Len(ls[to[1]]))>>
    \o SubSeq(ls, to[1] + 1, Len(ls))

\* text, already filtered, split at its newlines.
Parts(text) ==
  FoldLeft(LAMBDA ps, c : IF c = Newline
                            THEN Append(ps, <<>>)
                            ELSE Append(Front(ps), Append(Last(ps), c)),
           <<<<>>>>, text)

InsertText(ls, pos, text) ==
  LET line  == ls[pos[1]]
      parts == Parts(text)
      n     == Len(parts)
      head  == SubSeq(line, 1, pos[2])
      tail  == SubSeq(line, pos[2] + 1, Len(line))
      first == [parts EXCEPT ![1] = head \o parts[1]]
  IN  [lines  |-> SubSeq(ls, 1, pos[1] - 1)
                    \o [first EXCEPT ![n] = first[n] \o tail]
                    \o SubSeq(ls, pos[1] + 1, Len(ls)),
       cursor |-> <<pos[1] + n - 1, Len(first[n])>>]

\* Carriage returns end lines, with or without a line feed; tabs become
\* spaces and other control characters go.
FilterInsert(raw) ==
  LET keep(i) ==
        CASE raw[i] = "\r" -> <<Newline>>
          [] raw[i] = Newline -> IF i > 1 /\ raw[i - 1] = "\r" THEN <<>> ELSE <<Newline>>
          [] raw[i] = "\t" -> Tab
          [] raw[i] = "ctrl" -> <<>>
          [] OTHER -> <<raw[i]>>
  IN  FlattenSeq([i \in 1 .. Len(raw) |-> keep(i)])

----------------------------------------------------------------------------
(* Where the cursor may go.                                                 *)

Line == lines[cursor[1]]
Col == cursor[2]
EndOf(ls, i) == <<i, Len(ls[i])>>

LeftPos ==
  CASE Col > 0 -> <<cursor[1], PrevBorder(Line, Col)>>
    [] Col = 0 /\ cursor[1] > 1 -> EndOf(lines, cursor[1] - 1)
    [] OTHER -> cursor

RightPos ==
  CASE Col < Len(Line) -> <<cursor[1], NextBorder(Line, Col)>>
    [] Col = Len(Line) /\ cursor[1] < Len(lines) -> <<cursor[1] + 1, 0>>
    [] OTHER -> cursor

Wanted == IF preferred = NoCol THEN DisplayCol(Line, Col) ELSE preferred

UpPos ==
  IF cursor[1] = 1 THEN <<1, 0>>
  ELSE <<cursor[1] - 1, ColAtWidth(lines[cursor[1] - 1], Wanted)>>

DownPos ==
  IF cursor[1] = Len(lines) THEN EndOf(lines, cursor[1])
  ELSE <<cursor[1] + 1, ColAtWidth(lines[cursor[1] + 1], Wanted)>>

\* Offsets at which a cluster of text starts; a newline combines with nothing.
Starts(text) ==
  {i \in 0 .. Len(text) - 1 : i = 0 \/ text[i] = Newline \/ text[i + 1] \notin Marks}

IsWordAt(text, i) == text[i + 1] \in WordChars

\* Back over separators, then over the word before them.
WordLeftPos ==
  LET text   == SubSeq(TextOf(lines), 1, OffsetOf(lines, cursor))
      starts == Starts(text)
      words  == {i \in starts : IsWordAt(text, i)}
      end    == GreatestOf(words)
  IN  IF words = {} THEN <<1, 0>>
      ELSE PosOf(lines, LeastOf({i \in words : \A j \in starts : i <= j /\ j <= end => j \in words}))

\* Forward over separators, then over the word after them.
WordRightPos ==
  LET offset == OffsetOf(lines, cursor)
      text   == SubSeq(TextOf(lines), offset + 1, Len(TextOf(lines)))
      starts == Starts(text)
      words  == {i \in starts : IsWordAt(text, i)}
      first  == LeastOf(words)
  IN  IF words = {} THEN EndOf(lines, Len(lines))
      ELSE PosOf(lines, offset + LeastOf({Len(text)} \cup {i \in starts \ words : i > first}))

----------------------------------------------------------------------------
(* The undo stack and edits.                                                *)

Selecting == anchor # NoPos /\ anchor # cursor
SelFrom == IF Before(anchor, cursor) THEN anchor ELSE cursor
SelTo == IF Before(anchor, cursor) THEN cursor ELSE anchor

SizeOf(ls) == SumOf(Len, ls)
UnitSizes(units) == SumOf(LAMBDA u : SizeOf(u.lines), units)

\* The oldest units go while a bound is exceeded; the newest stays.
PushUndo ==
  LET all     == Append(undo, [lines |-> lines, cursor |-> cursor])
      size(k) == undoSize + SizeOf(lines) - UnitSizes(SubSeq(all, 1, k))
      fits(k) == Len(all) - k <= MaxUndoUnits /\ size(k) <= MaxUndoSize
      evicted == LeastOf({k \in 0 .. Len(all) - 1 : fits(k) \/ k = Len(all) - 1})
  IN  /\ undo' = SubSeq(all, evicted + 1, Len(all))
      /\ undoSize' = size(evicted)

KeepUndo == UNCHANGED <<undo, undoSize>>

Cut(from, to) ==
  /\ lines' = DeleteRange(lines, from, to)
  /\ cursor' = from
  /\ anchor' = NoPos
  /\ preferred' = NoCol

\* A selection gives way to the text put.
Put(text) ==
  LET at   == IF Selecting THEN SelFrom ELSE cursor
      rest == IF Selecting THEN DeleteRange(lines, SelFrom, SelTo) ELSE lines
      done == InsertText(rest, at, text)
  IN  /\ lines' = done.lines
      /\ cursor' = done.cursor
      /\ anchor' = NoPos
      /\ preferred' = NoCol

DeleteSelection == Selecting /\ PushUndo /\ Cut(SelFrom, SelTo) /\ run' = "none"

Unanchor == anchor' = NoPos /\ UNCHANGED <<lines, cursor, preferred, undo, undoSize, run>>

Erase(from, to) ==
  \/ DeleteSelection
  \/ ~Selecting /\ from = to /\ Unanchor
  \/ ~Selecting /\ from # to /\ PushUndo /\ Cut(from, to) /\ run' = "none"

----------------------------------------------------------------------------
(* The operations.                                                          *)

Clear ==
  /\ lines # <<<<>>>> \/ anchor # NoPos
  /\ PushUndo
  /\ lines' = <<<<>>>>
  /\ cursor' = <<1, 0>>
  /\ anchor' = NoPos
  /\ preferred' = NoCol
  /\ run' = "none"

\* One cluster and no newline: a key press, which carries a run on.
Single(text) == Newline \notin Range(text) /\ Borders(text) = {0, Len(text)}

InsertStr(raw) ==
  LET text == FilterInsert(raw) IN
  /\ text # <<>>
  /\ IF Single(text) /\ run = "insert" /\ ~Selecting THEN KeepUndo ELSE PushUndo
  /\ Put(text)
  /\ run' = IF Single(text) THEN "insert" ELSE "none"

InsertNewline == PushUndo /\ Put(<<Newline>>) /\ run' = "none"

Backspace ==
  \/ DeleteSelection
  \/ ~Selecting /\ cursor = <<1, 0>> /\ Unanchor
  \/ /\ ~Selecting
     /\ cursor # <<1, 0>>
     /\ IF run = "backspace" THEN KeepUndo ELSE PushUndo
     /\ Cut(LeftPos, cursor)
     /\ run' = "backspace"

DeleteForward == Erase(cursor, RightPos)
DeleteWordBack == Erase(WordLeftPos, cursor)
DeleteWordForward == Erase(cursor, WordRightPos)

FaultMoveKeepsRun(pos, select) ==
  /\ cursor' = pos
  /\ anchor' = IF select THEN IF anchor = NoPos THEN cursor ELSE anchor ELSE NoPos
  /\ UNCHANGED <<lines, undo, undoSize, run>>

MoveTo(pos, select) ==
  /\ cursor' = pos
  /\ anchor' = CASE ~select -> NoPos
                 [] select /\ anchor = NoPos -> cursor
                 [] OTHER -> anchor
  /\ run' = "none"
  /\ UNCHANGED <<lines, undo, undoSize>>

MoveAcross(select) ==
  /\ \E pos \in {LeftPos, RightPos, WordLeftPos, WordRightPos,
                 <<cursor[1], 0>>, EndOf(lines, cursor[1])} : MoveTo(pos, select)
  /\ preferred' = NoCol

MoveAlong(select) ==
  /\ \E pos \in {UpPos, DownPos} : MoveTo(pos, select)
  /\ preferred' = Wanted

Undo ==
  /\ undo # <<>>
  /\ undo' = Front(undo)
  /\ undoSize' = undoSize - SizeOf(Last(undo).lines)
  /\ lines' = Last(undo).lines
  /\ cursor' = Last(undo).cursor
  /\ anchor' = NoPos
  /\ preferred' = NoCol
  /\ run' = "none"

----------------------------------------------------------------------------
(* Layout: lines hard-wrapped by display width, and the cursor's cell.      *)

CellsOf(line, from, to) == DisplayCol(line, to) - DisplayCol(line, from)

\* Columns at which the rows of a line start: a cluster that does not fit
\* moves to the next row whole.
RowStarts(line, width) ==
  LET start[b \in Borders(line)] ==
        LET prev == PrevBorder(line, b)
            from == start[prev]
        IN  IF b = 0 THEN 0
            ELSE IF CellsOf(line, from, b) > width /\ CellsOf(line, from, prev) > 0 THEN prev ELSE from
  IN  {start[b] : b \in Borders(line)}

\* The rows of all lines, wrapped.
RowTotal(ls, width) == SumOf(LAMBDA l : Cardinality(RowStarts(l, width)), ls)

TextWidth(width) == IF width - Gutter > 1 THEN width - Gutter ELSE 1

\* The wrapped cell of a position, rows counted from 0.  A position at the
\* end of a full row goes to the row after it; one inside a cluster is
\* never placed.
CellAt(ls, pos, width) ==
  LET line  == ls[pos[1]]
      above == {from \in RowStarts(line, width) : from <= pos[2]}
      x     == CellsOf(line, GreatestOf(above), pos[2])
      y     == RowTotal(SubSeq(ls, 1, pos[1] - 1), width) + Cardinality(above) - 1
  IN  CASE pos[2] \notin Borders(line) -> [x |-> 0, y |-> 0]
        [] pos[2] = Len(line) /\ x = width -> [x |-> 0, y |-> y + 1]
        [] OTHER -> [x |-> x, y |-> y]

RowCount(ls, pos, width) ==
  LET n == RowTotal(ls, width)
      y == CellAt(ls, pos, width).y
  IN  IF y + 1 > n THEN y + 1 ELSE n

DesiredRows(width) == RowCount(lines, cursor, TextWidth(width))

FaultScrollLate(width, height) ==
  LET y == CellAt(lines, cursor, TextWidth(width)).y
  IN  CASE y < scroll -> y [] y > scroll + height -> y + 1 - height [] OTHER -> scroll

\* Scroll no further than the cursor row asks, and never past the last row.
ScrollFor(width, height) ==
  LET y     == CellAt(lines, cursor, TextWidth(width)).y
      moved == CASE y < scroll -> y
                 [] y >= scroll + height -> y + 1 - height
                 [] OTHER -> scroll
      most  == DesiredRows(width) - height
  IN  CASE most < 0 -> 0 [] most >= 0 /\ moved > most -> most [] OTHER -> moved

----------------------------------------------------------------------------
Init ==
  /\ lines = <<<<>>>>
  /\ cursor = <<1, 0>>
  /\ anchor = NoPos
  /\ preferred = NoCol
  /\ undo = <<>>
  /\ undoSize = 0
  /\ run = "none"
  /\ scroll = 0

Inserting(raws) == \E raw \in raws : InsertStr(raw)

Editing ==
  \/ InsertNewline
  \/ Backspace
  \/ DeleteForward
  \/ DeleteWordBack
  \/ DeleteWordForward
  \/ Clear

\* Whether there is anything to send: more than blanks.
Prompted == Range(TextOf(lines)) \ {" ", Newline} # {}

Moving(selects) == \E select \in selects : MoveAcross(select) \/ MoveAlong(select)
=============================================================================
