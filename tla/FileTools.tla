----------------------------- MODULE FileTools -----------------------------
(***************************************************************************)
(* What the coding tools compute from a file's bytes: the windows of       *)
(* read_file, the replacements of edit_file, the preview lines and the     *)
(* footers of grep, the capped listing of list_dir.                         *)
(*                                                                         *)
(* A text is a sequence of bytes.  The bytes that matter are told apart:   *)
(* "nl" and "cr", "e1" "e2" (the two bytes of one character), "bad" (a     *)
(* byte no UTF-8 text holds), "nul"; any other byte stands for itself.     *)
(***************************************************************************)
EXTENDS Integers, Sequences, SequencesExt, FiniteSetsExt, TLC

CONSTANTS
    MaxLine,     \* MAX_LINE_BYTES of read_file
    MaxOutput,   \* MAX_OUTPUT_BYTES of read_file
    MarkBytes,   \* length of the marker a cut line carries
    MaxMatches,  \* MAX_GREP_MATCHES
    MaxPreview,  \* MAX_GREP_LINE_BYTES
    MaxFile,     \* MAX_GREP_FILE_BYTES
    ReadFill,    \* what the searcher of grep reads at a time
    MaxEntries   \* MAX_LIST_ENTRIES

\* A line that is not cut by its own guard fits an empty window, and every
\* shown line costs its newline.
ASSUME ToolBounds ==
    /\ MaxLine \in Nat \ {0} /\ MaxOutput > MaxLine /\ MarkBytes \in Nat
    /\ MaxMatches \in Nat \ {0} /\ MaxPreview \in Nat \ {0}
    /\ MaxFile \in Nat /\ ReadFill \in Nat \ {0} /\ MaxEntries \in Nat

----------------------------------------------------------------------------
\* Bytes and characters.

IsUtf8(s) ==
    \A i \in 1..Len(s) :
        /\ s[i] # "bad"
        /\ s[i] = "e1" => i < Len(s) /\ s[i + 1] = "e2"
        /\ s[i] = "e2" => i > 1 /\ s[i - 1] = "e1"

\* The longest head of s within n bytes that ends between two characters.
HeadWithin(s, n) ==
    IF Len(s) <= n THEN s
    ELSE IF s[n + 1] = "e2" THEN SubSeq(s, 1, n - 1) ELSE SubSeq(s, 1, n)

\* One trailing newline goes, and one carriage return before it.
TrimLineEnd(s) ==
    IF s = <<>> \/ Last(s) # "nl" THEN s
    ELSE IF Len(s) > 1 /\ s[Len(s) - 1] = "cr" THEN SubSeq(s, 1, Len(s) - 2)
    ELSE Front(s)

----------------------------------------------------------------------------
\* read_file.

\* The lines of a file, each with the newline that ends it.
Lines(s) ==
    LET stop(i) == LET stops == {j \in i..Len(s) : s[j] = "nl"}
                   IN  IF stops = {} THEN Len(s) ELSE Min(stops)
        from[i \in 1..Len(s) + 1] ==
            IF i > Len(s) THEN <<>> ELSE <<SubSeq(s, i, stop(i))>> \o from[stop(i) + 1]
    IN  from[1]

\* A cut that is not told.
FaultForgetCut(line) == [raw |-> SubSeq(line, 1, Min({Len(line), MaxLine + 1})), oversized |-> FALSE]

\* read_physical_line: at most MaxLine + 1 bytes are kept, the rest of the
\* line is drained.
PhysicalLine(line) ==
    [raw |-> SubSeq(line, 1, Min({Len(line), MaxLine + 1})),
     oversized |-> Len(line) > MaxLine + 1]

\* The text of one line of the window: a character the guard split is left
\* out, other invalid bytes fail the call.
Incomplete(line) == line.oversized /\ Last(line.raw) = "e1" /\ IsUtf8(Front(line.raw))
IsText(line) == IsUtf8(line.raw) \/ Incomplete(line)
LineText(line) ==
    IF IsUtf8(line.raw) THEN TrimLineEnd(line.raw) ELSE Front(line.raw)

EmptyWindow ==
    [lines |-> <<>>, bytes |-> 0, at |-> 0, resume |-> 0, stopped |-> FALSE, fails |-> FALSE]

\* One turn of the window loop, for a line the file has.  `resume` is the
\* offset the footer names; a line the output cap cuts is shown in part and
\* is itself where reading resumes.
WindowStep(w, line, offset, limit) ==
    LET text == LineText(line)
        shown == Len(text) + (IF line.oversized THEN MarkBytes ELSE 0)
        budget == MaxOutput - w.bytes
        head == HeadWithin(text, budget)
    IN  CASE w.stopped \/ w.fails -> w
          [] Len(w.lines) >= limit \/ w.bytes >= MaxOutput ->
               [w EXCEPT !.stopped = TRUE, !.resume = w.at + 1]
          [] w.at + 1 < offset -> [w EXCEPT !.at = w.at + 1]
          [] ~IsText(line) -> [w EXCEPT !.fails = TRUE]
          [] Len(text) > budget ->
               [w EXCEPT !.stopped = TRUE, !.resume = w.at + 1, !.at = w.at + 1,
                         !.lines = IF head = <<>> THEN w.lines
                                   ELSE Append(w.lines, [text |-> head, cut |-> "page"])]
          [] OTHER ->
               [w EXCEPT !.at = w.at + 1, !.bytes = w.bytes + shown + 1,
                         !.lines = Append(w.lines,
                            [text |-> text, cut |-> IF line.oversized THEN "line" ELSE "no"])]

\* The page a call returns.  `total` is told only when the end of the file
\* was seen; `resume` = 0 when the footer names no offset.
ReadWindow(s, offset, limit) ==
    LET w == FoldLeft(LAMBDA acc, line : WindowStep(acc, PhysicalLine(line), offset, limit),
                      EmptyWindow, Lines(s))
    IN  [ok |-> ~w.fails, lines |-> w.lines, resume |-> w.resume,
         total |-> IF w.stopped THEN -1 ELSE w.at]

----------------------------------------------------------------------------
\* edit_file.

Occurs(s, old, i) == i + Len(old) - 1 <= Len(s) /\ SubSeq(s, i, i + Len(old) - 1) = old

\* str::matches: occurrences from the left that do not overlap.
MatchCount(s, old) ==
    LET from[i \in 1..Len(s) + Len(old)] ==
            IF i > Len(s) THEN 0
            ELSE IF Occurs(s, old, i) THEN 1 + from[i + Len(old)] ELSE from[i + 1]
    IN  from[1]

ReplaceFirst(s, old, new) ==
    LET at == CHOOSE i \in 1..Len(s) : Occurs(s, old, i) /\ \A j \in 1..i - 1 : ~Occurs(s, old, j)
    IN  SubSeq(s, 1, at - 1) \o new \o SubSeq(s, at + Len(old), Len(s))

\* One edit of the batch on the text in memory.
EditStep(e, edit) ==
    IF e.ok /\ edit.old # <<>> /\ edit.old # edit.new /\ MatchCount(e.text, edit.old) = 1
    THEN [e EXCEPT !.text = ReplaceFirst(e.text, edit.old, edit.new)]
    ELSE [e EXCEPT !.ok = FALSE]

ApplyEdits(s, edits) == FoldLeft(EditStep, [ok |-> TRUE, text |-> s], edits)

----------------------------------------------------------------------------
\* grep and list_dir.

\* A file given up on in the middle that nobody counts.
FaultUncounted(s, byte, room) == [hits |-> <<>>, binary |-> "nul" \in ToSet(s)]

\* How far a file is searched: a NUL ends the search where the read that
\* brought it began.
Searchable(s) ==
    LET nuls == {i \in 1..Len(s) : s[i] = "nul"}
    IN  IF nuls = {} THEN Len(s) ELSE ((Min(nuls) - 1) \div ReadFill) * ReadFill

\* The hits of one file up to the room left, the pattern a byte the line must
\* hold.  A matched line that is no text ends the file's search, and so do the
\* last hit there is room for and a NUL; what was found before stands.
GrepFile(s, byte, room) ==
    LET lines == Lines(s)
        searched(n) == Len(FlattenSeq(SubSeq(lines, 1, n))) <= Searchable(s)
        hits == SelectSeq([n \in 1..Len(lines) |-> n],
                          LAMBDA n : searched(n) /\ byte \in ToSet(lines[n]))
        bad == {k \in 1..Len(hits) : ~IsUtf8(lines[hits[k]])}
        clean == IF bad = {} THEN Len(hits) ELSE Min(bad) - 1
        preview(n) == LET text == TrimLineEnd(lines[n])
                      IN  [line |-> n, text |-> HeadWithin(text, MaxPreview),
                           cut |-> Len(text) > MaxPreview]
    IN  [hits |-> [k \in 1..Min({clean, room}) |-> preview(hits[k])],
         binary |-> clean < room /\ (bad # {} \/ Searchable(s) < Len(s))]

\* One file of the walk, in path order: a file over the size cap is counted,
\* the file in which the matches reach their cap is named and ends the walk.
GrepStep(g, file, byte) ==
    LET found == GrepFile(file.text, byte, MaxMatches - Len(g.hits))
        hits == g.hits \o [k \in 1..Len(found.hits) |-> [path |-> file.path] @@ found.hits[k]]
    IN  CASE g.stopped # <<>> -> g
          [] Len(file.text) > MaxFile -> [g EXCEPT !.large = g.large + 1]
          [] OTHER -> [g EXCEPT !.hits = hits,
                                !.binary = IF found.binary THEN g.binary + 1 ELSE g.binary,
                                !.stopped = IF Len(hits) >= MaxMatches THEN <<file.path>> ELSE <<>>]

Grep(files, byte) ==
    FoldLeft(LAMBDA g, file : GrepStep(g, file, byte),
             [hits |-> <<>>, binary |-> 0, large |-> 0, stopped |-> <<>>], files)

\* The entries of one level, sorted by name, at most MaxEntries of them;
\* the footer tells how many there are when some are left out.
ListDir(entries) ==
    [shown |-> SubSeq(entries, 1, Min({Len(entries), MaxEntries})),
     total |-> IF Len(entries) > MaxEntries THEN Len(entries) ELSE 0]
=============================================================================
