----------------------------- MODULE TextField -----------------------------
(***************************************************************************)
(* What the prompt editor promises, with no lines, columns or rows: one    *)
(* text, a caret and perhaps a mark in it, and the texts Undo returns to.  *)
(* Every edit replaces one stretch of the text at the caret, and an edit   *)
(* that carries on a run of its kind is no undo unit of its own.           *)
(* Terminal's editor implements this module.                               *)
(***************************************************************************)
EXTENDS Integers, Sequences

CONSTANTS
  Strokes,   \* the texts one key press types
  Pastes,    \* the texts that come whole: a paste, a new line
  NoMark     \* no selection was started

VARIABLES text, caret, mark, past, joining

fieldVars == <<text, caret, mark, past, joining>>

Offsets == 0 .. Len(text)

Selecting == mark # NoMark /\ mark # caret

\* The newest unit always stays; the oldest may be forgotten.
Remember ==
  LET all == Append(past, [text |-> text, caret |-> caret])
  IN  \E k \in 1 .. Len(all) : past' = SubSeq(all, k, Len(all))

Between(i, j) == IF i < j THEN <<i, j>> ELSE <<j, i>>
Here == IF Selecting THEN Between(mark, caret) ELSE <<caret, caret>>

\* What an edit may take away: the selection, or else text on one side of
\* the caret, or everything.
Stretches ==
  {<<0, Len(text)>>}
    \cup IF Selecting THEN {Here}
         ELSE {<<from, caret>> : from \in 0 .. caret} \cup {<<caret, to>> : to \in caret .. Len(text)}

\* The stretch gives way to `new'; more of a run of one kind is no new unit.
Replace(stretch, new, kind) ==
  /\ caret' = stretch[1] + Len(new)
  /\ text' = SubSeq(text, 1, stretch[1]) \o new \o SubSeq(text, stretch[2] + 1, Len(text))
  /\ mark' = NoMark
  /\ joining' = kind
  /\ IF kind # "none" /\ joining = kind /\ ~Selecting THEN past' = past ELSE Remember

Insert ==
  \/ \E s \in Strokes : Replace(Here, s, "insert")
  \/ \E s \in Pastes : Replace(Here, s, "none")

Delete ==
  \E stretch \in Stretches :
    \/ Replace(stretch, <<>>, "none")
    \/ ~Selecting /\ stretch[1] < caret /\ stretch[2] = caret /\ Replace(stretch, <<>>, "backspace")

Move(to, extending) ==
  /\ to \in Offsets
  /\ caret' = to
  /\ mark' = IF extending THEN IF mark = NoMark THEN caret ELSE mark ELSE NoMark
  /\ joining' = "none"
  /\ UNCHANGED <<text, past>>

\* A deletion with nothing to delete still forgets where a selection began.
Unmark == ~Selecting /\ mark' = NoMark /\ UNCHANGED <<text, caret, past, joining>>

Undo ==
  /\ past # <<>>
  /\ text' = past[Len(past)].text
  /\ caret' = past[Len(past)].caret
  /\ mark' = NoMark
  /\ past' = SubSeq(past, 1, Len(past) - 1)
  /\ joining' = "none"

Init ==
  /\ text = <<>>
  /\ caret = 0
  /\ mark = NoMark
  /\ past = <<>>
  /\ joining = "none"

Next ==
  \/ Insert
  \/ Delete
  \/ \E to \in Offsets, extending \in BOOLEAN : Move(to, extending)
  \/ Unmark
  \/ Undo

Spec == Init /\ [][Next]_fieldVars
=============================================================================
