----------------------------- MODULE MCTerminal -----------------------------
(***************************************************************************)
(* Small scenes for Terminal: what is typed, how the terminal is resized.  *)
(***************************************************************************)
EXTENDS Terminal

Cols == <<5, 4>>
Before == <<-1, -2>>
Spaces == <<" ", " ">>

Quietly == [classes |-> {"anchoring"}, sizes |-> {<<3, 1>>, <<5, 2>>}, raws |-> {}, whole |-> FALSE,
            selects |-> BOOLEAN, asks |-> FALSE, draws |-> TRUE, edits |-> 0, lines |-> 0,
            runs |-> 0, resizes |-> 0]

\* Words and blanks; a wide and a combining character; a paste of lines,
\* drawn two cells wide.
Typing == [Quietly EXCEPT !.whole = TRUE, !.draws = FALSE, !.edits = 3, !.sizes = {<<3, 2>>}]
Editors ==
  {[Typing EXCEPT !.raws = {<<"a">>, <<" ">>}],
   [Typing EXCEPT !.raws = {<<"w">>, <<"m">>}],
   [Typing EXCEPT !.raws = {<<"w">>, <<"a", "\r", "\n", "\t", "ctrl">>}, !.edits = 2,
                  !.selects = {FALSE}, !.draws = TRUE]}

\* A run over two resizes of either kind of terminal; a run that asks, over
\* one, with a prompt of two lines.
Shells ==
  {[Quietly EXCEPT !.classes = {"anchoring", "restoring"}, !.raws = {<<"a">>}, !.edits = 1,
                   !.lines = 2, !.runs = 1, !.resizes = 2],
   [Quietly EXCEPT !.sizes = {<<6, 1>>}, !.raws = {<<"a", "\n", "a">>}, !.edits = 2,
                   !.asks = TRUE, !.lines = 1, !.runs = 1, !.resizes = 1]}
AllScenes == Editors \cup Shells
=============================================================================
