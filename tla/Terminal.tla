------------------------------ MODULE Terminal ------------------------------
(***************************************************************************)
(* The foot of the screen: the prompt editor (Composer) and the shell that *)
(* keeps the band under the transcript (InlineShell), driven by the app's  *)
(* event loop.  A frame reads the editor's height, raises the run's floor, *)
(* lets rows out to the transcript, fits the band and draws; keys, pastes, *)
(* the feed and the terminal's resizes come in between.                    *)
(*                                                                         *)
(* What the feed says is TuiApp's matter: here lines complete, a dialog    *)
(* opens and closes and the run ends whenever they do.                     *)
(***************************************************************************)
EXTENDS Integers, Sequences, FiniteSets

CONSTANTS
  WordChars, Marks, WideChars, Tab, Gutter, MaxUndoUnits, MaxUndoSize,
  ComposerMaxRows, ApprovalMaxRows,
  ShellRows,
  Columns,     \* columns of the screen at which a source line takes 1, 2.. rows
  Heights,     \* rows a terminal may have
  AskRows,     \* rows of an approval dialog
  Scenes       \* what may come: [classes, sizes, raws, whole, selects, asks, draws, edits,
               \* lines, runs, resizes]: the terminal at first, the input, and bounds

ASSUME FootBounds ==
  /\ Gutter \in Nat /\ MaxUndoUnits \in Nat \ {0} /\ MaxUndoSize \in Nat
  /\ ComposerMaxRows \in Nat /\ ApprovalMaxRows \in Nat

VARIABLES
  lines, cursor, anchor, preferred, undo, undoSize, run, scroll,   \* Composer
  term, shell,                                                     \* InlineShell
  scene,
  pending,    \* the debounced size, or NoSize
  source,     \* transcript lines flushed and acknowledged
  phase,      \* [running, ending]: a run, and a run whose note has yet to land
  floor,      \* the run's high-water height, or NoFloor
  approval,   \* rows of the pending dialog
  split,      \* the band split of the frame
  step,       \* [at, lines, receiving, size]: where the handler is
  fresh,      \* nothing came in since that draw
  used        \* bound: [edits, runs, resizes] so far

editor == <<lines, cursor, anchor, preferred, undo, undoSize, run>>
world == <<term, shell>>
plan == <<source, phase, floor, approval, split>>
vars == <<editor, scroll, world, scene, pending, plan, step, fresh, used>>

Editor == INSTANCE Composer
Shell == INSTANCE InlineShell

NoSize == <<0, 0>>
NoFloor == Shell!NoFloor
Idle == [at |-> "idle", lines |-> 0, receiving |-> 0, size |-> NoSize]
Wraps == DOMAIN Columns
Size(t) == <<Shell!Bottom(t), t.wrap>>

One(b) == IF b THEN 1 ELSE 0

----------------------------------------------------------------------------
(* A frame, step by step: between two steps the terminal may be resized.    *)

Becomes(w) == term' = w.t /\ shell' = w.s

\* The split for the content, measured at the settled width.
SplitFor(receiving, status) ==
  Shell!Layout(Shell!Bottom(term), receiving, approval, status,
              Editor!DesiredRows(Columns[shell.width]))

FaultFollowContent(want) ==
  LET high == IF floor = NoFloor THEN NoFloor ELSE want.height
  IN  floor' = high /\ split' = Shell!Floored(high, want)

\* The floor rises to what the content wants and the split is held at it.
Hold(want) ==
  LET high == IF floor = NoFloor THEN NoFloor ELSE Shell!Most(floor, want.height)
  IN  floor' = high /\ split' = Shell!Floored(high, want)

\* The editor scrolls in what the band leaves of its rows.
DrawBand(w, next) ==
  LET drawn  == Shell!Draw(w)
      height == Shell!Shown(Shell!ComposerAt(split), split.composer, drawn.s.height)
  IN  /\ Becomes(drawn)
      /\ scroll' = IF height = 0 THEN scroll ELSE Editor!ScrollFor(Columns[drawn.s.wrap], height)
      /\ step' = next
      /\ UNCHANGED <<editor, scene, pending, plan, used>>

\* n lines complete.
Measure(n, receiving) ==
  /\ Hold(SplitFor(receiving, One(phase.running \/ phase.ending)))
  /\ step' = [at |-> IF n > 0 THEN "flush" ELSE "land", lines |-> n, receiving |-> receiving]
  /\ UNCHANGED <<editor, scroll, world, scene, pending, source, phase, approval, used>>

At(s) == step.at = s
Then(s) == [step EXCEPT !.at = s]

Receiving == IF phase.running THEN {0, 1} ELSE {0}

Frame ==
  /\ scene.draws
  /\ At("idle") \/ At("again")
  /\ \E n \in 0 .. IF phase.running \/ phase.ending THEN scene.lines - source ELSE 0,
        receiving \in Receiving :
       Measure(n, receiving)
  /\ fresh' = FALSE

\* Rows wrapped for the settled width are wrapped again by the screen.
Flush ==
  /\ At("flush")
  /\ LET w    == Shell!Sync(Shell!World)
         wrap == Shell!Most(w.s.width, w.s.wrap)
     IN  Becomes(Shell!InsertHistory(w, Shell!RowsOfLines(source + 1, source + step.lines, wrap)))
  /\ source' = source + step.lines
  /\ step' = Then("flushed")
  /\ UNCHANGED <<editor, scroll, scene, pending, phase, floor, approval, split, fresh, used>>

Flushed == At("flushed") /\ DrawBand(Shell!Refit(Shell!World), Then("land")) /\ UNCHANGED fresh

\* The run's note has landed with the last queued row: its row goes.
Land ==
  /\ At("land")
  /\ IF phase.ending /\ step.lines = 0 /\ step.receiving = 0
       THEN Hold(SplitFor(0, One(phase.running))) /\ phase' = [phase EXCEPT !.ending = FALSE]
       ELSE UNCHANGED <<floor, split, phase>>
  /\ step' = Then("fit")
  /\ UNCHANGED <<editor, scroll, world, scene, pending, source, approval, fresh, used>>

FitHeight ==
  /\ At("fit")
  /\ IF Shell!NeedsHeight(Shell!World, split.height)
       THEN Becomes(Shell!SetHeight(Shell!World, split.height)) /\ step' = Then("fitted")
       ELSE step' = Then("draw") /\ UNCHANGED world
  /\ UNCHANGED <<editor, scroll, scene, pending, plan, fresh, used>>

Fitted == At("fitted") /\ DrawBand(Shell!Refit(Shell!World), Then("draw")) /\ UNCHANGED fresh

DrawFrame == At("draw") /\ DrawBand(Shell!World, Idle) /\ fresh' = TRUE

----------------------------------------------------------------------------
(* The settled resize; a frame follows in the same handler.                 *)

\* The latest size is taken and the band fitted to it.  If rows have to come
\* from the source again the window is saved and its newest lines written.
OnResize ==
  /\ At("idle")
  /\ pending # NoSize
  /\ LET fit  == Shell!Fitted(Shell!World, pending)
         owed == Shell!Owed(Shell!World, pending)
         bare == Shell!SaveWindow(fit, pending[1])
         tail == Shell!Replayed(bare, pending, source)
     IN  /\ Becomes(CASE ~owed -> fit
                      [] owed /\ tail = <<>> -> bare
                      [] OTHER -> Shell!InsertHistory(bare, tail))
         /\ step' = [step EXCEPT !.at = IF owed /\ tail # <<>> THEN "refilled" ELSE "settle",
                                 !.size = pending]
  /\ pending' = NoSize
  /\ \E receiving \in Receiving :
       split' = Shell!Floored(floor, SplitFor(receiving, One(phase.running \/ phase.ending)))
  /\ fresh' = FALSE
  /\ UNCHANGED <<editor, scroll, scene, source, phase, floor, approval, used>>

Refilled ==
  /\ At("refilled")
  /\ Becomes(Shell!Refit(Shell!World))
  /\ step' = Then("settle")
  /\ UNCHANGED <<editor, scroll, scene, pending, plan, fresh, used>>

Settle ==
  /\ At("settle")
  /\ DrawBand(Shell!Paid(Shell!World, step.size[2]), [Idle EXCEPT !.at = "again"])
  /\ UNCHANGED fresh

----------------------------------------------------------------------------
(* What comes in.                                                           *)

Came ==
  /\ At("idle")
  /\ fresh' = FALSE
  /\ UNCHANGED <<scroll, world, scene, pending, source, split, step>>

Edited == used.edits < scene.edits /\ used' = [used EXCEPT !.edits = @ + 1]

Key ==
  /\ \/ Editor!Inserting(scene.raws) /\ Edited
     \/ scene.whole /\ Editor!Editing /\ Edited
     \/ scene.whole /\ (Editor!Moving(scene.selects) \/ Editor!Undo) /\ UNCHANGED used
  /\ Came
  /\ UNCHANGED <<phase, floor, approval>>

\* Enter with no run takes the prompt: the floor is the band as it stands
\* before the editor empties.
Submit ==
  /\ ~phase.running
  /\ used.runs < scene.runs
  /\ Editor!Prompted
  /\ floor' = shell.requested
  /\ phase' = [phase EXCEPT !.running = TRUE]
  /\ Editor!Clear
  /\ used' = [used EXCEPT !.runs = @ + 1]
  /\ Came
  /\ UNCHANGED approval

\* Enter or Tab during a run sends the text as a steer.
Steer ==
  /\ phase.running
  /\ Editor!Prompted
  /\ Editor!Clear
  /\ Came
  /\ UNCHANGED <<phase, floor, approval, used>>

\* The dialog opens, changes or closes; the run ends.
Ask ==
  /\ scene.asks
  /\ phase.running
  /\ approval' \in {0, AskRows} \ {approval}
  /\ Came
  /\ UNCHANGED <<editor, phase, floor, used>>

Outcome ==
  /\ phase.running
  /\ phase' = [running |-> FALSE, ending |-> TRUE]
  /\ floor' = NoFloor
  /\ approval' = 0
  /\ Came
  /\ UNCHANGED <<editor, used>>

\* The terminal is resized, also in the middle of a frame; the latest size
\* waits for the gesture to end.  What a
\* restoring terminal does when it gets shorter is not assumed.
NextSizes ==
  {size \in (Heights \X Wraps) \ {Size(term)} :
     term.class = "anchoring" \/ size[1] >= Shell!Bottom(term)}

ResizeTerminal ==
  /\ used.resizes < scene.resizes
  /\ \E size \in NextSizes : term' = Shell!Resized(term, size[1], size[2]) /\ pending' = size
  /\ used' = [used EXCEPT !.resizes = @ + 1]
  /\ fresh' = FALSE
  /\ UNCHANGED <<editor, scroll, shell, scene, plan, step>>

----------------------------------------------------------------------------
Init ==
  /\ Editor!Init
  /\ scene \in Scenes
  /\ \E class \in scene.classes, size \in scene.sizes :
       Shell!Boot(class, size[1], size[2], Shell!Layout(size[1], 0, 0, 0, 1).height)
  /\ pending = NoSize
  /\ source = 0
  /\ phase = [running |-> FALSE, ending |-> FALSE]
  /\ floor = NoFloor
  /\ approval = 0
  /\ split = Shell!Layout(0, 0, 0, 0, 0)
  /\ step = Idle
  /\ fresh = FALSE
  /\ used = [edits |-> 0, runs |-> 0, resizes |-> 0]

Next ==
  \/ Frame \/ Flush \/ Flushed \/ Land \/ FitHeight \/ Fitted \/ DrawFrame
  \/ OnResize \/ Refilled \/ Settle
  \/ Key \/ Submit \/ Steer \/ Ask \/ Outcome
  \/ ResizeTerminal

Spec == Init /\ [][Next]_vars

----------------------------------------------------------------------------
(* Properties.                                                              *)

Caret(ls, pos) == Editor!OffsetOf(ls, pos)
Filtered == {Editor!FilterInsert(raw) : raw \in UNION {s.raws : s \in Scenes}}
Strokes == {text \in Filtered : text # <<>> /\ Editor!Single(text)}

Field == INSTANCE TextField WITH
  Strokes <- Strokes,
  Pastes  <- (Filtered \ (Strokes \cup {<<>>})) \cup {<<Editor!Newline>>},
  NoMark  <- -1,
  text    <- Editor!TextOf(lines),
  caret   <- Caret(lines, cursor),
  mark    <- IF anchor = Editor!NoPos THEN -1 ELSE Caret(lines, anchor),
  past    <- [i \in DOMAIN undo |-> [text  |-> Editor!TextOf(undo[i].lines),
                                     caret |-> Caret(undo[i].lines, undo[i].cursor)]],
  joining <- run

\* The editor of lines, borders and columns is a text field with a caret
\* and a mark: every edit replaces one stretch of text at the caret or the
\* selection whole, and undo returns to a text that was there.
ImplementsTextField == Field!Spec

\* After a frame the cursor's row is among the rows of the editor that are
\* drawn, and none of those rows is spent on nothing while text is hidden.
CursorIsShown ==
  LET height == Shell!Shown(Shell!ComposerAt(split), split.composer, shell.height)
      width  == Editor!TextWidth(Columns[shell.wrap])
      y      == Editor!CellAt(lines, cursor, width).y
  IN  fresh /\ height > 0 =>
        /\ y \in scroll .. scroll + height - 1
        /\ scroll > 0 => scroll + height <= Editor!RowCount(lines, cursor, width)

OnScreen == {term.rows[i] : i \in DOMAIN term.rows}
InBack == {term.back[i] : i \in DOMAIN term.back}
ShellLines == {ShellRows[i] : i \in DOMAIN ShellRows}

Quiet == At("idle")
Settled == Quiet /\ pending = NoSize /\ <<shell.rows, shell.wrap>> = Size(term)
AboveBand == Shell!Written(SubSeq(term.rows, 1, shell.top))

\* Every acknowledged line, and what was on screen before, is still on the
\* screen or in the scrollback, unless the terminal itself dropped it; and
\* once a resize has settled the row above the band is the newest.
TranscriptIsKept ==
  /\ Quiet => ShellLines \cup 1 .. source \subseteq InBack \cup OnScreen \cup term.cut
  /\ Settled /\ source \notin {0} \cup term.cut /\ AboveBand # <<>> =>
       AboveBand[Len(AboveBand)] = source

\* The band's image is nowhere but in its own rows once a resize has
\* settled, and never in the scrollback of a terminal that keeps its rows.
NoGhosts ==
  /\ Settled => \A i \in DOMAIN term.rows :
       term.rows[i] = Shell!BandRow => i \in shell.top + 1 .. shell.top + shell.height
  /\ term.class = "anchoring" => Shell!BandRow \notin InBack

\* During a run the band never gives rows back, whatever its content does,
\* unless the terminal gets shorter.
BandHolds ==
  [][phase.running /\ phase'.running /\ shell'.rows >= shell.rows /\ Shell!Bottom(term') >= Shell!Bottom(term)
       => shell'.height >= shell.height]_vars

\* What a reader of the screen relies on: the caret in view, no line lost,
\* no stale copy of the band (inline/shell.rs 229-420, composer.rs 474-481).
ScreenIsSound == CursorIsShown /\ TranscriptIsKept /\ NoGhosts
=============================================================================
