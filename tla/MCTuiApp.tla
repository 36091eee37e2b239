------------------------------ MODULE MCTuiApp ------------------------------
(***************************************************************************)
(* Small vocabularies of what a loop says for TuiApp.                      *)
(***************************************************************************)
EXTENDS TuiApp

Says(e) == [kind |-> "recorded", event |-> e]
Delta(turn) == [kind |-> "delta", turn |-> turn]
Call(span, quiet) == [span |-> span, quiet |-> quiet]
Asks(request, calls) == [kind |-> "requested", request |-> request, turn |-> 1, calls |-> calls]

\* A turn that asks for two approvals.
AskTwo ==
  {Delta(1), Says([type |-> "response", turn |-> 1, calls |-> <<Call(1, FALSE), Call(2, FALSE)>>]),
   Asks(1, 2)}

\* A turn with one call that completes before it returns.
OneCall ==
  {Delta(1), Says([type |-> "response", turn |-> 1, calls |-> <<Call(1, FALSE)>>]),
   Says([type |-> "call", span |-> 1, quiet |-> FALSE]),
   [kind |-> "completed", done |-> [span |-> 1, turn |-> 1]],
   Says([type |-> "result", span |-> 1, ok |-> TRUE])}

\* Items per run: one run; one that only starts, then a long one.
OneRun == <<6>>
ShortLong == <<1, 6>>
=============================================================================
