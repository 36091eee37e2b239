------------------------------- MODULE Dialog -------------------------------
(***************************************************************************)
(* The terminal client's approval dialog (cadmus-tui approval.rs): the     *)
(* recorded decisions of one request, which answers this client has sent,  *)
(* the focused call and whether a key press may answer it.                 *)
(*                                                                         *)
(* Submission is not settlement: an answer stays "submitted" until the     *)
(* recorded decision, ours or a racing one, comes back.  Diffs and wording *)
(* are left out.                                                           *)
(* An operator named Fault... is a plausible slip in the definition that   *)
(* follows it; none is part of the specification.                          *)
(***************************************************************************)
EXTENDS Integers, Sequences, FiniteSetsExt

NoFocus == 0

Calls(d) == DOMAIN d.decisions

\* Undecided, and not answered by this client.
Answerable(d, i) == d.decisions[i] = "none" /\ ~d.submitted[i]

\* The first of some calls, or none.
FirstCall(some) == IF some = {} THEN NoFocus ELSE Min(some)

NewDialog(request, decisions) ==
  LET d == [request |-> request, decisions |-> decisions, armed |-> FALSE,
            selected |-> NoFocus, submitted |-> [i \in DOMAIN decisions |-> FALSE]]
  IN [d EXCEPT !.selected = FirstCall({i \in Calls(d) : decisions[i] = "none"})]

FaultForgetSubmitted(d) == [i \in Calls(d) |-> FALSE]

\* What a new baseline of the same request keeps of the client's own state.
Submitted(d) == d.submitted

\* resync: the recorded decisions are replaced, the dialog disarmed.
Resync(d, decisions) ==
  LET fresh == [NewDialog(d.request, decisions) EXCEPT !.submitted = Submitted(d)]
  IN [fresh EXCEPT !.selected = FirstCall({i \in Calls(fresh) : Answerable(fresh, i)})]

\* The call at a cyclic distance from the focus.
Beside(d, offset, backwards) ==
  LET n == Cardinality(Calls(d))
      start == IF d.selected = NoFocus THEN 0 ELSE d.selected - 1
  IN (IF backwards THEN (start + n - offset) % n ELSE (start + offset) % n) + 1

\* The nearest answerable call, the focused one last.
NextFocus(d, backwards) ==
  LET near == {o \in 1..Cardinality(Calls(d)) : Answerable(d, Beside(d, o, backwards))}
  IN IF near = {} THEN NoFocus
     ELSE Beside(d, Min(near), backwards)

\* move_focus: the first Tab arms, later ones move.
MoveFocus(d, backwards) ==
  IF ~d.armed /\ d.selected # NoFocus /\ Answerable(d, d.selected) THEN [d EXCEPT !.armed = TRUE]
  ELSE LET to == NextFocus(d, backwards)
       IN [d EXCEPT !.selected = to, !.armed = to # NoFocus]

\* submit sends an answer only when armed on a call.
Sends(d) == d.armed /\ d.selected # NoFocus

AfterSubmit(d) ==
  LET disarmed == [d EXCEPT !.armed = FALSE] IN
  IF Sends(d)
  THEN [MoveFocus([disarmed EXCEPT !.submitted[d.selected] = TRUE], FALSE) EXCEPT !.armed = FALSE]
  ELSE disarmed

FaultMoveArmed(d, i) == IF d.selected = i THEN MoveFocus(d, FALSE) ELSE d

\* The focus leaves a call decided elsewhere, disarmed.
Refocused(d, i) ==
  IF d.selected = i THEN [MoveFocus(d, FALSE) EXCEPT !.armed = FALSE] ELSE d

\* settle: the first recorded decision of a slot stands.
SettleCall(d, i, decision) ==
  IF i \notin Calls(d) \/ d.decisions[i] # "none" THEN d
  ELSE Refocused([d EXCEPT !.decisions[i] = decision], i)

Complete(d) == \A i \in Calls(d) : d.decisions[i] # "none"
=============================================================================
