----------------------------- MODULE ToolBatch -----------------------------
(***************************************************************************)
(* What one turn's tool batch promises to the trajectory, with no inbox,   *)
(* channel, deadline or scheduler in sight: a call is decided once, its    *)
(* tool_call event opens only after the decision, tool_result events close *)
(* in call order, and an interrupt stops further openings while the calls  *)
(* already open still close.  Dispatch.tla implements this module.         *)
(***************************************************************************)
EXTENDS Naturals

CONSTANTS N,       \* calls in the batch, addressed by original position
          Gated    \* positions whose tool declares a mutation effect

Position == 1..N

VARIABLES verdict,   \* per call: undecided, approved or rejected
          span,      \* per call: idle, open (tool_call logged), closed (tool_result logged)
          stopped,   \* an interrupt is in force
          over       \* the batch returned to the run loop

vars == <<verdict, span, stopped, over>>

TypeOK ==
  /\ verdict \in [Position -> {"undecided", "approved", "rejected"}]
  /\ span \in [Position -> {"idle", "open", "closed"}]
  /\ stopped \in BOOLEAN
  /\ over \in BOOLEAN

Init ==
  /\ verdict = [p \in Position |-> IF p \in Gated THEN "undecided" ELSE "approved"]
  /\ span = [p \in Position |-> "idle"]
  /\ stopped = FALSE
  /\ over = FALSE

\* One recorded resolve settles a nonempty set of undecided calls, for good.
Decide ==
  \E S \in SUBSET {p \in Gated : verdict[p] = "undecided"} :
    /\ S # {}
    /\ \E f \in [S -> {"approved", "rejected"}] :
         verdict' = [p \in Position |-> IF p \in S THEN f[p] ELSE verdict[p]]
    /\ ~over
    /\ UNCHANGED <<span, stopped, over>>

Open(p) ==
  /\ ~stopped /\ ~over
  /\ verdict[p] # "undecided"
  /\ span[p] = "idle"
  /\ span' = [span EXCEPT ![p] = "open"]
  /\ UNCHANGED <<verdict, stopped, over>>

\* A result waits for every earlier call; under an interrupt only for the
\* earlier calls that did start.
Close(p) ==
  /\ ~over
  /\ span[p] = "open"
  /\ \A q \in 1..(p - 1) : span[q] = "closed" \/ (stopped /\ span[q] = "idle")
  /\ span' = [span EXCEPT ![p] = "closed"]
  /\ UNCHANGED <<verdict, stopped, over>>

Stop ==
  /\ ~stopped /\ ~over
  /\ stopped' = TRUE
  /\ UNCHANGED <<verdict, span, over>>

Return ==
  /\ ~over
  /\ \A p \in Position : span[p] = "closed" \/ (stopped /\ span[p] = "idle")
  /\ over' = TRUE
  /\ UNCHANGED <<verdict, span, stopped>>

Next == Decide \/ Stop \/ Return \/ (\E p \in Position : Open(p) \/ Close(p))

Spec == Init /\ [][Next]_vars
=============================================================================
