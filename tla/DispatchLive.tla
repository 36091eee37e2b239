---------------------------- MODULE DispatchLive ----------------------------
(***************************************************************************)
(* A tool batch seen from outside: what Dispatch records and completes is  *)
(* published as it happens and tracked by the hub's replica (LiveState),   *)
(* whose state a client that attaches in the middle of a batch is shown.   *)
(***************************************************************************)
EXTENDS Dispatch, LiveState

\* The window holds the settlement of a batch (SETTLED_APPROVAL_WINDOW).
ASSUME DispatchLiveAssumption == Window \in Nat \ {0}

VARIABLE hub

liveVars == <<vars, hub>>

Turn == 1
GatedCalls == Cardinality(Gated)

---------------------------------------------------------------------------
(* Items, each with the next position of the hub.                          *)

\* A durable event's position in the log is its id, a call's position its span.
Told(e, id) ==
  CASE e.type = "resolve"            -> [id |-> id, type |-> e.type, cmd |-> e.cmd]
    [] e.type \in {"call", "result"} -> [id |-> id, type |-> e.type, span |-> e.pos]
    [] OTHER                         -> [id |-> id, type |-> e.type]

LiveEvent(e, id) == [seq |-> hub.last + 1, kind |-> "recorded", event |-> Told(e, id)]

LiveCompletion(p) ==
  [seq |-> hub.last + 1, kind |-> "completed", done |-> [span |-> p, turn |-> Turn]]

LiveRequest ==
  [seq |-> 1, kind |-> "requested", request |-> Request, turn |-> Turn, calls |-> GatedCalls]

---------------------------------------------------------------------------
(* Publishing.                                                             *)

\* open_gate publishes the request before the loop starts.
LiveInit ==
  /\ Init
  /\ hub = IF Gated = {} THEN EmptyHub ELSE Track(EmptyHub, LiveRequest)

\* An event is published right after its append.
TellEvent ==
  /\ log' # log
  /\ hub' = Track(hub, LiveEvent(Last(log'), Len(log')))

\* A completion that is held back is published when the loop gets to it.
TellCompletion ==
  /\ early' # early
  /\ hub' = Track(hub, LiveCompletion(Last(early').pos))

TellNothing == log' = log /\ early' = early /\ hub' = hub

LiveNext == Next /\ (TellEvent \/ TellCompletion \/ TellNothing)

LiveSpec == LiveInit /\ [][LiveNext]_liveVars

LiveFairSpec == LiveSpec /\ LoopFairness

---------------------------------------------------------------------------
\* The gate's slots as the request presented them; "none" is undecided.
Slots ==
  [i \in 1..GatedCalls |->
     LET d == decisions[CHOOSE p \in Gated : GatedIndex(p) = i]
     IN IF d = "undecided" THEN "none" ELSE d]

TerminalLogged == Len(log) > 0 /\ log[Len(log)] = FinishedEvent

\* A settlement lists the decided calls in call order, with their decisions.
TellsSlots(r) ==
  /\ {r.calls[x] : x \in DOMAIN r.calls} = {i \in 1..GatedCalls : Slots[i] # "none"}
  /\ \A x, y \in DOMAIN r.calls : x < y => r.calls[x] < r.calls[y]
  /\ \A x \in DOMAIN r.calls : r.decisions[x] = Slots[r.calls[x]]

(* The approval dialog a client rebuilds on attach is the gate: while a    *)
(* call is undecided the request is pending with exactly the gate's        *)
(* decisions; once the last is decided it is settled with them; and when   *)
(* an interrupt ends the run the decided calls alone are remembered        *)
(* (gate.rs 53-98 against lib.rs 263-370).                                 *)
DialogShowsGate ==
  IF Pending /\ ~TerminalLogged
  THEN /\ Len(hub.pending) = 1 /\ hub.settled = <<>>
       /\ hub.pending[1].request = Request /\ hub.pending[1].decisions = Slots
  ELSE /\ hub.pending = <<>>
       /\ Len(hub.settled) = IF \A i \in 1..GatedCalls : Slots[i] = "none" THEN 0 ELSE 1
       /\ \A m \in DOMAIN hub.settled :
            hub.settled[m].request = Request /\ TellsSlots(hub.settled[m])

(* The provisional outcomes a client is shown are those the loop holds     *)
(* back behind the ordered cursor, published and not yet logged            *)
(* (dispatch.rs 117-152 against lib.rs 182-204, 229-235).                  *)
CompletionsShowHeldBack ==
  {d.span : d \in hub.done} =
    IF TerminalLogged THEN {}
    ELSE {p \in Position : /\ outcomes[p] # "none"
                           /\ \A i \in DOMAIN completed : completed[i] # p}

(* A client that attaches in the middle of a batch sees the gate's         *)
(* decisions and exactly the outcomes that are held back.                  *)
ClientsSeeBatch == DialogShowsGate /\ CompletionsShowHeldBack
=============================================================================
