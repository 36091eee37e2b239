----------------------------- MODULE LiveState -----------------------------
(***************************************************************************)
(* The hub's replica of a run (cadmus-transport lib.rs, State and track):  *)
(* published items folded into the baseline a late client attaches to.     *)
(*                                                                         *)
(* An item is a record with a seq and a kind: recorded (an event of        *)
(* Trajectory), delta, completed (a provisional tool outcome) or requested *)
(* (an approval request).  Chunk contents, call bodies, wait budgets and   *)
(* rejection comments are left out; a call is its position in the request. *)
(* An operator named Fault... is a plausible slip in the definition that   *)
(* follows it; none is part of the specification.                          *)
(***************************************************************************)
EXTENDS Trajectory, Integers, FiniteSets

CONSTANT Window   \* SETTLED_APPROVAL_WINDOW

ASSUME LiveStateAssumption == Window \in Nat

NoOpenTurn == [turn |-> NoTurn, chunks |-> 0]

EmptyHub ==
  [events |-> <<>>, seen |-> {}, open |-> NoOpenTurn, pending |-> <<>>, done |-> {},
   settled |-> <<>>, last |-> 0]

---------------------------------------------------------------------------
(* Approvals.                                                              *)

FaultDropNewest(settled, s) ==
  IF Len(settled) < Window THEN Append(settled, s) ELSE settled

\* remember_settlement: the oldest leaves a full window.
Remember(settled, s) ==
  LET all == Append(settled, s) IN
  IF Len(all) > Window THEN Tail(all) ELSE all

\* The members of a set of numbers in order.
Ascending(S) ==
  CHOOSE q \in [1..Cardinality(S) -> S] :
    /\ \A s \in S : \E i \in DOMAIN q : q[i] = s
    /\ \A i, j \in DOMAIN q : i < j => q[i] < q[j]

DecidedCalls(p) == {i \in DOMAIN p.decisions : p.decisions[i] # "none"}

\* The decided calls in call order: all of them once a request settles, those
\* answered so far when the run ends first.
Settlement(p) ==
  LET calls == Ascending(DecidedCalls(p)) IN
  [request |-> p.request, index |-> p.index, calls |-> calls,
   decisions |-> [m \in DOMAIN calls |-> p.decisions[calls[m]]]]

\* Settle the k-th pending request, its decisions filled in.
Settle(h, k, decisions) ==
  LET p == [h.pending[k] EXCEPT !.decisions = decisions] IN
  [h EXCEPT !.pending = RemoveAt(@, k), !.settled = Remember(@, Settlement(p))]

\* resolve_approval_call: an index past the batch or a filled slot is ignored;
\* the last slot settles the request.
ResolveCall(h, k, c) ==
  LET before == h.pending[k].decisions
      after == [before EXCEPT ![c.index] = c.decision]
  IN IF c.index \notin DOMAIN before \/ before[c.index] # "none" THEN h
     ELSE IF \A i \in DOMAIN after : after[i] # "none" THEN Settle(h, k, after)
     ELSE [h EXCEPT !.pending[k].decisions = after]

FaultBatchOverrides(before, reply) ==
  [i \in DOMAIN before |-> IF i \in DOMAIN reply THEN reply[i] ELSE "rejected"]

\* A batch reply fills the open slots; a missing answer denies.
Filled(before, reply) ==
  [i \in DOMAIN before |-> IF before[i] # "none" THEN before[i]
                           ELSE IF i \in DOMAIN reply THEN reply[i] ELSE "rejected"]

\* resolve_approval_batch; a request without calls settles as the reply.
ResolveBatch(h, k, c) ==
  LET before == h.pending[k].decisions IN
  Settle(h, k, IF before = <<>> THEN c.decisions ELSE Filled(before, c.decisions))

\* The resolve of an unseen request settles nothing.
Resolve(h, c) ==
  IF \E k \in DOMAIN h.pending : h.pending[k].request = c.req
  THEN LET k == CHOOSE k \in DOMAIN h.pending :
                  h.pending[k].request = c.req
                  /\ \A j \in 1..(k - 1) : h.pending[j].request # c.req
       IN IF c.kind = "batch" THEN ResolveBatch(h, k, c) ELSE ResolveCall(h, k, c)
  ELSE h

\* Termination settles a request somebody answered.
Retired(settled, p) ==
  IF DecidedCalls(p) = {} THEN settled ELSE Remember(settled, Settlement(p))

\* retire_pending_approvals.
RetirePending(h) ==
  LET settled[k \in 0..Len(h.pending)] ==
        IF k = 0 THEN h.settled
        ELSE LET before == settled[k - 1] IN Retired(before, h.pending[k])
  IN [h EXCEPT !.pending = <<>>, !.settled = settled[Len(h.pending)]]

---------------------------------------------------------------------------
(* track_recorded.                                                         *)

FaultKeepReplica(h, e) == FALSE

\* The response replaces the replica of its own turn.
ClosesOpenTurn(h, e) == h.open.turn = e.turn

FaultKeepDone(h, e) == h.done

\* A durable result retires its provisional outcome, by span.
Undone(h, e) == {d \in h.done : d.span # e.span}

Transition(h, e) ==
  CASE e.type = "response" -> IF ClosesOpenTurn(h, e) THEN [h EXCEPT !.open = NoOpenTurn] ELSE h
    [] e.type = "result"   -> [h EXCEPT !.done = Undone(h, e)]
    [] e.type = "request"  -> [h EXCEPT !.done = {}]
    [] e.type = "resolve"  -> Resolve(h, e.cmd)
    [] e.type = "finished" -> [RetirePending(h) EXCEPT !.open = NoOpenTurn, !.done = {}]
    [] OTHER -> h

\* A duplicate republication changes nothing.
Duplicate(h, e) == e.id \in h.seen

TrackRecorded(h, e) ==
  IF Duplicate(h, e) THEN h
  ELSE [Transition(h, e) EXCEPT !.events = Append(@, e), !.seen = @ \cup {e.id}]

---------------------------------------------------------------------------
(* track.                                                                  *)

\* A new turn's first delta resets the replica.
TrackDelta(h, turn) ==
  [h EXCEPT !.open = IF @.turn = turn THEN [turn |-> turn, chunks |-> @.chunks + 1]
                     ELSE [turn |-> turn, chunks |-> 1]]

\* Only the current batch's outcomes are kept, one per span.
TrackCompleted(h, d) ==
  [h EXCEPT !.done = {o \in @ : o.turn = d.turn /\ o.span # d.span} \cup {d}]

FaultAnchorAnyTurn(h, turn) == Anchor(h.events).index

\* The index of the turn's response in the history, if it is the latest one.
AnchorIndex(h, turn) ==
  IF Anchor(h.events).turn = turn THEN Anchor(h.events).index ELSE -1

TrackRequested(h, item) ==
  [h EXCEPT !.pending =
     Append(@, [request |-> item.request, turn |-> item.turn,
                index |-> AnchorIndex(h, item.turn),
                decisions |-> [i \in 1..item.calls |-> "none"]])]

Track(h, item) ==
  LET at == [h EXCEPT !.last = item.seq] IN
  CASE item.kind = "recorded"  -> TrackRecorded(at, item.event)
    [] item.kind = "delta"     -> TrackDelta(at, item.turn)
    [] item.kind = "completed" -> TrackCompleted(at, item.done)
    [] item.kind = "requested" -> TrackRequested(at, item)

\* close(): pending approvals retire and provisional outcomes go; an open
\* turn stays in the final baseline.
Shut(h) == [RetirePending(h) EXCEPT !.done = {}]

HubAfter(items) ==
  LET hub[i \in 0..Len(items)] ==
        IF i = 0 THEN EmptyHub
        ELSE LET before == hub[i - 1] IN Track(before, items[i])
  IN hub[Len(items)]
=============================================================================
