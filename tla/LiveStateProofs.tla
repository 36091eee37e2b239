--------------------------- MODULE LiveStateProofs ---------------------------
(***************************************************************************)
(* What the hub's replica does with one item, for any replica: the lemmas  *)
(* that the proofs about the hub (BroadcasterProofs, BaselineProofs) and   *)
(* about a batch seen through it (DispatchProofs) share.                   *)
(***************************************************************************)
EXTENDS LiveState, TrajectoryProofs, FiniteSetTheorems

HubFields == {"events", "seen", "open", "pending", "done", "settled", "last"}
IsHub(h) == h = [f \in HubFields |-> h[f]]
Keeps(h, g) == IsHub(g) /\ g.last = h.last

---------------------------------------------------------------------------
(* The replica.                                                            *)

LEMMA SettleKeeps ==
  ASSUME NEW h, IsHub(h), NEW k, NEW decisions
  PROVE  Keeps(h, Settle(h, k, decisions))
  BY DEF IsHub, HubFields, Keeps, Settle

LEMMA ResolveKeeps ==
  ASSUME NEW h, IsHub(h), NEW c
  PROVE  Keeps(h, Resolve(h, c))
<1>1. ASSUME NEW k PROVE Keeps(h, ResolveCall(h, k, c))
  <2> DEFINE after == [h.pending[k].decisions EXCEPT ![c.index] = c.decision]
  <2>1. Keeps(h, h) /\ Keeps(h, [h EXCEPT !.pending[k].decisions = after])
    BY DEF IsHub, HubFields, Keeps
  <2>2. Keeps(h, Settle(h, k, after)) BY SettleKeeps
  <2> HIDE DEF after
  <2>3. QED BY <2>1, <2>2 DEF ResolveCall, after
<1>2. ASSUME NEW k PROVE Keeps(h, ResolveBatch(h, k, c))
  BY SettleKeeps DEF ResolveBatch
<1>3. Keeps(h, h) BY DEF Keeps
<1>4. QED BY <1>1, <1>2, <1>3 DEF Resolve

LEMMA RetireKeeps ==
  ASSUME NEW h, IsHub(h)
  PROVE  Keeps(h, RetirePending(h))
<1>1. ASSUME NEW s PROVE Keeps(h, [h EXCEPT !.pending = <<>>, !.settled = s])
  BY DEF IsHub, HubFields, Keeps
<1>2. QED BY <1>1 DEF RetirePending

LEMMA ShutKeeps ==
  ASSUME NEW h, IsHub(h)
  PROVE  Keeps(h, Shut(h))
<1>1. ASSUME NEW g, Keeps(h, g) PROVE Keeps(h, [g EXCEPT !.done = {}])
  BY <1>1 DEF IsHub, HubFields, Keeps
<1>2. QED BY <1>1, RetireKeeps DEF Shut

LEMMA TransitionKeeps ==
  ASSUME NEW h, IsHub(h), NEW e
  PROVE  Keeps(h, Transition(h, e))
<1>1. Keeps(h, h) BY DEF Keeps
<1>2. Keeps(h, [h EXCEPT !.open = NoOpenTurn]) BY DEF IsHub, HubFields, Keeps
<1>3. ASSUME NEW d PROVE Keeps(h, [h EXCEPT !.done = d]) BY DEF IsHub, HubFields, Keeps
<1>4. Keeps(h, Resolve(h, e.cmd)) BY ResolveKeeps
<1>5. Keeps(h, [RetirePending(h) EXCEPT !.open = NoOpenTurn, !.done = {}])
  <2>1. ASSUME NEW g, Keeps(h, g) PROVE Keeps(h, [g EXCEPT !.open = NoOpenTurn, !.done = {}])
    BY <2>1 DEF IsHub, HubFields, Keeps
  <2>2. QED BY <2>1, RetireKeeps
<1>6. QED BY <1>1, <1>2, <1>3, <1>4, <1>5 DEF Transition

\* An item moves the replica to its own position.
LEMMA TrackMovesOn ==
  ASSUME NEW h, IsHub(h), NEW item,
         item.kind \in {"recorded", "delta", "completed", "requested"}
  PROVE  IsHub(Track(h, item)) /\ Track(h, item).last = item.seq
<1> DEFINE at == [h EXCEPT !.last = item.seq]
<1>1. IsHub(at) /\ at.last = item.seq BY DEF IsHub, HubFields
<1> HIDE DEF at
<1>2. Keeps(at, TrackRecorded(at, item.event))
  <2>1. ASSUME NEW g, Keeps(at, g), NEW e
        PROVE  Keeps(at, [g EXCEPT !.events = Append(@, e), !.seen = @ \cup {e.id}])
    BY <2>1 DEF IsHub, HubFields, Keeps
  <2>2. QED BY <1>1, <2>1, TransitionKeeps DEF TrackRecorded, Keeps
<1>3. Keeps(at, TrackDelta(at, item.turn)) BY <1>1 DEF IsHub, HubFields, Keeps, TrackDelta
<1>4. Keeps(at, TrackCompleted(at, item.done)) BY <1>1 DEF IsHub, HubFields, Keeps, TrackCompleted
<1>5. Keeps(at, TrackRequested(at, item)) BY <1>1 DEF IsHub, HubFields, Keeps, TrackRequested
<1>6. Track(h, item) \in {TrackRecorded(at, item.event), TrackDelta(at, item.turn),
                          TrackCompleted(at, item.done), TrackRequested(at, item)}
  BY DEF Track, at
<1>7. QED BY <1>1, <1>2, <1>3, <1>4, <1>5, <1>6 DEF Keeps

---------------------------------------------------------------------------
(* What an item does to each part of the replica.                          *)

At(h, n) == [h EXCEPT !.last = n]

Same(h, g) ==
  /\ IsHub(g) /\ g.events = h.events /\ g.seen = h.seen /\ g.open = h.open
  /\ g.pending = h.pending /\ g.settled = h.settled

LEMMA AtIsSame ==
  ASSUME NEW h, IsHub(h), NEW n
  PROVE  Same(h, At(h, n))
  BY DEF IsHub, HubFields, Same, At

\* A resolve touches the approvals alone.
ApprovalsOnly(h, g) == IsHub(g) /\ g.events = h.events /\ g.seen = h.seen /\ g.open = h.open

LEMMA SettleParts ==
  ASSUME NEW h, IsHub(h), NEW k, NEW ds
  PROVE  /\ ApprovalsOnly(h, Settle(h, k, ds))
         /\ Settle(h, k, ds).pending = RemoveAt(h.pending, k)
         /\ Settle(h, k, ds).settled =
              Remember(h.settled, Settlement([h.pending[k] EXCEPT !.decisions = ds]))
  BY DEF IsHub, HubFields, ApprovalsOnly, Settle

LEMMA ResolveParts ==
  ASSUME NEW h, IsHub(h), NEW c
  PROVE  ApprovalsOnly(h, Resolve(h, c))
<1>1. ASSUME NEW k PROVE ApprovalsOnly(h, ResolveCall(h, k, c))
  <2> DEFINE after == [h.pending[k].decisions EXCEPT ![c.index] = c.decision]
  <2>1. ApprovalsOnly(h, h) /\ ApprovalsOnly(h, [h EXCEPT !.pending[k].decisions = after])
    BY DEF IsHub, HubFields, ApprovalsOnly
  <2>2. ApprovalsOnly(h, Settle(h, k, after)) BY SettleParts
  <2> HIDE DEF after
  <2>3. QED BY <2>1, <2>2 DEF ResolveCall, after
<1>2. ASSUME NEW k PROVE ApprovalsOnly(h, ResolveBatch(h, k, c))
  BY SettleParts DEF ResolveBatch
<1>3. ApprovalsOnly(h, h) BY DEF ApprovalsOnly
<1>4. QED BY <1>1, <1>2, <1>3 DEF Resolve

LEMMA RetireParts ==
  ASSUME NEW h, IsHub(h)
  PROVE  ApprovalsOnly(h, RetirePending(h)) /\ RetirePending(h).pending = <<>>
<1>1. ASSUME NEW s
      PROVE  LET g == [h EXCEPT !.pending = <<>>, !.settled = s] IN
             ApprovalsOnly(h, g) /\ g.pending = <<>>
  BY DEF IsHub, HubFields, ApprovalsOnly
<1>2. QED BY <1>1 DEF RetirePending

\* close() leaves the history and the open turn.
LEMMA ShutParts ==
  ASSUME NEW h, IsHub(h)
  PROVE  /\ ApprovalsOnly(h, Shut(h)) /\ Shut(h).pending = <<>>
         /\ Shut(h).settled = RetirePending(h).settled
<1> DEFINE r == RetirePending(h)
<1>1. ApprovalsOnly(h, r) /\ r.pending = <<>> BY RetireParts
<1> HIDE DEF r
<1>2. Shut(h) = [r EXCEPT !.done = {}] BY DEF Shut, r
<1>3. LET g == [r EXCEPT !.done = {}] IN
      ApprovalsOnly(h, g) /\ g.pending = <<>> /\ g.settled = r.settled
  BY <1>1 DEF ApprovalsOnly, IsHub, HubFields
<1>4. QED BY <1>2, <1>3 DEF r

\* The transition of an event, part by part.
Moves(h, e, g) ==
  /\ IsHub(g) /\ g.events = h.events /\ g.seen = h.seen
  /\ g.open = IF e.type = "finished" \/ (e.type = "response" /\ ClosesOpenTurn(h, e))
              THEN NoOpenTurn ELSE h.open
  /\ e.type \notin {"resolve", "finished"} => g.pending = h.pending /\ g.settled = h.settled
  /\ e.type = "resolve" => /\ g.pending = Resolve(h, e.cmd).pending
                           /\ g.settled = Resolve(h, e.cmd).settled
  /\ e.type = "finished" => g.pending = <<>> /\ g.settled = RetirePending(h).settled

LEMMA TransitionMoves ==
  ASSUME NEW h, IsHub(h), NEW e
  PROVE  Moves(h, e, Transition(h, e))
<1>1. CASE e.type = "resolve"
  <2>1. Transition(h, e) = Resolve(h, e.cmd) BY <1>1 DEF Transition
  <2>2. ApprovalsOnly(h, Resolve(h, e.cmd)) BY ResolveParts
  <2>3. QED BY <1>1, <2>1, <2>2 DEF Moves, ApprovalsOnly
<1>2. CASE e.type = "finished"
  <2> DEFINE r == RetirePending(h)
  <2>1. ApprovalsOnly(h, r) /\ r.pending = <<>> BY RetireParts
  <2>2. Transition(h, e) = [r EXCEPT !.open = NoOpenTurn, !.done = {}] BY <1>2 DEF Transition
  <2> HIDE DEF r
  <2>3. LET g == [r EXCEPT !.open = NoOpenTurn, !.done = {}] IN
        /\ IsHub(g) /\ g.events = h.events /\ g.seen = h.seen /\ g.open = NoOpenTurn
        /\ g.pending = <<>> /\ g.settled = r.settled
    BY <2>1 DEF ApprovalsOnly, IsHub, HubFields
  <2>4. QED BY <1>2, <2>2, <2>3 DEF Moves, r
<1>3. CASE e.type = "response"
  <2>1. Transition(h, e) = IF ClosesOpenTurn(h, e) THEN [h EXCEPT !.open = NoOpenTurn] ELSE h
    BY <1>3 DEF Transition
  <2>2. QED BY <1>3, <2>1 DEF Moves, IsHub, HubFields
<1>4. CASE e.type \notin {"resolve", "finished", "response"}
  <2>1. \/ Transition(h, e) = h
        \/ \E d : Transition(h, e) = [h EXCEPT !.done = d]
    BY <1>4 DEF Transition
  <2>2. QED BY <1>4, <2>1 DEF Moves, IsHub, HubFields
<1>5. QED BY <1>1, <1>2, <1>3, <1>4

\* An item of the loop, part by part.
LEMMA TrackParts ==
  ASSUME NEW h, IsHub(h), NEW item,
         item.kind \in {"recorded", "delta", "completed", "requested"}
  PROVE  LET g == Track(h, item)
             at == At(h, item.seq)
             e == item.event
         IN
         /\ item.kind # "recorded" =>
              g.events = h.events /\ g.seen = h.seen /\ g.settled = h.settled
         /\ item.kind \in {"delta", "completed"} => g.pending = h.pending
         /\ item.kind \in {"requested", "completed"} => g.open = h.open
         /\ item.kind = "delta" => g.open = TrackDelta(at, item.turn).open
         /\ item.kind = "requested" => g.pending = TrackRequested(at, item).pending
         /\ item.kind = "recorded" /\ e.id \in h.seen => Same(h, g)
         /\ item.kind = "recorded" /\ e.id \notin h.seen =>
              \E t : /\ Moves(at, e, t)
                     /\ g.events = Append(h.events, e) /\ g.seen = h.seen \cup {e.id}
                     /\ g.open = t.open /\ g.pending = t.pending /\ g.settled = t.settled
<1> DEFINE at == At(h, item.seq)
           e == item.event
<1>1. Same(h, at) /\ IsHub(at) BY AtIsSame DEF Same
<1>2. Track(h, item) = CASE item.kind = "recorded"  -> TrackRecorded(at, e)
                         [] item.kind = "delta"     -> TrackDelta(at, item.turn)
                         [] item.kind = "completed" -> TrackCompleted(at, item.done)
                         [] item.kind = "requested" -> TrackRequested(at, item)
  BY DEF Track, At
<1> HIDE DEF at, e
<1>3. CASE item.kind = "delta"
  <2>1. LET g == TrackDelta(at, item.turn) IN
        /\ g.events = at.events /\ g.seen = at.seen /\ g.settled = at.settled
        /\ g.pending = at.pending
    BY <1>1 DEF IsHub, HubFields, TrackDelta
  <2>2. Track(h, item) = TrackDelta(at, item.turn) BY <1>2, <1>3
  <2>3. QED BY <1>1, <1>3, <2>1, <2>2 DEF Same, at
<1>4. CASE item.kind = "completed"
  <2>1. LET g == TrackCompleted(at, item.done) IN
        /\ g.events = at.events /\ g.seen = at.seen /\ g.settled = at.settled
        /\ g.pending = at.pending /\ g.open = at.open
    BY <1>1 DEF IsHub, HubFields, TrackCompleted
  <2>2. Track(h, item) = TrackCompleted(at, item.done) BY <1>2, <1>4
  <2>3. QED BY <1>1, <1>4, <2>1, <2>2 DEF Same
<1>5. CASE item.kind = "requested"
  <2>1. LET g == TrackRequested(at, item) IN
        /\ g.events = at.events /\ g.seen = at.seen /\ g.settled = at.settled
        /\ g.open = at.open
    BY <1>1 DEF IsHub, HubFields, TrackRequested
  <2>2. Track(h, item) = TrackRequested(at, item) BY <1>2, <1>5
  <2>3. QED BY <1>1, <1>5, <2>1, <2>2 DEF Same, at
<1>6. CASE item.kind = "recorded"
  <2>1. Track(h, item) = TrackRecorded(at, e) BY <1>2, <1>6
  <2>2. CASE e.id \in h.seen
    <3>1. Track(h, item) = at BY <1>1, <2>1, <2>2 DEF TrackRecorded, Duplicate, Same
    <3>2. QED BY <1>1, <1>6, <2>2, <3>1 DEF e
  <2>3. CASE e.id \notin h.seen
    <3> DEFINE t == Transition(at, e)
               g == [t EXCEPT !.events = Append(@, e), !.seen = @ \cup {e.id}]
    <3>1. Moves(at, e, t) BY <1>1, TransitionMoves
    <3>2. Track(h, item) = g BY <1>1, <2>1, <2>3 DEF TrackRecorded, Duplicate, Same
    <3> HIDE DEF t
    <3>3. IsHub(t) /\ t.events = at.events /\ t.seen = at.seen BY <3>1 DEF Moves
    <3>4. /\ g.events = Append(t.events, e) /\ g.seen = t.seen \cup {e.id}
          /\ g.open = t.open /\ g.pending = t.pending /\ g.settled = t.settled
      BY <3>3 DEF IsHub, HubFields
    <3> HIDE DEF g
    <3>5. /\ g.events = Append(h.events, e) /\ g.seen = h.seen \cup {e.id}
          /\ g.open = t.open /\ g.pending = t.pending /\ g.settled = t.settled
      BY <1>1, <3>3, <3>4 DEF Same
    <3>6. QED BY <1>6, <2>3, <3>1, <3>2, <3>5 DEF at, e
  <2>4. QED BY <2>2, <2>3
<1>7. QED BY <1>3, <1>4, <1>5, <1>6

---------------------------------------------------------------------------
(* What a settlement says.                                                 *)

IsAscending(q, S) ==
  /\ q \in [1..Cardinality(S) -> S]
  /\ \A s \in S : \E i \in DOMAIN q : q[i] = s
  /\ \A i, j \in DOMAIN q : i < j => q[i] < q[j]

LEMMA AscendingExists ==
  ASSUME NEW n \in Nat, NEW S, S \subseteq 1..n
  PROVE  IsAscending(Ascending(S), S)
<1> DEFINE T == {k \in 0..n : \E q : IsAscending(q, S \cap (1..k))}
<1>1. 0 \in T
  <2>1. S \cap (1..0) = {} /\ Cardinality({}) = 0 BY FS_EmptySet
  <2>2. IsAscending([i \in 1..0 |-> i], {}) BY <2>1 DEF IsAscending
  <2>3. \E q : IsAscending(q, S \cap (1..0)) BY <2>1, <2>2
  <2>4. QED BY <2>3
<1>2. ASSUME NEW k \in 0..(n - 1), k \in T PROVE k + 1 \in T
  <2>1. PICK A, B : A = S \cap (1..k) /\ B = S \cap (1..(k + 1)) OBVIOUS
  <2>2. PICK q : IsAscending(q, A) BY <1>2, <2>1
  <2>3. CASE k + 1 \notin S
    <3>1. B = A BY <2>1, <2>3
    <3>2. \E g : IsAscending(g, S \cap (1..(k + 1))) BY <2>1, <2>2, <3>1
    <3>3. QED BY <3>2
  <2>4. CASE k + 1 \in S
    <3>1. B = A \cup {k + 1} /\ k + 1 \notin A BY <2>1, <2>4
    <3>2. IsFiniteSet(A) /\ \A x \in A : x \in 1..k
      <4>1. IsFiniteSet(1..k) BY FS_Interval
      <4>2. QED BY <2>1, <4>1, FS_Subset
    <3>3. PICK c : c = Cardinality(A) OBVIOUS
    <3>4. c \in Nat /\ Cardinality(B) = c + 1
      BY <3>1, <3>2, <3>3, FS_AddElement, FS_CardinalityType
    <3>5. PICK g : g = [i \in 1..(c + 1) |-> IF i = c + 1 THEN k + 1 ELSE q[i]] OBVIOUS
    <3>6. /\ DOMAIN q = 1..c /\ \A i \in 1..c : q[i] \in A
          /\ \A s \in A : \E i \in 1..c : q[i] = s
          /\ \A i, j \in 1..c : i < j => q[i] < q[j]
      BY <2>2, <3>3 DEF IsAscending
    <3>7. DOMAIN g = 1..(c + 1) /\ g[c + 1] = k + 1 /\ \A i \in 1..c : g[i] = q[i]
      BY <3>4, <3>5
    <3>8. \A i \in 1..(c + 1) : i \in 1..c \/ i = c + 1 BY <3>4
    <3>9. g \in [1..(c + 1) -> B]
      <4>1. \A i \in 1..(c + 1) : g[i] \in B BY <3>1, <3>6, <3>7, <3>8
      <4>2. QED BY <3>5, <4>1
    <3>10. \A s \in B : \E i \in DOMAIN g : g[i] = s
      <4>1. 1..c \subseteq DOMAIN g /\ c + 1 \in DOMAIN g BY <3>4, <3>7
      <4>2. QED BY <3>1, <3>6, <3>7, <4>1
    <3>11. ASSUME NEW i \in 1..(c + 1), NEW j \in 1..(c + 1), i < j PROVE g[i] < g[j]
      <4>1. i \in 1..c BY <3>4, <3>11
      <4>2. CASE j \in 1..c BY <3>6, <3>7, <3>11, <4>1, <4>2
      <4>3. CASE j = c + 1
        <5>1. g[i] \in 1..k BY <3>2, <3>6, <3>7, <4>1
        <5>2. g[j] = k + 1 BY <3>7, <4>3
        <5>3. QED BY <5>1, <5>2
      <4>4. QED BY <3>8, <4>2, <4>3
    <3>12. IsAscending(g, B) BY <3>4, <3>7, <3>9, <3>10, <3>11 DEF IsAscending
    <3>13. \E h : IsAscending(h, S \cap (1..(k + 1))) BY <2>1, <3>12
    <3>14. QED BY <3>13
  <2>5. QED BY <2>3, <2>4
<1> HIDE DEF T
<1>3. n \in T BY <1>1, <1>2, Induction
<1>4. PICK q : IsAscending(q, S \cap (1..n)) BY <1>3 DEF T
<1>5. S \cap (1..n) = S OBVIOUS
<1>6. \E g : IsAscending(g, S) BY <1>4, <1>5
<1>7. QED BY <1>6 DEF IsAscending, Ascending

\* The decided calls of a request in call order, with their decisions.
LEMMA SettlementSays ==
  ASSUME NEW p, NEW n \in Nat, DOMAIN p.decisions = 1..n
  PROVE  LET r == Settlement(p) IN
         /\ r.request = p.request
         /\ {r.calls[x] : x \in DOMAIN r.calls} = {s \in 1..n : p.decisions[s] # "none"}
         /\ \A x, y \in DOMAIN r.calls : x < y => r.calls[x] < r.calls[y]
         /\ \A x \in DOMAIN r.calls : r.decisions[x] = p.decisions[r.calls[x]]
<1>1. PICK S, q : S = DecidedCalls(p) /\ q = Ascending(S) OBVIOUS
<1>2. S = {s \in 1..n : p.decisions[s] # "none"} BY <1>1 DEF DecidedCalls
<1>3. IsAscending(q, S) BY <1>1, <1>2, AscendingExists
<1>4. PICK r : r = [request |-> p.request, index |-> p.index, calls |-> q,
                    decisions |-> [m \in DOMAIN q |-> p.decisions[q[m]]]]
  OBVIOUS
<1>5. Settlement(p) = r BY <1>1, <1>4 DEF Settlement
<1>6. r.request = p.request /\ r.calls = q /\ r.decisions = [m \in DOMAIN q |-> p.decisions[q[m]]]
  BY <1>4
<1>7. {q[x] : x \in DOMAIN q} = S BY <1>3 DEF IsAscending
<1>8. \A x, y \in DOMAIN q : x < y => q[x] < q[y] BY <1>3 DEF IsAscending
<1>9. QED BY <1>2, <1>5, <1>6, <1>7, <1>8

---------------------------------------------------------------------------
(* The settled window.                                                     *)

LEMMA RememberKeeps ==
  ASSUME NEW q, IsSequence(q), Len(q) <= Window, NEW s
  PROVE  LET a == Append(q, s)
             r == Remember(q, s)
         IN /\ IsSequence(r) /\ Len(r) <= Window /\ Len(r) \in Nat
            /\ DOMAIN r = 1..Len(r)
            /\ \/ r = a /\ Len(r) = Len(q) + 1
               \/ /\ Len(q) = Window /\ Len(r) = Window
                  /\ \A m \in 1..Window : r[m] = a[m + 1]
<1>0. PICK a : a = Append(q, s) OBVIOUS
<1>1. IsSequence(a) /\ Len(q) \in Nat /\ Len(a) = Len(q) + 1 BY <1>0, AppendIsSequence
<1>2. Window \in Nat BY LiveStateAssumption
<1>3. CASE Len(a) <= Window
  <2>1. Remember(q, s) = a BY <1>0, <1>1, <1>2, <1>3 DEF Remember
  <2>2. DOMAIN a = 1..Len(a) BY <1>1 DEF IsSequence
  <2>3. QED BY <1>0, <1>1, <1>3, <2>1, <2>2
<1>4. CASE ~(Len(a) <= Window)
  <2>1. Remember(q, s) = Tail(a) BY <1>0, <1>1, <1>2, <1>4 DEF Remember
  <2>2. Len(q) = Window BY <1>1, <1>2, <1>4
  <2>3. a # <<>> BY <1>1
  <2>4. /\ IsSequence(Tail(a)) /\ Len(Tail(a)) = Window
        /\ \A m \in 1..Window : Tail(a)[m] = a[m + 1]
    BY <1>1, <1>2, <2>2, <2>3, TailIsSequence
  <2>5. DOMAIN Tail(a) = 1..Len(Tail(a)) BY <2>4 DEF IsSequence
  <2>6. QED BY <1>0, <1>2, <2>1, <2>2, <2>4, <2>5
<1>5. QED BY <1>3, <1>4

---------------------------------------------------------------------------
(* The end of the run retires what is pending, one request at a time.      *)

IsRetiring(f, settled, q, n) ==
  f = [k \in 0..n |-> IF k = 0 THEN settled ELSE Retired(f[k - 1], q[k])]

LEMMA RetiringExists ==
  ASSUME NEW settled, NEW q, NEW n \in Nat
  PROVE  \E f : IsRetiring(f, settled, q, n)
<1> DEFINE S == {k \in 0..n : \E f : IsRetiring(f, settled, q, k)}
<1>1. 0 \in S
  <2>1. IsRetiring([i \in 0..0 |-> settled], settled, q, 0) BY DEF IsRetiring
  <2>2. \E f : IsRetiring(f, settled, q, 0) BY <2>1
  <2>3. QED BY <2>2
<1>2. ASSUME NEW k \in 0..(n - 1), k \in S PROVE k + 1 \in S
  <2>1. PICK f : IsRetiring(f, settled, q, k) BY <1>2
  <2> DEFINE g == [i \in 0..(k + 1) |-> IF i = k + 1 THEN Retired(f[k], q[k + 1]) ELSE f[i]]
  <2>2. \A i \in 0..(k + 1) : g[i] = IF i = 0 THEN settled ELSE Retired(g[i - 1], q[i])
    BY <2>1 DEF IsRetiring
  <2>3. g = [i \in 0..(k + 1) |-> g[i]] OBVIOUS
  <2> HIDE DEF g
  <2>4. IsRetiring(g, settled, q, k + 1) BY <2>2, <2>3 DEF IsRetiring
  <2>5. \E h : IsRetiring(h, settled, q, k + 1) BY <2>4
  <2>6. QED BY <2>5
<1> HIDE DEF S
<1>3. n \in S BY <1>1, <1>2, Induction
<1>4. QED BY <1>3 DEF S

LEMMA RetireFolds ==
  ASSUME NEW h, IsHub(h), Len(h.pending) \in Nat
  PROVE  \E f : /\ IsRetiring(f, h.settled, h.pending, Len(h.pending))
                /\ RetirePending(h).settled = f[Len(h.pending)]
<1>1. \E f : IsRetiring(f, h.settled, h.pending, Len(h.pending)) BY RetiringExists
<1>2. ASSUME NEW s PROVE [h EXCEPT !.pending = <<>>, !.settled = s].settled = s
  BY DEF IsHub, HubFields
<1>3. \E f : /\ IsRetiring(f, h.settled, h.pending, Len(h.pending))
             /\ RetirePending(h) = [h EXCEPT !.pending = <<>>, !.settled = f[Len(h.pending)]]
  BY <1>1 DEF IsRetiring, RetirePending
<1>4. QED BY <1>2, <1>3

---------------------------------------------------------------------------
(* The provisional outcomes.                                               *)

SameDone(h, g) == IsHub(g) /\ g.done = h.done

LEMMA ResolveKeepsDone ==
  ASSUME NEW h, IsHub(h), NEW c
  PROVE  SameDone(h, Resolve(h, c))
<1>0. ASSUME NEW k, NEW ds PROVE SameDone(h, Settle(h, k, ds))
  BY DEF IsHub, HubFields, SameDone, Settle
<1>1. ASSUME NEW k PROVE SameDone(h, ResolveCall(h, k, c))
  <2> DEFINE after == [h.pending[k].decisions EXCEPT ![c.index] = c.decision]
  <2>1. SameDone(h, h) /\ SameDone(h, [h EXCEPT !.pending[k].decisions = after])
    BY DEF IsHub, HubFields, SameDone
  <2>2. SameDone(h, Settle(h, k, after)) BY <1>0
  <2> HIDE DEF after
  <2>3. QED BY <2>1, <2>2 DEF ResolveCall, after
<1>2. ASSUME NEW k PROVE SameDone(h, ResolveBatch(h, k, c)) BY <1>0 DEF ResolveBatch
<1>3. SameDone(h, h) BY DEF SameDone
<1>4. QED BY <1>1, <1>2, <1>3 DEF Resolve

LEMMA TransitionDone ==
  ASSUME NEW h, IsHub(h), NEW e
  PROVE  LET g == Transition(h, e) IN
         /\ e.type = "result" => g.done = Undone(h, e)
         /\ e.type = "finished" => g.done = {}
         /\ e.type \notin {"result", "request", "finished"} => g.done = h.done
<1>1. CASE e.type = "resolve"
  BY <1>1, ResolveKeepsDone DEF Transition, SameDone
<1>2. CASE e.type = "finished"
  <2>1. PICK r : r = RetirePending(h) OBVIOUS
  <2>2. IsHub(r) BY <2>1, RetireKeeps DEF Keeps
  <2>3. Transition(h, e) = [r EXCEPT !.open = NoOpenTurn, !.done = {}]
    BY <1>2, <2>1 DEF Transition
  <2>4. QED BY <1>2, <2>2, <2>3 DEF IsHub, HubFields
<1>3. CASE e.type = "result"
  <2>1. PICK u : u = Undone(h, e) OBVIOUS
  <2>2. Transition(h, e) = [h EXCEPT !.done = u] BY <1>3, <2>1 DEF Transition
  <2>3. QED BY <1>3, <2>1, <2>2 DEF IsHub, HubFields
<1>4. CASE e.type \notin {"resolve", "finished", "result", "request"}
  <2>1. Transition(h, e) \in {h, [h EXCEPT !.open = NoOpenTurn]} BY <1>4 DEF Transition
  <2>2. QED BY <1>4, <2>1 DEF IsHub, HubFields
<1>5. QED BY <1>1, <1>2, <1>3, <1>4

LEMMA TrackDone ==
  ASSUME NEW h, IsHub(h), NEW item,
         item.kind \in {"recorded", "delta", "completed", "requested"}
  PROVE  LET g == Track(h, item)
             e == item.event
             d == item.done
         IN
         /\ item.kind = "completed" =>
              g.done = {o \in h.done : o.turn = d.turn /\ o.span # d.span} \cup {d}
         /\ item.kind \in {"delta", "requested"} => g.done = h.done
         /\ item.kind = "recorded" /\ e.id \notin h.seen =>
              /\ e.type = "result" => g.done = {o \in h.done : o.span # e.span}
              /\ e.type = "finished" => g.done = {}
              /\ e.type \notin {"result", "request", "finished"} => g.done = h.done
<1>1. PICK at, e : at = At(h, item.seq) /\ e = item.event OBVIOUS
<1>2. IsHub(at) /\ at.done = h.done /\ at.seen = h.seen
  BY <1>1 DEF IsHub, HubFields, At
<1>3. Track(h, item) = CASE item.kind = "recorded"  -> TrackRecorded(at, e)
                         [] item.kind = "delta"     -> TrackDelta(at, item.turn)
                         [] item.kind = "completed" -> TrackCompleted(at, item.done)
                         [] item.kind = "requested" -> TrackRequested(at, item)
  BY <1>1 DEF Track, At
<1>4. CASE item.kind = "completed"
  <2>1. Track(h, item) = TrackCompleted(at, item.done) BY <1>3, <1>4
  <2>2. QED BY <1>2, <1>4, <2>1 DEF IsHub, HubFields, TrackCompleted
<1>5. CASE item.kind = "delta"
  <2>1. Track(h, item) = TrackDelta(at, item.turn) BY <1>3, <1>5
  <2>2. QED BY <1>2, <1>5, <2>1 DEF IsHub, HubFields, TrackDelta
<1>6. CASE item.kind = "requested"
  <2>1. Track(h, item) = TrackRequested(at, item) BY <1>3, <1>6
  <2>2. QED BY <1>2, <1>6, <2>1 DEF IsHub, HubFields, TrackRequested
<1>7. CASE item.kind = "recorded" /\ e.id \notin h.seen
  <2>1. PICK t : t = Transition(at, e) OBVIOUS
  <2>2. IsHub(t) BY <1>2, <2>1, TransitionKeeps DEF Keeps
  <2>3. Track(h, item) = [t EXCEPT !.events = Append(@, e), !.seen = @ \cup {e.id}]
    BY <1>2, <1>3, <1>7, <2>1 DEF TrackRecorded, Duplicate
  <2>4. Track(h, item).done = t.done BY <2>2, <2>3 DEF IsHub, HubFields
  <2>5. /\ e.type = "result" => t.done = Undone(at, e)
        /\ e.type = "finished" => t.done = {}
        /\ e.type \notin {"result", "request", "finished"} => t.done = at.done
    BY <1>2, <2>1, TransitionDone
  <2>6. Undone(at, e) = {o \in h.done : o.span # e.span} BY <1>2 DEF Undone
  <2>7. QED BY <1>1, <1>2, <1>7, <2>4, <2>5, <2>6
<1>8. QED BY <1>1, <1>4, <1>5, <1>6, <1>7

---------------------------------------------------------------------------
(* One pending request.                                                    *)

LEMMA OneIsSequence ==
  ASSUME NEW x
  PROVE  IsSequence(<<x>>) /\ Len(<<x>>) = 1 /\ <<x>>[1] = x /\ DOMAIN <<x>> = 1..1
<1>1. <<x>> \in Seq({x}) OBVIOUS
<1>2. IsSequence(<<x>>) BY <1>1, SequenceIsOne
<1>3. Len(<<x>>) = 1 /\ <<x>>[1] = x OBVIOUS
<1>4. DOMAIN <<x>> = 1..Len(<<x>>) BY <1>1
<1>5. QED BY <1>2, <1>3, <1>4

LEMMA RemoveOnly == ASSUME NEW x PROVE RemoveAt(<<x>>, 1) = <<>>
<1>1. PICK r : r = RemoveAt(<<x>>, 1) OBVIOUS
<1>2. IsSequence(r) /\ DOMAIN r = 1..0 BY <1>1, OneIsSequence, RemoveAtShifts
<1>3. r = <<>> BY <1>2 DEF IsSequence
<1>4. QED BY <1>1, <1>3

LEMMA RememberFirst == ASSUME Window # 0, NEW s PROVE Remember(<<>>, s) = <<s>>
<1>1. Append(<<>>, s) = <<s>> OBVIOUS
<1>2. ~(1 > Window) BY LiveStateAssumption
<1>3. QED BY <1>1, <1>2, OneIsSequence DEF Remember

Asked(req, turn, index, ds) ==
  [request |-> req, turn |-> turn, index |-> index, decisions |-> ds]

LEMMA AskedAgain ==
  ASSUME NEW req, NEW turn, NEW index, NEW ds, NEW es
  PROVE  /\ [Asked(req, turn, index, ds) EXCEPT !.decisions = es] = Asked(req, turn, index, es)
         /\ Asked(req, turn, index, ds).request = req
         /\ Asked(req, turn, index, ds).decisions = ds
  BY DEF Asked

\* A slot for each of n calls; the only request, open or settled.
Slotted(ds, n) == n \in Nat \ {0} /\ DOMAIN ds = 1..n
AllSlotsFilled(ds, n) == \A i \in 1..n : ds[i] # "none"
OnlyOpen(h, p) == h.pending = <<p>> /\ h.settled = <<>>
OnlySettled(h, p) == h.pending = <<>> /\ h.settled = <<Settlement(p)>>

\* A reply to the only pending request, none settled yet.
LEMMA ResolveOnly ==
  ASSUME Window # 0, NEW h, IsHub(h), NEW c, NEW turn, NEW index, NEW n, NEW ds,
         Slotted(ds, n), OnlyOpen(h, Asked(c.req, turn, index, ds)),
         NEW after, after = [ds EXCEPT ![c.index] = c.decision]
  PROVE  LET g == Resolve(h, c) IN
         /\ c.kind = "batch" =>
              OnlySettled(g, Asked(c.req, turn, index, Filled(ds, c.decisions)))
         /\ c.kind # "batch" /\ c.index \in 1..n /\ ds[c.index] = "none" =>
              IF AllSlotsFilled(after, n)
              THEN OnlySettled(g, Asked(c.req, turn, index, after))
              ELSE OnlyOpen(g, Asked(c.req, turn, index, after))
<1> USE DEF Slotted, AllSlotsFilled, OnlyOpen, OnlySettled
<1>0. PICK p : p = Asked(c.req, turn, index, ds) OBVIOUS
<1>1. /\ h.pending = <<p>> /\ h.pending[1] = p /\ DOMAIN h.pending = 1..1
      /\ p.request = c.req /\ p.decisions = ds
  BY <1>0, OneIsSequence, AskedAgain
<1>2. Resolve(h, c) = IF c.kind = "batch" THEN ResolveBatch(h, 1, c) ELSE ResolveCall(h, 1, c)
  <2>1. \A k : k \in DOMAIN h.pending <=> k = 1 BY <1>1
  <2>2. PICK k : k = CHOOSE i \in DOMAIN h.pending :
                       h.pending[i].request = c.req
                       /\ \A j \in 1..(i - 1) : h.pending[j].request # c.req
    OBVIOUS
  <2>3. \E i \in DOMAIN h.pending : /\ h.pending[i].request = c.req
                                    /\ \A j \in 1..(i - 1) : h.pending[j].request # c.req
    <3>1. 1 \in DOMAIN h.pending /\ h.pending[1].request = c.req BY <1>1, <2>1
    <3>2. \A j \in 1..(1 - 1) : FALSE OBVIOUS
    <3>3. QED BY <3>1, <3>2
  <2>4. k \in DOMAIN h.pending BY <2>2, <2>3
  <2>5. k = 1 BY <2>1, <2>4
  <2>6. QED BY <1>1, <2>1, <2>2, <2>5 DEF Resolve
<1>3. ASSUME NEW es
      PROVE  /\ Settle(h, 1, es).pending = <<>>
             /\ Settle(h, 1, es).settled = <<Settlement(Asked(c.req, turn, index, es))>>
  <2>1. /\ Settle(h, 1, es).pending = RemoveAt(h.pending, 1)
        /\ Settle(h, 1, es).settled =
             Remember(h.settled, Settlement([h.pending[1] EXCEPT !.decisions = es]))
    BY SettleParts
  <2>2. RemoveAt(h.pending, 1) = <<>> BY <1>1, RemoveOnly
  <2>3. [h.pending[1] EXCEPT !.decisions = es] = Asked(c.req, turn, index, es)
    BY <1>0, <1>1, AskedAgain
  <2>4. QED BY <2>1, <2>2, <2>3, RememberFirst
<1>4. ASSUME c.kind = "batch"
      PROVE  Resolve(h, c) = Settle(h, 1, Filled(ds, c.decisions))
  <2>1. ds # <<>>
    <3>1. 1 \in DOMAIN ds OBVIOUS
    <3>2. QED BY <3>1
  <2>2. QED BY <1>1, <1>2, <1>4, <2>1 DEF ResolveBatch
<1>5. ASSUME c.kind # "batch", c.index \in 1..n, ds[c.index] = "none"
      PROVE  IF \A i \in 1..n : after[i] # "none"
             THEN Resolve(h, c) = Settle(h, 1, after)
             ELSE /\ Resolve(h, c).pending = <<Asked(c.req, turn, index, after)>>
                  /\ Resolve(h, c).settled = <<>>
  <2>1. DOMAIN after = 1..n OBVIOUS
  <2>2. PICK g : g = [h EXCEPT !.pending[1].decisions = after] OBVIOUS
  <2>3. Resolve(h, c) = IF \A i \in 1..n : after[i] # "none" THEN Settle(h, 1, after) ELSE g
    <3>1. Resolve(h, c) = ResolveCall(h, 1, c) BY <1>2, <1>5
    <3>2. QED BY <1>1, <1>5, <2>1, <2>2, <3>1 DEF ResolveCall
  <2>4. g.settled = h.settled /\ g.pending = [h.pending EXCEPT ![1].decisions = after]
    BY <2>2 DEF IsHub, HubFields
  <2>5. [h.pending EXCEPT ![1].decisions = after] = <<Asked(c.req, turn, index, after)>>
    <3>1. [p EXCEPT !.decisions = after] = Asked(c.req, turn, index, after)
      <4>1. ASSUME NEW es PROVE [p EXCEPT !.decisions = es] = Asked(c.req, turn, index, es)
        BY <1>0, AskedAgain
      <4>2. QED BY <4>1, Zenon
    <3>2. [h.pending EXCEPT ![1].decisions = after] = [h.pending EXCEPT ![1] = [p EXCEPT !.decisions = after]]
      BY <1>1
    <3>3. QED BY <1>1, <3>1, <3>2
  <2>6. QED BY <2>3, <2>4, <2>5
<1>6. QED BY <1>3, <1>4, <1>5

\* The end of the run over at most one pending request, none settled yet.
LEMMA RetireOnly ==
  ASSUME Window # 0, NEW h, IsHub(h), NEW p, h.pending = <<p>>, h.settled = <<>>
  PROVE  RetirePending(h).settled = IF DecidedCalls(p) = {} THEN <<>> ELSE <<Settlement(p)>>
<1>1. Len(h.pending) = 1 /\ h.pending[1] = p BY OneIsSequence
<1>2. PICK f : /\ IsRetiring(f, h.settled, h.pending, 1)
               /\ RetirePending(h).settled = f[1]
  BY <1>1, RetireFolds
<1>3. f[0] = <<>> /\ f[1] = Retired(f[0], p)
  <2>1. f[0] = h.settled BY <1>2 DEF IsRetiring
  <2>2. f[1] = Retired(f[1 - 1], h.pending[1]) BY <1>2 DEF IsRetiring
  <2>3. QED BY <1>1, <2>1, <2>2
<1>4. QED BY <1>2, <1>3, RememberFirst DEF Retired

LEMMA RetireNone ==
  ASSUME NEW h, IsHub(h), h.pending = <<>>
  PROVE  RetirePending(h).settled = h.settled
<1>1. Len(h.pending) = 0 OBVIOUS
<1>2. PICK f : /\ IsRetiring(f, h.settled, h.pending, 0)
               /\ RetirePending(h).settled = f[0]
  BY <1>1, RetireFolds
<1>3. f[0] = h.settled BY <1>2 DEF IsRetiring
<1>4. QED BY <1>2, <1>3
=============================================================================
