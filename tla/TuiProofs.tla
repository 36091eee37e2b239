------------------------------ MODULE TuiProofs ------------------------------
(***************************************************************************)
(* A theorem about TuiApp for any runs, items, widths and feed depth: what *)
(* arrives over the feed never puts an armed answer under the focus.       *)
(*                                                                         *)
(* Only the head dialog may be armed, and an operation on the queue keeps  *)
(* the order of what it leaves: a dialog that becomes the head was further *)
(* down, and is not armed.                                                 *)
(***************************************************************************)
EXTENDS TuiApp, BroadcasterProofs

DialogFields == {"request", "decisions", "armed", "selected", "submitted"}
IsDialog(d) == d = [f \in DialogFields |-> d[f]]

\* An armed dialog of r heads both queues, with the focus it had in q.
StillArmed(d, k, q) ==
  /\ k = 1 /\ Len(q) > 0 /\ q[1].armed
  /\ d.request = q[1].request /\ d.selected = q[1].selected

Calm(r, q) ==
  /\ IsSequence(r)
  /\ \A k \in 1..Len(r) : IsDialog(r[k]) /\ (r[k].armed => StillArmed(r[k], k, q))

HeadArmedOnly(q) == Calm(q, q)

\* The requests of a baseline are a sequence, in the hub and on their way.
FeedInv ==
  /\ IsHub(hub) /\ IsSequence(hub.pending)
  /\ IsSequence(feed)
  /\ \A i \in 1..Len(feed) : feed[i].kind = "sync" => IsSequence(feed[i].sync.pending)

FocusInv == FeedInv /\ HeadArmedOnly(dialogs)

---------------------------------------------------------------------------
(* Operations on the queue of dialogs.                                     *)

LEMMA NothingIsCalm ==
  ASSUME NEW q
  PROVE  Calm(<<>>, q)
  BY DEF Calm, IsSequence

LEMMA CalmIsTransitive ==
  ASSUME NEW r, NEW s, NEW q, Calm(r, s), Calm(s, q)
  PROVE  Calm(r, q)
<1> SUFFICES ASSUME NEW k \in 1..Len(r), r[k].armed PROVE StillArmed(r[k], k, q)
  BY DEF Calm
<1>1. StillArmed(r[k], k, s) BY DEF Calm
<1>2. Len(s) \in Nat /\ 1 \in 1..Len(s) BY <1>1 DEF Calm, IsSequence, StillArmed
<1>3. StillArmed(s[1], 1, q) BY <1>1, <1>2 DEF Calm, StillArmed
<1>4. QED BY <1>1, <1>3 DEF StillArmed

LEMMA CalmHead ==
  ASSUME NEW r, NEW q, Calm(r, q)
  PROVE  HeadArmedOnly(r)
<1> SUFFICES ASSUME NEW k \in 1..Len(r), r[k].armed PROVE StillArmed(r[k], k, r)
  BY DEF Calm, HeadArmedOnly
<1>1. k = 1 /\ Len(r) \in Nat BY DEF Calm, StillArmed, IsSequence
<1>2. QED BY <1>1 DEF StillArmed

LEMMA NewIsUnarmed ==
  ASSUME NEW request, NEW decisions
  PROVE  /\ IsDialog(NewDialog(request, decisions)) /\ ~NewDialog(request, decisions).armed
         /\ NewDialog(request, decisions).request = request
  BY DEF NewDialog, IsDialog, DialogFields

LEMMA ResyncDisarms ==
  ASSUME NEW d, NEW decisions
  PROVE  IsDialog(Resync(d, decisions)) /\ ~Resync(d, decisions).armed
<1> DEFINE new == NewDialog(d.request, decisions)
<1>1. IsDialog(new) /\ ~new.armed BY NewIsUnarmed
<1> HIDE DEF new
<1>2. ASSUME NEW g, IsDialog(g), ~g.armed, NEW x
      PROVE  /\ IsDialog([g EXCEPT !.submitted = x]) /\ ~[g EXCEPT !.submitted = x].armed
             /\ IsDialog([g EXCEPT !.selected = x]) /\ ~[g EXCEPT !.selected = x].armed
  BY <1>2 DEF IsDialog, DialogFields
<1>3. QED BY <1>1, <1>2 DEF Resync, new

\* A recorded decision leaves the focus where it is, or disarms.
LEMMA SettlingDisarms ==
  ASSUME NEW d, IsDialog(d), NEW i, NEW decision
  PROVE  LET after == SettleCall(d, i, decision) IN
         /\ IsDialog(after) /\ after.request = d.request
         /\ after.armed => d.armed /\ after.selected = d.selected
<1> DEFINE decided == [d EXCEPT !.decisions[i] = decision]
<1>1. /\ IsDialog(decided) /\ decided.request = d.request
      /\ decided.armed = d.armed /\ decided.selected = d.selected
  BY DEF IsDialog, DialogFields
<1> HIDE DEF decided
<1>2. /\ IsDialog(MoveFocus(decided, FALSE))
      /\ MoveFocus(decided, FALSE).request = decided.request
  BY <1>1 DEF MoveFocus, IsDialog, DialogFields
<1>3. ASSUME NEW g, IsDialog(g)
      PROVE  /\ IsDialog([g EXCEPT !.armed = FALSE]) /\ ~[g EXCEPT !.armed = FALSE].armed
             /\ [g EXCEPT !.armed = FALSE].request = g.request
  BY <1>3 DEF IsDialog, DialogFields
<1>4. /\ IsDialog(Refocused(decided, i)) /\ Refocused(decided, i).request = d.request
      /\ Refocused(decided, i).armed =>
           d.armed /\ Refocused(decided, i).selected = d.selected
  BY <1>1, <1>2, <1>3 DEF Refocused
<1>5. QED BY <1>4 DEF SettleCall, decided

\* Those(q, places), place by place.
IsPick(f, q, places, n) ==
  f = [i \in 0..n |-> IF i = 0 THEN <<>>
                      ELSE IF i \in places THEN Append(f[i - 1], q[i]) ELSE f[i - 1]]

\* A queue whose elements are among the first n of q, none further up.
Ordered(s, q, n) ==
  /\ IsSequence(s) /\ Len(s) <= n
  /\ \A k \in 1..Len(s) : \E j \in 1..n : k <= j /\ s[k] = q[j]

LEMMA PickExists ==
  ASSUME NEW q, NEW places, NEW n \in Nat
  PROVE  \E f : IsPick(f, q, places, n)
<1> DEFINE S == {k \in 0..n : \E f : IsPick(f, q, places, k)}
<1>1. 0 \in S
  <2>1. IsPick([i \in 0..0 |-> <<>>], q, places, 0) BY DEF IsPick
  <2>2. \E f : IsPick(f, q, places, 0) BY <2>1
  <2>3. QED BY <2>2
<1>2. ASSUME NEW k \in 0..(n - 1), k \in S PROVE k + 1 \in S
  <2>1. PICK f : IsPick(f, q, places, k) BY <1>2
  <2> DEFINE last == IF k + 1 \in places THEN Append(f[k], q[k + 1]) ELSE f[k]
             g == [i \in 0..(k + 1) |-> IF i = k + 1 THEN last ELSE f[i]]
  <2>2. \A i \in 0..(k + 1) :
          g[i] = IF i = 0 THEN <<>>
                 ELSE IF i \in places THEN Append(g[i - 1], q[i]) ELSE g[i - 1]
    <3>1. \A i \in 0..k :
            f[i] = IF i = 0 THEN <<>>
                   ELSE IF i \in places THEN Append(f[i - 1], q[i]) ELSE f[i - 1]
      BY <2>1 DEF IsPick
    <3>2. g[k + 1] = last /\ \A i \in 0..k : g[i] = f[i] OBVIOUS
    <3> HIDE DEF g
    <3>3. ASSUME NEW i \in 0..k
          PROVE  g[i] = IF i = 0 THEN <<>>
                        ELSE IF i \in places THEN Append(g[i - 1], q[i]) ELSE g[i - 1]
      BY <3>1, <3>2
    <3>4. QED BY <3>2, <3>3
  <2>3. g = [i \in 0..(k + 1) |-> g[i]] OBVIOUS
  <2> HIDE DEF g
  <2>4. IsPick(g, q, places, k + 1) BY <2>2, <2>3 DEF IsPick
  <2>5. \E h : IsPick(h, q, places, k + 1) BY <2>4
  <2>6. QED BY <2>5
<1> HIDE DEF S
<1>3. n \in S BY <1>1, <1>2, Induction
<1>4. QED BY <1>3 DEF S

\* What stays of a queue is in its order.
LEMMA ThoseKeepOrder ==
  ASSUME NEW q, IsSequence(q), NEW places
  PROVE  Ordered(Those(q, places), q, Len(q))
<1>1. Len(q) \in Nat BY DEF IsSequence
<1>2. \E f : IsPick(f, q, places, Len(q)) BY <1>1, PickExists
<1>3. PICK f : IsPick(f, q, places, Len(q)) /\ Those(q, places) = f[Len(q)]
  BY <1>2 DEF IsPick, Those
<1>4. /\ f[0] = <<>>
      /\ \A n \in 0..(Len(q) - 1) :
           f[n + 1] = IF n + 1 \in places THEN Append(f[n], q[n + 1]) ELSE f[n]
  <2>1. \A n \in 0..Len(q) :
          f[n] = IF n = 0 THEN <<>>
                 ELSE IF n \in places THEN Append(f[n - 1], q[n]) ELSE f[n - 1]
    BY <1>3 DEF IsPick
  <2>2. QED BY <1>1, <2>1
<1> DEFINE S == {n \in 0..Len(q) : Ordered(f[n], q, n)}
<1>5. 0 \in S
  <2>1. IsSequence(<<>>) /\ Len(<<>>) = 0 BY DEF IsSequence
  <2>2. Ordered(<<>>, q, 0) BY <2>1 DEF Ordered
  <2>3. QED BY <1>1, <1>4, <2>2
<1>6. ASSUME NEW n \in 0..(Len(q) - 1), n \in S PROVE n + 1 \in S
  <2>1. Ordered(f[n], q, n) BY <1>6
  <2>2. Len(f[n]) \in Nat BY <2>1 DEF Ordered, IsSequence
  <2>3. CASE n + 1 \in places
    <3>1. f[n + 1] = Append(f[n], q[n + 1]) BY <1>4, <2>3
    <3>2. /\ IsSequence(f[n + 1]) /\ Len(f[n + 1]) = Len(f[n]) + 1
          /\ \A i \in 1..Len(f[n]) : f[n + 1][i] = f[n][i]
          /\ f[n + 1][Len(f[n]) + 1] = q[n + 1]
      BY <2>1, <3>1, AppendIsSequence DEF Ordered
    <3>3. Ordered(f[n + 1], q, n + 1)
      <4>1. ASSUME NEW k \in 1..(Len(f[n]) + 1)
            PROVE  \E j \in 1..(n + 1) : k <= j /\ f[n + 1][k] = q[j]
        <5>1. CASE k = Len(f[n]) + 1 BY <1>1, <2>1, <2>2, <3>2, <5>1 DEF Ordered
        <5>2. CASE k \in 1..Len(f[n]) BY <1>1, <2>1, <2>2, <3>2, <5>2 DEF Ordered
        <5>3. QED BY <2>2, <5>1, <5>2
      <4>2. QED BY <1>1, <2>1, <2>2, <3>2, <4>1 DEF Ordered
    <3>4. QED BY <1>1, <3>3
  <2>4. CASE n + 1 \notin places
    <3>1. f[n + 1] = f[n] BY <1>4, <2>4
    <3>2. Ordered(f[n], q, n + 1) BY <1>1, <2>1, <2>2 DEF Ordered
    <3>3. QED BY <1>1, <3>1, <3>2
  <2>5. QED BY <2>3, <2>4
<1> HIDE DEF S
<1>7. Len(q) \in S
  <2>1. \A n \in 0..(Len(q) - 1) : n \in S => n + 1 \in S BY <1>6
  <2>2. \A n \in 0..Len(q) : n \in S BY <1>1, <1>5, <2>1, Induction
  <2>3. QED BY <1>1, <2>2
<1>8. QED BY <1>3, <1>7 DEF S

LEMMA ThoseAreCalm ==
  ASSUME NEW q, HeadArmedOnly(q), NEW places
  PROVE  Calm(Those(q, places), q)
<1> DEFINE r == Those(q, places)
<1>1. IsSequence(q) /\ Len(q) \in Nat BY DEF HeadArmedOnly, Calm, IsSequence
<1>2. Ordered(r, q, Len(q)) BY <1>1, ThoseKeepOrder
<1> HIDE DEF r
<1>3. IsSequence(r) /\ Len(r) \in Nat BY <1>2 DEF Ordered, IsSequence
<1>4. ASSUME NEW k \in 1..Len(r) PROVE IsDialog(r[k]) /\ (r[k].armed => StillArmed(r[k], k, q))
  <2>1. PICK j \in 1..Len(q) : k <= j /\ r[k] = q[j] BY <1>2 DEF Ordered
  <2>2. IsDialog(q[j]) /\ (q[j].armed => StillArmed(q[j], j, q))
    BY DEF HeadArmedOnly, Calm
  <2>3. ASSUME q[j].armed PROVE StillArmed(q[j], k, q)
    BY <1>3, <2>1, <2>2, <2>3 DEF StillArmed
  <2>4. QED BY <2>1, <2>2, <2>3
<1>5. QED BY <1>3, <1>4 DEF Calm, r

LEMMA QueuedIsCalm ==
  ASSUME NEW q, HeadArmedOnly(q), NEW request, NEW decisions
  PROVE  Calm(Queued(q, request, decisions), q)
<1> DEFINE d == NewDialog(request, decisions)
           r == Append(q, d)
<1>1. IsDialog(d) /\ ~d.armed BY NewIsUnarmed
<1>2. IsSequence(q) BY DEF HeadArmedOnly, Calm
<1>3. Queued(q, request, decisions) \in {q, r} BY DEF Queued
<1> HIDE DEF d
<1>4. /\ IsSequence(r) /\ Len(q) \in Nat /\ Len(r) = Len(q) + 1
      /\ \A i \in 1..Len(q) : r[i] = q[i]
      /\ r[Len(q) + 1] = d
  BY <1>2, AppendIsSequence
<1> HIDE DEF r
<1>5. ASSUME NEW k \in 1..Len(r) PROVE IsDialog(r[k]) /\ (r[k].armed => StillArmed(r[k], k, q))
  <2>1. CASE k \in 1..Len(q) BY <1>4, <2>1 DEF HeadArmedOnly, Calm
  <2>2. CASE k = Len(q) + 1 BY <1>1, <1>4, <2>2
  <2>3. QED BY <1>4, <2>1, <2>2
<1>6. Calm(r, q) BY <1>4, <1>5 DEF Calm
<1>7. QED BY <1>3, <1>6 DEF HeadArmedOnly

LEMMA SettleOneIsCalm ==
  ASSUME NEW q, HeadArmedOnly(q), NEW c
  PROVE  Calm(SettleOne(q, c), q)
<1> DEFINE s == [i \in DOMAIN q |-> IF q[i].request = c.req
                                    THEN SettleCall(q[i], c.index, c.decision) ELSE q[i]]
<1>1. IsSequence(q) /\ Len(q) \in Nat /\ DOMAIN q = 1..Len(q)
  BY DEF HeadArmedOnly, Calm, IsSequence
<1>2. s = [i \in 1..Len(q) |-> s[i]] BY <1>1
<1>3. SettleOne(q, c) = Open(s) BY DEF SettleOne
<1>5. ASSUME NEW k \in 1..Len(q) PROVE IsDialog(s[k]) /\ (s[k].armed => StillArmed(s[k], k, q))
  <2>1. IsDialog(q[k]) /\ (q[k].armed => StillArmed(q[k], k, q)) BY DEF HeadArmedOnly, Calm
  <2>2. CASE s[k] = q[k] BY <2>1, <2>2
  <2>3. CASE s[k] = SettleCall(q[k], c.index, c.decision)
    <3>1. /\ IsDialog(s[k]) /\ s[k].request = q[k].request
          /\ s[k].armed => q[k].armed /\ s[k].selected = q[k].selected
      BY <2>1, <2>3, SettlingDisarms
    <3>2. QED BY <2>1, <3>1 DEF StillArmed
  <2>4. QED BY <1>1, <2>2, <2>3
<1> HIDE DEF s
<1>6. IsSequence(s) /\ Len(s) = Len(q) BY <1>1, <1>2, FunctionIsSequence
<1>7. Calm(s, q) BY <1>5, <1>6 DEF Calm
<1>8. HeadArmedOnly(s) BY <1>7, CalmHead
<1>9. Calm(Open(s), s) BY <1>8, ThoseAreCalm DEF Open
<1>10. QED BY <1>3, <1>7, <1>9, CalmIsTransitive

\* An item: a request joins at the end, a decision takes out or settles.
LEMMA ItemIsCalm ==
  ASSUME NEW q, HeadArmedOnly(q), NEW item
  PROVE  Calm(AfterItem(q, item), q)
<1>1. Calm(q, q) /\ Calm(<<>>, q) BY NothingIsCalm DEF HeadArmedOnly
<1>2. Calm(SettleBatch(q, item.event.cmd), q) BY ThoseAreCalm DEF SettleBatch, Others
<1>3. Calm(SettleOne(q, item.event.cmd), q) BY SettleOneIsCalm
<1>4. Calm(SettleApproval(q, item.event), q) BY <1>1, <1>2, <1>3 DEF SettleApproval
<1>5. \A decisions : Calm(Queued(q, item.request, decisions), q) BY QueuedIsCalm
<1>6. QED BY <1>1, <1>4, <1>5 DEF AfterItem

\* A baseline: whatever comes of it is disarmed.
LEMMA SyncIsCalm ==
  ASSUME NEW queued, NEW pending, IsSequence(pending), NEW q
  PROVE  Calm(SyncApprovals(queued, pending), q)
<1> DEFINE Of(r) == CHOOSE i \in DOMAIN queued : queued[i].request = r
           s == [k \in DOMAIN pending |->
                   IF pending[k].request \in {queued[i].request : i \in DOMAIN queued}
                   THEN Resync(queued[Of(pending[k].request)], pending[k].decisions)
                   ELSE NewDialog(pending[k].request, pending[k].decisions)]
<1>1. DOMAIN pending = 1..Len(pending) /\ Len(pending) \in Nat BY DEF IsSequence
<1>2. s = [i \in 1..Len(pending) |-> s[i]] BY <1>1
<1>3. \A k \in 1..Len(pending) : IsDialog(s[k]) /\ ~s[k].armed
  BY <1>1, NewIsUnarmed, ResyncDisarms
<1>4. SyncApprovals(queued, pending) = Open(s) BY DEF SyncApprovals
<1> HIDE DEF s
<1>5. IsSequence(s) /\ Len(s) = Len(pending) BY <1>1, <1>2, FunctionIsSequence
<1>6. \A k \in 1..Len(s) : IsDialog(s[k]) /\ ~s[k].armed BY <1>3, <1>5
<1>7. Calm(s, q) /\ HeadArmedOnly(s) BY <1>5, <1>6 DEF Calm, HeadArmedOnly
<1>8. Calm(Open(s), s) BY <1>7, ThoseAreCalm DEF Open
<1>9. QED BY <1>4, <1>7, <1>8, CalmIsTransitive

---------------------------------------------------------------------------
(* The hub's pending requests.                                             *)

LEMMA SettleKeepsRequests ==
  ASSUME NEW h, IsHub(h), IsSequence(h.pending), NEW k \in DOMAIN h.pending, NEW decisions
  PROVE  IsSequence(Settle(h, k, decisions).pending)
<1>1. k \in 1..Len(h.pending) BY DEF IsSequence
<1>2. IsSequence(RemoveAt(h.pending, k)) BY <1>1, RemoveAtShifts
<1>3. Settle(h, k, decisions).pending = RemoveAt(h.pending, k)
  BY DEF Settle, IsHub, HubFields
<1>4. QED BY <1>2, <1>3

LEMMA ResolveKeepsRequests ==
  ASSUME NEW h, IsHub(h), IsSequence(h.pending), NEW c
  PROVE  IsSequence(Resolve(h, c).pending)
<1>1. ASSUME NEW k \in DOMAIN h.pending PROVE IsSequence(ResolveCall(h, k, c).pending)
  <2> DEFINE after == [h.pending[k].decisions EXCEPT ![c.index] = c.decision]
             r == [h.pending[k] EXCEPT !.decisions = after]
  <2>1. IsSequence(Settle(h, k, after).pending) BY SettleKeepsRequests
  <2> HIDE DEF after
  <2>2. [h EXCEPT !.pending[k].decisions = after].pending = [h.pending EXCEPT ![k] = r]
    BY DEF IsHub, HubFields
  <2>3. IsSequence([h.pending EXCEPT ![k] = r]) BY ExceptIsSequence
  <2>4. QED BY <2>1, <2>2, <2>3 DEF ResolveCall, after
<1>2. ASSUME NEW k \in DOMAIN h.pending PROVE IsSequence(ResolveBatch(h, k, c).pending)
  BY SettleKeepsRequests DEF ResolveBatch
<1>3. CASE \E k \in DOMAIN h.pending : h.pending[k].request = c.req
  <2> DEFINE First(k) == /\ h.pending[k].request = c.req
                         /\ \A j \in 1..(k - 1) : h.pending[j].request # c.req
  <2>1. DOMAIN h.pending = 1..Len(h.pending) /\ Len(h.pending) \in Nat BY DEF IsSequence
  <2>2. \E k \in DOMAIN h.pending : First(k)
    <3> DEFINE T == {k \in DOMAIN h.pending : h.pending[k].request = c.req}
    <3>1. T \subseteq Nat /\ T # {} BY <1>3, <2>1
    <3> HIDE DEF T
    <3>2. PICK m \in T : \A j \in T : m <= j BY <3>1, LeastNatural
    <3>3. m \in DOMAIN h.pending /\ h.pending[m].request = c.req BY <3>2 DEF T
    <3>4. \A j \in 1..(m - 1) : j \in DOMAIN h.pending /\ j \notin T BY <2>1, <3>2, <3>3
    <3>5. QED BY <3>3, <3>4 DEF T
  <2> DEFINE k == CHOOSE k \in DOMAIN h.pending : First(k)
  <2>3. k \in DOMAIN h.pending BY <2>2
  <2>4. Resolve(h, c) = IF c.kind = "batch" THEN ResolveBatch(h, k, c) ELSE ResolveCall(h, k, c)
    BY <1>3 DEF Resolve
  <2> HIDE DEF k
  <2>5. QED BY <1>1, <1>2, <2>3, <2>4
<1>4. CASE ~\E k \in DOMAIN h.pending : h.pending[k].request = c.req BY <1>4 DEF Resolve
<1>5. QED BY <1>3, <1>4

LEMMA RetireKeepsRequests ==
  ASSUME NEW h, IsHub(h)
  PROVE  IsSequence(RetirePending(h).pending)
<1>1. ASSUME NEW s PROVE [h EXCEPT !.pending = <<>>, !.settled = s].pending = <<>>
  BY DEF IsHub, HubFields
<1>2. RetirePending(h).pending = <<>> BY <1>1 DEF RetirePending
<1>3. IsSequence(<<>>) BY DEF IsSequence
<1>4. QED BY <1>2, <1>3

LEMMA ShutKeepsRequests ==
  ASSUME NEW h, IsHub(h)
  PROVE  IsSequence(Shut(h).pending)
<1>1. IsHub(RetirePending(h)) BY RetireKeeps DEF Keeps
<1>2. Shut(h).pending = RetirePending(h).pending BY <1>1 DEF Shut, IsHub, HubFields
<1>3. QED BY <1>2, RetireKeepsRequests

LEMMA TransitionKeepsRequests ==
  ASSUME NEW h, IsHub(h), IsSequence(h.pending), NEW e
  PROVE  IsSequence(Transition(h, e).pending)
<1>1. [h EXCEPT !.open = NoOpenTurn].pending = h.pending BY DEF IsHub, HubFields
<1>2. \A d : [h EXCEPT !.done = d].pending = h.pending BY DEF IsHub, HubFields
<1>3. IsSequence(Resolve(h, e.cmd).pending) BY ResolveKeepsRequests
<1>4. IsSequence([RetirePending(h) EXCEPT !.open = NoOpenTurn, !.done = {}].pending)
  <2>1. IsHub(RetirePending(h)) BY RetireKeeps DEF Keeps
  <2>2. [RetirePending(h) EXCEPT !.open = NoOpenTurn, !.done = {}].pending
          = RetirePending(h).pending
    BY <2>1 DEF IsHub, HubFields
  <2>3. QED BY <2>2, RetireKeepsRequests
<1>5. QED BY <1>1, <1>2, <1>3, <1>4 DEF Transition

LEMMA TrackKeepsRequests ==
  ASSUME NEW h, IsHub(h), IsSequence(h.pending), NEW item,
         item.kind \in {"recorded", "delta", "completed", "requested"}
  PROVE  IsSequence(Track(h, item).pending)
<1> DEFINE at == [h EXCEPT !.last = item.seq]
<1>1. IsHub(at) /\ at.pending = h.pending BY DEF IsHub, HubFields
<1>2. Track(h, item) \in {TrackRecorded(at, item.event), TrackDelta(at, item.turn),
                          TrackCompleted(at, item.done), TrackRequested(at, item)}
  BY DEF Track
<1> HIDE DEF at
<1>3. IsSequence(TrackRecorded(at, item.event).pending)
  <2>1. IsSequence(Transition(at, item.event).pending) BY <1>1, TransitionKeepsRequests
  <2>2. IsHub(Transition(at, item.event)) BY <1>1, TransitionKeeps DEF Keeps
  <2>3. ASSUME NEW g, IsHub(g), NEW e
        PROVE  [g EXCEPT !.events = Append(@, e), !.seen = @ \cup {e.id}].pending = g.pending
    BY <2>3 DEF IsHub, HubFields
  <2>4. QED BY <1>1, <2>1, <2>2, <2>3 DEF TrackRecorded
<1>4. TrackDelta(at, item.turn).pending = h.pending
  BY <1>1 DEF IsHub, HubFields, TrackDelta
<1>5. TrackCompleted(at, item.done).pending = h.pending
  BY <1>1 DEF IsHub, HubFields, TrackCompleted
<1>6. IsSequence(TrackRequested(at, item).pending)
  <2>1. PICK r : TrackRequested(at, item).pending = Append(h.pending, r)
    BY <1>1 DEF IsHub, HubFields, TrackRequested
  <2>2. QED BY <2>1, AppendIsSequence
<1>7. QED BY <1>2, <1>3, <1>4, <1>5, <1>6

---------------------------------------------------------------------------
(* One lemma per party.                                                    *)

\* What FocusMovesDisarmed says of a step.
FocusStep ==
  feed' # feed /\ dialogs' # <<>> /\ dialogs'[1].armed
    => /\ dialogs # <<>> /\ dialogs[1].armed
       /\ dialogs[1].request = dialogs'[1].request
       /\ dialogs[1].selected = dialogs'[1].selected

LEMMA CalmQueueKeepsFocus ==
  ASSUME NEW r, NEW q, Calm(r, q), r # <<>>, r[1].armed
  PROVE  /\ q # <<>> /\ q[1].armed
         /\ q[1].request = r[1].request /\ q[1].selected = r[1].selected
<1>1. 1 \in 1..Len(r)
  <2>1. IsSequence(r) BY DEF Calm
  <2>2. QED BY <2>1, TailIsSequence
<1>2. StillArmed(r[1], 1, q) BY <1>1 DEF Calm
<1>3. q # <<>> BY <1>2 DEF StillArmed
<1>4. QED BY <1>2, <1>3 DEF StillArmed

LEMMA CalmStep ==
  ASSUME Calm(dialogs', dialogs)
  PROVE  HeadArmedOnly(dialogs)' /\ FocusStep
<1>1. HeadArmedOnly(dialogs') BY CalmHead
<1>2. QED BY <1>1, CalmQueueKeepsFocus DEF HeadArmedOnly, FocusStep

LEMMA StillDialogs ==
  ASSUME HeadArmedOnly(dialogs), UNCHANGED dialogs
  PROVE  HeadArmedOnly(dialogs)' /\ FocusStep
  BY CalmStep DEF HeadArmedOnly

LEMMA StillFeed ==
  ASSUME FeedInv, UNCHANGED <<hub, feed>>
  PROVE  FeedInv'
  BY DEF FeedInv

\* The loop: the hub tracks what it says, or shuts.
LEMMA LoopKeeps ==
  ASSUME FocusInv, Loop
  PROVE  FocusInv' /\ FocusStep
<1>1. UNCHANGED <<feed, dialogs>>
  BY DEF Loop, LoopStarts, LoopSpeaks, OthersDecide, LoopTakes, LoopSteers, LoopFinishes,
         LoopEnds, feedVars, inputVars
<1>2. HeadArmedOnly(dialogs)' /\ FocusStep BY <1>1, StillDialogs DEF FocusInv
<1>3. ASSUME NEW item, LoopSays(item), "kind" \in DOMAIN item,
             item.kind \in {"recorded", "delta", "completed", "requested"}
      PROVE  IsHub(hub') /\ IsSequence(hub'.pending)
  <2> DEFINE said == Stamped(item, "seq", hub.last + 1)
  <2>1. said.kind = item.kind BY <1>3 DEF Stamped
  <2>2. hub' = Track(hub, said) BY <1>3 DEF LoopSays, Publish, PublishItem
  <2> HIDE DEF said
  <2>3. QED BY <1>3, <2>1, <2>2, TrackMovesOn, TrackKeepsRequests DEF FocusInv, FeedInv
<1>4. IsHub(hub') /\ IsSequence(hub'.pending)
  <2>1. \A e : "kind" \in DOMAIN Recording(e) /\ Recording(e).kind = "recorded"
    BY DEF Recording
  <2>2. CASE LoopStarts BY <1>3, <2>1, <2>2 DEF LoopStarts
  <2>3. CASE LoopSpeaks
    <3>1. PICK o \in Offered : LoopSays(Said(o)) BY <2>3 DEF LoopSpeaks
    <3>2. Said(o).kind = o.kind BY <2>1 DEF Said
    <3>3. /\ "kind" \in DOMAIN Said(o)
          /\ Said(o).kind \in {"recorded", "delta", "completed", "requested"}
      BY <2>1, <3>2, BroadcasterAssumption DEF Said
    <3>4. QED BY <1>3, <3>1, <3>3
  <2>4. ASSUME NEW c, LoopSays(Resolving(c)) PROVE IsHub(hub') /\ IsSequence(hub'.pending)
    BY <1>3, <2>1, <2>4 DEF Resolving
  <2>5. CASE OthersDecide BY <2>4, <2>5 DEF OthersDecide
  <2>6. CASE LoopTakes
    <3>1. CASE LoopSays(Resolving(Head(commands))) BY <2>4, <3>1
    <3>2. CASE UNCHANGED vars BY <3>2 DEF vars, hubVars, FocusInv, FeedInv
    <3>3. QED BY <2>6, <3>1, <3>2 DEF LoopTakes
  <2>7. CASE LoopSteers BY <1>3, <2>1, <2>7 DEF LoopSteers
  <2>8. CASE LoopFinishes BY <1>3, <2>1, <2>8 DEF LoopFinishes
  <2>9. CASE LoopEnds
    <3>1. hub' = Shut(hub) BY <2>9 DEF LoopEnds, Close
    <3>2. QED BY <3>1, ShutKeeps, ShutKeepsRequests DEF FocusInv, FeedInv, Keeps
  <2>10. QED BY <2>2, <2>3, <2>5, <2>6, <2>7, <2>8, <2>9 DEF Loop
<1>5. FeedInv' BY <1>1, <1>4 DEF FocusInv, FeedInv
<1>6. QED BY <1>2, <1>5 DEF FocusInv

\* The drainer: one message more at most, a baseline's requests those of the hub.
LEMMA DrainerKeeps ==
  ASSUME FocusInv, Drainer
  PROVE  FocusInv' /\ FocusStep
<1>1. UNCHANGED <<hub, dialogs>>
  BY DEF Drainer, DrainerForwards, DrainerLags, DrainerReattaches, DrainerEnds, DrainerReports,
         ReadItem, ReadLagged, ReadEnd, Attach, inputVars, vars, hubVars
<1>2. HeadArmedOnly(dialogs)' /\ FocusStep BY <1>1, StillDialogs DEF FocusInv
<1>3. ASSUME NEW m, feed' = Append(feed, m), m.kind = "sync" => IsSequence(m.sync.pending)
      PROVE  FeedInv'
  <2>1. /\ IsSequence(feed') /\ Len(feed) \in Nat /\ Len(feed') = Len(feed) + 1
        /\ \A i \in 1..Len(feed) : feed'[i] = feed[i]
        /\ feed'[Len(feed) + 1] = m
    BY <1>3, AppendIsSequence DEF FocusInv, FeedInv
  <2>2. ASSUME NEW i \in 1..(Len(feed) + 1), feed'[i].kind = "sync"
        PROVE  IsSequence(feed'[i].sync.pending)
    <3>1. CASE i \in 1..Len(feed) BY <2>1, <2>2, <3>1 DEF FocusInv, FeedInv
    <3>2. CASE i = Len(feed) + 1 BY <1>3, <2>1, <2>2, <3>2
    <3>3. QED BY <2>1, <3>1, <3>2
  <2>3. QED BY <1>1, <2>1, <2>2 DEF FocusInv, FeedInv
<1>4. ASSUME DrainerForwards PROVE FeedInv'
  <2>1. feed' = Append(feed, [kind |-> "item", item |-> Head(queue[Current])])
    BY <1>4 DEF DrainerForwards
  <2>2. QED BY <1>3, <2>1
<1>5. ASSUME DrainerReattaches PROVE FeedInv'
  <2>1. feed' = Append(feed, [kind |-> "sync", sync |-> Baseline, resync |-> TRUE])
    BY <1>5 DEF DrainerReattaches
  <2>2. Baseline.pending = hub.pending BY DEF Baseline
  <2>3. QED BY <1>3, <2>1, <2>2 DEF FocusInv, FeedInv
<1>6. ASSUME DrainerReports PROVE FeedInv'
  <2>1. feed' = Append(feed, [kind |-> "outcome", ok |-> report.ok,
                              messages |-> report.messages])
    BY <1>6 DEF DrainerReports
  <2>2. QED BY <1>3, <2>1
<1>7. ASSUME DrainerLags \/ DrainerEnds PROVE FeedInv'
  <2>1. UNCHANGED feed BY <1>7 DEF DrainerLags, DrainerEnds
  <2>2. QED BY <1>1, <2>1, StillFeed DEF FocusInv
<1>8. FeedInv' BY <1>4, <1>5, <1>6, <1>7 DEF Drainer
<1>9. QED BY <1>2, <1>8 DEF FocusInv

\* The app's side of the feed.
LEMMA FeedKeeps ==
  ASSUME FocusInv, OnFeed
  PROVE  FocusInv' /\ FocusStep
<1>1. UNCHANGED hub /\ feed # <<>> /\ feed' \in {Tail(feed), <<>>}
  BY DEF OnFeed, OnItem, OnSync, OnOutcome, vars, hubVars
<1>2. FeedInv'
  <2>1. CASE feed' = Tail(feed)
    <3>1. /\ IsSequence(feed') /\ Len(feed) \in Nat /\ Len(feed') = Len(feed) - 1
          /\ \A i \in 1..(Len(feed) - 1) : feed'[i] = feed[i + 1]
      BY <1>1, <2>1, TailIsSequence DEF FocusInv, FeedInv
    <3>2. QED BY <1>1, <3>1 DEF FocusInv, FeedInv
  <2>2. CASE feed' = <<>> BY <1>1, <2>2 DEF FocusInv, FeedInv, IsSequence
  <2>3. QED BY <1>1, <2>1, <2>2
<1>3. HeadArmedOnly(dialogs) BY DEF FocusInv
<1>4. Calm(dialogs', dialogs)
  <2>1. CASE OnItem
    <3>1. dialogs' \in {AfterItem(dialogs, Head(feed).item), dialogs} BY <2>1 DEF OnItem
    <3>2. QED BY <1>3, <3>1, ItemIsCalm DEF HeadArmedOnly
  <2>2. CASE OnSync
    <3>1. /\ dialogs' = SyncApprovals(dialogs, Head(feed).sync.pending)
          /\ Head(feed).kind = "sync"
      BY <2>2 DEF OnSync
    <3>2. Head(feed) = feed[1] /\ 1 \in 1..Len(feed)
      BY <1>1, TailIsSequence DEF FocusInv, FeedInv
    <3>3. IsSequence(Head(feed).sync.pending) BY <3>1, <3>2 DEF FocusInv, FeedInv
    <3>4. QED BY <3>1, <3>3, SyncIsCalm
  <2>3. CASE OnOutcome BY <2>3, NothingIsCalm DEF OnOutcome
  <2>4. QED BY <2>1, <2>2, <2>3 DEF OnFeed
<1>5. QED BY <1>2, <1>4, CalmStep DEF FocusInv

\* Keys on the head dialog arm or disarm that one.
LEMMA HeadKeyKeeps ==
  ASSUME FocusInv, dialogs # <<>>, NEW d, IsDialog(d), dialogs' = [dialogs EXCEPT ![1] = d],
         UNCHANGED <<hub, feed>>
  PROVE  FocusInv' /\ FocusStep
<1>1. IsSequence(dialogs) /\ Len(dialogs) \in Nat BY DEF FocusInv, HeadArmedOnly, Calm, IsSequence
<1>2. IsSequence(dialogs') /\ Len(dialogs') = Len(dialogs) BY <1>1, ExceptIsSequence
<1>3. 1 \in 1..Len(dialogs) BY <1>1, TailIsSequence
<1>4. DOMAIN dialogs = 1..Len(dialogs) BY <1>1 DEF IsSequence
<1>5. dialogs'[1] = d /\ \A i \in 2..Len(dialogs) : dialogs'[i] = dialogs[i]
  BY <1>1, <1>3, <1>4
<1>6. ASSUME NEW k \in 1..Len(dialogs)
      PROVE  IsDialog(dialogs'[k]) /\ (dialogs'[k].armed => StillArmed(dialogs'[k], k, dialogs'))
  <2>1. CASE k = 1 BY <1>1, <1>2, <1>3, <1>5, <2>1 DEF StillArmed
  <2>2. CASE k \in 2..Len(dialogs)
    <3>1. IsDialog(dialogs[k]) /\ (dialogs[k].armed => k = 1)
      BY <2>2, <1>1 DEF FocusInv, HeadArmedOnly, Calm, StillArmed
    <3>2. QED BY <1>5, <2>2, <3>1
  <2>3. QED BY <1>1, <2>1, <2>2
<1>7. Calm(dialogs', dialogs') BY <1>2, <1>6 DEF Calm
<1>8. FeedInv' BY StillFeed DEF FocusInv
<1>9. FocusStep BY DEF FocusStep
<1>10. QED BY <1>7, <1>8, <1>9 DEF FocusInv, HeadArmedOnly

LEMMA KeyKeepsShape ==
  ASSUME NEW d, IsDialog(d)
  PROVE  IsDialog(AfterSubmit(d)) /\ \A backwards : IsDialog(MoveFocus(d, backwards))
<1>1. ASSUME NEW g, IsDialog(g), NEW backwards PROVE IsDialog(MoveFocus(g, backwards))
  BY <1>1 DEF MoveFocus, IsDialog, DialogFields
<1>2. ASSUME NEW g, IsDialog(g), NEW x
      PROVE  IsDialog([g EXCEPT !.armed = FALSE]) /\ IsDialog([g EXCEPT !.submitted[x] = TRUE])
  BY <1>2 DEF IsDialog, DialogFields
<1>3. QED BY <1>1, <1>2 DEF AfterSubmit

LEMMA KeyboardKeeps ==
  ASSUME FocusInv, Keyboard
  PROVE  FocusInv' /\ FocusStep
<1>1. CASE Submit
  <2> DEFINE m == [kind |-> "sync", sync |-> FreshBaseline, resync |-> FALSE]
  <2>1. hub' = EmptyHub /\ feed' = <<m>> /\ UNCHANGED dialogs BY <1>1 DEF Submit
  <2>2. m.sync.pending = <<>> BY DEF FreshBaseline
  <2>3. IsHub(EmptyHub) /\ EmptyHub.pending = <<>> BY DEF EmptyHub, IsHub, HubFields
  <2>4. IsSequence(<<>>) BY DEF IsSequence
  <2> HIDE DEF m
  <2>5. IsSequence(<<m>>) /\ Len(<<m>>) = 1 /\ <<m>>[1] = m BY DEF IsSequence
  <2>6. FeedInv' BY <2>1, <2>2, <2>3, <2>4, <2>5 DEF FeedInv
  <2>7. QED BY <2>1, <2>6, StillDialogs DEF FocusInv
<1>2. CASE UNCHANGED <<hub, feed, dialogs>>
  BY <1>2, StillDialogs, StillFeed DEF FocusInv
<1>3. CASE Steer \/ Interrupt \/ Clear
  BY <1>2, <1>3 DEF Steer, Interrupt, Clear, vars, hubVars, feedVars, inputVars
<1>4. ASSUME dialogs # <<>> PROVE IsDialog(dialogs[1]) /\ 1 \in DOMAIN dialogs
  <2>1. IsSequence(dialogs) BY DEF FocusInv, HeadArmedOnly, Calm
  <2>2. 1 \in 1..Len(dialogs) BY <1>4, <2>1, TailIsSequence
  <2>3. QED BY <2>1, <2>2 DEF FocusInv, HeadArmedOnly, Calm, IsSequence
<1>5. ASSUME NEW backwards \in BOOLEAN, Tab(backwards) PROVE FocusInv' /\ FocusStep
  <2>1. /\ dialogs # <<>> /\ UNCHANGED <<hub, feed>>
        /\ dialogs' = [dialogs EXCEPT ![1] = MoveFocus(dialogs[1], backwards)]
    BY <1>5 DEF Tab, vars, hubVars, feedVars
  <2>2. IsDialog(MoveFocus(dialogs[1], backwards)) BY <1>4, <2>1, KeyKeepsShape
  <2>3. QED BY <2>1, <2>2, HeadKeyKeeps
<1>6. ASSUME NEW decision, AnswerKey(decision) PROVE FocusInv' /\ FocusStep
  <2>1. /\ dialogs # <<>> /\ UNCHANGED <<hub, feed>>
        /\ dialogs' = [dialogs EXCEPT ![1] = AfterSubmit(dialogs[1])]
    BY <1>6 DEF AnswerKey, vars, hubVars, feedVars
  <2>2. IsDialog(AfterSubmit(dialogs[1])) BY <1>4, <2>1, KeyKeepsShape
  <2>3. QED BY <2>1, <2>2, HeadKeyKeeps
<1>7. QED BY <1>1, <1>3, <1>5, <1>6 DEF Keyboard

---------------------------------------------------------------------------
LEMMA AppInitHolds == AppInit => FocusInv
<1> SUFFICES ASSUME AppInit PROVE FocusInv OBVIOUS
<1>1. hub = EmptyHub /\ feed = <<>> /\ dialogs = <<>> BY DEF AppInit, Init
<1>2. IsHub(EmptyHub) /\ EmptyHub.pending = <<>> BY DEF EmptyHub, IsHub, HubFields
<1>3. IsSequence(<<>>) BY DEF IsSequence
<1>4. HeadArmedOnly(<<>>) BY NothingIsCalm DEF HeadArmedOnly
<1>5. QED BY <1>1, <1>2, <1>3, <1>4 DEF FocusInv, FeedInv

LEMMA AppStepKeeps ==
  ASSUME FocusInv, [AppNext]_appVars
  PROVE  FocusInv' /\ FocusStep
<1>1. CASE Pump \/ OnResize \/ UNCHANGED appVars
  <2>1. UNCHANGED <<hub, feed, dialogs>>
    BY <1>1 DEF Pump, OnResize, appVars, vars, hubVars, feedVars, inputVars
  <2>2. QED BY <2>1, StillDialogs, StillFeed DEF FocusInv
<1>2. QED BY <1>1, LoopKeeps, DrainerKeeps, FeedKeeps, KeyboardKeeps DEF AppNext

(* A message of the feed, a lag's baseline included, never arms an answer: *)
(* an armed focus after it is the one the user armed, on the same call of  *)
(* the same request, so the next key answers what its owner looked at      *)
(* (approval.rs 42-47, 109-121; app.rs 872-952).                           *)
THEOREM FocusStaysDisarmed == AppSpec => FocusMovesDisarmed
<1>1. AppInit => FocusInv BY AppInitHolds
<1>2. FocusInv /\ [AppNext]_appVars => FocusInv' BY AppStepKeeps
<1>3. FocusInv /\ [AppNext]_appVars
        => [(feed' # feed /\ dialogs' # <<>> /\ dialogs'[1].armed)
            => /\ dialogs # <<>> /\ dialogs[1].armed
               /\ dialogs[1].request = dialogs'[1].request
               /\ dialogs[1].selected = dialogs'[1].selected]_appVars
  BY AppStepKeeps DEF FocusStep
<1>4. QED BY <1>1, <1>2, <1>3, PTL DEF AppSpec, FocusMovesDisarmed
=============================================================================
