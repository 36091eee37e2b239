--------------------------- MODULE BaselineProofs ---------------------------
(***************************************************************************)
(* Theorem: the baseline a client gets is what the log says, for every run *)
(* of items the loop may publish (WellFormedOffers), whatever is           *)
(* republished and whenever the hub closes.                                *)
(*                                                                         *)
(* The replica is a fold over the items, and the reference in Broadcaster  *)
(* looks at positions of the log.  Posted(o) is one item over both; each   *)
(* part of BaselineInv has a lemma Posted... for it.                       *)
(***************************************************************************)
EXTENDS BroadcasterProofs, FiniteSetTheorems

---------------------------------------------------------------------------
(* The log.                                                                *)

IsRecorded(i) == published[i].kind = "recorded"

RecordedAll == {i \in DOMAIN published : IsRecorded(i)}

\* An item of the log is one the loop offered, at its own position.
LogIsOffered ==
  \A i \in DOMAIN published : \E o \in Offered : published[i] = Stamped(o, "seq", i)

SeenIsLogged == hub.seen = {published[i].event.id : i \in RecordedAll}

RequestsAreDistinct ==
  \A i, j \in DOMAIN published :
    RequestAt(i) /\ RequestAt(j) /\ published[i].request = published[j].request => i = j

LogInv == HubInv /\ LogIsOffered /\ SeenIsLogged /\ RequestsAreDistinct

\* One item published over a log that keeps the invariant.
Posted(o) ==
  LET item == Stamped(o, "seq", Len(published) + 1) IN
  /\ ~closed /\ closed' = closed /\ Offers(o)
  /\ hub' = Track(hub, item) /\ published' = Append(published, item)

\* An event the log has not seen.
NewEvent(o) == o.kind = "recorded" /\ ~Published(o.event)

LEMMA StampedKeeps ==
  ASSUME WellFormedOffers, NEW o \in Offered, NEW n
  PROVE  LET item == Stamped(o, "seq", n) IN
         /\ item.kind = o.kind /\ item.seq = n
         /\ o.kind \in {"recorded", "delta", "completed", "requested"}
         /\ o.kind = "recorded" => item.event = o.event
         /\ o.kind = "delta" => item.turn = o.turn
         /\ o.kind = "requested" => /\ item.request = o.request /\ item.turn = o.turn
                                    /\ item.calls = o.calls
<1>1. "kind" \in DOMAIN o /\ o.kind \in {"recorded", "delta", "completed", "requested"}
  BY BroadcasterAssumption
<1>2. WellFormed(o) BY DEF WellFormedOffers
<1>3. \A f \in DOMAIN o : f # "seq" => Stamped(o, "seq", n)[f] = o[f] BY DEF Stamped
<1>4. Stamped(o, "seq", n).seq = n BY DEF Stamped
<1>5. QED BY <1>1, <1>2, <1>3, <1>4 DEF WellFormed

\* What the loop may hand over holds of every item of the log.
LEMMA LoggedIsWellFormed ==
  ASSUME WellFormedOffers, LogIsOffered, NEW i \in DOMAIN published
  PROVE  /\ published[i].kind \in {"recorded", "delta", "completed", "requested"}
         /\ IsRecorded(i) => IsEvent(published[i].event)
         /\ published[i].kind = "delta" => published[i].turn \in Nat \ {NoTurn}
         /\ RequestAt(i) => published[i].turn # NoTurn /\ published[i].calls \in Nat \ {0}
<1>1. PICK o \in Offered : published[i] = Stamped(o, "seq", i) BY DEF LogIsOffered
<1>2. WellFormed(o) BY DEF WellFormedOffers
<1>3. QED BY <1>1, <1>2, StampedKeeps DEF WellFormed, IsRecorded, RequestAt

\* An id is one event's.
LEMMA IdsAreEvents ==
  ASSUME WellFormedOffers, LogIsOffered, NEW i \in RecordedAll, NEW o \in Offered,
         o.kind = "recorded", published[i].event.id = o.event.id
  PROVE  published[i].event = o.event
<1>1. PICK p \in Offered : published[i] = Stamped(p, "seq", i)
  BY DEF LogIsOffered, RecordedAll
<1>2. p.kind = "recorded" /\ published[i].event = p.event
  BY <1>1, StampedKeeps DEF RecordedAll, IsRecorded
<1>3. QED BY <1>2 DEF WellFormedOffers

\* The hub has seen an event iff it is in the log.
LEMMA SeenIffPublished ==
  ASSUME WellFormedOffers, LogIsOffered, SeenIsLogged, NEW o \in Offered, o.kind = "recorded"
  PROVE  o.event.id \in hub.seen <=> Published(o.event)
<1>1. ASSUME o.event.id \in hub.seen PROVE Published(o.event)
  <2>1. PICK i \in RecordedAll : published[i].event.id = o.event.id
    BY <1>1 DEF SeenIsLogged
  <2>2. published[i].event = o.event BY <2>1, IdsAreEvents
  <2>3. QED BY <2>2 DEF Published, Recorded, RecordedAll, IsRecorded
<1>2. ASSUME Published(o.event) PROVE o.event.id \in hub.seen
  BY <1>2 DEF Published, Recorded, RecordedAll, IsRecorded, SeenIsLogged
<1>3. QED BY <1>1, <1>2

\* The log after an item.
LEMMA LogGrows ==
  ASSUME IsSequence(published), NEW item, published' = Append(published, item)
  PROVE  /\ IsSequence(published') /\ Len(published) \in Nat
         /\ Len(published') = Len(published) + 1
         /\ DOMAIN published = 1..Len(published)
         /\ DOMAIN published' = 1..(Len(published) + 1)
         /\ \A i \in DOMAIN published : published'[i] = published[i]
         /\ published'[Len(published) + 1] = item
<1>1. DOMAIN published = 1..Len(published) BY DEF IsSequence
<1>2. DOMAIN (published') = 1..Len(published') BY AppendIsSequence DEF IsSequence
<1>3. QED BY <1>1, <1>2, AppendIsSequence

LEMMA PostedKeepsLog ==
  ASSUME WellFormedOffers, LogInv, NEW o \in Offered, Posted(o)
  PROVE  LogIsOffered' /\ RequestsAreDistinct'
<1> DEFINE n == Len(published) + 1
           item == Stamped(o, "seq", n)
<1>1. /\ Len(published) \in Nat /\ DOMAIN published = 1..Len(published)
      /\ DOMAIN published' = 1..n /\ published'[n] = item
      /\ \A i \in DOMAIN published : published'[i] = published[i]
  BY LogGrows DEF LogInv, HubInv, Posted
<1>2. item.kind = o.kind /\ (o.kind = "requested" => item.request = o.request)
  BY StampedKeeps
<1> HIDE DEF item
<1>3. LogIsOffered'
  <2>1. ASSUME NEW i \in DOMAIN published'
        PROVE \E p \in Offered : published'[i] = Stamped(p, "seq", i)
    <3>1. CASE i = n BY <1>1, <3>1 DEF item
    <3>2. CASE i # n BY <1>1, <3>2 DEF LogInv, LogIsOffered
    <3>3. QED BY <3>1, <3>2
  <2>2. QED BY <2>1 DEF LogIsOffered
<1>4. RequestsAreDistinct'
  <2>1. ASSUME item.kind = "requested", NEW i \in DOMAIN published, RequestAt(i)
        PROVE published[i].request # item.request
    BY <1>2, <2>1 DEF Posted, Offers, Requested, RequestAt
  <2>2. QED BY <1>1, <2>1 DEF LogInv, RequestsAreDistinct, RequestAt
<1>5. QED BY <1>3, <1>4

---------------------------------------------------------------------------
(* What an item adds to the log.                                           *)

\* The last item of the log after o, and all that came before.
LEMMA PostedItem ==
  ASSUME WellFormedOffers, LogInv, NEW o \in Offered, Posted(o)
  PROVE  /\ Len(published) \in Nat /\ DOMAIN published = 1..Len(published)
         /\ Len(published') = Len(published) + 1
         /\ DOMAIN published' = 1..(Len(published) + 1)
         /\ \A i \in DOMAIN published : published'[i] = published[i]
         /\ LET item == published'[Len(published) + 1] IN
            /\ hub' = Track(hub, item)
            /\ item.kind = o.kind
            /\ item.kind \in {"recorded", "delta", "completed", "requested"}
            /\ item.kind = "recorded" => item.event = o.event
            /\ item.kind = "delta" => item.turn = o.turn /\ item.turn \in Nat \ {NoTurn}
            /\ item.kind = "requested" =>
                 /\ item.request = o.request /\ item.turn = o.turn /\ item.calls = o.calls
                 /\ item.turn # NoTurn /\ item.calls \in Nat \ {0}
<1> DEFINE item == Stamped(o, "seq", Len(published) + 1)
<1>1. /\ Len(published) \in Nat /\ DOMAIN published = 1..Len(published)
      /\ Len(published') = Len(published) + 1
      /\ DOMAIN published' = 1..(Len(published) + 1)
      /\ \A i \in DOMAIN published : published'[i] = published[i]
      /\ published'[Len(published) + 1] = item /\ hub' = Track(hub, item)
  BY LogGrows DEF LogInv, HubInv, Posted
<1>2. /\ item.kind = o.kind
      /\ item.kind \in {"recorded", "delta", "completed", "requested"}
      /\ item.kind = "recorded" => item.event = o.event
      /\ item.kind = "delta" => item.turn = o.turn
      /\ item.kind = "requested" =>
           item.request = o.request /\ item.turn = o.turn /\ item.calls = o.calls
  BY StampedKeeps
<1> HIDE DEF item
<1>3. WellFormed(o) BY DEF WellFormedOffers
<1>4. QED BY <1>1, <1>2, <1>3 DEF WellFormed

LEMMA PostedKeepsSeen ==
  ASSUME WellFormedOffers, LogInv, NEW o \in Offered, Posted(o)
  PROVE  SeenIsLogged'
<1>0. PICK n, item : n = Len(published) + 1 /\ item = published'[n] OBVIOUS
<1> DEFINE ids == {published[i].event.id : i \in RecordedAll}
<1>1. /\ n \in Nat \ {0} /\ DOMAIN published = 1..(n - 1) /\ DOMAIN published' = 1..n
      /\ \A i \in DOMAIN published : published'[i] = published[i]
      /\ hub' = Track(hub, item)
      /\ item.kind \in {"recorded", "delta", "completed", "requested"}
  BY <1>0, PostedItem
<1>2. IsHub(hub) /\ hub.seen = ids BY DEF LogInv, HubInv, SeenIsLogged
<1>3. hub'.seen = IF item.kind = "recorded" THEN hub.seen \cup {item.event.id} ELSE hub.seen
  <2>1. CASE item.kind # "recorded" BY <1>1, <1>2, <2>1, TrackParts
  <2>2. CASE item.kind = "recorded" /\ item.event.id \in hub.seen
    <3>1. Same(hub, hub') BY <1>1, <1>2, <2>2, TrackParts
    <3>2. QED BY <2>2, <3>1 DEF Same
  <2>3. CASE item.kind = "recorded" /\ item.event.id \notin hub.seen
    BY <1>1, <1>2, <2>3, TrackParts
  <2>4. QED BY <2>1, <2>2, <2>3
<1> HIDE DEF ids
<1>4. RecordedAll' = IF item.kind = "recorded" THEN RecordedAll \cup {n} ELSE RecordedAll
  <2>1. \A i : i \in RecordedAll' <=> i \in 1..n /\ published'[i].kind = "recorded"
    BY <1>1 DEF RecordedAll, IsRecorded
  <2>2. \A i : i \in RecordedAll <=> i \in 1..(n - 1) /\ published[i].kind = "recorded"
    BY <1>1 DEF RecordedAll, IsRecorded
  <2>3. \A i : i \in RecordedAll' <=> i \in RecordedAll \/ (i = n /\ item.kind = "recorded")
    BY <1>1, <2>1, <2>2, <1>0
  <2>4. QED BY <2>3
<1>5. {published'[i].event.id : i \in RecordedAll'} =
        IF item.kind = "recorded" THEN ids \cup {item.event.id} ELSE ids
  <2>1. \A i \in RecordedAll : published'[i] = published[i] BY <1>1 DEF RecordedAll
  <2>2. QED BY <1>0, <1>4, <2>1 DEF ids
<1>6. QED BY <1>2, <1>3, <1>5 DEF SeenIsLogged

\* Whether the event an item records is new.
IsNew(item) == item.kind = "recorded" /\ item.event.id \notin hub.seen

\* The log's own predicates after an item: a repeated event changes none.
LEMMA PostedMovesOn ==
  ASSUME WellFormedOffers, LogInv, NEW o \in Offered, Posted(o)
  PROVE  LET item == published'[Len(published) + 1] IN
         /\ ~Over
         /\ Over' <=> IsNew(item) /\ item.event.type = "finished"
         /\ \A t : Responded(t)' <=> \/ Responded(t)
                                     \/ /\ IsNew(item) /\ item.event.type = "response"
                                        /\ item.event.turn = t
<1>0. PICK n, item : n = Len(published) + 1 /\ item = published'[n] OBVIOUS
<1>1. /\ n \in Nat \ {0} /\ DOMAIN published = 1..(n - 1) /\ DOMAIN published' = 1..n
      /\ \A i \in DOMAIN published : published'[i] = published[i]
      /\ item.kind = o.kind /\ (item.kind = "recorded" => item.event = o.event)
  BY <1>0, PostedItem
<1>2. ~Over BY DEF Posted, Offers
<1>3. \A type : Recorded(type)' = Recorded(type) \cup
                  (IF item.kind = "recorded" /\ item.event.type = type THEN {n} ELSE {})
  <2>1. ASSUME NEW type, NEW i
        PROVE  i \in Recorded(type)' <=> \/ i \in Recorded(type)
                                         \/ /\ i = n /\ item.kind = "recorded"
                                            /\ item.event.type = type
    <3>1. i \in Recorded(type)' <=> /\ i \in 1..n /\ published'[i].kind = "recorded"
                                    /\ published'[i].event.type = type
      BY <1>1 DEF Recorded
    <3>2. i \in Recorded(type) <=> /\ i \in 1..(n - 1) /\ published[i].kind = "recorded"
                                   /\ published[i].event.type = type
      BY <1>1 DEF Recorded
    <3>3. i \in 1..n <=> i \in 1..(n - 1) \/ i = n BY <1>1
    <3>4. QED BY <1>0, <1>1, <3>1, <3>2, <3>3
  <2>2. QED BY <2>1
<1>4. ASSUME item.kind = "recorded", item.event.id \in hub.seen
      PROVE  \E i \in Recorded(item.event.type) : published[i].event = item.event
  <2>1. Published(o.event) BY <1>1, <1>4, SeenIffPublished DEF LogInv
  <2>2. QED BY <1>1, <1>4, <2>1 DEF Published
<1>5. Over' <=> IsNew(item) /\ item.event.type = "finished"
  BY <1>1, <1>2, <1>3, <1>4 DEF Over, IsNew
<1>6. ASSUME NEW t
      PROVE Responded(t)' <=> \/ Responded(t)
                              \/ /\ IsNew(item) /\ item.event.type = "response"
                                 /\ item.event.turn = t
  <2>1. \A i \in Recorded("response") : published'[i] = published[i] BY <1>1 DEF Recorded
  <2>2. Responded(t)' <=> \/ Responded(t)
                          \/ /\ item.kind = "recorded" /\ item.event.type = "response"
                             /\ item.event.turn = t
    BY <1>0, <1>3, <2>1 DEF Responded
  <2>3. ASSUME item.kind = "recorded", item.event.type = "response", item.event.turn = t,
               item.event.id \in hub.seen
        PROVE  Responded(t)
    BY <1>4, <2>3 DEF Responded
  <2>4. QED BY <2>2, <2>3 DEF IsNew
<1>7. QED BY <1>0, <1>2, <1>5, <1>6

---------------------------------------------------------------------------
(* The open turn.                                                          *)

DeltaAt(i) == published[i].kind = "delta"
Turns == {published[i].turn : i \in {j \in DOMAIN published : DeltaAt(j)}}

Partial(t) == [turn |-> t, chunks |-> Cardinality(Deltas(t))]

\* The newest turn's replica, or none.
OpenInv ==
  \/ Turns = {} /\ hub.open = NoOpenTurn
  \/ \E t \in Turns : /\ \A u \in Turns : u <= t
                      /\ hub.open = IF Streaming(t) THEN Partial(t) ELSE NoOpenTurn

LEMMA TurnsAreNatural ==
  ASSUME WellFormedOffers, LogIsOffered
  PROVE  Turns \subseteq Nat \ {NoTurn}
  BY LoggedIsWellFormed DEF Turns, DeltaAt

LEMMA OpenInvMeans ==
  ASSUME WellFormedOffers, LogIsOffered, OpenInv
  PROVE  OpenTurnIsUnrecorded
<1> DEFINE newest == Max(Turns)
<1>1. OpenTurnIsUnrecorded <=>
        hub.open = IF Turns # {} /\ Streaming(newest) THEN Partial(newest) ELSE NoOpenTurn
  BY DEF OpenTurnIsUnrecorded, Turns, DeltaAt, Partial
<1>2. ASSUME NEW t \in Turns, \A u \in Turns : u <= t PROVE newest = t
  <2>1. Turns \subseteq Nat BY TurnsAreNatural
  <2>2. \A x \in Turns : (\A y \in Turns : x >= y) => x = t BY <1>2, <2>1
  <2>3. \A y \in Turns : t >= y BY <1>2, <2>1
  <2>4. QED BY <1>2, <2>2, <2>3 DEF Max
<1> HIDE DEF newest
<1>3. QED BY <1>1, <1>2 DEF OpenInv

LEMMA DeltasAreFinite ==
  ASSUME IsSequence(published), NEW t
  PROVE  IsFiniteSet(Deltas(t))
<1>1. DOMAIN published = 1..Len(published) /\ Len(published) \in Nat BY DEF IsSequence
<1>2. IsFiniteSet(1..Len(published)) BY <1>1, FS_Interval
<1>3. Deltas(t) \subseteq 1..Len(published) BY <1>1 DEF Deltas
<1>4. QED BY <1>2, <1>3, FS_Subset

LEMMA PostedKeepsOpen ==
  ASSUME WellFormedOffers, LogInv, OpenInv, NEW o \in Offered, Posted(o)
  PROVE  OpenInv'
<1>0. PICK n, item : n = Len(published) + 1 /\ item = published'[n] OBVIOUS
<1>1. /\ n \in Nat \ {0} /\ DOMAIN published = 1..(n - 1) /\ DOMAIN published' = 1..n
      /\ \A i \in DOMAIN published : published'[i] = published[i]
      /\ hub' = Track(hub, item)
      /\ item.kind = o.kind
      /\ item.kind \in {"recorded", "delta", "completed", "requested"}
      /\ item.kind = "delta" => item.turn = o.turn /\ item.turn \in Nat \ {NoTurn}
  BY <1>0, PostedItem
<1>2. IsHub(hub) /\ IsSequence(published) BY DEF LogInv, HubInv
<1>3. /\ ~Over
      /\ Over' <=> IsNew(item) /\ item.event.type = "finished"
      /\ \A t : Responded(t)' <=> \/ Responded(t)
                                  \/ /\ IsNew(item) /\ item.event.type = "response"
                                     /\ item.event.turn = t
  BY <1>0, PostedMovesOn
<1>4. Turns \subseteq Nat \ {NoTurn} BY TurnsAreNatural DEF LogInv
<1>5. \A i : i \in {j \in DOMAIN published : DeltaAt(j)}' <=>
             i \in {j \in DOMAIN published : DeltaAt(j)} \/ (i = n /\ item.kind = "delta")
  <2>1. \A i : i \in {j \in DOMAIN published : DeltaAt(j)}' <=>
               i \in 1..n /\ published'[i].kind = "delta"
    BY <1>1 DEF DeltaAt
  <2>2. \A i : i \in {j \in DOMAIN published : DeltaAt(j)} <=>
               i \in 1..(n - 1) /\ published[i].kind = "delta"
    BY <1>1 DEF DeltaAt
  <2>3. QED BY <1>1, <2>1, <2>2, <1>0
<1>6. Turns' = Turns \cup (IF item.kind = "delta" THEN {item.turn} ELSE {})
  <2>1. \A i \in {j \in DOMAIN published : DeltaAt(j)} : published'[i] = published[i] BY <1>1
  <2>2. \A u : u \in Turns' <=> u \in Turns \/ (item.kind = "delta" /\ u = item.turn)
    BY <1>0, <1>5, <2>1 DEF Turns
  <2>3. QED BY <2>2
<1>7. \A t : Deltas(t)' = Deltas(t) \cup
               (IF item.kind = "delta" /\ item.turn = t THEN {n} ELSE {})
  <2>1. ASSUME NEW t, NEW i
        PROVE  i \in Deltas(t)' <=>
                 i \in Deltas(t) \/ (i = n /\ item.kind = "delta" /\ item.turn = t)
    <3>1. i \in Deltas(t)' <=> /\ i \in {j \in DOMAIN published : DeltaAt(j)}'
                              /\ published'[i].turn = t
      BY DEF Deltas, DeltaAt
    <3>2. i \in Deltas(t) <=> i \in {j \in DOMAIN published : DeltaAt(j)} /\ published[i].turn = t
      BY DEF Deltas, DeltaAt
    <3>3. QED BY <1>1, <1>5, <3>1, <3>2, <1>0
  <2>2. QED BY <2>1
<1>8. CASE item.kind = "delta"
  <2>0. PICK t : t = item.turn OBVIOUS
  <2>1. ~Responded(t) /\ \A u \in Turns : u <= t
    <3>1. /\ ~Responded(t)
          /\ \A i \in DOMAIN published : published[i].kind = "delta" => published[i].turn <= t
      BY <1>1, <1>8, <2>0 DEF Posted, Offers
    <3>2. QED BY <3>1 DEF Turns, DeltaAt
  <2>2. ~Over' /\ ~Responded(t)' /\ Streaming(t) BY <1>3, <1>8, <2>1 DEF IsNew, Streaming
  <2>3. \A u \in Turns' : u <= t /\ t \in Turns' BY <1>1, <1>6, <1>8, <2>0, <2>1
  <2>4. hub'.open = IF hub.open.turn = t THEN [turn |-> t, chunks |-> hub.open.chunks + 1]
                    ELSE [turn |-> t, chunks |-> 1]
    <3>1. hub'.open = TrackDelta(At(hub, item.seq), t).open BY <1>1, <1>2, <1>8, <2>0, TrackParts
    <3>2. Same(hub, At(hub, item.seq)) BY <1>2, AtIsSame
    <3>3. QED BY <3>1, <3>2 DEF Same, IsHub, HubFields, TrackDelta
  <2>5. Deltas(t)' = Deltas(t) \cup {n} /\ n \notin Deltas(t)
    <3>1. Deltas(t)' = Deltas(t) \cup {n} BY <1>7, <1>8, <2>0
    <3>2. n \notin DOMAIN published BY <1>1
    <3>3. n \notin Deltas(t) BY <3>2 DEF Deltas
    <3>4. QED BY <3>1, <3>3
  <2>6. IsFiniteSet(Deltas(t)) BY <1>2, DeltasAreFinite
  <2>7. Cardinality(Deltas(t)') = Cardinality(Deltas(t)) + 1 BY <2>5, <2>6, FS_AddElement
  <2>8. hub'.open = [turn |-> t, chunks |-> Cardinality(Deltas(t)')]
    <3>1. CASE t \in Turns
      <4>1. hub.open = Partial(t)
        <5>1. PICK u \in Turns : /\ \A w \in Turns : w <= u
                                 /\ hub.open = IF Streaming(u) THEN Partial(u) ELSE NoOpenTurn
          BY <3>1 DEF OpenInv
        <5>2. u <= t /\ t <= u /\ u \in Nat /\ t \in Nat BY <1>4, <2>1, <3>1, <5>1
        <5>3. u = t BY <5>2
        <5>4. QED BY <2>2, <5>1, <5>3
      <4>2. QED BY <2>4, <2>7, <4>1 DEF Partial
    <3>2. CASE t \notin Turns
      <4>1. hub.open.turn # t
        <5>1. NoOpenTurn.turn = NoTurn /\ \A u : Partial(u).turn = u BY DEF NoOpenTurn, Partial
        <5>2. hub.open.turn \in Turns \cup {NoTurn} BY <5>1 DEF OpenInv
        <5>3. QED BY <1>1, <1>8, <2>0, <3>2, <5>2
      <4>2. Deltas(t) = {} BY <3>2 DEF Deltas, Turns, DeltaAt
      <4>3. Cardinality(Deltas(t)') = 1 BY <2>7, <4>2, FS_EmptySet
      <4>4. QED BY <2>4, <4>1, <4>3
    <3>3. QED BY <3>1, <3>2
  <2>9. t \in Turns' /\ Streaming(t)' BY <1>6, <1>8, <2>0, <2>2 DEF Streaming
  <2>10. hub'.open = Partial(t)' BY <2>8 DEF Partial
  <2>11. QED BY <2>3, <2>9, <2>10 DEF OpenInv
<1>9. CASE item.kind # "delta"
  <2>1. Turns' = Turns /\ \A t : Deltas(t)' = Deltas(t) BY <1>6, <1>7, <1>9
  <2>2. \A t : Partial(t)' = Partial(t) BY <2>1 DEF Partial
  <2>3. hub'.open = IF /\ IsNew(item)
                       /\ \/ item.event.type = "finished"
                          \/ item.event.type = "response" /\ hub.open.turn = item.event.turn
                    THEN NoOpenTurn ELSE hub.open
    <3>1. CASE item.kind # "recorded" BY <1>1, <1>2, <1>9, <3>1, TrackParts DEF IsNew
    <3>2. CASE item.kind = "recorded" /\ item.event.id \in hub.seen
      <4>1. Same(hub, hub') BY <1>1, <1>2, <3>2, TrackParts
      <4>2. QED BY <3>2, <4>1 DEF Same, IsNew
    <3>3. CASE item.kind = "recorded" /\ item.event.id \notin hub.seen
      <4>1. PICK g : Moves(At(hub, item.seq), item.event, g) /\ hub'.open = g.open
        BY <1>1, <1>2, <3>3, TrackParts
      <4>2. At(hub, item.seq).open = hub.open BY <1>2, AtIsSame DEF Same
      <4>3. QED BY <3>3, <4>1, <4>2 DEF Moves, ClosesOpenTurn, IsNew
    <3>4. QED BY <3>1, <3>2, <3>3
  <2>4. CASE Turns = {}
    <3>1. hub.open = NoOpenTurn BY <2>4 DEF OpenInv
    <3>2. hub'.open = NoOpenTurn BY <2>3, <3>1
    <3>3. QED BY <2>1, <2>4, <3>2 DEF OpenInv
  <2>5. CASE Turns # {}
    <3>1. PICK t \in Turns : /\ \A u \in Turns : u <= t
                             /\ hub.open = IF Streaming(t) THEN Partial(t) ELSE NoOpenTurn
      BY <2>5 DEF OpenInv
    <3>2. Streaming(t)' <=> /\ Streaming(t)
                            /\ ~ /\ IsNew(item)
                                 /\ \/ item.event.type = "finished"
                                    \/ item.event.type = "response" /\ item.event.turn = t
      BY <1>3 DEF Streaming
    <3>3. hub.open.turn = IF Streaming(t) THEN t ELSE NoTurn BY <3>1 DEF Partial, NoOpenTurn
    <3>4. hub'.open = IF Streaming(t)' THEN Partial(t) ELSE NoOpenTurn
      BY <2>3, <3>1, <3>2, <3>3
    <3>5. hub'.open = IF Streaming(t)' THEN Partial(t)' ELSE NoOpenTurn BY <2>2, <3>4
    <3>6. t \in Turns' /\ \A u \in Turns' : u <= t BY <2>1, <3>1
    <3>7. QED BY <3>5, <3>6 DEF OpenInv
  <2>6. QED BY <2>4, <2>5
<1>10. QED BY <1>8, <1>9

---------------------------------------------------------------------------
(* The walk that places a request, one event at a time.                    *)

Walked(before, e) ==
  IF e.id \in before.seen THEN before
  ELSE Walk([before EXCEPT !.seen = @ \cup {e.id}], e)

IsWalk(f, q, n) ==
  f = [i \in 0..n |-> IF i = 0 THEN NoResponseYet ELSE Walked(f[i - 1], q[i])]

\* Where the walk of a history ends.
WalkOf(q) == CHOOSE w : \E f : IsWalk(f, q, Len(q)) /\ w = f[Len(q)]

LEMMA WalkExists ==
  ASSUME NEW q, NEW n \in Nat
  PROVE  \E f : IsWalk(f, q, n)
<1> DEFINE S == {k \in 0..n : \E f : IsWalk(f, q, k)}
<1>1. 0 \in S
  <2>1. IsWalk([i \in 0..0 |-> NoResponseYet], q, 0) BY DEF IsWalk
  <2>2. \E f : IsWalk(f, q, 0) BY <2>1
  <2>3. QED BY <2>2
<1>2. ASSUME NEW k \in 0..(n - 1), k \in S PROVE k + 1 \in S
  <2>1. PICK f : IsWalk(f, q, k) BY <1>2
  <2> DEFINE g == [i \in 0..(k + 1) |-> IF i = k + 1 THEN Walked(f[k], q[k + 1]) ELSE f[i]]
  <2>2. \A i \in 0..(k + 1) : g[i] = IF i = 0 THEN NoResponseYet ELSE Walked(g[i - 1], q[i])
    BY <2>1 DEF IsWalk
  <2>3. g = [i \in 0..(k + 1) |-> g[i]] OBVIOUS
  <2> HIDE DEF g
  <2>4. IsWalk(g, q, k + 1) BY <2>2, <2>3 DEF IsWalk
  <2>5. \E h : IsWalk(h, q, k + 1) BY <2>4
  <2>6. QED BY <2>5
<1> HIDE DEF S
<1>3. n \in S BY <1>1, <1>2, Induction
<1>4. QED BY <1>3 DEF S

LEMMA WalksAgree ==
  ASSUME NEW q, NEW r, NEW n \in Nat, \A i \in 1..n : q[i] = r[i], NEW m \in {n, n + 1},
         NEW f, NEW g, IsWalk(f, q, n), IsWalk(g, r, m)
  PROVE  f[n] = g[n]
<1> DEFINE S == {k \in 0..n : f[k] = g[k]}
<1>1. /\ f[0] = NoResponseYet /\ g[0] = NoResponseYet
      /\ \A i \in 1..n : f[i] = Walked(f[i - 1], q[i]) /\ g[i] = Walked(g[i - 1], r[i])
  BY DEF IsWalk
<1>2. 0 \in S BY <1>1
<1>3. \A k \in 0..(n - 1) : k \in S => k + 1 \in S BY <1>1
<1> HIDE DEF S
<1>4. n \in S BY <1>2, <1>3, Induction
<1>5. QED BY <1>4 DEF S

\* Any walk of a history ends there, and so does the anchor's.
LEMMA WalkEnds ==
  ASSUME NEW q, Len(q) \in Nat
  PROVE  /\ \A f : IsWalk(f, q, Len(q)) => f[Len(q)] = WalkOf(q)
         /\ Anchor(q) = WalkOf(q).latest
<1>1. ASSUME NEW f, IsWalk(f, q, Len(q)) PROVE f[Len(q)] = WalkOf(q)
  <2>1. \E w : \E g : IsWalk(g, q, Len(q)) /\ w = g[Len(q)] BY <1>1
  <2>2. PICK g : IsWalk(g, q, Len(q)) /\ WalkOf(q) = g[Len(q)] BY <2>1 DEF WalkOf
  <2>3. f[Len(q)] = g[Len(q)] BY <1>1, <2>2, WalksAgree
  <2>4. QED BY <2>2, <2>3
<1>2. \E f : IsWalk(f, q, Len(q)) /\ Anchor(q) = f[Len(q)].latest
  <2>1. \E f : IsWalk(f, q, Len(q)) BY WalkExists
  <2>2. QED BY <2>1 DEF IsWalk, Walked, Anchor
<1>3. QED BY <1>1, <1>2

LEMMA WalkOfNothing == WalkOf(<<>>) = NoResponseYet
<1>1. PICK f : IsWalk(f, <<>>, 0) BY WalkExists
<1>2. f[0] = WalkOf(<<>>) BY <1>1, WalkEnds
<1>3. QED BY <1>1, <1>2 DEF IsWalk

LEMMA WalkGoesOn ==
  ASSUME NEW q, IsSequence(q), NEW e
  PROVE  WalkOf(Append(q, e)) = Walked(WalkOf(q), e)
<1>0. PICK n, r : n = Len(q) /\ r = Append(q, e) OBVIOUS
<1>1. n \in Nat /\ Len(r) = n + 1 /\ r[n + 1] = e /\ \A i \in 1..n : q[i] = r[i]
  BY <1>0, AppendIsSequence
<1>2. PICK f : IsWalk(f, q, n) BY <1>1, WalkExists
<1>3. PICK g : IsWalk(g, r, n + 1) BY <1>1, WalkExists
<1>4. f[n] = WalkOf(q) BY <1>0, <1>1, <1>2, WalkEnds
<1>5. g[n + 1] = WalkOf(r)
  <2>1. Len(r) \in Nat /\ IsWalk(g, r, Len(r)) BY <1>1, <1>3
  <2>2. g[Len(r)] = WalkOf(r) BY <2>1, WalkEnds
  <2>3. QED BY <1>1, <2>2
<1>6. f[n] = g[n]
  <2>1. n \in Nat /\ n + 1 \in {n, n + 1} /\ \A i \in 1..n : q[i] = r[i] BY <1>1
  <2>2. QED BY <1>2, <1>3, <2>1, WalksAgree
<1>7. g[n + 1] = Walked(g[n], r[n + 1]) BY <1>1, <1>3 DEF IsWalk
<1>8. QED BY <1>0, <1>1, <1>4, <1>5, <1>6, <1>7

---------------------------------------------------------------------------
(* The history and the walk over it.                                       *)

ReplayFields == {"seen", "started", "messages", "results", "turns", "open", "finished"}
IsReplay(r) == r = [f \in ReplayFields |-> r[f]]
IsWalkState(w) == w = [f \in {"seen", "started", "count", "latest"} |-> w[f]]

\* The walk counts the messages the replay has.
InStep(w, r) ==
  /\ IsWalkState(w) /\ IsReplay(r) /\ IsSequence(r.messages)
  /\ w.seen = r.seen /\ w.started = r.started /\ w.count = Len(r.messages)

\* An index into the history holds the message of a response of that turn.
Names(messages, turn, index) ==
  /\ index \in 0..(Len(messages) - 1)
  /\ \E i \in Recorded("response") : /\ published[i].event.turn = turn
                                     /\ messages[index + 1] = published[i].event.msg

\* One event, not seen before: what it does to both.
LEMMA StepTogether ==
  ASSUME NEW w, NEW r, InStep(w, r), NEW e, IsEvent(e), e.id \notin w.seen
  PROVE  LET v == Walked(w, e)
             s == Folded(r, e)
         IN /\ InStep(v, s) /\ v.seen = w.seen \cup {e.id}
            /\ e.type # "start" =>
                 /\ s.messages = IF Appends(e) THEN Append(r.messages, e.msg) ELSE r.messages
                 /\ v.latest = IF e.type # "response" THEN w.latest
                               ELSE IF e.turn = NoTurn THEN NoAnchor
                               ELSE [turn |-> e.turn, index |-> Len(r.messages)]
            /\ e.type = "start" => v.latest = NoAnchor \/ (v.latest = w.latest
                                                           /\ s.messages = r.messages)
<1>0. PICK w1, r1 : w1 = [w EXCEPT !.seen = @ \cup {e.id}] /\ r1 = [r EXCEPT !.seen = @ \cup {e.id}]
  OBVIOUS
<1>1. /\ IsWalkState(w1) /\ w1.seen = w.seen \cup {e.id} /\ w1.started = w.started
      /\ w1.count = w.count /\ w1.latest = w.latest
  BY <1>0 DEF InStep, IsWalkState
<1>2. /\ IsReplay(r1) /\ r1.seen = r.seen \cup {e.id} /\ r1.started = r.started
      /\ r1.messages = r.messages
  BY <1>0 DEF InStep, IsReplay, ReplayFields
<1>3. Walked(w, e) = Walk(w1, e) /\ Folded(r, e) = FoldEvent(r1, e)
  BY <1>0 DEF Walked, Folded, Repeated, InStep
<1>4. IsSequence(r1.messages) /\ w1.count = Len(r1.messages) /\ w1.seen = r1.seen
  BY <1>1, <1>2 DEF InStep
<1>5. CASE e.type = "start"
  <2>1. CASE w1.started
    <3>1. Walk(w1, e) = w1 /\ FoldEvent(r1, e) = r1
      BY <1>1, <1>2, <1>5, <2>1 DEF Walk, FoldEvent, Seed, InStep
    <3>2. QED BY <1>1, <1>2, <1>3, <1>4, <1>5, <3>1 DEF InStep
  <2>2. CASE ~w1.started
    <3>1. /\ Walk(w1, e) = [w1 EXCEPT !.started = TRUE, !.count = Len(e.base), !.latest = NoAnchor]
          /\ FoldEvent(r1, e) = [r1 EXCEPT !.started = TRUE, !.messages = e.base, !.results = <<>>]
      BY <1>1, <1>2, <1>5, <2>2 DEF Walk, FoldEvent, Seed, InStep
    <3>2. IsSequence(e.base) BY <1>5 DEF IsEvent, IsSequence
    <3>3. LET v == Walk(w1, e)
              s == FoldEvent(r1, e)
          IN /\ IsWalkState(v) /\ v.seen = w1.seen /\ v.started = TRUE
             /\ v.count = Len(e.base) /\ v.latest = NoAnchor
             /\ IsReplay(s) /\ s.seen = r1.seen /\ s.started = TRUE /\ s.messages = e.base
      BY <1>1, <1>2, <3>1 DEF IsWalkState, IsReplay, ReplayFields
    <3>4. QED BY <1>1, <1>3, <1>4, <1>5, <3>2, <3>3 DEF InStep
  <2>3. QED BY <2>1, <2>2
<1>6. CASE e.type # "start"
  <2>1. LET v == Walk(w1, e) IN
        /\ IsWalkState(v) /\ v.seen = w1.seen /\ v.started = w1.started
        /\ v.count = IF Appends(e) THEN w1.count + 1 ELSE w1.count
        /\ v.latest = IF e.type # "response" THEN w1.latest
                      ELSE IF e.turn = NoTurn THEN NoAnchor
                      ELSE [turn |-> e.turn, index |-> w1.count]
    <3>1. CASE e.type = "response"
      <4>1. Walk(w1, e) = [w1 EXCEPT !.count = @ + 1,
                             !.latest = IF e.turn = NoTurn THEN NoAnchor
                                        ELSE [turn |-> e.turn, index |-> w1.count]]
        BY <3>1 DEF Walk
      <4>2. QED BY <1>1, <3>1, <4>1 DEF IsWalkState, Appends
    <3>2. CASE e.type # "response"
      <4>1. Walk(w1, e) = IF Appends(e) THEN [w1 EXCEPT !.count = @ + 1] ELSE w1
        BY <1>6, <3>2 DEF Walk, Counts
      <4>2. QED BY <1>1, <3>2, <4>1 DEF IsWalkState
    <3>3. QED BY <3>1, <3>2
  <2>2. LET s == FoldEvent(r1, e) IN
        /\ IsReplay(s) /\ s.seen = r1.seen /\ s.started = r1.started
        /\ s.messages = IF Appends(e) THEN Append(r1.messages, e.msg) ELSE r1.messages
    <3>1. PICK said : said = IF Appends(e) THEN [r1 EXCEPT !.messages = Append(@, e.msg)] ELSE r1
      OBVIOUS
    <3>2. /\ IsReplay(said) /\ said.seen = r1.seen /\ said.started = r1.started
          /\ said.messages = IF Appends(e) THEN Append(r1.messages, e.msg) ELSE r1.messages
      BY <1>2, <3>1 DEF IsReplay, ReplayFields
    <3>3. CASE e.type = "response"
      <4>1. FoldEvent(r1, e) = IF Completes(e) THEN [said EXCEPT !.turns = @ + 1] ELSE said
        BY <3>1, <3>3 DEF FoldEvent
      <4>2. QED BY <3>2, <4>1 DEF IsReplay, ReplayFields
    <3>4. CASE e.type = "result"
      <4>1. \E x, y : FoldEvent(r1, e) = [said EXCEPT !.open = x, !.results = y]
        <5>1. FoldEvent(r1, e) =
                [said EXCEPT !.open = Without(@, e.call),
                             !.results = IF e.gated
                                         THEN Append(@, [index |-> ProjectedAt(r1), call |-> e.call])
                                         ELSE @]
          BY <3>1, <3>4 DEF FoldEvent
        <5>2. QED BY <5>1
      <4>2. QED BY <3>2, <4>1 DEF IsReplay, ReplayFields
    <3>5. CASE e.type \in {"call", "finished"}
      <4>1. ~Appends(e) /\ said = r1 BY <3>1, <3>5 DEF Appends
      <4>2. \/ \E x : FoldEvent(r1, e) = [r1 EXCEPT !.open = x]
            \/ \E x : FoldEvent(r1, e) = [r1 EXCEPT !.finished = x]
        BY <3>5 DEF FoldEvent
      <4>3. QED BY <1>2, <4>1, <4>2 DEF IsReplay, ReplayFields
    <3>6. CASE e.type \notin {"response", "result", "call", "finished"}
      <4>1. FoldEvent(r1, e) = said BY <1>6, <3>1, <3>6 DEF FoldEvent
      <4>2. QED BY <3>2, <4>1
    <3>7. QED BY <3>3, <3>4, <3>5, <3>6
  <2>3. CASE Appends(e)
    <3>1. /\ IsSequence(Append(r1.messages, e.msg))
          /\ Len(Append(r1.messages, e.msg)) = Len(r1.messages) + 1
      BY <1>4, AppendIsSequence
    <3>2. QED BY <1>1, <1>2, <1>3, <1>4, <1>6, <2>1, <2>2, <2>3, <3>1 DEF InStep
  <2>4. CASE ~Appends(e)
    BY <1>1, <1>2, <1>3, <1>4, <1>6, <2>1, <2>2, <2>4 DEF InStep
  <2>5. QED BY <2>3, <2>4
<1>7. QED BY <1>5, <1>6

---------------------------------------------------------------------------
(* Where the pending requests are anchored.                                *)

PendingFields == {"request", "turn", "index", "decisions"}
IsPending(p) == p = [f \in PendingFields |-> p[f]]
ArePending(q) == IsSequence(q) /\ \A k \in DOMAIN q : IsPending(q[k])

HistoryInv ==
  LET w == WalkOf(hub.events)
      r == Replay(hub.events)
  IN /\ IsSequence(hub.events) /\ InStep(w, r) /\ w.seen = hub.seen
     /\ w.latest.turn # NoTurn => Names(r.messages, w.latest.turn, w.latest.index)

AnchorInv ==
  /\ ArePending(hub.pending)
  /\ published = <<>> => hub.pending = <<>>
  /\ \A k \in DOMAIN hub.pending :
       hub.pending[k].index >= 0 =>
         Names(History, hub.pending[k].turn, hub.pending[k].index)

LEMMA AnchorInvMeans ==
  ASSUME AnchorInv, HistoryInv
  PROVE  AnchorsNameTheirTurn
<1>1. Len(History) \in Nat BY DEF HistoryInv, InStep, IsSequence, History
<1>2. ASSUME NEW k \in DOMAIN hub.pending, hub.pending[k].index >= 0
      PROVE  /\ hub.pending[k].index < Len(History)
             /\ \E i \in Recorded("response") :
                  /\ published[i].event.turn = hub.pending[k].turn
                  /\ History[hub.pending[k].index + 1] = published[i].event.msg
  <2>1. Names(History, hub.pending[k].turn, hub.pending[k].index) BY <1>2 DEF AnchorInv
  <2>2. hub.pending[k].index \in 0..(Len(History) - 1) BY <2>1 DEF Names
  <2>3. QED BY <1>1, <2>1, <2>2 DEF Names
<1>3. QED BY <1>2 DEF AnchorsNameTheirTurn

\* The entries of one list of requests, in another: the same requests of the
\* same turns at the same places of the history.
Descends(q, p) ==
  /\ ArePending(q)
  /\ \A k \in DOMAIN q : \E j \in DOMAIN p : /\ q[k].request = p[j].request
                                             /\ q[k].turn = p[j].turn /\ q[k].index = p[j].index

LEMMA ResolveDescends ==
  ASSUME NEW h, IsHub(h), ArePending(h.pending), NEW c
  PROVE  Descends(Resolve(h, c).pending, h.pending)
<1>0. PICK q : q = h.pending OBVIOUS
<1>1. IsSequence(q) /\ DOMAIN q = 1..Len(q) /\ Len(q) \in Nat
  BY <1>0 DEF ArePending, IsSequence
<1>2. Descends(h.pending, h.pending) BY DEF Descends
<1>3. ASSUME NEW k \in DOMAIN q PROVE Descends(RemoveAt(q, k), q)
  <2>1. /\ IsSequence(RemoveAt(q, k)) /\ DOMAIN RemoveAt(q, k) = 1..(Len(q) - 1)
        /\ \A i \in 1..(Len(q) - 1) : RemoveAt(q, k)[i] = IF i < k THEN q[i] ELSE q[i + 1]
    BY <1>1, <1>3, RemoveAtShifts
  <2>2. \A i \in DOMAIN RemoveAt(q, k) : \E j \in DOMAIN q : RemoveAt(q, k)[i] = q[j]
    BY <1>1, <2>1
  <2>3. QED BY <1>0, <2>1, <2>2 DEF Descends, ArePending
<1>4. ASSUME NEW k \in DOMAIN q, NEW ds
      PROVE  LET g == [h EXCEPT !.pending[k].decisions = ds] IN Descends(g.pending, q)
  <2>1. PICK r : r = [q EXCEPT ![k] = [q[k] EXCEPT !.decisions = ds]] OBVIOUS
  <2>2. [h EXCEPT !.pending[k].decisions = ds].pending = r
    BY <1>0, <2>1 DEF IsHub, HubFields
  <2>3. IsSequence(r) /\ DOMAIN r = DOMAIN q BY <1>1, <2>1, ExceptIsSequence
  <2>4. /\ IsPending(r[k]) /\ r[k].request = q[k].request /\ r[k].turn = q[k].turn
        /\ r[k].index = q[k].index
    <3>1. PICK p, x : p = q[k] /\ x = [p EXCEPT !.decisions = ds] OBVIOUS
    <3>2. r[k] = x BY <1>4, <2>1, <3>1
    <3>3. IsPending(p) BY <1>0, <1>4, <3>1 DEF ArePending
    <3>4. IsPending(x) /\ x.request = p.request /\ x.turn = p.turn /\ x.index = p.index
      BY <3>1, <3>3 DEF IsPending, PendingFields
    <3>5. QED BY <3>1, <3>2, <3>4
  <2>5. \A j \in DOMAIN q : j # k => r[j] = q[j] BY <2>1
  <2>6. \A j \in DOMAIN r : /\ IsPending(r[j]) /\ r[j].request = q[j].request
                            /\ r[j].turn = q[j].turn /\ r[j].index = q[j].index
    BY <1>0, <2>3, <2>4, <2>5 DEF ArePending
  <2>7. QED BY <2>2, <2>3, <2>6 DEF Descends, ArePending
<1>5. ASSUME NEW k \in DOMAIN q, NEW ds PROVE Descends(Settle(h, k, ds).pending, q)
  <2>1. Settle(h, k, ds).pending = RemoveAt(h.pending, k) BY SettleParts
  <2>2. QED BY <1>0, <1>3, <1>5, <2>1
<1>6. ASSUME NEW k \in DOMAIN q PROVE Descends(ResolveCall(h, k, c).pending, q)
  <2>1. PICK after : after = [h.pending[k].decisions EXCEPT ![c.index] = c.decision] OBVIOUS
  <2>2. ResolveCall(h, k, c) \in {h, Settle(h, k, after),
                                  [h EXCEPT !.pending[k].decisions = after]}
    BY <2>1 DEF ResolveCall
  <2>3. QED BY <1>0, <1>2, <1>4, <1>5, <2>2
<1>7. ASSUME NEW k \in DOMAIN q PROVE Descends(ResolveBatch(h, k, c).pending, q)
  BY <1>5 DEF ResolveBatch
<1>8. ASSUME \E k \in DOMAIN q : q[k].request = c.req
      PROVE  \E k \in DOMAIN q : Resolve(h, c) \in {ResolveBatch(h, k, c), ResolveCall(h, k, c)}
  <2>1. \E k \in DOMAIN q : q[k].request = c.req /\ \A j \in 1..(k - 1) : q[j].request # c.req
    <3> DEFINE T == {k \in DOMAIN q : q[k].request = c.req}
    <3>1. T \subseteq Nat /\ T # {} BY <1>1, <1>8
    <3> HIDE DEF T
    <3>2. PICK m \in T : \A k \in T : m <= k BY <3>1, LeastNatural
    <3>3. m \in 1..Len(q) /\ q[m].request = c.req BY <1>1, <3>2 DEF T
    <3>4. ASSUME NEW j \in 1..(m - 1) PROVE q[j].request # c.req
      <4>1. j \in 1..Len(q) /\ ~(m <= j) BY <1>1, <3>3, <3>4
      <4>2. j \notin T BY <3>2, <4>1
      <4>3. QED BY <1>1, <4>1, <4>2 DEF T
    <3>5. QED BY <1>1, <3>3, <3>4
  <2>2. QED BY <1>0, <1>8, <2>1 DEF Resolve
<1>9. QED BY <1>0, <1>2, <1>6, <1>7, <1>8 DEF Resolve

\* What an index names stays, as the history and the log grow.
LEMMA NamesStays ==
  ASSUME NEW m, IsSequence(m), NEW q, q = m \/ (\E x : q = Append(m, x)),
         \A i \in Recorded("response") : i \in Recorded("response")' /\ published'[i] = published[i],
         NEW t, NEW j, Names(m, t, j)
  PROVE  Names(q, t, j)'
<1>1. j \in 0..(Len(m) - 1) /\ Len(m) \in Nat BY DEF Names, IsSequence
<1>2. q[j + 1] = m[j + 1] /\ j \in 0..(Len(q) - 1) BY <1>1, AppendIsSequence
<1>3. PICK i \in Recorded("response") : /\ published[i].event.turn = t
                                        /\ m[j + 1] = published[i].event.msg
  BY DEF Names
<1>4. i \in Recorded("response")' /\ published'[i].event.turn = t
      /\ q[j + 1] = published'[i].event.msg
  BY <1>2, <1>3
<1>5. QED BY <1>2, <1>4 DEF Names

LEMMA PostedKeepsHistory ==
  ASSUME WellFormedOffers, LogInv, HistoryInv, AnchorInv, NEW o \in Offered, Posted(o)
  PROVE  HistoryInv' /\ AnchorInv'
<1>0. PICK n, item, at : /\ n = Len(published) + 1 /\ item = published'[n]
                         /\ at = At(hub, item.seq)
  OBVIOUS
<1>1. /\ n \in Nat \ {0} /\ DOMAIN published = 1..(n - 1) /\ DOMAIN published' = 1..n
      /\ \A i \in DOMAIN published : published'[i] = published[i]
      /\ hub' = Track(hub, item)
      /\ item.kind = o.kind
      /\ item.kind \in {"recorded", "delta", "completed", "requested"}
      /\ item.kind = "recorded" => item.event = o.event
      /\ item.kind = "requested" => item.turn # NoTurn
  BY <1>0, PostedItem
<1>2. IsHub(hub) BY DEF LogInv, HubInv
<1>3. Same(hub, at) /\ IsHub(at) BY <1>0, <1>2, AtIsSame DEF Same
<1>4. PICK w, r : w = WalkOf(hub.events) /\ r = Replay(hub.events) OBVIOUS
<1>5. PICK v, s : v = WalkOf(hub'.events) /\ s = Replay(hub'.events) OBVIOUS
<1>6. /\ IsSequence(hub.events) /\ InStep(w, r) /\ w.seen = hub.seen
      /\ w.latest.turn # NoTurn => Names(r.messages, w.latest.turn, w.latest.index)
      /\ IsSequence(r.messages)
  BY <1>4 DEF HistoryInv, InStep
<1>7. \A i \in Recorded("response") : i \in Recorded("response")' /\ published'[i] = published[i]
  BY <1>1 DEF Recorded
<1>8. ASSUME NEW q, q = r.messages \/ (\E x : q = Append(r.messages, x)),
             NEW t, NEW j, Names(r.messages, t, j)
      PROVE  Names(q, t, j)'
  BY <1>6, <1>7, <1>8, NamesStays
<1>9. \A k \in DOMAIN hub.pending : /\ IsPending(hub.pending[k])
                                    /\ hub.pending[k].index >= 0 =>
                                         Names(r.messages, hub.pending[k].turn, hub.pending[k].index)
  BY <1>4 DEF AnchorInv, ArePending, History
<1>10. published' # <<>> BY <1>1
\* What is left once the history is known.
<1>11. ASSUME /\ IsSequence(hub'.events) /\ InStep(v, s) /\ v.seen = hub'.seen
              /\ v.latest.turn # NoTurn => Names(s.messages, v.latest.turn, v.latest.index)'
       PROVE  HistoryInv'
  BY <1>5, <1>11 DEF HistoryInv
<1>12. ASSUME ArePending(hub'.pending),
              \A k \in DOMAIN hub'.pending :
                hub'.pending[k].index >= 0 =>
                  Names(s.messages, hub.pending[k].turn, hub.pending[k].index)'
       PROVE  AnchorInv'
  BY <1>5, <1>10, <1>12 DEF AnchorInv, History
\* A list that descends from the pending requests keeps their anchors.
<1>13. ASSUME Descends(hub'.pending, hub.pending),
              s.messages = r.messages \/ (\E x : s.messages = Append(r.messages, x))
       PROVE  AnchorInv'
  <2>1. ASSUME NEW k \in DOMAIN hub'.pending, hub'.pending[k].index >= 0
        PROVE  Names(s.messages, hub.pending[k].turn, hub.pending[k].index)'
    <3>1. PICK j \in DOMAIN hub.pending : /\ hub'.pending[k].turn = hub.pending[j].turn
                                          /\ hub'.pending[k].index = hub.pending[j].index
      BY <1>13 DEF Descends
    <3>2. PICK t, x : t = hub.pending[j].turn /\ x = hub.pending[j].index OBVIOUS
    <3>3. Names(r.messages, t, x) BY <1>9, <2>1, <3>1, <3>2
    <3>4. Names(s.messages, t, x)' BY <1>8, <1>13, <3>3
    <3>5. QED BY <3>1, <3>2, <3>4 DEF Names
  <2>2. ArePending(hub'.pending) BY <1>13 DEF Descends
  <2>3. QED BY <1>12, <2>1, <2>2
<1>14. Descends(hub.pending, hub.pending) /\ Descends(<<>>, hub.pending)
  BY DEF Descends, AnchorInv, ArePending, IsSequence
<1>15. CASE hub'.events = hub.events /\ hub'.seen = hub.seen
  <2>1. v = w /\ s = r BY <1>4, <1>5, <1>15
  <2>2. HistoryInv'
    <3>1. v.latest.turn # NoTurn => Names(s.messages, v.latest.turn, v.latest.index)'
      BY <1>6, <1>8, <2>1
    <3>2. QED BY <1>6, <1>11, <1>15, <2>1, <3>1
  <2>3. CASE hub'.pending = hub.pending BY <1>13, <1>14, <2>1, <2>2, <2>3
  <2>4. CASE item.kind = "requested"
    <3>1. PICK p : p = [request |-> item.request, turn |-> item.turn,
                        index |-> AnchorIndex(at, item.turn),
                        decisions |-> [i \in 1..item.calls |-> "none"]]
      OBVIOUS
    <3>2. hub'.pending = Append(hub.pending, p)
      <4>1. hub'.pending = TrackRequested(at, item).pending
        BY <1>0, <1>1, <1>2, <2>4, TrackParts
      <4>2. QED BY <1>3, <3>1, <4>1 DEF TrackRequested, Same, IsHub, HubFields
    <3>3. IsPending(p) /\ p.turn = item.turn BY <3>1 DEF IsPending, PendingFields
    <3>4. p.index >= 0 => Names(r.messages, p.turn, p.index)
      <4>1. Len(hub.events) \in Nat BY <1>6 DEF IsSequence
      <4>2. Anchor(at.events) = w.latest BY <1>3, <1>4, <4>1, WalkEnds DEF Same
      <4>3. p.index = IF w.latest.turn = item.turn THEN w.latest.index ELSE -1
        BY <3>1, <4>2 DEF AnchorIndex
      <4>4. item.turn # NoTurn BY <1>1, <2>4
      <4>5. QED BY <1>6, <3>3, <4>3, <4>4
    <3>5. /\ IsSequence(hub.pending) /\ Len(hub.pending) \in Nat
          /\ DOMAIN hub.pending = 1..Len(hub.pending)
      BY DEF AnchorInv, ArePending, IsSequence
    <3>6. /\ IsSequence(hub'.pending) /\ Len(hub'.pending) = Len(hub.pending) + 1
          /\ \A k \in 1..Len(hub.pending) : hub'.pending[k] = hub.pending[k]
          /\ hub'.pending[Len(hub.pending) + 1] = p
      BY <3>2, <3>5, AppendIsSequence
    <3>7. DOMAIN hub'.pending = 1..(Len(hub.pending) + 1) BY <3>6 DEF IsSequence
    <3>8. ASSUME NEW k \in DOMAIN hub'.pending
          PROVE  /\ IsPending(hub'.pending[k])
                 /\ hub'.pending[k].index >= 0 =>
                      Names(r.messages, hub'.pending[k].turn, hub'.pending[k].index)
      <4>1. CASE k = Len(hub.pending) + 1 BY <3>3, <3>4, <3>6, <4>1
      <4>2. CASE k # Len(hub.pending) + 1
        <5>1. k \in DOMAIN hub.pending /\ hub'.pending[k] = hub.pending[k]
          BY <3>5, <3>6, <3>7, <3>8, <4>2
        <5>2. QED BY <1>9, <5>1
      <4>3. QED BY <4>1, <4>2
    <3>9. ASSUME NEW k \in DOMAIN hub'.pending, hub'.pending[k].index >= 0
          PROVE  Names(s.messages, hub.pending[k].turn, hub.pending[k].index)'
      <4>1. PICK t, x : t = hub'.pending[k].turn /\ x = hub'.pending[k].index OBVIOUS
      <4>2. Names(r.messages, t, x) BY <3>8, <3>9, <4>1
      <4>3. Names(s.messages, t, x)' BY <1>8, <2>1, <4>2
      <4>4. QED BY <4>1, <4>3 DEF Names
    <3>10. ArePending(hub'.pending) BY <3>6, <3>8 DEF ArePending
    <3>11. QED BY <1>12, <2>2, <3>9, <3>10
  <2>5. hub'.pending = hub.pending \/ item.kind = "requested"
    <3>1. CASE item.kind \in {"delta", "completed"} BY <1>1, <1>2, <3>1, TrackParts
    <3>2. CASE item.kind = "recorded"
      <4>1. item.event.id \in hub.seen
        <5>1. SUFFICES ASSUME item.event.id \notin hub.seen PROVE FALSE OBVIOUS
        <5>2. hub'.seen = hub.seen \cup {item.event.id} BY <1>1, <1>2, <3>2, <5>1, TrackParts
        <5>3. QED BY <1>15, <5>1, <5>2
      <4>2. Same(hub, hub') BY <1>1, <1>2, <3>2, <4>1, TrackParts
      <4>3. QED BY <4>2 DEF Same
    <3>3. QED BY <1>1, <3>1, <3>2
  <2>6. QED BY <2>3, <2>4, <2>5
<1>16. CASE IsNew(item)
  <2>0. PICK e : e = item.event OBVIOUS
  <2>1. item.kind = "recorded" /\ e.id \notin hub.seen BY <1>16, <2>0 DEF IsNew
  <2>2. PICK g : /\ Moves(at, e, g)
                 /\ hub'.events = Append(hub.events, e) /\ hub'.seen = hub.seen \cup {e.id}
                 /\ hub'.pending = g.pending
    <3>1. \E t : /\ Moves(At(hub, item.seq), item.event, t)
                /\ hub'.events = Append(hub.events, item.event)
                /\ hub'.seen = hub.seen \cup {item.event.id}
                /\ hub'.open = t.open /\ hub'.pending = t.pending /\ hub'.settled = t.settled
      BY <1>1, <1>2, <2>0, <2>1, TrackParts
    <3>2. QED BY <1>0, <2>0, <3>1
  <2>3. v = Walked(w, e) /\ s = Folded(r, e)
    BY <1>4, <1>5, <1>6, <2>2, WalkGoesOn, ReplayGoesOn
  <2>4. IsEvent(e) BY <1>1, <2>0, <2>1 DEF WellFormedOffers, WellFormed
  <2>5. e.id \notin w.seen BY <1>6, <2>1
  <2>6. /\ InStep(v, s) /\ v.seen = w.seen \cup {e.id}
        /\ e.type # "start" =>
             /\ s.messages = IF Appends(e) THEN Append(r.messages, e.msg) ELSE r.messages
             /\ v.latest = IF e.type # "response" THEN w.latest
                           ELSE IF e.turn = NoTurn THEN NoAnchor
                           ELSE [turn |-> e.turn, index |-> Len(r.messages)]
        /\ e.type = "start" => v.latest = NoAnchor \/ (v.latest = w.latest
                                                       /\ s.messages = r.messages)
    BY <1>6, <2>3, <2>4, <2>5, StepTogether
  <2>7. IsSequence(hub'.events) BY <1>6, <2>2, AppendIsSequence
  <2>8. v.latest.turn # NoTurn => Names(s.messages, v.latest.turn, v.latest.index)'
    <3>1. CASE e.type = "response"
      <4>1. Appends(e) BY <3>1 DEF Appends
      <4>2. s.messages = Append(r.messages, e.msg) BY <2>6, <3>1, <4>1
      <4>3. v.latest = IF e.turn = NoTurn THEN NoAnchor
                       ELSE [turn |-> e.turn, index |-> Len(r.messages)]
        BY <2>6, <3>1
      <4>4. /\ Len(r.messages) \in Nat /\ Len(s.messages) = Len(r.messages) + 1
            /\ s.messages[Len(r.messages) + 1] = e.msg
        BY <1>6, <4>2, AppendIsSequence
      <4>5. n \in Recorded("response")' /\ published'[n].event = e
        BY <1>0, <1>1, <2>0, <2>1, <3>1 DEF Recorded
      <4>6. Len(r.messages) \in 0..(Len(s.messages) - 1) BY <4>4
      <4>7. Names(s.messages, e.turn, Len(r.messages))' BY <4>4, <4>5, <4>6 DEF Names
      <4>8. QED BY <4>3, <4>7 DEF NoAnchor
    <3>2. CASE e.type = "start"
      <4>1. CASE v.latest = NoAnchor BY <4>1 DEF NoAnchor
      <4>2. CASE v.latest = w.latest /\ s.messages = r.messages BY <1>6, <1>8, <4>2
      <4>3. QED BY <2>6, <3>2, <4>1, <4>2
    <3>3. CASE e.type \notin {"response", "start"}
      <4>1. v.latest = w.latest BY <2>6, <3>3
      <4>2. s.messages = r.messages \/ \E x : s.messages = Append(r.messages, x) BY <2>6, <3>3
      <4>3. QED BY <1>6, <1>8, <4>1, <4>2
    <3>4. QED BY <3>1, <3>2, <3>3
  <2>9. HistoryInv'
    <3>1. v.seen = hub'.seen BY <1>6, <2>2, <2>6
    <3>2. QED BY <1>11, <2>6, <2>7, <2>8, <3>1
  <2>10. AnchorInv'
    <3>1. CASE e.type = "start"
      <4>1. published = <<>>
        <5>1. ~Published(o.event)
          BY <1>1, <2>0, <2>1, SeenIffPublished DEF LogInv
        <5>2. o.kind = "recorded" /\ o.event.type = "start" BY <1>1, <2>0, <2>1, <3>1
        <5>3. QED BY <5>1, <5>2 DEF Posted, Offers
      <4>2. hub.pending = <<>> BY <4>1 DEF AnchorInv
      <4>3. hub'.pending = <<>> BY <1>3, <2>2, <3>1, <4>2 DEF Moves, Same
      <4>4. QED BY <1>12, <4>3 DEF ArePending, IsSequence
    <3>2. CASE e.type # "start"
      <4>1. s.messages = r.messages \/ (\E x : s.messages = Append(r.messages, x))
        BY <2>6, <3>2
      <4>2. Descends(hub'.pending, hub.pending)
        <5>1. CASE e.type = "resolve"
          <6>1. ArePending(at.pending) BY <1>3 DEF Same, AnchorInv
          <6>2. Descends(Resolve(at, e.cmd).pending, at.pending) BY <1>3, <6>1, ResolveDescends
          <6>3. QED BY <1>3, <2>2, <5>1, <6>2 DEF Moves, Same
        <5>2. CASE e.type = "finished" BY <1>14, <2>2, <5>2 DEF Moves
        <5>3. CASE e.type \notin {"resolve", "finished"}
          <6>1. hub'.pending = hub.pending BY <1>3, <2>2, <5>3 DEF Moves, Same
          <6>2. QED BY <1>14, <6>1
        <5>4. QED BY <5>1, <5>2, <5>3
      <4>3. QED BY <1>13, <4>1, <4>2
    <3>3. QED BY <3>1, <3>2
  <2>11. QED BY <2>9, <2>10
<1>17. \/ hub'.events = hub.events /\ hub'.seen = hub.seen
       \/ IsNew(item)
  <2>1. CASE item.kind # "recorded" BY <1>1, <1>2, <2>1, TrackParts
  <2>2. CASE item.kind = "recorded" /\ item.event.id \in hub.seen
    <3>1. Same(hub, hub') BY <1>1, <1>2, <2>2, TrackParts
    <3>2. QED BY <3>1 DEF Same
  <2>3. CASE item.kind = "recorded" /\ item.event.id \notin hub.seen BY <2>3 DEF IsNew
  <2>4. QED BY <2>1, <2>2, <2>3
<1>18. QED BY <1>15, <1>16, <1>17

---------------------------------------------------------------------------
(* The answers of the log.                                                 *)

LEMMA MinIsLeast ==
  ASSUME NEW S, S \subseteq Nat, S # {}
  PROVE  /\ Min(S) \in S /\ \A y \in S : Min(S) <= y
         /\ \A x \in S : (\A y \in S : x <= y) => x = Min(S)
<1>1. PICK m \in S : \A y \in S : m <= y BY LeastNatural
<1>2. Min(S) \in S /\ \A y \in S : Min(S) <= y BY <1>1 DEF Min
<1>3. ASSUME NEW x \in S, \A y \in S : x <= y PROVE x = Min(S)
  <2>1. x <= Min(S) /\ Min(S) <= x /\ x \in Nat /\ Min(S) \in Nat BY <1>2, <1>3
  <2>2. QED BY <2>1
<1>4. QED BY <1>2, <1>3

\* Resolve j answers slot s of request r.
Answers(c, r, s) == c.req = r /\ (c.kind = "batch" \/ c.index = s)

LEMMA AddressingIs ==
  ASSUME IsSequence(published), NEW i, NEW s
  PROVE  /\ Addressing(i, s) \subseteq Nat
         /\ \A j : j \in Addressing(i, s) <=>
                     /\ j \in FirstEvents /\ j > i /\ published[j].event.type = "resolve"
                     /\ Answers(published[j].event.cmd, published[i].request, s)
<1>1. DOMAIN published \subseteq Nat BY DEF IsSequence
<1>2. FirstEvents \subseteq Nat BY <1>1 DEF FirstEvents
<1>3. QED BY <1>2 DEF Addressing, Answers

\* A recorded answer is one: a slot is open iff nothing addresses it.
LEMMA SlotIsOpen ==
  ASSUME WellFormedOffers, LogIsOffered, IsSequence(published), NEW i, NEW s
  PROVE  /\ Slot(i, s) = "none" <=> Addressing(i, s) = {}
         /\ Addressing(i, s) # {} =>
              Slot(i, s) = Answer(published[Min(Addressing(i, s))].event.cmd, s)
<1>1. SUFFICES ASSUME Addressing(i, s) # {}
      PROVE  LET c == published[Min(Addressing(i, s))].event.cmd IN Answer(c, s) # "none"
  BY DEF Slot
<1>2. PICK j : j = Min(Addressing(i, s)) OBVIOUS
<1>3. j \in FirstEvents /\ published[j].event.type = "resolve"
  BY <1>1, <1>2, AddressingIs, MinIsLeast
<1>4. j \in DOMAIN published /\ IsRecorded(j) BY <1>3 DEF FirstEvents, IsRecorded
<1>5. IsEvent(published[j].event) BY <1>4, LoggedIsWellFormed
<1>6. IsAnswer(published[j].event.cmd) BY <1>3, <1>5 DEF IsEvent
<1>7. QED BY <1>2, <1>6 DEF IsAnswer, Answer

LEMMA PostedFirstEvents ==
  ASSUME WellFormedOffers, LogInv, NEW o \in Offered, Posted(o)
  PROVE  LET n == Len(published) + 1 IN
         \A i : i \in FirstEvents' <=> i \in FirstEvents \/ (i = n /\ IsNew(published'[n]))
<1>0. PICK n, item : n = Len(published) + 1 /\ item = published'[n] OBVIOUS
<1>1. /\ n \in Nat \ {0} /\ DOMAIN published = 1..(n - 1) /\ DOMAIN published' = 1..n
      /\ \A i \in DOMAIN published : published'[i] = published[i]
  BY <1>0, PostedItem
<1>2. IsNew(item) <=> /\ item.kind = "recorded"
                      /\ \A j \in 1..(n - 1) : published[j].kind = "recorded" =>
                           published[j].event.id # item.event.id
  BY <1>1 DEF IsNew, LogInv, SeenIsLogged, RecordedAll, IsRecorded
<1>3. ASSUME NEW i \in 1..(n - 1) PROVE i \in FirstEvents' <=> i \in FirstEvents
  <2>1. \A j \in 1..i : published'[j] = published[j] BY <1>1, <1>3
  <2>2. published'[i] = published[i] BY <1>1, <1>3
  <2>3. i \in DOMAIN published /\ i \in DOMAIN published' BY <1>1, <1>3
  <2>4. \A j \in 1..(i - 1) : j \in 1..i BY <1>3
  <2>5. QED BY <2>1, <2>2, <2>3, <2>4 DEF FirstEvents
<1>4. n \in FirstEvents' <=> IsNew(item)
  <2>1. \A j \in 1..(n - 1) : published'[j] = published[j] BY <1>1
  <2>2. n \in DOMAIN published' BY <1>1
  <2>3. QED BY <1>0, <1>2, <2>1, <2>2 DEF FirstEvents
<1>5. n \notin FirstEvents BY <1>1 DEF FirstEvents
<1>6. \A i : (i \in FirstEvents => i \in 1..(n - 1)) /\ (i \in FirstEvents' => i \in 1..n)
  BY <1>1 DEF FirstEvents
<1>7. \A i \in 1..n : i \in 1..(n - 1) \/ i = n BY <1>1
<1>8. QED BY <1>0, <1>3, <1>4, <1>5, <1>6, <1>7

\* What a published item does to the slots of a request already made: only a
\* new answer to it fills its open slots.
LEMMA PostedSlots ==
  ASSUME WellFormedOffers, LogInv, NEW o \in Offered, Posted(o), LogIsOffered',
         NEW i \in DOMAIN published, RequestAt(i), NEW s
  PROVE  LET n == Len(published) + 1
             item == published'[n]
             hits == /\ IsNew(item) /\ item.event.type = "resolve"
                     /\ Answers(item.event.cmd, published[i].request, s)
         IN /\ Slot(i, s)' = IF Slot(i, s) # "none" THEN Slot(i, s)
                             ELSE IF hits THEN Answer(item.event.cmd, s) ELSE "none"
            /\ Slot(i, s) # "none" => /\ Min(Addressing(i, s))' = Min(Addressing(i, s))
                                      /\ Min(Addressing(i, s)) \in 1..(n - 1)
            /\ Slot(i, s) = "none" /\ hits => Min(Addressing(i, s))' = n
<1>0. PICK n, item : n = Len(published) + 1 /\ item = published'[n] OBVIOUS
<1> DEFINE hits == /\ IsNew(item) /\ item.event.type = "resolve"
                   /\ Answers(item.event.cmd, published[i].request, s)
<1>1. /\ n \in Nat \ {0} /\ DOMAIN published = 1..(n - 1) /\ DOMAIN published' = 1..n
      /\ \A j \in DOMAIN published : published'[j] = published[j]
  BY <1>0, PostedItem
<1>2. IsSequence(published) /\ IsSequence(published') BY LogGrows DEF LogInv, HubInv, Posted
<1>3. \A j : j \in FirstEvents' <=> j \in FirstEvents \/ (j = n /\ IsNew(item))
  BY <1>0, PostedFirstEvents
<1>4. PICK A, B : A = Addressing(i, s) /\ B = Addressing(i, s)' OBVIOUS
<1>5. /\ A \subseteq Nat
      /\ \A j : j \in A <=> /\ j \in FirstEvents /\ j > i /\ published[j].event.type = "resolve"
                            /\ Answers(published[j].event.cmd, published[i].request, s)
  BY <1>2, <1>4, AddressingIs
<1>6. /\ B \subseteq Nat
      /\ \A j : j \in B <=>
           /\ j \in FirstEvents' /\ j > i /\ published'[j].event.type = "resolve"
           /\ Answers(published'[j].event.cmd, published'[i].request, s)
  <2>1. DOMAIN published' \subseteq Nat BY <1>1
  <2>2. FirstEvents' \subseteq Nat BY <2>1 DEF FirstEvents
  <2>3. QED BY <1>4, <2>2 DEF Addressing, Answers
<1>7. FirstEvents \subseteq 1..(n - 1) BY <1>1 DEF FirstEvents
<1>8. \A j : j \in B <=> j \in A \/ (j = n /\ hits)
  <2>1. i \in 1..(n - 1) /\ n > i /\ published'[i] = published[i] BY <1>1
  <2>2. ASSUME NEW j \in 1..(n - 1) PROVE j \in B <=> j \in A
    <3>1. published'[j] = published[j] /\ j # n BY <1>1, <2>2
    <3>2. QED BY <1>3, <1>5, <1>6, <2>1, <3>1
  <2>3. n \in B <=> hits
    <3>1. n \notin FirstEvents BY <1>1, <1>7
    <3>2. QED BY <1>0, <1>3, <1>6, <2>1, <3>1
  <2>4. A \subseteq 1..(n - 1) BY <1>5, <1>7
  <2>5. \A j \in B : j \in 1..(n - 1) \/ j = n BY <1>3, <1>6, <1>7
  <2>6. n \notin 1..(n - 1) BY <1>1
  <2>7. QED BY <2>2, <2>3, <2>4, <2>5, <2>6
<1>9. A \subseteq 1..(n - 1) BY <1>5, <1>7
<1> HIDE DEF hits
<1>10. A # {} => Min(B) = Min(A) /\ Min(A) \in 1..(n - 1) /\ B # {}
  <2> SUFFICES ASSUME A # {} PROVE Min(B) = Min(A) /\ Min(A) \in 1..(n - 1) /\ B # {} OBVIOUS
  <2>1. Min(A) \in A /\ \A y \in A : Min(A) <= y BY <1>5, MinIsLeast
  <2>2. Min(A) \in B BY <1>8, <2>1
  <2>3. Min(A) <= n
    <3>1. Min(A) \in 1..(n - 1) BY <1>9, <2>1
    <3>2. QED BY <1>1, <3>1
  <2>4. \A y \in B : Min(A) <= y BY <1>8, <2>1, <2>3
  <2>5. QED BY <1>6, <1>9, <2>1, <2>2, <2>4, MinIsLeast
<1>11. A = {} /\ hits => Min(B) = n /\ B # {}
  <2> SUFFICES ASSUME A = {}, hits PROVE Min(B) = n /\ B # {} OBVIOUS
  <2>1. B = {n} BY <1>8
  <2>2. Min(B) \in B BY <1>6, <2>1, MinIsLeast
  <2>3. QED BY <2>1, <2>2
<1>12. A = {} /\ ~hits => B = {} BY <1>8
<1>13. /\ Slot(i, s) = "none" <=> A = {}
       /\ A # {} => Slot(i, s) = Answer(published[Min(A)].event.cmd, s)
  BY <1>2, <1>4, SlotIsOpen DEF LogInv
<1>14. B # {} => Slot(i, s)' = Answer(published'[Min(B)].event.cmd, s)
  BY <1>4 DEF Slot, Answer
<1>15. B = {} => Slot(i, s)' = "none" BY <1>4 DEF Slot
<1>16. A # {} => Slot(i, s)' = Slot(i, s)
  BY <1>1, <1>10, <1>13, <1>14
<1>17. A = {} => Slot(i, s)' = IF hits THEN Answer(item.event.cmd, s) ELSE "none"
  BY <1>0, <1>11, <1>12, <1>14, <1>15
<1>18. Min(B) = Min(Addressing(i, s))' /\ Min(A) = Min(Addressing(i, s)) BY <1>4 DEF Min
<1>19. QED BY <1>0, <1>10, <1>11, <1>13, <1>16, <1>17, <1>18 DEF hits

\* A request just made has no answer.
LEMMA NewRequestIsOpen ==
  ASSUME WellFormedOffers, LogInv, NEW o \in Offered, Posted(o), NEW s,
         NEW n, n = Len(published) + 1
  PROVE  Addressing(n, s)' = {} /\ Slot(n, s)' = "none"
<1>1. n \in Nat \ {0} /\ DOMAIN published' = 1..n BY PostedItem
<1>2. Addressing(n, s)' = {} BY <1>1 DEF Addressing, FirstEvents
<1>3. QED BY <1>2 DEF Slot

---------------------------------------------------------------------------
(* The settled window.                                                     *)

\* The window q over the decided requests D, of which R gives the ids and T
\* the times they settled: it holds the latest ones, oldest first.
Holds(q, D, R, T) ==
  /\ IsSequence(q) /\ Len(q) <= Window
  /\ \A m \in DOMAIN q : \E i \in D : q[m].request = R[i]
  /\ \A m, l \in DOMAIN q : q[m].request = q[l].request => m = l
  /\ \A i \in D :
       \/ \E m \in DOMAIN q : q[m].request = R[i]
       \/ /\ Len(q) = Window
          /\ \A m \in DOMAIN q, j \in D : q[m].request = R[j] => T[i] <= T[j]
  /\ \A m, l \in DOMAIN q, i, j \in D :
       m <= l /\ q[m].request = R[i] /\ q[l].request = R[j] => T[i] <= T[j]

LEMMA HoldsAgree ==
  ASSUME NEW q, NEW D, NEW R, NEW T, NEW R2, NEW T2, Holds(q, D, R, T),
         \A i \in D : R2[i] = R[i] /\ T2[i] = T[i]
  PROVE  Holds(q, D, R2, T2)
<1>1. /\ \A m \in DOMAIN q : \E i \in D : q[m].request = R2[i]
      /\ \A i \in D :
           \/ \E m \in DOMAIN q : q[m].request = R2[i]
           \/ /\ Len(q) = Window
              /\ \A m \in DOMAIN q, j \in D : q[m].request = R2[j] => T2[i] <= T2[j]
  BY DEF Holds
<1>2. \A m, l \in DOMAIN q, i, j \in D :
        m <= l /\ q[m].request = R2[i] /\ q[l].request = R2[j] => T2[i] <= T2[j]
  BY DEF Holds
<1>3. QED BY <1>1, <1>2 DEF Holds

\* Remembering the newest settlement of a request not settled before.
LEMMA RememberHolds ==
  ASSUME NEW q, NEW D, NEW R, NEW T, Holds(q, D, R, T), NEW o, o \notin D,
         \A i \in D : R[i] # R[o] /\ T[i] <= T[o],
         \A i \in D \cup {o} : T[i] \in Nat,
         \A i, j \in D : R[i] = R[j] => i = j,
         NEW s, s.request = R[o]
  PROVE  Holds(Remember(q, s), D \cup {o}, R, T)
<1>0. PICK a, r, E, n : a = Append(q, s) /\ r = Remember(q, s) /\ E = D \cup {o} /\ n = Len(q)
  OBVIOUS
<1>1. /\ IsSequence(q) /\ n \in Nat /\ DOMAIN q = 1..n /\ n <= Window
      /\ \A m \in DOMAIN q : \E i \in D : q[m].request = R[i]
      /\ \A m, l \in DOMAIN q : q[m].request = q[l].request => m = l
      /\ \A i \in D :
           \/ \E m \in DOMAIN q : q[m].request = R[i]
           \/ /\ n = Window
              /\ \A m \in DOMAIN q, j \in D : q[m].request = R[j] => T[i] <= T[j]
      /\ \A m, l \in DOMAIN q, i, j \in D :
           m <= l /\ q[m].request = R[i] /\ q[l].request = R[j] => T[i] <= T[j]
  BY <1>0 DEF Holds, IsSequence
<1>2. /\ IsSequence(a) /\ Len(a) = n + 1 /\ \A m \in 1..n : a[m] = q[m]
      /\ a[n + 1] = s
  BY <1>0, <1>1, AppendIsSequence
<1>3. DOMAIN a = 1..(n + 1) BY <1>2 DEF IsSequence
<1>4. \A m \in 1..(n + 1) : m \in 1..n \/ m = n + 1 BY <1>1
<1>5. \A i, j \in E : R[i] = R[j] => i = j BY <1>0
\* The full list, before the oldest leaves.
<1>6. \A m \in 1..(n + 1) : \E i \in E : a[m].request = R[i]
  <2>1. ASSUME NEW m \in 1..n PROVE \E i \in E : a[m].request = R[i]
    BY <1>0, <1>1, <1>2, <2>1
  <2>2. \E i \in E : a[n + 1].request = R[i] BY <1>0, <1>2
  <2>3. QED BY <1>4, <2>1, <2>2
<1>7. \A m \in 1..n : a[m].request # R[o] BY <1>1, <1>2
<1>8. \A m, l \in 1..(n + 1) : a[m].request = a[l].request => m = l
  <2>1. \A m, l \in 1..n : a[m].request = a[l].request => m = l BY <1>1, <1>2
  <2>2. a[n + 1].request = R[o] BY <1>2
  <2>3. QED BY <1>4, <1>7, <2>1, <2>2
<1>9. \A i \in D : (\E m \in 1..n : a[m].request = R[i])
                   \/ /\ n = Window
                      /\ \A m \in 1..n, j \in D : a[m].request = R[j] => T[i] <= T[j]
  <2>1. ASSUME NEW i \in D, NEW m \in DOMAIN q, q[m].request = R[i]
        PROVE \E k \in 1..n : a[k].request = R[i]
    BY <1>1, <1>2, <2>1
  <2>2. \A m \in 1..n : a[m] = q[m] /\ m \in DOMAIN q BY <1>1, <1>2
  <2>3. ASSUME NEW i \in D, ~ \E m \in 1..n : a[m].request = R[i]
        PROVE  /\ n = Window
               /\ \A m \in 1..n, j \in D : a[m].request = R[j] => T[i] <= T[j]
    <3>1. ~ \E m \in DOMAIN q : q[m].request = R[i] BY <2>1, <2>3
    <3>2. n = Window /\ \A m \in DOMAIN q, j \in D : q[m].request = R[j] => T[i] <= T[j]
      BY <1>1, <3>1
    <3>3. QED BY <2>2, <3>2
  <2>4. QED BY <2>3
<1>10. \A i \in E : T[i] <= T[o]
  <2>1. T[o] <= T[o] OBVIOUS
  <2>2. QED BY <1>0, <2>1
<1>11. ASSUME NEW m \in 1..(n + 1), NEW l \in 1..(n + 1), NEW i \in E, NEW j \in E,
              m <= l, a[m].request = R[i], a[l].request = R[j]
       PROVE  T[i] <= T[j]
  <2>1. CASE l = n + 1
    <3>1. R[j] = R[o] BY <1>2, <1>11, <2>1
    <3>2. j = o BY <1>0, <1>5, <3>1
    <3>3. QED BY <1>10, <3>2
  <2>2. CASE l \in 1..n
    <3>1. m \in 1..n BY <1>1, <1>11, <2>2
    <3>2. i # o /\ j # o BY <1>7, <1>11, <2>2, <3>1
    <3>3. i \in D /\ j \in D BY <1>0, <3>2
    <3>4. q[m].request = R[i] /\ q[l].request = R[j] BY <1>2, <1>11, <2>2, <3>1
    <3>5. QED BY <1>1, <1>11, <2>2, <3>1, <3>3, <3>4
  <2>3. QED BY <1>4, <2>1, <2>2
<1>12. /\ IsSequence(r) /\ Len(r) <= Window /\ DOMAIN r = 1..Len(r)
       /\ \/ r = a /\ Len(r) = n + 1
          \/ /\ n = Window /\ Len(r) = Window
             /\ \A m \in 1..Window : r[m] = a[m + 1]
  BY <1>0, <1>1, RememberKeeps
<1>13. CASE r = a /\ Len(r) = n + 1
  <2>1. \A i \in E :
          \/ \E m \in DOMAIN r : r[m].request = R[i]
          \/ /\ Len(r) = Window
             /\ \A m \in DOMAIN r, j \in E : r[m].request = R[j] => T[i] <= T[j]
    <3>1. \A i \in D : n # Window BY <1>1, <1>12, <1>13
    <3>2. \A i \in D : \E m \in 1..(n + 1) : a[m].request = R[i]
      <4>1. 1..n \subseteq 1..(n + 1) BY <1>1
      <4>2. QED BY <1>9, <3>1, <4>1
    <3>3. n + 1 \in 1..(n + 1) /\ a[n + 1].request = R[o] BY <1>1, <1>2
    <3>4. \A i \in E : \E m \in 1..(n + 1) : a[m].request = R[i] BY <1>0, <3>2, <3>3
    <3>5. DOMAIN r = 1..(n + 1) BY <1>12, <1>13
    <3>6. QED BY <1>13, <3>4, <3>5
  <2>2. DOMAIN r = 1..(n + 1) BY <1>12, <1>13
  <2>3. Holds(r, E, R, T) BY <1>6, <1>8, <1>11, <1>12, <1>13, <2>1, <2>2 DEF Holds
  <2>4. QED BY <1>0, <2>3
<1>14. CASE n = Window /\ Len(r) = Window /\ \A m \in 1..Window : r[m] = a[m + 1]
  <2>1. DOMAIN r = 1..n BY <1>12, <1>14
  <2>2. \A m \in 1..n : r[m] = a[m + 1] /\ m + 1 \in 1..(n + 1) BY <1>1, <1>14
  <2>3. \A m \in DOMAIN r : \E i \in E : r[m].request = R[i] BY <1>6, <2>1, <2>2
  <2>4. ASSUME NEW m \in DOMAIN r, NEW l \in DOMAIN r, r[m].request = r[l].request
        PROVE  m = l
    <3>1. m + 1 = l + 1 BY <1>8, <2>1, <2>2, <2>4
    <3>2. QED BY <1>1, <2>1, <3>1
  <2>5. ASSUME NEW m \in DOMAIN r, NEW l \in DOMAIN r, NEW i \in E, NEW j \in E,
               m <= l, r[m].request = R[i], r[l].request = R[j]
        PROVE  T[i] <= T[j]
    <3>1. m + 1 <= l + 1 /\ m \in 1..n /\ l \in 1..n BY <1>1, <2>1, <2>5
    <3>2. /\ m + 1 \in 1..(n + 1) /\ l + 1 \in 1..(n + 1)
          /\ a[m + 1].request = R[i] /\ a[l + 1].request = R[j]
      BY <2>2, <2>5, <3>1
    <3>3. QED BY <1>11, <3>1, <3>2
  <2>6. ASSUME NEW i \in E, NEW m \in DOMAIN r, NEW j \in E, r[m].request = R[j],
               \A l \in DOMAIN r : r[l].request # R[i]
        PROVE  T[i] <= T[j]
    <3>1. m \in 1..n /\ m + 1 \in 1..(n + 1) /\ a[m + 1].request = R[j]
      BY <2>1, <2>2, <2>6
    <3>2. CASE \E l \in 1..(n + 1) : a[l].request = R[i]
      <4>1. PICK l \in 1..(n + 1) : a[l].request = R[i] BY <3>2
      <4>2. l = 1
        <5>1. SUFFICES ASSUME l # 1 PROVE FALSE OBVIOUS
        <5>2. l - 1 \in 1..n /\ (l - 1) + 1 = l BY <1>1, <4>1, <5>1
        <5>3. r[l - 1] = a[l] BY <2>2, <5>2
        <5>4. QED BY <2>1, <2>6, <4>1, <5>2, <5>3
      <4>3. l <= m + 1 BY <3>1, <4>2
      <4>4. QED BY <1>11, <2>6, <3>1, <4>1, <4>3
    <3>3. CASE ~\E l \in 1..(n + 1) : a[l].request = R[i]
      <4>1. n + 1 \in 1..(n + 1) /\ 1..n \subseteq 1..(n + 1) BY <1>1
      <4>2. i \in D BY <1>0, <1>2, <3>3, <4>1
      <4>3. \A l \in 1..n, k \in D : a[l].request = R[k] => T[i] <= T[k]
        BY <1>9, <3>3, <4>1, <4>2
      <4>4. CASE m + 1 = n + 1
        <5>1. R[j] = R[o] BY <1>2, <3>1, <4>4
        <5>2. j = o BY <1>0, <1>5, <5>1
        <5>3. QED BY <1>10, <5>2
      <4>5. CASE m + 1 \in 1..n
        <5>1. j # o BY <1>7, <3>1, <4>5
        <5>2. j \in D BY <1>0, <5>1
        <5>3. QED BY <3>1, <4>3, <4>5, <5>2
      <4>6. QED BY <1>4, <3>1, <4>4, <4>5
    <3>4. QED BY <3>2, <3>3
  <2>7. \A i \in E :
          \/ \E m \in DOMAIN r : r[m].request = R[i]
          \/ /\ Len(r) = Window
             /\ \A m \in DOMAIN r, j \in E : r[m].request = R[j] => T[i] <= T[j]
    BY <1>14, <2>6
  <2>8. Holds(r, E, R, T) BY <1>12, <2>3, <2>4, <2>5, <2>7 DEF Holds
  <2>9. QED BY <1>0, <2>8
<1>15. QED BY <1>12, <1>13, <1>14

---------------------------------------------------------------------------
(* The end of the run retires what is pending.                            *)

\* What a window newly remembers.
LEMMA RememberHas ==
  ASSUME NEW q, IsSequence(q), Len(q) <= Window, NEW s, NEW m \in DOMAIN Remember(q, s)
  PROVE  Remember(q, s)[m] = s \/ \E l \in DOMAIN q : Remember(q, s)[m] = q[l]
<1>0. PICK a, r, n : a = Append(q, s) /\ r = Remember(q, s) /\ n = Len(q) OBVIOUS
<1>1. /\ DOMAIN r = 1..Len(r)
      /\ \/ r = a /\ Len(r) = n + 1
         \/ n = Window /\ Len(r) = Window /\ \A l \in 1..Window : r[l] = a[l + 1]
  BY <1>0, RememberKeeps
<1>2. n \in Nat /\ DOMAIN q = 1..n BY <1>0 DEF IsSequence
<1>3. (\A l \in 1..n : a[l] = q[l]) /\ a[n + 1] = s BY <1>0, AppendIsSequence
<1>4. \A l \in 1..(n + 1) : l = n + 1 \/ l \in 1..n BY <1>2
<1>5. \A l \in 1..(n + 1) : a[l] = s \/ \E x \in DOMAIN q : a[l] = q[x]
  BY <1>2, <1>3, <1>4
<1>6. CASE r = a /\ Len(r) = n + 1 BY <1>0, <1>1, <1>5, <1>6
<1>7. CASE n = Window /\ Len(r) = Window /\ \A l \in 1..Window : r[l] = a[l + 1]
  <2>1. m \in 1..n BY <1>0, <1>1, <1>7
  <2>2. r[m] = a[m + 1] BY <1>7, <2>1
  <2>3. m + 1 \in 1..(n + 1) BY <1>2, <2>1
  <2>4. QED BY <1>0, <1>5, <2>2, <2>3
<1>8. QED BY <1>1, <1>6, <1>7

\* The pending q are open requests g, none of D, that settle at t if at all.
Retires(q, D, R, T, g, t) ==
  \A k \in DOMAIN q : /\ g[k] \notin D /\ q[k].request = R[g[k]] /\ T[g[k]] = t
                      /\ \A l \in DOMAIN q : g[k] = g[l] => k = l

Distinguishable(q, D, R, g) == \A i, j \in D \cup {g[k] : k \in DOMAIN q} : R[i] = R[j] => i = j

Extends(r, settled, q) ==
  \A m \in DOMAIN r :
    \/ \E k \in DOMAIN q : DecidedCalls(q[k]) # {} /\ r[m] = Settlement(q[k])
    \/ \E l \in DOMAIN settled : r[m] = settled[l]

Voiced(q, g) == {g[k] : k \in {l \in DOMAIN q : DecidedCalls(q[l]) # {}}}

\* Requests q, each the g-th of the log, all settled at the same last time.
LEMMA RetireHolds ==
  ASSUME NEW settled, NEW D, NEW R, NEW T, Holds(settled, D, R, T),
         NEW q, IsSequence(q), NEW g, NEW t \in Nat,
         Retires(q, D, R, T, g, t),
         \A i \in D : T[i] \in Nat /\ T[i] <= t,
         Distinguishable(q, D, R, g),
         NEW f, IsRetiring(f, settled, q, Len(q))
  PROVE  Holds(f[Len(q)], D \cup Voiced(q, g), R, T) /\ Extends(f[Len(q)], settled, q)
<1> USE DEF Retires, Distinguishable
<1>0. PICK n, all : n = Len(q) /\ all = {k \in DOMAIN q : DecidedCalls(q[k]) # {}} OBVIOUS
<1>1. n \in Nat /\ DOMAIN q = 1..n BY <1>0 DEF IsSequence
<1>2. f[0] = settled /\ \A k \in 1..n : f[k] = Retired(f[k - 1], q[k])
  BY <1>0, <1>1 DEF IsRetiring
<1> DEFINE Said(k) == all \cap (1..k)
           Upto(k) == D \cup {g[j] : j \in Said(k)}
           Known(k) == \A m \in DOMAIN f[k] : \/ \E j \in Said(k) : f[k][m] = Settlement(q[j])
                                             \/ \E l \in DOMAIN settled : f[k][m] = settled[l]
           S == {k \in 0..n : Holds(f[k], Upto(k), R, T) /\ Known(k)}
<1>3. 0 \in S
  <2>1. Said(0) = {} OBVIOUS
  <2>2. Upto(0) = D BY <2>1
  <2>3. Known(0) BY <1>2
  <2> HIDE DEF Upto, Known
  <2>4. QED BY <1>1, <1>2, <2>2, <2>3
<1>4. ASSUME NEW k \in 0..(n - 1), k \in S PROVE k + 1 \in S
  <2>1. Holds(f[k], Upto(k), R, T) /\ Known(k) BY <1>4
  <2>2. k + 1 \in 1..n /\ k + 1 \in 0..n /\ k \in Nat BY <1>1, <1>4
  <2>3. f[k + 1] = Retired(f[k], q[k + 1]) BY <1>1, <1>2, <2>2
  <2>4. CASE DecidedCalls(q[k + 1]) = {}
    <3>1. f[k + 1] = f[k] BY <2>3, <2>4 DEF Retired
    <3>2. k + 1 \notin all BY <1>0, <2>4
    <3>3. Said(k + 1) = Said(k) BY <2>2, <3>2
    <3> HIDE DEF Said
    <3>4. Upto(k + 1) = Upto(k) BY <3>3
    <3>5. Known(k + 1) BY <2>1, <3>1, <3>3
    <3> HIDE DEF Upto, Known
    <3>6. QED BY <2>1, <2>2, <3>1, <3>4, <3>5
  <2>5. CASE DecidedCalls(q[k + 1]) # {}
    <3>0. PICK s : s = Settlement(q[k + 1]) OBVIOUS
    <3>1. f[k + 1] = Remember(f[k], s) BY <2>3, <2>5, <3>0 DEF Retired
    <3>2. k + 1 \in all BY <1>0, <1>1, <2>2, <2>5
    <3>3. Said(k + 1) = Said(k) \cup {k + 1} /\ Said(k) \subseteq DOMAIN q
      BY <1>0, <2>2, <3>2
    <3>4. k + 1 \in DOMAIN q /\ k + 1 \notin Said(k) BY <1>1, <2>2
    <3>5. s.request = R[g[k + 1]] BY <3>0, <3>4 DEF Settlement
    <3> HIDE DEF Said
    <3>6. g[k + 1] \notin Upto(k)
      <4>1. \A j \in Said(k) : g[j] # g[k + 1] BY <3>3, <3>4
      <4>2. QED BY <3>4, <4>1
    <3>7. Upto(k + 1) = Upto(k) \cup {g[k + 1]} BY <3>3
    <3>8. \A i \in Upto(k) : i \in D \cup {g[j] : j \in DOMAIN q} BY <3>3
    <3>9. \A i \in Upto(k) : T[i] \in Nat /\ T[i] <= t BY <3>3
    <3>10. g[k + 1] \in D \cup {g[j] : j \in DOMAIN q} /\ T[g[k + 1]] = t BY <3>4
    <3> HIDE DEF Upto
    <3>11. \A i \in Upto(k) : R[i] # R[g[k + 1]] /\ T[i] <= T[g[k + 1]]
      BY <3>6, <3>8, <3>9, <3>10
    <3>12. \A i \in Upto(k) \cup {g[k + 1]} : T[i] \in Nat BY <3>9, <3>10
    <3>13. \A i, j \in Upto(k) : R[i] = R[j] => i = j BY <3>8
    <3>14. Holds(Remember(f[k], s), Upto(k) \cup {g[k + 1]}, R, T)
      BY <2>1, <3>5, <3>6, <3>11, <3>12, <3>13, RememberHolds
    <3>15. Known(k + 1)
      <4>1. IsSequence(f[k]) /\ Len(f[k]) <= Window BY <2>1 DEF Holds
      <4>2. ASSUME NEW m \in DOMAIN f[k + 1]
            PROVE  \/ \E j \in Said(k + 1) : f[k + 1][m] = Settlement(q[j])
                   \/ \E l \in DOMAIN settled : f[k + 1][m] = settled[l]
        <5>1. f[k + 1][m] = s \/ \E l \in DOMAIN f[k] : f[k + 1][m] = f[k][l]
          BY <3>1, <4>1, <4>2, RememberHas
        <5>2. QED BY <2>1, <3>0, <3>3, <5>1
      <4>3. QED BY <4>2
    <3> HIDE DEF Known
    <3>16. QED BY <2>2, <3>1, <3>7, <3>14, <3>15
  <2>6. QED BY <2>4, <2>5
<1>5. n \in S
  <2> HIDE DEF S
  <2>1. QED BY <1>1, <1>3, <1>4, Induction
<1>6. Said(n) = all BY <1>0, <1>1
<1>7. Holds(f[n], Upto(n), R, T) /\ Known(n) BY <1>5
<1> HIDE DEF Said
<1>8. {g[k] : k \in Said(n)} = Voiced(q, g) BY <1>0, <1>6 DEF Voiced
<1>9. Extends(f[n], settled, q) BY <1>0, <1>6, <1>7 DEF Extends
<1>10. QED BY <1>0, <1>7, <1>8, <1>9

---------------------------------------------------------------------------
(* The approvals.                                                          *)

Decided == {i \in DOMAIN published : RequestAt(i) /\ DecidedRequest(i)}
OpenOnes == {i \in DOMAIN published : RequestAt(i) /\ OpenRequest(i)}

Ids == [i \in DOMAIN published |-> published[i].request]
Times == [i \in DOMAIN published |-> SettledAt(i)]
Decisions(i) == [s \in Slots(i) |-> Slot(i, s)]

\* A pending request is an open one of the log, with its answers so far.
Mirrors(p, i) == p.request = published[i].request /\ p.decisions = Decisions(i)

\* A settlement is a decided request, with its recorded answers in call order.
Reports(r, i) ==
  /\ r.request = published[i].request
  /\ {r.calls[x] : x \in DOMAIN r.calls} = {s \in Slots(i) : Slot(i, s) # "none"}
  /\ \A x, y \in DOMAIN r.calls : x < y => r.calls[x] < r.calls[y]
  /\ \A x \in DOMAIN r.calls : r.decisions[x] = Slot(i, r.calls[x])

PendingInv ==
  /\ ArePending(hub.pending)
  /\ \A k \in DOMAIN hub.pending : \E i \in OpenOnes : Mirrors(hub.pending[k], i)
  /\ \A i \in OpenOnes : \E k \in DOMAIN hub.pending : hub.pending[k].request = published[i].request
  /\ \A k, l \in DOMAIN hub.pending : hub.pending[k].request = hub.pending[l].request => k = l

SettledInv ==
  /\ Holds(hub.settled, Decided, Ids, Times)
  /\ \A x : (\E m \in DOMAIN hub.settled : x = hub.settled[m]) =>
           \E i \in Decided : Reports(x, i)

ApprovalInv == PendingInv /\ SettledInv

\* The times of decided requests are positions of the log, or just past it.
LEMMA MaxIs ==
  ASSUME NEW S, S \subseteq Nat, NEW t \in S, \A y \in S : y <= t
  PROVE  Max(S) = t
<1>1. \A x \in S : (\A y \in S : x >= y) => x = t
  <2>1. ASSUME NEW x \in S, \A y \in S : x >= y PROVE x = t
    <3>1. x >= t /\ x <= t /\ x \in Nat /\ t \in Nat BY <2>1
    <3>2. QED BY <3>1
  <2>2. QED BY <2>1
<1>2. \A y \in S : t >= y BY DEF Max
<1>3. QED BY <1>1, <1>2 DEF Max

LEMMA MaxExists ==
  ASSUME NEW n \in Nat, NEW S, S \subseteq 0..n, S # {}
  PROVE  Max(S) \in S /\ \A y \in S : y <= Max(S)
<1> DEFINE U == {k \in 0..n : \E x \in S : k = n - x}
<1>1. PICK x \in S : TRUE OBVIOUS
<1>2. n - x \in U BY <1>1
<1>3. U \subseteq Nat /\ U # {}
  <2>1. U # {} BY <1>2
  <2>2. QED BY <2>1
<1> HIDE DEF U
<1>4. PICK m \in U : \A k \in U : m <= k BY <1>3, LeastNatural
<1>5. PICK t \in S : m = n - t BY <1>4 DEF U
<1>6. ASSUME NEW y \in S PROVE y <= t
  <2>1. y \in 0..n /\ t \in 0..n BY <1>5
  <2>2. n - y \in U BY <2>1 DEF U
  <2>3. m <= n - y BY <1>4, <2>2
  <2>4. QED BY <1>5, <2>1, <2>3
<1>7. S \subseteq Nat OBVIOUS
<1>8. Max(S) = t BY <1>5, <1>6, <1>7, MaxIs
<1>9. QED BY <1>5, <1>6, <1>8

LEMMA SettledAtType ==
  ASSUME WellFormedOffers, LogIsOffered, IsSequence(published),
         NEW i \in DOMAIN published, RequestAt(i)
  PROVE  /\ SettledAt(i) \in Nat /\ SettledAt(i) <= Len(published) + 1
         /\ (\A s \in Slots(i) : Slot(i, s) # "none") => SettledAt(i) <= Len(published)
<1>1. Len(published) \in Nat /\ DOMAIN published = 1..Len(published) BY DEF IsSequence
<1>2. CASE ~ \A s \in Slots(i) : Slot(i, s) # "none" BY <1>1, <1>2 DEF SettledAt
<1>3. CASE \A s \in Slots(i) : Slot(i, s) # "none"
  <2> DEFINE S == {Min(Addressing(i, s)) : s \in Slots(i)}
  <2>1. published[i].calls \in Nat \ {0} BY LoggedIsWellFormed
  <2>2. 1 \in Slots(i) BY <2>1 DEF Slots
  <2>3. S # {} BY <2>2
  <2>4. ASSUME NEW s \in Slots(i) PROVE Min(Addressing(i, s)) \in 1..Len(published)
    <3>1. Addressing(i, s) # {} BY <1>3, SlotIsOpen
    <3>2. Addressing(i, s) \subseteq Nat BY AddressingIs
    <3>3. Min(Addressing(i, s)) \in FirstEvents BY <3>1, <3>2, AddressingIs, MinIsLeast
    <3>4. QED BY <1>1, <3>3 DEF FirstEvents
  <2>5. S \subseteq 0..Len(published) BY <1>1, <2>4
  <2>6. SettledAt(i) = Max(S) BY <1>3 DEF SettledAt
  <2> HIDE DEF S
  <2>7. Max(S) \in 0..Len(published) BY <1>1, <2>3, <2>5, MaxExists
  <2>8. QED BY <1>1, <2>6, <2>7
<1>4. QED BY <1>2, <1>3

LEMMA ApprovalInvMeans ==
  ASSUME WellFormedOffers, LogInv, ApprovalInv
  PROVE  ApprovalsFollowLog
<1>1. IsSequence(published) /\ LogIsOffered BY DEF LogInv, HubInv
<1>2. ASSUME NEW i \in DOMAIN published, RequestAt(i)
      PROVE  LET mine == {k \in DOMAIN hub.pending : hub.pending[k].request = published[i].request}
             IN IF OpenRequest(i)
                THEN \E k \in mine : hub.pending[k].decisions = [s \in Slots(i) |-> Slot(i, s)]
                ELSE mine = {}
  <2>1. ASSUME NEW k \in DOMAIN hub.pending, hub.pending[k].request = published[i].request
        PROVE  OpenRequest(i) /\ hub.pending[k].decisions = [s \in Slots(i) |-> Slot(i, s)]
    <3>1. PICK j \in OpenOnes : Mirrors(hub.pending[k], j) BY DEF ApprovalInv, PendingInv
    <3>2. j = i BY <1>2, <2>1, <3>1 DEF LogInv, RequestsAreDistinct, OpenOnes, Mirrors
    <3>3. QED BY <3>1, <3>2 DEF OpenOnes, Mirrors, Decisions
  <2>2. ASSUME OpenRequest(i)
        PROVE  \E k \in DOMAIN hub.pending : hub.pending[k].request = published[i].request
    BY <1>2, <2>2 DEF ApprovalInv, PendingInv, OpenOnes
  <2>3. QED BY <2>1, <2>2
<1>3. ASSUME NEW i \in DOMAIN published, RequestAt(i), DecidedRequest(i),
             ~\E m \in DOMAIN hub.settled : hub.settled[m].request = published[i].request
      PROVE  Evicted(i)
  <2>1. i \in Decided BY <1>3 DEF Decided
  <2>2. PICK q : q = hub.settled OBVIOUS
  <2>3. /\ IsSequence(q) /\ Len(q) = Window
        /\ \A m \in DOMAIN q : \E j \in Decided : q[m].request = Ids[j]
        /\ \A m, l \in DOMAIN q : q[m].request = q[l].request => m = l
        /\ \A m \in DOMAIN q, j \in Decided : q[m].request = Ids[j] => Times[i] <= Times[j]
    <3>1. Ids[i] = published[i].request BY DEF Ids
    <3>2. QED BY <1>3, <2>1, <2>2, <3>1 DEF ApprovalInv, SettledInv, Holds
  <2>4. Window \in Nat BY LiveStateAssumption
  <2>5. DOMAIN q = 1..Window BY <2>3 DEF IsSequence
  <2> DEFINE J == {j \in DOMAIN published : /\ j # i /\ RequestAt(j) /\ DecidedRequest(j)
                                            /\ SettledAt(j) >= SettledAt(i)}
             f == [m \in 1..Window |-> CHOOSE j \in Decided : q[m].request = Ids[j]]
  <2>6. ASSUME NEW m \in 1..Window PROVE f[m] \in J /\ q[m].request = Ids[f[m]]
    <3>1. f[m] \in Decided /\ q[m].request = Ids[f[m]] BY <2>3, <2>5
    <3> HIDE DEF f
    <3>2. PICK j : j = f[m] OBVIOUS
    <3>3. j \in DOMAIN published /\ RequestAt(j) /\ DecidedRequest(j) BY <3>1, <3>2 DEF Decided
    <3>4. Times[i] <= Times[j] BY <2>3, <2>5, <3>1, <3>2
    <3>5. SettledAt(i) <= SettledAt(j) BY <1>3, <3>3, <3>4 DEF Times
    <3>6. SettledAt(i) \in Nat /\ SettledAt(j) \in Nat
      BY <1>1, <1>3, <3>3, SettledAtType
    <3>7. j # i
      <4>1. q[m].request = published[j].request BY <3>1, <3>2, <3>3 DEF Ids
      <4>2. QED BY <1>3, <2>2, <2>5, <4>1
    <3>8. j \in J BY <3>3, <3>5, <3>6, <3>7
    <3>9. QED BY <3>1, <3>2, <3>8
  <2>7. IsFiniteSet(J)
    <3>1. Len(published) \in Nat /\ DOMAIN published = 1..Len(published) BY <1>1 DEF IsSequence
    <3>2. IsFiniteSet(1..Len(published)) BY <3>1, FS_Interval
    <3>3. J \subseteq 1..Len(published) BY <3>1
    <3> HIDE DEF J
    <3>4. QED BY <3>2, <3>3, FS_Subset
  <2>8. Evicted(i) <=> Cardinality(J) >= Window BY DEF Evicted
  <2>9. DOMAIN f = 1..Window /\ f = [m \in 1..Window |-> f[m]] OBVIOUS
  <2> HIDE DEF f, J
  <2>10. f \in [1..Window -> J] BY <2>6, <2>9
  <2>11. \A m, l \in 1..Window : f[m] = f[l] => m = l BY <2>3, <2>5, <2>6
  <2>12. f \in Injection(1..Window, J) BY <2>9, <2>10, <2>11 DEF Injection, IsInjective
  <2>13. Cardinality(1..Window) <= Cardinality(J) BY <2>7, <2>12, FS_Injection
  <2>14. Cardinality(1..Window) = Window BY <2>4, FS_Interval
  <2>15. Cardinality(J) \in Nat BY <2>7, FS_CardinalityType
  <2>16. QED BY <2>4, <2>8, <2>13, <2>14, <2>15
<1>4. ASSUME NEW m \in DOMAIN hub.settled
      PROVE  LET r == hub.settled[m] IN
             \E i \in DOMAIN published :
               /\ RequestAt(i) /\ published[i].request = r.request /\ DecidedRequest(i)
               /\ {r.calls[x] : x \in DOMAIN r.calls} = {s \in Slots(i) : Slot(i, s) # "none"}
               /\ \A x, y \in DOMAIN r.calls : x < y => r.calls[x] < r.calls[y]
               /\ \A x \in DOMAIN r.calls : r.decisions[x] = Slot(i, r.calls[x])
  <2>1. PICK i \in Decided : Reports(hub.settled[m], i) BY DEF ApprovalInv, SettledInv
  <2>2. i \in DOMAIN published /\ RequestAt(i) /\ DecidedRequest(i) BY DEF Decided
  <2>3. QED BY <2>1, <2>2 DEF Reports
<1>5. QED BY <1>2, <1>3, <1>4 DEF ApprovalsFollowLog

---------------------------------------------------------------------------
(* The requests of the log after an item.                                  *)

AllDecided(i) == \A s \in Slots(i) : Slot(i, s) # "none"

LEMMA SlotsExist ==
  ASSUME WellFormedOffers, LogIsOffered, NEW i \in DOMAIN published, RequestAt(i)
  PROVE  \E s \in Slots(i) : TRUE
<1>1. published[i].calls \in Nat \ {0} BY LoggedIsWellFormed
<1>2. 1 \in Slots(i) BY <1>1 DEF Slots
<1>3. QED BY <1>2

\* While the run is on, a request is open until every slot is decided.
LEMMA WhileRunning ==
  ASSUME WellFormedOffers, LogIsOffered, ~Over, ~closed, NEW i
  PROVE  /\ i \in OpenOnes <=> i \in DOMAIN published /\ RequestAt(i) /\ ~AllDecided(i)
         /\ i \in Decided <=> i \in DOMAIN published /\ RequestAt(i) /\ AllDecided(i)
<1>1. i \in OpenOnes <=> i \in DOMAIN published /\ RequestAt(i) /\ ~AllDecided(i)
  BY DEF OpenOnes, OpenRequest, AllDecided
<1>2. i \in Decided <=> i \in DOMAIN published /\ RequestAt(i) /\ AllDecided(i)
  BY SlotsExist DEF Decided, DecidedRequest, OpenRequest, AllDecided
<1>3. QED BY <1>1, <1>2

LEMMA PostedRequests ==
  ASSUME WellFormedOffers, LogInv, NEW o \in Offered, Posted(o), NEW n, n = Len(published) + 1
  PROVE  /\ \A i \in DOMAIN published : /\ RequestAt(i)' <=> RequestAt(i)
                                        /\ published'[i].request = published[i].request
                                        /\ Slots(i)' = Slots(i)
                                        /\ i \in DOMAIN published' /\ i # n
         /\ \A i : i \in DOMAIN published' <=> i \in DOMAIN published \/ i = n
         /\ RequestAt(n)' <=> published'[n].kind = "requested"
<1>1. /\ n \in Nat \ {0} /\ DOMAIN published = 1..(n - 1) /\ DOMAIN published' = 1..n
      /\ \A j \in DOMAIN published : published'[j] = published[j]
  BY PostedItem
<1>2. \A i \in DOMAIN published : /\ RequestAt(i)' <=> RequestAt(i)
                                  /\ published'[i].request = published[i].request
                                  /\ Slots(i)' = Slots(i)
  BY <1>1 DEF RequestAt, Slots
<1>3. \A i : i \in 1..n <=> i \in 1..(n - 1) \/ i = n BY <1>1
<1>4. n \notin 1..(n - 1) BY <1>1
<1>5. RequestAt(n)' <=> published'[n].kind = "requested" BY DEF RequestAt
<1>6. QED BY <1>1, <1>2, <1>3, <1>4, <1>5

\* What becomes open and what becomes decided, the run going on.
LEMMA PostedRunning ==
  ASSUME WellFormedOffers, LogInv, NEW o \in Offered, Posted(o), LogIsOffered', ~Over',
         NEW n, n = Len(published) + 1
  PROVE  /\ \A i \in DOMAIN published : RequestAt(i) =>
              /\ i \in OpenOnes' <=> \E s \in Slots(i) : Slot(i, s)' = "none"
              /\ i \in Decided' <=> \A s \in Slots(i) : Slot(i, s)' # "none"
         /\ \A i : i \in OpenOnes' \/ i \in Decided' =>
              \/ i \in DOMAIN published /\ RequestAt(i)
              \/ i = n /\ published'[n].kind = "requested"
         /\ n \notin Decided'
         /\ published'[n].kind = "requested" => n \in OpenOnes'
<1>1. /\ \A i \in DOMAIN published : /\ RequestAt(i)' <=> RequestAt(i)
                                     /\ Slots(i)' = Slots(i) /\ i \in DOMAIN published'
      /\ \A i : i \in DOMAIN published' <=> i \in DOMAIN published \/ i = n
      /\ RequestAt(n)' <=> published'[n].kind = "requested"
  BY PostedRequests
<1>2. ~closed' BY DEF Posted
<1>3. \A i : i \in OpenOnes' <=> /\ i \in DOMAIN published' /\ RequestAt(i)'
                                 /\ \E s \in Slots(i)' : Slot(i, s)' = "none"
  BY <1>2 DEF OpenOnes, OpenRequest
<1>4. \A i : i \in Decided' <=> /\ i \in DOMAIN published' /\ RequestAt(i)'
                                /\ \A s \in Slots(i)' : Slot(i, s)' # "none"
                                /\ \E s \in Slots(i)' : Slot(i, s)' # "none"
  BY <1>2 DEF Decided, DecidedRequest, OpenRequest
<1>5. \A i \in DOMAIN published : RequestAt(i) => \E s \in Slots(i) : TRUE
  BY SlotsExist DEF LogInv
<1>6. n \notin Decided' BY <1>4, NewRequestIsOpen
<1>7. ASSUME published'[n].kind = "requested" PROVE n \in OpenOnes'
  <2>1. published'[n].calls \in Nat \ {0} BY <1>7, PostedItem
  <2>2. 1 \in Slots(n)' BY <2>1 DEF Slots
  <2>3. Slot(n, 1)' = "none" BY NewRequestIsOpen
  <2>4. QED BY <1>1, <1>3, <1>7, <2>2, <2>3
<1>8. QED BY <1>1, <1>3, <1>4, <1>5, <1>6, <1>7

\* What is decided stays decided, with the answers and the time it has.
LEMMA PostedDecided ==
  ASSUME WellFormedOffers, LogInv, NEW o \in Offered, Posted(o), LogIsOffered',
         NEW i \in Decided
  PROVE  /\ i \in Decided' /\ SettledAt(i)' = SettledAt(i)
         /\ SettledAt(i) \in Nat /\ SettledAt(i) <= Len(published)
         /\ \A s \in Slots(i) : Slot(i, s)' = Slot(i, s) /\ Slot(i, s) # "none"
<1>0. PICK n : n = Len(published) + 1 OBVIOUS
<1>1. ~closed /\ ~Over /\ LogIsOffered /\ IsSequence(published)
  BY DEF Posted, Offers, LogInv, HubInv
<1>2. i \in DOMAIN published /\ RequestAt(i) /\ AllDecided(i) BY <1>1, WhileRunning
<1>3. \A s \in Slots(i) : /\ Slot(i, s)' = Slot(i, s) /\ Slot(i, s) # "none"
                          /\ Min(Addressing(i, s))' = Min(Addressing(i, s))
  BY <1>2, PostedSlots DEF AllDecided
<1>4. RequestAt(i)' /\ Slots(i)' = Slots(i) /\ i \in DOMAIN published'
  BY <1>0, <1>2, PostedRequests
<1>5. SettledAt(i)' = SettledAt(i) BY <1>3, <1>4 DEF SettledAt
<1>6. SettledAt(i) \in Nat /\ SettledAt(i) <= Len(published)
  BY <1>1, <1>2, SettledAtType DEF AllDecided
<1>7. i \in Decided'
  <2>1. \A s \in Slots(i)' : Slot(i, s)' # "none" BY <1>3, <1>4
  <2>2. \E s \in Slots(i)' : TRUE BY <1>1, <1>2, <1>4, SlotsExist
  <2>3. QED BY <1>4, <2>1, <2>2 DEF Decided, DecidedRequest, OpenRequest
<1>8. QED BY <1>3, <1>5, <1>6, <1>7

LEMMA PostedSettled ==
  ASSUME WellFormedOffers, LogInv, SettledInv, NEW o \in Offered, Posted(o), LogIsOffered',
         NEW R, NEW T, R = Ids', T = Times'
  PROVE  /\ Holds(hub.settled, Decided, R, T)
         /\ \A i \in Decided : T[i] \in Nat /\ T[i] <= Len(published)
         /\ \A i \in Decided : i \in Decided'
         /\ \A r, i : i \in Decided /\ Reports(r, i) => Reports(r, i)'
<1>0. PICK n, D, R1, T1 : n = Len(published) + 1 /\ D = Decided /\ R1 = Ids /\ T1 = Times OBVIOUS
<1>1. ASSUME NEW i \in D
      PROVE  /\ R[i] = R1[i] /\ T[i] = T1[i] /\ T[i] \in Nat /\ T[i] <= Len(published)
             /\ i \in Decided'
             /\ \A r : Reports(r, i) => Reports(r, i)'
  <2>1. /\ i \in Decided' /\ SettledAt(i)' = SettledAt(i)
        /\ SettledAt(i) \in Nat /\ SettledAt(i) <= Len(published)
        /\ \A s \in Slots(i) : Slot(i, s)' = Slot(i, s) /\ Slot(i, s) # "none"
    BY <1>0, PostedDecided
  <2>2. i \in DOMAIN published BY <1>0 DEF Decided
  <2>3. /\ published'[i].request = published[i].request /\ Slots(i)' = Slots(i)
        /\ i \in DOMAIN published'
    BY <1>0, <2>2, PostedRequests
  <2>4. R[i] = R1[i] BY <1>0, <2>2, <2>3 DEF Ids
  <2>5. T[i] = SettledAt(i)' /\ T1[i] = SettledAt(i) BY <1>0, <2>2, <2>3 DEF Times
  <2>6. ASSUME NEW r, Reports(r, i) PROVE Reports(r, i)'
    <3>1. {s \in Slots(i)' : Slot(i, s)' # "none"} = {s \in Slots(i) : Slot(i, s) # "none"}
      BY <2>1, <2>3
    <3>2. \A x \in DOMAIN r.calls : r.calls[x] \in Slots(i) BY <2>6 DEF Reports
    <3>3. \A x \in DOMAIN r.calls : r.decisions[x] = Slot(i, r.calls[x])'
      <4>1. ASSUME NEW x \in DOMAIN r.calls PROVE r.decisions[x] = Slot(i, r.calls[x])'
        <5>1. PICK s : s = r.calls[x] OBVIOUS
        <5>2. s \in Slots(i) /\ r.decisions[x] = Slot(i, s) BY <2>6, <3>2, <5>1 DEF Reports
        <5>3. r.decisions[x] = Slot(i, s)' BY <2>1, <5>2
        <5>4. QED BY <5>1, <5>3
      <4>2. QED BY <4>1
    <3>4. r.request = published'[i].request BY <2>3, <2>6 DEF Reports
    <3>5. QED BY <2>6, <3>1, <3>3, <3>4 DEF Reports
  <2>7. QED BY <2>1, <2>4, <2>5, <2>6
<1>2. Holds(hub.settled, D, R1, T1) BY <1>0 DEF SettledInv
<1>3. Holds(hub.settled, D, R, T) BY <1>1, <1>2, HoldsAgree
<1>4. QED BY <1>0, <1>1, <1>3

\* Nothing newly decided: the settled part stays.
LEMMA SettledStays ==
  ASSUME WellFormedOffers, LogInv, SettledInv, NEW o \in Offered, Posted(o), LogIsOffered',
         hub'.settled = hub.settled, Decided' = Decided
  PROVE  SettledInv'
<1>0. PICK R, T : R = Ids' /\ T = Times' OBVIOUS
<1>1. /\ Holds(hub.settled, Decided, R, T)
      /\ \A r, i : i \in Decided /\ Reports(r, i) => Reports(r, i)'
  BY <1>0, PostedSettled
<1>2. Holds(hub'.settled, Decided', Ids', Times') BY <1>0, <1>1
<1>3. ASSUME NEW x, \E m \in DOMAIN hub'.settled : x = hub'.settled[m]
      PROVE  \E i \in Decided' : Reports(x, i)'
  <2>1. PICK i \in Decided : Reports(x, i) BY <1>3 DEF SettledInv
  <2>2. QED BY <1>1, <2>1
<1>4. QED BY <1>2, <1>3 DEF SettledInv

\* An item that answers nobody leaves the slots.
LEMMA SlotsStay ==
  ASSUME WellFormedOffers, LogInv, NEW o \in Offered, Posted(o), LogIsOffered',
         NEW n, n = Len(published) + 1,
         NEW i \in DOMAIN published, RequestAt(i), NEW s,
         ~ /\ IsNew(published'[n]) /\ published'[n].event.type = "resolve"
           /\ Answers(published'[n].event.cmd, published[i].request, s)
  PROVE  Slot(i, s)' = Slot(i, s)
  BY PostedSlots

LEMMA MirrorsStay ==
  ASSUME WellFormedOffers, LogInv, NEW o \in Offered, Posted(o),
         NEW i \in DOMAIN published, NEW p, Mirrors(p, i),
         \A s \in Slots(i) : Slot(i, s)' = Slot(i, s)
  PROVE  Mirrors(p, i)'
<1>0. PICK n : n = Len(published) + 1 OBVIOUS
<1>1. published'[i].request = published[i].request /\ Slots(i)' = Slots(i)
  BY <1>0, PostedRequests
<1>2. Decisions(i)' = Decisions(i) BY <1>1 DEF Decisions
<1>3. QED BY <1>1, <1>2 DEF Mirrors

\* An item that asks nothing, answers nothing open and ends nothing.
LEMMA ApprovalsStay ==
  ASSUME WellFormedOffers, LogInv, ApprovalInv, NEW o \in Offered, Posted(o), LogIsOffered',
         ~Over', NEW n, n = Len(published) + 1, published'[n].kind # "requested",
         \A i \in DOMAIN published : RequestAt(i) =>
           \A s \in Slots(i) : Slot(i, s)' = Slot(i, s),
         hub'.pending = hub.pending, hub'.settled = hub.settled
  PROVE  ApprovalInv'
<1>1. ~closed /\ ~Over /\ LogIsOffered BY DEF Posted, Offers, LogInv
<1>2. \A i : i \in OpenOnes' <=> i \in OpenOnes
  BY <1>1, PostedRunning, WhileRunning DEF AllDecided
<1>3. \A i : i \in Decided' <=> i \in Decided
  BY <1>1, PostedRunning, WhileRunning DEF AllDecided
<1>4. SettledInv'
  <2>1. Decided' = Decided BY <1>3
  <2>2. QED BY <2>1, SettledStays DEF ApprovalInv
<1>5. PendingInv'
  <2>1. \A i \in OpenOnes : i \in DOMAIN published /\ RequestAt(i) BY DEF OpenOnes
  <2>2. \A i \in OpenOnes : published'[i].request = published[i].request
    BY <2>1, PostedRequests
  <2>3. ASSUME NEW k \in DOMAIN hub'.pending
        PROVE  \E i \in OpenOnes' : Mirrors(hub.pending[k], i)'
    <3>1. PICK p : p = hub.pending[k] OBVIOUS
    <3>2. PICK i \in OpenOnes : Mirrors(p, i) BY <3>1 DEF ApprovalInv, PendingInv
    <3>3. Mirrors(p, i)' BY <2>1, <3>2, MirrorsStay
    <3>4. p = hub'.pending[k] BY <3>1
    <3>5. QED BY <1>2, <3>3, <3>4 DEF Mirrors
  <2>4. ASSUME NEW i \in OpenOnes'
        PROVE  \E k \in DOMAIN hub'.pending : hub'.pending[k].request = published'[i].request
    BY <1>2, <2>2 DEF ApprovalInv, PendingInv
  <2>5. ArePending(hub'.pending) /\ \A k, l \in DOMAIN hub'.pending :
                                      hub'.pending[k].request = hub'.pending[l].request => k = l
    BY DEF ApprovalInv, PendingInv
  <2>6. QED BY <2>3, <2>4, <2>5 DEF PendingInv
<1>6. QED BY <1>4, <1>5 DEF ApprovalInv

\* A request made is pending, all slots open.
LEMMA ApprovalsRequested ==
  ASSUME WellFormedOffers, LogInv, ApprovalInv, NEW o \in Offered, Posted(o), LogIsOffered',
         RequestsAreDistinct', NEW n, n = Len(published) + 1, published'[n].kind = "requested"
  PROVE  ApprovalInv'
<1>0. PICK item, at, p, q : /\ item = published'[n] /\ at = At(hub, item.seq) /\ q = hub.pending
                            /\ p = [request |-> item.request, turn |-> item.turn,
                                    index |-> AnchorIndex(at, item.turn),
                                    decisions |-> [i \in 1..item.calls |-> "none"]]
  OBVIOUS
<1>1. ~closed /\ ~Over /\ LogIsOffered /\ IsHub(hub) BY DEF Posted, Offers, LogInv, HubInv
<1>2. hub' = Track(hub, item) BY <1>0, PostedItem
<1>3. ~IsNew(item) /\ ~Over'
  <2>1. ~IsNew(item) BY <1>0 DEF IsNew
  <2>2. QED BY <1>0, <2>1, PostedMovesOn
<1>4. \A i \in DOMAIN published : RequestAt(i) => \A s : Slot(i, s)' = Slot(i, s)
  BY <1>0, <1>3, SlotsStay
<1>5. /\ \A i \in DOMAIN published : RequestAt(i) =>
           /\ i \in OpenOnes' <=> i \in OpenOnes
           /\ i \in Decided' <=> i \in Decided
      /\ \A i : i \in OpenOnes' \/ i \in Decided' =>
           (i \in DOMAIN published /\ RequestAt(i)) \/ i = n
      /\ n \notin Decided' /\ n \in OpenOnes'
  BY <1>1, <1>3, <1>4, PostedRunning, WhileRunning DEF AllDecided
<1>6. \A i : i \in OpenOnes \/ i \in Decided => i \in DOMAIN published /\ RequestAt(i)
  BY DEF OpenOnes, Decided
<1>7. hub'.settled = hub.settled BY <1>0, <1>1, <1>2, TrackParts
<1>8. SettledInv'
  <2>1. Decided' = Decided BY <1>5, <1>6
  <2>2. QED BY <1>7, <2>1, SettledStays DEF ApprovalInv
<1>9. hub'.pending = Append(q, p)
  <2>1. hub'.pending = TrackRequested(at, item).pending BY <1>0, <1>1, <1>2, TrackParts
  <2>2. Same(hub, at) BY <1>0, <1>1, AtIsSame
  <2>3. QED BY <1>0, <2>1, <2>2 DEF TrackRequested, Same, IsHub, HubFields
<1>10. /\ IsSequence(q) /\ Len(q) \in Nat /\ DOMAIN q = 1..Len(q)
       /\ \A k \in DOMAIN q : IsPending(q[k])
  BY <1>0 DEF ApprovalInv, PendingInv, ArePending, IsSequence
<1>11. PICK m, r : m = Len(q) + 1 /\ r = hub'.pending OBVIOUS
<1>12. /\ IsSequence(r) /\ DOMAIN r = 1..m /\ r[m] = p /\ m \notin DOMAIN q
       /\ \A k \in DOMAIN q : r[k] = q[k]
       /\ \A k \in 1..m : k \in DOMAIN q \/ k = m
       /\ \A k \in DOMAIN q : k \in 1..m
       /\ m \in 1..m
  <2>1. /\ IsSequence(r) /\ Len(r) = m /\ \A k \in 1..Len(q) : r[k] = q[k]
        /\ r[m] = p
    BY <1>9, <1>10, <1>11, AppendIsSequence
  <2>2. DOMAIN r = 1..m BY <2>1 DEF IsSequence
  <2>3. QED BY <1>10, <1>11, <2>1, <2>2
<1>13. IsPending(p) /\ p.request = item.request /\ Mirrors(p, n)'
  <2>1. /\ p.request = item.request /\ p.decisions = [i \in 1..item.calls |-> "none"]
        /\ IsPending(p)
    BY <1>0 DEF IsPending, PendingFields
  <2>2. Slots(n)' = 1..item.calls BY <1>0 DEF Slots
  <2>3. \A s : Slot(n, s)' = "none" BY NewRequestIsOpen
  <2>4. Decisions(n)' = [i \in 1..item.calls |-> "none"] BY <2>2, <2>3 DEF Decisions
  <2>5. QED BY <1>0, <2>1, <2>4 DEF Mirrors
<1>14. \A i \in OpenOnes : published'[i].request = published[i].request /\ i \in OpenOnes'
  BY <1>5, <1>6, PostedRequests
<1>15. ASSUME NEW k \in DOMAIN q PROVE \E i \in OpenOnes : Mirrors(q[k], i)'
  <2>1. PICK x : x = q[k] OBVIOUS
  <2>2. PICK i \in OpenOnes : Mirrors(x, i) BY <1>0, <1>15, <2>1 DEF ApprovalInv, PendingInv
  <2>3. Mirrors(x, i)' BY <1>4, <1>6, <2>2, MirrorsStay
  <2>4. QED BY <2>1, <2>3 DEF Mirrors
<1>16. PendingInv'
  <2>1. ArePending(r) BY <1>10, <1>12, <1>13 DEF ArePending
  <2>2. ASSUME NEW k \in DOMAIN r PROVE \E i \in OpenOnes' : Mirrors(r[k], i)'
    <3>1. CASE k = m BY <1>5, <1>12, <1>13, <3>1 DEF Mirrors
    <3>2. CASE k \in DOMAIN q BY <1>12, <1>14, <1>15, <3>2 DEF Mirrors
    <3>3. QED BY <1>12, <3>1, <3>2
  <2>3. ASSUME NEW i \in OpenOnes'
        PROVE  \E k \in DOMAIN r : r[k].request = published'[i].request
    <3>1. CASE i = n BY <1>0, <1>12, <1>13, <3>1
    <3>2. CASE i # n
      <4>1. i \in OpenOnes BY <1>5, <3>2
      <4>2. PICK k \in DOMAIN q : q[k].request = published[i].request
        BY <1>0, <4>1 DEF ApprovalInv, PendingInv
      <4>3. QED BY <1>12, <1>14, <4>1, <4>2
    <3>3. QED BY <3>1, <3>2
  <2>4. \A k \in DOMAIN q : q[k].request # p.request
    <3>1. ASSUME NEW k \in DOMAIN q, q[k].request = p.request PROVE FALSE
      <4>1. PICK i \in OpenOnes : Mirrors(q[k], i) BY <1>0, <3>1 DEF ApprovalInv, PendingInv
      <4>2. i \in DOMAIN published /\ RequestAt(i) /\ published[i].request = item.request
        BY <1>6, <1>13, <3>1, <4>1 DEF Mirrors
      <4>3. /\ i \in DOMAIN published' /\ n \in DOMAIN published' /\ i # n
            /\ RequestAt(i)' /\ RequestAt(n)' /\ published'[i].request = published'[n].request
        BY <1>0, <4>2, PostedRequests
      <4>4. QED BY <4>3 DEF RequestsAreDistinct
    <3>2. QED BY <3>1
  <2>5. ASSUME NEW k \in DOMAIN r, NEW l \in DOMAIN r, r[k].request = r[l].request PROVE k = l
    <3>1. \A x, y \in DOMAIN q : q[x].request = q[y].request => x = y
      BY <1>0 DEF ApprovalInv, PendingInv
    <3>2. QED BY <1>12, <2>4, <2>5, <3>1
  <2>6. QED BY <1>11, <2>1, <2>2, <2>3, <2>5 DEF PendingInv, Mirrors
<1>17. QED BY <1>8, <1>16 DEF ApprovalInv

---------------------------------------------------------------------------
(* An answer.                                                              *)

\* What the first answer c to an open request leaves of its decisions.
AnsweredBy(before, c) ==
  [s \in DOMAIN before |->
     IF before[s] # "none" THEN before[s]
     ELSE IF c.kind = "batch" \/ c.index = s THEN Answer(c, s) ELSE "none"]

\* Entry k of pending q got the decisions ds: it settles when no slot is left.
Answered(settled, q, k, ds, g) ==
  IF \A s \in DOMAIN ds : ds[s] # "none"
  THEN /\ g.pending = RemoveAt(q, k)
       /\ g.settled = Remember(settled, Settlement([q[k] EXCEPT !.decisions = ds]))
  ELSE /\ g.settled = settled /\ DOMAIN g.pending = DOMAIN q
       /\ g.pending[k].request = q[k].request /\ g.pending[k].decisions = ds
       /\ \A j \in DOMAIN q : j # k => g.pending[j] = q[j]

\* The answer to the k-th pending request, not all of it decided: it settles
\* when the last slot is filled.
LEMMA ResolveOutcome ==
  ASSUME NEW h, IsHub(h), ArePending(h.pending), NEW k \in DOMAIN h.pending,
         NEW c, IsAnswer(c), h.pending[k].request = c.req,
         \A j \in DOMAIN h.pending : h.pending[j].request = c.req => j = k,
         NEW n \in Nat \ {0},
         h.pending[k].decisions = [s \in 1..n |-> h.pending[k].decisions[s]],
         \E s \in 1..n : h.pending[k].decisions[s] = "none"
  PROVE  Answered(h.settled, h.pending, k, AnsweredBy(h.pending[k].decisions, c), Resolve(h, c))
<1> DEFINE q == h.pending
           ds == AnsweredBy(q[k].decisions, c)
<1>0. PICK before : before = q[k].decisions OBVIOUS
<1>1. DOMAIN before = 1..n /\ DOMAIN ds = 1..n BY <1>0 DEF AnsweredBy
<1>2. \A s \in 1..n : ds[s] = IF before[s] # "none" THEN before[s]
                              ELSE IF c.kind = "batch" \/ c.index = s THEN Answer(c, s)
                              ELSE "none"
  BY <1>0, <1>1 DEF AnsweredBy
<1>3. ds = [s \in 1..n |-> ds[s]] BY <1>0, <1>1 DEF AnsweredBy
<1> HIDE DEF ds
<1>4. Resolve(h, c) = IF c.kind = "batch" THEN ResolveBatch(h, k, c) ELSE ResolveCall(h, k, c)
  <2>1. DOMAIN q \subseteq Nat /\ DOMAIN q = 1..Len(q) /\ Len(q) \in Nat
    BY DEF ArePending, IsSequence
  <2>2. \A j \in 1..(k - 1) : q[j].request # c.req
    <3>1. ASSUME NEW j \in 1..(k - 1) PROVE j \in DOMAIN q /\ j # k BY <2>1, <3>1
    <3>2. QED BY <3>1
  <2>3. PICK z : z = CHOOSE x \in DOMAIN h.pending :
                       /\ h.pending[x].request = c.req
                       /\ \A j \in 1..(x - 1) : h.pending[j].request # c.req
    OBVIOUS
  <2>4. z \in DOMAIN q /\ q[z].request = c.req BY <2>2, <2>3
  <2>5. z = k BY <2>4
  <2>6. \E x \in DOMAIN h.pending : h.pending[x].request = c.req BY <2>4
  <2>7. Resolve(h, c) = IF c.kind = "batch" THEN ResolveBatch(h, z, c) ELSE ResolveCall(h, z, c)
    BY <2>3, <2>6 DEF Resolve
  <2>8. QED BY <2>5, <2>7
<1>8. SUFFICES
        LET g == Resolve(h, c)
            p == [q[k] EXCEPT !.decisions = ds]
        IN IF \A s \in 1..n : ds[s] # "none"
           THEN g.pending = RemoveAt(q, k) /\ g.settled = Remember(h.settled, Settlement(p))
           ELSE /\ g.settled = h.settled /\ DOMAIN g.pending = DOMAIN q
                /\ g.pending[k].request = q[k].request /\ g.pending[k].decisions = ds
                /\ \A j \in DOMAIN q : j # k => g.pending[j] = q[j]
  BY <1>1 DEF Answered, ds
<1>5. CASE c.kind = "batch"
  <2>1. before # <<>> BY <1>1
  <2>2. Filled(before, c.decisions) = [s \in 1..n |-> IF before[s] # "none" THEN before[s]
                                                      ELSE IF s \in DOMAIN c.decisions
                                                           THEN c.decisions[s] ELSE "rejected"]
    BY <1>1 DEF Filled
  <2>3. \A s \in 1..n : ds[s] = Filled(before, c.decisions)[s]
    BY <1>2, <1>5, <2>2 DEF Answer
  <2>4. ds = Filled(before, c.decisions) BY <1>3, <2>2, <2>3
  <2>5. ResolveBatch(h, k, c) = Settle(h, k, ds) BY <1>0, <2>1, <2>4 DEF ResolveBatch
  <2>6. \A s \in 1..n : ds[s] # "none" BY <1>2, <1>5 DEF IsAnswer, Answer
  <2>7. QED BY <1>4, <1>5, <2>5, <2>6, SettleParts
<1>6. CASE c.kind = "call"
  <2>1. Resolve(h, c) = ResolveCall(h, k, c) BY <1>4, <1>6
  <2>2. c.decision # "none" BY <1>6 DEF IsAnswer
  <2>3. \A s \in 1..n : ds[s] = IF before[s] # "none" THEN before[s]
                                ELSE IF c.index = s THEN c.decision ELSE "none"
    BY <1>2, <1>6 DEF Answer
  <2>4. CASE c.index \notin DOMAIN before \/ before[c.index] # "none"
    <3>1. ResolveCall(h, k, c) = h BY <1>0, <2>4 DEF ResolveCall
    <3>2. \A s \in 1..n : ds[s] = before[s] BY <1>1, <2>3, <2>4
    <3>3. before = [s \in 1..n |-> before[s]] BY <1>0
    <3>4. ds = before BY <1>3, <3>2, <3>3
    <3>5. ~ \A s \in 1..n : ds[s] # "none" BY <1>0, <3>4
    <3>6. QED BY <1>0, <2>1, <3>1, <3>4, <3>5
  <2>5. CASE c.index \in DOMAIN before /\ before[c.index] = "none"
    <3>1. PICK after : after = [before EXCEPT ![c.index] = c.decision] OBVIOUS
    <3>2. DOMAIN after = 1..n /\ \A s \in 1..n : after[s] = ds[s] BY <1>1, <2>3, <2>5, <3>1
    <3>3. after = [s \in 1..n |-> after[s]] BY <1>1, <3>1
    <3>4. after = ds BY <1>3, <3>2, <3>3
    <3>5. ResolveCall(h, k, c) =
            IF \A s \in 1..n : ds[s] # "none" THEN Settle(h, k, ds)
            ELSE [h EXCEPT !.pending[k].decisions = ds]
      <4>1. h.pending[k].decisions = before BY <1>0
      <4>2. ResolveCall(h, k, c) =
              IF \A s \in DOMAIN after : after[s] # "none" THEN Settle(h, k, after)
              ELSE [h EXCEPT !.pending[k].decisions = after]
        BY <2>5, <3>1, <4>1 DEF ResolveCall
      <4>3. QED BY <1>1, <3>4, <4>2
    <3>6. CASE \A s \in 1..n : ds[s] # "none" BY <2>1, <3>5, <3>6, SettleParts
    <3>7. CASE ~ \A s \in 1..n : ds[s] # "none"
      <4>1. PICK g : g = [h EXCEPT !.pending[k].decisions = ds] OBVIOUS
      <4>2. g.settled = h.settled /\ g.pending = [q EXCEPT ![k] = [q[k] EXCEPT !.decisions = ds]]
        BY <4>1 DEF IsHub, HubFields
      <4>3. IsPending(q[k]) BY DEF ArePending
      <4>4. LET p == [q[k] EXCEPT !.decisions = ds] IN
            p.request = q[k].request /\ p.decisions = ds
        BY <4>3 DEF IsPending, PendingFields
      <4>5. Resolve(h, c) = g BY <2>1, <3>5, <3>7, <4>1
      <4>6. QED BY <3>7, <4>2, <4>4, <4>5
    <3>8. QED BY <3>6, <3>7
  <2>6. QED BY <2>4, <2>5
<1>7. QED BY <1>5, <1>6 DEF IsAnswer

\* The request that an answer completes settles as the answer is published.
LEMMA SettledNow ==
  ASSUME WellFormedOffers, LogInv, NEW o \in Offered, Posted(o), LogIsOffered',
         NEW n, n = Len(published) + 1, NEW i \in DOMAIN published, RequestAt(i),
         \A s \in Slots(i) : Slot(i, s)' # "none", \E s \in Slots(i) : Slot(i, s) = "none"
  PROVE  SettledAt(i)' = n
<1>1. n \in Nat \ {0} BY PostedItem
<1>2. Slots(i)' = Slots(i) BY PostedRequests
<1>3. ASSUME NEW s \in Slots(i)
      PROVE  /\ Slot(i, s) # "none" => Min(Addressing(i, s))' \in 1..(n - 1)
             /\ Slot(i, s) = "none" => Min(Addressing(i, s))' = n
  BY PostedSlots
<1>4. PICK S : S = {Min(Addressing(i, s))' : s \in Slots(i)} OBVIOUS
<1>5. S \subseteq Nat /\ n \in S /\ \A y \in S : y <= n
  <2>1. n \in S BY <1>3, <1>4
  <2>2. ASSUME NEW y \in S PROVE y \in 1..n
    <3>1. PICK s \in Slots(i) : y = Min(Addressing(i, s))' BY <1>4
    <3>2. y \in 1..(n - 1) \/ y = n BY <1>3, <3>1
    <3>3. QED BY <1>1, <3>2
  <2>3. QED BY <1>1, <2>1, <2>2
<1>6. Max(S) = n BY <1>5, MaxIs
<1>7. SettledAt(i)' = Max(S) BY <1>2, <1>4 DEF SettledAt, Max
<1>8. QED BY <1>6, <1>7

\* A newly decided request enters the window as its answer completes it.
LEMMA SettledJoins ==
  ASSUME WellFormedOffers, LogInv, SettledInv, NEW o \in Offered, Posted(o), LogIsOffered',
         RequestsAreDistinct', NEW n, n = Len(published) + 1,
         NEW i \in DOMAIN published, RequestAt(i), i \notin Decided,
         Decided' = Decided \cup {i}, SettledAt(i)' = n,
         NEW r, r.request = published[i].request, Reports(r, i)',
         hub'.settled = Remember(hub.settled, r)
  PROVE  SettledInv'
<1>0. PICK R, T, q : R = Ids' /\ T = Times' /\ q = hub.settled OBVIOUS
<1>1. /\ Holds(q, Decided, R, T)
      /\ \A j \in Decided : T[j] \in Nat /\ T[j] <= Len(published)
      /\ \A x, j : j \in Decided /\ Reports(x, j) => Reports(x, j)'
  BY <1>0, PostedSettled
<1>2. /\ \A j \in DOMAIN published : /\ RequestAt(j)' <=> RequestAt(j)
                                     /\ published'[j].request = published[j].request
                                     /\ j \in DOMAIN published'
  BY PostedRequests
<1>3. \A j \in Decided \cup {i} : j \in DOMAIN published' /\ RequestAt(j)'
  BY <1>2 DEF Decided
<1>4. \A j \in DOMAIN published' : R[j] = published'[j].request /\ T[j] = SettledAt(j)'
  BY <1>0 DEF Ids, Times
<1>5. \A j, l \in Decided \cup {i} : R[j] = R[l] => j = l
  BY <1>3, <1>4 DEF RequestsAreDistinct
<1>6. T[i] = n /\ r.request = R[i] BY <1>2, <1>3, <1>4
<1>7. Len(published) \in Nat /\ n \in Nat BY PostedItem
<1>8. \A j \in Decided : R[j] # R[i] /\ T[j] <= T[i]
  <2>1. ASSUME NEW j \in Decided PROVE R[j] # R[i] BY <1>5, <2>1
  <2>2. ASSUME NEW j \in Decided PROVE T[j] <= T[i]
    <3>1. T[j] \in Nat /\ T[j] <= Len(published) BY <1>1
    <3>2. QED BY <1>6, <1>7, <3>1
  <2>3. QED BY <2>1, <2>2
<1>9. \A j \in Decided \cup {i} : T[j] \in Nat BY <1>1, <1>6, <1>7
<1>10. Holds(Remember(q, r), Decided \cup {i}, R, T)
  BY <1>1, <1>5, <1>6, <1>8, <1>9, RememberHolds
<1>11. Holds(hub'.settled, Decided', Ids', Times') BY <1>0, <1>10
<1>12. ASSUME NEW x, NEW m \in DOMAIN hub'.settled, x = hub'.settled[m]
       PROVE  \E j \in Decided' : Reports(x, j)'
  <2>2. x = r \/ \E l \in DOMAIN q : x = q[l]
    <3>1. IsSequence(q) /\ Len(q) <= Window BY <1>1 DEF Holds
    <3>2. m \in DOMAIN Remember(q, r) /\ x = Remember(q, r)[m] BY <1>0, <1>12
    <3>3. QED BY <3>1, <3>2, RememberHas
  <2>3. \E j \in Decided \cup {i} : Reports(x, j)'
    <3>1. CASE x = r BY <3>1
    <3>2. CASE \E l \in DOMAIN q : x = q[l]
      <4>1. PICK j \in Decided : Reports(x, j) BY <1>0, <3>2 DEF SettledInv
      <4>2. QED BY <1>1, <4>1
    <3>3. QED BY <2>2, <3>1, <3>2
  <2>4. QED BY <2>3
<1>13. QED BY <1>11, <1>12 DEF SettledInv

LEMMA ApprovalsAnswered ==
  ASSUME WellFormedOffers, LogInv, ApprovalInv, NEW o \in Offered, Posted(o), LogIsOffered',
         RequestsAreDistinct', NEW n, n = Len(published) + 1,
         IsNew(published'[n]), published'[n].event.type = "resolve"
  PROVE  ApprovalInv'
<1>0. PICK item, at, c, q : /\ item = published'[n] /\ at = At(hub, item.seq)
                            /\ c = item.event.cmd /\ q = hub.pending
  OBVIOUS
<1>1. ~closed /\ ~Over /\ LogIsOffered /\ IsHub(hub) BY DEF Posted, Offers, LogInv, HubInv
<1>2. hub' = Track(hub, item) /\ item.kind = "recorded" /\ item.event = o.event
      /\ o.kind = "recorded"
  BY <1>0, PostedItem DEF IsNew
<1>3. ~Over' BY <1>0, PostedMovesOn
<1>4. Same(hub, at) /\ IsHub(at) BY <1>0, <1>1, AtIsSame DEF Same
<1>5. IsAnswer(c) BY <1>0, <1>2 DEF WellFormedOffers, WellFormed, IsEvent
<1>6. hub'.pending = Resolve(at, c).pending /\ hub'.settled = Resolve(at, c).settled
  <2>1. PICK g : /\ Moves(at, item.event, g)
                 /\ hub'.pending = g.pending /\ hub'.settled = g.settled
    BY <1>0, <1>1, <1>2, TrackParts DEF IsNew
  <2>2. QED BY <1>0, <2>1 DEF Moves
<1>7. /\ ArePending(q) /\ at.pending = q /\ at.settled = hub.settled
      /\ \A k \in DOMAIN q : \E i \in OpenOnes : Mirrors(q[k], i)
      /\ \A i \in OpenOnes : \E k \in DOMAIN q : q[k].request = published[i].request
      /\ \A k, l \in DOMAIN q : q[k].request = q[l].request => k = l
  BY <1>0, <1>4 DEF ApprovalInv, PendingInv, Same
<1>8. \A i \in OpenOnes : i \in DOMAIN published /\ RequestAt(i) BY DEF OpenOnes
<1>9. ASSUME NEW i \in DOMAIN published, RequestAt(i), published[i].request # c.req, NEW s
      PROVE  Slot(i, s)' = Slot(i, s)
  <2>1. ~Answers(c, published[i].request, s) BY <1>9 DEF Answers
  <2>2. QED BY <1>0, <1>9, <2>1, SlotsStay
<1>10. CASE ~\E k \in DOMAIN q : q[k].request = c.req
  <2>1. Resolve(at, c) = at BY <1>7, <1>10 DEF Resolve
  <2>2. ASSUME NEW i \in DOMAIN published, RequestAt(i), NEW s \in Slots(i)
        PROVE  Slot(i, s)' = Slot(i, s)
    <3>1. CASE published[i].request = c.req
      <4>1. i \notin OpenOnes BY <1>7, <1>10, <3>1
      <4>2. AllDecided(i) BY <1>1, <2>2, <4>1, WhileRunning
      <4>3. Slot(i, s) # "none" BY <4>2 DEF AllDecided
      <4>4. QED BY <2>2, <4>3, PostedSlots
    <3>2. CASE published[i].request # c.req BY <1>9, <2>2, <3>2
    <3>3. QED BY <3>1, <3>2
  <2>3. hub'.pending = hub.pending /\ hub'.settled = hub.settled
    BY <1>0, <1>6, <1>7, <2>1
  <2>4. published'[n].kind # "requested" BY <1>0, <1>2
  <2>5. QED BY <1>3, <2>2, <2>3, <2>4, ApprovalsStay
<1>11. ASSUME NEW k \in DOMAIN q, q[k].request = c.req PROVE ApprovalInv'
  <2>1. PICK i \in OpenOnes : Mirrors(q[k], i) BY <1>7
  <2>2. i \in DOMAIN published /\ RequestAt(i) /\ published[i].request = c.req
    BY <1>8, <1>11, <2>1 DEF Mirrors
  <2>3. PICK calls, ds : calls = published[i].calls /\ ds = AnsweredBy(q[k].decisions, c)
    OBVIOUS
  <2>4. calls \in Nat \ {0} /\ Slots(i) = 1..calls
    BY <1>1, <2>2, <2>3, LoggedIsWellFormed DEF Slots
  <2>5. q[k].decisions = [s \in 1..calls |-> Slot(i, s)]
    BY <2>1, <2>4 DEF Mirrors, Decisions
  <2>6. \E s \in 1..calls : q[k].decisions[s] = "none"
    <3>1. ~AllDecided(i) BY <1>1, <2>1, WhileRunning
    <3>2. QED BY <2>4, <2>5, <3>1 DEF AllDecided
  <2>7. ds = [s \in 1..calls |-> Slot(i, s)'] /\ Decisions(i)' = ds
    <3>1. ds = [s \in 1..calls |-> IF Slot(i, s) # "none" THEN Slot(i, s)
                                   ELSE IF c.kind = "batch" \/ c.index = s THEN Answer(c, s)
                                   ELSE "none"]
      BY <2>3, <2>5 DEF AnsweredBy
    <3>2. ASSUME NEW s PROVE Slot(i, s)' = IF Slot(i, s) # "none" THEN Slot(i, s)
                                           ELSE IF c.kind = "batch" \/ c.index = s
                                                THEN Answer(c, s) ELSE "none"
      BY <1>0, <2>2, PostedSlots DEF Answers
    <3>3. ds = [s \in 1..calls |-> Slot(i, s)'] BY <3>1, <3>2
    <3>4. Slots(i)' = 1..calls BY <2>2, <2>4, PostedRequests
    <3>5. QED BY <3>3, <3>4 DEF Decisions
  <2>8. \A j \in DOMAIN q : q[j].request = c.req => j = k BY <1>7, <1>11
  <2>9. PICK p : p = [q[k] EXCEPT !.decisions = ds] OBVIOUS
  <2>10. IF \A s \in 1..calls : ds[s] # "none"
         THEN hub'.pending = RemoveAt(q, k) /\ hub'.settled = Remember(hub.settled, Settlement(p))
         ELSE /\ hub'.settled = hub.settled /\ DOMAIN hub'.pending = DOMAIN q
              /\ hub'.pending[k].request = q[k].request /\ hub'.pending[k].decisions = ds
              /\ \A j \in DOMAIN q : j # k => hub'.pending[j] = q[j]
    <3>1. /\ q[k].decisions = [s \in 1..calls |-> q[k].decisions[s]]
          /\ IsHub(at) /\ q = at.pending /\ ArePending(q) /\ IsAnswer(c) /\ q[k].request = c.req
          /\ calls \in Nat \ {0} /\ ds = AnsweredBy(q[k].decisions, c)
      BY <1>4, <1>5, <1>7, <1>11, <2>3, <2>4, <2>5
    <3>2. PICK g : g = Resolve(at, c) OBVIOUS
    <3>0. Answered(at.settled, q, k, ds, g)
      BY <1>11, <2>6, <2>8, <3>1, <3>2, ResolveOutcome
    <3>5. DOMAIN ds = 1..calls BY <2>7
    <3>3. IF \A s \in 1..calls : ds[s] # "none"
          THEN g.pending = RemoveAt(q, k) /\ g.settled = Remember(at.settled, Settlement(p))
          ELSE /\ g.settled = at.settled /\ DOMAIN g.pending = DOMAIN q
               /\ g.pending[k].request = q[k].request /\ g.pending[k].decisions = ds
               /\ \A j \in DOMAIN q : j # k => g.pending[j] = q[j]
      BY <2>9, <3>0, <3>5 DEF Answered
    <3>4. QED BY <1>6, <1>7, <3>2, <3>3
  <2>11. ArePending(hub'.pending)
    <3>1. ArePending(at.pending) BY <1>7
    <3>2. Descends(Resolve(at, c).pending, at.pending) BY <1>4, <3>1, ResolveDescends
    <3>3. QED BY <1>6, <3>2 DEF Descends
  <2>12. /\ \A j \in DOMAIN published : RequestAt(j) /\ j # i =>
              /\ published[j].request # c.req
              /\ \A s : Slot(j, s)' = Slot(j, s)
    <3>1. \A j \in DOMAIN published : RequestAt(j) /\ j # i => published[j].request # c.req
      BY <2>2 DEF LogInv, RequestsAreDistinct
    <3>2. QED BY <1>9, <3>1
  <2>13. \A j : j # i => (j \in OpenOnes' <=> j \in OpenOnes) /\ (j \in Decided' <=> j \in Decided)
    <3>1. item.kind # "requested" BY <1>2
    <3>2. ASSUME NEW j, j # i, j \in DOMAIN published, RequestAt(j)
          PROVE  (j \in OpenOnes' <=> j \in OpenOnes) /\ (j \in Decided' <=> j \in Decided)
      BY <1>1, <1>3, <2>12, <3>2, PostedRunning, WhileRunning DEF AllDecided
    <3>3. ASSUME NEW j, ~(j \in DOMAIN published /\ RequestAt(j))
          PROVE  j \notin OpenOnes /\ j \notin Decided /\ j \notin OpenOnes' /\ j \notin Decided'
      BY <1>0, <1>3, <3>1, <3>3, PostedRunning DEF OpenOnes, Decided
    <3>4. QED BY <3>2, <3>3
  <2>14. /\ i \in OpenOnes' <=> \E s \in 1..calls : ds[s] = "none"
         /\ i \in Decided' <=> \A s \in 1..calls : ds[s] # "none"
         /\ i \notin Decided
    <3>1. /\ i \in OpenOnes' <=> \E s \in 1..calls : Slot(i, s)' = "none"
          /\ i \in Decided' <=> \A s \in 1..calls : Slot(i, s)' # "none"
      BY <1>3, <2>2, <2>4, PostedRunning
    <3>2. i \notin Decided BY <1>1, <2>1, WhileRunning
    <3>3. QED BY <2>7, <3>1, <3>2
  <2>15. \A j \in OpenOnes : published'[j].request = published[j].request
    BY <1>8, PostedRequests
  <2>16. ASSUME NEW j \in DOMAIN q, j # k
         PROVE  \E l \in OpenOnes' : Mirrors(q[j], l)' /\ l # i
    <3>1. PICK x : x = q[j] OBVIOUS
    <3>2. PICK l \in OpenOnes : Mirrors(x, l) BY <1>7, <3>1
    <3>3. l # i BY <1>7, <1>11, <2>2, <2>16, <3>1, <3>2 DEF Mirrors
    <3>4. Mirrors(x, l)' BY <1>8, <2>12, <3>2, <3>3, MirrorsStay
    <3>5. QED BY <2>13, <3>1, <3>2, <3>3, <3>4 DEF Mirrors
  <2>17. CASE \A s \in 1..calls : ds[s] # "none"
    <3>1. hub'.pending = RemoveAt(q, k) /\ hub'.settled = Remember(hub.settled, Settlement(p))
      BY <2>10, <2>17
    <3>2. /\ Len(q) \in Nat /\ DOMAIN q = 1..Len(q) /\ IsSequence(q)
      BY <1>7 DEF ArePending, IsSequence
    <3>3. PICK r : r = hub'.pending OBVIOUS
    <3>4. /\ DOMAIN r = 1..(Len(q) - 1)
          /\ \A j \in 1..(Len(q) - 1) : r[j] = IF j < k THEN q[j] ELSE q[j + 1]
      BY <3>1, <3>2, <3>3, RemoveAtShifts
    <3>5. ASSUME NEW j \in DOMAIN r
          PROVE  LET l == IF j < k THEN j ELSE j + 1 IN l \in DOMAIN q /\ l # k /\ r[j] = q[l]
      BY <3>2, <3>4
    <3>6. ASSUME NEW l \in DOMAIN q, l # k PROVE \E j \in DOMAIN r : r[j] = q[l]
      <4>1. CASE l < k
        <5>1. l \in 1..(Len(q) - 1) BY <3>2, <3>6, <4>1
        <5>2. QED BY <3>4, <4>1, <5>1
      <4>2. CASE l > k
        <5>1. l - 1 \in 1..(Len(q) - 1) /\ ~(l - 1 < k) /\ (l - 1) + 1 = l
          BY <3>2, <3>6, <4>2
        <5>2. QED BY <3>4, <5>1
      <4>3. QED BY <3>2, <3>6, <4>1, <4>2
    <3>7. PendingInv'
      <4>1. ASSUME NEW j \in DOMAIN r PROVE \E l \in OpenOnes' : Mirrors(r[j], l)'
        BY <2>16, <3>5 DEF Mirrors
      <4>2. ASSUME NEW j \in OpenOnes'
            PROVE  \E l \in DOMAIN r : r[l].request = published'[j].request
        <5>1. j # i /\ j \in OpenOnes BY <2>13, <2>14, <2>17
        <5>2. PICK l \in DOMAIN q : q[l].request = published[j].request BY <1>7, <5>1
        <5>3. l # k BY <1>8, <1>11, <2>12, <5>1, <5>2
        <5>4. QED BY <2>15, <3>6, <5>1, <5>2, <5>3
      <4>3. ASSUME NEW j \in DOMAIN r, NEW l \in DOMAIN r, r[j].request = r[l].request
            PROVE  j = l
        <5>1. (IF j < k THEN j ELSE j + 1) = (IF l < k THEN l ELSE l + 1)
          BY <1>7, <3>5, <4>3
        <5>2. QED BY <3>2, <3>4, <5>1
      <4>4. QED BY <2>11, <3>3, <4>1, <4>2, <4>3 DEF PendingInv, Mirrors
    <3>8. SettledInv'
      <4>1. IsPending(q[k]) BY <1>7 DEF ArePending
      <4>2. p.request = q[k].request /\ p.decisions = ds
        BY <2>9, <4>1 DEF IsPending, PendingFields
      <4>3. DOMAIN p.decisions = 1..calls BY <2>7, <4>2
      <4>4. PICK x : x = Settlement(p) OBVIOUS
      <4>5. /\ x.request = p.request
            /\ {x.calls[y] : y \in DOMAIN x.calls} = {s \in 1..calls : ds[s] # "none"}
            /\ \A y, z \in DOMAIN x.calls : y < z => x.calls[y] < x.calls[z]
            /\ \A y \in DOMAIN x.calls : x.decisions[y] = ds[x.calls[y]]
        BY <2>4, <4>2, <4>3, <4>4, SettlementSays
      <4>6. Reports(x, i)'
        <5>1. Slots(i)' = 1..calls /\ published'[i].request = published[i].request
          BY <2>2, <2>4, PostedRequests
        <5>2. {s \in 1..calls : Slot(i, s)' # "none"} = {s \in 1..calls : ds[s] # "none"}
          BY <2>7
        <5>3. \A y \in DOMAIN x.calls : x.decisions[y] = Slot(i, x.calls[y])'
          <6>1. ASSUME NEW y \in DOMAIN x.calls PROVE x.decisions[y] = Slot(i, x.calls[y])'
            <7>1. PICK s : s = x.calls[y] OBVIOUS
            <7>2. s \in 1..calls BY <4>5, <7>1
            <7>3. ds[s] = Slot(i, s)' BY <2>7, <7>2
            <7>4. x.decisions[y] = ds[s] BY <4>5, <7>1
            <7>5. QED BY <7>1, <7>3, <7>4
          <6>2. QED BY <6>1
        <5>4. x.request = published'[i].request BY <1>11, <2>2, <4>2, <4>5, <5>1
        <5>5. QED BY <4>5, <5>1, <5>2, <5>3, <5>4 DEF Reports
      <4>7. SettledAt(i)' = n
        <5>1. \A s \in Slots(i) : Slot(i, s)' # "none" BY <2>4, <2>7, <2>17
        <5>2. \E s \in Slots(i) : Slot(i, s) = "none" BY <2>4, <2>5, <2>6
        <5>3. QED BY <2>2, <5>1, <5>2, SettledNow
      <4>8. Decided' = Decided \cup {i} BY <2>13, <2>14, <2>17
      <4>9. x.request = published[i].request BY <1>11, <2>2, <4>2, <4>5
      <4>10. hub'.settled = Remember(hub.settled, x) BY <3>1, <4>4
      <4>11. SettledInv BY DEF ApprovalInv
      <4>12. QED BY <2>2, <2>14, <4>6, <4>7, <4>8, <4>9, <4>10, <4>11, SettledJoins
    <3>9. QED BY <3>7, <3>8 DEF ApprovalInv
  <2>18. CASE ~ \A s \in 1..calls : ds[s] # "none"
    <3>1. /\ hub'.settled = hub.settled /\ DOMAIN hub'.pending = DOMAIN q
          /\ hub'.pending[k].request = q[k].request /\ hub'.pending[k].decisions = ds
          /\ \A j \in DOMAIN q : j # k => hub'.pending[j] = q[j]
      BY <2>10, <2>18
    <3>2. \A j : (j \in OpenOnes' <=> j \in OpenOnes) /\ (j \in Decided' <=> j \in Decided)
      BY <2>1, <2>13, <2>14, <2>18
    <3>3. SettledInv'
      <4>1. Decided' = Decided BY <3>2
      <4>2. QED BY <3>1, <4>1, SettledStays DEF ApprovalInv
    <3>4. PICK r : r = hub'.pending OBVIOUS
    <3>5. PendingInv'
      <4>1. Mirrors(r[k], i)'
        <5>1. PICK x : x = r[k] OBVIOUS
        <5>2. published'[i].request = published[i].request BY <2>2, PostedRequests
        <5>3. x.request = published'[i].request /\ x.decisions = Decisions(i)'
          BY <1>11, <2>2, <2>7, <3>1, <3>4, <5>1, <5>2
        <5>4. QED BY <5>1, <5>3 DEF Mirrors
      <4>2. ASSUME NEW j \in DOMAIN r PROVE \E l \in OpenOnes' : Mirrors(r[j], l)'
        <5>1. CASE j = k BY <2>1, <3>2, <4>1, <5>1
        <5>2. CASE j # k
          <6>1. j \in DOMAIN q /\ r[j] = q[j] BY <3>1, <3>4, <4>2, <5>2
          <6>2. QED BY <2>16, <5>2, <6>1 DEF Mirrors
        <5>3. QED BY <5>1, <5>2
      <4>3. \A j \in DOMAIN q : r[j].request = q[j].request BY <3>1, <3>4
      <4>4. ASSUME NEW j \in OpenOnes'
            PROVE  \E l \in DOMAIN r : r[l].request = published'[j].request
        BY <1>7, <2>15, <3>1, <3>2, <3>4, <4>3
      <4>5. \A j, l \in DOMAIN r : r[j].request = r[l].request => j = l
        BY <1>7, <3>1, <3>4, <4>3
      <4>6. QED BY <2>11, <3>4, <4>2, <4>4, <4>5 DEF PendingInv, Mirrors
    <3>6. QED BY <3>3, <3>5 DEF ApprovalInv
  <2>19. QED BY <2>17, <2>18
<1>12. QED BY <1>10, <1>11

\* The end retires what is pending: a request somebody answered settles as it
\* stands, any other is dropped.
LEMMA ApprovalsRetired ==
  ASSUME PendingInv, SettledInv, NEW t \in Nat, NEW R, NEW T, R = Ids', T = Times',
         Holds(hub.settled, Decided, R, T),
         \A i \in Decided : T[i] \in Nat /\ T[i] <= t,
         \A x, i : i \in Decided /\ Reports(x, i) => Reports(x, i)',
         \A i \in OpenOnes : /\ R[i] = published[i].request /\ T[i] = t
                             /\ published'[i].request = published[i].request
                             /\ published[i].calls \in Nat /\ Slots(i)' = Slots(i)
                             /\ \A s \in Slots(i) : Slot(i, s)' = Slot(i, s),
         \A i, j \in Decided \cup OpenOnes : R[i] = R[j] => i = j,
         \A i : i \in Decided' <=> \/ i \in Decided
                                   \/ i \in OpenOnes /\ \E s \in Slots(i) : Slot(i, s) # "none",
         \A i : i \notin OpenOnes',
         NEW h, IsHub(h), h.pending = hub.pending, h.settled = hub.settled,
         hub'.pending = <<>>, hub'.settled = RetirePending(h).settled
  PROVE  ApprovalInv'
<1>0. PICK q, D, open : q = hub.pending /\ D = Decided /\ open = OpenOnes OBVIOUS
<1>1. PICK g : g = [k \in DOMAIN q |-> CHOOSE i \in open : Mirrors(q[k], i)] OBVIOUS
<1>2. IsSequence(q) /\ Len(q) \in Nat BY <1>0 DEF PendingInv, ArePending, IsSequence
<1>3. ASSUME NEW k \in DOMAIN q
      PROVE  /\ g[k] \in open /\ q[k].request = published[g[k]].request
             /\ q[k].decisions = Decisions(g[k])
  <2>1. \E i \in open : Mirrors(q[k], i) BY <1>0 DEF PendingInv
  <2>2. g[k] \in open /\ Mirrors(q[k], g[k]) BY <1>1, <2>1
  <2>3. QED BY <2>2 DEF Mirrors
<1>4. \A i : i \in D => i \notin open BY <1>0 DEF Decided, DecidedRequest, OpenOnes
<1>5. \A k \in DOMAIN q : R[g[k]] = q[k].request /\ T[g[k]] = t /\ g[k] \notin D
  BY <1>0, <1>3, <1>4
<1>6. \A k, l \in DOMAIN q : g[k] = g[l] => k = l
  <2>1. \A k, l \in DOMAIN q : q[k].request = q[l].request => k = l BY <1>0 DEF PendingInv
  <2>2. QED BY <1>5, <2>1
<1>7. PICK f : /\ IsRetiring(f, h.settled, q, Len(q))
               /\ RetirePending(h).settled = f[Len(q)]
  BY <1>0, <1>2, RetireFolds
<1>8. PICK r, said : r = f[Len(q)] /\ said = {k \in DOMAIN q : DecidedCalls(q[k]) # {}} OBVIOUS
<1>9. /\ Holds(r, D \cup {g[k] : k \in said}, R, T)
      /\ \A m \in DOMAIN r : \/ \E k \in said : r[m] = Settlement(q[k])
                             \/ \E l \in DOMAIN hub.settled : r[m] = hub.settled[l]
  <2>1. Distinguishable(q, D, R, g) BY <1>0, <1>3 DEF Distinguishable
  <2>2. \A i \in D : T[i] \in Nat /\ T[i] <= t BY <1>0
  <2>3. \A k \in DOMAIN q : /\ g[k] \notin D /\ q[k].request = R[g[k]] /\ T[g[k]] = t
                            /\ \A l \in DOMAIN q : g[k] = g[l] => k = l
    BY <1>5, <1>6
  <2>7. Retires(q, D, R, T, g, t) BY <2>3 DEF Retires
  <2>4. Holds(hub.settled, D, R, T) /\ IsRetiring(f, hub.settled, q, Len(q)) BY <1>0, <1>7
  <2>5. Holds(f[Len(q)], D \cup Voiced(q, g), R, T) /\ Extends(f[Len(q)], hub.settled, q)
    BY <1>2, <2>1, <2>2, <2>4, <2>7, RetireHolds
  <2>6. Voiced(q, g) = {g[k] : k \in said} BY <1>8 DEF Voiced
  <2>8. QED BY <1>8, <2>5, <2>6 DEF Extends
<1>10. ASSUME NEW k \in DOMAIN q
       PROVE  /\ DOMAIN q[k].decisions = Slots(g[k])
              /\ \A s \in Slots(g[k]) : q[k].decisions[s] = Slot(g[k], s)
              /\ k \in said <=> \E s \in Slots(g[k]) : Slot(g[k], s) # "none"
  <2>0. PICK i, ds : i = g[k] /\ ds = q[k].decisions OBVIOUS
  <2>3. ds = Decisions(i) BY <1>3, <2>0
  <2>4. DOMAIN ds = Slots(i) /\ \A s \in Slots(i) : ds[s] = Slot(i, s)
    BY <2>3 DEF Decisions
  <2>1. /\ DOMAIN q[k].decisions = Slots(g[k])
        /\ \A s \in Slots(g[k]) : q[k].decisions[s] = Slot(g[k], s)
    BY <2>0, <2>4
  <2>2. QED BY <1>8, <2>1 DEF DecidedCalls
<1>11. D \cup {g[k] : k \in said} = Decided'
  <2>1. ASSUME NEW i \in open, \E s \in Slots(i) : Slot(i, s) # "none"
        PROVE  \E k \in said : i = g[k]
    <3>1. PICK k \in DOMAIN q : q[k].request = published[i].request
      BY <1>0 DEF PendingInv
    <3>2. i = g[k] BY <1>0, <1>3, <1>5, <3>1
    <3>3. QED BY <1>10, <2>1, <3>2
  <2>2. ASSUME NEW k \in said
        PROVE  g[k] \in open /\ \E s \in Slots(g[k]) : Slot(g[k], s) # "none"
    BY <1>3, <1>8, <1>10
  <2>3. \A i : i \in Decided' <=> i \in D \/ \E k \in said : i = g[k] BY <1>0, <2>1, <2>2
  <2>4. QED BY <2>3
<1>12. hub'.settled = r BY <1>7, <1>8
<1>13. ASSUME NEW k \in said PROVE Reports(Settlement(q[k]), g[k])'
  <2>1. k \in DOMAIN q BY <1>8
  <2>2. PICK x, i, ds : x = Settlement(q[k]) /\ i = g[k] /\ ds = q[k].decisions OBVIOUS
  <2>3. /\ i \in OpenOnes /\ q[k].request = published[i].request
        /\ DOMAIN ds = Slots(i) /\ \A s \in Slots(i) : ds[s] = Slot(i, s)
    BY <1>0, <1>3, <1>10, <2>1, <2>2
  <2>4. /\ published'[i].request = published[i].request
        /\ Slots(i)' = Slots(i) /\ \A s \in Slots(i) : ds[s] = Slot(i, s)'
    BY <2>3
  <2>5. published[i].calls \in Nat /\ DOMAIN ds = 1..published[i].calls BY <2>3 DEF Slots
  <2>6. /\ x.request = q[k].request
        /\ {x.calls[y] : y \in DOMAIN x.calls} = {s \in Slots(i) : ds[s] # "none"}
        /\ \A y, z \in DOMAIN x.calls : y < z => x.calls[y] < x.calls[z]
        /\ \A y \in DOMAIN x.calls : x.decisions[y] = ds[x.calls[y]]
    BY <2>2, <2>5, SettlementSays DEF Slots
  <2>7. {s \in Slots(i)' : Slot(i, s)' # "none"} = {s \in Slots(i) : ds[s] # "none"} BY <2>4
  <2>8. ASSUME NEW y \in DOMAIN x.calls PROVE x.decisions[y] = Slot(i, x.calls[y])'
    <3>1. PICK s : s = x.calls[y] OBVIOUS
    <3>2. s \in Slots(i) BY <2>6, <3>1
    <3>3. x.decisions[y] = Slot(i, s)' BY <2>4, <2>6, <3>1, <3>2
    <3>4. QED BY <3>1, <3>3
  <2>9. Reports(x, i)' BY <2>3, <2>4, <2>6, <2>7, <2>8 DEF Reports
  <2>10. QED BY <2>2, <2>9
<1>14. ASSUME NEW x, NEW m \in DOMAIN hub'.settled, x = hub'.settled[m]
       PROVE  \E i \in Decided' : Reports(x, i)'
  <2>1. m \in DOMAIN r /\ x = r[m] BY <1>12, <1>14
  <2>2. CASE \E k \in said : x = Settlement(q[k])
    <3>1. PICK k \in said : x = Settlement(q[k]) BY <2>2
    <3>2. PICK i : i = g[k] OBVIOUS
    <3>3. Reports(x, i)' /\ i \in Decided' BY <1>11, <1>13, <3>1, <3>2
    <3>4. QED BY <3>3
  <2>3. CASE \E l \in DOMAIN hub.settled : x = hub.settled[l]
    <3>1. PICK i \in Decided : Reports(x, i) BY <2>3 DEF SettledInv
    <3>2. Reports(x, i)' /\ i \in Decided' BY <3>1
    <3>3. QED BY <3>2
  <2>4. QED BY <1>9, <2>1, <2>2, <2>3
<1>15. SettledInv'
  <2>1. Holds(hub'.settled, Decided', Ids', Times') BY <1>9, <1>11, <1>12
  <2>2. QED BY <1>14, <2>1 DEF SettledInv
<1>16. PendingInv'
  <2>1. ArePending(<<>>) BY DEF ArePending, IsSequence
  <2>2. DOMAIN hub'.pending = {} OBVIOUS
  <2>3. QED BY <2>1, <2>2 DEF PendingInv
<1>17. QED BY <1>15, <1>16 DEF ApprovalInv

LEMMA ApprovalsFinished ==
  ASSUME WellFormedOffers, LogInv, ApprovalInv, NEW o \in Offered, Posted(o), LogIsOffered',
         RequestsAreDistinct', NEW n, n = Len(published) + 1, Over'
  PROVE  ApprovalInv'
<1>0. PICK item, at : item = published'[n] /\ at = At(hub, item.seq) OBVIOUS
<1>1. ~closed /\ ~Over /\ LogIsOffered /\ IsHub(hub) BY DEF Posted, Offers, LogInv, HubInv
<1>2. IsNew(item) /\ item.event.type = "finished" /\ item.kind = "recorded"
  BY <1>0, PostedMovesOn DEF IsNew
<1>3. hub' = Track(hub, item) BY <1>0, PostedItem
<1>4. hub'.pending = <<>> /\ hub'.settled = RetirePending(at).settled
  <2>1. PICK g : /\ Moves(at, item.event, g)
                 /\ hub'.pending = g.pending /\ hub'.settled = g.settled
    BY <1>0, <1>1, <1>2, <1>3, TrackParts DEF IsNew
  <2>2. QED BY <1>2, <2>1 DEF Moves
<1>5. IsHub(at) /\ at.pending = hub.pending /\ at.settled = hub.settled
  BY <1>0, <1>1, AtIsSame DEF Same
<1>6. \A i \in DOMAIN published : RequestAt(i) => \A s : Slot(i, s)' = Slot(i, s)
  BY <1>0, <1>2, SlotsStay
<1>7. \A i : i \notin OpenOnes' BY DEF OpenOnes, OpenRequest
<1>8. PICK R, T : R = Ids' /\ T = Times' OBVIOUS
<1>9. n \in Nat /\ Len(published) \in Nat /\ Len(published') = n BY PostedItem
<1>10. /\ Holds(hub.settled, Decided, R, T)
       /\ \A i \in Decided : T[i] \in Nat /\ T[i] <= Len(published)
       /\ \A x, i : i \in Decided /\ Reports(x, i) => Reports(x, i)'
  BY <1>8, PostedSettled DEF ApprovalInv
<1>11. \A i \in Decided : T[i] \in Nat /\ T[i] <= n + 1
  <2>1. ASSUME NEW i \in Decided PROVE T[i] \in Nat /\ T[i] <= n + 1
    <3>1. T[i] \in Nat /\ T[i] <= Len(published) BY <1>10
    <3>2. QED BY <1>9, <3>1
  <2>2. QED BY <2>1
<1>12. \A i : i \in OpenOnes \/ i \in Decided => i \in DOMAIN published /\ RequestAt(i)
  BY DEF OpenOnes, Decided
<1>13. \A i \in DOMAIN published : /\ RequestAt(i)' <=> RequestAt(i)
                                   /\ published'[i].request = published[i].request
                                   /\ Slots(i)' = Slots(i)
                                   /\ i \in DOMAIN published'
  BY PostedRequests
<1>14. \A i \in DOMAIN published' : R[i] = published'[i].request /\ T[i] = SettledAt(i)'
  BY <1>8 DEF Ids, Times
<1>15. ASSUME NEW i \in OpenOnes
       PROVE  /\ R[i] = published[i].request /\ T[i] = n + 1
              /\ published'[i].request = published[i].request
              /\ published[i].calls \in Nat /\ Slots(i)' = Slots(i)
              /\ \A s \in Slots(i) : Slot(i, s)' = Slot(i, s)
  <2>1. i \in DOMAIN published /\ RequestAt(i) /\ ~AllDecided(i) BY <1>1, WhileRunning
  <2>2. ~ \A s \in Slots(i)' : Slot(i, s)' # "none" BY <1>6, <1>13, <2>1 DEF AllDecided
  <2>3. SettledAt(i)' = n + 1 BY <1>9, <2>2 DEF SettledAt
  <2>4. published[i].calls \in Nat BY <1>1, <2>1, LoggedIsWellFormed
  <2>5. QED BY <1>6, <1>13, <1>14, <2>1, <2>3, <2>4
<1>16. \A i, j \in Decided \cup OpenOnes : R[i] = R[j] => i = j
  <2>1. \A i \in Decided \cup OpenOnes : i \in DOMAIN published' /\ RequestAt(i)'
    BY <1>12, <1>13
  <2>2. QED BY <1>14, <2>1 DEF RequestsAreDistinct
<1>17. \A i : i \in Decided' <=> \/ i \in Decided
                                 \/ i \in OpenOnes /\ \E s \in Slots(i) : Slot(i, s) # "none"
  <2>1. \A i : i \in Decided' <=> /\ i \in DOMAIN published' /\ RequestAt(i)'
                                  /\ \E s \in Slots(i)' : Slot(i, s)' # "none"
    BY DEF Decided, DecidedRequest, OpenRequest
  <2>2. \A i : i \in DOMAIN published' /\ RequestAt(i)' <=> i \in DOMAIN published /\ RequestAt(i)
    BY <1>0, <1>2, PostedRequests
  <2>3. \A i : i \in Decided' <=> /\ i \in DOMAIN published /\ RequestAt(i)
                                  /\ \E s \in Slots(i) : Slot(i, s) # "none"
    BY <1>6, <1>13, <2>1, <2>2
  <2>4. \A i : /\ i \in DOMAIN published /\ RequestAt(i)
               /\ \E s \in Slots(i) : Slot(i, s) # "none"
               <=> \/ i \in Decided
                   \/ i \in OpenOnes /\ \E s \in Slots(i) : Slot(i, s) # "none"
    BY DEF Decided, DecidedRequest, OpenOnes
  <2>5. QED BY <2>3, <2>4
<1>18. PICK t \in Nat : t = n + 1 BY <1>9
<1>19. PendingInv /\ SettledInv BY DEF ApprovalInv
<1>20. QED BY <1>4, <1>5, <1>7, <1>8, <1>10, <1>11, <1>15, <1>16, <1>17, <1>18, <1>19,
              ApprovalsRetired

LEMMA ApprovalsClosed ==
  ASSUME WellFormedOffers, LogInv, ApprovalInv, ~closed, closed', published' = published,
         hub' = Shut(hub)
  PROVE  ApprovalInv'
<1>1. LogIsOffered /\ IsHub(hub) /\ IsSequence(published) BY DEF LogInv, HubInv
<1>2. hub'.pending = <<>> /\ hub'.settled = RetirePending(hub).settled BY <1>1, ShutParts
<1>3. PICK R, T, t : R = Ids' /\ T = Times' /\ t = Len(published) + 1 OBVIOUS
<1>4. Len(published) \in Nat /\ t \in Nat BY <1>1, <1>3 DEF IsSequence
<1>5. \A i : RequestAt(i)' = RequestAt(i) /\ Slots(i)' = Slots(i) BY DEF RequestAt, Slots
<1>6. \A i, s : Addressing(i, s)' = Addressing(i, s) BY DEF Addressing, FirstEvents
<1>7. \A i, s : Slot(i, s)' = Slot(i, s) BY <1>6 DEF Slot
<1>8. \A i : SettledAt(i)' = SettledAt(i) BY <1>5, <1>6, <1>7 DEF SettledAt
<1>9. R = Ids /\ T = Times BY <1>3, <1>8 DEF Ids, Times
<1>10. Holds(hub.settled, Decided, R, T) BY <1>9 DEF ApprovalInv, SettledInv
<1>11. \A i : i \in OpenOnes \/ i \in Decided => i \in DOMAIN published /\ RequestAt(i)
  BY DEF OpenOnes, Decided
<1>12. \A i \in DOMAIN published : R[i] = published[i].request /\ T[i] = SettledAt(i)
  BY <1>9 DEF Ids, Times
<1>13. \A i \in Decided : T[i] \in Nat /\ T[i] <= t
  BY <1>1, <1>3, <1>11, <1>12, SettledAtType
<1>14. \A x, i : i \in Decided /\ Reports(x, i) => Reports(x, i)' BY <1>5, <1>7 DEF Reports
<1>15. ASSUME NEW i \in OpenOnes
       PROVE  /\ R[i] = published[i].request /\ T[i] = t
              /\ published'[i].request = published[i].request
              /\ published[i].calls \in Nat /\ Slots(i)' = Slots(i)
              /\ \A s \in Slots(i) : Slot(i, s)' = Slot(i, s)
  <2>1. i \in DOMAIN published /\ RequestAt(i) BY <1>11
  <2>2. SettledAt(i) = t BY <1>3 DEF OpenOnes, OpenRequest, SettledAt
  <2>3. published[i].calls \in Nat BY <1>1, <2>1, LoggedIsWellFormed
  <2>4. QED BY <1>5, <1>7, <1>12, <2>1, <2>2, <2>3
<1>16. \A i, j \in Decided \cup OpenOnes : R[i] = R[j] => i = j
  BY <1>11, <1>12 DEF LogInv, RequestsAreDistinct
<1>17. \A i : i \in Decided' <=> \/ i \in Decided
                                 \/ i \in OpenOnes /\ \E s \in Slots(i) : Slot(i, s) # "none"
  <2>1. \A i : i \in Decided' <=> /\ i \in DOMAIN published /\ RequestAt(i)
                                  /\ \E s \in Slots(i) : Slot(i, s) # "none"
    BY <1>5, <1>7 DEF Decided, DecidedRequest, OpenRequest
  <2>2. QED BY <2>1 DEF Decided, DecidedRequest, OpenOnes
<1>18. \A i : i \notin OpenOnes' BY DEF OpenOnes, OpenRequest
<1>19. PendingInv /\ SettledInv BY DEF ApprovalInv
<1>20. QED BY <1>1, <1>2, <1>3, <1>4, <1>10, <1>13, <1>14, <1>15, <1>16, <1>17, <1>18, <1>19,
              ApprovalsRetired

\* Whatever the item.
LEMMA PostedKeepsApprovals ==
  ASSUME WellFormedOffers, LogInv, ApprovalInv, NEW o \in Offered, Posted(o), LogIsOffered',
         RequestsAreDistinct'
  PROVE  ApprovalInv'
<1>0. PICK n, item : n = Len(published) + 1 /\ item = published'[n] OBVIOUS
<1>1. /\ IsHub(hub) /\ hub' = Track(hub, item)
      /\ item.kind \in {"recorded", "delta", "completed", "requested"}
  BY <1>0, PostedItem DEF LogInv, HubInv
<1>2. CASE item.kind = "requested" BY <1>0, <1>2, ApprovalsRequested
<1>3. CASE IsNew(item) /\ item.event.type = "resolve" BY <1>0, <1>3, ApprovalsAnswered
<1>4. CASE Over' BY <1>0, <1>4, ApprovalsFinished
<1>5. CASE /\ ~Over' /\ item.kind # "requested"
           /\ ~(IsNew(item) /\ item.event.type = "resolve")
  <2>1. hub'.pending = hub.pending /\ hub'.settled = hub.settled
    <3>1. CASE item.kind \in {"delta", "completed"} BY <1>1, <3>1, TrackParts
    <3>2. CASE item.kind = "recorded" /\ ~IsNew(item)
      <4>1. item.event.id \in hub.seen BY <3>2 DEF IsNew
      <4>2. Same(hub, hub') BY <1>1, <3>2, <4>1, TrackParts
      <4>3. QED BY <4>2 DEF Same
    <3>3. CASE IsNew(item)
      <4>1. item.event.type \notin {"resolve", "finished"}
        BY <1>0, <1>5, <3>3, PostedMovesOn
      <4>2. PICK at, g : /\ at = At(hub, item.seq) /\ Moves(at, item.event, g)
                         /\ hub'.pending = g.pending /\ hub'.settled = g.settled
        BY <1>1, <3>3, TrackParts DEF IsNew
      <4>3. at.pending = hub.pending /\ at.settled = hub.settled
        BY <1>1, <4>2, AtIsSame DEF Same
      <4>4. QED BY <4>1, <4>2, <4>3 DEF Moves
    <3>4. QED BY <1>1, <1>5, <3>1, <3>2, <3>3 DEF IsNew
  <2>2. \A i \in DOMAIN published : RequestAt(i) =>
          \A s \in Slots(i) : Slot(i, s)' = Slot(i, s)
    BY <1>0, <1>5, SlotsStay
  <2>3. QED BY <1>0, <1>5, <2>1, <2>2, ApprovalsStay
<1>6. QED BY <1>2, <1>3, <1>4, <1>5

---------------------------------------------------------------------------
(* The whole invariant.                                                    *)

BaselineInv == LogInv /\ OpenInv /\ HistoryInv /\ AnchorInv /\ ApprovalInv

LEMMA BaselineStarts ==
  ASSUME Init
  PROVE  BaselineInv
<1>1. hub = EmptyHub /\ published = <<>> BY DEF Init
<1>2. /\ hub.events = <<>> /\ hub.seen = {} /\ hub.open = NoOpenTurn
      /\ hub.pending = <<>> /\ hub.settled = <<>>
  BY <1>1 DEF EmptyHub
<1>3. IsSequence(<<>>) /\ DOMAIN <<>> = {} /\ Len(<<>>) = 0 BY DEF IsSequence
<1>4. LogInv
  <2>1. HubInv BY InitHolds DEF IInv
  <2>2. RecordedAll = {} BY <1>1, <1>3 DEF RecordedAll
  <2>3. SeenIsLogged BY <1>2, <2>2 DEF SeenIsLogged
  <2>4. QED BY <1>1, <1>3, <2>1, <2>3 DEF LogInv, LogIsOffered, RequestsAreDistinct
<1>5. OpenInv
  <2>1. Turns = {} BY <1>1, <1>3 DEF Turns
  <2>2. QED BY <1>2, <2>1 DEF OpenInv
<1>6. HistoryInv
  <2>1. WalkOf(hub.events) = NoResponseYet /\ Replay(hub.events) = Empty
    BY <1>2, WalkOfNothing, ReplayOfNothing
  <2>2. InStep(NoResponseYet, Empty)
    <3>1. IsWalkState(NoResponseYet) BY DEF IsWalkState, NoResponseYet
    <3>2. IsReplay(Empty) BY DEF IsReplay, ReplayFields, Empty
    <3>3. /\ Empty.messages = <<>> /\ Empty.seen = {} /\ Empty.started = FALSE
          /\ NoResponseYet.seen = {} /\ NoResponseYet.started = FALSE
          /\ NoResponseYet.count = 0
      BY DEF Empty, NoResponseYet
    <3>4. QED BY <1>3, <3>1, <3>2, <3>3 DEF InStep
  <2>3. NoResponseYet.seen = {} /\ NoResponseYet.latest.turn = NoTurn
    BY DEF NoResponseYet, NoAnchor
  <2>4. QED BY <1>2, <1>3, <2>1, <2>2, <2>3 DEF HistoryInv
<1>7. ArePending(hub.pending) BY <1>2, <1>3 DEF ArePending
<1>8. AnchorInv BY <1>2, <1>3, <1>7 DEF AnchorInv
<1>9. ApprovalInv
  <2>1. OpenOnes = {} /\ Decided = {} BY <1>1, <1>3 DEF OpenOnes, Decided
  <2>2. PendingInv BY <1>2, <1>3, <1>7, <2>1 DEF PendingInv
  <2>3. Holds(<<>>, {}, Ids, Times) BY <1>3, LiveStateAssumption DEF Holds
  <2>4. SettledInv BY <1>2, <1>3, <2>1, <2>3 DEF SettledInv
  <2>5. QED BY <2>2, <2>4 DEF ApprovalInv
<1>10. QED BY <1>4, <1>5, <1>6, <1>8, <1>9 DEF BaselineInv

LEMMA PublishKeepsBaseline ==
  ASSUME WellFormedOffers, BaselineInv, HubInv', NEW o \in Offered, Publish(o)
  PROVE  BaselineInv'
<1>1. Posted(o) BY DEF BaselineInv, LogInv, HubInv, Total, Publish, PublishItem, Posted
<1>2. LogIsOffered' /\ RequestsAreDistinct' /\ SeenIsLogged'
  BY <1>1, PostedKeepsLog, PostedKeepsSeen DEF BaselineInv
<1>3. OpenInv' BY <1>1, PostedKeepsOpen DEF BaselineInv
<1>4. HistoryInv' /\ AnchorInv' BY <1>1, PostedKeepsHistory DEF BaselineInv
<1>5. ApprovalInv' BY <1>1, <1>2, PostedKeepsApprovals DEF BaselineInv
<1>6. QED BY <1>2, <1>3, <1>4, <1>5 DEF BaselineInv, LogInv

LEMMA CloseKeepsBaseline ==
  ASSUME WellFormedOffers, BaselineInv, HubInv', Close
  PROVE  BaselineInv'
<1>1. ~closed /\ closed' /\ published' = published /\ hub' = Shut(hub) BY DEF Close
<1>2. /\ hub'.events = hub.events /\ hub'.seen = hub.seen /\ hub'.open = hub.open
      /\ hub'.pending = <<>>
  BY <1>1, ShutParts DEF BaselineInv, LogInv, HubInv, ApprovalsOnly
<1>3. LogInv'
  BY <1>1, <1>2 DEF BaselineInv, LogInv, LogIsOffered, SeenIsLogged, RequestsAreDistinct,
                    RecordedAll, IsRecorded, RequestAt
<1>4. OpenInv'
  <2>1. Turns' = Turns BY <1>1 DEF Turns, DeltaAt
  <2>2. \A t : Streaming(t)' = Streaming(t) BY <1>1 DEF Streaming, Over, Responded, Recorded
  <2>3. \A t : Partial(t)' = Partial(t) BY <1>1 DEF Partial, Deltas
  <2>4. QED BY <1>1, <1>2, <2>1, <2>2, <2>3 DEF BaselineInv, OpenInv
<1>5. HistoryInv' BY <1>1, <1>2 DEF BaselineInv, HistoryInv, Names, Recorded
<1>6. AnchorInv'
  <2>1. ArePending(<<>>) /\ DOMAIN <<>> = {} BY DEF ArePending, IsSequence
  <2>2. QED BY <1>2, <2>1 DEF AnchorInv
<1>7. ApprovalInv' BY <1>1, ApprovalsClosed DEF BaselineInv
<1>8. QED BY <1>3, <1>4, <1>5, <1>6, <1>7 DEF BaselineInv

\* The replica and the log alone carry the invariant.
LEMMA BaselineStays ==
  ASSUME BaselineInv, HubInv', UNCHANGED hubVars
  PROVE  BaselineInv'
<1>1. hub' = hub /\ closed' = closed /\ published' = published BY DEF hubVars
<1>2. LogInv'
  BY <1>1 DEF BaselineInv, LogInv, LogIsOffered, SeenIsLogged, RequestsAreDistinct,
              RecordedAll, IsRecorded, RequestAt
<1>3. OpenInv'
  <2>1. Turns' = Turns BY <1>1 DEF Turns, DeltaAt
  <2>2. \A t : Streaming(t)' = Streaming(t) BY <1>1 DEF Streaming, Over, Responded, Recorded
  <2>3. \A t : Partial(t)' = Partial(t) BY <1>1 DEF Partial, Deltas
  <2>4. QED BY <1>1, <2>1, <2>2, <2>3 DEF BaselineInv, OpenInv
<1>4. HistoryInv' BY <1>1 DEF BaselineInv, HistoryInv, Names, Recorded
<1>5. AnchorInv' BY <1>1 DEF BaselineInv, AnchorInv, Names, Recorded, History
<1>6. ApprovalInv'
  <2>1. \A i : RequestAt(i)' = RequestAt(i) /\ Slots(i)' = Slots(i) BY <1>1 DEF RequestAt, Slots
  <2>2. \A i, s : Addressing(i, s)' = Addressing(i, s) BY <1>1 DEF Addressing, FirstEvents
  <2>3. \A i, s : Slot(i, s)' = Slot(i, s) BY <1>1, <2>2 DEF Slot
  <2>4. \A i : SettledAt(i)' = SettledAt(i) BY <1>1, <2>1, <2>2, <2>3 DEF SettledAt
  <2>5. Ids' = Ids /\ Times' = Times BY <1>1, <2>4 DEF Ids, Times
  <2>6. Over' = Over BY <1>1 DEF Over, Recorded
  <2>7. \A i : OpenRequest(i)' = OpenRequest(i) BY <1>1, <2>1, <2>3, <2>6 DEF OpenRequest
  <2>8. OpenOnes' = OpenOnes BY <1>1, <2>1, <2>7 DEF OpenOnes
  <2>9. Decided' = Decided BY <1>1, <2>1, <2>3, <2>7 DEF Decided, DecidedRequest
  <2>10. \A i, p : Mirrors(p, i)' = Mirrors(p, i) BY <1>1, <2>1, <2>3 DEF Mirrors, Decisions
  <2>11. \A i, r : Reports(r, i)' = Reports(r, i) BY <1>1, <2>1, <2>3 DEF Reports
  <2>12. PendingInv' BY <1>1, <2>8, <2>10 DEF BaselineInv, ApprovalInv, PendingInv
  <2>13. SettledInv' BY <1>1, <2>5, <2>9, <2>11 DEF BaselineInv, ApprovalInv, SettledInv
  <2>14. QED BY <2>12, <2>13 DEF ApprovalInv
<1>7. QED BY <1>2, <1>3, <1>4, <1>5, <1>6 DEF BaselineInv

LEMMA BaselineKeeps ==
  ASSUME WellFormedOffers, BaselineInv, HubInv', [Next]_vars
  PROVE  BaselineInv'
<1>1. ASSUME NEW o \in Offered, Publish(o) PROVE BaselineInv' BY <1>1, PublishKeepsBaseline
<1>2. CASE Close BY <1>2, CloseKeepsBaseline
<1>3. CASE UNCHANGED vars
  <2>1. UNCHANGED hubVars BY <1>3 DEF vars
  <2>2. QED BY <2>1, BaselineStays
<1>4. ASSUME NEW c \in Attachments, Attach(c) \/ Read(c) \/ HangUp(c) PROVE BaselineInv'
  <2>1. UNCHANGED hubVars
    BY <1>4 DEF Attach, Read, ReadItem, ReadLagged, ReadEnd, HangUp
  <2>2. QED BY <2>1, BaselineStays
<1>5. QED BY <1>1, <1>2, <1>3, <1>4 DEF Next, Quiet

LEMMA BaselineInvMeans ==
  ASSUME WellFormedOffers, BaselineInv
  PROVE  BaselineFollowsLog
<1>1. LogIsOffered BY DEF BaselineInv, LogInv
<1>2. ApprovalsFollowLog BY ApprovalInvMeans DEF BaselineInv
<1>3. AnchorsNameTheirTurn BY AnchorInvMeans DEF BaselineInv
<1>4. OpenTurnIsUnrecorded BY <1>1, OpenInvMeans DEF BaselineInv
<1>5. QED BY <1>2, <1>3, <1>4 DEF BaselineFollowsLog

(* Whatever a client attaches to, an open request is pending with the      *)
(* first recorded answer of each slot, a decided one is remembered until   *)
(* the window is full of later ones, an anchor names the response of its   *)
(* own turn, and the newest turn is the open partial or a message of the   *)
(* history (lib.rs 157-377).                                               *)
THEOREM BaselineStaysTrue == WellFormedOffers => (Spec => []BaselineFollowsLog)
<1> SUFFICES ASSUME WellFormedOffers PROVE Spec => []BaselineFollowsLog OBVIOUS
<1>1. Init => BaselineInv BY BaselineStarts
<1>2. BaselineInv /\ HubInv' /\ [Next]_vars => BaselineInv'
  BY BaselineKeeps
<1>3. BaselineInv => BaselineFollowsLog BY BaselineInvMeans
<1>4. Spec => []IInv BY InitHolds, StepKeeps, PTL DEF Spec
<1>5. IInv => HubInv BY DEF IInv
<1>6. QED BY <1>1, <1>2, <1>3, <1>4, <1>5, PTL DEF Spec
=============================================================================
