-------------------------- MODULE BroadcasterProofs --------------------------
(***************************************************************************)
(* Theorems about Broadcaster for any number of attachments, any queue     *)
(* capacity and any items: what a client hears after its baseline.         *)
(*                                                                         *)
(* The replica's contents do not matter here, only that every operation on *)
(* it leaves the position of the last item alone (LiveStateProofs).        *)
(***************************************************************************)
EXTENDS Broadcaster, LiveStateProofs

---------------------------------------------------------------------------
(* The invariant.                                                          *)

Total == Len(published)
Heard(c) == Len(applied[c])
Held(c) == Len(queue[c])

HubInv ==
  /\ IsHub(hub) /\ hub.last = Total
  /\ closed \in BOOLEAN
  /\ IsSequence(published)

TailType ==
  /\ subscribed \subseteq attached /\ reading \subseteq attached
  /\ attached \subseteq Attachments
  /\ asOf \in [Attachments -> Nat]
  /\ lagged \in [Attachments -> BOOLEAN]
  /\ DOMAIN queue = Attachments /\ DOMAIN applied = Attachments
  /\ \A c \in Attachments : IsSequence(queue[c]) /\ applied[c] \in Seq(Nat)

\* Nothing has happened to a tail that was not handed out.
Untouched(c) ==
  /\ queue[c] = <<>> /\ applied[c] = <<>> /\ ~lagged[c]
  /\ c \notin reported /\ c \notin ended

\* What a client heard, and what waits for it, follow its baseline.
Continues(c) ==
  /\ \A i \in 1..Heard(c) : applied[c][i] = asOf[c] + i
  /\ \A i \in 1..Held(c) : queue[c][i].seq = asOf[c] + Heard(c) + i

\* A client has the lag flag when it missed something; a subscribed one never
\* did, and an open hub drops nobody else.
UpToDate(c) ==
  /\ asOf[c] + Heard(c) + Held(c) <= Total
  /\ (lagged[c] <=> asOf[c] + Heard(c) + Held(c) < Total)
  /\ c \in subscribed => ~lagged[c] /\ ~closed
  /\ c \notin subscribed /\ ~lagged[c] => closed

\* A tail that said Lagged, or ended, had nothing left to deliver.
Told(c) ==
  /\ c \in reported => lagged[c] /\ c \notin subscribed /\ queue[c] = <<>>
  /\ c \in ended => c \notin subscribed /\ queue[c] = <<>> /\ (lagged[c] => c \in reported)

TailInv ==
  /\ \A c \in Attachments \ attached : Untouched(c)
  /\ \A c \in reading : Continues(c) /\ UpToDate(c) /\ Told(c)

IInv == HubInv /\ TailType /\ TailInv

---------------------------------------------------------------------------
(* Sequences.                                                              *)

LEMMA ConcatIsBoth ==
  ASSUME NEW s \in Seq(Nat), NEW t \in Seq(Nat)
  PROVE  /\ s \o t \in Seq(Nat) /\ Len(s \o t) = Len(s) + Len(t)
         /\ \A i \in 1..Len(s) : (s \o t)[i] = s[i]
         /\ \A i \in 1..Len(t) : (s \o t)[Len(s) + i] = t[i]
<1>1. /\ s \o t \in Seq(Nat) /\ Len(s \o t) = Len(s) + Len(t)
      /\ \A i \in 1..(Len(s) + Len(t)) :
           (s \o t)[i] = IF i <= Len(s) THEN s[i] ELSE t[i - Len(s)]
  BY ConcatProperties
<1>2. Len(s) \in Nat /\ Len(t) \in Nat OBVIOUS
<1>3. QED BY <1>1, <1>2

---------------------------------------------------------------------------
LEMMA InitHolds == Init => IInv
<1> SUFFICES ASSUME Init PROVE IInv OBVIOUS
<1>1. HubInv
  <2>1. IsHub(EmptyHub) /\ EmptyHub.last = 0 BY DEF EmptyHub, IsHub, HubFields
  <2>2. IsSequence(<<>>) BY DEF IsSequence
  <2>3. QED BY <2>1, <2>2 DEF Init, HubInv, Total
<1>2. TailType BY DEF Init, TailType, IsSequence
<1>3. TailInv BY DEF Init, TailInv, Untouched
<1>4. QED BY <1>1, <1>2, <1>3 DEF IInv

---------------------------------------------------------------------------
(* One lemma per action.                                                   *)

\* The measures of a tail are numbers.
LEMMA Measures ==
  ASSUME IInv
  PROVE  /\ Total \in Nat
         /\ \A c \in Attachments :
              /\ Heard(c) \in Nat /\ Held(c) \in Nat /\ asOf[c] \in Nat
              /\ lagged[c] \in BOOLEAN
              /\ queue[c] = <<>> => Held(c) = 0
              /\ applied[c] = <<>> => Heard(c) = 0
<1>1. Total \in Nat BY DEF IInv, HubInv, IsSequence, Total
<1>2. ASSUME NEW c \in Attachments
      PROVE  /\ Heard(c) \in Nat /\ Held(c) \in Nat
             /\ queue[c] = <<>> => Held(c) = 0
             /\ applied[c] = <<>> => Heard(c) = 0
  <2>1. IsSequence(queue[c]) /\ applied[c] \in Seq(Nat) BY DEF IInv, TailType
  <2>2. QED BY <2>1 DEF IsSequence, Held, Heard
<1>3. QED BY <1>1, <1>2 DEF IInv, TailType

\* What a publish appends: the next position.
LEMMA ItemIsNext ==
  ASSUME IInv, NEW o \in Offered
  PROVE  LET item == Stamped(o, "seq", hub.last + 1) IN
         /\ item.seq = Total + 1
         /\ IsHub(Track(hub, item)) /\ Track(hub, item).last = Total + 1
<1> DEFINE item == Stamped(o, "seq", hub.last + 1)
<1>1. item.seq = Total + 1 BY DEF IInv, HubInv, Stamped
<1>2. item.kind = o.kind BY BroadcasterAssumption DEF Stamped
<1>3. item.kind \in {"recorded", "delta", "completed", "requested"}
  BY <1>2, BroadcasterAssumption
<1> HIDE DEF item
<1>4. IsHub(Track(hub, item)) /\ Track(hub, item).last = Total + 1
  BY <1>1, <1>3, TrackMovesOn DEF IInv, HubInv
<1>5. QED BY <1>1, <1>4 DEF item

LEMMA PublishKeeps ==
  ASSUME IInv, NEW o \in Offered, PublishItem(o)
  PROVE  IInv'
<1> DEFINE item == Stamped(o, "seq", hub.last + 1)
<1>1. /\ item.seq = Total + 1
      /\ IsHub(Track(hub, item)) /\ Track(hub, item).last = Total + 1
  BY ItemIsNext
<1>2. /\ ~closed /\ closed' = closed /\ hub' = Track(hub, item)
      /\ published' = Append(published, item)
      /\ queue' = [c \in Attachments |-> IF c \in Kept THEN Append(queue[c], item) ELSE queue[c]]
      /\ lagged' = [c \in Attachments |-> lagged[c] \/ FallsBehind(c)]
      /\ subscribed' = Kept
      /\ UNCHANGED <<reading, reported, ended, applied, attached, asOf>>
  BY DEF PublishItem, Retained, tailVars, handshakeVars
<1> HIDE DEF item
<1>3. Total \in Nat /\ Total' = Total + 1 /\ IsSequence(published')
  BY <1>2, AppendIsSequence DEF IInv, HubInv, Total
<1>4. HubInv' BY <1>1, <1>2, <1>3 DEF IInv, HubInv
<1>5. ASSUME NEW c \in Attachments
      PROVE  /\ IsSequence(queue'[c])
             /\ c \in Kept => /\ Held(c)' = Held(c) + 1
                              /\ \A i \in 1..Held(c) : queue'[c][i] = queue[c][i]
                              /\ queue'[c][Held(c) + 1] = item
             /\ c \notin Kept => queue'[c] = queue[c] /\ Held(c)' = Held(c)
  <2>1. IsSequence(queue[c]) BY DEF IInv, TailType
  <2>2. QED BY <1>2, <2>1, AppendIsSequence DEF Held
<1>6. TailType'
  <2>1. lagged' \in [Attachments -> BOOLEAN] BY <1>2 DEF IInv, TailType, FallsBehind
  <2>2. QED BY <1>2, <1>5, <2>1 DEF IInv, TailType, Kept
<1>7. ASSUME NEW c \in Attachments \ attached PROVE Untouched(c)'
  <2>1. c \notin subscribed BY DEF IInv, TailType
  <2>2. c \notin Kept /\ ~FallsBehind(c) BY <2>1 DEF Kept, FallsBehind
  <2>3. QED BY <1>2, <2>2 DEF IInv, TailInv, Untouched
<1>8. ASSUME NEW c \in reading PROVE (Continues(c) /\ UpToDate(c) /\ Told(c))'
  <2> c \in Attachments BY DEF IInv, TailType
  <2>1. Continues(c) /\ UpToDate(c) /\ Told(c) BY DEF IInv, TailInv
  <2>2. /\ Heard(c) \in Nat /\ Held(c) \in Nat /\ asOf[c] \in Nat
        /\ Heard(c)' = Heard(c) /\ asOf'[c] = asOf[c] /\ applied'[c] = applied[c]
    BY <1>2, Measures DEF Heard
  <2>3. CASE c \in Kept
    <3>1. c \in subscribed /\ ~Full(c) BY <2>3 DEF Kept
    <3>2. ~lagged[c] /\ ~lagged'[c] /\ c \in subscribed'
      BY <1>2, <2>1, <2>3, <3>1 DEF UpToDate, FallsBehind
    <3>3. asOf[c] + Heard(c) + Held(c) = Total BY <1>3, <2>1, <2>2, <3>2 DEF UpToDate
    <3>4. Held(c)' = Held(c) + 1 BY <1>5, <2>3
    <3>5. Continues(c)'
      <4>1. \A i \in 1..(Held(c) + 1) : queue'[c][i].seq = asOf[c] + Heard(c) + i
        BY <1>1, <1>5, <2>1, <2>2, <2>3, <3>3 DEF Continues
      <4>2. QED BY <2>1, <2>2, <3>4, <4>1 DEF Continues
    <3>6. UpToDate(c)' BY <1>2, <1>3, <2>2, <3>2, <3>3, <3>4 DEF UpToDate
    <3>7. Told(c)' BY <1>2, <2>1, <3>1 DEF Told
    <3>8. QED BY <3>5, <3>6, <3>7
  <2>4. CASE c \notin Kept
    <3>1. queue'[c] = queue[c] /\ Held(c)' = Held(c) BY <1>5, <2>4
    <3>2. c \notin subscribed' BY <1>2, <2>4
    <3>3. lagged'[c]
      <4>1. CASE c \in subscribed BY <1>2, <2>4, <4>1 DEF FallsBehind, Kept
      <4>2. CASE c \notin subscribed BY <1>2, <2>1, <4>2 DEF UpToDate
      <4>3. QED BY <4>1, <4>2
    <3>4. Continues(c)' BY <2>1, <2>2, <3>1 DEF Continues
    <3>5. UpToDate(c)' BY <1>2, <1>3, <2>1, <2>2, <3>1, <3>2, <3>3 DEF UpToDate
    <3>6. Told(c)' BY <1>2, <2>1, <3>1, <3>2, <3>3 DEF Told, UpToDate
    <3>7. QED BY <3>4, <3>5, <3>6
  <2>5. QED BY <2>3, <2>4
<1>9. TailInv' BY <1>2, <1>7, <1>8 DEF TailInv
<1>10. QED BY <1>4, <1>6, <1>9 DEF IInv

LEMMA CloseKeeps ==
  ASSUME IInv, Close
  PROVE  IInv'
<1>1. /\ closed' = TRUE /\ hub' = Shut(hub) /\ subscribed' = {}
      /\ UNCHANGED <<published, queue, lagged, reading, reported, ended, applied, attached, asOf>>
  BY DEF Close, SendersAfterClose, tailVars, handshakeVars
<1>2. HubInv' BY <1>1, ShutKeeps DEF IInv, HubInv, Keeps, Total
<1>3. TailType' BY <1>1 DEF IInv, TailType
<1>4. ASSUME NEW c \in Attachments \ attached PROVE Untouched(c)'
  BY <1>1 DEF IInv, TailInv, Untouched
<1>5. ASSUME NEW c \in reading PROVE (Continues(c) /\ UpToDate(c) /\ Told(c))'
  <2>1. Continues(c) /\ UpToDate(c) /\ Told(c) BY DEF IInv, TailInv
  <2>2. Heard(c)' = Heard(c) /\ Held(c)' = Held(c) /\ Total' = Total
    BY <1>1 DEF Heard, Held, Total
  <2>3. Continues(c)' BY <1>1, <2>1, <2>2 DEF Continues
  <2>4. UpToDate(c)' BY <1>1, <2>1, <2>2 DEF UpToDate
  <2>5. Told(c)' BY <1>1, <2>1 DEF Told
  <2>6. QED BY <2>3, <2>4, <2>5
<1>6. TailInv' BY <1>1, <1>4, <1>5 DEF TailInv
<1>7. QED BY <1>2, <1>3, <1>6 DEF IInv

\* Steps of one client leave the hub, and every other tail, as they are.
LEMMA OthersKeep ==
  ASSUME IInv, UNCHANGED hubVars, NEW c \in Attachments, NEW d \in Attachments \ {c},
         queue'[d] = queue[d], lagged'[d] = lagged[d], applied'[d] = applied[d],
         asOf'[d] = asOf[d], d \in subscribed' <=> d \in subscribed,
         d \in attached' <=> d \in attached, d \in reading' <=> d \in reading,
         d \in reported' <=> d \in reported, d \in ended' <=> d \in ended
  PROVE  /\ d \notin attached' => Untouched(d)'
         /\ d \in reading' => (Continues(d) /\ UpToDate(d) /\ Told(d))'
<1>1. Heard(d)' = Heard(d) /\ Held(d)' = Held(d) /\ Total' = Total /\ closed' = closed
  BY DEF Heard, Held, Total, hubVars
<1>2. d \notin attached' => Untouched(d)' BY DEF IInv, TailInv, Untouched
<1>3. ASSUME d \in reading' PROVE (Continues(d) /\ UpToDate(d) /\ Told(d))'
  <2>1. Continues(d) /\ UpToDate(d) /\ Told(d) BY <1>3 DEF IInv, TailInv
  <2>2. Continues(d)' BY <1>1, <2>1 DEF Continues
  <2>3. UpToDate(d)' BY <1>1, <2>1 DEF UpToDate
  <2>4. Told(d)' BY <2>1 DEF Told
  <2>5. QED BY <2>2, <2>3, <2>4
<1>4. QED BY <1>2, <1>3

LEMMA HubStays ==
  ASSUME IInv, UNCHANGED hubVars
  PROVE  HubInv'
  BY DEF IInv, HubInv, hubVars, Total

LEMMA AttachKeeps ==
  ASSUME IInv, NEW c \in Attachments, Attach(c)
  PROVE  IInv'
<1>1. /\ c \notin attached
      /\ attached' = attached \cup {c} /\ reading' = reading \cup {c}
      /\ asOf' = [asOf EXCEPT ![c] = Total]
      /\ subscribed' = IF closed THEN subscribed ELSE subscribed \cup {c}
      /\ UNCHANGED <<hubVars, queue, lagged, reported, ended, applied>>
  BY DEF Attach, Subscribe, tailVars, IInv, HubInv
<1>2. HubInv' BY <1>1, HubStays
<1>3. TailType' BY <1>1, Measures DEF IInv, TailType
<1>4. c \notin subscribed /\ c \notin reading /\ asOf'[c] = Total
  BY <1>1 DEF IInv, TailType
<1>5. ASSUME NEW d \in Attachments \ {c}
      PROVE  /\ d \notin attached' => Untouched(d)'
             /\ d \in reading' => (Continues(d) /\ UpToDate(d) /\ Told(d))'
  BY <1>1, OthersKeep DEF IInv, TailType
<1>6. (Continues(c) /\ UpToDate(c) /\ Told(c))'
  <2>1. Untouched(c) BY <1>1 DEF IInv, TailInv
  <2>2. /\ Heard(c)' = 0 /\ Held(c)' = 0 /\ Total' = Total /\ Total \in Nat
        /\ closed' = closed
    BY <1>1, <2>1, Measures DEF Untouched, Heard, Held, Total, hubVars
  <2>3. Continues(c)' BY <2>2 DEF Continues
  <2>4. UpToDate(c)' BY <1>1, <1>4, <2>1, <2>2 DEF UpToDate, Untouched
  <2>5. Told(c)' BY <1>1, <2>1 DEF Told, Untouched
  <2>6. QED BY <2>3, <2>4, <2>5
<1>7. TailInv' BY <1>1, <1>3, <1>5, <1>6 DEF TailInv, TailType
<1>8. QED BY <1>2, <1>3, <1>7 DEF IInv

LEMMA ReadItemKeeps ==
  ASSUME IInv, NEW c \in Attachments, ReadItem(c)
  PROVE  IInv'
<1>1. /\ c \in reading /\ queue[c] # <<>>
      /\ queue' = [queue EXCEPT ![c] = Tail(@)]
      /\ applied' = IF Head(queue[c]).seq > asOf[c]
                    THEN [applied EXCEPT ![c] = Append(@, Head(queue[c]).seq)] ELSE applied
      /\ UNCHANGED <<hubVars, subscribed, lagged, reading, reported, ended, attached, asOf>>
  BY DEF ReadItem, handshakeVars
<1>2. HubInv' BY <1>1, HubStays
<1>3. Continues(c) /\ UpToDate(c) /\ Told(c) /\ c \in attached BY <1>1 DEF IInv, TailInv, TailType
<1>4. /\ Held(c) \in Nat /\ Held(c) > 0 /\ Held(c)' = Held(c) - 1
      /\ \A i \in 1..(Held(c) - 1) : queue'[c][i] = queue[c][i + 1]
      /\ Head(queue[c]) = queue[c][1] /\ IsSequence(queue'[c])
  BY <1>1, TailIsSequence DEF Held, IInv, TailType
<1>5. Heard(c) \in Nat /\ asOf[c] \in Nat /\ Total \in Nat BY Measures
<1>6. Head(queue[c]).seq = asOf[c] + Heard(c) + 1 BY <1>3, <1>4 DEF Continues
<1>7. applied' = [applied EXCEPT ![c] = Append(@, asOf[c] + Heard(c) + 1)]
  <2>1. Head(queue[c]).seq > asOf[c] BY <1>5, <1>6
  <2>2. applied' = [applied EXCEPT ![c] = Append(@, Head(queue[c]).seq)] BY <1>1, <2>1
  <2>3. QED BY <1>6, <2>2
<1>8. applied[c] \in Seq(Nat) /\ applied'[c] = Append(applied[c], asOf[c] + Heard(c) + 1)
  BY <1>7 DEF IInv, TailType
<1>9. /\ applied'[c] \in Seq(Nat) /\ Heard(c)' = Heard(c) + 1
      /\ \A i \in 1..Heard(c) : applied'[c][i] = applied[c][i]
      /\ applied'[c][Heard(c) + 1] = asOf[c] + Heard(c) + 1
  BY <1>5, <1>8 DEF Heard
<1>10. TailType'
  <2>1. ASSUME NEW d \in Attachments
        PROVE  IsSequence(queue'[d]) /\ applied'[d] \in Seq(Nat)
    BY <1>1, <1>4, <1>7, <1>9 DEF IInv, TailType
  <2>2. QED BY <1>1, <1>7, <2>1 DEF IInv, TailType
<1>11. ASSUME NEW d \in Attachments \ {c}
       PROVE  /\ d \notin attached' => Untouched(d)'
              /\ d \in reading' => (Continues(d) /\ UpToDate(d) /\ Told(d))'
  BY <1>1, <1>7, OthersKeep DEF IInv, TailType
<1>12. (Continues(c) /\ UpToDate(c) /\ Told(c))'
  <2>1. Continues(c)'
    <3>1. \A i \in 1..(Heard(c) + 1) : applied'[c][i] = asOf[c] + i
      <4>1. \A i \in 1..Heard(c) : applied'[c][i] = asOf[c] + i
        BY <1>3, <1>9 DEF Continues
      <4>2. applied'[c][Heard(c) + 1] = asOf[c] + (Heard(c) + 1)
        <5>1. asOf[c] + (Heard(c) + 1) = asOf[c] + Heard(c) + 1 BY <1>5
        <5>2. QED BY <1>9, <5>1, Zenon
      <4>3. QED BY <1>5, <4>1, <4>2
    <3>2. \A i \in 1..(Held(c) - 1) : queue'[c][i].seq = asOf[c] + (Heard(c) + 1) + i
      BY <1>3, <1>4, <1>5 DEF Continues
    <3>3. QED BY <1>1, <1>4, <1>9, <3>1, <3>2 DEF Continues
  <2>2. UpToDate(c)'
    <3>1. UNCHANGED <<asOf, lagged, subscribed, closed, Total>> BY <1>1 DEF hubVars, Total
    <3>2. Held(c)' = Held(c) - 1 /\ Heard(c)' = Heard(c) + 1 /\ Held(c) \in Nat BY <1>4, <1>9
    <3>3. asOf[c] + Heard(c)' + Held(c)' = asOf[c] + Heard(c) + Held(c) BY <1>5, <3>2
    <3>4. QED BY <1>3, <3>1, <3>3 DEF UpToDate
  <2>3. Told(c)' BY <1>1, <1>3 DEF Told
  <2>4. QED BY <2>1, <2>2, <2>3
<1>13. TailInv' BY <1>1, <1>3, <1>10, <1>11, <1>12 DEF TailInv, TailType
<1>14. QED BY <1>2, <1>10, <1>13 DEF IInv

\* The steps that move no item: a client is told, or hangs up.
LEMMA TellKeeps ==
  ASSUME IInv, NEW c \in Attachments, ReadLagged(c) \/ ReadEnd(c) \/ HangUp(c)
  PROVE  IInv'
<1>1. /\ UNCHANGED <<hubVars, subscribed, queue, lagged, applied, attached, asOf>>
      /\ c \in reading /\ reading' \in {reading, reading \ {c}}
      /\ reported' \in {reported, reported \cup {c}} /\ ended' \in {ended, ended \cup {c}}
  BY DEF ReadLagged, ReadEnd, HangUp, Drained, tailVars, handshakeVars
<1>2. HubInv' BY <1>1, HubStays
<1>3. TailType' BY <1>1 DEF IInv, TailType
<1>4. Continues(c) /\ UpToDate(c) /\ Told(c) /\ c \in attached BY <1>1 DEF IInv, TailInv, TailType
<1>5. ASSUME NEW d \in Attachments \ {c}
      PROVE  /\ d \notin attached' => Untouched(d)'
             /\ d \in reading' => (Continues(d) /\ UpToDate(d) /\ Told(d))'
  BY <1>1, OthersKeep
<1>6. c \in reading' => (Continues(c) /\ UpToDate(c) /\ Told(c))'
  <2>1. Continues(c)' BY <1>1, <1>4 DEF Continues, Heard, Held
  <2>2. UpToDate(c)' BY <1>1, <1>4 DEF UpToDate, Heard, Held, Total, hubVars
  <2>3. c \in reading' => Told(c)'
    <3>1. CASE ReadLagged(c)
      BY <1>4, <3>1 DEF ReadLagged, Drained, Told
    <3>2. CASE ReadEnd(c)
      BY <1>4, <3>2 DEF ReadEnd, Drained, ReportedOrWhole, Told
    <3>3. CASE HangUp(c) BY <3>3 DEF HangUp
    <3>4. QED BY <3>1, <3>2, <3>3
  <2>4. QED BY <2>1, <2>2, <2>3
<1>7. TailInv' BY <1>1, <1>3, <1>4, <1>5, <1>6 DEF TailInv, TailType
<1>8. QED BY <1>2, <1>3, <1>7 DEF IInv

LEMMA StepKeeps == IInv /\ [Next]_vars => IInv'
<1> SUFFICES ASSUME IInv, [Next]_vars PROVE IInv' OBVIOUS
<1>1. ASSUME NEW o \in Offered, Publish(o) PROVE IInv'
  BY <1>1, PublishKeeps DEF Publish
<1>2. CASE Close BY <1>2, CloseKeeps
<1>3. ASSUME NEW c \in Attachments, Attach(c) PROVE IInv' BY <1>3, AttachKeeps
<1>4. ASSUME NEW c \in Attachments, Read(c) PROVE IInv'
  BY <1>4, ReadItemKeeps, TellKeeps DEF Read
<1>5. ASSUME NEW c \in Attachments, HangUp(c) PROVE IInv' BY <1>5, TellKeeps
<1>6. CASE UNCHANGED vars
  <2>1. HubInv' BY <1>6, HubStays DEF vars
  <2>2. TailType' BY <1>6 DEF IInv, TailType, vars, tailVars, handshakeVars
  <2>3. TailInv'
    BY <1>6 DEF IInv, TailInv, Untouched, Continues, UpToDate, Told, Heard, Held, Total,
                vars, hubVars, tailVars, handshakeVars
  <2>4. QED BY <2>1, <2>2, <2>3 DEF IInv
<1>7. QED BY <1>1, <1>2, <1>3, <1>4, <1>5, <1>6 DEF Next, Quiet

---------------------------------------------------------------------------
LEMMA IInvTellsTails == IInv => TailsAreWhole
<1> SUFFICES ASSUME IInv PROVE TailsAreWhole OBVIOUS
<1>1. TailContinuesBaseline
  <2> SUFFICES ASSUME NEW c \in reading
               PROVE  LET got == applied[c] \o Seqs(queue[c]) IN
                      /\ \A i \in DOMAIN got : got[i] = asOf[c] + i
                      /\ lagged[c] <=> asOf[c] + Len(got) < Len(published)
    BY DEF TailContinuesBaseline
  <2>1. c \in Attachments /\ Continues(c) /\ UpToDate(c) BY DEF IInv, TailInv, TailType
  <2>2. Heard(c) \in Nat /\ Held(c) \in Nat /\ asOf[c] \in Nat /\ Total \in Nat
    BY <2>1, Measures
  <2>3. IsSequence(queue[c]) /\ applied[c] \in Seq(Nat) BY <2>1 DEF IInv, TailType
  <2>4. /\ Seqs(queue[c]) \in Seq(Nat) /\ Len(Seqs(queue[c])) = Held(c)
        /\ \A i \in 1..Held(c) : Seqs(queue[c])[i] = asOf[c] + Heard(c) + i
    <3>1. DOMAIN queue[c] = 1..Held(c) BY <2>3 DEF IsSequence, Held
    <3>2. \A i \in 1..Held(c) : queue[c][i].seq = asOf[c] + Heard(c) + i BY <2>1 DEF Continues
    <3>3. Seqs(queue[c]) = [i \in 1..Held(c) |-> asOf[c] + Heard(c) + i]
      BY <3>1, <3>2 DEF Seqs
    <3>4. QED BY <2>2, <3>3
  <2> DEFINE got == applied[c] \o Seqs(queue[c])
  <2>5. /\ Len(got) = Heard(c) + Held(c)
        /\ DOMAIN got = 1..(Heard(c) + Held(c))
        /\ \A i \in 1..(Heard(c) + Held(c)) : got[i] = asOf[c] + i
    <3>1. /\ got \in Seq(Nat) /\ Len(got) = Heard(c) + Held(c)
          /\ \A i \in 1..Heard(c) : got[i] = applied[c][i]
          /\ \A i \in 1..Held(c) : got[Heard(c) + i] = Seqs(queue[c])[i]
      <4>1. \A s \in Seq(Nat), t \in Seq(Nat) :
              /\ s \o t \in Seq(Nat) /\ Len(s \o t) = Len(s) + Len(t)
              /\ \A i \in 1..Len(s) : (s \o t)[i] = s[i]
              /\ \A i \in 1..Len(t) : (s \o t)[Len(s) + i] = t[i]
        BY ConcatIsBoth
      <4>2. /\ applied[c] \in Seq(Nat) /\ Seqs(queue[c]) \in Seq(Nat)
            /\ Len(applied[c]) = Heard(c) /\ Len(Seqs(queue[c])) = Held(c)
        BY <2>3, <2>4 DEF Heard
      <4>3. /\ got \in Seq(Nat) /\ Len(got) = Len(applied[c]) + Len(Seqs(queue[c]))
            /\ \A i \in 1..Len(applied[c]) : got[i] = applied[c][i]
            /\ \A i \in 1..Len(Seqs(queue[c])) :
                 got[Len(applied[c]) + i] = Seqs(queue[c])[i]
        BY <4>1, <4>2, Zenon
      <4> HIDE DEF got
      <4>4. QED BY <4>2, <4>3
    <3>2. \A i \in 1..Heard(c) : applied[c][i] = asOf[c] + i BY <2>1 DEF Continues
    <3> HIDE DEF got
    <3>3. DOMAIN got = 1..(Heard(c) + Held(c)) BY <3>1
    <3>4. ASSUME NEW i \in 1..(Heard(c) + Held(c)) PROVE got[i] = asOf[c] + i
      <4>1. CASE i <= Heard(c)
        <5>1. i \in 1..Heard(c) BY <2>2, <4>1
        <5>2. QED BY <3>1, <3>2, <5>1
      <4>2. CASE i > Heard(c)
        <5>1. PICK k \in 1..Held(c) : i = Heard(c) + k
          <6>1. i - Heard(c) \in 1..Held(c) /\ i = Heard(c) + (i - Heard(c)) BY <2>2, <4>2
          <6>2. QED BY <6>1
        <5>2. got[i] = Seqs(queue[c])[k] BY <3>1, <5>1
        <5>3. QED BY <2>2, <2>4, <5>1, <5>2
      <4>3. QED BY <2>2, <4>1, <4>2
    <3>5. QED BY <3>1, <3>3, <3>4
  <2> HIDE DEF got
  <2>6. lagged[c] <=> asOf[c] + Len(got) < Len(published)
    BY <2>1, <2>2, <2>5 DEF UpToDate, Total
  <2>7. QED BY <2>5, <2>6 DEF got
<1>2. EndsAreTold
  <2> SUFFICES ASSUME NEW c \in ended \cap reading
               PROVE  c \in reported <=> asOf[c] + Len(applied[c]) < Len(published)
    BY DEF EndsAreTold
  <2>1. c \in Attachments /\ UpToDate(c) /\ Told(c) BY DEF IInv, TailInv, TailType
  <2>2. Heard(c) \in Nat /\ asOf[c] \in Nat /\ Held(c) = 0
    BY <2>1, Measures DEF Told
  <2>3. c \in reported <=> lagged[c] BY <2>1, Measures DEF Told
  <2>4. lagged[c] <=> asOf[c] + Heard(c) < Total BY <2>1, <2>2 DEF UpToDate
  <2>5. QED BY <2>3, <2>4 DEF Heard, Total
<1>3. QED BY <1>1, <1>2 DEF TailsAreWhole

(* A client that keeps its tail hears every item after its baseline, in    *)
(* order and once, and a tail that missed one says so before it ends,      *)
(* whatever the capacity of the queues and however clients come and go     *)
(* (lib.rs 119-154, 387-452).                                              *)
THEOREM TailsStayWhole == Spec => []TailsAreWhole
<1>1. Spec => []IInv BY InitHolds, StepKeeps, PTL DEF Spec
<1>2. QED BY <1>1, IInvTellsTails, PTL
=============================================================================
