---------------------------- MODULE Broadcaster ----------------------------
(***************************************************************************)
(* One run's live-stream hub (cadmus-transport lib.rs): the loop           *)
(* publishes, clients attach, read their tails, hang up and attach again,  *)
(* and close ends every tail.  The hub's mutex makes publish, attach and   *)
(* close one step each; reading a tail takes no lock of the hub.           *)
(*                                                                         *)
(* "published" is a history of the items; the publisher is the agent loop, *)
(* reduced to the order it keeps (Offers).                                 *)
(* An operator named Fault... is a plausible slip in the definition that   *)
(* follows it; none is part of the specification.                          *)
(***************************************************************************)
EXTENDS LiveState, FiniteSetsExt

CONSTANTS Attachments,     \* each attach() yields one; a client that re-attaches has two
          QueueCapacity,   \* per-subscriber queue bound
          Offered,         \* what the loop may publish, seq aside
          MaxItems         \* bound: items published

ASSUME BroadcasterAssumption ==
  /\ QueueCapacity \in Nat \ {0} /\ MaxItems \in Nat
  /\ \A o \in Offered : "kind" \in DOMAIN o /\ o.kind \in {"recorded", "delta", "completed", "requested"}

VARIABLES hub, closed,
          subscribed,    \* attachments with a sender in the hub's list
          queue, lagged, \* per attachment: the channel and its shared flag
          attached,      \* attachments made
          reading,       \* those whose tail is still held
          reported,      \* those whose tail returned Lagged
          ended,         \* those whose tail returned None
          asOf,          \* Sync.as_of_seq
          applied,       \* seqs the client has applied since the handshake
          published

hubVars == <<hub, closed, published>>
tailVars == <<reported, ended, applied>>
handshakeVars == <<attached, asOf>>
vars == <<hubVars, subscribed, queue, lagged, reading, tailVars, handshakeVars>>

---------------------------------------------------------------------------
(* The order the loop publishes in.                                        *)

Recorded(type) ==
  {i \in DOMAIN published : published[i].kind = "recorded" /\ published[i].event.type = type}

Over == Recorded("finished") # {}
Responded(turn) == \E i \in Recorded("response") : published[i].event.turn = turn

Published(e) == \E i \in Recorded(e.type) : published[i].event = e

Requested(r) ==
  \E i \in DOMAIN published : published[i].kind = "requested" /\ published[i].request = r

\* start_run comes first, turns follow each other, a response comes after its
\* turn's deltas and before its approval request, whose id is minted once and
\* precedes its answers, and nothing follows the terminal record; a recorded
\* event may be republished.
Offers(o) ==
  /\ ~Over
  /\ CASE o.kind = "delta" ->
            /\ ~Responded(o.turn)
            /\ \A i \in DOMAIN published :
                 published[i].kind = "delta" => published[i].turn <= o.turn
       [] o.kind = "requested" -> Responded(o.turn) /\ ~Requested(o.request)
       [] o.kind = "completed" -> TRUE
       [] o.kind = "recorded" ->
            Published(o.event) \/
            CASE o.event.type = "start" -> published = <<>>
              [] o.event.type = "response" ->
                   \A i \in Recorded("response") : published[i].event.turn < o.event.turn
              [] o.event.type = "resolve" -> Requested(o.event.cmd.req)
              [] OTHER -> TRUE

\* What the loop hands over, beyond its order: turns count from 1, a request is
\* made for at least one gated call (gate.rs 175), an answer approves or
\* rejects, and an event's id is its own.
IsAnswer(c) ==
  \/ c.kind = "call" /\ c.decision # "none"
  \/ c.kind = "batch" /\ \A s \in DOMAIN c.decisions : c.decisions[s] # "none"

IsEvent(e) ==
  /\ e.type = "start" => e.base \in Seq({e.base[i] : i \in DOMAIN e.base})
  /\ e.type = "response" => e.turn \in Nat
  /\ e.type = "resolve" => IsAnswer(e.cmd)

WellFormed(o) ==
  /\ o.kind = "recorded" => "event" \in DOMAIN o /\ IsEvent(o.event)
  /\ o.kind = "delta" => "turn" \in DOMAIN o /\ o.turn \in Nat \ {NoTurn}
  /\ o.kind = "requested" => /\ {"request", "turn", "calls"} \subseteq DOMAIN o
                             /\ o.turn # NoTurn /\ o.calls \in Nat \ {0}

WellFormedOffers ==
  /\ \A o \in Offered : WellFormed(o)
  /\ \A o, p \in Offered : /\ o.kind = "recorded" /\ p.kind = "recorded"
                           /\ o.event.id = p.event.id
                           => o.event = p.event

---------------------------------------------------------------------------
Init ==
  /\ hub = EmptyHub /\ closed = FALSE /\ published = <<>>
  /\ subscribed = {} /\ attached = {} /\ reading = {}
  /\ queue = [c \in Attachments |-> <<>>]
  /\ lagged = [c \in Attachments |-> FALSE]
  /\ reported = {} /\ ended = {}
  /\ asOf = [c \in Attachments |-> 0]
  /\ applied = [c \in Attachments |-> <<>>]

Full(c) == Len(queue[c]) >= QueueCapacity

\* try_send keeps whom it reached: not a full queue, not a dropped receiver.
Kept == {c \in subscribed : c \in reading /\ ~Full(c)}

FaultKeepFull == subscribed \cap reading

\* Who stays on the subscriber list.
Retained == Kept

\* A full queue flags the lag its tail will report.
FallsBehind(c) == c \in subscribed /\ c \in reading /\ Full(c)

PublishItem(o) ==
  /\ ~closed
  /\ LET item == Stamped(o, "seq", hub.last + 1) IN
       /\ hub' = Track(hub, item)
       /\ published' = Append(published, item)
       /\ queue' = [c \in Attachments |-> IF c \in Kept THEN Append(queue[c], item) ELSE queue[c]]
  /\ lagged' = [c \in Attachments |-> lagged[c] \/ FallsBehind(c)]
  /\ subscribed' = Retained
  /\ UNCHANGED <<closed, reading, tailVars, handshakeVars>>

Publish(o) == Len(published) < MaxItems /\ Offers(o) /\ PublishItem(o)

FaultKeepSenders == subscribed

\* close() drops every sender.
SendersAfterClose == {}

Close ==
  /\ ~closed
  /\ closed' = TRUE
  /\ hub' = Shut(hub)
  /\ subscribed' = SendersAfterClose
  /\ UNCHANGED <<published, queue, lagged, reading, tailVars, handshakeVars>>

\* A closed hub keeps no sender: the tail ends at once.
Subscribe(c) == IF closed THEN subscribed ELSE subscribed \cup {c}

\* Snapshot and subscription under one lock.
Attach(c) ==
  /\ c \notin attached
  /\ attached' = attached \cup {c} /\ reading' = reading \cup {c}
  /\ asOf' = [asOf EXCEPT ![c] = hub.last]
  /\ subscribed' = Subscribe(c)
  /\ UNCHANGED <<hubVars, queue, lagged, tailVars>>

\* The one client rule: drop positions up to as_of_seq, apply the rest.
ReadItem(c) ==
  /\ c \in reading /\ queue[c] # <<>>
  /\ queue' = [queue EXCEPT ![c] = Tail(@)]
  /\ applied' = IF Head(queue[c]).seq > asOf[c]
                THEN [applied EXCEPT ![c] = Append(@, Head(queue[c]).seq)] ELSE applied
  /\ UNCHANGED <<hubVars, subscribed, lagged, reading, reported, ended, handshakeVars>>

\* The sender is gone and the queue drained.
Drained(c) == c \in reading /\ queue[c] = <<>> /\ c \notin subscribed

ReadLagged(c) ==
  /\ Drained(c) /\ lagged[c] /\ c \notin reported
  /\ reported' = reported \cup {c}
  /\ UNCHANGED <<hubVars, subscribed, queue, lagged, reading, ended, applied, handshakeVars>>

FaultSkipReport(c) == TRUE

\* Nothing left to tell.
ReportedOrWhole(c) == ~lagged[c] \/ c \in reported

ReadEnd(c) ==
  /\ Drained(c) /\ ReportedOrWhole(c) /\ c \notin ended
  /\ ended' = ended \cup {c}
  /\ UNCHANGED <<hubVars, subscribed, queue, lagged, reading, reported, applied, handshakeVars>>

\* The client drops its tail; the hub notices at its next publish.
HangUp(c) ==
  /\ c \in reading
  /\ reading' = reading \ {c}
  /\ UNCHANGED <<hubVars, subscribed, queue, lagged, tailVars, handshakeVars>>

Read(c) == ReadItem(c) \/ ReadLagged(c) \/ ReadEnd(c)

\* A closed hub ignores publishes.
Quiet == closed /\ UNCHANGED vars

Next ==
  \/ (\E o \in Offered : Publish(o)) \/ Close \/ Quiet
  \/ \E c \in Attachments : Attach(c) \/ Read(c) \/ HangUp(c)

Spec == Init /\ [][Next]_vars

---------------------------------------------------------------------------
(* Properties.                                                             *)

Seqs(q) == [i \in DOMAIN q |-> q[i].seq]

(* What a client has applied and what waits in its queue continue its      *)
(* baseline without gap or repetition, up to the last item published; a    *)
(* client with anything missing carries the lag flag (lib.rs 119-154,      *)
(* 387-409).                                                               *)
TailContinuesBaseline ==
  \A c \in reading :
    LET got == applied[c] \o Seqs(queue[c]) IN
    /\ \A i \in DOMAIN got : got[i] = asOf[c] + i
    /\ lagged[c] <=> asOf[c] + Len(got) < Len(published)

(* A tail that ends has delivered everything published since the handshake *)
(* or has said Lagged, and says Lagged only with something missing: the    *)
(* two ends a client must tell apart (lib.rs 421-452).                     *)
EndsAreTold ==
  \A c \in ended \cap reading :
    c \in reported <=> asOf[c] + Len(applied[c]) < Len(published)

\* Reference: the events that count, a repeated id once.
FirstEvents ==
  {i \in DOMAIN published :
     /\ published[i].kind = "recorded"
     /\ \A j \in 1..(i - 1) : published[j].kind = "recorded"
                             => published[j].event.id # published[i].event.id}

RequestAt(i) == published[i].kind = "requested"

\* The recorded resolves published while request i was open that address its
\* slot s, and what they answer.
Addressing(i, s) ==
  {j \in FirstEvents : /\ j > i /\ published[j].event.type = "resolve"
                       /\ published[j].event.cmd.req = published[i].request
                       /\ \/ published[j].event.cmd.kind = "batch"
                          \/ published[j].event.cmd.index = s}

Answer(c, s) ==
  IF c.kind = "call" THEN c.decision
  ELSE IF s \in DOMAIN c.decisions THEN c.decisions[s] ELSE "rejected"

Slot(i, s) ==
  IF Addressing(i, s) = {} THEN "none"
  ELSE Answer(published[Min(Addressing(i, s))].event.cmd, s)

Slots(i) == 1..published[i].calls
OpenRequest(i) == ~Over /\ ~closed /\ \E s \in Slots(i) : Slot(i, s) = "none"
DecidedRequest(i) == ~OpenRequest(i) /\ \E s \in Slots(i) : Slot(i, s) # "none"

\* Where a request stopped being open.
SettledAt(i) ==
  IF \A s \in Slots(i) : Slot(i, s) # "none"
  THEN Max({Min(Addressing(i, s)) : s \in Slots(i)}) ELSE Len(published) + 1

\* As many other requests as the window holds were settled no earlier.
Evicted(i) ==
  Cardinality({j \in DOMAIN published : /\ j # i /\ RequestAt(j) /\ DecidedRequest(j)
                                        /\ SettledAt(j) >= SettledAt(i)}) >= Window

(* What the baseline says of approvals is what the log decided: an open    *)
(* request is pending with the first recorded answer of each slot, one no  *)
(* longer open is remembered with exactly its recorded answers in call     *)
(* order until the settled window is full of later ones, and nobody        *)
(* invents a denial when the run ends (lib.rs 263-377).                    *)
ApprovalsFollowLog ==
  /\ \A i \in DOMAIN published : RequestAt(i) =>
       LET mine == {k \in DOMAIN hub.pending : hub.pending[k].request = published[i].request}
       IN /\ IF OpenRequest(i)
             THEN \E k \in mine : hub.pending[k].decisions = [s \in Slots(i) |-> Slot(i, s)]
             ELSE mine = {}
          /\ DecidedRequest(i) => \/ Evicted(i)
                                  \/ \E m \in DOMAIN hub.settled :
                                       hub.settled[m].request = published[i].request
  /\ \A m \in DOMAIN hub.settled :
       LET r == hub.settled[m] IN
       \E i \in DOMAIN published :
         /\ RequestAt(i) /\ published[i].request = r.request /\ DecidedRequest(i)
         /\ {r.calls[x] : x \in DOMAIN r.calls} = {s \in Slots(i) : Slot(i, s) # "none"}
         /\ \A x, y \in DOMAIN r.calls : x < y => r.calls[x] < r.calls[y]
         /\ \A x \in DOMAIN r.calls : r.decisions[x] = Slot(i, r.calls[x])

History == Replay(hub.events).messages

(* An approval record with an index points at the response of its own turn *)
(* in the baseline's history (lib.rs 205-211).                             *)
AnchorsNameTheirTurn ==
  \A k \in DOMAIN hub.pending : hub.pending[k].index >= 0 =>
    /\ hub.pending[k].index < Len(History)
    /\ \E i \in Recorded("response") :
         /\ published[i].event.turn = hub.pending[k].turn
         /\ History[hub.pending[k].index + 1] = published[i].event.msg

\* A turn streaming: chunks seen, and no response to it yet.
Streaming(turn) == ~Over /\ ~Responded(turn)
Deltas(turn) == {i \in DOMAIN published :
                   published[i].kind = "delta" /\ published[i].turn = turn}

(* No jump: a baseline shows the newest turn either as the open partial    *)
(* with every chunk so far or, once its response is recorded, as a message *)
(* of the history, never as both and never as neither; a republished event *)
(* does not disturb it (lib.rs 170-181, 218-228).                          *)
OpenTurnIsUnrecorded ==
  LET turns == {published[i].turn : i \in {j \in DOMAIN published : published[j].kind = "delta"}}
      newest == Max(turns)
  IN hub.open = IF turns # {} /\ Streaming(newest)
                THEN [turn |-> newest, chunks |-> Cardinality(Deltas(newest))]
                ELSE NoOpenTurn

(* A client hears everything after its baseline, or hears that it does not.*)
TailsAreWhole == TailContinuesBaseline /\ EndsAreTold

(* The baseline of any moment is the log so far, and the live items on top *)
(* of it.                                                                  *)
BaselineFollowsLog == ApprovalsFollowLog /\ AnchorsNameTheirTurn /\ OpenTurnIsUnrecorded
=============================================================================
