--------------------------- MODULE DispatchProofs ---------------------------
(***************************************************************************)
(* Theorems about Dispatch for every batch, every division of its calls    *)
(* into gated and parallel-safe ones, and every set of client commands.    *)
(*                                                                         *)
(* The frame lemmas say which actions touch which variables; every later   *)
(* step starts from the frame of the variables it is about.  The second    *)
(* half is about what dispatch writes and how it waits and returns: the    *)
(* durable log agrees with the loop's own bookkeeping and with the gate's  *)
(* decisions, the loop never parks without a waker, a batch that returns   *)
(* leaves nothing open, seen through the log it is a ToolBatch, and the    *)
(* human wait ends fairly: an answer sent after the deadline decides       *)
(* nothing, and the closing of the command channel denies nothing a client *)
(* had answered in time.                                                   *)
(***************************************************************************)
EXTENDS DispatchLive, LiveStateProofs, FiniteSetTheorems, SequenceTheorems, TLAPS

ResolveCommands == {c \in Commands : c.kind \in {"batch", "call"}}

\* What Apply does when the resolve has an effect.
Settles(c) ==
  /\ c \in ResolveCommands \/ (\E id \in SyntheticIds : c = Denial(id))
  /\ Updates(c) # {}
  /\ log' = Append(log, ResolveEvent(c))
  /\ decisions' = [p \in Position |->
                     IF p \in Updates(c) THEN DecisionOf(c, p) ELSE decisions[p]]

---------------------------------------------------------------------------
(* Operators.                                                              *)

\* Removing an element keeps a sequence over the same set (take_approval).
LEMMA RemoveAtType ==
  ASSUME NEW S, NEW s \in Seq(S), NEW i \in DOMAIN s
  PROVE  RemoveAt(s, i) \in Seq(S)
  BY DEF RemoveAt

\* Any resolve, synthetic or a client's, decides a slot one way or the other.
LEMMA DecisionType ==
  ASSUME NEW c, c \in ResolveCommands \/ (\E id \in SyntheticIds : c = Denial(id)), NEW p \in Gated
  PROVE  DecisionOf(c, p) \in Decided
<1>1. CASE c \in ResolveCommands
  BY <1>1, DispatchAssumption DEF ResolveCommands, WellFormed, DecisionOf, Decided
<1>2. CASE \E id \in SyntheticIds : c = Denial(id)
  BY <1>2 DEF Denial, DecisionOf, Decided
<1>3. QED BY <1>1, <1>2

---------------------------------------------------------------------------
(* Frames.                                                                 *)

\* Only a received command, take_interrupt and take_approval move the inbox.
LEMMA InboxFrame ==
  ASSUME [Next]_vars
  PROVE  \/ UNCHANGED inboxVars
         \/ Queued /\ Note(Head(channel))
         \/ PollDone \/ DrainAnswer
  BY DEF Next, LoopStep, vars, intake, Send, Close, Expire, HeadReceive, HeadIdle,
         PollOne, DrainTimeout, DrainDone, AdmitCall, AdmitDone, FlushResult, FlushSkip,
         FlushDone, PublishOne, Leave, Again, Park, TickTool, TickCommand,
         RecordInterrupt, RecordFinished, AppendFails, Returned, Receive, CommandFirst

\* The channel is appended to by clients and consumed from its head.
LEMMA ClientFrame ==
  ASSUME [Next]_vars
  PROVE  \/ UNCHANGED <<channel, open, sent>>
         \/ \E c \in Commands : Send(c)
         \/ Close
         \/ Queued /\ channel' = Tail(channel) /\ UNCHANGED <<open, sent>>
  BY DEF Next, LoopStep, vars, intake, clientVars, Expire, HeadReceive, HeadIdle,
         PollOne, PollDone, DrainTimeout, DrainAnswer, DrainDone, AdmitCall, AdmitDone,
         FlushResult, FlushSkip, FlushDone, PublishOne, Leave, Again, Park, TickTool,
         TickCommand, RecordInterrupt, RecordFinished, AppendFails, Returned, Receive,
         CommandFirst

\* The call bookkeeping moves in five places of the loop.
LEMMA CallFrame ==
  ASSUME [Next]_vars
  PROVE  UNCHANGED callVars \/ AdmitCall \/ FlushResult \/ FlushSkip \/ PublishOne \/ TickTool
  BY DEF Next, LoopStep, vars, Send, Close, Expire, HeadReceive, HeadIdle, PollOne,
         PollDone, DrainTimeout, DrainAnswer, DrainDone, AdmitDone, FlushDone, Leave,
         Again, Park, TickCommand, RecordInterrupt, RecordFinished, AppendFails, Returned

\* A step appends to the log at most one event, and decisions move only with
\* a recorded resolve.
LEMMA LogFrame ==
  ASSUME InboxType, [Next]_vars
  PROVE  \/ UNCHANGED <<log, decisions>>
         \/ \E c : Settles(c)
         \/ AdmitCall \/ FlushResult \/ RecordInterrupt \/ RecordFinished
<1> USE DEF SyntheticIds
<1>1. CASE HeadReceive \/ TickCommand
  <2>1. UNCHANGED <<log, decisions>> \/ \E id \in SyntheticIds : Apply(Denial(id))
    BY <1>1 DEF HeadReceive, TickCommand, Receive
  <2>2. ASSUME NEW id \in SyntheticIds, Apply(Denial(id))
        PROVE  UNCHANGED <<log, decisions>> \/ Settles(Denial(id))
    BY <2>2 DEF Apply, Settles
  <2>3. QED BY <2>1, <2>2
<1>2. CASE DrainTimeout
  <2>1. Apply(Denial("ap-timeout"))
    BY <1>2 DEF DrainTimeout
  <2>2. UNCHANGED <<log, decisions>> \/ Settles(Denial("ap-timeout"))
    BY <2>1 DEF Apply, Settles
  <2>3. QED BY <2>2
<1>3. CASE DrainAnswer
  <2>1. PICK i \in DOMAIN resolves : Apply(resolves[i])
    BY <1>3 DEF DrainAnswer
  <2>2. resolves[i] \in ResolveCommands
    BY DEF InboxType, ResolveCommands
  <2>3. QED BY <2>1, <2>2 DEF Apply, Settles
<1>4. CASE ~(HeadReceive \/ TickCommand \/ DrainTimeout \/ DrainAnswer)
  BY <1>4 DEF Next, LoopStep, vars, intake, Send, Close, Expire, HeadIdle, PollOne,
              PollDone, DrainDone, AdmitDone, FlushSkip, FlushDone, PublishOne, Leave,
              Again, Park, TickTool, AppendFails, Returned
<1>5. QED BY <1>1, <1>2, <1>3, <1>4

---------------------------------------------------------------------------
(* Type correctness.                                                       *)

LEMMA InitType == Init => TypeOK
<1> SUFFICES ASSUME Init PROVE TypeOK
  OBVIOUS
<1>1. ClientType BY DispatchAssumption DEF Init, ClientType
<1>2. InboxType BY DEF Init, InboxType
<1>3. GateType BY DEF Init, GateType, Decided
<1>4. CallType BY DispatchAssumption DEF Init, CallType
<1>5. FlowType BY DEF Init, FlowType
<1>6. QED BY <1>1, <1>2, <1>3, <1>4, <1>5 DEF TypeOK

LEMMA ClientStep == ASSUME ClientType, [Next]_vars PROVE ClientType'
<1>1. CASE UNCHANGED <<channel, open, sent>>
  BY <1>1 DEF ClientType
<1>2. ASSUME NEW c \in Commands, Send(c) PROVE ClientType'
  BY <1>2, DispatchAssumption DEF ClientType, Send
<1>3. CASE Close
  BY <1>3 DEF ClientType, Close
<1>4. CASE Queued /\ channel' = Tail(channel) /\ UNCHANGED <<open, sent>>
  BY <1>4 DEF ClientType, Queued
<1>5. QED BY <1>1, <1>2, <1>3, <1>4, ClientFrame

LEMMA InboxStep == ASSUME ClientType, InboxType, [Next]_vars PROVE InboxType'
<1>1. CASE UNCHANGED inboxVars
  BY <1>1 DEF InboxType, inboxVars
<1>2. CASE Queued /\ Note(Head(channel))
  <2> DEFINE c == Head(channel)
  <2>1. c \in Commands
    BY <1>2 DEF ClientType, Queued
  <2>2. CASE Retried(c)
    BY <1>2, <2>2 DEF Note, InboxType, inboxVars
  <2>3. CASE ~Retried(c)
    <3>1. /\ resolves' = IF c.kind \in {"batch", "call"} THEN Append(resolves, c) ELSE resolves
          /\ steers' = IF c.kind = "steer" THEN Append(steers, c) ELSE steers
          /\ pendingInterrupt' \in {pendingInterrupt, c}
      BY <1>2, <2>3 DEF Note
    <3>2. QED BY <2>1, <3>1 DEF InboxType
  <2>4. QED BY <2>2, <2>3
<1>3. CASE PollDone
  BY <1>3 DEF PollDone, InboxType
<1>4. CASE DrainAnswer
  BY <1>4, RemoveAtType DEF DrainAnswer, InboxType
<1>5. QED BY <1>1, <1>2, <1>3, <1>4, InboxFrame

LEMMA GateStep == ASSUME InboxType, GateType, [Next]_vars PROVE GateType'
<1>1. expired' \in BOOLEAN
  <2>1. expired' = expired \/ Expire
    BY DEF Next, LoopStep, vars, intake, Send, Close, HeadReceive, HeadIdle, PollOne,
           PollDone, DrainTimeout, DrainAnswer, DrainDone, AdmitCall, AdmitDone,
           FlushResult, FlushSkip, FlushDone, PublishOne, Leave, Again, Park, TickTool,
           TickCommand, RecordInterrupt, RecordFinished, AppendFails, Returned
  <2>2. QED BY <2>1 DEF GateType, Expire
<1>2. CASE UNCHANGED <<log, decisions>>
  BY <1>1, <1>2 DEF GateType
<1>3. ASSUME NEW c, Settles(c) PROVE GateType'
  <2>1. \A p \in Updates(c) : DecisionOf(c, p) \in Decided
    BY <1>3, DecisionType DEF Updates, Settles
  <2>2. QED BY <1>1, <1>3, <2>1 DEF GateType, Settles
<1>4. CASE AdmitCall \/ FlushResult \/ RecordInterrupt \/ RecordFinished
  BY <1>1, <1>4 DEF GateType, AdmitCall, FlushResult, RecordInterrupt, RecordFinished, intake
<1>5. QED BY <1>2, <1>3, <1>4, LogFrame

LEMMA CallStep == ASSUME CallType, [Next]_vars PROVE CallType'
<1>1. CASE UNCHANGED callVars
  BY <1>1 DEF CallType, callVars
<1>2. CASE AdmitCall
  <2>1. PICK p \in Position : Start(p)
    BY <1>2 DEF AdmitCall, Ready
  <2>2. flushed' = flushed
    BY <1>2 DEF AdmitCall
  <2>3. started' = started \cup {p} /\ (running' = running \/ running' = running \cup {p})
    BY <2>1 DEF Start
  <2>4. started' \subseteq Position /\ running' \subseteq started'
    BY <2>3 DEF CallType
  <2>5. outcomes' = outcomes \/ outcomes' = [outcomes EXCEPT ![p] = "rejected"]
    BY <2>1 DEF Start
  <2>6. outcomes' \in [Position -> {"none", "ok", "error", "rejected"}]
    BY <2>5 DEF CallType
  <2>7. completed' = completed \/ completed' = Append(completed, p)
    BY <2>1 DEF Start
  <2>8. completed' \in Seq(Position)
    BY <2>7 DEF CallType
  <2>9. QED BY <2>2, <2>4, <2>6, <2>8 DEF CallType
<1>3. CASE FlushResult
  <2>1. flushed' = flushed + 1 /\ flushed < N /\ UNCHANGED <<started, running, completed>>
    BY <1>3 DEF FlushResult
  <2>2. flushed' \in 0..N
    BY <2>1, DispatchAssumption DEF CallType
  <2>3. outcomes' = [outcomes EXCEPT ![flushed + 1] = "none"]
    BY <1>3 DEF FlushResult
  <2>4. outcomes' \in [Position -> {"none", "ok", "error", "rejected"}]
    BY <2>3 DEF CallType
  <2>5. QED BY <2>1, <2>2, <2>4 DEF CallType
<1>4. CASE FlushSkip
  BY <1>4, DispatchAssumption DEF FlushSkip, CallType
<1>5. CASE PublishOne
  BY <1>5 DEF PublishOne, CallType
<1>6. CASE TickTool
  BY <1>6 DEF TickTool, CallType
<1>7. QED BY <1>1, <1>2, <1>3, <1>4, <1>5, <1>6, CallFrame

LEMMA FlowStep == ASSUME InboxType, FlowType, [Next]_vars PROVE FlowType'
<1>1. CASE HeadReceive \/ HeadIdle
  BY <1>1 DEF HeadReceive, HeadIdle, Receive, FlowType, InterruptKnown
<1>2. CASE PollDone
  BY <1>2 DEF PollDone, FlowType, InboxType
<1>3. CASE DrainTimeout \/ DrainAnswer \/ DrainDone \/ AdmitDone \/ PollOne
  BY <1>3 DEF DrainTimeout, DrainAnswer, DrainDone, AdmitDone, PollOne, FlowType, flow
<1>4. CASE AdmitCall
  BY <1>4 DEF AdmitCall, FlowType
<1>5. CASE FlushResult \/ FlushSkip \/ FlushDone \/ PublishOne
  BY <1>5 DEF FlushResult, FlushSkip, FlushDone, PublishOne, FlowType, flow
<1>6. CASE Leave \/ Again \/ TickTool \/ RecordInterrupt \/ RecordFinished \/ AppendFails
  BY <1>6 DEF Leave, Again, TickTool, RecordInterrupt, RecordFinished, AppendFails, FlowType, flow
<1>7. CASE Park
  BY <1>7 DEF Park, FlowType, WantsReceive, Pending
<1>8. CASE TickCommand
  BY <1>8 DEF TickCommand, Receive, FlowType
<1>9. CASE (\E c \in Commands : Send(c)) \/ Close \/ Expire \/ UNCHANGED vars
  BY <1>9 DEF Send, Close, Expire, vars, FlowType, flow
<1>10. QED
  BY <1>1, <1>2, <1>3, <1>4, <1>5, <1>6, <1>7, <1>8, <1>9 DEF Next, LoopStep, Returned

(* Every variable of the dispatch loop keeps its type, running calls were  *)
(* started, and the flush cursor never leaves the batch.                   *)
THEOREM TypeCorrect == Spec => []TypeOK
<1>1. Init => TypeOK
  BY InitType
<1>2. TypeOK /\ [Next]_vars => TypeOK'
  BY ClientStep, InboxStep, GateStep, CallStep, FlowStep DEF TypeOK
<1>3. QED BY <1>1, <1>2, PTL DEF Spec

---------------------------------------------------------------------------
(* One invocation at a time.                                               *)

LEMMA SerialStep ==
  ASSUME SerialNeverOverlaps, [Next]_vars PROVE SerialNeverOverlaps'
<1>1. CASE AllSafe
  BY <1>1 DEF SerialNeverOverlaps, AllSafe
<1>2. CASE ~AllSafe
  <2>1. \A p, q \in running : p = q
    BY <1>2 DEF SerialNeverOverlaps
  <2>2. running' \subseteq running \/ \E p : running' \subseteq {p}
    <3>1. CASE UNCHANGED callVars
      BY <3>1 DEF callVars
    <3>2. CASE AdmitCall
      <4>1. running = {}
        BY <1>2, <3>2 DEF AdmitCall, CanAdmit
      <4>2. PICK p : Start(p)
        BY <3>2 DEF AdmitCall
      <4>3. running' \subseteq running \cup {p}
        BY <4>2 DEF Start
      <4>4. QED BY <4>1, <4>3
    <3>3. CASE FlushResult \/ FlushSkip \/ PublishOne
      BY <3>3 DEF FlushResult, FlushSkip, PublishOne
    <3>4. CASE TickTool
      BY <3>4 DEF TickTool
    <3>5. QED BY <3>1, <3>2, <3>3, <3>4, CallFrame
  <2>3. QED BY <2>1, <2>2 DEF SerialNeverOverlaps
<1>3. QED BY <1>1, <1>2

(* A batch with a call not declared parallel-safe never has two tool       *)
(* invocations in flight.                                                  *)
THEOREM SerialExclusion == Spec => []SerialNeverOverlaps
<1>1. Init => SerialNeverOverlaps
  BY DEF Init, SerialNeverOverlaps
<1>2. SerialNeverOverlaps /\ UNCHANGED vars => SerialNeverOverlaps'
  BY SerialStep
<1>3. QED BY <1>1, <1>2, SerialStep, PTL DEF Spec

---------------------------------------------------------------------------
(* An interrupt known at the loop head.                                    *)

UnseenInterrupt ==
  \E i \in DOMAIN channel : channel[i].kind = "interrupt" /\ channel[i].id \notin seen

InterruptReachable ==
  \/ interrupt # NoCommand
  \/ pendingInterrupt # NoCommand
  \/ ~waiting /\ UnseenInterrupt

\* While polling, an interrupt the head knew of is still within the poll's
\* reach; after the poll only an iteration without one goes on to admit.
OverdueInv ==
  /\ overdue /\ pc = "poll" => InterruptReachable
  /\ QueuedInterruptStopsStarts

\* Noting the channel's head keeps an interrupt in reach.
LEMMA NoteKeepsInterrupt ==
  ASSUME ClientType, Queued, Note(Head(channel)), channel' = Tail(channel),
         UnseenInterrupt \/ pendingInterrupt # NoCommand
  PROVE  UnseenInterrupt' \/ pendingInterrupt' # NoCommand
<1> DEFINE c == Head(channel)
<1>1. c \in Commands /\ c = channel[1]
  BY DEF ClientType, Queued
<1>2. c # NoCommand /\ WellFormed(c)
  BY <1>1, DispatchAssumption DEF WellFormed, NoCommand
<1>3. CASE pendingInterrupt # NoCommand
  BY <1>3 DEF Note, inboxVars
<1>4. ASSUME NEW i \in DOMAIN channel, channel[i].kind = "interrupt", channel[i].id \notin seen,
             pendingInterrupt = NoCommand
      PROVE  UnseenInterrupt' \/ pendingInterrupt' # NoCommand
  <2>1. channel[i] \in Commands
    BY <1>4 DEF ClientType
  <2>2. CASE channel[i].id = c.id
    <3>1. c.kind = "interrupt" /\ ~Retried(c)
      BY <1>1, <1>4, <2>1, <2>2, DispatchAssumption DEF Retried
    <3>2. pendingInterrupt' = c
      BY <1>4, <3>1 DEF Note
    <3>3. QED BY <1>2, <3>2
  <2>3. CASE channel[i].id # c.id
    <3>1. i # 1 /\ i \in 1..Len(channel)
      BY <1>1, <2>3 DEF ClientType
    <3>2. i - 1 \in DOMAIN channel' /\ channel'[i - 1] = channel[i]
      BY <3>1 DEF ClientType, Queued
    <3>3. channel[i].id \notin seen'
      BY <1>4, <2>3 DEF Note, inboxVars
    <3>4. QED BY <1>4, <3>2, <3>3 DEF UnseenInterrupt
  <2>4. QED BY <2>2, <2>3
<1>5. QED BY <1>3, <1>4 DEF UnseenInterrupt


LEMMA OverdueStep ==
  ASSUME ClientType, OverdueInv, [Next]_vars PROVE OverdueInv'
<1>1. CASE HeadReceive
  <2>1. pc' = "poll" /\ overdue' = InterruptKnown /\ interrupt' = interrupt /\ waiting' = FALSE
    BY <1>1 DEF HeadReceive, Receive
  <2>2. CASE CommandFirst /\ Note(Head(channel)) /\ channel' = Tail(channel)
    <3>1. InterruptKnown => UnseenInterrupt' \/ pendingInterrupt' # NoCommand
      BY <2>2, NoteKeepsInterrupt DEF CommandFirst, InterruptKnown, UnseenInterrupt
    <3>2. QED
      BY <2>1, <3>1 DEF OverdueInv, InterruptReachable, QueuedInterruptStopsStarts
  <2>3. CASE ~CommandFirst /\ UNCHANGED <<channel, inboxVars>>
    BY <2>1, <2>3 DEF OverdueInv, InterruptReachable, QueuedInterruptStopsStarts,
                      InterruptKnown, UnseenInterrupt, inboxVars
  <2>4. QED BY <1>1, <2>2, <2>3 DEF HeadReceive, Receive
<1>2. CASE HeadIdle
  <2>1. /\ pc' = "poll" /\ overdue' = InterruptKnown
        /\ UNCHANGED <<interrupt, waiting, channel, seen, pendingInterrupt>>
    BY <1>2 DEF HeadIdle, intake, clientVars, inboxVars
  <2>2. ~waiting \/ channel = <<>>
    BY <1>2 DEF HeadIdle, NothingReceived, Queued
  <2>3. QED
    BY <2>1, <2>2 DEF OverdueInv, InterruptReachable, QueuedInterruptStopsStarts,
                      InterruptKnown, UnseenInterrupt
<1>3. CASE PollOne
  <2>1. UNCHANGED <<pc, interrupt, waiting, overdue>> /\ ~waiting /\ pc = "poll"
    BY <1>3 DEF PollOne, flow
  <2>2. UnseenInterrupt \/ pendingInterrupt # NoCommand
          => UnseenInterrupt' \/ pendingInterrupt' # NoCommand
    BY <1>3, NoteKeepsInterrupt DEF PollOne
  <2>3. QED
    BY <2>1, <2>2 DEF OverdueInv, InterruptReachable, QueuedInterruptStopsStarts
<1>4. CASE PollDone
  <2>1. waiting \/ ~UnseenInterrupt
    BY <1>4 DEF PollDone, Queued, UnseenInterrupt
  <2>2. overdue => interrupt' # NoCommand
    BY <1>4, <2>1 DEF PollDone, OverdueInv, InterruptReachable
  <2>3. QED
    BY <1>4, <2>2 DEF PollDone, OverdueInv, QueuedInterruptStopsStarts
<1>5. CASE \E c \in Commands : Send(c)
  <2>1. PICK c \in Commands : channel' = Append(channel, c)
    BY <1>5 DEF Send
  <2>2. UNCHANGED <<pc, interrupt, waiting, overdue, seen, pendingInterrupt>>
    BY <1>5 DEF Send, flow, inboxVars
  <2>3. UnseenInterrupt => UnseenInterrupt'
    BY <2>1, <2>2 DEF ClientType, UnseenInterrupt
  <2>4. QED
    BY <2>2, <2>3 DEF OverdueInv, InterruptReachable, QueuedInterruptStopsStarts
<1>6. CASE Close \/ Expire \/ UNCHANGED vars
  BY <1>6 DEF Close, Expire, vars, intake, clientVars, inboxVars, flow, OverdueInv,
              InterruptReachable, QueuedInterruptStopsStarts, UnseenInterrupt
<1>7. CASE DrainTimeout \/ DrainAnswer \/ DrainDone \/ AdmitCall \/ AdmitDone
  BY <1>7 DEF DrainTimeout, DrainAnswer, DrainDone, AdmitCall, AdmitDone, flow,
              OverdueInv, QueuedInterruptStopsStarts
<1>8. CASE \/ FlushResult \/ FlushSkip \/ FlushDone \/ PublishOne \/ Leave \/ Again \/ Park
           \/ TickTool \/ TickCommand \/ RecordInterrupt \/ RecordFinished \/ AppendFails
  BY <1>8 DEF FlushResult, FlushSkip, FlushDone, PublishOne, Leave, Again, Park, TickTool,
              TickCommand, RecordInterrupt, RecordFinished, AppendFails, flow,
              OverdueInv, QueuedInterruptStopsStarts
<1>9. QED
  BY <1>1, <1>2, <1>3, <1>4, <1>5, <1>6, <1>7, <1>8 DEF Next, LoopStep, Returned

(* An interrupt known when an iteration begins keeps that iteration from   *)
(* draining answers and starting calls, for every batch and every schedule *)
(* of the clients.                                                         *)
THEOREM QueuedInterruptWins == Spec => []QueuedInterruptStopsStarts
<1>1. Init => OverdueInv
  BY DEF Init, OverdueInv, QueuedInterruptStopsStarts
<1>2. TypeOK /\ OverdueInv /\ [Next]_vars => OverdueInv'
  BY OverdueStep DEF TypeOK
<1>3. OverdueInv => QueuedInterruptStopsStarts
  BY DEF OverdueInv
<1>4. QED BY <1>1, <1>2, <1>3, TypeCorrect, PTL DEF Spec

---------------------------------------------------------------------------
(* The log.                                                                *)

\* Everything a recorded resolve may carry.
Replies ==
  ResolveCommands \cup
  [kind : {"batch"}, id : SyntheticIds, req : {Request},
   decisions : [1..Cardinality(Gated) -> Decided]]

Outcomes == {"ok", "error", "rejected"}

Event ==
  {ResolveEvent(c) : c \in Replies} \cup {CallEvent(p) : p \in Position}
  \cup {ResultEvent(p, o) : p \in Position, o \in Outcomes}
  \cup {InterruptEvent(c) : c \in Commands \cup {NoCommand}} \cup {FinishedEvent}

IsSpan(e) == e.type \in {"call", "result"}

---------------------------------------------------------------------------
(* Steps as the log sees them.                                             *)

\* The events that are not calls or results.
Annotates ==
  \/ log' = log
  \/ \E e \in Event : ~IsSpan(e) /\ log' = Append(log, e)

LEMMA GatedFinite == IsFiniteSet(Gated) /\ Cardinality(Gated) \in Nat
<1>1. IsFiniteSet(Position)
  BY DispatchAssumption, FS_Interval DEF Position
<1>2. QED BY <1>1, DispatchAssumption, FS_Subset, FS_CardinalityType

LEMMA SettlesEvent ==
  ASSUME NEW c, Settles(c) PROVE c \in Replies /\ ResolveEvent(c) \in Event
<1>1. CASE c \in ResolveCommands
  BY <1>1 DEF Replies, Event
<1>2. CASE \E id \in SyntheticIds : c = Denial(id)
  <2>1. PICK id \in SyntheticIds : c = Denial(id)
    BY <1>2
  <2>2. c.decisions \in [1..Cardinality(Gated) -> Decided]
    BY <2>1 DEF Denial, Decided
  <2>3. c = [kind |-> "batch", id |-> id, req |-> Request, decisions |-> c.decisions]
    BY <2>1 DEF Denial
  <2>4. QED BY <2>2, <2>3 DEF Replies, Event
<1>3. QED BY <1>1, <1>2 DEF Settles

\* Appending leaves the earlier entries where they are.
LEMMA Appended ==
  ASSUME NEW s \in Seq(Event), NEW e \in Event
  PROVE  /\ Append(s, e) \in Seq(Event)
         /\ Len(Append(s, e)) = Len(s) + 1
         /\ DOMAIN Append(s, e) = DOMAIN s \cup {Len(s) + 1}
         /\ Append(s, e)[Len(s) + 1] = e
         /\ \A i \in DOMAIN s : Append(s, e)[i] = s[i]
  OBVIOUS

\* Only AdmitCall and FlushResult record spans; the other steps that move the
\* call bookkeeping record nothing.
LEMMA SpanFrame ==
  ASSUME InboxType, FlowType, [Next]_vars
  PROVE  \/ UNCHANGED <<started, running, outcomes, flushed>> /\ Annotates
         \/ AdmitCall \/ FlushResult
         \/ FlushSkip /\ log' = log
         \/ TickTool /\ log' = log
<1>1. CASE UNCHANGED callVars
  <2>1. CASE UNCHANGED <<log, decisions>>
    BY <1>1, <2>1 DEF callVars, Annotates
  <2>2. ASSUME NEW c, Settles(c) PROVE Annotates
    BY <2>2, SettlesEvent DEF Settles, Annotates, IsSpan, ResolveEvent
  <2>3. ASSUME RecordInterrupt PROVE Annotates
    <3>1. InterruptEvent(interrupt) \in Event /\ ~IsSpan(InterruptEvent(interrupt))
      BY DEF FlowType, Event, IsSpan, InterruptEvent
    <3>2. QED BY <2>3, <3>1 DEF RecordInterrupt, Annotates
  <2>4. ASSUME RecordFinished PROVE Annotates
    <3>1. FinishedEvent \in Event /\ ~IsSpan(FinishedEvent)
      BY DEF Event, IsSpan, FinishedEvent
    <3>2. QED BY <2>4, <3>1 DEF RecordFinished, Annotates
  <2>5. QED BY <1>1, <2>1, <2>2, <2>3, <2>4, LogFrame DEF callVars
<1>2. CASE FlushSkip \/ PublishOne \/ TickTool
  BY <1>2 DEF FlushSkip, PublishOne, TickTool, Annotates
<1>3. QED BY <1>1, <1>2, CallFrame

---------------------------------------------------------------------------
(* The books: log and call bookkeeping describe the same batch.            *)

Called(p) == \E i \in DOMAIN log : log[i] = CallEvent(p)

\* A started call is in the log; behind the cursor it has its result, ahead
\* of the cursor it is in flight or its outcome is held back.
Books ==
  /\ log \in Seq(Event)
  /\ \A p \in Position : p \in started <=> Called(p)
  /\ \A p \in Position : HasResult(p) <=> p \in started /\ p <= flushed
  /\ \A p \in Position : p \in running \/ outcomes[p] # "none" <=> p \in started /\ p > flushed
  /\ \A p \in running : outcomes[p] = "none"

\* What an appended event adds to Called and HasResult.
LEMMA SpanAppended ==
  ASSUME log \in Seq(Event), NEW e \in Event, log' = Append(log, e), NEW p
  PROVE  /\ Called(p)' <=> Called(p) \/ e = CallEvent(p)
         /\ HasResult(p)' <=> HasResult(p) \/ (e.type = "result" /\ e.pos = p)
<1>1. /\ DOMAIN log' = DOMAIN log \cup {Len(log) + 1}
      /\ log'[Len(log) + 1] = e
      /\ \A i \in DOMAIN log : log'[i] = log[i]
  BY Appended
<1>2. QED BY <1>1 DEF Called, HasResult

LEMMA AnnotatesSpans ==
  ASSUME log \in Seq(Event), Annotates
  PROVE  log' \in Seq(Event) /\ \A p : (Called(p)' <=> Called(p)) /\ (HasResult(p)' <=> HasResult(p))
<1>1. CASE log' = log
  BY <1>1 DEF Called, HasResult
<1>2. ASSUME NEW e \in Event, ~IsSpan(e), log' = Append(log, e)
      PROVE  \A p : (Called(p)' <=> Called(p)) /\ (HasResult(p)' <=> HasResult(p))
  BY <1>2, SpanAppended DEF IsSpan, CallEvent
<1>3. QED BY <1>1, <1>2, Appended DEF Annotates

LEMMA BooksInit == Init => Books
  BY DispatchAssumption DEF Init, Books, Called, HasResult, Position

LEMMA BooksAdmit == ASSUME CallType, Books, AdmitCall PROVE Books'
<1>1. PICK p \in Ready : Start(p)
  BY DEF AdmitCall
<1>2. p \in Position /\ p > flushed /\ p \notin started /\ flushed' = flushed
  BY <1>1 DEF Ready, AdmitCall
<1>3. CallEvent(p) \in Event /\ log' = Append(log, CallEvent(p)) /\ started' = started \cup {p}
  BY <1>1, <1>2 DEF Event, Start
<1>4. log' \in Seq(Event)
  BY <1>3, Appended DEF Books
<1>5. \A q \in Position : q \in started' <=> Called(q)'
  <2> TAKE q \in Position
  <2>1. Called(q)' <=> Called(q) \/ CallEvent(p) = CallEvent(q)
    BY <1>3, SpanAppended DEF Books
  <2>2. CallEvent(p) = CallEvent(q) <=> p = q
    BY DEF CallEvent
  <2>3. QED BY <1>3, <2>1, <2>2 DEF Books
<1>6. \A q \in Position : HasResult(q)' <=> q \in started' /\ q <= flushed'
  <2> TAKE q \in Position
  <2>1. HasResult(q)' <=> HasResult(q)
    BY <1>3, SpanAppended DEF Books, CallEvent
  <2>2. q = p => ~(q <= flushed)
    BY <1>2 DEF Position, CallType
  <2>3. QED BY <1>2, <1>3, <2>1, <2>2 DEF Books
<1>7. p \notin running /\ outcomes[p] = "none"
  BY <1>2 DEF Books
<1>8. /\ \A q \in Position \ {p} : (q \in running' <=> q \in running) /\ outcomes'[q] = outcomes[q]
      /\ p \in running' \/ outcomes'[p] # "none"
      /\ p \in running' => outcomes'[p] = "none"
      /\ running' \subseteq Position
  BY <1>1, <1>2, <1>7 DEF Start, CallType
<1>9. \A q \in Position : q \in running' \/ outcomes'[q] # "none" <=> q \in started' /\ q > flushed'
  BY <1>2, <1>3, <1>8 DEF Books
<1>10. \A q \in running' : outcomes'[q] = "none"
  BY <1>8 DEF Books
<1>11. QED BY <1>4, <1>5, <1>6, <1>9, <1>10 DEF Books

LEMMA BooksFlush == ASSUME CallType, Books, FlushResult PROVE Books'
<1> DEFINE p == flushed + 1
<1>1. /\ p \in Position /\ outcomes[p] # "none" /\ flushed' = p
      /\ UNCHANGED <<started, running>>
  BY DispatchAssumption DEF FlushResult, CallType, Position
<1>2. outcomes[p] \in Outcomes
  BY <1>1 DEF CallType, Outcomes
<1>3. ResultEvent(p, outcomes[p]) \in Event /\ log' = Append(log, ResultEvent(p, outcomes[p]))
  BY <1>1, <1>2 DEF Event, FlushResult
<1>4. log' \in Seq(Event)
  BY <1>3, Appended DEF Books
<1>5. \A q \in Position : Called(q)' <=> Called(q)
  BY <1>3, SpanAppended DEF Books, ResultEvent, CallEvent
<1>6. \A q \in Position : HasResult(q)' <=> HasResult(q) \/ q = p
  BY <1>3, SpanAppended DEF Books, ResultEvent
<1>7. p \in started /\ p \notin running
  BY <1>1 DEF Books
<1>8. \A q \in Position : q <= flushed' <=> q <= flushed \/ q = p
  BY <1>1 DEF Position, CallType
<1>9. \A q \in Position : HasResult(q)' <=> q \in started' /\ q <= flushed'
  BY <1>1, <1>6, <1>7, <1>8 DEF Books
<1>10. \A q \in Position : outcomes'[q] = IF q = p THEN "none" ELSE outcomes[q]
  BY <1>1 DEF FlushResult, CallType
<1>11. \A q \in Position : q > flushed' <=> q > flushed /\ q # p
  BY <1>1 DEF Position, CallType
<1>12. \A q \in Position : q \in running' \/ outcomes'[q] # "none" <=> q \in started' /\ q > flushed'
  BY <1>1, <1>7, <1>10, <1>11 DEF Books
<1>13. \A q \in running' : outcomes'[q] = "none"
  BY <1>1, <1>10 DEF Books, CallType
<1>14. QED BY <1>1, <1>4, <1>5, <1>9, <1>12, <1>13 DEF Books

LEMMA BooksStep ==
  ASSUME InboxType, CallType, FlowType, Books, [Next]_vars PROVE Books'
<1>1. CASE UNCHANGED <<started, running, outcomes, flushed>> /\ Annotates
  BY <1>1, AnnotatesSpans DEF Books
<1>2. CASE FlushSkip /\ log' = log
  <2>1. /\ flushed' = flushed + 1 /\ flushed + 1 \notin started
        /\ UNCHANGED <<started, running, outcomes, log>>
    BY <1>2 DEF FlushSkip, MaySkip
  <2>2. \A q \in Position : (Called(q)' <=> Called(q)) /\ (HasResult(q)' <=> HasResult(q))
    BY <2>1 DEF Called, HasResult
  <2>3. \A q \in started : (q <= flushed' <=> q <= flushed) /\ (q > flushed' <=> q > flushed)
    BY <2>1 DEF Position, CallType
  <2>4. \A q \in Position : HasResult(q)' <=> q \in started' /\ q <= flushed'
    BY <2>1, <2>2, <2>3 DEF Books
  <2>5. \A q \in Position :
          q \in running' \/ outcomes'[q] # "none" <=> q \in started' /\ q > flushed'
    BY <2>1, <2>3 DEF Books
  <2>6. QED BY <2>1, <2>2, <2>4, <2>5 DEF Books
<1>3. CASE TickTool /\ log' = log
  <2>1. PICK p \in running, o \in {"ok", "error"} :
          /\ running' = running \ {p}
          /\ outcomes' = [outcomes EXCEPT ![p] = o]
    BY <1>3 DEF TickTool
  <2>2. UNCHANGED <<started, flushed, log>> /\ p \in Position
    BY <1>3, <2>1 DEF TickTool, CallType
  <2>3. \A q \in Position : (Called(q)' <=> Called(q)) /\ (HasResult(q)' <=> HasResult(q))
    BY <2>2 DEF Called, HasResult
  <2>4. \A q \in Position : outcomes'[q] = IF q = p THEN o ELSE outcomes[q]
    BY <2>1, <2>2 DEF CallType
  <2>5. p \in started /\ p > flushed
    BY <2>1, <2>2 DEF Books
  <2>6. \A q \in Position :
          q \in running' \/ outcomes'[q] # "none" <=> q \in started' /\ q > flushed'
    BY <2>1, <2>2, <2>4, <2>5 DEF Books
  <2>7. \A q \in running' : outcomes'[q] = "none"
    BY <2>1, <2>4 DEF Books, CallType
  <2>8. log' \in Seq(Event) /\ (\A q \in Position : q \in started' <=> Called(q)')
    BY <2>2, <2>3 DEF Books
  <2>9. \A q \in Position : HasResult(q)' <=> q \in started' /\ q <= flushed'
    BY <2>2, <2>3 DEF Books
  <2>10. QED BY <2>6, <2>7, <2>8, <2>9 DEF Books
<1>4. QED BY <1>1, <1>2, <1>3, BooksAdmit, BooksFlush, SpanFrame


(* The log and the loop's bookkeeping never disagree.                      *)
THEOREM BooksAgree == Spec => []Books
<1>1. TypeOK /\ Books /\ [Next]_vars => Books'
  BY BooksStep DEF TypeOK
<1>2. QED BY <1>1, BooksInit, TypeCorrect, PTL DEF Spec

---------------------------------------------------------------------------
(* Results in call order.                                                  *)

LEMMA OrderStep ==
  ASSUME InboxType, CallType, FlowType, Books, ResultsInCallOrder, [Next]_vars
  PROVE  ResultsInCallOrder'
<1>1. CASE log' = log
  BY <1>1 DEF ResultsInCallOrder
<1>2. ASSUME NEW e \in Event, e.type # "result", log' = Append(log, e)
      PROVE  ResultsInCallOrder'
  <2>1. /\ DOMAIN log' = DOMAIN log \cup {Len(log) + 1}
        /\ log'[Len(log) + 1] = e
        /\ \A i \in DOMAIN log : log'[i] = log[i]
    BY <1>2, Appended DEF Books
  <2>2. \A i \in DOMAIN log : 1..(i - 1) \subseteq DOMAIN log
    BY DEF Books
  <2>3. QED BY <1>2, <2>1, <2>2 DEF ResultsInCallOrder
<1>3. CASE FlushResult
  <2> DEFINE p == flushed + 1
             e == ResultEvent(p, outcomes[p])
  <2>1. log' = Append(log, e) /\ p \in Position /\ outcomes[p] # "none"
    BY <1>3, DispatchAssumption DEF FlushResult, CallType, Position
  <2>2. e \in Event
    BY <2>1 DEF CallType, Event, Outcomes
  <2>3. /\ DOMAIN log' = DOMAIN log \cup {Len(log) + 1}
        /\ log'[Len(log) + 1] = e
        /\ \A i \in DOMAIN log : log'[i] = log[i]
    BY <2>1, <2>2, Appended DEF Books
  <2>4. \A i \in DOMAIN log : 1..(i - 1) \subseteq DOMAIN log
    BY DEF Books
  <2>5. 1..(Len(log) + 1 - 1) = DOMAIN log
    BY DEF Books
  <2>6. \E j \in DOMAIN log : log[j] = CallEvent(p)
    BY <2>1 DEF Books, Called
  <2>7. \A j \in DOMAIN log : log[j].type = "result" => log[j].pos < p
    <3> SUFFICES ASSUME NEW j \in DOMAIN log, log[j].type = "result" PROVE log[j].pos < p
      OBVIOUS
    <3>1. log[j] \in Event
      BY DEF Books
    <3>2. log[j].pos \in Position
      BY <3>1 DEF Event, ResolveEvent, CallEvent, ResultEvent, InterruptEvent, FinishedEvent
    <3>3. HasResult(log[j].pos)
      BY DEF HasResult
    <3>4. QED BY <3>2, <3>3 DEF Books, Position, CallType
  <2>8. e.type = "result" /\ e.pos = p
    BY DEF ResultEvent
  <2>9. ASSUME NEW i \in DOMAIN log', log'[i].type = "result"
        PROVE  /\ \E j \in 1..(i - 1) : log'[j] = CallEvent(log'[i].pos)
               /\ \A j \in 1..(i - 1) : log'[j].type = "result" => log'[j].pos < log'[i].pos
    <3>1. CASE i \in DOMAIN log
      BY <2>3, <2>4, <2>9, <3>1 DEF ResultsInCallOrder
    <3>2. CASE i = Len(log) + 1
      BY <2>3, <2>5, <2>6, <2>7, <2>8, <3>2
    <3>3. QED BY <2>3, <3>1, <3>2
  <2>10. QED BY <2>9 DEF ResultsInCallOrder
<1>4. CASE AdmitCall
  <2>1. PICK p \in Position : log' = Append(log, CallEvent(p))
    BY <1>4 DEF AdmitCall, Start, Ready
  <2>2. CallEvent(p) \in Event /\ CallEvent(p).type # "result"
    BY DEF Event, CallEvent
  <2>3. QED BY <1>2, <2>1, <2>2
<1>5. QED BY <1>1, <1>2, <1>3, <1>4, SpanFrame DEF Annotates, IsSpan

(* Whatever order the calls finish in, their results reach the log in call *)
(* order, each after its own tool_call event.                              *)
THEOREM ResultsOrdered == Spec => []ResultsInCallOrder
<1>1. Init => ResultsInCallOrder
  BY DEF Init, ResultsInCallOrder
<1>2. TypeOK /\ Books /\ ResultsInCallOrder /\ [Next]_vars => ResultsInCallOrder'
  BY OrderStep DEF TypeOK
<1>3. QED BY <1>1, <1>2, TypeCorrect, BooksAgree, PTL DEF Spec

---------------------------------------------------------------------------
(* Decisions are the log's.                                                *)

LEMMA RepliesDecide ==
  ASSUME NEW c \in Replies, NEW p \in Gated PROVE DecisionOf(c, p) \in Decided
<1>1. CASE c \in ResolveCommands
  BY <1>1, DecisionType
<1>2. CASE c \notin ResolveCommands
  <2>1. c.kind = "batch" /\ c.decisions \in [1..Cardinality(Gated) -> Decided]
    BY <1>2 DEF Replies
  <2>2. QED BY <2>1 DEF DecisionOf, Decided
<1>3. QED BY <1>1, <1>2

\* What the loop's own records append, when they are not resolves.
LEMMA SpanEvents ==
  ASSUME CallType, FlowType, AdmitCall \/ FlushResult \/ RecordInterrupt \/ RecordFinished
  PROVE  /\ \E e \in Event : log' = Append(log, e) /\ e.type # "resolve"
         /\ decisions' = decisions
<1>1. CASE AdmitCall
  <2>1. PICK p \in Position : log' = Append(log, CallEvent(p))
    BY <1>1 DEF AdmitCall, Start, Ready
  <2>2. CallEvent(p) \in Event /\ CallEvent(p).type # "resolve"
    BY DEF Event, CallEvent
  <2>3. QED BY <1>1, <2>1, <2>2 DEF AdmitCall, intake
<1>2. CASE FlushResult
  <2> DEFINE e == ResultEvent(flushed + 1, outcomes[flushed + 1])
  <2>1. flushed + 1 \in Position /\ outcomes[flushed + 1] # "none"
    BY <1>2, DispatchAssumption DEF FlushResult, CallType, Position
  <2>2. e \in Event /\ e.type # "resolve"
    BY <2>1 DEF CallType, Event, Outcomes, ResultEvent
  <2>3. QED BY <1>2, <2>2 DEF FlushResult, intake
<1>3. CASE RecordInterrupt
  <2>1. InterruptEvent(interrupt) \in Event /\ InterruptEvent(interrupt).type # "resolve"
    BY DEF FlowType, Event, InterruptEvent
  <2>2. QED BY <1>3, <2>1 DEF RecordInterrupt, intake
<1>4. CASE RecordFinished
  <2>1. FinishedEvent \in Event /\ FinishedEvent.type # "resolve"
    BY DEF Event, FinishedEvent
  <2>2. QED BY <1>4, <2>1 DEF RecordFinished, intake
<1>5. QED BY <1>1, <1>2, <1>3, <1>4

\* A recorded resolve fills exactly the slots it is the first to address.
LEMMA DecisionsStep ==
  ASSUME InboxType, CallType, FlowType, Books, DecisionsFollowLog, [Next]_vars
  PROVE  DecisionsFollowLog'
<1>1. CASE UNCHANGED <<log, decisions>>
  BY <1>1 DEF DecisionsFollowLog, FirstResolve, Resolves
<1>2. ASSUME NEW e \in Event, log' = Append(log, e), e.type # "resolve", decisions' = decisions
      PROVE  DecisionsFollowLog'
  <2>1. /\ DOMAIN log' = DOMAIN log \cup {Len(log) + 1}
        /\ log'[Len(log) + 1] = e
        /\ \A i \in DOMAIN log : log'[i] = log[i]
    BY <1>2, Appended DEF Books
  <2>2. \A i \in DOMAIN log : 1..(i - 1) \subseteq DOMAIN log
    BY DEF Books
  <2>3. \A i \in DOMAIN log, p \in Gated : FirstResolve(i, p) => FirstResolve(i, p)'
    BY <2>1, <2>2 DEF FirstResolve, Resolves
  <2>4. \A p \in Gated : (\A i \in DOMAIN log : ~Resolves(i, p)) =>
                         (\A i \in DOMAIN log' : ~Resolves(i, p)')
    BY <1>2, <2>1 DEF Resolves
  <2>5. \A i \in DOMAIN log : log'[i].cmd = log[i].cmd
    BY <2>1
  <2>6. \A i, p : FirstResolve(i, p) => i \in DOMAIN log
    BY DEF FirstResolve
  <2>7. QED BY <1>2, <2>1, <2>3, <2>4, <2>5, <2>6 DEF DecisionsFollowLog
<1>3. ASSUME NEW c, Settles(c) PROVE DecisionsFollowLog'
  <2>0. PICK n : n = Len(log) + 1
    OBVIOUS
  <2>1. ResolveEvent(c) \in Event /\ log' = Append(log, ResolveEvent(c))
    BY <1>3, SettlesEvent DEF Settles
  <2>2. /\ DOMAIN log' = DOMAIN log \cup {n}
        /\ log'[n] = ResolveEvent(c)
        /\ \A i \in DOMAIN log : log'[i] = log[i]
        /\ DOMAIN log = 1..(n - 1)
    BY <2>0, <2>1, Appended DEF Books
  <2>3. \A i \in DOMAIN log : 1..(i - 1) \subseteq DOMAIN log
    BY DEF Books
  <2>4. \A i \in DOMAIN log, p \in Gated : Resolves(i, p)' <=> Resolves(i, p)
    BY <2>2 DEF Resolves
  <2>5. \A p \in Gated : Resolves(n, p)' <=> Answers(c, p)
    BY <2>2 DEF Resolves, ResolveEvent
  <2>6. SUFFICES ASSUME NEW p \in Gated
                 PROVE  \/ /\ decisions'[p] = "undecided"
                           /\ \A i \in DOMAIN log' : ~Resolves(i, p)'
                        \/ \E i \in DOMAIN log' : /\ FirstResolve(i, p)'
                                                 /\ decisions'[p] = DecisionOf(log'[i].cmd, p)
    BY DEF DecisionsFollowLog
  <2>7. decisions'[p] = IF p \in Updates(c) THEN DecisionOf(c, p) ELSE decisions[p]
    BY <1>3, DispatchAssumption DEF Settles
  <2>8. CASE p \in Updates(c)
    <3>1. decisions[p] = "undecided" /\ Answers(c, p)
      BY <2>8 DEF Updates
    <3>2. \A i \in DOMAIN log : ~Resolves(i, p)
      <4>1. ASSUME NEW i \in DOMAIN log, FirstResolve(i, p), decisions[p] = DecisionOf(log[i].cmd, p)
            PROVE  FALSE
        <5>1. log[i] \in Event /\ log[i].type = "resolve"
          BY <4>1 DEF Books, FirstResolve, Resolves
        <5>2. log[i].cmd \in Replies
          BY <5>1 DEF Event, ResolveEvent, CallEvent, ResultEvent, InterruptEvent, FinishedEvent
        <5>3. QED BY <3>1, <4>1, <5>2, RepliesDecide DEF Decided
      <4>2. QED BY <4>1, <3>1 DEF DecisionsFollowLog
    <3>3. FirstResolve(n, p)'
      BY <2>2, <2>4, <2>5, <3>1, <3>2 DEF FirstResolve
    <3>4. log'[n].cmd = c
      BY <2>2 DEF ResolveEvent
    <3>5. QED BY <2>2, <2>7, <2>8, <3>3, <3>4
  <2>9. CASE p \notin Updates(c) /\ decisions[p] = "undecided"
    <3>1. ~Answers(c, p)
      BY <2>9 DEF Updates
    <3>2. \A i \in DOMAIN log : ~Resolves(i, p)
      <4>1. ASSUME NEW i \in DOMAIN log, FirstResolve(i, p), decisions[p] = DecisionOf(log[i].cmd, p)
            PROVE  FALSE
        <5>1. log[i] \in Event /\ log[i].type = "resolve"
          BY <4>1 DEF Books, FirstResolve, Resolves
        <5>2. log[i].cmd \in Replies
          BY <5>1 DEF Event, ResolveEvent, CallEvent, ResultEvent, InterruptEvent, FinishedEvent
        <5>3. QED BY <2>9, <4>1, <5>2, RepliesDecide DEF Decided
      <4>2. QED BY <4>1, <2>9 DEF DecisionsFollowLog
    <3>3. QED BY <2>2, <2>4, <2>5, <2>7, <2>9, <3>1, <3>2
  <2>10. CASE p \notin Updates(c) /\ decisions[p] # "undecided"
    <3>1. PICK i \in DOMAIN log : FirstResolve(i, p) /\ decisions[p] = DecisionOf(log[i].cmd, p)
      BY <2>10 DEF DecisionsFollowLog
    <3>2. FirstResolve(i, p)'
      BY <2>2, <2>3, <2>4, <3>1 DEF FirstResolve
    <3>3. QED BY <2>2, <2>7, <2>10, <3>1, <3>2
  <2>11. QED BY <2>8, <2>9, <2>10
<1>4. CASE AdmitCall \/ FlushResult \/ RecordInterrupt \/ RecordFinished
  BY <1>2, <1>4, SpanEvents
<1>5. QED BY <1>1, <1>3, <1>4, LogFrame

(* The gate's decisions are what a reader of the log recovers: the first   *)
(* recorded resolve addressing a slot decides it.                          *)
THEOREM DecisionsAreLogged == Spec => []DecisionsFollowLog
<1>1. Init => DecisionsFollowLog
  BY DispatchAssumption DEF Init, DecisionsFollowLog, Position
<1>2. TypeOK /\ Books /\ DecisionsFollowLog /\ [Next]_vars => DecisionsFollowLog'
  BY DecisionsStep DEF TypeOK
<1>3. QED BY <1>1, <1>2, TypeCorrect, BooksAgree, PTL DEF Spec

---------------------------------------------------------------------------
(* A mutation runs only on a recorded approval.                            *)

\* Whatever ran was approved, and a recorded resolve precedes each gated call.
Approved ==
  /\ \A p \in Gated : Executed(p) => decisions[p] = "approved"
  /\ \A p \in Gated : p \in started =>
       \E i, j \in DOMAIN log : i < j /\ log[j] = CallEvent(p) /\ FirstResolve(i, p)

\* A decision once made stays.
LEMMA DecisionsStay ==
  ASSUME InboxType, GateType, [Next]_vars, NEW p \in Gated, decisions[p] # "undecided"
  PROVE  decisions'[p] = decisions[p]
<1>1. ASSUME NEW c, Settles(c) PROVE decisions'[p] = decisions[p]
  BY <1>1, DispatchAssumption DEF Settles, Updates
<1>2. CASE AdmitCall \/ FlushResult \/ RecordInterrupt \/ RecordFinished
  BY <1>2 DEF AdmitCall, FlushResult, RecordInterrupt, RecordFinished, intake
<1>3. QED BY <1>1, <1>2, LogFrame

\* The log only grows, so what was recorded first stays first.
LEMMA LogGrows ==
  ASSUME InboxType, CallType, FlowType, Books, [Next]_vars
  PROVE  /\ \A i \in DOMAIN log : i \in DOMAIN log' /\ log'[i] = log[i]
         /\ \A i, p : FirstResolve(i, p) => FirstResolve(i, p)'
<1>1. log' = log \/ \E e \in Event : log' = Append(log, e)
  BY LogFrame, SpanEvents, SettlesEvent DEF Settles
<1>2. \A i \in DOMAIN log : i \in DOMAIN log' /\ log'[i] = log[i]
  BY <1>1, Appended DEF Books
<1>3. \A i \in DOMAIN log : 1..(i - 1) \subseteq DOMAIN log
  BY DEF Books
<1>4. QED BY <1>2, <1>3 DEF FirstResolve, Resolves

\* What newly counts as executed: a call admitted, which then is not rejected.
LEMMA ExecutedStep ==
  ASSUME InboxType, CallType, FlowType, Books, [Next]_vars, NEW p \in Gated, Executed(p)'
  PROVE  Executed(p) \/ (AdmitCall /\ p \in Ready /\ decisions[p] # "rejected")
<1>0. p \in Position
  BY DispatchAssumption
<1>1. CASE UNCHANGED <<started, running, outcomes, flushed>> /\ Annotates
  <2>1. \A o : (\E i \in DOMAIN log' : log'[i] = ResultEvent(p, o)) =>
               (\E i \in DOMAIN log : log[i] = ResultEvent(p, o))
    BY <1>1, Appended DEF Annotates, Books, IsSpan, ResultEvent
  <2>2. QED BY <1>1, <2>1 DEF Executed
<1>2. CASE AdmitCall
  <2>1. PICK q \in Ready : Start(q)
    BY <1>2 DEF AdmitCall
  <2>2. q \in Position /\ log' = Append(log, CallEvent(q)) /\ CallEvent(q) \in Event
    BY <2>1 DEF Ready, Start, Event
  <2>3. \A o : (\E i \in DOMAIN log' : log'[i] = ResultEvent(p, o)) =>
               (\E i \in DOMAIN log : log[i] = ResultEvent(p, o))
    BY <2>2, Appended DEF Books, CallEvent, ResultEvent
  <2>4. \/ p \in running \/ outcomes[p] \in {"ok", "error"}
        \/ p = q /\ decisions[q] # "rejected"
        \/ ~(p \in running' \/ outcomes'[p] \in {"ok", "error"})
    BY <1>0, <2>1 DEF Start, CallType
  <2>5. QED BY <1>2, <2>1, <2>3, <2>4 DEF Executed
<1>3. CASE FlushResult
  <2> DEFINE f == flushed + 1
  <2>1. f \in Position /\ outcomes[f] \in Outcomes
    BY <1>3, DispatchAssumption DEF FlushResult, CallType, Position, Outcomes
  <2>2. /\ log' = Append(log, ResultEvent(f, outcomes[f])) /\ ResultEvent(f, outcomes[f]) \in Event
        /\ running' = running
        /\ outcomes' = [outcomes EXCEPT ![f] = "none"]
    BY <1>3, <2>1 DEF FlushResult, Event
  <2>3. \A o : (\E i \in DOMAIN log' : log'[i] = ResultEvent(p, o)) =>
               \/ \E i \in DOMAIN log : log[i] = ResultEvent(p, o)
               \/ p = f /\ o = outcomes[f]
    BY <2>2, Appended DEF Books, ResultEvent
  <2>4. outcomes'[p] \in {"ok", "error"} => outcomes[p] \in {"ok", "error"}
    BY <1>0, <2>2 DEF CallType
  <2>5. QED BY <2>2, <2>3, <2>4 DEF Executed
<1>4. CASE FlushSkip /\ log' = log
  BY <1>4 DEF FlushSkip, Executed
<1>5. CASE TickTool /\ log' = log
  BY <1>0, <1>5 DEF TickTool, Executed, CallType
<1>6. QED BY <1>1, <1>2, <1>3, <1>4, <1>5, SpanFrame

LEMMA ApprovedStep ==
  ASSUME TypeOK, Books, DecisionsFollowLog, Approved, [Next]_vars PROVE Approved'
<1> USE DEF TypeOK
<1>1. ASSUME NEW p \in Gated, Executed(p)' PROVE decisions'[p] = "approved"
  <2>1. decisions[p] = "approved"
    <3>1. CASE Executed(p)
      BY <3>1 DEF Approved
    <3>2. CASE p \in Ready /\ decisions[p] # "rejected"
      BY <3>2, DispatchAssumption DEF Ready, GateType, Decided
    <3>3. QED BY <1>1, <3>1, <3>2, ExecutedStep
  <2>2. QED BY <2>1, DecisionsStay
<1>2. ASSUME NEW p \in Gated, p \in started'
      PROVE  \E i, j \in DOMAIN log' : i < j /\ log'[j] = CallEvent(p) /\ FirstResolve(i, p)'
  <2>1. CASE p \in started
    <3>1. PICK i \in DOMAIN log, j \in DOMAIN log :
            i < j /\ log[j] = CallEvent(p) /\ FirstResolve(i, p)
      BY <2>1 DEF Approved
    <3>2. QED BY <3>1, LogGrows
  <2>2. CASE p \notin started
    <3>1. AdmitCall /\ Start(p) /\ p \in Ready
      <4>1. AdmitCall
        BY <1>2, <2>2, CallFrame DEF callVars, FlushResult, FlushSkip, PublishOne, TickTool
      <4>2. PICK q \in Ready : Start(q)
        BY <4>1 DEF AdmitCall
      <4>3. p = q
        BY <1>2, <2>2, <4>2 DEF Start
      <4>4. QED BY <4>1, <4>2, <4>3
    <3>2. PICK i \in DOMAIN log : FirstResolve(i, p)
      BY <3>1 DEF Ready, DecisionsFollowLog
    <3>3. log' = Append(log, CallEvent(p)) /\ CallEvent(p) \in Event
      BY <3>1, DispatchAssumption DEF Start, Event
    <3>4. Len(log) + 1 \in DOMAIN log' /\ log'[Len(log) + 1] = CallEvent(p) /\ i < Len(log) + 1
      BY <3>2, <3>3, Appended DEF Books
    <3>5. QED BY <3>2, <3>4, LogGrows
  <2>3. QED BY <2>1, <2>2
<1>3. QED BY <1>1, <1>2 DEF Approved

LEMMA ApprovedSuffices ==
  ASSUME TypeOK, Books, DecisionsFollowLog, Approved PROVE ExecutionWasApproved
<1> SUFFICES ASSUME NEW p \in Gated, Executed(p)
             PROVE  \E i, j \in DOMAIN log : /\ i < j /\ log[j] = CallEvent(p)
                                            /\ FirstResolve(i, p)
                                            /\ Approves(log[i].cmd, p)
  BY DEF ExecutionWasApproved
<1>0. p \in Position
  BY DispatchAssumption
<1>1. decisions[p] = "approved"
  BY DEF Approved
<1>2. p \in started
  <2>1. CASE p \in running \/ outcomes[p] \in {"ok", "error"}
    BY <1>0, <2>1 DEF Books
  <2>2. CASE \E i \in DOMAIN log : log[i] \in {ResultEvent(p, "ok"), ResultEvent(p, "error")}
    <3>1. HasResult(p)
      BY <2>2 DEF HasResult, ResultEvent
    <3>2. QED BY <1>0, <3>1 DEF Books
  <2>3. QED BY <2>1, <2>2 DEF Executed
<1>3. PICK i \in DOMAIN log, j \in DOMAIN log :
        i < j /\ log[j] = CallEvent(p) /\ FirstResolve(i, p)
  BY <1>2 DEF Approved
<1>4. PICK k \in DOMAIN log : FirstResolve(k, p) /\ DecisionOf(log[k].cmd, p) = "approved"
  BY <1>1 DEF DecisionsFollowLog
<1>5. i = k
  <2>1. i \in Nat /\ k \in Nat /\ i >= 1 /\ k >= 1
    BY DEF Books
  <2>2. ~(i < k) /\ ~(k < i)
    BY <1>3, <1>4, <2>1 DEF FirstResolve
  <2>3. QED BY <2>1, <2>2
<1>6. Answers(log[k].cmd, p)
  BY <1>4 DEF FirstResolve, Resolves
<1>7. Approves(log[k].cmd, p)
  BY <1>4, <1>6 DEF Approves, DecisionOf, Answers
<1>8. QED BY <1>3, <1>5, <1>7

(* A mutation runs only on a recorded approval: the log holds the first    *)
(* resolve addressing the call, it says approved, and it precedes the      *)
(* call's own event.                                                       *)
THEOREM ApprovalPrecedesExecution == Spec => []ExecutionWasApproved
<1>1. Init => Approved
  BY DispatchAssumption DEF Init, Approved, Executed, Position
<1>2. TypeOK /\ Books /\ DecisionsFollowLog /\ Approved /\ [Next]_vars => Approved'
  BY ApprovedStep
<1>3. TypeOK /\ Books /\ DecisionsFollowLog /\ Approved => ExecutionWasApproved
  BY ApprovedSuffices
<1>4. QED BY <1>1, <1>2, <1>3, TypeCorrect, BooksAgree, DecisionsAreLogged, PTL DEF Spec

---------------------------------------------------------------------------
(* The loop never parks without a waker.                                   *)

\* The cursor has passed everything it may pass.
FrontSettled == flushed < N => outcomes[flushed + 1] = "none" /\ ~MaySkip

\* An uninterrupted iteration that admitted nothing and has nothing running
\* left only undecided calls behind.
OnlyUndecidedLeft ==
  (interrupt = NoCommand /\ ~admitted /\ running = {}) =>
     \A p \in Position : p > flushed /\ p \notin started => decisions[p] = "undecided"

WakeInv ==
  /\ \A p \in Position : decisions[p] = "undecided" => p \in Gated
  /\ pc = "publish" => FrontSettled
  /\ pc \in {"flush", "publish"} => OnlyUndecidedLeft
  /\ TickCanWake

LEMMA UndecidedGated ==
  ASSUME InboxType, GateType, CallType, FlowType, [Next]_vars, NEW p \in Position,
         decisions[p] = "undecided" => p \in Gated, decisions'[p] = "undecided"
  PROVE  p \in Gated
<1>1. ASSUME NEW c, Settles(c) PROVE decisions[p] = "undecided"
  <2>1. CASE p \in Updates(c)
    BY <2>1 DEF Updates
  <2>2. CASE p \notin Updates(c)
    BY <1>1, <2>2 DEF Settles
  <2>3. QED BY <2>1, <2>2
<1>2. QED BY <1>1, LogFrame, SpanEvents

\* Parking with nothing in flight means the gate is open and a receive parked.
LEMMA ParkWakes ==
  ASSUME CallType, FlowType, Books, WakeInv, Park PROVE TickCanWake'
<1>1. /\ flushed < N /\ ~MoreReady /\ pc = "publish"
      /\ waiting' = WantsReceive /\ UNCHANGED <<running, decisions>>
  BY DEF Park, callVars, intake
<1>2. SUFFICES ASSUME running = {} PROVE WantsReceive
  BY <1>1 DEF TickCanWake, WantsReceive, Pending
<1>3. flushed + 1 \in Position /\ flushed + 1 > flushed
  BY <1>1, DispatchAssumption DEF CallType, Position
<1>4. outcomes[flushed + 1] = "none" /\ ~MaySkip
  BY <1>1 DEF WakeInv, FrontSettled
<1>5. flushed + 1 \notin started
  BY <1>2, <1>3, <1>4 DEF Books
<1>6. interrupt = NoCommand /\ ~admitted
  BY <1>1, <1>2, <1>4, <1>5 DEF MaySkip, MoreReady
<1>7. decisions[flushed + 1] = "undecided"
  BY <1>1, <1>2, <1>3, <1>5, <1>6 DEF WakeInv, OnlyUndecidedLeft
<1>8. QED BY <1>3, <1>6, <1>7 DEF WakeInv, WantsReceive, Pending

LEMMA WakeStep ==
  ASSUME TypeOK, Books, WakeInv, [Next]_vars PROVE WakeInv'
<1> USE DEF TypeOK
<1>0. \A p \in Position : decisions'[p] = "undecided" => p \in Gated
  BY UndecidedGated DEF WakeInv
<1>1. CASE Park
  <2>1. pc' = "tick"
    BY <1>1 DEF Park
  <2>2. QED BY <1>0, <1>1, <2>1, ParkWakes DEF WakeInv
<1>2. CASE FlushDone
  <2>1. /\ UNCHANGED <<flushed, outcomes, started, interrupt, admitted, running, decisions>>
        /\ pc = "flush" /\ pc' = "publish" /\ FrontSettled
    BY <1>2 DEF FlushDone, callVars, flow, intake, FrontSettled
  <2>2. QED
    BY <1>0, <2>1 DEF WakeInv, FrontSettled, MaySkip, OnlyUndecidedLeft, TickCanWake
<1>3. CASE AdmitDone
  <2>1. running = {} => Ready = {}
    BY <1>3 DEF AdmitDone, CanAdmit
  <2>2. /\ UNCHANGED <<flushed, started, interrupt, admitted, running, decisions>>
        /\ pc' = "flush"
    BY <1>3 DEF AdmitDone, callVars, flow, intake
  <2>3. OnlyUndecidedLeft'
    BY <2>1, <2>2 DEF OnlyUndecidedLeft, Ready
  <2>4. QED BY <1>0, <2>2, <2>3 DEF WakeInv, TickCanWake
<1>4. CASE AdmitCall
  BY <1>0, <1>4 DEF AdmitCall, WakeInv, OnlyUndecidedLeft, TickCanWake
<1>5. CASE PollDone
  BY <1>0, <1>5 DEF PollDone, WakeInv, OnlyUndecidedLeft, TickCanWake
<1>6. CASE FlushResult \/ FlushSkip
  <2>1. /\ UNCHANGED <<started, interrupt, admitted, running, decisions, pc>>
        /\ flushed' = flushed + 1 /\ pc = "flush"
    BY <1>6 DEF FlushResult, FlushSkip, flow, intake
  <2>2. \A p \in Position : p > flushed' => p > flushed
    BY <2>1 DEF Position, CallType
  <2>3. OnlyUndecidedLeft'
    BY <2>1, <2>2 DEF OnlyUndecidedLeft, WakeInv
  <2>4. QED BY <1>0, <2>1, <2>3 DEF WakeInv, TickCanWake
<1>7. CASE PublishOne
  <2>1. UNCHANGED <<started, interrupt, admitted, running, decisions, pc, flushed, outcomes,
                    waiting>>
    BY <1>7 DEF PublishOne, flow, intake
  <2>2. QED
    BY <1>0, <2>1 DEF WakeInv, TickCanWake, OnlyUndecidedLeft, FrontSettled, MaySkip, Pending
<1>8. CASE (\E c \in Commands : Send(c)) \/ Close \/ Expire \/ UNCHANGED vars
  <2>1. UNCHANGED <<started, interrupt, admitted, running, decisions, pc, flushed, outcomes,
                    waiting>>
    BY <1>8 DEF Send, Close, Expire, vars, flow, intake, callVars
  <2>2. QED
    BY <1>0, <2>1 DEF WakeInv, TickCanWake, OnlyUndecidedLeft, FrontSettled, MaySkip, Pending
<1>9. CASE \/ HeadReceive \/ HeadIdle \/ PollOne \/ DrainTimeout \/ DrainAnswer \/ DrainDone
           \/ Leave \/ Again \/ TickTool \/ TickCommand \/ RecordInterrupt \/ RecordFinished
           \/ AppendFails
  <2>1. pc' \notin {"flush", "publish", "tick"}
    BY <1>9 DEF HeadReceive, HeadIdle, PollOne, DrainTimeout, DrainAnswer, DrainDone, Leave,
                Again, TickTool, TickCommand, RecordInterrupt, RecordFinished, AppendFails
  <2>2. QED BY <1>0, <2>1 DEF WakeInv, TickCanWake
<1>10. QED
  BY <1>1, <1>2, <1>3, <1>4, <1>5, <1>6, <1>7, <1>8, <1>9 DEF Next, LoopStep, Returned

(* dispatch_tools never awaits with nothing that could wake it: a tool is  *)
(* in flight, or a receive is parked on a gate that is still open.         *)
THEOREM ParkAlwaysWakes == Spec => []TickCanWake
<1>1. Init => WakeInv
  BY DEF Init, WakeInv, TickCanWake
<1>2. TypeOK /\ Books /\ WakeInv /\ [Next]_vars => WakeInv'
  BY WakeStep
<1>3. WakeInv => TickCanWake
  BY DEF WakeInv
<1>4. QED BY <1>1, <1>2, <1>3, TypeCorrect, BooksAgree, PTL DEF Spec

---------------------------------------------------------------------------
(* What a returning batch leaves behind.                                   *)

Closing(s) ==
  /\ Len(s) >= 2
  /\ s[Len(s) - 1] = InterruptEvent(interrupt)
  /\ s[Len(s)] = FinishedEvent

ReturnInv ==
  /\ interrupt = NoCommand => \A p \in Position : p <= flushed => p \in started
  /\ pc \in {"stop", "terminal"} => flushed = N /\ interrupt # NoCommand
  /\ pc = "terminal" => Len(log) >= 1 /\ log[Len(log)] = InterruptEvent(interrupt)
  /\ pc = "done" => flushed = N /\ (interrupt # NoCommand => Closing(log))

LEMMA ReturnStep ==
  ASSUME TypeOK, Books, ReturnInv, [Next]_vars PROVE ReturnInv'
<1> USE DEF TypeOK
<1>1. CASE (\E c \in Commands : Send(c)) \/ Close \/ Expire \/ UNCHANGED vars
  <2>1. UNCHANGED <<interrupt, flushed, started, pc, log>>
    BY <1>1 DEF Send, Close, Expire, vars, flow, callVars
  <2>2. QED BY <2>1 DEF ReturnInv, Closing
<1>2. CASE HeadReceive \/ HeadIdle \/ PollOne \/ DrainTimeout \/ DrainAnswer \/ DrainDone
           \/ AdmitDone \/ FlushDone \/ PublishOne \/ Again \/ Park \/ TickTool \/ TickCommand
           \/ AppendFails
  <2>1. UNCHANGED <<interrupt, flushed, started>> /\ pc' \notin {"stop", "terminal", "done"}
    BY <1>2 DEF HeadReceive, HeadIdle, PollOne, DrainTimeout, DrainAnswer, DrainDone, AdmitDone,
                FlushDone, PublishOne, Again, Park, TickTool, TickCommand, AppendFails,
                callVars, flow
  <2>2. QED BY <2>1 DEF ReturnInv
<1>3. CASE PollDone
  <2>1. /\ UNCHANGED <<flushed, started>> /\ pc' \notin {"stop", "terminal", "done"}
        /\ interrupt' = NoCommand => interrupt = NoCommand
    BY <1>3 DEF PollDone, callVars
  <2>2. QED BY <2>1 DEF ReturnInv
<1>4. CASE AdmitCall
  <2>1. /\ UNCHANGED <<flushed, interrupt>> /\ started \subseteq started'
        /\ pc' \notin {"stop", "terminal", "done"}
    BY <1>4 DEF AdmitCall, Start
  <2>2. QED BY <2>1 DEF ReturnInv
<1>5. CASE FlushResult \/ FlushSkip
  <2>1. /\ UNCHANGED <<started, interrupt, pc>> /\ pc = "flush" /\ flushed' = flushed + 1
        /\ flushed + 1 \in Position
    BY <1>5, DispatchAssumption DEF FlushResult, FlushSkip, flow, CallType, Position
  <2>2. interrupt = NoCommand => flushed + 1 \in started
    BY <1>5, <2>1 DEF FlushResult, FlushSkip, MaySkip, Books
  <2>3. \A p \in Position : p <= flushed' => p <= flushed \/ p = flushed + 1
    BY <2>1 DEF Position, CallType
  <2>4. QED BY <2>1, <2>2, <2>3 DEF ReturnInv
<1>6. CASE Leave
  BY <1>6 DEF Leave, callVars, flow, ReturnInv
<1>7. CASE RecordInterrupt
  <2>1. /\ UNCHANGED <<interrupt, flushed, started>> /\ pc = "stop" /\ pc' = "terminal"
        /\ log' = Append(log, InterruptEvent(interrupt))
    BY <1>7 DEF RecordInterrupt, callVars, flow
  <2>2. InterruptEvent(interrupt) \in Event
    BY DEF Event, FlowType
  <2>3. Len(log') = Len(log) + 1 /\ log'[Len(log')] = InterruptEvent(interrupt') /\ Len(log) \in Nat
    BY <2>1, <2>2, Appended DEF Books
  <2>4. QED BY <2>1, <2>3 DEF ReturnInv
<1>8. CASE RecordFinished
  <2>1. /\ UNCHANGED <<interrupt, flushed, started>> /\ pc = "terminal" /\ pc' = "done"
        /\ log' = Append(log, FinishedEvent)
    BY <1>8 DEF RecordFinished, callVars, flow
  <2>2. FinishedEvent \in Event
    BY DEF Event
  <2>3. /\ Len(log') = Len(log) + 1 /\ log'[Len(log')] = FinishedEvent
        /\ Len(log) \in Nat /\ Len(log) \in DOMAIN log
        /\ log'[Len(log)] = log[Len(log)]
    BY <2>1, <2>2, Appended DEF Books, ReturnInv
  <2>4. Closing(log)'
    BY <2>1, <2>3 DEF ReturnInv, Closing
  <2>5. QED BY <2>1, <2>4 DEF ReturnInv
<1>9. QED
  BY <1>1, <1>2, <1>3, <1>4, <1>5, <1>6, <1>7, <1>8 DEF Next, LoopStep, Returned

(* A batch that returns leaves no call half recorded, and an interrupted   *)
(* one ends with the interrupt and the terminal record.                    *)
THEOREM ReturnsLeaveNothingOpen == Spec => []ReturnsSettled
<1>1. Init => ReturnInv
  BY DispatchAssumption DEF Init, ReturnInv, Position
<1>2. TypeOK /\ Books /\ ReturnInv /\ [Next]_vars => ReturnInv'
  BY ReturnStep
<1>3. TypeOK /\ Books /\ ReturnInv => ReturnsSettled
  <2> SUFFICES ASSUME TypeOK, Books, ReturnInv, pc = "done" PROVE ReturnsSettled
    BY DEF ReturnsSettled
  <2>1. flushed = N /\ \A p \in Position : p <= flushed
    BY DispatchAssumption DEF ReturnInv, Position
  <2>2. \A p \in Position : HasResult(p) <=> p \in started
    BY <2>1 DEF Books
  <2>3. QED BY <2>1, <2>2 DEF ReturnInv, Closing, ReturnsSettled
<1>4. QED BY <1>1, <1>2, <1>3, TypeCorrect, BooksAgree, PTL DEF Spec

---------------------------------------------------------------------------
(* Dispatch implements ToolBatch: seen through the log, every step of the  *)
(* loop decides, opens, closes, stops or returns as the abstract batch     *)
(* allows, or leaves it alone.                                             *)

Over == flushed = N /\ pc # "flush"
SpanMap == [p \in Position |-> Span(p)]

\* A full cursor ends the loop, and an interrupted iteration admits nothing.
RefInv ==
  /\ flushed = N => pc \in {"flush", "publish", "stop", "terminal", "done", "aborted"}
  /\ pc \in {"drain", "admit"} => interrupt = NoCommand

LEMMA RefInvStep == ASSUME CallType, RefInv, [Next]_vars PROVE RefInv'
<1>1. CASE (\E c \in Commands : Send(c)) \/ Close \/ Expire \/ UNCHANGED vars
  BY <1>1 DEF Send, Close, Expire, vars, flow, callVars, RefInv
<1>2. CASE \/ HeadReceive \/ HeadIdle \/ PollOne \/ DrainTimeout \/ DrainAnswer \/ DrainDone
           \/ AdmitDone \/ TickTool \/ TickCommand \/ Again \/ Park
  <2>1. UNCHANGED <<flushed, interrupt>>
    BY <1>2 DEF HeadReceive, HeadIdle, PollOne, DrainTimeout, DrainAnswer, DrainDone,
                AdmitDone, TickTool, TickCommand, Again, Park, flow, callVars
  <2>2. pc \in {"head", "poll", "drain", "admit", "tick"} \/ flushed < N
    BY <1>2 DEF HeadReceive, HeadIdle, PollOne, DrainTimeout, DrainAnswer, DrainDone,
                AdmitDone, TickTool, TickCommand, Again, Park
  <2>3. flushed # N
    BY <2>2, DispatchAssumption DEF RefInv
  <2>4. pc' \in {"drain", "admit"} => pc \in {"drain", "admit"}
    BY <1>2 DEF HeadReceive, HeadIdle, PollOne, DrainTimeout, DrainAnswer, DrainDone,
                AdmitDone, TickTool, TickCommand, Again, Park
  <2>5. QED BY <2>1, <2>3, <2>4 DEF RefInv
<1>3. CASE PollDone \/ AdmitCall
  BY <1>3 DEF PollDone, AdmitCall, callVars, RefInv
<1>4. CASE FlushResult \/ FlushSkip \/ FlushDone \/ PublishOne \/ Leave
  BY <1>4 DEF FlushResult, FlushSkip, FlushDone, PublishOne, Leave, flow, callVars, RefInv
<1>5. CASE RecordInterrupt \/ RecordFinished \/ AppendFails
  BY <1>5 DEF RecordInterrupt, RecordFinished, AppendFails, flow, callVars, RefInv
<1>6. QED BY <1>1, <1>2, <1>3, <1>4, <1>5 DEF Next, LoopStep, Returned

\* Everything the steps below start from.
Inv == TypeOK /\ Books /\ ReturnInv /\ RefInv

LEMMA InvHolds == Spec => []Inv
<1>1. Init => ReturnInv /\ RefInv
  BY DispatchAssumption DEF Init, ReturnInv, RefInv, Position
<1>2. TypeOK /\ Books /\ ReturnInv /\ RefInv /\ [Next]_vars => ReturnInv' /\ RefInv'
  BY ReturnStep, RefInvStep DEF TypeOK
<1>3. QED BY <1>1, <1>2, TypeCorrect, BooksAgree, PTL DEF Spec, Inv

\* The span read off the log, in terms of the loop's bookkeeping.
LEMMA SpanOf ==
  ASSUME Books, NEW p \in Position
  PROVE  Span(p) = IF p \notin started THEN "idle" ELSE IF p <= flushed THEN "closed" ELSE "open"
  BY DEF Books, Span, Called

LEMMA SpanOfNext ==
  ASSUME Books', NEW p \in Position
  PROVE  Span(p)' = IF p \notin started' THEN "idle"
                    ELSE IF p <= flushed' THEN "closed" ELSE "open"
  BY DEF Books, Span, Called

LEMMA SpanKept ==
  ASSUME Books, Books', UNCHANGED <<started, flushed>>
  PROVE  SpanMap' = SpanMap
<1>1. \A p \in Position : Span(p)' = Span(p)
  BY SpanOf, SpanOfNext
<1>2. QED BY <1>1 DEF SpanMap

---------------------------------------------------------------------------
(* The abstract steps, one per concrete case.                              *)

LEMMA DecideStep ==
  ASSUME Inv, Inv', NEW c, Settles(c), UNCHANGED <<started, flushed, interrupt>>,
         ~Over, ~Over'
  PROVE  Batch!Decide
<1> DEFINE S == Updates(c)
           f == [p \in S |-> DecisionOf(c, p)]
<1>1. S # {} /\ S \in SUBSET {p \in Gated : decisions[p] = "undecided"}
  BY DEF Settles, Updates
<1>2. f \in [S -> {"approved", "rejected"}]
  <2>1. \A p \in S : DecisionOf(c, p) \in Decided
    BY DecisionType DEF Settles, Updates
  <2>2. QED BY <2>1 DEF Decided
<1>3. decisions' = [p \in Position |-> IF p \in S THEN f[p] ELSE decisions[p]]
  BY DEF Settles
<1>4. SpanMap' = SpanMap
  BY SpanKept DEF Inv
<1>5. QED
  BY <1>1, <1>2, <1>3, <1>4 DEF Batch!Decide, Batch!Position, Position, SpanMap, Over

LEMMA OpenStep == ASSUME Inv, Inv', AdmitCall PROVE \E p \in Batch!Position : Batch!Open(p)
<1>1. PICK p \in Ready : Start(p)
  BY DEF AdmitCall
<1>2. p \in Position /\ p > flushed /\ p \notin started /\ decisions[p] # "undecided"
  BY <1>1 DEF Ready
<1>3. started' = started \cup {p} /\ UNCHANGED <<flushed, decisions, interrupt>>
  BY <1>1 DEF Start, AdmitCall, intake
<1>4. interrupt = NoCommand /\ ~Over /\ ~Over'
  BY <1>3 DEF AdmitCall, Inv, RefInv, Over
<1>5. \A q \in Position : Span(q)' = IF q = p THEN "open" ELSE Span(q)
  <2>1. ~(p <= flushed)
    BY <1>2 DEF Inv, TypeOK, CallType, Position
  <2>2. QED BY <1>2, <1>3, <2>1, SpanOf, SpanOfNext DEF Inv
<1>6. SpanMap' = [SpanMap EXCEPT ![p] = "open"] /\ SpanMap[p] = "idle"
  BY <1>2, <1>5, SpanOf DEF SpanMap, Inv
<1>7. Batch!Open(p)
  BY <1>2, <1>3, <1>4, <1>6 DEF Batch!Open, SpanMap, Over
<1>8. QED BY <1>2, <1>7 DEF Position, Batch!Position

LEMMA CloseStep == ASSUME Inv, Inv', FlushResult PROVE \E p \in Batch!Position : Batch!Close(p)
<1> DEFINE p == flushed + 1
<1>0. CallType
  BY DEF Inv, TypeOK
<1>1. /\ p \in Position /\ outcomes[p] # "none" /\ flushed' = p
      /\ UNCHANGED <<started, decisions, interrupt>>
  BY DispatchAssumption DEF FlushResult, Inv, TypeOK, CallType, Position, intake, flow
<1>2. p \in started
  BY <1>1 DEF Inv, Books
<1>3. ~Over /\ ~Over'
  BY DEF FlushResult, Over
<1>4. \A q \in Position : q <= flushed' <=> q <= flushed \/ q = p
  BY <1>0, <1>1 DEF Position, CallType
<1>5. \A q \in Position : Span(q)' = IF q = p THEN "closed" ELSE Span(q)
  BY <1>1, <1>2, <1>4, SpanOf, SpanOfNext DEF Inv
<1>6. SpanMap' = [SpanMap EXCEPT ![p] = "closed"]
  BY <1>1, <1>5 DEF SpanMap
<1>7. SpanMap[p] = "open"
  <2>1. ~(p <= flushed)
    BY DEF Inv, TypeOK, CallType
  <2>2. QED BY <1>1, <1>2, <2>1, SpanOf DEF SpanMap, Inv
<1>8. ASSUME NEW q \in 1..(p - 1)
      PROVE  SpanMap[q] = "closed" \/ (interrupt # NoCommand /\ SpanMap[q] = "idle")
  <2>1. q \in Position /\ q <= flushed
    BY <1>0, DispatchAssumption DEF Position, CallType
  <2>2. QED BY <2>1, SpanOf DEF SpanMap, Inv, ReturnInv
<1>9. Batch!Close(p)
  BY <1>1, <1>3, <1>6, <1>7, <1>8 DEF Batch!Close, SpanMap, Over
<1>10. QED BY <1>1, <1>9 DEF Position, Batch!Position

LEMMA ReturnsStep ==
  ASSUME Inv, Inv', FlushDone, flushed = N PROVE Batch!Return
<1>1. UNCHANGED <<decisions, interrupt, started, flushed>> /\ ~Over /\ Over'
  BY DEF FlushDone, intake, callVars, flow, Over
<1>2. SpanMap' = SpanMap
  BY <1>1, SpanKept DEF Inv
<1>3. ASSUME NEW p \in Position
      PROVE  SpanMap[p] = "closed" \/ (interrupt # NoCommand /\ SpanMap[p] = "idle")
  <2>1. p <= flushed
    BY DispatchAssumption DEF Position
  <2>2. QED BY <2>1, SpanOf DEF SpanMap, Inv, ReturnInv
<1>4. QED
  BY <1>1, <1>2, <1>3 DEF Batch!Return, Batch!Position, Position, SpanMap, Over


---------------------------------------------------------------------------
(* Every step is one of them or a stutter.                                 *)

\* Commands reach decisions only at the head, at a drain or at the tick.
LEMMA SettlesWhere ==
  ASSUME [Next]_vars, decisions' # decisions
  PROVE  /\ pc \in {"head", "drain", "tick"} /\ pc' # "flush"
         /\ UNCHANGED <<started, flushed, interrupt>>
  BY DEF Next, LoopStep, vars, intake, flow, callVars, Send, Close, Expire, HeadReceive, HeadIdle,
         PollOne, PollDone, DrainTimeout, DrainAnswer, DrainDone, AdmitCall, AdmitDone,
         FlushResult, FlushSkip, FlushDone, PublishOne, Leave, Again, Park, TickTool,
         TickCommand, RecordInterrupt, RecordFinished, AppendFails, Returned

\* The steps the abstract batch does not see.
LEMMA StutterStep ==
  ASSUME Inv, Inv', decisions' = decisions,
         \/ (\E c \in Commands : Send(c)) \/ Close \/ Expire \/ UNCHANGED vars
         \/ HeadReceive \/ HeadIdle \/ PollOne \/ DrainTimeout \/ DrainAnswer \/ DrainDone
         \/ AdmitDone \/ (FlushDone /\ flushed # N) \/ PublishOne \/ Leave \/ Again \/ Park
         \/ TickTool \/ TickCommand \/ RecordInterrupt \/ RecordFinished \/ AppendFails
  PROVE  UNCHANGED Batch!vars
<1>1. UNCHANGED <<started, flushed, interrupt>>
  BY DEF Send, Close, Expire, vars, flow, callVars, HeadReceive, HeadIdle, PollOne, DrainTimeout,
         DrainAnswer, DrainDone, AdmitDone, FlushDone, PublishOne, Leave, Again, Park, TickTool,
         TickCommand, RecordInterrupt, RecordFinished, AppendFails
<1>2. pc' = pc \/ flushed # N \/ (pc # "flush" /\ pc' # "flush")
  BY DEF HeadReceive, HeadIdle, PollOne, DrainTimeout, DrainAnswer, DrainDone, AdmitDone,
         PublishOne, Leave, Again, Park, TickTool, TickCommand, RecordInterrupt, RecordFinished,
         AppendFails, MustAppend, Send, Close, Expire, vars, Inv, TypeOK, CallType, RefInv
<1>3. Over' = Over
  BY <1>1, <1>2 DEF Over
<1>4. SpanMap' = SpanMap
  BY <1>1, SpanKept DEF Inv
<1>5. QED
  BY <1>1, <1>3, <1>4 DEF Batch!vars, SpanMap, Over

LEMMA StopStep == ASSUME Inv, Inv', PollDone PROVE Batch!Stop \/ UNCHANGED Batch!vars
<1>1. UNCHANGED <<decisions, started, flushed>> /\ ~Over /\ ~Over'
  BY DEF PollDone, callVars, Over, Inv, RefInv
<1>2. SpanMap' = SpanMap
  BY <1>1, SpanKept DEF Inv
<1>3. interrupt # NoCommand => interrupt' = interrupt
  BY DEF PollDone
<1>4. QED
  BY <1>1, <1>2, <1>3 DEF Batch!Stop, Batch!vars, SpanMap, Over

LEMMA SkipStep == ASSUME Inv, Inv', FlushSkip PROVE UNCHANGED Batch!vars
<1>1. /\ UNCHANGED <<decisions, started, interrupt>> /\ ~Over /\ ~Over'
      /\ flushed + 1 \notin started /\ flushed' = flushed + 1
  BY DEF FlushSkip, MaySkip, intake, flow, Over
<1>2. \A q \in started : q <= flushed' <=> q <= flushed
  BY <1>1 DEF Inv, TypeOK, CallType, Position
<1>3. \A q \in Position : Span(q)' = Span(q)
  BY <1>1, <1>2, SpanOf, SpanOfNext DEF Inv
<1>4. SpanMap' = SpanMap
  BY <1>3 DEF SpanMap
<1>5. QED BY <1>1, <1>4 DEF Batch!vars, SpanMap, Over

LEMMA RefinementStep == ASSUME Inv, Inv', [Next]_vars PROVE [Batch!Next]_Batch!vars
<1>1. CASE decisions' # decisions
  <2>1. PICK c : Settles(c)
    BY <1>1, LogFrame DEF Inv, TypeOK, AdmitCall, FlushResult, RecordInterrupt, RecordFinished,
                          intake
  <2>2. /\ UNCHANGED <<started, flushed, interrupt>> /\ ~Over /\ ~Over'
    BY <1>1, SettlesWhere DEF Over, Inv, RefInv
  <2>3. Batch!Decide
    BY <2>1, <2>2, DecideStep
  <2>4. QED BY <2>3 DEF Batch!Next
<1>2. CASE decisions' = decisions
  <2>1. CASE AdmitCall
    BY <2>1, OpenStep DEF Batch!Next
  <2>2. CASE FlushResult
    BY <2>2, CloseStep DEF Batch!Next
  <2>3. CASE FlushDone /\ flushed = N
    BY <2>3, ReturnsStep DEF Batch!Next
  <2>4. CASE PollDone
    BY <2>4, StopStep DEF Batch!Next
  <2>5. CASE FlushSkip
    BY <2>5, SkipStep
  <2>6. CASE ~(AdmitCall \/ FlushResult \/ (FlushDone /\ flushed = N) \/ PollDone \/ FlushSkip)
    <3>1. UNCHANGED Batch!vars
      BY <1>2, <2>6, StutterStep DEF Next, LoopStep, Returned
    <3>2. QED BY <3>1
  <2>7. QED BY <2>1, <2>2, <2>3, <2>4, <2>5, <2>6
<1>3. QED BY <1>1, <1>2

(* The dispatch loop implements the abstract batch for every batch and     *)
(* every behaviour of the clients, the clock and the tools.                *)
THEOREM DispatchImplementsToolBatch == Spec => ImplementsToolBatch
<1>1. Init => Batch!Init
  <2> SUFFICES ASSUME Init PROVE Batch!Init
    OBVIOUS
  <2>1. Books /\ started = {} /\ interrupt = NoCommand /\ ~Over
    BY BooksInit, DispatchAssumption DEF Init, Over
  <2>2. SpanMap = [p \in Position |-> "idle"]
    BY <2>1, SpanOf DEF SpanMap
  <2>3. decisions = [p \in Position |-> IF p \in Gated THEN "undecided" ELSE "approved"]
    BY DEF Init
  <2>4. QED
    BY <2>1, <2>2, <2>3 DEF Batch!Init, Batch!Position, Position, SpanMap, Over
<1>2. Inv /\ Inv' /\ [Next]_vars => [Batch!Next]_Batch!vars
  BY RefinementStep
<1>3. QED BY <1>1, <1>2, InvHolds, PTL DEF Spec, ImplementsToolBatch, Batch!Spec

-----------------------------------------------------------------------------
(* How the human wait ends.                                                *)

InChannel(c) == \E i \in DOMAIN channel : channel[i] = c
Buffered(c) == \E i \in DOMAIN resolves : resolves[i] = c
Settled(c) == \A p \in Gated : Answers(c, p) => decisions[p] # "undecided"

\* Until the deadline all the loop holds was sent in time.
OnTime ==
  ~expired => /\ \A i \in DOMAIN channel : channel[i].id \in inTime
              /\ \A i \in DOMAIN resolves : resolves[i].id \in inTime

\* A command sent in time is queued until it is noted; an answer noted is
\* buffered until the slots it addresses are decided.
Delivered ==
  /\ \A c \in Commands : c.id \in inTime => InChannel(c) \/ Retried(c)
  /\ \A c \in ResolveCommands : Retried(c) => Buffered(c) \/ Settled(c)

\* From the drain to the end of a park, while slots are open and no interrupt
\* skipped the drain, no answer to this batch is left in the inbox.
Drained ==
  waiting \/ (pc \in {"admit", "flush", "publish"} /\ interrupt = NoCommand)
    => ~Pending \/ ~HasAnswer

DeniedByClosure(i) == log[i].type = "resolve" /\ log[i].cmd.id = "ap-closed"

\* The channel does not open again after a closure was recorded.
ClosedForGood == \A i \in DOMAIN log : DeniedByClosure(i) => ~open

WaitInv == OnTime /\ Delivered /\ Drained /\ ClosedForGood /\ WaitEndsFairly

---------------------------------------------------------------------------
(* Who settles a slot.                                                     *)

ByClient(c) == ~expired /\ Buffered(c)
ByTimer(c) == c = Denial("ap-timeout")
ByClosure(c) == c = Denial("ap-closed") /\ waiting /\ ~open /\ channel = <<>>

LEMMA WhoSettles ==
  ASSUME InboxType, CallType, FlowType, [Next]_vars
  PROVE  \/ UNCHANGED <<log, decisions>>
         \/ \E e \in Event : log' = Append(log, e) /\ e.type # "resolve"
         \/ \E c : Settles(c) /\ (ByClient(c) \/ ByTimer(c) \/ ByClosure(c))
<1>1. ASSUME NEW id \in SyntheticIds, Apply(Denial(id))
      PROVE  UNCHANGED <<log, decisions>> \/ Settles(Denial(id))
  BY <1>1 DEF Apply, Settles
<1>2. CASE HeadReceive \/ TickCommand
  <2>1. CASE UNCHANGED <<log, decisions>> BY <2>1
  <2>2. CASE ~UNCHANGED <<log, decisions>>
    <3>1. waiting /\ ~CommandFirst
      BY <1>2, <2>2 DEF HeadReceive, TickCommand, Receive
    <3>2. Apply(Denial(IF open THEN "ap-timeout" ELSE "ap-closed"))
      BY <1>2, <2>2 DEF HeadReceive, TickCommand, Receive
    <3>3. CASE open
      BY <1>1, <2>2, <3>2, <3>3 DEF SyntheticIds, ByTimer
    <3>4. CASE ~open
      BY <1>1, <2>2, <3>1, <3>2, <3>4 DEF SyntheticIds, ByClosure, CommandFirst, Queued
    <3>5. QED BY <3>3, <3>4
  <2>3. QED BY <2>1, <2>2
<1>3. CASE DrainTimeout
  BY <1>1, <1>3 DEF DrainTimeout, SyntheticIds, ByTimer
<1>4. CASE DrainAnswer
  <2>1. PICK i \in DOMAIN resolves : Apply(resolves[i])
    BY <1>4 DEF DrainAnswer
  <2>2. resolves[i] \in ResolveCommands
    BY DEF InboxType, ResolveCommands
  <2>3. ByClient(resolves[i])
    BY <1>4 DEF DrainAnswer, BeforeDeadline, ByClient, Buffered
  <2>4. QED BY <2>1, <2>2, <2>3 DEF Apply, Settles
<1>5. CASE AdmitCall \/ FlushResult \/ RecordInterrupt \/ RecordFinished
  BY <1>5, SpanEvents
<1>6. CASE ~(HeadReceive \/ TickCommand \/ DrainTimeout \/ DrainAnswer
             \/ AdmitCall \/ FlushResult \/ RecordInterrupt \/ RecordFinished)
  BY <1>6 DEF Next, LoopStep, vars, intake, Send, Close, Expire, HeadIdle, PollOne,
              PollDone, DrainDone, AdmitDone, FlushSkip, FlushDone, PublishOne, Leave,
              Again, Park, TickTool, AppendFails, Returned
<1>7. QED BY <1>2, <1>3, <1>4, <1>5, <1>6

---------------------------------------------------------------------------
(* What has been sent.                                                     *)

\* The channel, the ids sent in time, the inbox's answers and the clock.
LEMMA IntakeFrame ==
  ASSUME [Next]_vars
  PROVE  \/ UNCHANGED <<channel, inTime, resolves, seen, expired>>
         \/ Expire
         \/ \E c \in Commands : Send(c)
         \/ /\ Queued /\ Note(Head(channel)) /\ channel' = Tail(channel)
            /\ UNCHANGED <<inTime, expired>>
         \/ DrainAnswer
  BY DEF Next, LoopStep, vars, intake, clientVars, inboxVars, Close, HeadReceive, HeadIdle,
         PollOne, PollDone, DrainTimeout, DrainDone, AdmitCall, AdmitDone, FlushResult,
         FlushSkip, FlushDone, PublishOne, Leave, Again, Park, TickTool, TickCommand,
         RecordInterrupt, RecordFinished, AppendFails, Returned, Receive, CommandFirst

\* Taking an answer out loses no other.
LEMMA RemoveAtKeeps ==
  ASSUME NEW S, NEW s \in Seq(S), NEW i \in DOMAIN s
  PROVE  /\ \A j \in DOMAIN RemoveAt(s, i) : \E k \in DOMAIN s : RemoveAt(s, i)[j] = s[k]
         /\ \A k \in DOMAIN s : k # i => \E j \in DOMAIN RemoveAt(s, i) : RemoveAt(s, i)[j] = s[k]
<1> DEFINE r == RemoveAt(s, i)
<1>1. /\ Len(r) = Len(s) - 1 /\ r \in Seq(S)
      /\ \A j \in 1..Len(r) : r[j] = IF j < i THEN s[j] ELSE s[j + 1]
  <2> DEFINE a == SubSeq(s, 1, i - 1)
             b == SubSeq(s, i + 1, Len(s))
  <2>1. r = a \o b BY DEF RemoveAt
  <2>2. a \in Seq(S) /\ Len(a) = i - 1 /\ \A j \in 1..(i - 1) : a[j] = s[j]
    OBVIOUS
  <2>3. b \in Seq(S) /\ Len(b) = Len(s) - i /\ \A j \in 1..(Len(s) - i) : b[j] = s[j + i]
    OBVIOUS
  <2> HIDE DEF a, b
  <2>4. r \in Seq(S) /\ Len(r) = Len(s) - 1 BY <2>1, <2>2, <2>3
  <2>5. ASSUME NEW j \in 1..Len(r) PROVE r[j] = IF j < i THEN s[j] ELSE s[j + 1]
    <3>1. CASE j < i BY <2>1, <2>2, <2>3, <2>4, <3>1
    <3>2. CASE ~(j < i)
      <4>1. j - (i - 1) \in 1..(Len(s) - i) BY <2>4, <3>2
      <4>2. j \in 1..(Len(a) + Len(b)) /\ j > Len(a) /\ j - Len(a) = j - (i - 1)
        BY <2>2, <2>3, <2>4, <3>2
      <4>0. a \in Seq(S) /\ b \in Seq(S) BY <2>2, <2>3
      <4>3. (a \o b)[j] = b[j - Len(a)] BY <4>0, <4>2, ConcatProperties
      <4>7. r[j] = b[j - Len(a)] BY <2>1, <4>3
      <4>4. b[j - (i - 1)] = s[(j - (i - 1)) + i] BY <2>3, <4>1
      <4>5. (j - (i - 1)) + i = j + 1 OBVIOUS
      <4>6. QED BY <3>2, <4>2, <4>7, <4>4, <4>5
    <3>3. QED BY <3>1, <3>2
  <2>6. QED BY <2>4, <2>5
<1> HIDE DEF r
<1>2. \A j \in DOMAIN r : \E k \in DOMAIN s : r[j] = s[k]
  BY <1>1
<1>3. ASSUME NEW k \in DOMAIN s, k # i PROVE \E j \in DOMAIN r : r[j] = s[k]
  <2>1. CASE k < i BY <1>1, <2>1
  <2>2. CASE k > i
    <3>1. k - 1 \in DOMAIN r /\ r[k - 1] = s[k] BY <1>1, <2>2
    <3>2. QED BY <3>1
  <2>3. QED BY <1>3, <2>1, <2>2
<1>4. QED BY <1>2, <1>3 DEF r

\* What noting the head of the channel does to the answers.
LEMMA NoteTakes ==
  ASSUME ClientType, InboxType, Queued, Note(Head(channel))
  PROVE  LET c == Head(channel) IN
         /\ c \in Commands /\ c = channel[1]
         /\ seen' = seen \cup {c.id}
         /\ resolves \in Seq(Commands)
         /\ resolves' = resolves \/ resolves' = Append(resolves, c)
         /\ c \in ResolveCommands /\ ~Retried(c) => resolves' = Append(resolves, c)
<1> DEFINE c == Head(channel)
<1>1. c \in Commands /\ c = channel[1]
  BY DEF ClientType, Queued
<1>2. resolves \in Seq(Commands)
  BY DEF InboxType
<1>3. CASE Retried(c)
  BY <1>1, <1>2, <1>3 DEF Note, Retried, inboxVars
<1>4. CASE ~Retried(c)
  BY <1>1, <1>2, <1>4 DEF Note, ResolveCommands
<1>5. QED BY <1>3, <1>4

LEMMA OnTimeStep ==
  ASSUME ClientType, InboxType, OnTime, [Next]_vars PROVE OnTime'
<1>1. CASE UNCHANGED <<channel, inTime, resolves, seen, expired>>
  BY <1>1 DEF OnTime
<1>2. CASE Expire
  BY <1>2 DEF Expire, OnTime
<1>3. ASSUME NEW c \in Commands, Send(c) PROVE OnTime'
  <2>1. UNCHANGED <<resolves, expired>> /\ channel' = Append(channel, c)
    BY <1>3 DEF Send, inboxVars
  <2>2. CASE expired BY <2>1, <2>2 DEF OnTime
  <2>3. CASE ~expired
    <3>1. inTime' = inTime \cup {c.id} BY <1>3, <2>3 DEF Send
    <3>2. QED BY <2>1, <2>3, <3>1 DEF OnTime, ClientType
  <2>4. QED BY <2>2, <2>3
<1>4. CASE /\ Queued /\ Note(Head(channel)) /\ channel' = Tail(channel)
           /\ UNCHANGED <<inTime, expired>>
  <2>1. CASE expired BY <1>4, <2>1 DEF OnTime
  <2>2. CASE ~expired
    <3>1. \A i \in DOMAIN channel' : channel'[i].id \in inTime
      BY <1>4, <2>2 DEF OnTime, ClientType, Queued
    <3>2. channel[1].id \in inTime
      BY <1>4, <2>2 DEF OnTime, ClientType, Queued
    <3>3. \A i \in DOMAIN resolves' : resolves'[i].id \in inTime
      <4>1. PICK c \in Commands :
               /\ c = channel[1] /\ resolves \in Seq(Commands)
               /\ resolves' = resolves \/ resolves' = Append(resolves, c)
        BY <1>4, NoteTakes
      <4>2. \A i \in DOMAIN resolves' : (i \in DOMAIN resolves /\ resolves'[i] = resolves[i])
                                        \/ resolves'[i] = c
        BY <4>1
      <4>3. c.id \in inTime BY <3>2, <4>1
      <4>4. \A k \in DOMAIN resolves : resolves[k].id \in inTime BY <2>2 DEF OnTime
      <4>5. ASSUME NEW i \in DOMAIN resolves' PROVE resolves'[i].id \in inTime
        BY <4>2, <4>3, <4>4
      <4>6. QED BY <4>5
    <3>4. QED BY <1>4, <3>1, <3>3 DEF OnTime
  <2>3. QED BY <2>1, <2>2
<1>5. CASE DrainAnswer
  <2>1. UNCHANGED <<channel, inTime, expired>>
    BY <1>5 DEF DrainAnswer, clientVars
  <2>2. PICK i \in DOMAIN resolves : resolves' = RemoveAt(resolves, i)
    BY <1>5 DEF DrainAnswer
  <2>3. \A j \in DOMAIN resolves' : \E k \in DOMAIN resolves : resolves'[j] = resolves[k]
    BY <2>2, RemoveAtKeeps DEF InboxType
  <2>4. QED BY <2>1, <2>3 DEF OnTime
<1>6. QED BY <1>1, <1>2, <1>3, <1>4, <1>5, IntakeFrame

LEMMA SettledStays ==
  ASSUME InboxType, GateType, [Next]_vars, NEW c, Settled(c) PROVE Settled(c)'
  BY DecisionsStay DEF Settled, Answers

\* Applying an answer leaves no slot it addresses open.
LEMMA AppliedSettles ==
  ASSUME GateType, NEW c, c \in ResolveCommands \/ (\E id \in SyntheticIds : c = Denial(id)),
         Apply(c)
  PROVE  Settled(c)'
<1>1. CASE Updates(c) = {}
  BY <1>1 DEF Apply, Updates, Settled, Answers
<1>2. CASE Updates(c) # {}
  <2>1. decisions' = [p \in Position |-> IF p \in Updates(c) THEN DecisionOf(c, p) ELSE decisions[p]]
    BY <1>2 DEF Apply
  <2>2. \A p \in Gated : DecisionOf(c, p) # "undecided"
    BY DecisionType DEF Decided
  <2>3. Gated \subseteq Position BY DispatchAssumption
  <2>4. \A p \in Gated : Answers(c, p) => decisions'[p] # "undecided"
    BY <2>1, <2>2, <2>3 DEF Updates
  <2>5. QED BY <2>4 DEF Settled, Answers
<1>3. QED BY <1>1, <1>2

LEMMA DeliveredStep ==
  ASSUME ClientType, InboxType, GateType, Delivered, [Next]_vars PROVE Delivered'
<1>1. \A c : Settled(c) => Settled(c)'
  BY SettledStays
<1>2. CASE UNCHANGED <<channel, inTime, resolves, seen, expired>>
  BY <1>1, <1>2 DEF Delivered, InChannel, Retried, Buffered
<1>3. CASE Expire
  BY <1>1, <1>3 DEF Expire, clientVars, inboxVars, Delivered, InChannel, Retried, Buffered
<1>4. ASSUME NEW c \in Commands, Send(c) PROVE Delivered'
  <2>1. UNCHANGED <<resolves, seen>> /\ channel' = Append(channel, c) /\ inTime' \subseteq inTime \cup {c.id}
    BY <1>4 DEF Send, inboxVars
  <2>2. InChannel(c)' /\ \A d : InChannel(d) => InChannel(d)'
    BY <2>1 DEF InChannel, ClientType
  <2>3. \A d \in Commands : d.id \in inTime' => d.id \in inTime \/ d = c
    BY <2>1, DispatchAssumption
  <2>4. QED BY <1>1, <2>1, <2>2, <2>3 DEF Delivered, Retried, Buffered
<1>5. CASE /\ Queued /\ Note(Head(channel)) /\ channel' = Tail(channel)
           /\ UNCHANGED <<inTime, expired>>
  <2>1. PICK c \in Commands : c = channel[1] /\ c = Head(channel)
    BY <1>5, NoteTakes
  <2>2. /\ seen' = seen \cup {c.id} /\ resolves \in Seq(Commands)
        /\ resolves' = resolves \/ resolves' = Append(resolves, c)
        /\ c \in ResolveCommands /\ ~Retried(c) => resolves' = Append(resolves, c)
    BY <1>5, <2>1, NoteTakes
  <2>3. \A d : InChannel(d) => d = c \/ InChannel(d)'
    <3>1. ASSUME NEW i \in DOMAIN channel, i # 1 PROVE \E j \in DOMAIN channel' : channel'[j] = channel[i]
      <4>1. i - 1 \in DOMAIN channel' /\ channel'[i - 1] = channel[i]
        BY <1>5, <3>1 DEF ClientType, Queued
      <4>2. QED BY <4>1
    <3>2. QED BY <2>1, <3>1 DEF InChannel
  <2>4. \A d : Buffered(d) => Buffered(d)'
    <3>1. \A k \in DOMAIN resolves : k \in DOMAIN resolves' /\ resolves'[k] = resolves[k]
      BY <2>2
    <3>2. QED BY <3>1 DEF Buffered
  <2>5. c \in ResolveCommands => Buffered(c)' \/ Settled(c)'
    <3>1. CASE Retried(c) BY <1>1, <2>4, <3>1 DEF Delivered
    <3>2. CASE c \in ResolveCommands /\ ~Retried(c)
      <4>1. Len(resolves) + 1 \in DOMAIN resolves' /\ resolves'[Len(resolves) + 1] = c
        BY <2>2, <3>2
      <4>2. QED BY <4>1 DEF Buffered
    <3>3. QED BY <3>1, <3>2
  <2>6. \A d \in Commands : Retried(d)' => Retried(d) \/ d = c
    BY <2>2, DispatchAssumption DEF Retried
  <2>7. \A d \in Commands : d.id \in inTime => InChannel(d)' \/ Retried(d)'
    BY <2>2, <2>3 DEF Delivered, Retried
  <2>8. \A d \in ResolveCommands : Retried(d)' => Buffered(d)' \/ Settled(d)'
    BY <1>1, <2>4, <2>5, <2>6 DEF Delivered, ResolveCommands
  <2>9. QED BY <1>5, <2>7, <2>8 DEF Delivered
<1>6. CASE DrainAnswer
  <2>1. UNCHANGED <<channel, inTime, seen>>
    BY <1>6 DEF DrainAnswer, clientVars
  <2>2. PICK i \in DOMAIN resolves : resolves' = RemoveAt(resolves, i) /\ Apply(resolves[i])
    BY <1>6 DEF DrainAnswer
  <2>3. PICK c \in ResolveCommands : c = resolves[i] /\ Apply(c)
    BY <2>2 DEF InboxType, ResolveCommands
  <2>4. Settled(c)'
    BY <2>3, AppliedSettles
  <2>5. \A k \in DOMAIN resolves : k # i => \E j \in DOMAIN resolves' : resolves'[j] = resolves[k]
    BY <2>2, RemoveAtKeeps DEF InboxType
  <2>6. \A d : Buffered(d) => d = c \/ Buffered(d)'
    BY <2>3, <2>5 DEF Buffered
  <2>7. \A d \in ResolveCommands : Retried(d)' => Buffered(d)' \/ Settled(d)'
    BY <1>1, <2>1, <2>4, <2>6 DEF Delivered, Retried
  <2>8. \A d \in Commands : d.id \in inTime' => InChannel(d)' \/ Retried(d)'
    BY <2>1 DEF Delivered, InChannel, Retried
  <2>9. QED BY <2>7, <2>8 DEF Delivered
<1>7. QED BY <1>2, <1>3, <1>4, <1>5, <1>6, IntakeFrame

---------------------------------------------------------------------------
(* What a park leaves behind.                                              *)

LEMMA DrainedStep ==
  ASSUME InboxType, GateType, Drained, [Next]_vars PROVE Drained'
<1>1. Pending' => Pending
  BY DecisionsStay DEF Pending
<1>2. CASE HeadReceive \/ TickCommand
  BY <1>2 DEF HeadReceive, TickCommand, Receive, Drained
<1>3. CASE PollOne
  BY <1>3 DEF PollOne, flow, Drained
<1>4. CASE PollDone
  <2>1. UNCHANGED <<waiting, resolves>>
    BY <1>4 DEF PollDone
  <2>2. pc' \in {"admit", "flush", "publish"} => interrupt' # NoCommand
    BY <1>4 DEF PollDone
  <2>3. QED BY <1>1, <2>1, <2>2 DEF Drained, HasAnswer
<1>5. CASE DrainTimeout
  <2>1. PICK c : c = Denial("ap-timeout") /\ Apply(c)
    BY <1>5 DEF DrainTimeout
  <2>2. Settled(c)'
    BY <2>1, AppliedSettles DEF SyntheticIds
  <2>3. \A p \in Gated : Answers(c, p)
    BY <2>1 DEF Denial, Answers
  <2>4. QED BY <2>2, <2>3 DEF Drained, Pending, Settled, Answers
<1>6. CASE DrainAnswer
  <2>1. pc = "drain" /\ pc' = pc /\ waiting' = waiting
    BY <1>6 DEF DrainAnswer, flow
  <2>2. PICK i \in DOMAIN resolves : resolves' = RemoveAt(resolves, i)
    BY <1>6 DEF DrainAnswer
  <2>3. HasAnswer' => HasAnswer
    BY <2>2, RemoveAtKeeps DEF InboxType, HasAnswer
  <2>4. QED BY <1>1, <2>1, <2>3 DEF Drained
<1>7. CASE DrainDone
  BY <1>1, <1>7 DEF DrainDone, intake, inboxVars, Drained, HasAnswer
<1>8. CASE Park
  <2>1. /\ pc = "publish" /\ pc' = "tick" /\ resolves' = resolves
        /\ waiting' => interrupt = NoCommand
    BY <1>8 DEF Park, intake, inboxVars, WantsReceive
  <2>2. QED BY <1>1, <2>1 DEF Drained, HasAnswer
<1>9. CASE AdmitCall \/ AdmitDone \/ FlushResult \/ FlushSkip \/ FlushDone \/ PublishOne
  <2>1. pc \in {"admit", "flush", "publish"} /\ UNCHANGED <<interrupt, waiting, resolves>>
    BY <1>9 DEF AdmitCall, AdmitDone, FlushResult, FlushSkip, FlushDone, PublishOne,
                intake, inboxVars, flow
  <2>2. QED BY <1>1, <2>1 DEF Drained, HasAnswer
<1>10. CASE Leave \/ Again \/ TickTool \/ RecordInterrupt \/ RecordFinished \/ AppendFails \/ HeadIdle
  <2>1. pc' \notin {"admit", "flush", "publish"} /\ UNCHANGED <<waiting, resolves>>
    BY <1>10 DEF Leave, Again, TickTool, RecordInterrupt, RecordFinished, AppendFails,
                 HeadIdle, intake, inboxVars, flow
  <2>2. QED BY <1>1, <2>1 DEF Drained, HasAnswer
<1>11. CASE (\E c \in Commands : Send(c)) \/ Close \/ Expire \/ UNCHANGED vars
  <2>1. UNCHANGED <<pc, interrupt, waiting, resolves>>
    BY <1>11 DEF Send, Close, Expire, vars, intake, inboxVars, flow
  <2>2. QED BY <1>1, <2>1 DEF Drained, HasAnswer
<1>12. QED
  BY <1>2, <1>3, <1>4, <1>5, <1>6, <1>7, <1>8, <1>9, <1>10, <1>11 DEF Next, LoopStep, Returned

---------------------------------------------------------------------------
(* What the log says of it.                                                *)

\* The ids sent in time only grow, and not on a closed channel; a closed
\* channel stays closed.
LEMMA SentFrame ==
  ASSUME [Next]_vars
  PROVE  inTime \subseteq inTime' /\ (~open => inTime' = inTime /\ ~open')
<1>1. CASE \E c \in Commands : Send(c)
  BY <1>1 DEF Send
<1>2. CASE ~(\E c \in Commands : Send(c))
  <2>1. inTime' = inTime
    BY <1>2 DEF Next, LoopStep, vars, intake, clientVars, Close, Expire, HeadReceive,
           HeadIdle, PollOne, PollDone, DrainTimeout, DrainAnswer, DrainDone, AdmitCall,
           AdmitDone, FlushResult, FlushSkip, FlushDone, PublishOne, Leave, Again, Park,
           TickTool, TickCommand, RecordInterrupt, RecordFinished, AppendFails, Returned
  <2>2. ~open => ~open'
    BY ClientFrame DEF Send, Close
  <2>3. QED BY <2>1, <2>2
<1>3. QED BY <1>1, <1>2

\* The denied slots of an entry, and the answers to them there were in time.
Answered(p) ==
  \E c \in Commands :
    c.kind \in {"batch", "call"} /\ c.id \in inTime /\ c.req = Request /\ Answers(c, p)

FairOfLog ==
  /\ \A i \in DOMAIN log : log[i].type = "resolve" => log[i].cmd.id \in inTime \cup SyntheticIds
  /\ \A i \in DOMAIN log : DeniedByClosure(i) => \A p \in Fills(i) : ~Answered(p)

LEMMA FairSays == (WaitEndsFairly <=> FairOfLog) /\ (WaitEndsFairly' <=> FairOfLog')
  BY DEF WaitEndsFairly, LateAnswersLose, ClosureDeniesUnanswered, DeniedByClosure, Answered,
         FairOfLog

\* When closure is told, whoever had answered in time has been heard.
LEMMA ClosureFindsNobody ==
  ASSUME GateType, Delivered, Drained, waiting, channel = <<>>,
         NEW p \in Gated, decisions[p] = "undecided"
  PROVE  ~Answered(p)
<1> SUFFICES ASSUME NEW c \in Commands, c.kind \in {"batch", "call"}, c.id \in inTime,
                    c.req = Request, Answers(c, p)
             PROVE  FALSE
  BY DEF Answered
<1>1. ~InChannel(c) BY DEF InChannel
<1>2. Retried(c) BY <1>1 DEF Delivered
<1>3. Buffered(c) \/ Settled(c) BY <1>2 DEF Delivered, ResolveCommands
<1>4. ~Settled(c) BY DEF Settled
<1>5. HasAnswer BY <1>3, <1>4 DEF Buffered, HasAnswer
<1>6. QED BY <1>5 DEF Drained, Pending

LEMMA FairStep ==
  ASSUME TypeOK, Books, DecisionsFollowLog, WaitInv, [Next]_vars
  PROVE  ClosedForGood' /\ WaitEndsFairly'
<1>1. inTime \subseteq inTime' /\ (~open => inTime' = inTime /\ ~open')
  BY SentFrame
<1>2. \A p : ~open /\ ~Answered(p) => ~Answered(p)'
  BY <1>1 DEF Answered, Answers
<1>3. CASE UNCHANGED <<log, decisions>>
  <2>1. \A i : DeniedByClosure(i)' <=> DeniedByClosure(i)
    BY <1>3 DEF DeniedByClosure
  <2>2. \A i : Fills(i)' = Fills(i)
    BY <1>3 DEF Fills, FirstResolve, Resolves, Answers
  <2>3. ClosedForGood'
    BY <1>1, <1>3, <2>1 DEF WaitInv, ClosedForGood
  <2>4. FairOfLog'
    BY <1>1, <1>2, <1>3, <2>1, <2>2, FairSays DEF WaitInv, ClosedForGood, FairOfLog
  <2>5. QED BY <2>3, <2>4, FairSays
<1>4. ASSUME NEW e \in Event, log' = Append(log, e),
             e.type = "resolve" =>
               /\ e.cmd.id \in inTime \cup SyntheticIds
               /\ e.cmd.id = "ap-closed" => waiting /\ ~open /\ channel = <<>>
      PROVE  ClosedForGood' /\ WaitEndsFairly'
  <2>0. PICK n : n = Len(log) + 1 OBVIOUS
  <2>1. /\ DOMAIN log' = DOMAIN log \cup {n} /\ log'[n] = e
        /\ \A i \in DOMAIN log : log'[i] = log[i]
    BY <1>4, <2>0, Appended DEF Books
  <2>2. /\ n \notin DOMAIN log /\ 1..(n - 1) = DOMAIN log
        /\ \A i \in DOMAIN log : 1..(i - 1) \subseteq DOMAIN log
    BY <2>0 DEF Books
  <2>3. \A i \in DOMAIN log : /\ DeniedByClosure(i)' <=> DeniedByClosure(i)
                              /\ Fills(i)' = Fills(i)
    BY <2>1, <2>2 DEF DeniedByClosure, Fills, FirstResolve, Resolves, Answers
  <2>4. DeniedByClosure(n)' => waiting /\ ~open /\ channel = <<>>
    BY <1>4, <2>1 DEF DeniedByClosure
  <2>5. ClosedForGood'
    BY <1>1, <2>1, <2>3, <2>4 DEF WaitInv, ClosedForGood
  <2>6. \A i \in DOMAIN log' : log'[i].type = "resolve" => log'[i].cmd.id \in inTime' \cup SyntheticIds
    BY <1>1, <1>4, <2>1, FairSays DEF WaitInv, FairOfLog
  <2>7. \A i \in DOMAIN log : DeniedByClosure(i)' => \A p \in Fills(i)' : ~Answered(p)'
    BY <1>2, <2>3, FairSays DEF WaitInv, ClosedForGood, FairOfLog
  <2>8. ASSUME DeniedByClosure(n)', NEW p \in Fills(n)' PROVE ~Answered(p)'
    <3>1. p \in Gated /\ \A j \in DOMAIN log : ~Resolves(j, p)
      BY <2>1, <2>2, <2>8 DEF Fills, FirstResolve, Resolves, Answers
    <3>2. decisions[p] = "undecided"
      BY <3>1 DEF DecisionsFollowLog, FirstResolve
    <3>3. ~Answered(p)
      BY <2>4, <2>8, <3>1, <3>2, ClosureFindsNobody DEF TypeOK, WaitInv
    <3>4. QED BY <1>2, <2>4, <2>8, <3>3
  <2>9. \A i \in DOMAIN log' : DeniedByClosure(i)' => \A p \in Fills(i)' : ~Answered(p)'
    BY <2>1, <2>7, <2>8
  <2>10. WaitEndsFairly' BY <2>6, <2>9, FairSays DEF FairOfLog
  <2>11. QED BY <2>5, <2>10
<1>5. ASSUME NEW c, Settles(c), ByClient(c) \/ ByTimer(c) \/ ByClosure(c)
      PROVE  ClosedForGood' /\ WaitEndsFairly'
  <2>1. ResolveEvent(c) \in Event /\ ResolveEvent(c).cmd = c /\ log' = Append(log, ResolveEvent(c))
    BY <1>5, SettlesEvent DEF Settles, ResolveEvent
  <2>2. CASE ByClient(c)
    <3>1. PICK i \in DOMAIN resolves : resolves[i] = c /\ c \in Commands
      BY <2>2 DEF ByClient, Buffered, TypeOK, InboxType
    <3>2. c.id \in inTime
      BY <2>2, <3>1 DEF ByClient, WaitInv, OnTime
    <3>3. c.id # "ap-closed"
      BY <3>1, DispatchAssumption DEF WellFormed, SyntheticIds
    <3>4. QED BY <1>4, <2>1, <3>2, <3>3
  <2>3. CASE ByTimer(c)
    <3>1. c.id = "ap-timeout" BY <2>3 DEF ByTimer, Denial
    <3>2. QED BY <1>4, <2>1, <3>1 DEF SyntheticIds
  <2>4. CASE ByClosure(c)
    <3>1. c.id = "ap-closed" /\ waiting /\ ~open /\ channel = <<>>
      BY <2>4 DEF ByClosure, Denial
    <3>2. QED BY <1>4, <2>1, <3>1 DEF SyntheticIds
  <2>5. QED BY <1>5, <2>2, <2>3, <2>4
<1>6. ASSUME NEW e, log' = Append(log, e), e.type # "resolve", e \in Event
      PROVE  ClosedForGood' /\ WaitEndsFairly'
  BY <1>4, <1>6
<1>7. QED BY <1>3, <1>5, <1>6, WhoSettles DEF TypeOK

(* Late answers lose, and the closing of the channel never beats an answer *)
(* sent in time, whatever order the queue, the inbox and the clock are     *)
(* looked at in.                                                           *)
THEOREM WaitIsFair == Spec => []WaitEndsFairly
<1>1. Init => WaitInv
  <2> SUFFICES ASSUME Init PROVE WaitInv OBVIOUS
  <2>1. OnTime /\ Delivered BY DEF Init, OnTime, Delivered, Retried
  <2>2. Drained BY DEF Init, Drained
  <2>3. ClosedForGood /\ WaitEndsFairly
    BY DEF Init, ClosedForGood, WaitEndsFairly, LateAnswersLose, ClosureDeniesUnanswered
  <2>4. QED BY <2>1, <2>2, <2>3 DEF WaitInv
<1>2. TypeOK /\ Books /\ DecisionsFollowLog /\ WaitInv /\ [Next]_vars => WaitInv'
  BY OnTimeStep, DeliveredStep, DrainedStep, FairStep DEF TypeOK, WaitInv
<1>3. WaitInv => WaitEndsFairly BY DEF WaitInv
<1>4. QED
  BY <1>1, <1>2, <1>3, TypeCorrect, BooksAgree, DecisionsAreLogged, PTL DEF Spec

---------------------------------------------------------------------------
(* A batch seen through the hub.                                           *)

LEMMA GatedAreNumbered ==
  /\ GatedCalls \in Nat
  /\ \A p \in Gated : GatedIndex(p) \in 1..GatedCalls
  /\ \A p, q \in Gated : GatedIndex(p) = GatedIndex(q) => p = q
  /\ \A i \in 1..GatedCalls : \E p \in Gated : GatedIndex(p) = i
<1> DEFINE UpTo(p) == {q \in Gated : q <= p}
<1>1. GatedCalls \in Nat /\ IsFiniteSet(Gated) /\ Gated \subseteq 1..N
  BY GatedFinite, DispatchAssumption DEF GatedCalls, Position
<1>2. ASSUME NEW p \in Gated
      PROVE  IsFiniteSet(UpTo(p)) /\ GatedIndex(p) = Cardinality(UpTo(p)) /\ p \in UpTo(p)
  <2>1. UpTo(p) \in SUBSET Gated OBVIOUS
  <2>2. p <= p BY <1>1
  <2>3. QED BY <1>1, <2>1, <2>2, FS_Subset DEF GatedIndex
<1>3. ASSUME NEW p \in Gated PROVE GatedIndex(p) \in 1..GatedCalls
  <2>1. UpTo(p) \in SUBSET Gated OBVIOUS
  <2>2. GatedIndex(p) \in Nat BY <1>2, FS_CardinalityType
  <2>5. GatedIndex(p) <= GatedCalls
    <3>1. Cardinality(UpTo(p)) <= Cardinality(Gated) BY <1>1, <2>1, FS_Subset
    <3>2. QED BY <1>2, <3>1 DEF GatedCalls
  <2>3. GatedIndex(p) # 0
    <3>1. UpTo(p) # {} BY <1>2
    <3>2. QED BY <1>2, <3>1, FS_EmptySet
  <2>4. QED BY <1>1, <2>2, <2>3, <2>5
<1>4. ASSUME NEW p \in Gated, NEW q \in Gated, p < q PROVE GatedIndex(p) # GatedIndex(q)
  <2>1. \A x \in UpTo(p) : x \in UpTo(q) BY <1>1, <1>4
  <2>2. q \notin UpTo(p) /\ q \in UpTo(q) BY <1>1, <1>4
  <2>3. UpTo(p) \in SUBSET UpTo(q) /\ UpTo(p) # UpTo(q) BY <2>1, <2>2
  <2>4. Cardinality(UpTo(q)) # Cardinality(UpTo(p)) BY <1>2, <2>3, FS_Subset
  <2>5. QED BY <1>2, <2>4
<1> HIDE DEF UpTo
<1>5. ASSUME NEW p \in Gated, NEW q \in Gated, GatedIndex(p) = GatedIndex(q) PROVE p = q
  <2>1. p < q \/ q < p \/ p = q BY <1>1
  <2>2. QED BY <1>4, <1>5, <2>1
<1>6. ASSUME NEW i \in 1..GatedCalls PROVE \E p \in Gated : GatedIndex(p) = i
  <2>1. PICK f : f = [p \in Gated |-> GatedIndex(p)] OBVIOUS
  <2>2. f \in Injection(Gated, 1..GatedCalls)
    <3>1. f \in [Gated -> 1..GatedCalls] BY <1>3, <2>1
    <3>2. \A p, q \in Gated : f[p] = f[q] => p = q BY <1>5, <2>1
    <3>3. QED BY <3>1, <3>2 DEF Injection, IsInjective
  <2>3. IsFiniteSet(1..GatedCalls) /\ Cardinality(1..GatedCalls) = GatedCalls
    <3>1. 0 <= GatedCalls /\ 1 \in Int /\ GatedCalls \in Int BY <1>1
    <3>2. Cardinality(1..GatedCalls) = IF 1 > GatedCalls THEN 0 ELSE GatedCalls - 1 + 1
      BY <3>1, FS_Interval
    <3>3. QED BY <1>1, <3>1, <3>2, FS_Interval
  <2>4. f \in Surjection(Gated, 1..GatedCalls) BY <2>2, <2>3, FS_Injection DEF GatedCalls
  <2>5. \E p \in Gated : f[p] = i BY <2>4 DEF Surjection
  <2>6. QED BY <2>1, <2>5
<1>7. QED BY <1>1, <1>3, <1>5, <1>6

\* The slot of a call says what the gate says.
SlotsSayDecisions ==
  /\ DOMAIN Slots = 1..GatedCalls
  /\ \A p \in Gated :
       /\ GatedIndex(p) \in 1..GatedCalls
       /\ Slots[GatedIndex(p)] = IF decisions[p] = "undecided" THEN "none" ELSE decisions[p]
  /\ \A i \in 1..GatedCalls : \E p \in Gated : GatedIndex(p) = i

LEMMA SlotsAreDecisions == SlotsSayDecisions
<1>1. ASSUME NEW p \in Gated
      PROVE  Slots[GatedIndex(p)] = IF decisions[p] = "undecided" THEN "none" ELSE decisions[p]
  <2>1. PICK q : q = CHOOSE r \in Gated : GatedIndex(r) = GatedIndex(p) OBVIOUS
  <2>2. q \in Gated /\ GatedIndex(q) = GatedIndex(p) BY <2>1
  <2>3. q = p BY <2>2, GatedAreNumbered
  <2>4. QED BY <2>1, <2>3, GatedAreNumbered DEF Slots
<1>2. DOMAIN Slots = 1..GatedCalls BY DEF Slots
<1>3. QED BY <1>1, <1>2, GatedAreNumbered DEF SlotsSayDecisions

LEMMA PendingSlots == GateType => (Pending <=> \E i \in 1..GatedCalls : Slots[i] = "none")
<1> SUFFICES ASSUME GateType PROVE Pending <=> \E i \in 1..GatedCalls : Slots[i] = "none"
  OBVIOUS
<1>1. \A p \in Gated : decisions[p] # "none"
  BY DispatchAssumption DEF GateType, Decided
<1>2. QED BY <1>1, SlotsAreDecisions DEF Pending, SlotsSayDecisions

\* A reply that decides something, slot by slot.
LEMMA SlotsAnswered ==
  ASSUME GateType, NEW c, Settles(c)
  PROVE  /\ GatedCalls \in Nat \ {0} /\ c.kind \in {"batch", "call"} /\ Pending
         /\ c.kind = "batch" => /\ Slots' = Filled(Slots, c.decisions)
                                /\ \A i \in 1..GatedCalls : Slots'[i] # "none"
         /\ c.kind # "batch" => /\ c.index \in 1..GatedCalls /\ Slots[c.index] = "none"
                                /\ Slots' = [Slots EXCEPT ![c.index] = c.decision]
<1>1. c.kind \in {"batch", "call"} BY DEF Settles, ResolveCommands, Denial
<1>2. PICK p \in Gated : decisions[p] = "undecided" /\ Answers(c, p) BY DEF Settles, Updates
<1>3. SlotsSayDecisions' BY SlotsAreDecisions, PTL
<1>4. ASSUME NEW q \in Gated
      PROVE  /\ decisions'[q] = IF q \in Updates(c) THEN DecisionOf(c, q) ELSE decisions[q]
             /\ DecisionOf(c, q) \in Decided /\ decisions[q] \in {"undecided"} \cup Decided
  <2>1. DecisionOf(c, q) \in Decided BY DecisionType DEF Settles
  <2>2. QED BY <2>1, DispatchAssumption DEF Settles, GateType
<1>5. /\ DOMAIN Slots = 1..GatedCalls /\ DOMAIN Slots' = 1..GatedCalls
      /\ Slots' = [i \in 1..GatedCalls |-> Slots'[i]]
  BY DEF Slots
<1>6. ASSUME NEW q \in Gated
      PROVE  /\ GatedIndex(q) \in 1..GatedCalls
             /\ Slots[GatedIndex(q)] = IF decisions[q] = "undecided" THEN "none" ELSE decisions[q]
             /\ Slots'[GatedIndex(q)] = IF q \in Updates(c) THEN DecisionOf(c, q)
                                        ELSE Slots[GatedIndex(q)]
  <2>1. /\ GatedIndex(q) \in 1..GatedCalls
        /\ Slots[GatedIndex(q)] = IF decisions[q] = "undecided" THEN "none" ELSE decisions[q]
        /\ Slots'[GatedIndex(q)] = IF decisions'[q] = "undecided" THEN "none" ELSE decisions'[q]
    BY <1>3, SlotsAreDecisions DEF SlotsSayDecisions
  <2>2. DecisionOf(c, q) # "undecided" BY <1>4 DEF Decided
  <2>3. QED BY <1>4, <2>1, <2>2
<1>7. \A i \in 1..GatedCalls : \E q \in Gated : GatedIndex(q) = i BY GatedAreNumbered
<1>8. ASSUME c.kind = "batch"
      PROVE  /\ Slots' = Filled(Slots, c.decisions)
             /\ \A i \in 1..GatedCalls : Slots'[i] # "none"
  <2>1. ASSUME NEW i \in 1..GatedCalls
        PROVE  Slots'[i] = Filled(Slots, c.decisions)[i] /\ Slots'[i] # "none"
    <3>1. PICK q \in Gated : GatedIndex(q) = i BY <1>7
    <3>2. q \in Updates(c) <=> decisions[q] = "undecided" BY <1>8 DEF Updates, Answers
    <3>3. DecisionOf(c, q) = IF i \in DOMAIN c.decisions THEN c.decisions[i] ELSE "rejected"
      BY <1>8, <3>1 DEF DecisionOf
    <3>4. Filled(Slots, c.decisions)[i] =
            IF Slots[i] # "none" THEN Slots[i]
            ELSE IF i \in DOMAIN c.decisions THEN c.decisions[i] ELSE "rejected"
      BY <1>5 DEF Filled
    <3>5. DecisionOf(c, q) # "none" /\ decisions[q] # "none" BY <1>4 DEF Decided
    <3>6. QED BY <1>6, <3>1, <3>2, <3>3, <3>4, <3>5
  <2>2. Filled(Slots, c.decisions) = [i \in 1..GatedCalls |-> Filled(Slots, c.decisions)[i]]
    BY <1>5 DEF Filled
  <2>3. QED BY <1>5, <2>1, <2>2
<1>9. ASSUME c.kind # "batch"
      PROVE  /\ c.index \in 1..GatedCalls /\ Slots[c.index] = "none"
             /\ Slots' = [Slots EXCEPT ![c.index] = c.decision]
  <2>1. c.kind = "call" /\ c.index = GatedIndex(p) BY <1>1, <1>2, <1>9 DEF Answers
  <2>2. c.index \in 1..GatedCalls /\ Slots[c.index] = "none" BY <1>2, <1>6, <2>1
  <2>3. ASSUME NEW i \in 1..GatedCalls
        PROVE  Slots'[i] = IF i = c.index THEN c.decision ELSE Slots[i]
    <3>1. PICK q \in Gated : GatedIndex(q) = i BY <1>7
    <3>2. q \in Updates(c) <=> decisions[q] = "undecided" /\ c.index = i
      BY <2>1, <3>1 DEF Updates, Answers
    <3>3. i = c.index => q = p BY <2>1, <3>1, GatedAreNumbered
    <3>4. DecisionOf(c, q) = c.decision BY <2>1 DEF DecisionOf
    <3>5. QED BY <1>2, <1>6, <3>1, <3>2, <3>3, <3>4
  <2>4. QED BY <1>5, <2>2, <2>3
<1>10. GatedCalls \in Nat \ {0}
  <2>1. GatedIndex(p) \in 1..GatedCalls BY <1>6
  <2>2. QED BY <2>1, GatedAreNumbered
<1>11. QED BY <1>1, <1>2, <1>8, <1>9, <1>10 DEF Pending

\* A settled batch tells its slots.
Tells(r, ds) ==
  /\ r.request = Request
  /\ {r.calls[x] : x \in DOMAIN r.calls} = {i \in 1..GatedCalls : ds[i] # "none"}
  /\ \A x, y \in DOMAIN r.calls : x < y => r.calls[x] < r.calls[y]
  /\ \A x \in DOMAIN r.calls : r.decisions[x] = ds[r.calls[x]]

LEMMA SettlementTells ==
  ASSUME NEW index, NEW ds, Slotted(ds, GatedCalls)
  PROVE  Tells(Settlement(Asked(Request, Turn, index, ds)), ds)
<1>0. PICK r : r = Settlement(Asked(Request, Turn, index, ds)) OBVIOUS
<1>1. PICK p : p = Asked(Request, Turn, index, ds) OBVIOUS
<1>2. p.request = Request /\ p.decisions = ds BY <1>1, AskedAgain
<1>3. QED BY <1>0, <1>1, <1>2, SettlementSays, GatedAreNumbered DEF Slotted, Tells

---------------------------------------------------------------------------
(* The invariant.                                                          *)

HeldBackCalls ==
  {p \in Position : outcomes[p] # "none" /\ \A i \in DOMAIN completed : completed[i] # p}

HubIsOf ==
  /\ IsHub(hub) /\ IsSequence(early)
  /\ \A id \in hub.seen : id \in 1..Len(log)
  /\ \A d \in hub.done : d.turn = Turn

\* A settled call waits for its publication once.
SettledOnce ==
  \A i \in DOMAIN completed :
    /\ completed[i] \in started /\ completed[i] \notin running
    /\ \A j \in DOMAIN completed : completed[j] = completed[i] => j = i

ShowsGate ==
  IF Pending /\ ~TerminalLogged
  THEN hub.settled = <<>> /\ \E k : hub.pending = <<Asked(Request, Turn, k, Slots)>>
  ELSE /\ hub.pending = <<>>
       /\ IF \A i \in 1..GatedCalls : Slots[i] = "none" THEN hub.settled = <<>>
          ELSE \E r : hub.settled = <<r>> /\ r.request = Request /\ TellsSlots(r)

OverIsDone == TerminalLogged => pc = "done"

LiveInv == HubIsOf /\ SettledOnce /\ ShowsGate /\ CompletionsShowHeldBack

---------------------------------------------------------------------------
(* What a step publishes.                                                  *)

\* Nothing that a client is shown moves, a reply is recorded, or one of the
\* steps that record or settle something is taken.
LEMMA LiveFrame ==
  ASSUME InboxType, [Next]_vars
  PROVE  \/ UNCHANGED <<log, decisions, early, started, running, outcomes, completed>>
         \/ \E c : Settles(c) /\ c.req = Request /\ UNCHANGED <<early, callVars>>
         \/ UNCHANGED decisions /\ \/ AdmitCall \/ FlushResult \/ PublishOne \/ TickTool
                                   \/ RecordInterrupt \/ RecordFinished
<1>1. CASE HeadReceive \/ TickCommand
  <2>1. UNCHANGED <<early, callVars>> BY <1>1 DEF HeadReceive, TickCommand
  <2>2. UNCHANGED <<log, decisions>> \/ \E id \in SyntheticIds : Apply(Denial(id))
    BY <1>1 DEF HeadReceive, TickCommand, Receive, SyntheticIds
  <2>3. ASSUME NEW id \in SyntheticIds, Apply(Denial(id))
        PROVE  \/ UNCHANGED <<log, decisions>>
               \/ Settles(Denial(id)) /\ Denial(id).req = Request
    BY <2>3 DEF Apply, Settles, Denial
  <2>4. QED BY <2>1, <2>2, <2>3 DEF callVars
<1>2. CASE DrainTimeout
  <2>1. Apply(Denial("ap-timeout")) /\ UNCHANGED <<early, callVars>> BY <1>2 DEF DrainTimeout
  <2>2. \/ UNCHANGED <<log, decisions>>
        \/ Settles(Denial("ap-timeout")) /\ Denial("ap-timeout").req = Request
    BY <2>1 DEF Apply, Settles, SyntheticIds, Denial
  <2>3. QED BY <2>1, <2>2 DEF callVars
<1>3. CASE DrainAnswer
  <2>1. PICK i \in DOMAIN resolves : Apply(resolves[i]) /\ resolves[i].req = Request
    BY <1>3 DEF DrainAnswer, IsNextAnswer
  <2>2. resolves[i] \in ResolveCommands BY DEF InboxType, ResolveCommands
  <2>3. UNCHANGED <<early, callVars>> BY <1>3 DEF DrainAnswer
  <2>4. UNCHANGED <<log, decisions>> \/ Settles(resolves[i])
    BY <2>1, <2>2 DEF Apply, Settles
  <2>5. QED BY <2>1, <2>3, <2>4 DEF callVars
<1>4. CASE AdmitCall \/ FlushResult \/ PublishOne \/ TickTool \/ RecordInterrupt \/ RecordFinished
  BY <1>4 DEF AdmitCall, FlushResult, PublishOne, TickTool, RecordInterrupt, RecordFinished, intake
<1>5. CASE ~(\/ HeadReceive \/ TickCommand \/ DrainTimeout \/ DrainAnswer \/ AdmitCall
             \/ FlushResult \/ PublishOne \/ TickTool \/ RecordInterrupt \/ RecordFinished)
  BY <1>5 DEF Next, LoopStep, vars, intake, callVars, Send, Close, Expire, HeadIdle, PollOne,
              PollDone, DrainDone, AdmitDone, FlushSkip, FlushDone, Leave, Again, Park,
              AppendFails, Returned
<1>6. QED BY <1>1, <1>2, <1>3, <1>4, <1>5

\* What the loop's own records append.
LEMMA RecordedEvents ==
  ASSUME CallType, FlowType
  PROVE  /\ AdmitCall => \E p \in Ready : /\ p \in Position /\ Start(p)
                                         /\ CallEvent(p) \in Event
                                         /\ CallEvent(p).type = "call"
                                         /\ log' = Append(log, CallEvent(p))
         /\ FlushResult => \E p \in Position, o \in Outcomes :
                             /\ ResultEvent(p, o) \in Event
                             /\ ResultEvent(p, o).type = "result" /\ ResultEvent(p, o).pos = p
                             /\ log' = Append(log, ResultEvent(p, o))
                             /\ outcomes' = [outcomes EXCEPT ![p] = "none"]
         /\ RecordInterrupt => \E e \in Event : e.type = "interrupt" /\ log' = Append(log, e)
         /\ FinishedEvent \in Event /\ FinishedEvent.type = "finished"
<1>1. ASSUME AdmitCall
      PROVE  \E p \in Ready : /\ p \in Position /\ Start(p) /\ CallEvent(p) \in Event
                             /\ CallEvent(p).type = "call" /\ log' = Append(log, CallEvent(p))
  <2>1. PICK p \in Ready : Start(p) BY <1>1 DEF AdmitCall
  <2>2. p \in Position BY DEF Ready
  <2>3. CallEvent(p) \in Event /\ CallEvent(p).type = "call" BY <2>2 DEF Event, CallEvent
  <2>4. QED BY <2>1, <2>2, <2>3 DEF Start
<1>2. ASSUME FlushResult
      PROVE  \E p \in Position, o \in Outcomes :
               /\ ResultEvent(p, o) \in Event
               /\ ResultEvent(p, o).type = "result" /\ ResultEvent(p, o).pos = p
               /\ log' = Append(log, ResultEvent(p, o))
               /\ outcomes' = [outcomes EXCEPT ![p] = "none"]
  <2>1. PICK p, o : p = flushed + 1 /\ o = outcomes[flushed + 1] OBVIOUS
  <2>2. p \in Position /\ o # "none"
    BY <1>2, <2>1, DispatchAssumption DEF FlushResult, CallType, Position
  <2>3. o \in Outcomes BY <2>1, <2>2 DEF CallType, Outcomes
  <2>4. ResultEvent(p, o) \in Event BY <2>2, <2>3 DEF Event
  <2>5. ResultEvent(p, o).type = "result" /\ ResultEvent(p, o).pos = p BY DEF ResultEvent
  <2>6. QED BY <1>2, <2>1, <2>2, <2>3, <2>4, <2>5 DEF FlushResult
<1>3. InterruptEvent(interrupt) \in Event /\ InterruptEvent(interrupt).type = "interrupt"
  BY DEF FlowType, Event, InterruptEvent
<1>4. FinishedEvent \in Event /\ FinishedEvent.type = "finished" BY DEF Event, FinishedEvent
<1>5. QED BY <1>1, <1>2, <1>3, <1>4 DEF RecordInterrupt

\* An appended event as the hub tracks it.
LEMMA EventTold ==
  ASSUME Books, HubIsOf, NEW e \in Event, log' = Append(log, e), early' = early,
         TellEvent \/ TellCompletion \/ TellNothing
  PROVE  /\ HubIsOf'
         /\ e.type \notin {"resolve", "finished"} =>
              hub'.pending = hub.pending /\ hub'.settled = hub.settled
         /\ e.type = "resolve" =>
              \E h : /\ IsHub(h) /\ h.pending = hub.pending /\ h.settled = hub.settled
                     /\ hub'.pending = Resolve(h, e.cmd).pending
                     /\ hub'.settled = Resolve(h, e.cmd).settled
         /\ e.type = "finished" =>
              /\ hub'.pending = <<>>
              /\ \E h : /\ IsHub(h) /\ h.pending = hub.pending /\ h.settled = hub.settled
                        /\ hub'.settled = RetirePending(h).settled
         /\ e.type = "result" => hub'.done = {d \in hub.done : d.span # e.pos}
         /\ e.type = "finished" => hub'.done = {}
         /\ e.type \notin {"result", "finished"} => hub'.done = hub.done
<1>1. PICK n : n = Len(log) + 1 OBVIOUS
<1>2. /\ Len(log) \in Nat /\ Len(log') = n /\ log'[n] = e /\ log' # log
  BY <1>1, Appended DEF Books
<1>3. PICK item : item = LiveEvent(e, n) OBVIOUS
<1>4. hub' = Track(hub, item)
  <2>1. TellEvent BY <1>2 DEF TellCompletion, TellNothing
  <2>2. Last(log') = e BY <1>2 DEF Last
  <2>3. QED BY <1>2, <1>3, <2>1, <2>2 DEF TellEvent
<1>5. e.type \in {"resolve", "call", "result", "interrupt", "finished"}
  BY DEF Event, ResolveEvent, CallEvent, ResultEvent, InterruptEvent, FinishedEvent
<1>6. PICK ev : ev = Told(e, n) OBVIOUS
<1>7. /\ ev.id = n /\ ev.type = e.type
      /\ e.type = "resolve" => ev.cmd = e.cmd
      /\ e.type = "result" => ev.span = e.pos
  BY <1>5, <1>6 DEF Told
<1>8. item.kind = "recorded" /\ item.event = ev BY <1>3, <1>6 DEF LiveEvent
<1>9. n \notin hub.seen
  <2>1. n \notin 1..Len(log) BY <1>1, <1>2
  <2>2. QED BY <2>1 DEF HubIsOf
<1>10. PICK h : h = At(hub, item.seq) OBVIOUS
<1>11. IsHub(h) /\ h.pending = hub.pending /\ h.settled = hub.settled
  BY <1>10, AtIsSame DEF HubIsOf, Same, At, IsHub, HubFields
<1>12. PICK t : /\ Moves(h, ev, t) /\ hub'.seen = hub.seen \cup {n}
                /\ hub'.pending = t.pending /\ hub'.settled = t.settled
  BY <1>4, <1>7, <1>8, <1>9, <1>10, TrackParts DEF HubIsOf
<1>13. /\ ev.type = "result" => hub'.done = {d \in hub.done : d.span # ev.span}
       /\ ev.type = "finished" => hub'.done = {}
       /\ ev.type \notin {"result", "request", "finished"} => hub'.done = hub.done
  BY <1>4, <1>7, <1>8, <1>9, TrackDone DEF HubIsOf
<1>14. HubIsOf'
  <2>1. IsHub(hub') BY <1>4, <1>8, TrackMovesOn DEF HubIsOf
  <2>2. \A id \in hub'.seen : id \in 1..Len(log')
    <3>1. \A id \in 1..Len(log) : id \in 1..Len(log') BY <1>1, <1>2
    <3>2. n \in 1..Len(log') BY <1>1, <1>2
    <3>3. QED BY <1>12, <3>1, <3>2 DEF HubIsOf
  <2>3. \A d \in hub'.done : d.turn = Turn
    <3>1. \A d \in hub'.done : d \in hub.done BY <1>5, <1>7, <1>13
    <3>2. QED BY <3>1 DEF HubIsOf
  <2>4. IsSequence(early') BY DEF HubIsOf
  <2>5. QED BY <2>1, <2>2, <2>3, <2>4 DEF HubIsOf
<1>15. e.type \notin {"resolve", "finished"} =>
         hub'.pending = hub.pending /\ hub'.settled = hub.settled
  BY <1>7, <1>11, <1>12 DEF Moves
<1>16. e.type = "resolve" => /\ hub'.pending = Resolve(h, e.cmd).pending
                             /\ hub'.settled = Resolve(h, e.cmd).settled
  BY <1>7, <1>12 DEF Moves
<1>17. e.type = "finished" => /\ hub'.pending = <<>>
                              /\ hub'.settled = RetirePending(h).settled
  BY <1>7, <1>12 DEF Moves
<1>18. /\ e.type = "result" => hub'.done = {d \in hub.done : d.span # e.pos}
       /\ e.type = "finished" => hub'.done = {}
       /\ e.type \notin {"result", "finished"} => hub'.done = hub.done
  BY <1>5, <1>7, <1>13
<1>19. QED BY <1>11, <1>14, <1>15, <1>16, <1>17, <1>18

\* The end of the log after an event.
LEMMA EndOfLog ==
  ASSUME Books, NEW e \in Event, log' = Append(log, e)
  PROVE  TerminalLogged' <=> e = FinishedEvent
<1>1. Len(log) \in Nat /\ Len(log') = Len(log) + 1 /\ log'[Len(log) + 1] = e
  BY Appended DEF Books
<1>2. QED BY <1>1 DEF TerminalLogged, FinishedEvent

\* The run ends once, and nothing is told after it.
LEMMA OverStep ==
  ASSUME InboxType, CallType, FlowType, Books, OverIsDone, [Next]_vars
  PROVE  /\ OverIsDone'
         /\ TerminalLogged => UNCHANGED vars
<1>1. ASSUME pc = "done" PROVE UNCHANGED vars
  BY <1>1 DEF Next, LoopStep, Live, Send, Close, Expire, HeadReceive, HeadIdle, PollOne,
              PollDone, DrainTimeout, DrainAnswer, DrainDone, AdmitCall, AdmitDone,
              FlushResult, FlushSkip, FlushDone, PublishOne, Leave, Again, Park, TickTool,
              TickCommand, RecordInterrupt, RecordFinished, AppendFails, Returned, MustAppend
<1>2. CASE TerminalLogged
  <2>1. UNCHANGED vars BY <1>1, <1>2 DEF OverIsDone
  <2>2. pc' = pc /\ log' = log BY <2>1 DEF vars
  <2>3. QED BY <2>1, <2>2 DEF OverIsDone, TerminalLogged
<1>3. CASE ~TerminalLogged
  <2>1. CASE log' = log BY <1>3, <2>1 DEF OverIsDone, TerminalLogged
  <2>2. CASE RecordFinished BY <2>2 DEF RecordFinished, OverIsDone
  <2>3. ASSUME NEW e \in Event, log' = Append(log, e), e.type # "finished" PROVE OverIsDone'
    <3>1. e # FinishedEvent BY <2>3 DEF FinishedEvent
    <3>2. QED BY <2>3, <3>1, EndOfLog DEF OverIsDone
  <2>4. ASSUME NEW c, Settles(c) PROVE OverIsDone'
    <3>1. ResolveEvent(c) \in Event /\ ResolveEvent(c).type # "finished"
      BY <2>4, SettlesEvent DEF ResolveEvent
    <3>2. QED BY <2>3, <2>4, <3>1 DEF Settles
  <2>5. CASE AdmitCall \/ FlushResult \/ RecordInterrupt
    <3>1. \E e \in Event : log' = Append(log, e) /\ e.type # "finished" BY <2>5, RecordedEvents
    <3>2. PICK e \in Event : log' = Append(log, e) /\ e.type # "finished" BY <3>1
    <3>3. QED BY <1>3, <2>3, <3>2
  <2>6. \/ log' = log \/ \E c : Settles(c)
        \/ AdmitCall \/ FlushResult \/ RecordInterrupt \/ RecordFinished
    BY LogFrame
  <2>7. CASE \E c : Settles(c)
    <3>1. PICK c : Settles(c) BY <2>7
    <3>2. QED BY <1>3, <2>4, <3>1
  <2>8. QED BY <2>1, <2>2, <2>5, <2>6, <2>7
<1>4. QED BY <1>2, <1>3

---------------------------------------------------------------------------
(* The dialog and the provisional outcomes, step by step.                  *)

\* What a client is shown of the approvals depends on the gate's decisions.
LEMMA ShownStays ==
  ASSUME ShowsGate, decisions' = decisions, TerminalLogged' <=> TerminalLogged,
         hub'.pending = hub.pending, hub'.settled = hub.settled
  PROVE  ShowsGate'
<1>1. (Pending' <=> Pending) /\ Slots' = Slots BY DEF Pending, Slots
<1>2. \A r : TellsSlots(r)' <=> TellsSlots(r) BY <1>1 DEF TellsSlots
<1>3. QED BY <1>1, <1>2 DEF ShowsGate

\* A recorded reply leaves the request open or settles it, on both sides.
LEMMA ShownAnswered ==
  ASSUME GateType, GateType', Books, HubIsOf, ShowsGate, ~TerminalLogged,
         NEW c, Settles(c), c.req = Request, early' = early,
         TellEvent \/ TellCompletion \/ TellNothing
  PROVE  HubIsOf' /\ ShowsGate' /\ ~TerminalLogged' /\ hub'.done = hub.done
<1>1. PICK e : e = ResolveEvent(c) OBVIOUS
<1>2. e \in Event /\ log' = Append(log, e) /\ e.type = "resolve" /\ e.cmd = c
  BY <1>1, SettlesEvent DEF Settles, ResolveEvent
<1>3. /\ HubIsOf' /\ hub'.done = hub.done
      /\ \E h : /\ IsHub(h) /\ h.pending = hub.pending /\ h.settled = hub.settled
                /\ hub'.pending = Resolve(h, c).pending
                /\ hub'.settled = Resolve(h, c).settled
  BY <1>2, EventTold
<1>4. PICK h : /\ IsHub(h) /\ h.pending = hub.pending /\ h.settled = hub.settled
               /\ hub'.pending = Resolve(h, c).pending
               /\ hub'.settled = Resolve(h, c).settled
  BY <1>3
<1>5. ~TerminalLogged'
  <2>1. e # FinishedEvent BY <1>2 DEF FinishedEvent
  <2>2. QED BY <1>2, <2>1, EndOfLog
<1>6. PICK n : n = GatedCalls OBVIOUS
<1>7. /\ n \in Nat \ {0} /\ c.kind \in {"batch", "call"} /\ Pending
      /\ c.kind = "batch" => /\ Slots' = Filled(Slots, c.decisions)
                             /\ \A i \in 1..n : Slots'[i] # "none"
      /\ c.kind # "batch" => /\ c.index \in 1..n /\ Slots[c.index] = "none"
                             /\ Slots' = [Slots EXCEPT ![c.index] = c.decision]
  BY <1>6, SlotsAnswered
<1>8. PICK k : hub.pending = <<Asked(Request, Turn, k, Slots)>> /\ hub.settled = <<>>
  BY <1>7 DEF ShowsGate
<1>9. DOMAIN Slots = 1..n /\ DOMAIN Slots' = 1..n BY <1>6 DEF Slots
<1>10. Pending' <=> \E i \in 1..n : Slots'[i] = "none"
  <2>1. (GateType => (Pending <=> \E i \in 1..GatedCalls : Slots[i] = "none"))'
    BY PendingSlots, PTL
  <2>2. QED BY <1>6, <2>1
<1>11. IF \A i \in 1..n : Slots'[i] # "none"
       THEN OnlySettled(hub', Asked(Request, Turn, k, Slots'))
       ELSE OnlyOpen(hub', Asked(Request, Turn, k, Slots'))
  <2>1. Window # 0 BY DispatchLiveAssumption
  <2>2. PICK ds : ds = Slots OBVIOUS
  <2>3. OnlyOpen(h, Asked(c.req, Turn, k, ds)) /\ Slotted(ds, n)
    BY <1>4, <1>7, <1>8, <1>9, <2>2 DEF OnlyOpen, Slotted
  <2>4. CASE c.kind = "batch"
    <3>1. OnlySettled(Resolve(h, c), Asked(c.req, Turn, k, Filled(ds, c.decisions)))
      <4>1. PICK after : after = [ds EXCEPT ![c.index] = c.decision] OBVIOUS
      <4>2. QED BY <1>4, <2>1, <2>3, <2>4, <4>1, ResolveOnly
    <3>2. OnlySettled(hub', Asked(c.req, Turn, k, Filled(ds, c.decisions)))
      BY <1>4, <3>1 DEF OnlySettled
    <3>3. QED BY <1>7, <2>2, <2>4, <3>2
  <2>5. CASE c.kind # "batch"
    <3>1. PICK after : after = [ds EXCEPT ![c.index] = c.decision] OBVIOUS
    <3>2. c.index \in 1..n /\ ds[c.index] = "none" /\ Slots' = after
      BY <1>7, <2>2, <2>5, <3>1
    <3>3. IF AllSlotsFilled(after, n)
          THEN OnlySettled(Resolve(h, c), Asked(c.req, Turn, k, after))
          ELSE OnlyOpen(Resolve(h, c), Asked(c.req, Turn, k, after))
      BY <1>4, <2>1, <2>3, <2>5, <3>1, <3>2, ResolveOnly
    <3>4. QED BY <1>4, <3>2, <3>3 DEF AllSlotsFilled, OnlySettled, OnlyOpen
  <2>6. QED BY <2>4, <2>5
<1>12. CASE \E i \in 1..n : Slots'[i] = "none"
  <2>1. hub'.pending = <<Asked(Request, Turn, k, Slots')>> /\ hub'.settled = <<>>
    BY <1>11, <1>12 DEF OnlyOpen
  <2>2. Pending' /\ ~TerminalLogged' BY <1>5, <1>10, <1>12
  <2>3. ShowsGate' BY <2>1, <2>2 DEF ShowsGate
  <2>4. QED BY <1>3, <1>5, <2>3
<1>13. CASE \A i \in 1..n : Slots'[i] # "none"
  <2>1. PICK r : r = Settlement(Asked(Request, Turn, k, Slots')) OBVIOUS
  <2>2. hub'.pending = <<>> /\ hub'.settled = <<r>> BY <1>11, <1>13, <2>1 DEF OnlySettled
  <2>3. ~Pending' BY <1>10, <1>13
  <2>4. PICK ds : ds = Slots' OBVIOUS
  <2>5. Slotted(ds, GatedCalls) BY <1>6, <1>7, <1>9, <2>4 DEF Slotted
  <2>6. Tells(r, ds) BY <2>1, <2>4, <2>5, SettlementTells
  <2>11. r.request = Request /\ TellsSlots(r)' BY <2>4, <2>6 DEF TellsSlots, Tells
  <2>7. ~ \A i \in 1..GatedCalls : Slots'[i] = "none"
    <3>1. 1 \in 1..n BY <1>7
    <3>2. QED BY <1>6, <1>13, <3>1
  <2>8. \E q : hub'.settled = <<q>> /\ q.request = Request /\ TellsSlots(q)'
    BY <2>2, <2>11
  <2>9. ShowsGate' BY <2>2, <2>3, <2>7, <2>8 DEF ShowsGate
  <2>10. QED BY <1>3, <1>5, <2>9
<1>14. QED BY <1>12, <1>13

\* The terminal record retires the open request with what was answered of it.
LEMMA ShownFinished ==
  ASSUME GateType, CallType, FlowType, Books, HubIsOf, ShowsGate, ~TerminalLogged, RecordFinished,
         decisions' = decisions, TellEvent \/ TellCompletion \/ TellNothing
  PROVE  HubIsOf' /\ ShowsGate' /\ TerminalLogged' /\ hub'.done = {}
<1>1. PICK e : e = FinishedEvent OBVIOUS
<1>2. e \in Event /\ e.type = "finished" BY <1>1, RecordedEvents
<1>3. log' = Append(log, e) /\ early' = early BY <1>1 DEF RecordFinished
<1>4. /\ HubIsOf' /\ hub'.done = {} /\ hub'.pending = <<>>
      /\ \E h : /\ IsHub(h) /\ h.pending = hub.pending /\ h.settled = hub.settled
                /\ hub'.settled = RetirePending(h).settled
  BY <1>2, <1>3, EventTold
<1>5. PICK h : /\ IsHub(h) /\ h.pending = hub.pending /\ h.settled = hub.settled
               /\ hub'.settled = RetirePending(h).settled
  BY <1>4
<1>6. TerminalLogged' BY <1>1, <1>2, <1>3, EndOfLog
<1>7. Slots' = Slots /\ \A r : TellsSlots(r)' <=> TellsSlots(r)
  <2>1. Slots' = Slots BY DEF Slots
  <2>2. QED BY <2>1 DEF TellsSlots
<1>8. CASE ~Pending
  <2>1. h.pending = <<>> BY <1>5, <1>8 DEF ShowsGate
  <2>2. hub'.settled = hub.settled BY <1>5, <2>1, RetireNone
  <2>3. QED BY <1>4, <1>6, <1>7, <1>8, <2>2 DEF ShowsGate
<1>9. CASE Pending
  <2>1. PICK k : hub.pending = <<Asked(Request, Turn, k, Slots)>> /\ hub.settled = <<>>
    BY <1>9 DEF ShowsGate
  <2>2. PICK p, ds : p = Asked(Request, Turn, k, ds) /\ ds = Slots OBVIOUS
  <2>3. DOMAIN ds = 1..GatedCalls /\ p.decisions = ds
    BY <2>2, AskedAgain DEF Slots
  <2>4. DecidedCalls(p) = {i \in 1..GatedCalls : ds[i] # "none"}
    BY <2>3 DEF DecidedCalls
  <2>5. hub'.settled = IF DecidedCalls(p) = {} THEN <<>> ELSE <<Settlement(p)>>
    BY <1>5, <2>1, <2>2, RetireOnly, DispatchLiveAssumption
  <2>6. CASE \A i \in 1..GatedCalls : ds[i] = "none"
    <3>1. hub'.settled = <<>> BY <2>4, <2>5, <2>6
    <3>2. QED BY <1>4, <1>6, <1>7, <2>2, <2>6, <3>1 DEF ShowsGate
  <2>7. CASE ~ \A i \in 1..GatedCalls : ds[i] = "none"
    <3>1. PICK r : r = Settlement(p) OBVIOUS
    <3>2. hub'.settled = <<r>> BY <2>4, <2>5, <2>7, <3>1
    <3>3. Tells(r, ds)
      <4>1. 1..GatedCalls # {} BY <2>7
      <4>2. Slotted(ds, GatedCalls) BY <2>3, <4>1, GatedAreNumbered DEF Slotted
      <4>3. QED BY <2>2, <3>1, <4>2, SettlementTells
    <3>4. r.request = Request /\ TellsSlots(r)'
      <4>1. r.request = Request /\ TellsSlots(r) BY <2>2, <3>3 DEF TellsSlots, Tells
      <4>2. QED BY <1>7, <4>1
    <3>5. \E q : hub'.settled = <<q>> /\ q.request = Request /\ TellsSlots(q)'
      BY <3>2, <3>4
    <3>6. QED BY <1>4, <1>6, <1>7, <2>2, <2>7, <3>5 DEF ShowsGate
  <2>8. QED BY <2>6, <2>7
<1>10. QED BY <1>8, <1>9

\* A step that records nothing and holds nothing back publishes nothing.
LEMMA NothingTold ==
  ASSUME log' = log, early' = early, TellEvent \/ TellCompletion \/ TellNothing
  PROVE  hub' = hub
  BY DEF TellEvent, TellCompletion, TellNothing

\* A client's provisional outcomes stay right when the held back ones do.
LEMMA HeldBackStays ==
  ASSUME CompletionsShowHeldBack, ~TerminalLogged, ~TerminalLogged', hub'.done = hub.done,
         \A q \in Position : q \in HeldBackCalls' <=> q \in HeldBackCalls
  PROVE  CompletionsShowHeldBack'
<1>1. HeldBackCalls' = HeldBackCalls BY DEF HeldBackCalls
<1>2. QED BY <1>1 DEF CompletionsShowHeldBack, HeldBackCalls

LEMMA LiveStutter ==
  ASSUME LiveInv, UNCHANGED <<log, decisions, early, started, running, outcomes, completed>>,
         TellEvent \/ TellCompletion \/ TellNothing
  PROVE  LiveInv'
<1>1. hub' = hub BY NothingTold
<1>2. TerminalLogged' <=> TerminalLogged BY DEF TerminalLogged
<1>3. ShowsGate' BY <1>1, <1>2, ShownStays DEF LiveInv
<1>4. HubIsOf' /\ SettledOnce' BY <1>1 DEF LiveInv, HubIsOf, SettledOnce
<1>5. CompletionsShowHeldBack' BY <1>1, <1>2 DEF LiveInv, CompletionsShowHeldBack
<1>6. QED BY <1>3, <1>4, <1>5 DEF LiveInv

LEMMA LiveAnswered ==
  ASSUME GateType, GateType', Books, LiveInv, ~TerminalLogged, NEW c, Settles(c),
         c.req = Request, UNCHANGED <<early, callVars>>,
         TellEvent \/ TellCompletion \/ TellNothing
  PROVE  LiveInv'
<1>1. early' = early /\ UNCHANGED <<started, running, outcomes, completed>> BY DEF callVars
<1>2. HubIsOf' /\ ShowsGate' /\ ~TerminalLogged' /\ hub'.done = hub.done
  BY <1>1, ShownAnswered DEF LiveInv
<1>3. SettledOnce' BY <1>1 DEF LiveInv, SettledOnce
<1>4. CompletionsShowHeldBack' BY <1>1, <1>2 DEF LiveInv, CompletionsShowHeldBack
<1>5. QED BY <1>2, <1>3, <1>4 DEF LiveInv

LEMMA LiveInterrupted ==
  ASSUME CallType, FlowType, Books, LiveInv, ~TerminalLogged, RecordInterrupt,
         decisions' = decisions, TellEvent \/ TellCompletion \/ TellNothing
  PROVE  LiveInv'
<1>1. PICK e \in Event : e.type = "interrupt" /\ log' = Append(log, e)
  <2>1. \E e \in Event : e.type = "interrupt" /\ log' = Append(log, e) BY RecordedEvents
  <2>2. QED BY <2>1
<1>2. early' = early /\ UNCHANGED <<started, running, outcomes, completed>>
  BY DEF RecordInterrupt, callVars
<1>3. /\ HubIsOf' /\ hub'.done = hub.done
      /\ hub'.pending = hub.pending /\ hub'.settled = hub.settled
  BY <1>1, <1>2, EventTold DEF LiveInv
<1>4. ~TerminalLogged'
  <2>1. e # FinishedEvent BY <1>1 DEF FinishedEvent
  <2>2. QED BY <1>1, <2>1, EndOfLog
<1>5. ShowsGate' BY <1>3, <1>4, ShownStays DEF LiveInv
<1>6. SettledOnce' BY <1>2 DEF LiveInv, SettledOnce
<1>7. CompletionsShowHeldBack' BY <1>2, <1>3, <1>4 DEF LiveInv, CompletionsShowHeldBack
<1>8. QED BY <1>3, <1>5, <1>6, <1>7 DEF LiveInv

LEMMA LiveFinished ==
  ASSUME GateType, CallType, FlowType, Books, LiveInv, ~TerminalLogged, RecordFinished,
         decisions' = decisions, TellEvent \/ TellCompletion \/ TellNothing
  PROVE  LiveInv'
<1>1. HubIsOf' /\ ShowsGate' /\ TerminalLogged' /\ hub'.done = {}
  BY ShownFinished DEF LiveInv
<1>2. SettledOnce'
  <2>1. UNCHANGED <<started, running, completed>> BY DEF RecordFinished, callVars
  <2>2. QED BY <2>1 DEF LiveInv, SettledOnce
<1>3. CompletionsShowHeldBack' BY <1>1 DEF CompletionsShowHeldBack
<1>4. QED BY <1>1, <1>2, <1>3 DEF LiveInv

\* A settled call joins the queue of completions once.
LEMMA CompletionQueued ==
  ASSUME CallType, SettledOnce, NEW p \in Position, completed' = Append(completed, p),
         \A i \in DOMAIN completed : completed[i] # p,
         p \in started', p \notin running', started \subseteq started', running' \subseteq running
  PROVE  /\ SettledOnce'
         /\ \A q : (\A i \in DOMAIN completed' : completed'[i] # q)
                     <=> q # p /\ \A i \in DOMAIN completed : completed[i] # q
<1>1. PICK n : n = Len(completed) + 1 OBVIOUS
<1>2. /\ DOMAIN completed' = DOMAIN completed \cup {n}
      /\ completed'[n] = p
      /\ \A i \in DOMAIN completed : completed'[i] = completed[i]
      /\ n \notin DOMAIN completed
  BY <1>1 DEF CallType
<1>3. SettledOnce' BY <1>2 DEF SettledOnce
<1>4. QED BY <1>2, <1>3

LEMMA LiveAdmitted ==
  ASSUME CallType, FlowType, Books, LiveInv, ~TerminalLogged, AdmitCall,
         decisions' = decisions, TellEvent \/ TellCompletion \/ TellNothing
  PROVE  LiveInv'
<1>1. PICK p \in Ready : /\ p \in Position /\ Start(p) /\ CallEvent(p) \in Event
                         /\ CallEvent(p).type = "call" /\ log' = Append(log, CallEvent(p))
  <2>1. \E p \in Ready : /\ p \in Position /\ Start(p) /\ CallEvent(p) \in Event
                         /\ CallEvent(p).type = "call" /\ log' = Append(log, CallEvent(p))
    BY RecordedEvents
  <2>2. QED BY <2>1
<1>2. PICK e : e = CallEvent(p) OBVIOUS
<1>3. e \in Event /\ e.type = "call" /\ log' = Append(log, e) BY <1>1, <1>2
<1>4. early' = early BY DEF AdmitCall
<1>5. /\ HubIsOf' /\ hub'.done = hub.done
      /\ hub'.pending = hub.pending /\ hub'.settled = hub.settled
  BY <1>3, <1>4, EventTold DEF LiveInv
<1>6. ~TerminalLogged'
  <2>1. e # FinishedEvent BY <1>3 DEF FinishedEvent
  <2>2. QED BY <1>3, <2>1, EndOfLog
<1>7. ShowsGate' BY <1>5, <1>6, ShownStays DEF LiveInv
<1>8. /\ p \notin started /\ p \notin running /\ outcomes[p] = "none"
      /\ \A i \in DOMAIN completed : completed[i] # p
  <2>1. p \notin started BY <1>1 DEF Ready
  <2>2. p \notin running /\ outcomes[p] = "none" BY <1>1, <2>1 DEF Books
  <2>3. \A i \in DOMAIN completed : completed[i] # p BY <2>1 DEF LiveInv, SettledOnce
  <2>4. QED BY <2>1, <2>2, <2>3
<1>9. CASE decisions[p] = "rejected"
  <2>1. /\ started' = started \cup {p} /\ running' = running
        /\ outcomes' = [outcomes EXCEPT ![p] = "rejected"] /\ completed' = Append(completed, p)
    BY <1>1, <1>9 DEF Start
  <2>2. /\ SettledOnce'
        /\ \A q : (\A i \in DOMAIN completed' : completed'[i] # q)
                    <=> q # p /\ \A i \in DOMAIN completed : completed[i] # q
    BY <1>1, <1>8, <2>1, CompletionQueued DEF LiveInv
  <2>3. \A q \in Position : q # p => outcomes'[q] = outcomes[q] BY <2>1 DEF CallType
  <2>4. \A q \in Position : q \in HeldBackCalls' <=> q \in HeldBackCalls
    BY <1>8, <2>2, <2>3 DEF HeldBackCalls
  <2>5. CompletionsShowHeldBack' BY <1>5, <1>6, <2>4, HeldBackStays DEF LiveInv
  <2>6. QED BY <1>5, <1>7, <2>2, <2>5 DEF LiveInv
<1>10. CASE decisions[p] # "rejected"
  <2>1. /\ started' = started \cup {p} /\ running' = running \cup {p}
        /\ outcomes' = outcomes /\ completed' = completed
    BY <1>1, <1>10 DEF Start
  <2>2. SettledOnce' BY <1>8, <2>1 DEF LiveInv, SettledOnce
  <2>3. \A q \in Position : q \in HeldBackCalls' <=> q \in HeldBackCalls
    BY <2>1 DEF HeldBackCalls
  <2>4. CompletionsShowHeldBack' BY <1>5, <1>6, <2>3, HeldBackStays DEF LiveInv
  <2>5. QED BY <1>5, <1>7, <2>2, <2>4 DEF LiveInv
<1>11. QED BY <1>9, <1>10

LEMMA LiveTicked ==
  ASSUME CallType, Books, LiveInv, ~TerminalLogged, TickTool,
         decisions' = decisions, TellEvent \/ TellCompletion \/ TellNothing
  PROVE  LiveInv'
<1>1. log' = log /\ early' = early /\ started' = started BY DEF TickTool
<1>2. hub' = hub BY <1>1, NothingTold
<1>3. ~TerminalLogged' BY <1>1 DEF TerminalLogged
<1>4. ShowsGate' BY <1>2, <1>3, ShownStays DEF LiveInv
<1>5. HubIsOf' BY <1>1, <1>2 DEF LiveInv, HubIsOf
<1>6. PICK p \in running, o \in {"ok", "error"} :
        /\ running' = running \ {p} /\ outcomes' = [outcomes EXCEPT ![p] = o]
        /\ completed' = Append(completed, p)
  BY DEF TickTool
<1>7. /\ p \in Position /\ p \in started /\ outcomes[p] = "none"
      /\ \A i \in DOMAIN completed : completed[i] # p
  <2>1. p \in Position /\ p \in started BY DEF CallType
  <2>2. outcomes[p] = "none" BY DEF Books
  <2>3. \A i \in DOMAIN completed : completed[i] # p BY DEF LiveInv, SettledOnce
  <2>4. QED BY <2>1, <2>2, <2>3
<1>8. /\ SettledOnce'
      /\ \A q : (\A i \in DOMAIN completed' : completed'[i] # q)
                  <=> q # p /\ \A i \in DOMAIN completed : completed[i] # q
  <2>1. /\ p \in started' /\ p \notin running' /\ started \subseteq started'
        /\ running' \subseteq running
    BY <1>1, <1>6, <1>7
  <2>2. QED BY <1>6, <1>7, <2>1, CompletionQueued DEF LiveInv
<1>9. \A q \in Position : q # p => outcomes'[q] = outcomes[q] BY <1>6 DEF CallType
<1>10. \A q \in Position : q \in HeldBackCalls' <=> q \in HeldBackCalls
  BY <1>7, <1>8, <1>9 DEF HeldBackCalls
<1>11. CompletionsShowHeldBack' BY <1>2, <1>3, <1>10, HeldBackStays DEF LiveInv
<1>12. QED BY <1>4, <1>5, <1>8, <1>11 DEF LiveInv

LEMMA LiveFlushed ==
  ASSUME CallType, FlowType, Books, LiveInv, ~TerminalLogged, FlushResult,
         decisions' = decisions, TellEvent \/ TellCompletion \/ TellNothing
  PROVE  LiveInv'
<1>1. PICK p \in Position, o \in Outcomes :
        /\ ResultEvent(p, o) \in Event
        /\ ResultEvent(p, o).type = "result" /\ ResultEvent(p, o).pos = p
        /\ log' = Append(log, ResultEvent(p, o))
        /\ outcomes' = [outcomes EXCEPT ![p] = "none"]
  <2>1. \E p \in Position, o \in Outcomes :
          /\ ResultEvent(p, o) \in Event
          /\ ResultEvent(p, o).type = "result" /\ ResultEvent(p, o).pos = p
          /\ log' = Append(log, ResultEvent(p, o))
          /\ outcomes' = [outcomes EXCEPT ![p] = "none"]
    BY RecordedEvents
  <2>2. QED BY <2>1
<1>2. PICK e : e = ResultEvent(p, o) OBVIOUS
<1>3. e \in Event /\ e.type = "result" /\ e.pos = p /\ log' = Append(log, e) BY <1>1, <1>2
<1>4. early' = early /\ UNCHANGED <<started, running, completed>> BY DEF FlushResult
<1>5. /\ HubIsOf' /\ hub'.done = {d \in hub.done : d.span # p}
      /\ hub'.pending = hub.pending /\ hub'.settled = hub.settled
  BY <1>3, <1>4, EventTold DEF LiveInv
<1>6. ~TerminalLogged'
  <2>1. e # FinishedEvent BY <1>3 DEF FinishedEvent
  <2>2. QED BY <1>3, <2>1, EndOfLog
<1>7. ShowsGate' BY <1>5, <1>6, ShownStays DEF LiveInv
<1>8. SettledOnce' BY <1>4 DEF LiveInv, SettledOnce
<1>9. HeldBackCalls' = HeldBackCalls \ {p}
  <2>1. outcomes'[p] = "none" /\ \A q \in Position : q # p => outcomes'[q] = outcomes[q]
    BY <1>1 DEF CallType
  <2>2. \A q : q \in HeldBackCalls' <=> q \in HeldBackCalls /\ q # p
    BY <1>4, <2>1 DEF HeldBackCalls
  <2>3. QED BY <2>2
<1>10. CompletionsShowHeldBack'
  <2>1. {d.span : d \in hub.done} = HeldBackCalls
    BY DEF LiveInv, CompletionsShowHeldBack, HeldBackCalls
  <2>2. {d.span : d \in hub'.done} = HeldBackCalls \ {p} BY <1>5, <2>1
  <2>3. {d.span : d \in hub'.done} = HeldBackCalls' BY <1>9, <2>2
  <2>4. QED BY <1>6, <2>3 DEF CompletionsShowHeldBack, HeldBackCalls
<1>11. QED BY <1>5, <1>7, <1>8, <1>10 DEF LiveInv

\* The oldest completion leaves the queue.
LEMMA CompletionTaken ==
  ASSUME CallType, SettledOnce, completed # <<>>, completed' = Tail(completed),
         UNCHANGED <<started, running>>
  PROVE  /\ SettledOnce' /\ Head(completed) \in Position
         /\ \A q : (\A i \in DOMAIN completed' : completed'[i] # q)
                     <=> q = Head(completed) \/ \A i \in DOMAIN completed : completed[i] # q
<1>1. PICK n, p : n = Len(completed) /\ p = Head(completed) OBVIOUS
<1>2. n \in Nat \ {0} /\ DOMAIN completed = 1..n /\ completed[1] = p /\ p \in Position
  BY <1>1 DEF CallType
<1>3. DOMAIN completed' = 1..(n - 1) /\ \A i \in 1..(n - 1) : completed'[i] = completed[i + 1]
  BY <1>1, <1>2 DEF CallType
<1>4. ASSUME NEW i \in 1..(n - 1)
      PROVE  /\ i + 1 \in DOMAIN completed /\ completed'[i] = completed[i + 1]
             /\ completed'[i] # p
  <2>1. i + 1 \in DOMAIN completed /\ i + 1 # 1 /\ 1 \in DOMAIN completed BY <1>2
  <2>2. completed[i + 1] # completed[1] BY <2>1 DEF SettledOnce
  <2>3. QED BY <1>2, <1>3, <2>1, <2>2
<1>5. ASSUME NEW i \in DOMAIN completed
      PROVE  i = 1 \/ (i - 1 \in 1..(n - 1) /\ completed'[i - 1] = completed[i])
  <2>1. i = 1 \/ (i - 1 \in 1..(n - 1) /\ (i - 1) + 1 = i) BY <1>2
  <2>2. QED BY <1>3, <2>1
<1>6. SettledOnce'
  <2>1. ASSUME NEW i \in DOMAIN completed'
        PROVE  /\ completed'[i] \in started' /\ completed'[i] \notin running'
               /\ \A j \in DOMAIN completed' : completed'[j] = completed'[i] => j = i
    <3>1. i + 1 \in DOMAIN completed /\ completed'[i] = completed[i + 1] BY <1>3, <1>4, <2>1
    <3>2. ASSUME NEW j \in DOMAIN completed', completed'[j] = completed'[i] PROVE j = i
      <4>1. j + 1 \in DOMAIN completed /\ completed'[j] = completed[j + 1] BY <1>3, <1>4, <3>2
      <4>2. j + 1 = i + 1 BY <3>1, <3>2, <4>1 DEF SettledOnce
      <4>3. QED BY <1>3, <2>1, <3>2, <4>2
    <3>3. QED BY <3>1, <3>2 DEF SettledOnce
  <2>2. QED BY <2>1 DEF SettledOnce
<1>7. ASSUME NEW q
      PROVE  (\A i \in DOMAIN completed' : completed'[i] # q)
               <=> q = p \/ \A i \in DOMAIN completed : completed[i] # q
  <2>1. ASSUME q = p PROVE \A i \in DOMAIN completed' : completed'[i] # q BY <1>3, <1>4, <2>1
  <2>2. ASSUME \A i \in DOMAIN completed : completed[i] # q
        PROVE  \A i \in DOMAIN completed' : completed'[i] # q
    BY <1>3, <1>4, <2>2
  <2>3. ASSUME \A i \in DOMAIN completed' : completed'[i] # q, q # p
        PROVE  \A i \in DOMAIN completed : completed[i] # q
    BY <1>2, <1>3, <1>5, <2>3
  <2>4. QED BY <2>1, <2>2, <2>3
<1>8. QED BY <1>1, <1>2, <1>6, <1>7

LEMMA LivePublished ==
  ASSUME CallType, LiveInv, ~TerminalLogged, PublishOne,
         decisions' = decisions, TellEvent \/ TellCompletion \/ TellNothing
  PROVE  LiveInv'
<1>1. /\ log' = log /\ outcomes' = outcomes /\ UNCHANGED <<started, running>>
      /\ completed # <<>> /\ completed' = Tail(completed)
  BY DEF PublishOne
<1>2. PICK p : p = Head(completed) OBVIOUS
<1>3. /\ SettledOnce' /\ p \in Position
      /\ \A q : (\A i \in DOMAIN completed' : completed'[i] # q)
                  <=> q = p \/ \A i \in DOMAIN completed : completed[i] # q
  BY <1>1, <1>2, CompletionTaken DEF LiveInv
<1>4. ~TerminalLogged' BY <1>1 DEF TerminalLogged
<1>5. CASE outcomes[p] = "none"
  <2>1. early' = early BY <1>2, <1>5 DEF PublishOne, HeldBack
  <2>2. hub' = hub BY <1>1, <2>1, NothingTold
  <2>3. ShowsGate' BY <1>4, <2>2, ShownStays DEF LiveInv
  <2>4. HubIsOf' BY <1>1, <2>1, <2>2 DEF LiveInv, HubIsOf
  <2>5. \A q \in Position : q \in HeldBackCalls' <=> q \in HeldBackCalls
    BY <1>1, <1>3, <1>5 DEF HeldBackCalls
  <2>6. CompletionsShowHeldBack' BY <1>4, <2>2, <2>5, HeldBackStays DEF LiveInv
  <2>7. QED BY <1>3, <2>3, <2>4, <2>6 DEF LiveInv
<1>6. CASE outcomes[p] # "none"
  <2>1. PICK r : r = [pos |-> p, at |-> Len(log)] OBVIOUS
  <2>2. early' = Append(early, r) /\ r.pos = p
    BY <1>2, <1>6, <2>1 DEF PublishOne, HeldBack
  <2>3. /\ IsSequence(early') /\ Len(early) \in Nat /\ Len(early') = Len(early) + 1
        /\ early'[Len(early) + 1] = r
    BY <2>2, AppendIsSequence DEF LiveInv, HubIsOf
  <2>4. PICK item : item = LiveCompletion(p) OBVIOUS
  <2>5. hub' = Track(hub, item)
    <3>1. early' # early BY <2>3
    <3>2. TellCompletion BY <1>1, <3>1 DEF TellEvent, TellNothing
    <3>3. Last(early').pos = p BY <2>2, <2>3 DEF Last
    <3>4. QED BY <2>4, <3>2, <3>3 DEF TellCompletion
  <2>6. PICK d : d = [span |-> p, turn |-> Turn] OBVIOUS
  <2>7. item.kind = "completed" /\ item.done = d /\ d.span = p /\ d.turn = Turn
    BY <2>4, <2>6 DEF LiveCompletion
  <2>8. IsHub(hub) BY DEF LiveInv, HubIsOf
  <2>9. /\ IsHub(hub') /\ hub'.seen = hub.seen /\ hub'.settled = hub.settled
        /\ hub'.pending = hub.pending
    BY <2>5, <2>7, <2>8, TrackParts, TrackMovesOn
  <2>10. hub'.done = {o \in hub.done : o.turn = Turn /\ o.span # p} \cup {d}
    BY <2>5, <2>7, <2>8, TrackDone
  <2>11. \A o \in hub.done : o.turn = Turn BY DEF LiveInv, HubIsOf
  <2>12. HubIsOf'
    <3>1. \A o \in hub'.done : o.turn = Turn BY <2>7, <2>10
    <3>2. \A id \in hub'.seen : id \in 1..Len(log') BY <1>1, <2>9 DEF LiveInv, HubIsOf
    <3>3. QED BY <2>3, <2>9, <3>1, <3>2 DEF HubIsOf
  <2>13. ShowsGate' BY <1>4, <2>9, ShownStays DEF LiveInv
  <2>14. HeldBackCalls' = HeldBackCalls \cup {p}
    <3>1. \A q : q \in HeldBackCalls' <=> q \in HeldBackCalls \/ q = p
      BY <1>1, <1>3, <1>6 DEF HeldBackCalls
    <3>2. QED BY <3>1
  <2>15. CompletionsShowHeldBack'
    <3>1. {o.span : o \in hub.done} = HeldBackCalls
      BY DEF LiveInv, CompletionsShowHeldBack, HeldBackCalls
    <3>2. \A q : q \in {o.span : o \in hub'.done} <=> q \in HeldBackCalls \/ q = p
      <4>1. ASSUME NEW o \in hub'.done PROVE o.span \in HeldBackCalls \/ o.span = p
        BY <2>7, <2>10, <3>1, <4>1
      <4>2. ASSUME NEW q \in HeldBackCalls, q # p PROVE \E o \in hub'.done : o.span = q
        <5>1. PICK o \in hub.done : o.span = q BY <3>1, <4>2
        <5>2. o \in hub'.done BY <2>10, <2>11, <4>2, <5>1
        <5>3. QED BY <5>1, <5>2
      <4>3. d \in hub'.done BY <2>10
      <4>4. QED BY <2>7, <4>1, <4>2, <4>3
    <3>3. {o.span : o \in hub'.done} = HeldBackCalls' BY <2>14, <3>2
    <3>4. QED BY <1>4, <3>3 DEF CompletionsShowHeldBack, HeldBackCalls
  <2>16. QED BY <1>3, <2>12, <2>13, <2>15 DEF LiveInv
<1>7. QED BY <1>5, <1>6

LEMMA LiveStep ==
  ASSUME TypeOK, TypeOK', Books, OverIsDone, LiveInv, [LiveNext]_liveVars
  PROVE  OverIsDone' /\ LiveInv'
<1>1. CASE UNCHANGED liveVars
  <2>1. [Next]_vars /\ hub' = hub /\ log' = log /\ early' = early BY <1>1 DEF liveVars, vars
  <2>2. OverIsDone' BY <2>1, OverStep DEF TypeOK
  <2>3. UNCHANGED <<log, decisions, early, started, running, outcomes, completed>>
    BY <1>1 DEF liveVars, vars, intake, callVars
  <2>4. TellNothing BY <2>1 DEF TellNothing
  <2>5. QED BY <2>2, <2>3, <2>4, LiveStutter
<1>2. CASE LiveNext
  <2>1. [Next]_vars /\ (TellEvent \/ TellCompletion \/ TellNothing) BY <1>2 DEF LiveNext
  <2>2. OverIsDone' /\ (TerminalLogged => UNCHANGED vars) BY <2>1, OverStep DEF TypeOK
  <2>3. ASSUME UNCHANGED <<log, decisions, early, started, running, outcomes, completed>>
        PROVE  LiveInv'
    BY <2>1, <2>3, LiveStutter
  <2>4. CASE TerminalLogged
    <3>1. UNCHANGED <<log, decisions, early, started, running, outcomes, completed>>
      BY <2>2, <2>4 DEF vars, intake, callVars
    <3>2. QED BY <2>2, <2>3, <3>1
  <2>5. CASE ~TerminalLogged
    <3>1. ASSUME NEW c, Settles(c), c.req = Request, UNCHANGED <<early, callVars>> PROVE LiveInv'
      BY <2>1, <2>5, <3>1, LiveAnswered DEF TypeOK
    <3>2. ASSUME decisions' = decisions, \/ AdmitCall \/ FlushResult \/ PublishOne \/ TickTool
                                         \/ RecordInterrupt \/ RecordFinished
          PROVE  LiveInv'
      BY <2>1, <2>5, <3>2, LiveAdmitted, LiveFlushed, LivePublished, LiveTicked,
         LiveInterrupted, LiveFinished DEF TypeOK
    <3>3. \/ UNCHANGED <<log, decisions, early, started, running, outcomes, completed>>
          \/ \E c : Settles(c) /\ c.req = Request /\ UNCHANGED <<early, callVars>>
          \/ decisions' = decisions /\ \/ AdmitCall \/ FlushResult \/ PublishOne \/ TickTool
                                       \/ RecordInterrupt \/ RecordFinished
      BY <2>1, LiveFrame DEF TypeOK
    <3>4. LiveInv' BY <2>3, <3>1, <3>2, <3>3
    <3>5. QED BY <2>2, <3>4
  <2>6. QED BY <2>4, <2>5
<1>3. QED BY <1>1, <1>2

\* A gate opens with a request that nobody has answered.
LEMMA LiveStart == LiveInit => OverIsDone /\ LiveInv
<1> SUFFICES ASSUME LiveInit PROVE OverIsDone /\ LiveInv
  OBVIOUS
<1>1. /\ log = <<>> /\ early = <<>> /\ completed = <<>>
      /\ outcomes = [p \in Position |-> "none"]
      /\ decisions = [p \in Position |-> IF p \in Gated THEN "undecided" ELSE "approved"]
  BY DEF LiveInit, Init
<1>2. ~TerminalLogged BY <1>1 DEF TerminalLogged
<1>3. SettledOnce BY <1>1 DEF SettledOnce
<1>4. IsSequence(early)
  <2>1. <<>> \in Seq({}) OBVIOUS
  <2>2. QED BY <1>1, <2>1, SequenceIsOne
<1>5. HeldBackCalls = {} BY <1>1 DEF HeldBackCalls
<1>6. /\ IsHub(EmptyHub) /\ EmptyHub.seen = {} /\ EmptyHub.done = {}
      /\ EmptyHub.pending = <<>> /\ EmptyHub.settled = <<>>
  BY DEF EmptyHub, IsHub, HubFields
<1>7. ASSUME NEW i \in 1..GatedCalls PROVE Slots[i] = "none"
  <2>1. PICK p \in Gated : GatedIndex(p) = i BY GatedAreNumbered
  <2>2. decisions[p] = "undecided" BY <1>1, DispatchAssumption
  <2>3. QED BY <2>1, <2>2, SlotsAreDecisions DEF SlotsSayDecisions
<1>8. Slots = [i \in 1..GatedCalls |-> "none"]
  <2>1. Slots = [i \in 1..GatedCalls |-> Slots[i]] BY DEF Slots
  <2>2. QED BY <1>7, <2>1
<1>9. /\ IsHub(hub) /\ hub.seen = {} /\ hub.done = {} /\ hub.settled = <<>>
      /\ IF Gated = {} THEN hub.pending = <<>>
         ELSE \E k : hub.pending = <<Asked(Request, Turn, k, Slots)>>
  <2>1. CASE Gated = {}
    <3>1. hub = EmptyHub BY <2>1 DEF LiveInit
    <3>2. QED BY <1>6, <2>1, <3>1
  <2>2. CASE Gated # {}
    <3>1. PICK item : item = LiveRequest OBVIOUS
    <3>2. hub = Track(EmptyHub, item) BY <2>2, <3>1 DEF LiveInit
    <3>3. /\ item.kind = "requested" /\ item.request = Request /\ item.turn = Turn
          /\ item.calls = GatedCalls
      BY <3>1 DEF LiveRequest
    <3>4. /\ IsHub(hub) /\ hub.seen = {} /\ hub.done = {} /\ hub.settled = <<>>
          /\ hub.pending = TrackRequested(At(EmptyHub, item.seq), item).pending
      BY <1>6, <3>2, <3>3, TrackParts, TrackMovesOn, TrackDone
    <3>5. PICK h : h = At(EmptyHub, item.seq) OBVIOUS
    <3>6. IsHub(h) /\ h.pending = <<>> BY <1>6, <3>5 DEF At, IsHub, HubFields
    <3>7. PICK k : k = AnchorIndex(h, item.turn) OBVIOUS
    <3>8. TrackRequested(h, item).pending = Append(<<>>, Asked(Request, Turn, k, Slots))
      BY <1>8, <3>3, <3>6, <3>7 DEF TrackRequested, Asked, IsHub, HubFields
    <3>9. hub.pending = <<Asked(Request, Turn, k, Slots)>> BY <3>4, <3>5, <3>8
    <3>10. QED BY <2>2, <3>4, <3>9
  <2>3. QED BY <2>1, <2>2
<1>10. Pending <=> Gated # {} BY <1>1, DispatchAssumption DEF Pending
<1>11. ShowsGate
  <2>1. \A i \in 1..GatedCalls : Slots[i] = "none" BY <1>7
  <2>2. QED BY <1>2, <1>9, <1>10, <2>1 DEF ShowsGate
<1>12. HubIsOf BY <1>4, <1>9 DEF HubIsOf
<1>13. CompletionsShowHeldBack BY <1>2, <1>5, <1>9 DEF CompletionsShowHeldBack, HeldBackCalls
<1>14. QED BY <1>2, <1>3, <1>11, <1>12, <1>13 DEF LiveInv, OverIsDone

LEMMA ShowsEnough == LiveInv => ClientsSeeBatch
<1> SUFFICES ASSUME LiveInv PROVE ClientsSeeBatch
  OBVIOUS
<1>1. CASE Pending /\ ~TerminalLogged
  <2>1. PICK k : hub.pending = <<Asked(Request, Turn, k, Slots)>> /\ hub.settled = <<>>
    BY <1>1 DEF LiveInv, ShowsGate
  <2>2. PICK p : p = Asked(Request, Turn, k, Slots) OBVIOUS
  <2>3. p.request = Request /\ p.decisions = Slots BY <2>2, AskedAgain
  <2>4. Len(hub.pending) = 1 /\ hub.pending[1] = p BY <2>1, <2>2, OneIsSequence
  <2>5. DialogShowsGate BY <1>1, <2>1, <2>3, <2>4 DEF DialogShowsGate
  <2>6. QED BY <2>5 DEF LiveInv, ClientsSeeBatch
<1>2. CASE ~(Pending /\ ~TerminalLogged)
  <2>1. /\ hub.pending = <<>>
        /\ IF \A i \in 1..GatedCalls : Slots[i] = "none" THEN hub.settled = <<>>
           ELSE \E r : hub.settled = <<r>> /\ r.request = Request /\ TellsSlots(r)
    BY <1>2 DEF LiveInv, ShowsGate
  <2>2. CASE \A i \in 1..GatedCalls : Slots[i] = "none"
    <3>1. hub.settled = <<>> /\ Len(hub.settled) = 0 /\ DOMAIN hub.settled = {} BY <2>1, <2>2
    <3>2. DialogShowsGate BY <1>2, <2>1, <2>2, <3>1 DEF DialogShowsGate
    <3>3. QED BY <3>2 DEF LiveInv, ClientsSeeBatch
  <2>3. CASE ~ \A i \in 1..GatedCalls : Slots[i] = "none"
    <3>1. PICK r : hub.settled = <<r>> /\ r.request = Request /\ TellsSlots(r) BY <2>1, <2>3
    <3>2. /\ Len(hub.settled) = 1 /\ hub.settled[1] = r
          /\ \A m \in DOMAIN hub.settled : m = 1
      BY <3>1, OneIsSequence
    <3>3. DialogShowsGate BY <1>2, <2>1, <2>3, <3>1, <3>2 DEF DialogShowsGate
    <3>4. QED BY <3>3 DEF LiveInv, ClientsSeeBatch
  <2>4. QED BY <2>2, <2>3
<1>3. QED BY <1>1, <1>2

LEMMA LiveIsDispatch == LiveSpec => Spec
<1>1. LiveInit => Init BY DEF LiveInit
<1>2. [LiveNext]_liveVars => [Next]_vars BY DEF LiveNext, liveVars
<1>3. QED BY <1>1, <1>2, PTL DEF LiveSpec, Spec

(* A client that attaches in the middle of a batch sees the gate as it is  *)
(* and exactly the outcomes that are held back, whatever is published,     *)
(* answered or ended in between (gate.rs 53-98, dispatch.rs 117-152 and    *)
(* track in cadmus-transport's lib.rs).                                    *)
THEOREM ClientsStayInformed == LiveSpec => []ClientsSeeBatch
<1>1. LiveInit => OverIsDone /\ LiveInv BY LiveStart
<1>2. TypeOK /\ TypeOK' /\ Books /\ OverIsDone /\ LiveInv /\ [LiveNext]_liveVars
        => OverIsDone' /\ LiveInv'
  BY LiveStep
<1>3. LiveInv => ClientsSeeBatch BY ShowsEnough
<1>4. QED
  BY <1>1, <1>2, <1>3, LiveIsDispatch, TypeCorrect, BooksAgree, PTL DEF LiveSpec
=============================================================================
