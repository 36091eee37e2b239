------------------------------ MODULE Dispatch ------------------------------
(***************************************************************************)
(* One turn's tool batch: the approval gate (agent/gate.rs), the client    *)
(* inbox (agent/inbox.rs), the command channel (cadmus-transport) and the  *)
(* cooperative dispatch loop that drives them (agent/dispatch.rs).         *)
(*                                                                         *)
(* The loop is one task; clients, the clock and the tools run beside it.   *)
(* pc names the phase of the current loop iteration:                       *)
(*   head    poll the parked receive future      (dispatch.rs 60-68)       *)
(*   poll    drain the channel, take interrupt   (69-72)                   *)
(*   drain   settle decisions from the inbox     (75)                      *)
(*   admit   start decided calls                 (76-115)                  *)
(*   flush   log results behind the cursor       (117-134)                 *)
(*   publish provisional completions, park       (138-165)                 *)
(*   tick    await a tool or a command           (168-192)                 *)
(*   stop, terminal   the interrupt's records    (194-200)                 *)
(* Positions count from 1; the code's vectors count from 0.                *)
(* An operator named Fault... is a plausible slip in the definition that   *)
(* follows it; none is part of the specification.                          *)
(***************************************************************************)
EXTENDS Integers, Sequences, FiniteSets, SequencesExt

CONSTANTS
  N,             \* tool calls in the turn
  Gated,         \* positions of known tools declaring Effect::Mutation
  ParallelSafe,  \* positions of known tools declaring Concurrency::ParallelSafe
  Request,       \* this batch's approval request id
  Commands,      \* the commands clients may send, each with its client-minted id
  MaxSends       \* bound: sends, retries included

Position == 1..N
Decided == {"approved", "rejected"}
SyntheticIds == {"ap-timeout", "ap-closed"}
NoCommand == [kind |-> "none", id |-> "none"]

\* A command as a client may form it: an unknown request, an index past the
\* batch and a reply shorter or longer than the batch are all legal input.
WellFormed(c) ==
  /\ c.kind \in {"batch", "call", "interrupt", "steer"}
  /\ c.id \notin SyntheticIds
  /\ c.kind = "batch" => c.decisions \in Seq(Decided)
  /\ c.kind = "call" => c.index \in Nat /\ c.decision \in Decided

ASSUME DispatchAssumption ==
  /\ N \in Nat \ {0}
  /\ Gated \subseteq Position
  /\ ParallelSafe \subseteq Position
  /\ MaxSends \in Nat
  /\ \A c \in Commands : WellFormed(c)
  /\ \A c, d \in Commands : c.id = d.id => c = d  \* a retry resends the command

VARIABLES
  channel, open, sent,                      \* command channel; open: a sender lives
  seen, resolves, steers, pendingInterrupt, \* Inbox
  decisions, expired,                       \* Gate; expired: remaining() is zero
  pc, started, running, outcomes, flushed,  \* dispatch_tools: spans, branches, ...
  interrupt, completed, waiting, admitted,
  log,                                      \* durable events, in append order
  early,                                    \* published ToolCompleted items
  inTime, overdue                           \* history: ids sent before the deadline;
                                            \* an interrupt was known at the loop head

clientVars == <<channel, open, sent, inTime>>
inboxVars == <<seen, resolves, steers, pendingInterrupt>>
callVars == <<started, running, outcomes, flushed, completed>>
intake == <<clientVars, inboxVars, decisions, expired>>
flow == <<interrupt, waiting, admitted, overdue>>
vars == <<intake, pc, callVars, flow, log, early>>

Live == pc \notin {"done", "aborted"}
AllSafe == ParallelSafe = Position
Pending == \E p \in Gated : decisions[p] = "undecided"

---------------------------------------------------------------------------
(* Addressing.  An approval index counts the presented (gated) calls.      *)

GatedIndex(p) == Cardinality({q \in Gated : q <= p})

Answers(c, p) ==
  /\ p \in Gated
  /\ \/ c.kind = "batch"
     \/ c.kind = "call" /\ c.index = GatedIndex(p)

FaultShortReplyApproves(c, p) ==
  IF c.kind = "call" THEN c.decision
  ELSE IF GatedIndex(p) \in DOMAIN c.decisions THEN c.decisions[GatedIndex(p)]
  ELSE "approved"

\* A slot missing from a short batch reply is rejected.
DecisionOf(c, p) ==
  IF c.kind = "call" THEN c.decision
  ELSE IF GatedIndex(p) \in DOMAIN c.decisions THEN c.decisions[GatedIndex(p)]
  ELSE "rejected"

FaultLastDecisionWins(c) == {p \in Gated : Answers(c, p)}

\* The slots a resolve still fills: the first recorded decision is final.
Updates(c) == {p \in Gated : decisions[p] = "undecided" /\ Answers(c, p)}

\* deny_unanswered's synthetic reply restates every earlier decision.
Denial(id) ==
  [kind |-> "batch", id |-> id, req |-> Request,
   decisions |-> [i \in 1..Cardinality(Gated) |->
      IF \E p \in Gated : GatedIndex(p) = i /\ decisions[p] = "approved"
      THEN "approved" ELSE "rejected"]]

ResolveEvent(c) == [type |-> "resolve", cmd |-> c]
CallEvent(p) == [type |-> "call", pos |-> p]
ResultEvent(p, o) == [type |-> "result", pos |-> p, outcome |-> o]
InterruptEvent(c) == [type |-> "interrupt", cmd |-> c]
FinishedEvent == [type |-> "finished"]

---------------------------------------------------------------------------
(* open_gate, then the loop's locals.                                      *)

Init ==
  /\ channel = <<>> /\ open = TRUE /\ sent = 0 /\ inTime = {}
  /\ seen = {} /\ resolves = <<>> /\ steers = <<>> /\ pendingInterrupt = NoCommand
  /\ decisions = [p \in Position |-> IF p \in Gated THEN "undecided" ELSE "approved"]
  /\ expired = FALSE
  /\ pc = "head"
  /\ started = {} /\ running = {} /\ flushed = 0 /\ completed = <<>>
  /\ outcomes = [p \in Position |-> "none"]
  /\ interrupt = NoCommand /\ waiting = FALSE /\ admitted = FALSE /\ overdue = FALSE
  /\ log = <<>> /\ early = <<>>

---------------------------------------------------------------------------
(* Clients and the clock.                                                  *)

Send(c) ==
  /\ Live /\ open /\ sent < MaxSends
  /\ sent' = sent + 1
  /\ channel' = Append(channel, c)
  /\ inTime' = IF expired THEN inTime ELSE inTime \cup {c.id}
  /\ UNCHANGED <<open, inboxVars, decisions, expired, pc, callVars, flow, log, early>>

\* The last sender is dropped.
Close ==
  /\ Live /\ open
  /\ open' = FALSE
  /\ UNCHANGED <<channel, sent, inTime, inboxVars, decisions, expired, pc,
                 callVars, flow, log, early>>

Expire ==
  /\ Live /\ ~expired
  /\ expired' = TRUE
  /\ UNCHANGED <<clientVars, inboxVars, decisions, pc, callVars, flow, log, early>>

---------------------------------------------------------------------------
(* Inbox and gate operations.                                              *)

\* The idempotent-retry seam.
Retried(c) == c.id \in seen

\* AgentLoop::note: a command id counts once; the first interrupt stays.
Note(c) ==
  IF Retried(c) THEN UNCHANGED inboxVars
  ELSE /\ seen' = seen \cup {c.id}
       /\ resolves' = IF c.kind \in {"batch", "call"} THEN Append(resolves, c) ELSE resolves
       /\ steers' = IF c.kind = "steer" THEN Append(steers, c) ELSE steers
       /\ pendingInterrupt' = IF c.kind = "interrupt" /\ pendingInterrupt = NoCommand
                              THEN c ELSE pendingInterrupt

\* Gate::apply: a resolve without effect is dropped unrecorded.
Apply(c) ==
  IF Updates(c) = {} THEN UNCHANGED <<log, decisions>>
  ELSE /\ log' = Append(log, ResolveEvent(c))
       /\ decisions' = [p \in Position |->
                          IF p \in Updates(c) THEN DecisionOf(c, p) ELSE decisions[p]]

Queued == channel # <<>>

FaultClosureFirst == Queued /\ open

\* A closed channel still yields what it holds.
CommandFirst == Queued

\* The parked recv_timeout future yields: a queued command before closure,
\* either before the timer.
Receive ==
  /\ waiting' = FALSE
  /\ \/ /\ CommandFirst
        /\ Note(Head(channel))
        /\ channel' = Tail(channel)
        /\ UNCHANGED <<log, decisions>>
     \/ /\ ~CommandFirst /\ (~open \/ expired)
        /\ Apply(Denial(IF open THEN "ap-timeout" ELSE "ap-closed"))
        /\ UNCHANGED <<channel, inboxVars>>

InterruptKnown ==
  /\ interrupt = NoCommand
  /\ \/ pendingInterrupt # NoCommand
     \/ \E i \in DOMAIN channel : channel[i].kind = "interrupt" /\ channel[i].id \notin seen

---------------------------------------------------------------------------
(* The loop, phase by phase.                                               *)

HeadReceive ==
  /\ pc = "head" /\ waiting
  /\ Receive
  /\ pc' = "poll" /\ overdue' = InterruptKnown
  /\ UNCHANGED <<open, sent, inTime, expired, callVars, interrupt, admitted, early>>

FaultHeadSkipsReceiver == TRUE

\* Nothing parked, or the parked receive is not ready (its timer may fire a
\* little after the clock passes the deadline).
NothingReceived == ~waiting \/ (~Queued /\ open)

HeadIdle ==
  /\ pc = "head" /\ NothingReceived
  /\ pc' = "poll" /\ overdue' = InterruptKnown
  /\ UNCHANGED <<intake, callVars, interrupt, waiting, admitted, log, early>>

\* poll_incoming drains the channel; a parked receive holds its lock.
PollOne ==
  /\ pc = "poll" /\ ~waiting /\ Queued
  /\ Note(Head(channel))
  /\ channel' = Tail(channel)
  /\ UNCHANGED <<open, sent, inTime, decisions, expired, pc, callVars, flow, log,
                 early>>

PollDone ==
  /\ pc = "poll" /\ (waiting \/ ~Queued)
  /\ IF interrupt = NoCommand
     THEN interrupt' = pendingInterrupt /\ pendingInterrupt' = NoCommand
     ELSE UNCHANGED <<interrupt, pendingInterrupt>>
  /\ admitted' = FALSE
  /\ pc' = IF interrupt' = NoCommand THEN "drain" ELSE "flush"
  /\ UNCHANGED <<clientVars, seen, resolves, steers, decisions, expired, callVars,
                 waiting, overdue, log, early>>

\* take_approval: the earliest buffered resolve naming this request.
IsNextAnswer(i) ==
  /\ resolves[i].req = Request
  /\ \A j \in 1..(i - 1) : resolves[j].req # Request

HasAnswer == \E i \in DOMAIN resolves : resolves[i].req = Request

DrainTimeout ==
  /\ pc = "drain" /\ Pending /\ expired
  /\ Apply(Denial("ap-timeout"))
  /\ pc' = "admit"
  /\ UNCHANGED <<clientVars, inboxVars, expired, callVars, flow, early>>

FaultNoDeadline == TRUE

BeforeDeadline == ~expired

DrainAnswer ==
  /\ pc = "drain" /\ Pending /\ BeforeDeadline
  /\ \E i \in DOMAIN resolves :
       /\ IsNextAnswer(i)
       /\ resolves' = RemoveAt(resolves, i)
       /\ Apply(resolves[i])
  /\ UNCHANGED <<clientVars, seen, steers, pendingInterrupt, expired, pc, callVars,
                 flow, early>>

DrainDone ==
  /\ pc = "drain"
  /\ ~Pending \/ (~expired /\ ~HasAnswer)
  /\ pc' = "admit"
  /\ UNCHANGED <<intake, callVars, flow, log, early>>

Ready == {p \in Position : p > flushed /\ p \notin started /\ decisions[p] # "undecided"}

FaultOverlapSerial == Ready # {}

\* Any call not declared parallel-safe limits the batch to one invocation.
CanAdmit == Ready # {} /\ (AllSafe \/ running = {})

FaultForgetSpan(p) ==
  /\ log' = Append(log, CallEvent(p))
  /\ started' = started
  /\ running' = running \cup {p}
  /\ UNCHANGED <<outcomes, completed>>

\* tool_call is logged, then a denial settles at once and an approval runs.
Start(p) ==
  /\ log' = Append(log, CallEvent(p))
  /\ started' = started \cup {p}
  /\ IF decisions[p] = "rejected"
     THEN /\ outcomes' = [outcomes EXCEPT ![p] = "rejected"]
          /\ completed' = Append(completed, p)
          /\ UNCHANGED running
     ELSE /\ running' = running \cup {p}
          /\ UNCHANGED <<outcomes, completed>>

AdmitCall ==
  /\ pc = "admit" /\ CanAdmit
  /\ \E p \in Ready : (\A q \in Ready : p <= q) /\ Start(p)
  /\ admitted' = TRUE
  /\ pc' = IF AllSafe THEN "admit" ELSE "flush"
  /\ UNCHANGED <<intake, flushed, interrupt, waiting, overdue, early>>

AdmitDone ==
  /\ pc = "admit" /\ ~CanAdmit
  /\ pc' = "flush"
  /\ UNCHANGED <<intake, callVars, flow, log, early>>

FaultFlushAsFinished ==
  /\ pc = "flush" /\ flushed < N
  /\ \E p \in Position :
       /\ outcomes[p] # "none"
       /\ log' = Append(log, ResultEvent(p, outcomes[p]))
       /\ outcomes' = [outcomes EXCEPT ![p] = "none"]
  /\ flushed' = flushed + 1
  /\ UNCHANGED <<intake, pc, started, running, completed, flow, early>>

\* push_result moves the outcome into the log.
FlushResult ==
  /\ pc = "flush" /\ flushed < N /\ outcomes[flushed + 1] # "none"
  /\ log' = Append(log, ResultEvent(flushed + 1, outcomes[flushed + 1]))
  /\ outcomes' = [outcomes EXCEPT ![flushed + 1] = "none"]
  /\ flushed' = flushed + 1
  /\ UNCHANGED <<intake, pc, started, running, completed, flow, early>>

FaultSkipUnsettled == interrupt # NoCommand
FaultSkipUndecided ==
  /\ interrupt # NoCommand \/ decisions[flushed + 1] = "undecided"
  /\ (flushed + 1) \notin started

\* Under an interrupt the cursor passes calls that never started.
MaySkip == interrupt # NoCommand /\ (flushed + 1) \notin started

FlushSkip ==
  /\ pc = "flush" /\ flushed < N /\ outcomes[flushed + 1] = "none" /\ MaySkip
  /\ flushed' = flushed + 1
  /\ UNCHANGED <<intake, pc, started, running, outcomes, completed, flow, log, early>>

FlushDone ==
  /\ pc = "flush"
  /\ flushed < N => outcomes[flushed + 1] = "none" /\ ~MaySkip
  /\ pc' = "publish"
  /\ UNCHANGED <<intake, callVars, flow, log, early>>

\* An outcome still held back by the ordered cursor.
HeldBack(p) == outcomes[p] # "none"

PublishOne ==
  /\ pc = "publish" /\ completed # <<>>
  /\ early' = IF HeldBack(Head(completed))
              THEN Append(early, [pos |-> Head(completed), at |-> Len(log)]) ELSE early
  /\ completed' = Tail(completed)
  /\ UNCHANGED <<intake, pc, started, running, outcomes, flushed, flow, log>>

\* The batch is complete.
Leave ==
  /\ pc = "publish" /\ completed = <<>> /\ flushed = N
  /\ pc' = IF interrupt = NoCommand THEN "done" ELSE "stop"
  /\ UNCHANGED <<intake, callVars, flow, log, early>>

FaultNeverAgain == FALSE
FaultBusyLoop == TRUE

\* A newly admitted rejection may leave more ready serial work.
MoreReady == admitted /\ running = {}

Again ==
  /\ pc = "publish" /\ completed = <<>> /\ flushed < N /\ MoreReady
  /\ pc' = "head"
  /\ UNCHANGED <<intake, callVars, flow, log, early>>

\* A receive is kept parked while the gate is open.
WantsReceive == Pending /\ interrupt = NoCommand

Park ==
  /\ pc = "publish" /\ completed = <<>> /\ flushed < N /\ ~MoreReady
  /\ waiting' = WantsReceive
  /\ pc' = "tick"
  /\ UNCHANGED <<intake, callVars, interrupt, admitted, overdue, log, early>>

\* A running tool returns; unknown tools and tool failures are error feedback.
TickTool ==
  /\ pc = "tick"
  /\ \E p \in running, o \in {"ok", "error"} :
       /\ running' = running \ {p}
       /\ outcomes' = [outcomes EXCEPT ![p] = o]
       /\ completed' = Append(completed, p)
  /\ pc' = "head"
  /\ UNCHANGED <<intake, started, flushed, flow, log, early>>

TickCommand ==
  /\ pc = "tick" /\ waiting
  /\ Receive
  /\ pc' = "head"
  /\ UNCHANGED <<open, sent, inTime, expired, callVars, interrupt, admitted,
                 overdue, early>>

RecordInterrupt ==
  /\ pc = "stop"
  /\ log' = Append(log, InterruptEvent(interrupt))
  /\ pc' = "terminal"
  /\ UNCHANGED <<intake, callVars, flow, early>>

RecordFinished ==
  /\ pc = "terminal"
  /\ log' = Append(log, FinishedEvent)
  /\ pc' = "done"
  /\ UNCHANGED <<intake, callVars, flow, early>>

MustAppend ==
  \/ pc \in {"head", "tick"} /\ waiting /\ ~Queued /\ (~open \/ expired) /\ Pending
  \/ pc = "drain" /\ Pending /\ (expired \/ \E i \in DOMAIN resolves :
                                    IsNextAnswer(i) /\ Updates(resolves[i]) # {})
  \/ pc = "admit" /\ CanAdmit
  \/ pc = "flush" /\ flushed < N /\ outcomes[flushed + 1] # "none"
  \/ pc \in {"stop", "terminal"}

\* A failed append leaves dispatch at once, dropping what is in flight.
AppendFails ==
  /\ MustAppend
  /\ pc' = "aborted"
  /\ UNCHANGED <<intake, callVars, flow, log, early>>

\* The batch has returned; nothing of it moves again.
Returned == ~Live /\ UNCHANGED vars

LoopStep ==
  \/ HeadReceive \/ HeadIdle \/ PollOne \/ PollDone
  \/ DrainTimeout \/ DrainAnswer \/ DrainDone
  \/ AdmitCall \/ AdmitDone
  \/ FlushResult \/ FlushSkip \/ FlushDone
  \/ PublishOne \/ Leave \/ Again \/ Park
  \/ TickCommand \/ RecordInterrupt \/ RecordFinished

Next ==
  \/ (\E c \in Commands : Send(c)) \/ Close \/ Expire
  \/ LoopStep \/ TickTool \/ AppendFails \/ Returned

Spec == Init /\ [][Next]_vars

\* The executor keeps polling a task that can move, and time passes.
LoopFairness == WF_vars(LoopStep) /\ WF_vars(Expire)

ToolsReturn == WF_vars(TickTool)

---------------------------------------------------------------------------
(* Properties.                                                             *)

ClientType == channel \in Seq(Commands) /\ open \in BOOLEAN /\ sent \in 0..MaxSends
InboxType ==
  /\ resolves \in Seq({c \in Commands : c.kind \in {"batch", "call"}})
  /\ steers \in Seq(Commands)
  /\ pendingInterrupt \in Commands \cup {NoCommand}
GateType ==
  decisions \in [Position -> {"undecided"} \cup Decided] /\ expired \in BOOLEAN
CallType ==
  /\ started \subseteq Position /\ running \subseteq started
  /\ outcomes \in [Position -> {"none", "ok", "error", "rejected"}]
  /\ flushed \in 0..N
  /\ completed \in Seq(Position)
FlowType ==
  /\ pc \in {"head", "poll", "drain", "admit", "flush", "publish", "tick",
             "stop", "terminal", "done", "aborted"}
  /\ interrupt \in Commands \cup {NoCommand}
  /\ waiting \in BOOLEAN /\ admitted \in BOOLEAN /\ overdue \in BOOLEAN

(* Every variable keeps its type; running calls were started, and the      *)
(* cursor stays inside the batch.                                          *)
TypeOK == ClientType /\ InboxType /\ GateType /\ CallType /\ FlowType

Resolves(i, p) == log[i].type = "resolve" /\ Answers(log[i].cmd, p)

\* Entry i is the first recorded resolve addressing p.
FirstResolve(i, p) ==
  /\ i \in DOMAIN log /\ Resolves(i, p)
  /\ \A j \in 1..(i - 1) : ~Resolves(j, p)

(* The gate's decisions are exactly what an auditor recovers from the log: *)
(* a slot holds the decision of the first recorded resolve that addresses  *)
(* it, and is undecided while there is none.  Retries, later batch replies *)
(* and the synthetic denials never replace a decision (gate.rs 53-98).     *)
DecisionsFollowLog ==
  \A p \in Gated :
    \/ /\ decisions[p] = "undecided"
       /\ \A i \in DOMAIN log : ~Resolves(i, p)
    \/ \E i \in DOMAIN log :
         FirstResolve(i, p) /\ decisions[p] = DecisionOf(log[i].cmd, p)

Executed(p) == p \in running \/ outcomes[p] \in {"ok", "error"}
               \/ \E i \in DOMAIN log : log[i] \in {ResultEvent(p, "ok"), ResultEvent(p, "error")}

\* The reply itself says "approved" for this slot.
Approves(c, p) ==
  IF c.kind = "call" THEN c.index = GatedIndex(p) /\ c.decision = "approved"
  ELSE GatedIndex(p) \in DOMAIN c.decisions /\ c.decisions[GatedIndex(p)] = "approved"

(* A mutation runs only on a recorded approval: whenever a gated call runs *)
(* or has run, the log holds its tool_call event and, before that event,   *)
(* the first resolve addressing the call, which approves it in so many     *)
(* words; silence never approves (gate.rs 68-75, dispatch.rs 83-111).      *)
ExecutionWasApproved ==
  \A p \in Gated : Executed(p) =>
    \E i, j \in DOMAIN log :
      /\ i < j /\ log[j] = CallEvent(p)
      /\ FirstResolve(i, p)
      /\ Approves(log[i].cmd, p)

(* Whatever order the calls finish in, results reach the log in call order *)
(* and each follows its own tool_call event (dispatch.rs 117-134).         *)
ResultsInCallOrder ==
  \A i \in DOMAIN log : log[i].type = "result" =>
    /\ \E j \in 1..(i - 1) : log[j] = CallEvent(log[i].pos)
    /\ \A j \in 1..(i - 1) : log[j].type = "result" => log[j].pos < log[i].pos

HasResult(p) == \E i \in DOMAIN log : log[i].type = "result" /\ log[i].pos = p

(* A batch that returns leaves no call half recorded: without an interrupt *)
(* every call has its result; with one, exactly the started calls have,    *)
(* and the interrupt and the terminal record come after them.              *)
ReturnsSettled ==
  pc = "done" =>
    IF interrupt = NoCommand
    THEN \A p \in Position : HasResult(p)
    ELSE /\ \A p \in Position : HasResult(p) <=> p \in started
         /\ Len(log) >= 2
         /\ log[Len(log) - 1] = InterruptEvent(interrupt)
         /\ log[Len(log)] = FinishedEvent

(* One serial declaration in the batch means no two invocations overlap.   *)
SerialNeverOverlaps == AllSafe \/ \A p, q \in running : p = q

(* An interrupt known when an iteration begins stops that iteration from   *)
(* starting anything, even when it sits behind the lock of a parked        *)
(* receive (dispatch.rs 60-68).                                            *)
QueuedInterruptStopsStarts == ~(overdue /\ pc \in {"drain", "admit"})

(* dispatch never awaits with nothing that could wake it: a tool is in     *)
(* flight or a receive is parked on the open gate (dispatch.rs 153-166).   *)
TickCanWake == pc = "tick" => running # {} \/ (waiting /\ Pending)

Fills(i) == {p \in Gated : FirstResolve(i, p)}

(* A client's answer takes effect only if it was sent before the deadline: *)
(* a late approval cannot reopen a denied call (gate.rs 106-109).          *)
LateAnswersLose ==
  \A i \in DOMAIN log :
    log[i].type = "resolve" => log[i].cmd.id \in inTime \cup SyntheticIds

(* The channel's closure denies no slot a client had answered in time:     *)
(* queued and buffered answers are consumed first.                         *)
ClosureDeniesUnanswered ==
  \A i \in DOMAIN log :
    (log[i].type = "resolve" /\ log[i].cmd.id = "ap-closed") =>
      \A p \in Fills(i), c \in Commands :
        ~(c.kind \in {"batch", "call"} /\ c.id \in inTime /\ c.req = Request /\ Answers(c, p))

(* How the human wait ends: late answers lose, answers in time never do to *)
(* closure, whatever order the queue, the inbox and the clock are looked   *)
(* at (gate.rs 107-146).                                                   *)
WaitEndsFairly == LateAnswersLose /\ ClosureDeniesUnanswered

(* A batch whose tools return does, whatever the clients do.               *)
BatchReturns == ToolsReturn => <>(~Live)

---------------------------------------------------------------------------
(* The abstract batch, read off the log.                                   *)

Span(p) ==
  IF HasResult(p) THEN "closed"
  ELSE IF \E i \in DOMAIN log : log[i] = CallEvent(p) THEN "open" ELSE "idle"

Batch == INSTANCE ToolBatch WITH
  verdict <- decisions,
  span    <- [p \in Position |-> Span(p)],
  stopped <- interrupt # NoCommand,
  over    <- flushed = N /\ pc # "flush"

(* Dispatch implements ToolBatch.                                          *)
ImplementsToolBatch == Batch!Spec
=============================================================================
