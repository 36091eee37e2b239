----------------------------- MODULE AgentLoop -----------------------------
(***************************************************************************)
(* One run of the agent loop (cadmus-core agent/mod.rs, inbox.rs,          *)
(* events.rs, trailer.rs, fold.rs): turn after turn it applies client      *)
(* commands, renders a request, folds the stream, runs the tool batch and  *)
(* appends what happened to the durable log.                               *)
(*                                                                         *)
(* The tool batch appears as its abstract specification ToolBatch, which   *)
(* Dispatch implements; here its steps record events and move the history. *)
(* pc names where run() stands; "record" drains "pending", the events the  *)
(* code is about to append one by one, and goes on to "then".              *)
(* An operator named Fault... is a plausible slip in the definition that   *)
(* follows it; none is part of the specification.                          *)
(***************************************************************************)
EXTENDS Trajectory, Integers, FiniteSets

CONSTANTS
  N, Gated,      \* the calls of a turn that makes any, and the gated ones
  Bulky,         \* positions whose results reach the fold's size floor
  Commands,      \* steers and interrupts the clients may send
  MaxTurns,      \* the run's turn limit
  RecentTurns,   \* FoldPolicy::recent_turns
  MaxSends,      \* bound: sends, retries included
  MaxChunks,     \* bound: chunks in a stream
  MaxNested      \* bound: instruction files a turn newly enters

ASSUME AgentLoopAssumption ==
  /\ N \in Nat \ {0} /\ Gated \subseteq 1..N /\ Bulky \subseteq 1..N
  /\ MaxTurns \in Nat /\ RecentTurns \in Nat
  /\ MaxSends \in Nat /\ MaxChunks \in Nat /\ MaxNested \in Nat
  /\ \A c \in Commands : c.kind = "interrupt" \/ (c.kind = "steer" /\ c.mode \in {"inject", "queue"})
  /\ \A c, d \in Commands : c.id = d.id => c = d

VARIABLES
  pc, turn, outcome,                       \* outcome: what run() will return
  messages,                                \* the live history
  content,                                 \* what the open stream has assembled
  chunks,
  pending, then,                           \* events about to be appended
  channel, sent,                           \* command channel
  seen, steers, pendingInterrupt,          \* Inbox, resolves aside
  taken,                                   \* dispatch's own interrupt
  verdict, span, stopped, over,            \* the tool batch
  tracks, folded,                          \* fold state
  log,
  received                                 \* history: ids in order of receipt

Batch == INSTANCE ToolBatch

batchVars == <<verdict, span, stopped, over>>
clientVars == <<channel, sent>>
inboxVars == <<seen, steers, pendingInterrupt, received>>
streamVars == <<content, chunks>>
foldVars == <<tracks, folded>>
recordVars == <<pending, then, outcome>>
vars == <<pc, turn, messages, streamVars, recordVars, clientVars, inboxVars, taken,
          batchVars, foldVars, log>>

NoCommand == [kind |-> "none", id |-> "none"]
Position == 1..N
Base == <<[role |-> "user", of |-> "base"]>>
Live == pc # "ended"

---------------------------------------------------------------------------
(* Events.  The loop stamps an id as it appends.                           *)

UserMessage(c) == [role |-> "user", of |-> c.id]
AssistantMessage == [role |-> "assistant", of |-> turn, has |-> content]
ToolMessage(p) == [role |-> "tool", of |-> <<turn, p>>]

CommandEvent(c) ==
  IF c.kind = "steer" THEN [type |-> "steer", cmd |-> c, msg |-> UserMessage(c)]
  ELSE [type |-> "interrupt", cmd |-> c]

Response(ok) ==
  [type |-> "response", turn |-> turn, ok |-> ok, msg |-> AssistantMessage,
   calls |-> content = "calls"]

Finished(completed, error) == [type |-> "finished", turns |-> completed, error |-> error]

InjectEvent(k) == [type |-> "inject", msg |-> [role |-> "user", of |-> <<turn, "file", k>>]]

Emit(e) == log' = Append(log, Stamped(e, "id", Len(log) + 1))

Plan(events, next) == pending' = events /\ then' = next /\ pc' = "record"

\* Every return from run() past the log's own failure appends the terminal
\* record, with the completed turns, after what led to it.
End(events, completed, error) ==
  /\ Plan(Append(events, Finished(completed, error)), "ended")
  /\ outcome' = error

---------------------------------------------------------------------------
Init ==
  /\ pc = "start" /\ turn = 1 /\ outcome = "running"
  /\ messages = Base /\ content = "none" /\ chunks = 0
  /\ pending = <<>> /\ then = "ended"
  /\ channel = <<>> /\ sent = 0
  /\ seen = {} /\ steers = <<>> /\ pendingInterrupt = NoCommand /\ received = <<>>
  /\ taken = NoCommand
  /\ Batch!Init
  /\ tracks = <<>> /\ folded = {}
  /\ log = <<>>

---------------------------------------------------------------------------
(* Clients and the inbox.                                                  *)

Send(c) ==
  /\ Live /\ sent < MaxSends
  /\ channel' = Append(channel, c) /\ sent' = sent + 1
  /\ UNCHANGED <<pc, turn, messages, streamVars, recordVars, inboxVars, taken, batchVars,
                 foldVars, log>>

\* The idempotent-retry seam.
Retried(c) == c.id \in seen

FaultNewestFirst(c) == <<c>> \o steers

Buffered(c) == Append(steers, c)

\* poll_incoming and note: commands are classified on receipt.
PollOne ==
  /\ pc \in {"boundary", "chunk", "finish", "dispatch"} /\ channel # <<>>
  /\ LET c == Head(channel) IN
       IF Retried(c) THEN UNCHANGED inboxVars
       ELSE /\ seen' = seen \cup {c.id}
            /\ received' = Append(received, c.id)
            /\ steers' = IF c.kind = "steer" THEN Buffered(c) ELSE steers
            /\ pendingInterrupt' = IF c.kind = "interrupt" /\ pendingInterrupt = NoCommand
                                   THEN c ELSE pendingInterrupt
  /\ channel' = Tail(channel)
  /\ UNCHANGED <<pc, turn, sent, messages, streamVars, recordVars, taken, batchVars,
                 foldVars, log>>

Polled == channel = <<>>

\* take_interrupt finds one.
Interrupted == pendingInterrupt # NoCommand

TakeInterrupt == pendingInterrupt' = NoCommand /\ UNCHANGED <<seen, steers, received>>

Steering(q) == [i \in DOMAIN q |-> CommandEvent(q[i])]

---------------------------------------------------------------------------
(* run(), step by step.                                                    *)

\* for turn in 1..=self.max_turns
WithinLimit(t) == t <= MaxTurns

NextTurn(t) ==
  IF WithinLimit(t)
  THEN pc' = "boundary" /\ turn' = t /\ UNCHANGED recordVars
  ELSE turn' = turn /\ End(<<>>, MaxTurns, "limit")

Start ==
  /\ pc = "start"
  /\ Emit([type |-> "start", base |-> messages])
  /\ NextTurn(turn)
  /\ UNCHANGED <<messages, streamVars, clientVars, inboxVars, taken, batchVars, foldVars>>

\* drain_boundary: an interrupt ends the run here.
BoundaryInterrupt ==
  /\ pc = "boundary" /\ Polled /\ Interrupted
  /\ TakeInterrupt
  /\ End(<<CommandEvent(pendingInterrupt)>>, turn - 1, "interrupted")
  /\ UNCHANGED <<turn, messages, streamVars, clientVars, taken, batchVars, foldVars, log>>

\* drain_boundary: the steers are gone through ahead of this turn's request;
\* Withheld keeps the queue-mode ones.
BoundarySteers ==
  /\ pc = "boundary" /\ Polled /\ ~Interrupted
  /\ Plan(Steering(steers), "fold")
  /\ steers' = <<>>
  /\ UNCHANGED <<turn, outcome, messages, streamVars, clientVars, seen, received,
                 pendingInterrupt, taken, batchVars, foldVars, log>>

\* Past the recency scope and the size floor, not already folded.
Foldable(t) == t.turn + RecentTurns < turn /\ t.bulky /\ t.msg \notin folded

Candidates == {t \in ToSet(tracks) : Foldable(t)}

\* maybe_fold fires: the growth or the ceiling trigger, either possible here.
FoldResults ==
  /\ pc = "fold" /\ Candidates # {}
  /\ Emit([type |-> "fold", turn |-> turn, refs |-> Candidates])
  /\ folded' = folded \cup {t.msg : t \in Candidates}
  /\ pc' = "request"
  /\ UNCHANGED <<turn, messages, streamVars, recordVars, clientVars, inboxVars, taken,
                 batchVars, tracks>>

FoldNothing ==
  /\ pc = "fold"
  /\ pc' = "request"
  /\ UNCHANGED <<turn, messages, streamVars, recordVars, clientVars, inboxVars, taken,
                 batchVars, foldVars, log>>

Request ==
  /\ pc = "request"
  /\ Emit([type |-> "request", turn |-> turn])
  /\ pc' = "call"
  /\ UNCHANGED <<turn, messages, streamVars, recordVars, clientVars, inboxVars, taken,
                 batchVars, foldVars>>

\* chat_stream fails: the turn span stays unclosed.
CallFails ==
  /\ pc = "call"
  /\ End(<<>>, turn - 1, "provider")
  /\ UNCHANGED <<turn, messages, streamVars, clientVars, inboxVars, taken, batchVars,
                 foldVars, log>>

StreamOpens ==
  /\ pc = "call"
  /\ pc' = "stream" /\ content' = "none" /\ chunks' = 0
  /\ UNCHANGED <<turn, messages, recordVars, clientVars, inboxVars, taken, batchVars,
                 foldVars, log>>

\* A chunk may be reasoning only, carry text or open a call.
Chunk ==
  /\ pc = "stream" /\ chunks < MaxChunks
  /\ chunks' = chunks + 1
  /\ content' \in {content, "calls"} \cup (IF content = "none" THEN {"text"} ELSE {})
  /\ pc' = "chunk"
  /\ UNCHANGED <<turn, messages, recordVars, clientVars, inboxVars, taken, batchVars,
                 foldVars, log>>

FaultResponseFirst == <<Response(FALSE), CommandEvent(pendingInterrupt)>>

\* The command lands before the truncated turn it caused.
CutOff == <<CommandEvent(pendingInterrupt), Response(FALSE)>>

\* The mid-stream seam, between chunks.
ChunkPolled ==
  /\ pc = "chunk" /\ Polled
  /\ IF Interrupted
     THEN TakeInterrupt /\ End(CutOff, turn - 1, "interrupted")
     ELSE pc' = "stream" /\ UNCHANGED <<recordVars, inboxVars>>
  /\ UNCHANGED <<turn, messages, streamVars, clientVars, taken, batchVars, foldVars, log>>

StreamFails ==
  /\ pc = "stream"
  /\ End(<<Response(FALSE)>>, turn - 1, "provider")
  /\ UNCHANGED <<turn, messages, streamVars, clientVars, inboxVars, taken, batchVars,
                 foldVars, log>>

FaultCountEmptyTurn == turn

\* An empty turn is not a completed one.
CompletedBeforeEmpty == turn - 1

EmptyTurn ==
  /\ pc = "stream" /\ content = "none"
  /\ End(<<Response(FALSE)>>, CompletedBeforeEmpty, "empty")
  /\ UNCHANGED <<turn, messages, streamVars, clientVars, inboxVars, taken, batchVars,
                 foldVars, log>>

\* Gate::new over the turn's calls, as Batch!Init.
OpenBatch ==
  /\ verdict' = [p \in Position |-> IF p \in Gated THEN "undecided" ELSE "approved"]
  /\ span' = [p \in Position |-> "idle"]
  /\ stopped' = FALSE /\ over' = FALSE

\* The response is recorded, then joins the history; calls open a batch.
Respond ==
  /\ pc = "stream" /\ content # "none"
  /\ Emit(Response(TRUE))
  /\ messages' = Append(messages, AssistantMessage)
  /\ IF content = "calls" THEN pc' = "dispatch" /\ OpenBatch /\ taken' = NoCommand
     ELSE pc' = "finish" /\ UNCHANGED <<taken, batchVars>>
  /\ UNCHANGED <<turn, streamVars, recordVars, clientVars, inboxVars, foldVars>>

FaultOnlyInjectContinues == \E i \in DOMAIN steers : steers[i].mode = "inject"

\* apply_steers counted at least one.
ContinuesRun == steers # <<>>

\* The finish line: a pending interrupt is dropped; otherwise every buffered
\* steer is applied and continues the run.
FinishLine ==
  /\ pc = "finish" /\ Polled
  /\ IF Interrupted
     THEN TakeInterrupt /\ End(<<>>, turn, "ok")
     ELSE /\ steers' = <<>>
          /\ IF ContinuesRun THEN Plan(Steering(steers), "next") /\ UNCHANGED outcome
             ELSE End(Steering(steers), turn, "ok")
          /\ UNCHANGED <<seen, received, pendingInterrupt>>
  /\ UNCHANGED <<turn, messages, streamVars, clientVars, taken, batchVars, foldVars, log>>

---------------------------------------------------------------------------
(* dispatch_tools, as ToolBatch.                                           *)

Decide ==
  /\ pc = "dispatch" /\ Batch!Decide
  /\ Emit([type |-> "resolve"])
  /\ UNCHANGED <<pc, turn, messages, streamVars, recordVars, clientVars, inboxVars, taken,
                 foldVars>>

OpenCall(p) ==
  /\ pc = "dispatch" /\ Batch!Open(p)
  /\ Emit([type |-> "call", call |-> <<turn, p>>])
  /\ UNCHANGED <<pc, turn, messages, streamVars, recordVars, clientVars, inboxVars, taken,
                 foldVars>>

FaultTrackAfterPush == Len(messages) + 1

\* The history position the result is about to occupy.
TrackedAt == Len(messages)

\* push_result: the event, the fold track, then the message.
CloseCall(p) ==
  /\ pc = "dispatch" /\ Batch!Close(p)
  /\ Emit([type |-> "result", turn |-> turn, call |-> <<turn, p>>, gated |-> p \in Gated,
           msg |-> ToolMessage(p)])
  /\ tracks' = Append(tracks, [msg |-> TrackedAt, turn |-> turn, event |-> Len(log) + 1,
                               bulky |-> p \in Bulky])
  /\ messages' = Append(messages, ToolMessage(p))
  /\ UNCHANGED <<pc, turn, streamVars, recordVars, clientVars, inboxVars, taken, folded>>

StopBatch ==
  /\ pc = "dispatch" /\ Interrupted /\ Batch!Stop
  /\ taken' = pendingInterrupt /\ TakeInterrupt
  /\ UNCHANGED <<pc, turn, messages, streamVars, recordVars, clientVars, foldVars, log>>

BatchStopped == stopped

\* An interrupted batch ends the run; otherwise newly entered subtrees'
\* instruction files follow the results.
ReturnBatch ==
  /\ pc = "dispatch" /\ Batch!Return
  /\ IF BatchStopped THEN End(<<CommandEvent(taken)>>, turn, "interrupted")
     ELSE /\ \E k \in 0..MaxNested : Plan([i \in 1..k |-> InjectEvent(i)], "next")
          /\ UNCHANGED outcome
  /\ UNCHANGED <<turn, messages, streamVars, clientVars, inboxVars, taken, foldVars, log>>

---------------------------------------------------------------------------
(* The log.                                                                *)

FaultSteerUnsaid(e) == e.type = "inject"

\* Recorded steers and instruction files join the live history; an errored
\* response does not, for the run is over.
JoinsHistory(e) == e.type \in {"steer", "inject"}

\* apply_steers without include_queued: the steers it keeps.
Withheld(e) == then = "fold" /\ e.cmd.mode = "queue"

HoldBack ==
  /\ pc = "record" /\ pending # <<>> /\ Withheld(Head(pending))
  /\ steers' = Append(steers, Head(pending).cmd)
  /\ pending' = Tail(pending)
  /\ UNCHANGED <<pc, turn, then, outcome, messages, streamVars, clientVars, seen, received,
                 pendingInterrupt, taken, batchVars, foldVars, log>>

RecordPending ==
  /\ pc = "record" /\ pending # <<>> /\ ~Withheld(Head(pending))
  /\ Emit(Head(pending))
  /\ messages' = IF JoinsHistory(Head(pending)) THEN Append(messages, Head(pending).msg)
                 ELSE messages
  /\ pending' = Tail(pending)
  /\ UNCHANGED <<pc, turn, then, outcome, streamVars, clientVars, inboxVars, taken, batchVars,
                 foldVars>>

RecordDone ==
  /\ pc = "record" /\ pending = <<>>
  /\ IF then = "next" THEN NextTurn(turn + 1)
     ELSE pc' = then /\ UNCHANGED <<turn, recordVars>>
  /\ UNCHANGED <<messages, streamVars, clientVars, inboxVars, taken, batchVars, foldVars, log>>

Unsettled(p) == span[p] = "open" \/ (span[p] = "idle" /\ ~stopped)

MustAppend ==
  \/ pc \in {"start", "request"}
  \/ pc = "record" /\ pending # <<>> /\ ~Withheld(Head(pending))
  \/ pc = "fold" /\ Candidates # {}
  \/ pc = "stream" /\ content # "none"
  \/ pc = "dispatch" /\ \E p \in Position : Unsettled(p)

\* A failed append or spill ends the run at once, unrecorded.
AppendFails ==
  /\ MustAppend
  /\ pc' = "ended" /\ outcome' = "log"
  /\ UNCHANGED <<turn, messages, streamVars, pending, then, clientVars, inboxVars, taken,
                 batchVars, foldVars, log>>

\* run() has returned.
Returned == ~Live /\ UNCHANGED vars

Next ==
  \/ (\E c \in Commands : Send(c)) \/ PollOne
  \/ Start \/ BoundaryInterrupt \/ BoundarySteers \/ FoldResults \/ FoldNothing
  \/ Request \/ CallFails \/ StreamOpens \/ Chunk \/ ChunkPolled
  \/ StreamFails \/ EmptyTurn \/ Respond \/ FinishLine
  \/ Decide \/ (\E p \in Position : OpenCall(p) \/ CloseCall(p)) \/ StopBatch \/ ReturnBatch
  \/ HoldBack \/ RecordPending \/ RecordDone \/ AppendFails \/ Returned

Spec == Init /\ [][Next]_vars

---------------------------------------------------------------------------
(* Properties.                                                             *)

Ended == pc = "ended" /\ outcome # "log"
Replayed == Replay(log)
Of(type) == {i \in DOMAIN log : log[i].type = type}

(* The fold invariant: the history a request renders, and the one a        *)
(* successful run returns, is the one the replayer recovers from the log,  *)
(* with the turns the terminal record counts (mod.rs 216-221,              *)
(* trajectory.rs).                                                         *)
ReplayEqualsLive ==
  /\ pc \in {"call", "finish"} \/ (Ended /\ outcome = "ok") => Replayed.messages = messages
  /\ Of("finished") # {} => Replayed.finished.turns = Replayed.turns

CompletedTurns == Cardinality({i \in Of("response") : log[i].ok})

(* Unless the log itself failed, a run that returned left exactly one      *)
(* terminal record, its last event, telling what run() returned; the turns *)
(* it counts, by hand on every path out of run(), are the ok responses of  *)
(* the log.                                                                *)
OneTerminalRecord ==
  /\ \A i \in Of("finished") : i = Len(log) /\ log[i].turns = CompletedTurns
  /\ Ended => Of("finished") # {} /\ Last(log).error = outcome

(* A terminal record leaves no tool call dangling, and at any point of a   *)
(* batch (where a crash may cut the log) the dangling calls are the ones   *)
(* in flight.                                                              *)
DanglingAreInFlight ==
  LET dangling == {Replayed.open[i] : i \in DOMAIN Replayed.open} IN
  /\ Of("finished") # {} => dangling = {}
  /\ pc = "dispatch" => dangling = {<<turn, p>> : p \in {q \in Position : span[q] = "open"}}

(* A recorded interrupt ends the run: no request, call or steer follows    *)
(* it, the truncated response it caused comes after it, and the terminal   *)
(* record names it; one the loop has received is recorded before another   *)
(* request leaves (inbox.rs 96-108, mod.rs 366-377, dispatch.rs 194-201).  *)
InterruptEndsRun ==
  /\ \A i \in Of("interrupt") :
       /\ \A j \in (i + 1)..Len(log) : log[j].type \in {"response", "finished"}
       /\ \A j \in Of("response") : j < i => log[j].ok
       /\ Ended => outcome = "interrupted"
  /\ pc \in {"fold", "request"} => pendingInterrupt = NoCommand

ReceivedAt(c) == CHOOSE i \in DOMAIN received : received[i] = c.id

\* The run would have finished here: an answer without calls, and steers.
AtFinishLine(i) ==
  \E j \in Of("response") :
    /\ j < i /\ log[j].ok /\ ~log[j].calls
    /\ \A k \in (j + 1)..(i - 1) : log[k].type = "steer"

(* Steers are applied once each and in the order received; only an inject  *)
(* steer overtakes and only a queued one is overtaken, which waits for the *)
(* place where the run would otherwise finish (inbox.rs 111-145).          *)
SteersInReceiptOrder ==
  \A i \in Of("steer") :
    /\ log[i].cmd.mode = "queue" => AtFinishLine(i)
    /\ \A j \in Of("steer") : i < j =>
         /\ log[i].cmd.id # log[j].cmd.id
         /\ ReceivedAt(log[i].cmd) < ReceivedAt(log[j].cmd)
            \/ (log[i].cmd.mode = "inject" /\ log[j].cmd.mode = "queue")

(* A successful run answered everything it recorded: each steer was        *)
(* followed by a request that carried it.                                  *)
AppliedSteersAreAnswered ==
  Ended /\ outcome = "ok" =>
    \A i \in Of("steer") : \E j \in Of("request") : j > i

(* Each fold directive names result events of the log whose messages sit   *)
(* where it says, past the recency scope, and none is folded twice.        *)
FoldsNameResults ==
  \A i \in Of("fold") : \A r \in log[i].refs :
    /\ r.event < i /\ log[r.event].type = "result"
    /\ r.msg < Len(messages) /\ messages[r.msg + 1] = log[r.event].msg
    /\ log[r.event].turn + RecentTurns < log[i].turn
    /\ \A j \in Of("fold") : \A s \in log[j].refs :
         s.event = r.event => s = r /\ j = i

(* What can be read from the log is what the loop has: its history, the    *)
(* calls in flight and the results its folds name (mod.rs, dispatch.rs,    *)
(* fold.rs against trajectory.rs).                                         *)
LogTellsRun == ReplayEqualsLive /\ DanglingAreInFlight /\ FoldsNameResults

(* Each of the ways a run ends, an interrupt at any seam included, leaves  *)
(* its own terminal record last (mod.rs 216-384).                          *)
EndingIsRecorded == OneTerminalRecord /\ InterruptEndsRun

(* Steers of both modes, sent in any order and resent, are applied once,   *)
(* in order, and never left unanswered by a run that succeeds.             *)
SteersAreHeard == SteersInReceiptOrder /\ AppliedSteersAreAnswered
=============================================================================
