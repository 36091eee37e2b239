------------------------------- MODULE TuiApp -------------------------------
(***************************************************************************)
(* A terminal session (cadmus-tui app.rs, the driver in cadmus tui.rs):    *)
(* runs over the hub of Broadcaster, the drainer thread that forwards a    *)
(* run's tail into the app's feed and attaches again after a lag, and the  *)
(* app's event loop with its Dialog and Transcript.                        *)
(*                                                                         *)
(* The agent loop is reduced to what it says to the hub and does with the  *)
(* app's commands (Dispatch and AgentLoop have it in full).  The drainer   *)
(* is slow at will, so an item it has not forwarded stands for one the     *)
(* catch-up of run_loop has not seen.  The composer, the band's layout and *)
(* token totals are left out.                                              *)
(* answers, since and resynced are history variables.                      *)
(* An operator named Fault... is a plausible slip in the definition that   *)
(* follows it; none is part of the specification.                          *)
(***************************************************************************)
EXTENDS Broadcaster, Transcript, Dialog

CONSTANTS FeedDepth,    \* FEED_DEPTH, the message in the drainer's hand included
          DrainDeep, DrainFlood, DrainRunEnd,   \* the pacing constants
          Paced,        \* Motion::paces
          Widths,       \* terminal widths, "wide" among them
          MaxRuns,      \* bound: prompts submitted
          RunItems,     \* bound: items per run
          MaxSends,     \* bound: commands a run is sent
          MaxClears     \* bound: /clear

ASSUME TuiAssumption ==
  /\ Attachments = 1..Cardinality(Attachments) /\ Attachments # {}
  /\ FeedDepth \in Nat \ {0} /\ Paced \in BOOLEAN
  /\ DrainDeep \in Nat /\ DrainFlood \in Nat /\ DrainRunEnd \in Nat
  /\ {"wide"} \subseteq Widths /\ Widths \subseteq {"wide", "narrow"}
  /\ MaxRuns \in Nat /\ RunItems \in [1..MaxRuns -> 0..MaxItems] /\ MaxSends \in Nat /\ MaxClears \in Nat

VARIABLES loop,        \* "idle", "running", "over": hub closed and report sent
          commands, held, stopping,   \* the channel, buffered steers, an interrupt
          report,      \* the run's outcome
          drainer,     \* "idle", "read", "reattach", "report"
          feed,
          run, runs, history,
          t,           \* the transcript
          dialogs,     \* approvals
          pendingSteers, sent, paused, status, dump, runEnd, width, clears,
          scroll,      \* cells inserted into the scrollback
          answers, since, resynced

loopVars == <<loop, commands, held, stopping, report>>
feedVars == <<drainer, feed>>
viewVars == <<t, width, scroll, runEnd, dump, since, resynced>>
sessionVars == <<run, runs, history, clears>>
inputVars == <<dialogs, pendingSteers, sent, paused, status, answers>>
appVars == <<vars, loopVars, feedVars, viewVars, sessionVars, inputVars>>

---------------------------------------------------------------------------
(* Messages.                                                               *)

PromptOf(n) == [role |-> "user", of |-> Line("user", n, 0, 0)]
SteerMessage(n) == [role |-> "user", of |-> Line("user", runs, n, 1)]

\* Sync, as attach() fills it.
Baseline ==
  [messages |-> Replay(hub.events).messages, settled |-> hub.settled, pending |-> hub.pending,
   done |-> hub.done, open |-> hub.open, last |-> hub.last]

FreshBaseline == [messages |-> <<>>, settled |-> <<>>, pending |-> <<>>, done |-> {},
                  open |-> NoOpenTurn, last |-> 0]

---------------------------------------------------------------------------
(* The loop.                                                               *)

Recording(e) == [kind |-> "recorded", event |-> [id |-> Len(published) + 1] @@ e]

\* What the loop is about to say, with the text and identity it has by now.
Said(o) ==
  IF o.kind # "recorded" THEN o
  ELSE LET e == o.event IN Recording(
    CASE e.type = "response" ->
           [type |-> "response", turn |-> e.turn, ok |-> TRUE,
            msg |-> [role |-> "assistant", run |-> runs, turn |-> e.turn,
                     lines |-> Cardinality(Deltas(e.turn)), calls |-> e.calls]]
      [] e.type = "result" ->
           [type |-> "result", span |-> e.span, call |-> e.span, ok |-> e.ok, gated |-> FALSE,
            msg |-> [role |-> "tool", of |-> OutcomeLine(runs, e.span)]]
      [] e.type = "call" -> [type |-> "call", span |-> e.span, call |-> e.span, quiet |-> e.quiet]
      [] OTHER -> [type |-> "inject", msg |-> [role |-> "user", of |-> Line("inject", runs, 0, 0)]])

Called(span) == \E i \in Recorded("call") : published[i].event.span = span
Returned(span) == \E i \in Recorded("result") : published[i].event.span = span
Completed(span) == \E i \in DOMAIN published :
                     published[i].kind = "completed" /\ published[i].done.span = span

\* A call opens once, after its response and its approval; it completes and
\* returns at most once, in that order; other records wait for the turn to end.
InOrder(o) ==
  CASE o.kind = "delta" -> TRUE
    [] o.kind = "requested" -> hub.pending = <<>>
    [] o.kind = "completed" -> /\ Called(o.done.span) /\ ~Completed(o.done.span)
                               /\ ~Returned(o.done.span)
    [] o.event.type = "response" -> Deltas(o.event.turn) # {}
    [] o.event.type = "call" ->
         /\ ~Called(o.event.span) /\ hub.pending = <<>>
         /\ \E i \in Recorded("response") :
              \E c \in ToSet(published[i].event.msg.calls) : c.span = o.event.span
    [] o.event.type = "result" -> Called(o.event.span) /\ ~Returned(o.event.span)
    [] OTHER -> hub.open = NoOpenTurn

\* Bound: the last attachment may not lag.
LagBound == \A c \in Attachments : FallsBehind(c) => c + 1 \in Attachments

LoopSays(item) ==
  loop = "running" /\ Len(published) < RunItems[runs] /\ LagBound /\ Publish(item)

LoopStarts ==
  /\ published = <<>>
  /\ LoopSays(Recording([type |-> "start", base |-> Append(history, PromptOf(runs))]))
  /\ UNCHANGED <<loopVars, feedVars, viewVars, sessionVars, inputVars>>

LoopSpeaks ==
  /\ published # <<>> /\ ~stopping
  /\ \E o \in Offered : InOrder(o) /\ LoopSays(Said(o))
  /\ UNCHANGED <<loopVars, feedVars, viewVars, sessionVars, inputVars>>

Undecided(r) ==
  {i \in 1..MaxItems : \E k \in DOMAIN hub.pending :
     /\ hub.pending[k].request = r /\ i \in DOMAIN hub.pending[k].decisions
     /\ hub.pending[k].decisions[i] = "none"}

Resolving(c) == Recording([type |-> "resolve", cmd |-> c])
CallAnswer(r, i, d) == [kind |-> "call", req |-> r, index |-> i, decision |-> d]

\* Another client, or the gate's own denial of what is unanswered.
OthersDecide ==
  /\ loop = "running"
  /\ \E k \in DOMAIN hub.pending :
       LET r == hub.pending[k].request IN
       \/ \E i \in Undecided(r) : LoopSays(Resolving(CallAnswer(r, i, "rejected")))
       \/ LoopSays(Resolving([kind |-> "batch", req |-> r, decisions |-> <<>>]))
  /\ UNCHANGED <<loopVars, feedVars, viewVars, sessionVars, inputVars>>

\* A command takes effect, and is recorded, or is dropped.
LoopTakes ==
  /\ loop = "running" /\ published # <<>> /\ commands # <<>>
  /\ commands' = Tail(commands)
  /\ LET c == Head(commands) IN
     /\ held' = IF c.kind = "steer" THEN Append(held, c.of) ELSE held
     /\ stopping' = (stopping \/ c.kind = "interrupt")
     /\ IF c.kind = "call" /\ ~stopping /\ c.index \in Undecided(c.req)
        THEN LoopSays(Resolving(c))
        ELSE UNCHANGED vars
  /\ UNCHANGED <<loop, report, feedVars, viewVars, sessionVars, inputVars>>

LoopSteers ==
  /\ held # <<>> /\ ~stopping /\ hub.pending = <<>> /\ hub.open = NoOpenTurn
  /\ LoopSays(Recording([type |-> "steer", msg |-> SteerMessage(Head(held))]))
  /\ held' = Tail(held)
  /\ UNCHANGED <<loop, commands, stopping, report, feedVars, viewVars, sessionVars, inputVars>>

LoopFinishes ==
  /\ published # <<>>
  /\ stopping \/ (hub.pending = <<>> /\ hub.open = NoOpenTurn)
  /\ LoopSays(Recording([type |-> "finished", turns |-> 1,
                         error |-> IF stopping THEN "interrupted" ELSE "ok"]))
  /\ UNCHANGED <<loopVars, feedVars, viewVars, sessionVars, inputVars>>

FinishedOk == \E i \in Recorded("finished") : published[i].event.error = "ok"

\* run() returns the messages of a run that finished, an error for one that
\* was interrupted, failed or could not append.
ReportsOk == FinishedOk

\* The driver's task: close the hub, then report.
LoopEnds ==
  /\ loop = "running" /\ Close
  /\ loop' = "over"
  /\ report' = [ok |-> ReportsOk, messages |-> Replay(hub.events).messages]
  /\ UNCHANGED <<commands, held, stopping, feedVars, viewVars, sessionVars, inputVars>>

Loop ==
  LoopStarts \/ LoopSpeaks \/ OthersDecide \/ LoopTakes \/ LoopSteers \/ LoopFinishes \/ LoopEnds

---------------------------------------------------------------------------
(* The drainer thread.                                                     *)

\* The attachment it reads: the last one made.
Current == Max(attached)
Room == Len(feed) < FeedDepth

DrainerForwards ==
  /\ drainer = "read" /\ Room /\ ReadItem(Current)
  /\ feed' = Append(feed, [kind |-> "item", item |-> Head(queue[Current])])
  /\ UNCHANGED <<drainer, loopVars, viewVars, sessionVars, inputVars>>

FaultGiveUp == "report"

\* Where a lag sends the drainer.
AfterLag == "reattach"

DrainerLags ==
  /\ drainer = "read" /\ ReadLagged(Current)
  /\ drainer' = AfterLag
  /\ UNCHANGED <<feed, loopVars, viewVars, sessionVars, inputVars>>

DrainerReattaches ==
  /\ drainer = "reattach" /\ Room /\ Attach(Current + 1)
  /\ drainer' = "read"
  /\ feed' = Append(feed, [kind |-> "sync", sync |-> Baseline, resync |-> TRUE])
  /\ UNCHANGED <<loopVars, viewVars, sessionVars, inputVars>>

DrainerEnds ==
  /\ drainer = "read" /\ ReadEnd(Current)
  /\ drainer' = "report"
  /\ UNCHANGED <<feed, loopVars, viewVars, sessionVars, inputVars>>

\* The report waits for the driver, then goes last.
DrainerReports ==
  /\ drainer = "report" /\ loop = "over" /\ Room
  /\ drainer' = "idle"
  /\ feed' = Append(feed, [kind |-> "outcome", ok |-> report.ok, messages |-> report.messages])
  /\ UNCHANGED <<vars, loopVars, viewVars, sessionVars, inputVars>>

Drainer ==
  DrainerForwards \/ DrainerLags \/ DrainerReattaches \/ DrainerEnds \/ DrainerReports

---------------------------------------------------------------------------
(* The draw pump.                                                          *)

\* Rows a tick may send by the depth of the queue, and at least as many as
\* DRAIN_RUN_END while a run is finishing.
Pace(depth) ==
  LET slope == IF depth < DrainDeep THEN 1 ELSE IF depth < DrainFlood THEN 2 ELSE 4
  IN IF runEnd THEN Max({slope, DrainRunEnd}) ELSE slope

\* drain_budget.
Budget(depth) == IF ~Paced \/ dump THEN Everything ELSE Pace(depth)

\* pump_with, on the transcript: the snapshot's rows queue, "budget" leave.
Pumped(view, w, budget) == Flushed(Snapshot(view, w), budget)
PumpedCells(view, w, budget) == FlattenSeq(DrainedRows(Snapshot(view, w), budget))

FaultReleaseAtOnce(view) == TRUE

\* The end of the run's display: its queue is empty.
Released(view) == QueuedRows(view) = 0

\* pump_with, on the end-of-run state.
Sequencing(view) ==
  /\ runEnd' = (runEnd /\ ~Released(view))
  /\ dump' = (dump /\ ~(runEnd /\ Released(view)))

PumpAt(view, w) ==
  LET budget == Budget(QueuedRows(Snapshot(view, w))) IN
  /\ t' = Pumped(view, w, budget)
  /\ scroll' = scroll \o PumpedCells(view, w, budget)
  /\ Sequencing(Pumped(view, w, budget))

Pump ==
  /\ PumpAt(t, width)
  /\ UNCHANGED <<vars, loopVars, feedVars, width, since, resynced, sessionVars, inputVars>>

\* A settled resize: what is queued is wrapped again, what is drawn replays.
OnResize ==
  /\ \E w \in Widths \ {width} : width' = w /\ PumpAt(Rewound(t), w)
  /\ UNCHANGED <<vars, loopVars, feedVars, since, resynced, sessionVars, inputVars>>

---------------------------------------------------------------------------
(* The feed.                                                               *)

\* The clock holds while a request waits; outside a run it is frozen.
HeldClock(queued) == IF run THEN queued # <<>> ELSE paused

Queued(queued, request, decisions) ==
  LET d == NewDialog(request, decisions) IN IF Complete(d) THEN queued ELSE Append(queued, d)

\* What stands at some places of the queue, in order.
Those(queued, places) ==
  LET upTo[i \in 0..Len(queued)] ==
        IF i = 0 THEN <<>>
        ELSE IF i \in places THEN Append(upTo[i - 1], queued[i]) ELSE upTo[i - 1]
  IN upTo[Len(queued)]

Others(queued, r) == Those(queued, {i \in DOMAIN queued : queued[i].request # r})
Open(queued) == Those(queued, {i \in DOMAIN queued : ~Complete(queued[i])})

FaultSettleByCall(queued, c) == queued

\* A batch settles the whole request.
SettleBatch(queued, c) == Others(queued, c.req)

SettleOne(queued, c) ==
  Open([i \in DOMAIN queued |-> IF queued[i].request = c.req
                                THEN SettleCall(queued[i], c.index, c.decision) ELSE queued[i]])

\* settle_approval.
SettleApproval(queued, e) ==
  CASE e.type = "resolve" -> IF e.cmd.kind = "batch" THEN SettleBatch(queued, e.cmd)
                             ELSE SettleOne(queued, e.cmd)
    [] e.type = "finished" -> <<>>
    [] OTHER -> queued

\* The dialog queue after an item the one client rule lets through.
AfterItem(queued, item) ==
  CASE item.kind = "requested" -> Queued(queued, item.request, [i \in 1..item.calls |-> "none"])
    [] item.kind = "recorded" -> SettleApproval(queued, item.event)
    [] OTHER -> queued

\* sync_approvals: the baseline's requests, in its order, with what this
\* client knew of each.
SyncApprovals(queued, pending) ==
  LET known == {queued[i].request : i \in DOMAIN queued}
      Of(r) == CHOOSE i \in DOMAIN queued : queued[i].request = r
  IN Open([k \in DOMAIN pending |->
             IF pending[k].request \in known
             THEN Resync(queued[Of(pending[k].request)], pending[k].decisions)
             ELSE NewDialog(pending[k].request, pending[k].decisions)])

\* Light, as the status row notes it.
Noted(item) ==
  CASE item.kind = "delta" -> "streaming"
    [] item.kind = "recorded" /\ item.event.type = "response" -> "streaming"
    [] item.kind = "recorded" /\ item.event.type = "call" -> "tool"
    [] item.kind = "recorded" /\ item.event.type = "finished" ->
         IF item.event.error = "ok" THEN "idle" ELSE "failed"
    [] OTHER -> status

IsSteer(item) == item.kind = "recorded" /\ item.event.type = "steer"

OnItem ==
  /\ run /\ feed # <<>> /\ Head(feed).kind = "item"
  /\ LET item == Head(feed).item
         fresh == Fresh(t, item)
     IN /\ t' = ApplyItem(t, item, runs)
        /\ dialogs' = IF fresh THEN AfterItem(dialogs, item) ELSE dialogs
        /\ pendingSteers' = IF fresh /\ IsSteer(item) THEN Max({0, pendingSteers - 1})
                            ELSE pendingSteers
        /\ status' = IF fresh THEN Noted(item) ELSE status
  /\ paused' = HeldClock(dialogs')
  /\ feed' = Tail(feed)
  /\ UNCHANGED <<vars, loopVars, drainer, width, scroll, runEnd, dump, since, resynced,
                 sessionVars, sent, answers>>

FaultKeepCount == pendingSteers

\* The count after a re-sync: the hole's applications are in the baseline.
SteersAfterResync == 0

\* Everything drawn first, the baseline applied, the rebuild drawn whole.
OnSync ==
  /\ run /\ feed # <<>> /\ Head(feed).kind = "sync"
  /\ LET m == Head(feed)
         before == Pumped(t, width, Everything)
         rebuilt == ApplySync(before, m.sync, m.resync, runs)
     IN /\ t' = Pumped(rebuilt, width, Everything)
        /\ scroll' = scroll \o PumpedCells(t, width, Everything)
                            \o PumpedCells(rebuilt, width, Everything)
        /\ Sequencing(before)
        /\ since' = IF m.resync THEN since ELSE Len(scroll \o PumpedCells(t, width, Everything))
        /\ resynced' = m.resync
        /\ dialogs' = SyncApprovals(dialogs, m.sync.pending)
        /\ pendingSteers' = IF m.resync THEN SteersAfterResync ELSE pendingSteers
  /\ paused' = HeldClock(dialogs')
  /\ feed' = Tail(feed)
  /\ UNCHANGED <<vars, loopVars, drainer, width, sessionVars, sent, status, answers>>

\* The run's note, behind an error line when the stream did not end in one.
Closing(ok) ==
  LET told == IF ok \/ status = "failed" THEN t ELSE Say(t, <<Line("failed", runs, 0, 1)>>)
  IN Say(told, <<Line("note", runs, 0, 0)>>)

\* on_outcome.
OnOutcome ==
  /\ run /\ feed # <<>> /\ Head(feed).kind = "outcome"
  /\ LET m == Head(feed) IN
     /\ history' = IF m.ok THEN m.messages ELSE history
     /\ t' = Closing(m.ok)
     /\ status' = IF m.ok THEN "idle" ELSE "failed"
  /\ feed' = <<>> /\ run' = FALSE /\ runEnd' = TRUE
  /\ dialogs' = <<>> /\ pendingSteers' = 0 /\ paused' = TRUE
  /\ UNCHANGED <<vars, loopVars, drainer, width, scroll, dump, since, resynced,
                 runs, clears, sent, answers>>

OnFeed == OnItem \/ OnSync \/ OnOutcome

---------------------------------------------------------------------------
(* The keyboard.                                                           *)

\* A fresh run starts paced.
DumpAtSubmit == FALSE

\* Enter at the idle prompt: the prompt is drawn, a new hub is attached to
\* before its loop exists, the loop and the drainer start.
Submit ==
  /\ ~run /\ runs < MaxRuns
  /\ run' = TRUE /\ runs' = runs + 1
  /\ t' = Say(t, <<Line("user", runs + 1, 0, 0)>>)
  /\ dump' = DumpAtSubmit
  /\ paused' = FALSE /\ status' = "streaming" /\ sent' = 0
  /\ hub' = EmptyHub /\ closed' = FALSE /\ published' = <<>>
  /\ attached' = {1} /\ reading' = {1} /\ subscribed' = {1}
  /\ queue' = [c \in Attachments |-> <<>>] /\ lagged' = [c \in Attachments |-> FALSE]
  /\ reported' = {} /\ ended' = {}
  /\ asOf' = [c \in Attachments |-> 0] /\ applied' = [c \in Attachments |-> <<>>]
  /\ loop' = "running" /\ commands' = <<>> /\ held' = <<>> /\ stopping' = FALSE
  /\ drainer' = "read"
  /\ feed' = <<[kind |-> "sync", sync |-> FreshBaseline, resync |-> FALSE]>>
  /\ UNCHANGED <<report, history, width, clears, scroll, runEnd, since, resynced, dialogs,
                 pendingSteers, answers>>

\* The command sink: a loop that is over lost its receiver.
Send(c) ==
  /\ run /\ sent < MaxSends
  /\ sent' = sent + 1
  /\ commands' = IF loop = "running" THEN Append(commands, c) ELSE commands

Steer ==
  /\ Send([kind |-> "steer", of |-> sent])
  /\ pendingSteers' = pendingSteers + 1
  /\ UNCHANGED <<vars, loop, held, stopping, report, feedVars, viewVars, sessionVars, dialogs,
                 paused, status, answers>>

Interrupt ==
  /\ Send([kind |-> "interrupt"])
  /\ dump' = TRUE
  /\ UNCHANGED <<vars, loop, held, stopping, report, feedVars, t, width, scroll, runEnd, since,
                 resynced, sessionVars, dialogs, pendingSteers, paused, status, answers>>

\* Tab and Shift-Tab on the head dialog.
Tab(backwards) ==
  /\ dialogs # <<>>
  /\ dialogs' = [dialogs EXCEPT ![1] = MoveFocus(@, backwards)]
  /\ UNCHANGED <<vars, loopVars, feedVars, viewVars, sessionVars, pendingSteers, sent, paused,
                 status, answers>>

\* y and n on the head dialog: an unarmed one only disarms.
AnswerKey(decision) ==
  /\ dialogs # <<>>
  /\ dialogs' = [dialogs EXCEPT ![1] = AfterSubmit(@)]
  /\ LET d == Head(dialogs) IN
     IF Sends(d)
     THEN /\ Send(CallAnswer(d.request, d.selected, decision))
          /\ answers' = Append(answers, <<runs, d.request, d.selected>>)
     ELSE UNCHANGED <<commands, sent, answers>>
  /\ UNCHANGED <<vars, loop, held, stopping, report, feedVars, viewVars, sessionVars,
                 pendingSteers, paused, status>>

\* /clear at the idle prompt: the transcript starts over, queue included.
\* Bounds: MaxClears, and none before the first run, which would have nothing
\* to clear.
Clear ==
  /\ ~run /\ clears < MaxClears /\ clears < runs
  /\ clears' = clears + 1
  /\ history' = <<>>
  /\ t' = Say(Blank, <<Line("cleared", clears + 1, 0, 0)>>)
  /\ since' = Len(scroll)
  /\ UNCHANGED <<vars, loopVars, feedVars, run, runs, width, scroll, runEnd, dump, resynced, inputVars>>

Keyboard ==
  \/ Submit \/ Steer \/ Interrupt \/ Clear
  \/ \E backwards \in BOOLEAN : Tab(backwards)
  \/ \E decision \in {"approved", "rejected"} : AnswerKey(decision)

---------------------------------------------------------------------------
AppInit ==
  /\ Init
  /\ loop = "idle" /\ commands = <<>> /\ held = <<>> /\ stopping = FALSE
  /\ report = [ok |-> TRUE, messages |-> <<>>]
  /\ drainer = "idle" /\ feed = <<>>
  /\ run = FALSE /\ runs = 0 /\ history = <<>> /\ clears = 0
  /\ t = Blank /\ width = "wide" /\ scroll = <<>> /\ runEnd = FALSE /\ dump = FALSE
  /\ since = 0 /\ resynced = FALSE
  /\ dialogs = <<>> /\ pendingSteers = 0 /\ sent = 0 /\ paused = TRUE /\ status = "idle"
  /\ answers = <<>>

AppNext == Loop \/ Drainer \/ OnFeed \/ Pump \/ OnResize \/ Keyboard

AppSpec == AppInit /\ [][AppNext]_appVars

\* OnFeed, by what only it does.
TakesFeed == run /\ feed # <<>> /\ feed' = Tail(feed)

\* The drainer thread and the event loop keep running; the agent loop, the
\* clients and the user need not.
FairAppSpec == AppSpec /\ WF_feedVars(Drainer) /\ WF_feed(TakesFeed)

---------------------------------------------------------------------------
(* Properties.                                                             *)

\* Nothing is on its way to the app.
CaughtUp ==
  /\ run /\ ~closed /\ feed = <<>> /\ drainer = "read" /\ queue[Current] = <<>> /\ ~lagged[Current]

(* An app with nothing on its way shows the requests the hub holds open,   *)
(* with their recorded decisions, in their order, whatever it missed; and  *)
(* the run clock is held exactly while a request waits (app.rs 872-952,    *)
(* 968-1046).                                                              *)
DialogsFollowHub ==
  /\ CaughtUp => [i \in DOMAIN dialogs |-> [request |-> dialogs[i].request,
                                            decisions |-> dialogs[i].decisions]]
                  = [i \in DOMAIN hub.pending |-> [request |-> hub.pending[i].request,
                                                   decisions |-> hub.pending[i].decisions]]
  /\ run => paused = (dialogs # <<>>)

(* The app answers a call of a request at most once, re-syncs included     *)
(* (approval.rs 55-107).                                                   *)
AnswersOnce == IsInjective(answers)

(* A key the user has not pressed never arms an answer: what a feed        *)
(* message puts under the focus is disarmed (approval.rs 42-47, 109-121).  *)
FocusMovesDisarmed ==
  [][ (feed' # feed /\ dialogs' # <<>> /\ dialogs'[1].armed)
      => /\ dialogs # <<>> /\ dialogs[1].armed
         /\ dialogs[1].request = dialogs'[1].request
         /\ dialogs[1].selected = dialogs'[1].selected ]_appVars

\* Steers of this run whose application the transcript has passed.
Applied == {i \in Recorded("steer") : published[i].seq <= t.asOf}

(* The count of pending steers never exceeds those sent and not yet known  *)
(* to be applied (app.rs 280-287, 1004-1034).                              *)
SteersNotOverReported == run => pendingSteers <= sent - Cardinality(Applied)

(* The outcome is the last thing the app hears of a run: by then it has    *)
(* applied or been told in a baseline everything published, and an ok      *)
(* report's messages are the log's (app.rs 146-198, 1119-1168).            *)
OutcomeComesLast ==
  (runs > 0 /\ ~run) =>
    /\ t.asOf = Len(published) \/ clears > 0
    /\ report.ok => history = Replay(hub.events).messages \/ clears > 0

(* Whatever it missed, the app shows, answers and keeps what the hub has.  *)
AppFollowsHub ==
  DialogsFollowHub /\ AnswersOnce /\ SteersNotOverReported /\ OutcomeComesLast

(* A run whose loop is over is torn down, a lag or a full feed on the way  *)
(* notwithstanding (app.rs 157-198, tui.rs 150-194).                       *)
RunsEnd == (loop = "over" /\ run) ~> ~run

(* No cell of a line enters the scrollback twice: not after a lag, a       *)
(* resize in the middle of an emission, or a provisional outcome and its   *)
(* durable result (transcript.rs 353-501, 607-706).                        *)
NothingTwice == IsInjective(scroll)

(* What a resize would replay from source is exactly what was inserted     *)
(* since the transcript started over, cell by cell and in order, half      *)
(* drained emissions included (transcript.rs 704-790).                     *)
ReplayIsScrollback ==
  ~resynced => ReplayedCells(t) = SubSeq(scroll, since + 1, Len(scroll))

(* The scrollback is the transcript's own account of it, each cell once.   *)
ScrollbackIsTold == NothingTwice /\ ReplayIsScrollback

(* When the end of a run's display is released its note is the last thing  *)
(* in the scrollback and nothing waits behind it (app.rs 304-310, 585-600).*)
NoteLandsLast ==
  (runs > 0 /\ ~run /\ ~runEnd /\ clears = 0) =>
    /\ scroll # <<>> /\ Last(scroll) = <<Line("note", runs, 0, 0), 2>>
    /\ QueuedRows(Snapshot(t, width)) = 0

(* The doc of on_outcome (app.rs 1113-1117): the interrupt path's report   *)
(* is Ok, so its messages become the session's history and the run is      *)
(* noted as worked, not failed.                                            *)
InterruptReportsOk ==
  (runs > 0 /\ ~run /\ \E i \in Recorded("finished") : published[i].event.error = "interrupted")
    => report.ok
=============================================================================
