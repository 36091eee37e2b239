# Cadmus: a TLA+ verification development

Cadmus is a terminal coding agent: an event-sourced core runs a language model
in a loop, tools act on the workspace behind an approval gate, and clients (a
terminal UI, a line-oriented renderer) follow the run over a live stream and
steer it with commands. This directory specifies the parts of it that are
concurrent, ordered, replayed or persisted, model-checks them on small instances
with TLC, and proves the central theorems for every instance with TLAPS.

Source paths below are relative to `src/crates/`.

## 1. The system

| component | code | state | operations |
|---|---|---|---|
| run loop | `cadmus-core/src/agent/mod.rs`, `events.rs`, `trailer.rs` | history, turn, open stream | `run`, `assistant_turn`, `finish_with`, `inject_nested` |
| client inbox | `agent/inbox.rs` | buffered resolves and steers, one interrupt, seen command ids | `note`, `poll_incoming`, `take_interrupt`, `take_approval`, `drain_boundary`, `apply_steers` |
| approval gate | `agent/gate.rs` | one decision slot per call, a deadline | `open_gate`, `apply`, `drain`, `deny_unanswered` |
| tool dispatch | `agent/dispatch.rs` | spans, running branches, outcomes, flush cursor, parked receive | `dispatch_tools`, `push_result` |
| context folding | `agent/fold.rs`, `cadmus-core/src/context.rs` | result tracks, folded positions, baseline | `maybe_fold` and its estimate |
| trajectory replay | `cadmus-core/src/trajectory.rs` | none (pure) | `replay_trace`, `latest_response_anchor` |
| stream assembler | `cadmus-core/src/assembler.rs` | text, partial and sealed calls | `push`, `snapshot`, `complete` |
| live-stream hub | `cadmus-transport/src/lib.rs` | event list, open partial turn, pending and settled approvals, bounded queues | `publish`, `attach`, `close`, `Tail::next` |
| command channel | `cadmus-transport/src/lib.rs` | FIFO of commands, live senders | `send`, `poll`, `recv_timeout` |
| client-protocol suite | `cadmus-contract/src/testing.rs` | none | one case per promise to a client |
| trace log | `cadmus-memory/src/jsonl.rs` | one JSONL file per run, artifacts, shards by month | `append`, `read_trace`, `write_artifact` |
| evaluation runner | `cadmus/src/eval.rs` | corpus, scratch copies, a trace per case | load, run, score, report |
| provider adapter | `cadmus-llm-openai` | none kept | dialects, request mapping, stream mapping, error classes |
| tools, context files, rules | `cadmus/src/tools`, `cadmus/src/context.rs`, `skills.rs`, `rules.rs` | the file system, entered subtrees, grants | read, write, edit, grep, list, todo, skill; discovery; matching |
| TUI app | `cadmus-tui/src/app.rs`, driver in `cadmus/src/tui.rs` | run, feed, dialog queue, pending steers, dump and run-end modes, history | drainer thread, `on_feed`, `pump_with`, `on_resize`, `submit`, `steer`, `interrupt`, `on_outcome` |
| TUI approval dialog | `cadmus-tui/src/approval.rs` | decisions, submitted answers, focus, armed | `move_focus`, `submit`, `settle`, `resync` |
| TUI transcript, markdown | `cadmus-tui/src/transcript.rs`, `stream.rs`, `cadmus-ui/src/markdown.rs` | blocks, emission queue, flush cursors, rendered cache | `apply_item`, `apply_sync`, `drain`, `apply_flush`, `rewind_queue`, `replay_tail`, the block cache |
| composer, band, shell | `cadmus-tui/src/{composer,layout,shell,history,debounce}.rs` | text, selection, undo units, viewport rows | editing, `draw`, `insert_history`, resizes |
| TUI timing, settings | `cadmus-tui/src/{frame,config}.rs` | next frame instant; three tiers | frame scheduling; reading and merging |
| repository automation | `xtask/src` | the tree | architecture check, scaffold, toolchain bump, commit check |

How they interact. The run loop is one cooperative task. It appends every event
to the log first and publishes it to the hub second (`events.rs` 13-27); chunks,
approval requests and provisional tool outcomes are published only. Clients hold
a command sender and an attachment: a baseline computed under the hub's lock
and a bounded queue of everything later. Commands reach the loop through one
queue, which it polls at four seams (turn boundary, between chunks, each dispatch
iteration, the finish line). The clock decides the approval deadline. Replay
rebuilds the history from the log, for the hub's baselines, for audits and for
resumed sessions.

What is hard, and where `PROJECT.json` lists it line by line:

- a parked receive that owns the command queue's lock while tools complete;
- answers that are late, repeated, contradictory, short or out of range, against
  a deadline and a closing channel;
- tools finishing in any order under a log that must stay in call order;
- an interrupt or a steer arriving in any of the loop's phases;
- an append that fails in the middle of a batch, a process that dies within one,
  a disk that fills;
- a second implementation of the same facts: replay against the live history,
  the hub's approval state against the gate's, the anchor walk against replay,
  the incremental Markdown cache against a render of the whole text;
- readers that lag, hang up or attach while the hub publishes and closes;
- a terminal that shows a run through a thread that may lag, rebuilds its view
  over a scrollback it cannot rewrite, is resized at any moment, and takes keys
  about a dialog that other clients change.

What makes each component correct: the gate's decisions are those of the log and
a mutation runs only on one that approved it; dispatch records exactly one result
per recorded call, in order, never sleeps without a waker and never starts past a
known interrupt; the loop's history is the replayed one and every run ends in one
terminal record; an attachment is a gapless continuation of its baseline;
the terminal shows each line once, in order, answers each call once and only on a
key the user meant for it, and lets go of a run exactly when it is over; what is
read of a trace after a crash is an error or a beginning of what was written, and all
of it unless the tear is inside a character (section 6) or a torn line was appended to.

## 2. The modules

| module | models | form |
|---|---|---|
| `ToolBatch` | what a batch promises: a decision is final, a call opens once after an approval or denial and closes once, nothing opens after a stop | abstract state machine |
| `Dispatch` | `gate.rs`, `dispatch.rs`, the dispatch half of `inbox.rs`, the command channel | one action per phase of a loop iteration; refines `ToolBatch` |
| `DispatchLive` | `Dispatch` with the hub tracking what it publishes | state machine over `Dispatch`'s, composing `LiveState` |
| `Trajectory` | `replay_trace`, `latest_response_anchor` | recursive functions over an event list |
| `AgentLoop` | `mod.rs`, the run half of `inbox.rs`, `events.rs`, `fold.rs`, `inject_nested` | composes `ToolBatch` for its batches and `Trajectory` for its properties |
| `LiveState` | the hub's `track` and its attach-time state | pure operators over a record |
| `Broadcaster` | `publish`, `attach`, `close`, `Tail::next` | state machine over `LiveState` |
| `HubSuite` | the live-transport cases of `testing.rs` | scripts a publisher plays to `Broadcaster` |
| `Dialog`, `Transcript` | `approval.rs`; `transcript.rs`, `stream.rs`, `wrap.rs` | pure operators over one record each |
| `TuiApp` | `app.rs`, the driver in `tui.rs` | state machine over `Broadcaster`, `Transcript` and `Dialog` |
| `TextField`, `Composer` | an abstract text field; `composer.rs` | the second implements the first |
| `InlineShell` | `layout.rs`, `shell.rs`, `history.rs`, `debounce.rs` | operators on a screen |
| `Terminal` | the foot of the screen: `Composer` and `InlineShell` on terminals of two kinds | state machine |
| `MarkdownStream` | `markdown.rs`, against an external parser | operators, some RECURSIVE |
| `AgentStream` | a reply through `Transcript`'s live half and `MarkdownStream` | state machine |
| `Assembler`, `Adapter`, `ProviderTurn` | `assembler.rs`; `cadmus-llm-openai`; a model call through both | operators, and a state machine composing them |
| `FrameScheduler` | `frame.rs` | state machine with a clock |
| `ContextBudget` | the fold estimate and triggers, `context.rs` | state machine over turns |
| `Settings`, `CrateTree`, `RepoChores` | `config.rs`; `arch.rs`, `new_crate.rs`; `bump_toolchain.rs`, `commit.rs` | small state machines |
| `TraceLog`, `EvalRun` | `jsonl.rs`; `eval.rs` over it | state machines with crashes |
| `FileTools`, `ContextFiles`, `Rules`, `Workspace` | the tools; `context.rs`, `skills.rs`; `rules.rs`; the three at work on one file system | operators, composed by `Workspace` |
| `MC...` | vocabularies of commands, items, texts and worlds for TLC | |
| `...Proofs` | theorems (section 4) | TLAPS |

Operators named `Fault...` are plausible slips in the operator that follows them.
None is part of a specification; replacing an operator by its fault breaks the
property `PROJECT.json` pairs it with, which shows the property constrains the
code.

### Dispatch

One batch of `N` calls. `pc` names the phase of the current iteration of the
`loop` at `dispatch.rs` 59 (the module's header has the table). The variables are
the code's: `decisions` (`Gate::decisions`; `"approved"` for ungated calls, as
`open_gate` writes), `started` (`spans[p].is_some()`), `running` (keys of
`branches`), `outcomes`, `flushed`, `completed`, `interrupt`, `waiting`
(`waiting.is_some()`), `admitted`, and the inbox's `seen`, `resolves`, `steers`,
`pendingInterrupt`. `log` holds what `emit` appended; `early` what was published
as `ToolCompleted`. `expired` is `remaining() == 0`. Between two phases the
environment may send, close the channel or pass the deadline: the loop's awaits
and its synchronous tools leave both open. `inTime` and `overdue` are history
variables used by properties only.

The timer inside `recv_timeout` and the injected clock are two clocks. The model
lets the receive report a timeout only once `expired` holds and lets it be late
(`NothingReceived`); it is never early.

`AppendFails` is the `?` after each `emit`: the function returns at once and drops
the branches.

The refinement maps `verdict` to `decisions`, `span[p]` to what the log says of
call p (`Span`), `stopped` to `interrupt # NoCommand` and `over` to the cursor
having passed the last call. `AgentLoop` then uses `ToolBatch` for its batches, so
what it shows of a whole run holds for the detailed loop: the composition is by
refinement, not by a second, weaker model of dispatch.

### AgentLoop

`pc` follows `run`: `boundary` (`drain_boundary`), `fold` (`maybe_fold`), `request`,
`call` (`chat_stream`), `stream`/`chunk`, `finish` (the no-calls branch),
`dispatch`, and `record`, which appends the planned events one by one so that the
log can fail between any two of them. A stream assembles nothing, text, or text
and calls; a cut stream keeps what it has. `messages` is the live history, `log`
the durable one. The fold trigger is a free choice here (`FoldNothing` is always
possible); its arithmetic is `ContextBudget`'s. Which steers go on at a boundary
is the code's partition, modelled as taking the buffer and putting the queued ones
back one at a time; a directive's references are a set, their order is left out.
An interrupt found at the finish line is dropped unrecorded and the steers still
buffered with it: the user stopped the run, which ends well (`inbox.rs`,
`an_interrupt_at_the_finish_line_is_moot`).
`received` is a history variable.

### Trajectory, LiveState, Broadcaster, HubSuite

`Replay` and `Anchor` are recursive functions, one clause per event kind.
`LiveState` is the hub's `State` as a record with `Track` as a pure operator, so the
same definition serves `Broadcaster` (any sequence of items) and `DispatchLive` (the
items a dispatch really publishes: every step of `Dispatch` is taken together with
the `Track` of what it appends to the log or holds back). The open turn is kept as its number and how
many chunks it has: the assembler is a fold of the chunks, and the properties are
about which chunks it has seen. `Broadcaster` gives each attachment a queue of
`QueueCapacity`; `publish` drops a subscriber it finds full and marks it lagged.
`HubSuite` closes up the sequence gaps of the anchor case and states the window
case relative to `Window`; the rest of each case is as the suite writes it.

### Dialog, Transcript, TuiApp

`TuiApp` runs three parties over one hub: an agent loop reduced to what it says and
what it does with the app's commands (`Loop...`), the drainer thread
(`Drainer...`, `app.rs` 157-198) and the app's event loop (`OnFeed`, `Pump`,
`OnResize`, `Keyboard`). Submitting attaches to a fresh hub before the loop exists,
as the driver does, and resets the hub's variables: run n+1 has a hub of its own.
The message the drainer holds while it waits for room is the last of the feed, so
`FeedDepth` counts one more than the channel. The loop's `try_recv` catch-up is
not a step of its own: the drainer may be slow at will, so an item the catch-up
would have taken is one the drainer has not forwarded yet.

A `Transcript` line is what it shows, in two cells: one row when the terminal is
wide, two when it is narrow, which is what wrapping does as far as rows left and
confirmed go. A text delta is one line, and the last line of an open turn is
unstable, as a paragraph that may go on. `scroll` is the cells inserted into the
terminal's scrollback so far. `answers`, `since` and `resynced` are history
variables. A tool result in the log is shown from its message (`OutcomeLine`),
the same cell its provisional outcome has: showing both is showing it twice.

### Terminal, AgentStream

`Terminal` edits a prompt, draws the band, grows and shrinks it by scenes (idle, a
run, a run with a dialog), lands rows above it, and lets the terminal change its
size at any moment but between an operation's question for the size and the end of
its write. Two kinds of terminal differ in whether growing restores rows. What the
terminal reports as its rows after a resize is nondeterministic where real ones
differ.

`MarkdownStream` parses one row per line. `CommonMark`, the parser the code calls,
is external and written as the rules the properties need; the cache over it,
its reconciliation and its closing are the code's. A reply is a text of a family,
pushed line by line and rendered at any moment; `StreamedIsOneShot` compares
with the render of the whole text.

### The parts

Nine specifications that share no state with the rest run side by side in
`MCParts`: a variable picks one and the others stand still. Each has its own
header, bounds and property. `TraceLog` cuts an append at any byte class and lets
the process die there; `EvalRun` runs sets of cases over it. `TraceReadsBack` says of
every trace that a reader is never misled, and of those without a tear inside a
character and without an append after a torn line that nothing is lost; that a crash
alone loses nothing more is what `jsonl.rs` claims, and `trace_torn` shows it does
not hold. `Workspace` takes each call of a tool as one step and lets a second writer
change files between two calls; it does not act inside one. A search stops at the read
that brings a NUL and keeps what it found before; where reads end is taken to be
every `ReadFill` bytes.

Positions count from 1 in the modules and from 0 in the code. Event sequence
numbers are consecutive in the model; the code skips numbers it could not append,
which only makes gaps the readers do not look at.

## 3. What the runs check

| run | bounds | shows |
|---|---|---|
| `dispatch_parallel` | 3 parallel-safe calls, 2 gated; 3 sends from a short batch reply, two answers per call that contradict it, an interrupt | decisions follow the log, execution needs a recorded approval, results in call order, a queued interrupt stops starts, a late answer decides nothing and closure denies only what nobody answered (`WaitEndsFairly`), the dialog and the provisional outcomes a client is shown are the loop's (`ClientsSeeBatch`) |
| `dispatch_serial` | 3 calls, 1 parallel-safe; 2 sends from 9 stray commands: indices past the batch, another request, long and empty replies, a steer, two interrupts | no overlap, returns leave nothing open, parking has a waker, the refinement of `ToolBatch`, every batch returns |
| `agent_run` | 2 turns, 2 calls, one of them gated and one bulky; 3 sends of steers of both modes and an interrupt, resent too; 1 instruction file, a log that may fail at any append | the log replayed is the live history at every request, dangling calls are in flight, fold directives name what is there (`LogTellsRun`); one terminal record that counts the turns, an interrupt ends the run (`EndingIsRecorded`); steers are applied once, in order, and answered (`SteersAreHeard`) |
| `hub` | 2 attachments, queues of 2 and 5 items for a hub that only streams; a run of 13 events of two turns with an approval each and a window of 1, 7 published; each case of the suite for one client | gapless tails, a lag told from an end (`TailsAreWhole`); the baseline's approvals, anchors and open turn are the log's (`BaselineFollowsLog`); the suite holds at every position it asks about (`SuiteIsMet`) |
| `tui_session` | 1 run of 6 items asking two approvals, 2 commands, feed of 1, hub queue of 1, one lag, 1 `/clear` after the run | the dialog queue follows the hub across a lag, each call is answered once, steers are not over-reported (`AppFollowsHub`); a feed message never arms an answer (`FocusMovesDisarmed`) |
| `tui_pump` | a run that only starts and one of 6 items, a call completed before it returns, one command per run, one lag, resizes between two widths, paced | each cell drawn once, the replay is what was drawn (`ScrollbackIsTold`), the note lands last, every run is torn down |
| `tui_interrupt` | violation | see section 6 |
| `terminal` | screens of 3 to 6 rows and two widths, words, wide and combining characters, 2 undo units, a band that asks for 2 rows, every scene | rows on the screen and above it are the ones landed, once, in order, given that the terminal keeps its size from the question for it to the end of the write (section 5) (`ScreenIsSound`); the band stays at the foot and holds what it promised (`BandHolds`); the composer is a text field (`ImplementsTextField`) |
| `markdown` | every reply of up to 4 lines over seven alphabets, two widths, budgets of 1 and 3, a queue of 2 | what was streamed is the render of the whole (`StreamedIsOneShot`); the queue is the slice of it that is not out yet (`SliceIsItsEmission`) |
| `markdown_reopened` | violation | see section 6 |
| `trace_torn` | violation; the traces of `parts` alone | see section 6 |
| `parts` | see `Parts.cfg`: 4 chunks a call, 5 instants and 3 frame requests, 6 turns, 2 edits of a tree, 3 bumps, messages of 6 lines, traces of 4 records, files of 6 bytes | one property per part, listed in `MCParts` |

Why the bounds are enough. Three calls are the fewest with one gated call before
and one after an ungated one, an out-of-order completion on both sides of the flush
cursor, and a serial call between two others. Three sends are the fewest that hold
a command, its retry or contradiction, and an interrupt. Two turns give a boundary
with a history on both sides. A capacity of two with five items lets a reader fall
behind after having read. A window of one is the smallest that evicts.
A hub queue of one lags at the second unread item, and a feed of one is the
fullest a thread can be held up by; six items reach the durable result behind its
provisional outcome, or two answers behind their request; two commands are an
answer and its repetition, or a steer and an interrupt. The pacing constants keep
their order at 2, 3 and 4 rows, since no queue here reaches 8 or 24. A screen of
three rows is smaller than the band it must hold, one of six larger than all of it.
Four lines of Markdown hold a block, its continuation after a blank, and what
closes it. `MaxSends`, `MaxChunks`, `MaxTurns`, `MaxNested`, `MaxItems`,
`MaxEvents`, `MaxRuns`, `RunItems`, `MaxClears`, `LagBound`, `MaxLines`,
`MaxQueue`, `MaxRequests`, `LastInstant`, `BudgetTurns`, `MaxEdits`, `MaxBumps`,
`MaxRecords` and `SetRecords` bound the environment only: no property needs the
bound, and no theorem of section 4 assumes it.

Fairness. `LiveFairSpec` has `LoopFairness`: weak fairness of `LoopStep` (the executor polls a task
that can move) and of `Expire` (time passes). That every batch returns also needs
every started tool to return, which no code enforces, so `BatchReturns` states it as
a hypothesis: `ToolsReturn => <>(~Live)`.
`tui_pump` runs under `FairAppSpec`: the drainer thread and the
app's event loop keep running (`TakesFeed` is what `OnFeed`, and no other step,
does to the feed); the agent loop, other clients and the user need not, so
`RunsEnd` starts from a loop that is over.
Clients are never fair: they need not send, answer or hang up.

Deadlock is checked for `Dispatch`, `AgentLoop` and `Broadcaster`, which end in an
explicit stuttering action (`Returned`, `Quiet`). In the other runs the bounds on
the user, the reply or the part leave nothing to do at the end, and their
configurations say so.

## 4. What is proved

Every theorem holds for all values of the constants. The assumptions are those of
the modules: `DispatchAssumption` (at least one call, the gated and parallel-safe
sets are sets of positions, commands are well formed, a retry resends the same
command), `AgentLoopAssumption`, `BroadcasterAssumption` (a capacity of at least
one, items of the four kinds), `LiveStateAssumption` (the window is a number),
`DispatchLiveAssumption` (it holds one settlement; the code's holds 32),
`ProviderAssumption` (a request's history is a list), `TuiAssumption` and `FrameBounds` (interval and channel depth at least one, no
horizon in the past). `BaselineStaysTrue` has the hypothesis `WellFormedOffers`, what
the code never publishes otherwise: a turn counts from 1, a request is for at least
one call (`gate.rs` 175), an answer approves or rejects, an id is one event's. TLC
evaluates it for the run of `hub` (`RunsAreWellFormed`). `StartsAreStrict` has the
hypothesis that the candidate files of a tier are a list (`ListsCandidates`), because
the prover knows nothing of the `SelectSeq` they are selected with; TLC evaluates it
for the machines of `parts` (`MachinesListTheirFiles`), and `SettingsComeInLayers` is
the theorem of those machines. No bound on calls, sends, commands, turns, items,
requests or time is used.

| theorem | module | states |
|---|---|---|
| `TypeCorrect`, `SerialExclusion`, `QueuedInterruptWins` | `DispatchProofs` | `TypeOK`, `SerialNeverOverlaps`, `QueuedInterruptStopsStarts` |
| `BooksAgree` | `DispatchProofs` | the inductive invariant `Books` |
| `ResultsOrdered`, `DecisionsAreLogged`, `ApprovalPrecedesExecution` | `DispatchProofs` | `ResultsInCallOrder`, `DecisionsFollowLog`, `ExecutionWasApproved` |
| `ParkAlwaysWakes`, `ReturnsLeaveNothingOpen` | `DispatchProofs` | `TickCanWake`, `ReturnsSettled` |
| `DispatchImplementsToolBatch` | `DispatchProofs` | `ImplementsToolBatch` |
| `WaitIsFair` | `DispatchProofs` | `WaitEndsFairly` |
| `ClientsStayInformed` | `DispatchProofs` | `ClientsSeeBatch`, of `LiveSpec` |
| `TailsStayWhole` | `BroadcasterProofs` | `TailsAreWhole` |
| `BaselineStaysTrue` | `BaselineProofs` | `BaselineFollowsLog`, for well-formed offers |
| `RunsEndRecorded`, `SteersStayHeard` | `AgentLoopProofs` | `EndingIsRecorded`, `SteersAreHeard` |
| `LogReplaysTheRun` | `AgentLoopProofs` | `LogTellsRun` |
| `FocusStaysDisarmed` | `TuiProofs` | `FocusMovesDisarmed`, an action property |
| `FramesStayOnTime` | `PartsProofs` | `FramesAreOnTime` |
| `StatusStaysCurrent` | `PartsProofs` | `StatusIsCurrent` |
| `StartsAreStrict`, `SettingsComeInLayers` | `PartsProofs` | `StrictAndLayered` of any machines, `SettingsAreLayered` of those of the run |
| `RequestsKeepTheirWord` | `PartsProofs` | `RequestIsTheAsked` |

### A batch

- `TypeCorrect`: typing, split by component so that each action is argued only
  where it writes.
- `SerialExclusion`: inductive with typing, because the admission guard looks at
  `running` and admits once.
- `QueuedInterruptWins`: needs `OverdueInv`: between the head of an iteration and
  the check at line 70, a known interrupt stays known, either in
  `pendingInterrupt` or unread in the channel of an unparked receive.
- `BooksAgree`: `Books` relates the log to the locals: a span is open exactly when
  its call is running or its outcome is held, closed exactly when the cursor
  recorded it. It is the strengthening everything about the log rests on.
- `ResultsOrdered`, `ApprovalPrecedesExecution`, `ReturnsLeaveNothingOpen`: from
  `Books` and a small invariant each (`ReturnInv` ties the tail of the log to
  the terminal phases).
- `DecisionsAreLogged`: inductive with typing; `Apply` appends the resolve exactly
  when it fills a slot, and every slot it fills was addressed by no earlier one.
- `ParkAlwaysWakes`: `WakeInv`: at `publish` and `tick`, an unfinished batch with
  nothing running has an undecided slot before it, so the receive is parked.
- `DispatchImplementsToolBatch`: initial states map to initial states and each
  step of the loop is one step of `ToolBatch` or a stutter; `RefInv` excludes a
  decision or start after the stop.
- `WaitIsFair`: `WaitEndsFairly` looks back from a recorded denial to what had been
  sent, and needs to know where a command is on its way. `WaitInv` adds `OnTime`
  (before the deadline everything queued or buffered was sent in time), `Delivered`
  (a command sent in time is in the channel until it is noted, and an answer noted
  is buffered until its slots are decided), `Drained` (from the drain to the end of
  a park no answer to this batch is left in the inbox) and `ClosedForGood`. The
  case that matters is a closure seen by a parked receive: the channel is empty, so
  by `Delivered` the answers in time are buffered or settled, and by `Drained` none
  is buffered.

- `ClientsStayInformed`: `LiveInv`. `ShowsGate` says what the replica's approvals are in
  each phase of the request, literally: one pending request with the gate's slots, or
  none and at most one settlement that tells them. `SettledOnce` keeps a call from
  waiting twice for its publication, so that taking the head of `completed` adds one
  provisional outcome and no other; `HubIsOf` bounds the event ids seen by the log, so
  that no event of the batch is a duplicate to the hub. The cases that matter: a reply
  fills the slots of the gate (`Updates`, `DecisionOf`) and of the replica (`Filled`) by
  rules written twice, which `SlotsAnswered` and `ResolveOnly` bring together; a result
  leaves `done` in the step in which it leaves `outcomes`; the terminal record retires
  an open request, and by `OverIsDone` nothing is published after it. What an item
  does to each field of a replica is proved once, in `LiveStateProofs`, for this
  theorem and the two of the hub.

### The hub

- `TailsStayWhole`: `IInv` has `HubInv` (the replica's `last` is the number of
  items published), `TailType` and, per client, `TailInv`: what is applied and
  queued continues `asOf` by ones (`Continues`), a reader that is not lagged is up
  to date (`UpToDate`), a client that never attached has nothing (`Untouched`) and
  what a finished tail reported is true (`Told`). Of the replica only `last`
  matters: one lemma per operation of `LiveState` shows it leaves it alone.
- `BaselineStaysTrue`: the other fields of the replica against the log, an item at a
  time; publishing needs `hub.last` to be the length of the log, hence `IInv` beside
  `BaselineInv`. The parts of `BaselineInv`:
  - `LogInv`: an item of the log is one the loop offered, `hub.seen` are the ids of
    its recorded events and a request id is asked once. So a republished event is the
    one already seen, and `TrackRecorded` may ignore it (`SeenIffPublished`).
  - `OpenInv`: the open partial is the newest turn with all its chunks, or none.
  - `HistoryInv` and `AnchorInv`: `Anchor` walks the events as `Replay` does and the
    two are in step, so the walk's count is the length of the history and its index
    holds the response's message (`StepTogether`). Both are recursive functions and
    are unrolled by the first-order induction named under `LogReplaysTheRun`.
  - `ApprovalInv`: a pending request mirrors the slots of an open one, every open one
    is pending and once. A settlement reports a decided request (`Reports`), and
    `Holds` is what the window promises: one entry per request, oldest first by
    `SettledAt`, and a decided request that is missing was settled no later than any
    that is there, with the window full. `Holds` survives one more settlement
    (`RememberHolds`) and the whole retirement at the end of a run (`RetireHolds`,
    an induction over the pending requests).
  From `Holds`, a request the window lost has `Window` others settled no earlier:
  that is `Evicted`.

### A run

- `RunsEndRecorded`: `EndInv`. While the run goes on the log is `Clean` (no
  interrupt, no end, no failed response) and the completed turns are the turn
  counter or one less, by the phase; when the last events are planned they are
  exactly those that close it (`Closing`), and `Marks` holds of a log that may
  have failed in between. `Heeded` excludes a request made with a known interrupt.
- `SteersStayHeard`: `SteerInv`. A steer received is in the channel, in the buffer,
  planned or in the log, and in one of them only (`Receipts`, `Applied`, `Waiting`,
  `InHand`); positions in `received` order the first three against each other; a
  steer in the log is followed by a request or a response unless the run is before
  its next one (`AnswerLast`, `Answered`).
- `LogReplaysTheRun`: `ReplayInv` with `EndInv`. `Recovered` says that the
  replayed messages, followed by those planned and not yet appended, are the live
  history; `InFlight` that the replayer's open calls are the batch's open spans, in
  order; `Sayable` that whatever is planned is an event the replayer reads; `Tracked`
  and `Directed` follow a bulky result from its track to a directive's position.
  TLC finds all three invariants of the run to hold on the instance of `agent_run`.
- What the replayer computes is a recursive function of the log, and the library's
  induction theorems take an operator, which no backend here instantiates. The
  same principle over a set is first order (`Induction`, from `LeastNatural` in
  `TrajectoryProofs`); it shows that the function exists and goes on by one event
  (`ReplayGoesOn`: `Replay(Append(q, e))` is `Folded(Replay(q), e)`), and that is
  all the invariant needs.

### The terminal

- `FocusStaysDisarmed`: `FocusInv` has `HeadArmedOnly` (only the head of the
  dialog queue may be armed) and `FeedInv` (a baseline's pending requests are a
  sequence, in the hub and on the way). `Calm(r, q)` says that an armed dialog of
  queue `r` heads it and is the head `q` had, with the same focus; it is
  transitive, and every operation a feed message causes is calm: a request joins at
  the end unarmed, a recorded answer disarms or keeps the focus, a removal keeps the
  order of what stays (`ThoseKeepOrder`), a re-sync makes every dialog unarmed.
  A dialog that becomes the head was further down, and so is not armed.
- `FramesStayOnTime`: neither half of `FramesKeepPace` is inductive. `FrameInv` adds
  `GateHolds` (the gate is an interval behind the last frame and an armed frame is
  not before it) for the spacing; for the deadline, `Covered` (a request no frame
  answered has one at least as early in the channel, or an armed frame in time for
  it) and `NoneLate` (which must speak of what is in the channel too, because a frame
  leaves those owed). The case that matters is a full channel: the dropped request is
  owed at the earliest instant queued, which `Covered` then finds.
- `StatusStaysCurrent`: the property looks at the trailer only when a batch ends, so it
  is not inductive. `StatusInv` says of both records that they tell what the first so
  many calls came to (`TellsOf`): the running status of all that settled, the frozen
  trailer of those settled when it was taken. A settled call adds one position to one
  count and may become the last plan (`SettleKeepsStatus`); the end of a batch copies
  the first record over the second.
- `StartsAreStrict`: the loader walks a list, the property speaks of tiers.
  `ReadingOn` says that what is left to try of a tier is a tail of its files with
  nothing there before it, so that the file opened next is its nearest (`NearestSpeaks`)
  and an emptied list means a silent tier (`NobodySpeaks`); `Heard` that the layer
  is what the highest tier read so far with an opinion said, which the merge, lowest tier
  first, keeps.
- `RequestsKeepTheirWord`: `CallInv` says that what was sent is the mapping of the request
  the turn holds, by a dialect that did not refuse it. The effort then depends on the
  ranking: the least of ten times the distance plus the rank is a declared effort, and the
  one asked for when that is declared (`NearestIsDeclared`). `WireKeepsEveryMessage` puts the
  leading system messages and the rest back together as the whole history.

### Only model-checked, and why

- Liveness (`BatchReturns`, `RunsEnd`): the prover does not handle ENABLED, so no
  fairness.
- `StreamedIsOneShot`, `SliceIsItsEmission`: `MarkdownStream` has RECURSIVE
  operators, which the prover cannot use.
- `AppFollowsHub`, `ScrollbackIsTold`, `NoteLandsLast`, `ScreenIsSound`,
  `BandHolds`, `ImplementsTextField`, `SuiteIsMet` and the other properties of
  `parts`: not attempted. `SuiteIsMet` is about given scripts, so TLC settles it.

## 5. What is assumed and what is left out

Assumed of the environment: a tool yields or returns (a synchronous one only delays
the loop); the runtime's timer is never early; a client that retries resends the
same command under the same id; a run loop runs once; the hub's queue capacity is
at least one; in the client, the last attachment of a bounded run does not lag
(`LagBound`), the ones before it do at will; the frame scheduler's task runs when
it can, the app need not; a terminal keeps its size from the question for it to
the end of the write.

Abstracted: one size per message and tokens as bytes over `TokenBytes` in
`ContextBudget`, whose cadence claim is for providers that report usage steadily;
`Settings` is the Unix search path; `CrateTree` has one adapter; the commit check
counts an HTML comment as scaffold; Markdown containers nest once, definitions stand
at top level, and texts the code is known to get wrong (section 6) are kept out of
`markdown` so that the rest is checked.

Left out: the content of messages and results, the trailer's wording, colours,
table columns, inline styling and highlighting, symbolic links,
slash commands and the `/help` and `/usage` notes, I/O errors of the terminal, the
paste-burst heuristic (nothing calls it), a run task that dies without a report, the
HTTP client, argument parsing, `pr_guard` and `agent_docs`. The rule engine is
modelled although no client asks it yet. `PROJECT.json` gives each component's
status and reason.

## 6. Where code and comments disagree

Three runs end in a violation:

- `tui_interrupt`: `app.rs` 1115-1116 ("the interrupt path's report is `Ok`") and 859
  ("completed work is preserved"): an interrupted run returns
  `AgentError::Interrupted` (`inbox.rs` 106, `mod.rs` 384, `dispatch.rs` 200), the
  driver passes the error on (`tui.rs` 178-182), and the app takes its failure arm:
  the session's history keeps nothing of that run, although the log and the screen
  have it.
- `markdown_reopened`: `transcript.rs` 558-561 and `markdown.rs` 535-536 ("Closed
  blocks never change their extent"): a list that a blank line closed goes on with an
  indented line; its rows are queued already, and the flushable prefix is shorter
  than the queue (an underflow in a debug build).
- `trace_torn`: `jsonl.rs` 13-16 ("A process crash can thus only ever cost the trailing
  partial line, which readers drop") and 66-68: `read_trace` reads the file as text
  (74) before it looks at lines, so a torn line that ends inside a character makes the
  whole trace unreadable, the events appended before it included; an evaluation set
  ends there (`eval.rs` 377-382).

Met while modelling, without a run of their own:

- `gate.rs` 107 against the comment at 120: `drain` looks at the clock before the
  inbox, so an answer sent in time and already buffered is denied as unanswered when
  a synchronous tool holds the loop past the deadline.
- `fold.rs` 112-119: the estimate undercounts cached input, and a provider that stops
  reporting usage leaves the trigger on its last measurement.
- `eval.rs` 377-434 appends the scores after a torn line: the first of them is joined to
  it, and is dropped or, once another follows, makes the trace corrupt.
- `dialect.rs` 106-117: `parallel_tools` is declared and never compared with the
  request; `message.rs` 25-27 against `request_map.rs` 71: opaque parts are not
  echoed.
- `layout.rs` 111-117 with `app.rs` 564-569: the floor of the band survives a shorter
  screen, and the dialog is not drawn; `shell.rs` 290-293: a settle that races a
  resize loses its refill.
- `markdown.rs` 823-851: the fence scanner takes for a closer what the parser does
  not; a definition inside a list or a quotation is missed and a line that only looks
  like one is taken; a narrow table with nothing but its header is lost; a resize
  after part of a table was let out can leave fewer rows than were let out.
- `edit_file.rs` 37: an edit whose new text contains the old succeeds again when
  repeated; overlapping matches count once.
- `arch.rs`: quoted keys, dotted keys above the first header and renames in the root
  manifest escape the check; `new_crate.rs`: a torn scaffold blocks its retry;
  `commit.rs` 125-133 refuses a second footer directly under the first, which
  `CONTRIBUTING.md` 30 allows; `bump_toolchain.rs` 63 truncates before it writes.
- `context.rs` and `agent_docs.rs` 6-7: a skill over the runtime's size passes the
  repository's own check.

## 7. Plan

1. The parts whose state is numbers: `FoldsComeWhenDue`, then
   `TraceLog`'s reading after a crash.
2. `AnswersOnce` of `AppFollowsHub`, an invariant of `submitted`, with `FocusInv`.
3. `AppFollowsHub` as a whole, from `TailsStayWhole` and the lemmas of `LiveStateProofs`.
