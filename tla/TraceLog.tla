------------------------------ MODULE TraceLog ------------------------------
(***************************************************************************)
(* One run's trace on disk (cadmus-memory jsonl.rs): a file of one line    *)
(* per event, and the artifacts a fold spills beside it.                   *)
(*                                                                         *)
(* A file is a sequence of pieces: what a write left of an event ("whole", *)
(* a readable "part", or a "cut" inside a character) and newlines.  A      *)
(* write may stop after any piece, because the process dies or the disk is *)
(* full.  Roots[1] is the write root; an archivist may move the trace's    *)
(* shard, file and artifacts together, to another root.  A reader folds    *)
(* what it finds as Trajectory does.                                       *)
(***************************************************************************)
EXTENDS Trajectory, Integers, TLC, FiniteSetsExt

CONSTANTS
  Roots,        \* the configured roots, as a sequence
  StartRun,     \* the event a run records first
  Notes,        \* the events it may record besides its end and its folds
  Results,      \* the results a fold may spill
  MaxRecords     \* bound: events of a run

ASSUME TraceLogAssumption == Roots # <<>> /\ MaxRecords \in Nat

VARIABLES
  files,        \* root |-> what the trace file holds there, or Absent
  artifacts,    \* root |-> spilled result |-> "part" or "whole"
  process,      \* the writer: "running", "failed" (its append errored) or "dead"
  writing,      \* the event being written, or NoEvent
  appended,     \* the events whose append has returned Ok
  spilled       \* the results of the fold in progress, spilled so far

logVars == <<files, artifacts, process, writing, appended, spilled>>

Absent == <<[kind |-> "absent"]>>
NoEvent == [type |-> "none"]
Newline == [kind |-> "newline"]
Piece(kind, event) == [kind |-> kind, event |-> event]

---------------------------------------------------------------------------
(* Where the trace lives.                                                  *)

\* trace_path: an existing file wins across all roots.
Home ==
  LET held == {r \in DOMAIN Roots : files[r] # Absent} IN
  IF held = {} THEN 1 ELSE Min(held)

FileContent == IF files[Home] = Absent THEN <<>> ELSE files[Home]

---------------------------------------------------------------------------
(* read_trace.                                                             *)

TraceLines(content) ==
  LET end == Len(content) + 1
      ends == SelectSeq([k \in 1..end |-> k], LAMBDA k : k = end \/ content[k] = Newline)
      starts == <<0>> \o ends
  IN SelectSeq([k \in DOMAIN ends |-> SubSeq(content, starts[k] + 1, ends[k] - 1)],
               LAMBDA line : line # <<>>)

AllReadable(content) == \A k \in DOMAIN content : content[k].kind # "cut"
IsEvent(line) == Len(line) = 1 /\ line[1].kind = "whole"

FaultNoTornTail(lines) == lines
FaultSkipTorn(lines) == SelectSeq(lines, IsEvent)

\* Only the last line may be torn, and is dropped.
Settled(lines) ==
  IF lines # <<>> /\ ~IsEvent(Last(lines)) THEN Front(lines) ELSE lines

ReadLines(content, lines) ==
  IF ~AllReadable(content) THEN [error |-> "unreadable", events |-> <<>>]
  ELSE IF \E k \in DOMAIN lines : ~IsEvent(lines[k])
  THEN [error |-> "corrupt", events |-> <<>>]
  ELSE [error |-> "none", events |-> [k \in DOMAIN lines |-> lines[k][1].event]]

Read(content) == ReadLines(content, Settled(TraceLines(content)))

ReadTrace ==
  IF files[Home] = Absent THEN [error |-> "not found", events |-> <<>>] ELSE Read(FileContent)

---------------------------------------------------------------------------
(* append: one write_all of the line and its newline.                      *)

NoFiles == [r \in DOMAIN Roots |-> Absent]
NoArtifacts == [r \in DOMAIN Roots |-> [x \in {} |-> "whole"]]

LogInit ==
  /\ files = NoFiles /\ artifacts = NoArtifacts
  /\ process = "running" /\ writing = NoEvent
  /\ appended = <<>> /\ spilled = {}

\* A new trace id, whose file is a new one.
NewTrace ==
  /\ files' = NoFiles /\ artifacts' = NoArtifacts
  /\ process' = "running" /\ writing' = NoEvent
  /\ appended' = <<>> /\ spilled' = {}

\* The artifact being spilled.
HalfSpilled == {x \in DOMAIN artifacts[1] : artifacts[1][x] = "part"}

\* The file exists, empty, once it is opened for the append.
OpenFor(event) ==
  /\ process = "running" /\ writing = NoEvent
  /\ writing' = event
  /\ files' = [files EXCEPT ![Home] = FileContent]
  /\ UNCHANGED <<artifacts, process, appended>>

Began == FileContent # <<>> /\ Last(FileContent) # Newline /\ Last(FileContent).event = writing

\* The bytes out so far end anywhere, also just before the newline.
WriteSome ==
  /\ writing # NoEvent /\ ~Began
  /\ \E kind \in {"part", "cut", "whole"} :
       files' = [files EXCEPT ![Home] = Append(FileContent, Piece(kind, writing))]
  /\ UNCHANGED <<artifacts, process, writing, appended, spilled>>

WithoutStart == IF Began THEN Front(FileContent) ELSE FileContent

WriteRest ==
  /\ writing # NoEvent
  /\ files' = [files EXCEPT ![Home] =
                 WithoutStart \o <<Piece("whole", writing), Newline>>]
  /\ appended' = Append(appended, writing)
  /\ writing' = NoEvent
  /\ UNCHANGED <<artifacts, process, spilled>>

\* A full disk: write_all, or the spill, gives up with what it has written.
WriteFails ==
  /\ process = "running"
  /\ writing # NoEvent \/ HalfSpilled # {}
  /\ process' = "failed" /\ writing' = NoEvent
  /\ UNCHANGED <<files, artifacts, appended, spilled>>

\* The shard directory or the file cannot be made.
OpenFails ==
  /\ process = "running" /\ files[Home] = Absent
  /\ process' = "failed"
  /\ UNCHANGED <<files, artifacts, writing, appended, spilled>>

Dies ==
  /\ process = "running"
  /\ process' = "dead" /\ writing' = NoEvent
  /\ UNCHANGED <<files, artifacts, appended, spilled>>

---------------------------------------------------------------------------
(* The run: a start, notes and folds in any order, a terminal record.      *)

Started == appended # <<>>
TraceEnded == Started /\ Last(appended).type = "finished"
Active == process = "running" /\ Len(appended) < MaxRecords /\ ~TraceEnded

RecordStart == ~Started /\ Active /\ OpenFor(StartRun) /\ UNCHANGED spilled

Note ==
  /\ Started /\ Active /\ spilled = {}
  /\ \E n \in Notes : OpenFor(n)
  /\ UNCHANGED spilled

HasAnswer == \E k \in DOMAIN appended : appended[k].type = "response"

\* A run ends well only after an answer.
FinishRun ==
  /\ Started /\ Active /\ spilled = {}
  /\ \E error \in {"none", "failed"} :
       /\ error = "none" => HasAnswer
       /\ OpenFor([type |-> "finished", id |-> "end", turns |-> 1, error |-> error])
  /\ UNCHANGED spilled

FoldedAway == UNION {appended[k].folded : k \in {k \in DOMAIN appended : appended[k].type = "fold"}}

\* spill: into the write root, wherever the trace file is.
Spilling(x, state) ==
  artifacts' = [artifacts EXCEPT ![1] =
                  [y \in DOMAIN artifacts[1] \cup {x} |->
                     IF y = x THEN state ELSE artifacts[1][y]]]

SpillBegin ==
  /\ Started /\ Active /\ writing = NoEvent /\ HalfSpilled = {}
  /\ \E x \in Results \ (spilled \cup FoldedAway) : Spilling(x, "part")
  /\ UNCHANGED <<files, process, writing, appended, spilled>>

SpillEnd ==
  /\ Active
  /\ \E x \in HalfSpilled : Spilling(x, "whole") /\ spilled' = spilled \cup {x}
  /\ UNCHANGED <<files, process, writing, appended>>

FaultDirectiveFirst == HalfSpilled \cup spilled # {}

\* maybe_fold records the directive once everything it names is spilled.
MayDirect == HalfSpilled = {} /\ spilled # {}

Direct ==
  /\ Started /\ Active /\ MayDirect
  /\ OpenFor([type |-> "fold", id |-> "fold" \o ToString(Len(appended)),
              folded |-> spilled \cup HalfSpilled])
  /\ spilled' = {}

---------------------------------------------------------------------------
(* Tiering.                                                                *)

Relocate ==
  /\ writing = NoEvent /\ HalfSpilled = {}
  /\ files[Home] # Absent
  /\ \E r \in DOMAIN Roots \ {Home} :
       /\ files' = [files EXCEPT ![Home] = Absent, ![r] = files[Home]]
       /\ artifacts' = [artifacts EXCEPT ![Home] = [x \in {} |-> "whole"],
                                         ![r] = artifacts[Home] @@ artifacts[r]]
  /\ UNCHANGED <<process, writing, appended, spilled>>

LogNext ==
  \/ RecordStart \/ Note \/ FinishRun \/ SpillBegin \/ SpillEnd \/ Direct
  \/ WriteSome \/ WriteRest \/ WriteFails \/ OpenFails \/ Dies \/ Relocate

---------------------------------------------------------------------------
(* Properties.                                                             *)

\* A line that holds more than one event's bytes: an append after a torn one.
Joined == \E k \in 1..(Len(FileContent) - 1) :
            FileContent[k] # Newline /\ FileContent[k + 1] # Newline

\* The events appended so far up to some point, or all and the one after them.
ReadsBeginning(events) ==
  \/ IsPrefix(events, appended)
  \/ IsPrefix(appended, events) /\ Len(events) = Len(appended) + 1

(* A reader is never misled: wherever a write stops, and whatever is       *)
(* appended after a torn line, what it gets is an error or a beginning of  *)
(* what was written, with no hole and nothing made up.  It gets all the    *)
(* events whose appends returned, and at most the one being written,       *)
(* unless a write was torn inside a character (then it gets an error, see  *)
(* CrashCostsOnlyTheTornLine) or something was appended after a torn line  *)
(* (an error, or the joined line is dropped).  There is one file of the    *)
(* trace, wherever the shard was moved (jsonl.rs 66-106).                  *)
TraceReadsBack ==
  /\ Cardinality({r \in DOMAIN Roots : files[r] # Absent}) <= 1
  /\ ReadTrace.error = "none" => ReadsBeginning(ReadTrace.events)
  /\ files[Home] # Absent /\ AllReadable(FileContent) /\ ~Joined =>
       ReadTrace.error = "none" /\ IsPrefix(appended, ReadTrace.events)

(* "A process crash can thus only ever cost the trailing partial line,     *)
(* which readers drop" (jsonl.rs 13-16) and "A torn trailing line (crash   *)
(* or live-tail mid-write) is dropped with a warning" (66-68): when the    *)
(* process died and nothing was appended since, what it had appended is    *)
(* read.                                                                   *)
CrashCostsOnlyTheTornLine ==
  process = "dead" /\ Started /\ ~Joined =>
    ReadTrace.error = "none" /\ IsPrefix(appended, ReadTrace.events)

(* A directive that can be read names only results that were spilled       *)
(* whole, whatever died or was moved in between (fold.rs 60-93).           *)
DirectivesHaveSpills ==
  \A e \in Range(ReadTrace.events) :
    e.type = "fold" =>
      \A x \in e.folded :
        \E r \in DOMAIN Roots : x \in DOMAIN artifacts[r] /\ artifacts[r][x] = "whole"

---------------------------------------------------------------------------
(* A reader of the file: the lines that are there, repeated or cut short,  *)
(* and the two folds of Trajectory over them.                              *)

\* Reference: the events of a trace that count, and the one that seeds it.
Firsts(trace) ==
  {i \in DOMAIN trace : \A j \in 1..(i - 1) : trace[j].id # trace[i].id}

Seeds(trace) ==
  LET starts == {i \in Firsts(trace) : trace[i].type = "start"}
  IN {i \in starts : \A j \in starts : i <= j}

OfType(trace, type) == {i \in Firsts(trace) : trace[i].type = type}

SeededHistory(trace, state) ==
  \A s \in Seeds(trace) :
    LET firsts == Firsts(trace)
        said == SelectSeq([i \in DOMAIN trace |->
                             IF i \in firsts /\ i > s /\ Appends(trace[i])
                             THEN <<trace[i].msg>> ELSE <<>>],
                          LAMBDA m : m # <<>>)
    IN state.messages = trace[s].base \o [i \in DOMAIN said |-> said[i][1]]

\* Each result projection indexes the result message it names.
IndexesResult(r, state) ==
  /\ r.index < Len(state.messages)
  /\ state.messages[r.index + 1] = [role |-> "tool", of |-> r.call]

(* The history is the first start_run's base followed by the messages of   *)
(* the events after it, each id once: a repeated event or a second         *)
(* start_run changes nothing; completed turns are the distinct ok          *)
(* responses, and a projection points at its own result, so the client     *)
(* can attach an approval to its consequence (trajectory.rs 68-147).       *)
HistoryFollowsTrace(trace, state) ==
  /\ SeededHistory(trace, state)
  /\ state.turns = Cardinality({i \in OfType(trace, "response") : trace[i].ok})
  /\ \A i \in DOMAIN state.results : IndexesResult(state.results[i], state)

(* A call id is dangling once per tool_call event that no later result     *)
(* pays for, although provider call ids may repeat within a trace and a    *)
(* result may come without its call (trajectory.rs 116-121).               *)
DanglingIsUnpaid(trace, state) ==
  \A call \in {trace[i].call : i \in OfType(trace, "call")} :
    LET from(type, k) == Cardinality({i \in OfType(trace, type) : i >= k /\ trace[i].call = call})
        unpaid(k) == from("call", k) - from("result", k)
    IN Cardinality({i \in DOMAIN state.open : state.open[i] = call})
         = Max({0} \cup {unpaid(k) : k \in DOMAIN trace})

(* The approval anchor and the replayed history agree on where the latest  *)
(* response's message sits, whatever else the log holds.                   *)
AnchorIsLatest(trace, state) ==
  LET last == {i \in OfType(trace, "response") :
                 \A j \in OfType(trace, "response") \cup Seeds(trace) : j <= i}
      anchor == Anchor(trace)
  IN IF \E i \in last : trace[i].turn # NoTurn
     THEN \E i \in last : /\ anchor.turn = trace[i].turn
                          /\ anchor.index < Len(state.messages)
                          /\ state.messages[anchor.index + 1] = trace[i].msg
     ELSE anchor = NoAnchor

(* The two folds over what can be read of a file.                          *)
FoldsFollowTrace ==
  LET trace == ReadTrace.events
      state == Replay(trace)
  IN /\ HistoryFollowsTrace(trace, state)
     /\ DanglingIsUnpaid(trace, state)
     /\ AnchorIsLatest(trace, state)
=============================================================================
