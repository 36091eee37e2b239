----------------------------- MODULE Workspace -----------------------------
(***************************************************************************)
(* One run's coding tools at work on the workspace, and what the run's     *)
(* context pipeline makes of it: the prefix frozen when the run starts,    *)
(* the batches of calls the model sends, the instruction files they enter, *)
(* the results they settle with, and the status block of each request.     *)
(* Somebody else may change a file between two calls, and a write may fail *)
(* half way.  Beside it stands the rule engine a client keeps for the run: *)
(* nothing of the program asks it yet, so its verdicts decide nothing.     *)
(***************************************************************************)
EXTENDS ContextFiles, Rules

CONSTANTS
    Worlds,      \* where a run may start: its disk, its skills, its flavor
                 \* and the calls the model sends; its bounds: the
                 \* batches of the run, the calls of one, the changes
                 \* somebody else makes
    Unknown      \* what the model knows of a file it cannot be sure of

VARIABLES
    world,       \* the start chosen from Worlds
    disk,        \* the files
    prefix,      \* the instruction chain and the skill catalog of the run
    batch,       \* the calls of the turn that have not settled yet
    found,       \* the instruction files this batch entered
    injected,    \* the directories whose file was injected
    inserted,    \* the instruction files in the history, one sequence a turn
    settled,     \* every call with what it settled with
    status,      \* the tool counters and the todo list, as the loop folds them
    trailer,     \* the status block of the last request
    reading,     \* the pages of the file read so far, by following the footers
    view,        \* what the model knows of the files from the results
    due,        \* the instruction files a call could have read on its way
    others,      \* changes made by somebody else so far
    grants,      \* the grant bookkeeping of the rule engine
    verdicts     \* what the engine answered, call by call

workspaceVars == <<world, disk, prefix, batch, found, injected, inserted, settled, status,
          trailer, reading, view, due, others, grants, verdicts>>

----------------------------------------------------------------------------
\* The run's posture.

Scope(flavor) == IF flavor.kind = "eval" THEN "workspace" ELSE "user"

\* What the client answers an approval request with: an evaluation run and a
\* run with --yes approve, one-shot chat denies, the TUI asks its user.
Decisions(flavor) ==
    IF flavor.kind = "eval" \/ flavor.yes THEN {"approved"}
    ELSE IF flavor.kind = "chat" THEN {"rejected"} ELSE {"approved", "rejected"}

\* The git line of the status block: how many files differ from the commit.
GitSnapshot(w, d) ==
    IF w.flavor.kind = "eval" THEN <<>>
    ELSE <<Cardinality({p \in DOMAIN d : p[1] \in DOMAIN Parent /\ d[p] # w.disk[p]})>>

NoStatus == [counts |-> [t \in {} |-> 0], todos |-> <<>>]
NotReading == [path |-> <<>>, lines |-> <<>>, resume |-> 0, over |-> FALSE]

Fresh ==
    /\ disk = world.disk
    /\ prefix = Pipeline(disk, world.skills, Scope(world.flavor))
    /\ batch = <<>> /\ found = <<>> /\ injected = {} /\ inserted = <<>>
    /\ settled = <<>> /\ status = NoStatus
    /\ trailer = [git |-> GitSnapshot(world, disk), status |-> NoStatus, of |-> 0]
    /\ reading = NotReading /\ view = disk /\ due = {} /\ others = 0
    /\ grants = NoGrants(world.rules) /\ verdicts = <<>>

WorkspaceInit == world \in Worlds /\ Fresh

----------------------------------------------------------------------------
\* The turn.

\* The model's turn brings a batch; the tracker sees it before it runs.  An
\* evaluation run tracks nothing.
StartBatch(calls) ==
    LET tracked == OnCalls(calls, disk, injected)
        way == UNION {ToSet(Enclosing(calls[i].dir)) : i \in {j \in 1..Len(calls) : "dir" \in DOMAIN calls[j]}}
    IN  /\ batch = <<>> /\ trailer.of = Len(settled) /\ Len(inserted) < world.turns
        /\ batch' = calls
        /\ IF world.flavor.kind = "eval" THEN UNCHANGED <<injected, found, due>>
           ELSE /\ injected' = tracked.injected /\ found' = tracked.found
                /\ due' = due \cup {Agents(d) : d \in {e \in way : Readable(disk, Agents(e))}}
        /\ UNCHANGED <<world, disk, prefix, inserted, settled, status, trailer, reading, view, others, grants, verdicts>>

\* The count of a tool, one higher.
CountOf(s, t) == IF t \in DOMAIN s.counts THEN s.counts[t] ELSE 0
Counted(s, tool) == [t \in DOMAIN s.counts \cup {tool} |-> CountOf(s, t) + IF t = tool THEN 1 ELSE 0]

\* A rejected call counted as if it had run.
FaultCountRejected(s, call, outcome) == [counts |-> Counted(s, call.tool), todos |-> s.todos]

\* One settled call folded into the status: a call that never executed is
\* not counted, a todo_write that succeeded replaces the list.
NoteOutcome(s, call, outcome) ==
    [counts |-> IF outcome.kind \in {"rejected", "unknown_tool"} THEN s.counts
                ELSE Counted(s, call.tool),
     todos |-> IF outcome.kind = "ok" /\ call.tool = "todo_write" THEN call.items ELSE s.todos]

\* The call at the head of the batch settles.
Settle(call, outcome) ==
    /\ batch' = Tail(batch)
    /\ settled' = Append(settled, [call |-> call, outcome |-> outcome])
    /\ status' = NoteOutcome(status, call, outcome)
    /\ UNCHANGED <<world, prefix, found, injected, inserted, trailer, due, others, grants, verdicts>>

Failed == [kind |-> "error"]
NotRead(call) == UNCHANGED <<disk, reading, view>> /\ Settle(call, Failed)

\* The batch is over: the instruction files follow the results, and the next
\* request carries a fresh status block.
EndBatch ==
    /\ batch = <<>> /\ Len(settled) > trailer.of
    /\ inserted' = Append(inserted, found)
    /\ found' = <<>>
    /\ trailer' = [git |-> GitSnapshot(world, disk), status |-> status, of |-> Len(settled)]
    /\ UNCHANGED <<world, disk, prefix, batch, injected, settled, status, reading, view, due, others,
                   grants, verdicts>>

----------------------------------------------------------------------------
\* The tools.  A path of the workspace is <<directory, name>>.

Path(call) == <<call.dir, call.name>>
Present(path) == path \in DOMAIN disk /\ disk[path] # NoFile
Inside(call) == call.dir \in DOMAIN Parent

\* read_file.  The model follows the footers: it starts at the first line,
\* or where the last page of the same file told it to resume.
ReadFile(call) ==
    LET path == Path(call)
        follows == reading.path = path /\ reading.resume # 0
        page == ReadWindow(disk[path], IF follows THEN reading.resume ELSE 1, call.limit)
        whole == SelectSeq(page.lines, LAMBDA l : l.cut # "page")
    IN  /\ call.tool = "read_file"
        /\ IF Inside(call) /\ Present(path) /\ page.ok
           THEN /\ reading' = [path |-> path, resume |-> page.resume,
                               lines |-> (IF follows THEN reading.lines ELSE <<>>) \o whole,
                               over |-> page.resume = 0]
                /\ UNCHANGED <<disk, view>>
                /\ Settle(call, [kind |-> "ok"])
           ELSE NotRead(call)

\* A write puts the whole text in place or, on an IO fault, leaves the old
\* bytes or any head of the new ones; the error then says so.
WriteText(call, path, text, learnt) ==
    \/ /\ disk' = [disk EXCEPT ![path] = text]
       /\ view' = [view EXCEPT ![path] = learnt]
       /\ Settle(call, [kind |-> "ok"])
    \/ \E left \in {disk[path]} \cup {SubSeq(text, 1, n) : n \in 0..Len(text) - 1} :
          /\ disk' = [disk EXCEPT ![path] = left]
          /\ view' = [view EXCEPT ![path] = Unknown]
          /\ Settle(call, [kind |-> "torn"])

\* What a batch of edits means: each one splits the text around its old
\* string and puts the new one in between.
Meant(text, edits) ==
    FoldLeft(LAMBDA t, e :
                 LET i == CHOOSE j \in 0..Len(t) : SubSeq(t, j + 1, j + Len(e.old)) = e.old
                 IN  SubSeq(t, 1, i) \o e.new \o SubSeq(t, i + Len(e.old) + 1, Len(t)),
             text, edits)

\* Every edit written as soon as it applies.
FaultWriteEachStep(call) ==
    LET path == Path(call)
        edited == ApplyEdits(disk[path], call.edits)
    IN  /\ call.tool = "edit_file" /\ Present(path)
        /\ disk' = [disk EXCEPT ![path] = edited.text]
        /\ view' = IF edited.ok THEN [view EXCEPT ![path] = Meant(disk[path], call.edits)] ELSE view
        /\ UNCHANGED reading
        /\ Settle(call, IF edited.ok THEN [kind |-> "ok"] ELSE Failed)

\* edit_file: reads, applies the whole batch in memory, writes once.
EditFile(call) ==
    LET path == Path(call)
        edited == ApplyEdits(disk[path], call.edits)
        learnt == IF view[path] = Unknown THEN Unknown ELSE Meant(view[path], call.edits)
    IN  /\ call.tool = "edit_file"
        /\ IF Inside(call) /\ call.edits # <<>> /\ Present(path) /\ IsUtf8(disk[path]) /\ edited.ok
           THEN /\ reading' = NotReading
                /\ WriteText(call, path, edited.text, learnt)
           ELSE NotRead(call)

\* write_file: the file and the directories above it come to be if need be.
WriteFile(call) ==
    /\ call.tool = "write_file"
    /\ IF Inside(call)
       THEN reading' = NotReading /\ WriteText(call, Path(call), call.text, call.text)
       ELSE NotRead(call)

\* grep walks the files the directory holds, all the way down; list_dir
\* shows one level of it.
FilesWithin(dir) == SelectSeq(world.paths, LAMBDA p : dir \in ToSet(Enclosing(p[1])) \cup {Root} /\ Present(p))

GrepFiles(call) ==
    LET files == FilesWithin(call.dir)
        searched == [i \in 1..Len(files) |-> [path |-> files[i], text |-> disk[files[i]]]]
    IN  /\ call.tool = "grep"
        /\ IF Inside(call)
           THEN /\ UNCHANGED <<disk, reading, view>>
                /\ Settle(call, [kind |-> "ok", searched |-> searched,
                                 answer |-> Grep(searched, call.byte)])
           ELSE NotRead(call)

ListDirectory(call) ==
    LET here == SelectSeq(world.paths, LAMBDA p : p[1] = call.dir /\ Present(p))
    IN  /\ call.tool = "list_dir"
        /\ IF Inside(call)
           THEN /\ UNCHANGED <<disk, reading, view>>
                /\ Settle(call, [kind |-> "ok", entries |-> here, listing |-> ListDir(here)])
           ELSE NotRead(call)

\* todo_write only validates: the list lives in the status.
TodoWrite(call) ==
    /\ call.tool = "todo_write"
    /\ UNCHANGED <<disk, reading, view>>
    /\ Settle(call, [kind |-> IF "" \in ToSet(call.items) THEN "error" ELSE "ok"])

\* skill looks the name up in the catalog of the run's start.
Skill(call) ==
    /\ call.tool = "skill"
    /\ UNCHANGED <<disk, reading, view>>
    /\ Settle(call, IF call.name \in DOMAIN prefix.catalog
                    THEN [kind |-> "ok", skill |-> prefix.catalog[call.name]] ELSE Failed)

Tools == {"read_file", "grep", "list_dir", "write_file", "edit_file", "todo_write", "skill"}
Gated == {"write_file", "edit_file"}

Execute(call) ==
    \/ ReadFile(call) \/ EditFile(call) \/ WriteFile(call) \/ GrepFiles(call)
    \/ ListDirectory(call) \/ TodoWrite(call) \/ Skill(call)

\* A mutation passes the client's policy first.
RunCall ==
    LET call == Head(batch)
    IN  /\ batch # <<>>
        /\ \/ call.tool \notin Gated /\ Execute(call)
           \/ call.tool \in Gated /\ "approved" \in Decisions(world.flavor) /\ Execute(call)

RefuseCall ==
    LET call == Head(batch)
    IN  /\ batch # <<>>
        /\ UNCHANGED <<disk, reading, view>>
        /\ \/ /\ call.tool \in Gated /\ "rejected" \in Decisions(world.flavor)
              /\ Settle(call, [kind |-> "rejected"])
           \/ call.tool \notin Tools /\ Settle(call, [kind |-> "unknown_tool"])

\* Somebody else changes a file of the workspace.
OtherWrites(path, text) ==
    /\ others < world.others /\ others' = others + 1
    /\ disk' = [disk EXCEPT ![path] = text]
    /\ view' = [view EXCEPT ![path] = Unknown]
    /\ reading' = NotReading
    /\ UNCHANGED <<world, prefix, batch, found, injected, inserted, settled, status, trailer, due,
                   grants, verdicts>>

\* The rule engine is asked about a gated call.
AskRules(call) ==
    LET decided == Decide(world.rules, grants, call)
    IN  /\ Len(verdicts) < world.asks
        /\ grants' = decided.grants
        /\ verdicts' = Append(verdicts, [call |-> call, verdict |-> decided.verdict])
        /\ UNCHANGED <<world, disk, prefix, batch, found, injected, inserted, settled, status,
                       trailer, reading, view, due, others>>

WorkspaceNext ==
    \/ \E n \in 1..world.size : \E calls \in [1..n -> world.calls] : StartBatch(calls)
    \/ RunCall \/ RefuseCall \/ EndBatch
    \/ \E change \in world.changes : OtherWrites(change.path, change.text)
    \/ \E call \in world.asked : AskRules(call)

WorkspaceSpec == WorkspaceInit /\ [][WorkspaceNext]_workspaceVars

----------------------------------------------------------------------------
\* Properties.

\* Every footer of read_file can be followed: the pages joined are the lines
\* of the file, in order, none twice and none left out; a line shows in full
\* unless it says it was cut, only a line past the guard says so, and what
\* it shows is its head (read_file.rs read_window, WindowRead::render).
ReadsWholeFile ==
    LET lines == Lines(disk[reading.path])
        got == reading.lines
    IN  reading # NotReading =>
        /\ IF reading.over THEN Len(got) = Len(lines) ELSE reading.resume = Len(got) + 1
        /\ \A i \in 1..Len(got) :
             /\ got[i].cut = "no" => got[i].text = TrimLineEnd(lines[i])
             /\ got[i].cut = "line" => /\ IsPrefix(got[i].text, lines[i])
                                       /\ MaxLine <= Len(got[i].text) /\ MaxLine < Len(lines[i])

\* What the results told the model is what the disk holds: a batch of edits
\* went in whole and in order or not at all, and a write that may have torn
\* the file never reads as one that did not (edit_file.rs all-or-nothing,
\* tools/mod.rs:9-11).
ViewFollowsDisk == \A p \in DOMAIN disk : view[p] = Unknown \/ view[p] = disk[p]

\* A search leaves a matching line out only when its answer says why: the
\* cap it stopped at, or a file it skipped; and a listing that is short
\* tells how many entries there are (grep.rs footer, list_dir.rs footer).
NothingIsCutSilently ==
    \A k \in 1..Len(settled) :
        LET o == settled[k].outcome
        IN  /\ "answer" \in DOMAIN o =>
               \A i \in 1..Len(o.searched) : \A n \in 1..Len(Lines(o.searched[i].text)) :
                   settled[k].call.byte \in ToSet(Lines(o.searched[i].text)[n]) =>
                       \/ \E h \in ToSet(o.answer.hits) :
                             h.path = o.searched[i].path /\ h.line = n
                       \/ o.answer.stopped # <<>> /\ Len(o.answer.hits) = MaxMatches
                       \/ o.answer.binary + o.answer.large > 0
            /\ "listing" \in DOMAIN o =>
               o.listing.shown = o.entries \/ o.listing.total = Len(o.entries)

\* When a batch is over, every instruction file that a call could have read
\* on its way below the root is in the history, exactly once in the run, and
\* an outer file stands before an inner one of the same turn; a file that
\* could not be read is not lost, the next call finds it
\* (context.rs NestedInstructions::on_calls).
InstructionsReachModel ==
    LET all == FlattenSeq(inserted)
        at(p) == {i \in 1..Len(all) : all[i].path = p}
    IN  trailer.of = Len(settled) /\ batch = <<>> =>
        /\ \A p \in due : Cardinality(at(p)) = 1
        /\ \A i \in 1..Len(all) : Cardinality(at(all[i].path)) = 1 /\ all[i].path # Agents(Root)
        /\ \A t \in 1..Len(inserted) : \A i, j \in 1..Len(inserted[t]) :
             LET outer == inserted[t][i].path[1]
                 inner == inserted[t][j].path[1]
             IN  outer # inner /\ outer \in ToSet(Enclosing(inner)) => i < j

\* An evaluation run knows nothing of the machine it runs on: its chain, its
\* catalog, its injections and its status come from the workspace alone.  In
\* every run the nearer file follows the farther one and the workspace's
\* skill hides the user's (context.rs Scope, skills.rs discover).
ContextIsScoped ==
    LET chain == prefix.chain
        rank(p) == CHOOSE i \in 1..Len(ChainPaths("user")) : ChainPaths("user")[i] = p
    IN  /\ world.flavor.kind = "eval" =>
             /\ \A i \in 1..Len(chain) : chain[i].path = Agents(Root)
             /\ \A n \in DOMAIN prefix.catalog : prefix.catalog[n].root = Root
             /\ FlattenSeq(inserted) = <<>> /\ trailer.git = <<>>
        /\ \A i, j \in 1..Len(chain) : i < j => rank(chain[i].path) < rank(chain[j].path)
        /\ \A e \in ToSet(world.skills[Root]) :
             LoadSkill(Root, e) # <<>> => prefix.catalog[e.dir].root = Root

\* The status block of a request tells what settled before it: as many calls
\* of a tool as were executed, whatever came of them, and the last list a
\* todo_write put through (trailer.rs note_outcome).
StatusFollowsResults ==
    LET before == 1..trailer.of
        ran(t) == {i \in before : /\ settled[i].call.tool = t
                                  /\ settled[i].outcome.kind \in {"ok", "error", "torn"}}
        plans == {i \in before : settled[i].call.tool = "todo_write" /\ settled[i].outcome.kind = "ok"}
    IN  /\ \A t \in Tools : Cardinality(ran(t)) = CountOf(trailer.status, t)
        /\ DOMAIN trailer.status.counts \subseteq Tools
        /\ trailer.status.todos = IF plans = {} THEN <<>> ELSE settled[Max(plans)].call.items

\* What a pattern means: a star stands for any run of characters, a question
\* mark for one, every other character for itself, over the whole subject.
Means(pattern, subject) ==
    LET P == Len(pattern)
        S == Len(subject)
        means[p \in 1..P + 1, s \in 1..S + 1] ==
            IF p > P THEN s > S
            ELSE IF pattern[p] = "*" THEN \E t \in s..S + 1 : means[p + 1, t]
            ELSE s <= S /\ pattern[p] \in {"?", subject[s]} /\ means[p + 1, s + 1]
    IN  means[1, 1]

Claims(i, call) ==
    LET rule(j) == world.rules[j]
        hits(j) == /\ Means(rule(j).tool, call.tool)
                   /\ \A n \in 1..Len(rule(j).input) : Means(rule(j).input[n], Subject(call))
    IN  hits(i) /\ \A j \in 1..i - 1 : ~hits(j)

\* The first rule that matches has the call for good: it is denied or asked
\* about every time, or allowed for the session, or allowed twice (the call
\* that records the grant and the next one) and asked about ever after,
\* whatever a later rule says; a call no rule claims is asked about
\* (rules.rs Rules::decide).
FirstRuleClaims ==
    \A k \in 1..Len(verdicts) :
        LET v == verdicts[k]
            by == {i \in 1..Len(world.rules) : Claims(i, v.call)}
            nth(i) == Cardinality({j \in 1..k : Claims(i, verdicts[j].call)})
        IN  v.verdict = IF by = {} THEN "ask"
                        ELSE LET i == CHOOSE i \in by : TRUE
                                 rule == world.rules[i]
                             IN  IF rule.decision = "allow" /\ rule.scope = "once" /\ nth(i) > 2
                                 THEN "ask" ELSE rule.decision
=============================================================================
