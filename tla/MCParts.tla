------------------------------ MODULE MCParts ------------------------------
(***************************************************************************)
(* The parts of the system that share no state, side by side: `part` says  *)
(* which of them a behaviour is of, and the others stand still.            *)
(***************************************************************************)
EXTENDS ProviderTurn, FrameScheduler, ContextBudget, Settings, CrateTree, RepoChores,
        EvalRun, Workspace

---------------------------------------------------------------------------
(* The model call.                                                         *)


Coordinate(p, key, model, url) == [provider |-> p, key |-> key, model |-> model, url |-> url]

Full(p) == Coordinate(p, TRUE, TRUE, TRUE)

MCCoordinates ==
  {Full(p) : p \in DialectNames}
    \cup {Coordinate("kimi", FALSE, FALSE, FALSE), Coordinate("custom", TRUE, TRUE, FALSE),
          Full("elsewhere")}

Said(role, parts) == [role |-> role, content |-> parts, answers |-> "none", error |-> FALSE]
Result(id, error) ==
  [role |-> "tool", content |-> <<[kind |-> "text"]>>, answers |-> id, error |-> error]

Plain == <<Said("user", <<[kind |-> "text"]>>)>>
Threaded ==
  <<Said("system", <<[kind |-> "text"]>>),
    Said("assistant", <<[kind |-> "reasoning"], [kind |-> "call"]>>),
    Result("c1", TRUE), Result("c2", FALSE), Said("system", <<[kind |-> "text"]>>)>>
Pictured == <<Said("assistant", <<[kind |-> "image"]>>)>>
Doubled == <<Said("user", <<[kind |-> "text"], [kind |-> "text"]>>)>>

Simple ==
  [messages |-> Plain, tools |-> TRUE, reasoning |-> "adaptive", output |-> "text",
   temperature |-> 1, parallel |-> "unset", cache |-> "auto", extra |-> {}]

MCRequests ==
  {Simple}
    \cup {[Simple EXCEPT !.reasoning = r, !.output = o] :
            r \in {"off", "budget"} \cup ToSet(Effort),
            o \in {"text", "json", "strict", "schema"}}
    \cup {[Simple EXCEPT !.messages = h] : h \in {Threaded, Pictured, Doubled}}
    \cup {[Simple EXCEPT !.parallel = "no"], [Simple EXCEPT !.cache = "breakpoints"],
          [Simple EXCEPT !.temperature = 2, !.extra = {"user field"}]}

MCWatched == {<<Full("kimi"), Simple>>}

Called(id, form, args) ==
  [kind |-> "call", id |-> id, name |-> "tool", form |-> form, args |-> args]
Ending(stop, usage) == [kind |-> "end", stop |-> stop, usage |-> usage]

MCEvents ==
  {[kind |-> "start"], [kind |-> "content", piece |-> "t"], [kind |-> "reasoning", piece |-> "r"],
   [kind |-> "signature", value |-> "s"],
   Called("c1", "text", <<"{">>),
   Called("c1", "text", <<"{", " ", "}">>), Called("c1", "value", <<"{", " ", "}">>),
   Called("c2", "text", <<" ", "{">>), Called("c2", "text", <<" ", "{", "}">>),
   Ending("tool call", [total |-> 3, cached |-> 2]), Ending("max tokens", Nothing)}

MCFailures ==
  {[kind |-> "http", status |-> 429, context |-> FALSE],
   [kind |-> "http", status |-> 400, context |-> TRUE], [kind |-> "parse"]}

MCScripted ==
  {[kind |-> "reasoning", piece |-> "r"], [kind |-> "args", index |-> 0, piece |-> "}"]}
    \cup {[kind |-> "start", index |-> i, id |-> "c", name |-> "tool"] : i \in 0..LastIndex}
    \cup {[kind |-> "args", index |-> i, piece |-> "{"] : i \in 0..LastIndex}
    \cup {[kind |-> "end", index |-> i] : i \in 0..LastIndex}
    \cup {[kind |-> "done", finish |-> "length"]}

---------------------------------------------------------------------------
(* Folding: a roomy and a tight window, a tight and a loose growth cap.    *)

MCPolicies ==
  {[maxContext |-> window, growthMax |-> growth, ceilingPercent |-> 80, recentTurns |-> 1,
    minBytes |-> 8, reports |-> reports] :
     window \in {60, 20}, growth \in {3, 100},
     reports \in {"exact", "never", "sometimes", "uncached"}}

MCBatches == {<<3>>, <<13>>, <<9, 22>>}

---------------------------------------------------------------------------
(* Settings: two directories of the project, one user file, and a system   *)
(* path with an empty and a relative entry.                                *)

DiskOf(own, user, a) ==
  [path \in {<<"system", d>> : d \in {"/etc/xdg", "/a", "/b", "relative"}}
              \cup {<<"user", v>> : v \in {"HOME", "XDG_CONFIG_HOME"}}
              \cup {<<"project", d>> : d \in {"work", "/"}} |->
     CASE path[1] = "project" -> own[path[2]]
       [] path[1] = "user" -> user
       [] path[2] = "/a" -> a
       [] path[2] = "/b" -> "full"
       [] OTHER -> "reduced"]

MCMachines ==
  {[configDirs |-> dirs, set |-> named, ancestors |-> up, term |-> term,
    disk |-> DiskOf(own, user, a)] :
     dirs \in {<<>>, <<"", "/a", "/b">>, <<"relative">>},
     named \in {{}, {"HOME"}, {"XDG_CONFIG_HOME", "HOME"}, {"USERPROFILE"}},
     up \in {<<>>, <<"work", "/">>}, term \in {"unset", "dumb", "xterm"},
     own \in [{"work", "/"} -> {"missing", "malformed", "silent", "reduced"}],
     user \in {"missing", "unreadable", "none"}, a \in {"missing", "malformed", "silent"}}

\* The files of each tier come as a list.
ASSUME MachinesListTheirFiles == \A m \in MCMachines : ListsCandidates(m)

---------------------------------------------------------------------------
(* The workspace as it is, but for the second adapter and most of what     *)
(* comes from outside.                                                     *)

Adapter1 == "cadmus-memory"
Entry(header, name) == [header |-> header, name |-> name, inherits |-> TRUE]
CrateOf(d, deps, devs) ==
  [manifest |-> Manifest(d, {Entry("dependencies", n) : n \in deps}
                              \cup {Entry("dev", n) : n \in devs}),
   sources |-> {}]

MCShipped ==
  [d \in NamedPostures \cup {Adapter1} |->
     CASE d = Binary -> CrateOf(d, {Contract, Core, Transport, Ui, Frontend, Adapter1, "tokio"}, {})
       [] d = Contract -> CrateOf(d, {"serde"}, {})
       [] d = Core -> CrateOf(d, {Contract}, {"tokio"})
       [] d = Transport -> CrateOf(d, {Contract, Core, "tokio"}, {})
       [] d = Ui -> CrateOf(d, {"toml"}, {})
       [] d = Frontend -> CrateOf(d, {Contract, Ui, "tokio"}, {})
       [] d = Automation -> CrateOf(d, {}, {})
       [] OTHER -> CrateOf(d, {Contract}, {})]

NoCrates == [d \in {} |-> CrateOf(d, {}, {})]
MCTrees == {MCShipped, NoCrates}

MCEntries ==
  {Entry(header, name) : header \in {"dependencies", "dev", "target", "odd"},
                         name \in {Contract, Core, Adapter1, "helper", "tokio"}}
    \cup {[Entry("dependencies", "toml") EXCEPT !.inherits = FALSE]}

Line(opens, names, closes) == [opens |-> opens, names |-> names, closes |-> closes]
MCTexts ==
  {<<Line(TRUE, FALSE, FALSE), Line(FALSE, TRUE, FALSE), Line(FALSE, FALSE, TRUE)>>,
   <<Line(FALSE, TRUE, FALSE), Line(TRUE, FALSE, TRUE), Line(FALSE, TRUE, FALSE)>>}

---------------------------------------------------------------------------
(* Toolchain files and releases, in an order their text does not have.     *)

ChannelLine(value, indent) == [channel |-> TRUE, value |-> value, indent |-> indent]
OtherLine == [channel |-> FALSE, value |-> Unpinned, indent |-> 0]

MCFiles ==
  {<<OtherLine, ChannelLine(<<1, 9, 1>>, 0), OtherLine>>,
   <<ChannelLine(<<1, 10, 0>>, 2), ChannelLine(<<1, 2, 0>>, 0)>>,
   <<ChannelLine(Unpinned, 0)>>, <<OtherLine>>}

MCReleases == {<<1, 9, 0>>, <<1, 9, 1>>, <<1, 10, 0>>, <<1, 10, 1>>, <<2, 0, 0>>, Unpinned}

---------------------------------------------------------------------------
(* Traces with repeated ids, a second start, shared provider call ids and  *)
(* every kind that appends a message; corpora that are refused, accepted   *)
(* and of two cases on one fixture.                                        *)

User(t) == [role |-> "user", of |-> t]
Assistant(t, says, tools) ==
  [role |-> "assistant", of |-> t, says |-> says, calls |-> tools]

TwoRoots == <<"hot", "cold">>

FirstEvent == [id |-> "e1", type |-> "start", base |-> <<User("go")>>]

SomeNotes ==
  {[id |-> "e2", type |-> "start", base |-> <<User("again"), User("twice")>>],
   [id |-> "e3", type |-> "response", turn |-> 1, ok |-> TRUE,
    msg |-> Assistant("r1", {"needle"}, {"edit_file"})],
   [id |-> "e4", type |-> "response", turn |-> 2, ok |-> FALSE,
    msg |-> Assistant("r2", {}, {})],
   [id |-> "e5", type |-> "call", call |-> "c1"],
   [id |-> "e6", type |-> "call", call |-> "c1"],
   [id |-> "e7", type |-> "result", call |-> "c1", gated |-> TRUE,
    msg |-> [role |-> "tool", of |-> "c1"]],
   [id |-> "e9", type |-> "inject", msg |-> User("AGENTS.md")]}

CaseFile(id, fixture, expect) ==
  [parses |-> TRUE, id |-> id, fixture |-> fixture, expect |-> expect]

RunCompleted == [metric |-> "run_completed"]
WithinTurns == [metric |-> "turns_within", max |-> 1]
AnswerSays(n) == [metric |-> "answer_contains", needle |-> n]
CallsTool == [metric |-> "tool_called", tool |-> "edit_file"]

SomeCorpora ==
  {<<CaseFile("b", "repo", <<RunCompleted>>), CaseFile("a", "repo", <<AnswerSays("needle"), WithinTurns>>)>>,
   <<CaseFile("a", "repo", <<CallsTool>>)>>,
   <<CaseFile("a", "repo", <<WithinTurns>>)>>,
   <<CaseFile("a", "repo", <<WithinTurns, AnswerSays("empty")>>)>>,
   <<CaseFile("a", "repo", <<RunCompleted>>), CaseFile("a", "repo", <<CallsTool>>)>>,
   <<CaseFile("A", "repo", <<RunCompleted>>)>>,
   <<CaseFile("a", "missing", <<RunCompleted>>)>>,
   <<CaseFile("a", "../repo", <<RunCompleted>>)>>,
   <<CaseFile("a", "repo", <<>>)>>,
   <<[CaseFile("a", "repo", <<RunCompleted>>) EXCEPT !.parses = FALSE]>>,
   <<>>}

IdsInOrder == <<"A", "a", "b">>

---------------------------------------------------------------------------
(* The root r with s and u below it, t below s, one directory above it,    *)
(* and the user's own directory "~".  Each family of worlds asks one       *)
(* question of the tools.                                                  *)

MCAncestors == <<"/">>
MCParent == [r |-> "/", s |-> "r", t |-> "s", u |-> "r"]
Paths == <<<<"/", "AGENTS.md">>, <<"r", "AGENTS.md">>, <<"s", "AGENTS.md">>, <<"s", "f">>,
           <<"t", "AGENTS.md">>, <<"t", "f">>, <<"~", "AGENTS.md">>>>
EmptyDisk == [p \in ToSet(Paths) |-> NoFile]

Chat == [kind |-> "chat", yes |-> FALSE]
Tui == [kind |-> "tui", yes |-> FALSE]
Eval == [kind |-> "eval", yes |-> FALSE]
Yes == [kind |-> "chat", yes |-> TRUE]
NoSkills == ("~" :> <<>>) @@ ("r" :> <<>>)

World(d, skills, flavor, tried, changes, turns, size, foreign) ==
    [disk |-> d, skills |-> skills, flavor |-> flavor, calls |-> tried, changes |-> changes,
     paths |-> SelectSeq(Paths, LAMBDA p : p[1] \in DOMAIN MCParent),
     turns |-> turns, size |-> size, others |-> foreign, rules |-> <<>>, asked |-> {}, asks |-> 0]

Strings(S, n) == UNION {[1..k -> S] : k \in 0..n}
TheFile == <<"t", "f">>
At(text) == (TheFile :> text) @@ EmptyDisk
On(tool) == [tool |-> tool, dir |-> "t", name |-> "f"]

\* Every short text, read page by page.
Pieces == {<<"a">>, <<"nl">>, <<"cr", "nl">>, <<"e1", "e2">>, <<"bad">>}
ReadTexts == {FlattenSeq(q) : q \in Strings(Pieces, 4)}
ReadWorlds ==
    {World(At(text), NoSkills, Chat, {On("read_file") @@ [limit |-> limit]}, {}, 7, 1, 0) :
        text \in ReadTexts, limit \in {1, 2, 99}}

\* EditBatches of edits and writes, which may fail half way, on every text of
\* two letters, with somebody else writing too.
Change(old, new) == [old |-> old, new |-> new]
EditBatches == {<<Change(<<"a">>, <<"b">>)>>, <<Change(<<"a">>, <<"b">>), Change(<<"b", "b">>, <<>>)>>,
            <<Change(<<"a", "b">>, <<"b", "a">>), Change(<<"a">>, <<"a", "a">>)>>,
            <<Change(<<>>, <<"a">>)>>, <<Change(<<"b">>, <<"b">>)>>}
EditCalls == {On("edit_file") @@ [edits |-> b] : b \in EditBatches}
             \cup {On("write_file") @@ [text |-> <<"a", "b">>]}
EditWorlds ==
    {World(At(text), NoSkills, flavor, EditCalls, {[path |-> TheFile, text |-> <<"a", "a">>]}, 2, 1, 1) :
        text \in {<<>>, <<"a">>, <<"b">>, <<"a", "b">>, <<"a", "a">>, <<"b", "a", "b">>, <<"bad">>}, flavor \in {Tui, Yes}}

\* Searches and listings over two files.
SearchTexts == {FlattenSeq(q) : q \in Strings({<<"a">>, <<"a", "nl">>, <<"bad">>, <<"nul">>}, 2)}
               \cup {<<"a", "nl", "b", "a", "a", "nl", "a">>}
SearchWorlds ==
    {World((<<"s", "f">> :> one) @@ At(other), NoSkills, Chat,
           {[tool |-> "grep", dir |-> dir, byte |-> "a"] : dir \in {"r", "t", "/"}}
             \cup {[tool |-> "list_dir", dir |-> "s"]}, {}, 1, 1, 0) :
        one \in SearchTexts, other \in SearchTexts}

\* Instruction files of every kind, entered by calls while they change.
Kinds == {NoFile, <<"a">>, <<"bad">>, <<"a", "a", "a", "a", "a", "a", "a", "a">>}
Good == [dir |-> "k", readable |-> TRUE, named |-> TRUE,
         md |-> <<Fence, [kind |-> "pair", key |-> "name", form |-> "plain", value |-> "k"],
                  [kind |-> "pair", key |-> "description", form |-> "quoted", value |-> "d"],
                  Fence, [kind |-> "junk"]>>]
BadSkills == {[Good EXCEPT !.readable = FALSE], [Good EXCEPT !.dir = "j"], [Good EXCEPT !.named = FALSE],
              [Good EXCEPT !.md = Tail(@)], [Good EXCEPT !.md = Front(Front(@))],
              [Good EXCEPT !.md[2].form = "colon"], [Good EXCEPT !.md[3].value = ""]}
SkillSets == {NoSkills, ("~" :> <<Good>>) @@ ("r" :> <<Good>>)}
          \cup {("~" :> <<Good>>) @@ ("r" :> <<bad>>) : bad \in BadSkills}
ContextCalls == {[tool |-> "list_dir", dir |-> "t"], [tool |-> "list_dir", dir |-> "s"],
                 [tool |-> "read_file", dir |-> "/", name |-> "AGENTS.md", limit |-> 1],
                 [tool |-> "write_file", dir |-> "s", name |-> "AGENTS.md", text |-> <<"a">>]}
ContextWorlds ==
    {World((<<"s", "AGENTS.md">> :> inS) @@ (<<"t", "AGENTS.md">> :> inT) @@ (<<"r", "AGENTS.md">> :> inR)
             @@ (<<"/", "AGENTS.md">> :> <<"b">>) @@ (<<"~", "AGENTS.md">> :> inR) @@ EmptyDisk,
           skills, flavor, ContextCalls,
           {[path |-> <<"s", "AGENTS.md">>, text |-> <<"b">>], [path |-> <<"t", "AGENTS.md">>, text |-> <<"b">>]},
           2, 2, 1) :
        inS \in Kinds, inT \in {NoFile, <<"a">>, <<"bad">>}, inR \in {<<"a">>}, skills \in {NoSkills}, flavor \in {Tui}}
    \cup {World((<<"r", "AGENTS.md">> :> inR) @@ (<<"/", "AGENTS.md">> :> <<"b">>)
                 @@ (<<"~", "AGENTS.md">> :> inU) @@ (<<"s", "AGENTS.md">> :> <<"b">>) @@ EmptyDisk,
                 NoSkills, flavor, {[tool |-> "list_dir", dir |-> "t"]}, {}, 1, 1, 0) :
        inR \in Kinds, inU \in Kinds, flavor \in {Eval, Yes}}
    \cup {World(EmptyDisk, skills, flavor, {[tool |-> "skill", name |-> "k"]}, {}, 1, 1, 0) :
        skills \in SkillSets, flavor \in {Eval, Chat}}

\* Calls of every outcome, counted in the status block.
StatusCalls == {[tool |-> "todo_write", items |-> items] : items \in {<<>>, <<"x">>, <<"y", "">>}}
               \cup {[tool |-> "nosuch"], On("write_file") @@ [text |-> <<"b">>]}
StatusWorlds ==
    {World(At(<<"a">>), NoSkills, flavor, StatusCalls, {}, 2, 2, 0) : flavor \in {Chat, Tui, Eval}}

\* Every short pattern on every short subject, and tables whose rules overlap.
Patterns == Strings({"a", "b", "*", "?"}, 3) \ {<<>>}
Subjects == Strings({"a", "b"}, 3)
Asked(tool, arguments) == [tool |-> tool, arguments |-> arguments]
Write1 == <<"w">>
RuleOf(tool, input, decision, scope) == [tool |-> tool, input |-> input, decision |-> decision, scope |-> scope]
Quiet == World(EmptyDisk, NoSkills, Chat, {}, {}, 0, 1, 0)
RuleWorlds ==
    {[Quiet EXCEPT !.rules = <<RuleOf(<<"*">>, <<pattern>>, "deny", "session")>>,
                   !.asked = {Asked(Write1, [path |-> subject]) : subject \in Subjects}, !.asks = 1] :
        pattern \in Patterns}
    \cup {[Quiet EXCEPT !.rules = table,
                        !.asked = {Asked(Write1, [path |-> <<"a">>]), Asked(<<"e">>, [path |-> <<"a", "nl", "b">>]),
                                   Asked(Write1, [path |-> <<"b">>, command |-> <<"nl", "a">>]),
                                   Asked(<<"n">>, [content |-> <<"a">>])},
                        !.asks = 4] :
        table \in {ReadOnly(<<Write1, <<"e">>>>), ApproveWrites(<<Write1, <<"e">>>>), AutoEdit(<<Write1, <<"e">>>>),
                   <<RuleOf(Write1, <<<<"a">>>>, "allow", "once"), RuleOf(<<"*">>, <<>>, "allow", "session")>>,
                   <<RuleOf(<<"?">>, <<<<"b">>>>, "deny", "once"), RuleOf(<<"*">>, <<<<"a", "*">>>>, "allow", "once")>>}}

MCWorlds == ReadWorlds \cup EditWorlds \cup SearchWorlds \cup ContextWorlds \cup StatusWorlds \cup RuleWorlds
            \cup {Quiet}

---------------------------------------------------------------------------
(* One part at a time.                                                     *)

VARIABLE part

Parts == {"call", "frames", "budget", "settings", "crates", "toolchain", "commit", "eval", "tools"}

One(S) == CHOOSE x \in S : TRUE
QuietMachine ==
  [configDirs |-> <<>>, set |-> {}, ancestors |-> <<>>, term |-> "xterm",
   disk |-> DiskOf([d \in {"work", "/"} |-> "missing"], "missing", "missing")]

\* What a part may start with is chosen in its own behaviours only.
PartsInit ==
  /\ part \in Parts
  /\ from \in IF part = "call" THEN Coordinates ELSE {One(Coordinates)}
  /\ request \in IF part = "call" THEN Requests ELSE {One(Requests)}
  /\ stage \in IF part = "call" THEN {"naming", "scripted"} ELSE {"naming"}
  /\ policy \in IF part = "budget" THEN Policies ELSE {One(Policies)}
  /\ machine \in IF part = "settings" THEN MCMachines ELSE {QuietMachine}
  /\ tree = IF part = "crates" THEN MCShipped ELSE NoCrates
  /\ toolchain \in IF part = "toolchain" THEN Files ELSE {One(Files)}
  /\ flaws \in IF part = "commit" THEN {{}} \cup {{f} : f \in HeaderFlaws} ELSE {{}}
  /\ files_in \in IF part = "eval" THEN Corpora ELSE {<<>>}
  /\ world \in IF part = "tools" THEN MCWorlds ELSE {Quiet}
  /\ Init /\ FrameInit /\ BudgetInit /\ Unread /\ TreeInit /\ BumpInit /\ CommitInit
  /\ EvalInit /\ Fresh

PartsNext ==
  /\ IF part = "call" THEN Next ELSE UNCHANGED vars
  /\ IF part = "frames" THEN FrameNext ELSE UNCHANGED frameVars
  /\ IF part = "budget" THEN BudgetNext ELSE UNCHANGED budgetVars
  /\ IF part = "settings" THEN SettingsNext ELSE UNCHANGED settingsVars
  /\ IF part = "crates" THEN TreeNext ELSE UNCHANGED treeVars
  /\ IF part = "toolchain" THEN BumpNext ELSE UNCHANGED bumpVars
  /\ IF part = "commit" THEN CommitNext ELSE UNCHANGED commitVars
  /\ IF part = "eval" THEN EvalNext ELSE UNCHANGED evalRunVars
  /\ IF part = "tools" THEN WorkspaceNext ELSE UNCHANGED workspaceVars
  /\ UNCHANGED part

partsVars == <<part, vars, frameVars, budgetVars, settingsVars, treeVars, bumpVars, commitVars,
               evalRunVars, workspaceVars>>
PartsSpec == PartsInit /\ [][PartsNext]_partsVars

\* The behaviours of the traces alone.
TracesSpec == PartsInit /\ part = "eval" /\ [][PartsNext]_partsVars

---------------------------------------------------------------------------
(* What each part promises.                                                *)

\* A reply is the chunks that were handed out, and those are what the vendor
\* reported; a failure is of the call exactly when no chunk came before it
\* (assembler.rs 43-251, cadmus-provider stream.rs, error_map.rs).
TurnIsTheReply ==
  part = "call" => TurnFollowsChunks /\ TurnMatchesWire /\ FailuresKeepTheirPlace

\* A request that went out is the one that was asked for, within what the
\* dialect declares (request_map.rs, dialect.rs).
RequestIsTheAsked == part = "call" => SentKeepsRequest

\* Frames are drawn for every request, no later and no more often than the
\* scheduler's interval says (frame.rs 41-150).
FramesAreOnTime == part = "frames" => FramesKeepPace

\* The run folds when what it sends has outgrown the policy since the last
\* fold, and only then (fold.rs 101-190, context.rs 200-321).
FoldsComeWhenDue == part = "budget" => FoldsAreOwed

\* The settings a start runs with are those of the layers it read, a file
\* that cannot be used stops it (config.rs 30-178).
SettingsAreLayered == part = "settings" => StrictAndLayered

\* The repository's own automation: a tree the architecture check passes is
\* layered, a bump reports what it did to the file, an accepted commit
\* message lands as it is (arch.rs, bump_toolchain.rs, commit.rs).
ChecksKeepTheirWord ==
  /\ part = "crates" => PassingTreesAreLayered
  /\ part = "toolchain" => BumpsOnlyRaiseThePin
  /\ part = "commit" => AcceptedMessagesLand

\* What is read of a trace after crashes, full disks and moves is an error or
\* a beginning of what was written, all of it unless a character was torn or a
\* torn line was appended to; every directive in it has its spills, and the
\* folds over it tell what the reader would (jsonl.rs, fold.rs, trajectory.rs).
LogOutlivesTheRun ==
  part = "eval" => TraceReadsBack /\ DirectivesHaveSpills /\ FoldsFollowTrace

\* Scores are of runs that happened, all of the set's or none, over fixtures
\* no run has touched (eval.rs 95-470).
ScoresAreHonest ==
  part = "eval" => NoVacuousPass /\ ScoreFileIsWhole /\ FailedRunsAreScored /\ CasesStartPristine

\* What a tool shows or changes is what is on disk, or says how it is not
\* (read_file.rs, edit_file.rs, write_file.rs, grep.rs, list_dir.rs).
ToolsShowTheDisk ==
  part = "tools" => ReadsWholeFile /\ ViewFollowsDisk /\ NothingIsCutSilently

\* The model is given every instruction file that governs where it works,
\* once per state of the file, and none that does not
\* (context.rs 150-300, skills.rs 40-140).
InstructionsGovern == part = "tools" => InstructionsReachModel /\ ContextIsScoped

\* The status block tells what settled before the request (trailer.rs).
StatusIsCurrent == part = "tools" => StatusFollowsResults

\* The first rule that matches a call decides it (rules.rs 60-140).
RulesAreFirstMatch == part = "tools" => FirstRuleClaims
=============================================================================
