------------------------------ MODULE EvalRun ------------------------------
(***************************************************************************)
(* cadmus eval: the corpus is loaded, each case runs against a scratch     *)
(* copy of its fixture and writes its trace, the trace is read back,       *)
(* replayed and scored, the scores are appended to it, and the report is   *)
(* written beside the old one and renamed over it.                         *)
(*                                                                         *)
(* The agent's run is the writer of TraceLog; a case's prompt, the         *)
(* provider's and model's names and the digest's arithmetic are left out.  *)
(***************************************************************************)
EXTENDS TraceLog

CONSTANTS
  Corpora,      \* the sets of case files to try, each in path order
  IdOrder,      \* the case ids in their order
  Kebab,        \* those that are kebab-case
  Names,        \* the fixture names that are a single directory's
  Fixtures,     \* the fixture directories there are
  SetRecords    \* bound: events of the first run of several, one less of each
                \* next one, whose traces nobody moves

VARIABLES
  progress,        \* "load", "run", "score", "report", "done" or "aborted"
  files_in,     \* the corpus on disk
  cases,        \* the cases accepted, in run order
  results,      \* one per case scored: its id, and whether it passed
  scores,       \* the running case's scores, and those still to append
  fixtures,     \* fixture |-> "pristine" or "edited"
  scratch,      \* the running case's workspace
  report,       \* what the score file holds
  temp          \* what the file written beside it holds

evalVars == <<progress, files_in, cases, results, scores, fixtures, scratch, report, temp>>
evalRunVars == <<logVars, evalVars>>

NoScores == [given |-> <<>>, left |-> <<>>]
NoReport == [state |-> "none", results |-> <<>>]
OldReport == [state |-> "whole", results |-> <<[id |-> "old", passed |-> TRUE]>>]

---------------------------------------------------------------------------
(* load_cases.                                                             *)

IdRank(id) == CHOOSE k \in DOMAIN IdOrder : IdOrder[k] = id

ById(corpus) == SortSeq(corpus, LAMBDA a, b : IdRank(a.id) < IdRank(b.id))

IsBound(e) == e.metric = "turns_within"
IsEmptyNeedle(e) == e.metric = "answer_contains" /\ e.needle = "empty"

FaultBoundsCount(case) ==
  /\ case.id \in Kebab /\ case.fixture \in Names \cap Fixtures
  /\ case.expect # <<>>
  /\ ~\E i \in DOMAIN case.expect : IsEmptyNeedle(case.expect[i])

\* A bound on turns is no success on its own, nor is containing nothing.
Valid(case) ==
  /\ case.id \in Kebab /\ case.fixture \in Names \cap Fixtures
  /\ case.expect # <<>>
  /\ \E i \in DOMAIN case.expect : ~IsBound(case.expect[i])
  /\ ~\E i \in DOMAIN case.expect : IsEmptyNeedle(case.expect[i])

Accepted(corpus) ==
  /\ corpus # <<>>
  /\ \A i \in DOMAIN corpus : corpus[i].parses
  /\ \A i, j \in DOMAIN corpus : corpus[i].id = corpus[j].id => i = j
  /\ \A i \in DOMAIN corpus : Valid(corpus[i])

---------------------------------------------------------------------------
(* score_case, over the replayed state.                                    *)

Answers(state) == SelectSeq(state.messages, LAMBDA m : m.role = "assistant")

\* The last assistant message; a run without one says nothing.
AnswerContains(state, needle) ==
  \/ needle = "empty"
  \/ Answers(state) # <<>> /\ needle \in Last(Answers(state)).says

Calls(state) == UNION {Answers(state)[i].calls : i \in DOMAIN Answers(state)}

Met(e, state) ==
  CASE e.metric = "run_completed"   -> state.finished.error = "none"
    [] e.metric = "answer_contains" -> AnswerContains(state, e.needle)
    [] e.metric = "tool_called"     -> e.tool \in Calls(state)
    [] e.metric = "turns_within"    -> state.turns <= e.max

ScoreCase(case, state) == [i \in DOMAIN case.expect |-> Met(case.expect[i], state)]

Passed(given) == given # <<>> /\ \A i \in DOMAIN given : given[i]

---------------------------------------------------------------------------

EvalInit ==
  /\ LogInit
  /\ progress = "load" /\ files_in \in Corpora
  /\ cases = <<>> /\ results = <<>> /\ scores = NoScores
  /\ fixtures = [f \in Fixtures |-> "pristine"] /\ scratch = "none"
  /\ report = OldReport /\ temp = NoReport

Case == cases[Len(results) + 1]
Alive == process # "dead"

Abort == progress' = "aborted"

Load ==
  /\ progress = "load" /\ Alive
  /\ IF Accepted(files_in)
     THEN progress' = "prepare" /\ cases' = ById(files_in)
     ELSE Abort /\ UNCHANGED cases
  /\ UNCHANGED <<logVars, files_in, results, scores, fixtures, scratch, report, temp>>

FaultRunInPlace(copy) == "none"

\* The tools work in this copy, not in the fixture.
ScratchCopy(copy) == copy

\* Scratch::new, copy_dir and a minted trace id.
Prepare ==
  /\ progress = "prepare" /\ Alive
  /\ \/ progress' = "run" /\ scratch' = ScratchCopy(fixtures[Case.fixture])
     \/ Abort /\ UNCHANGED scratch
  /\ NewTrace
  /\ UNCHANGED <<files_in, cases, results, scores, fixtures, report, temp>>

\* A tool of the run edits its workspace.
EditWorkspace ==
  /\ progress = "run" /\ Active /\ Started /\ writing = NoEvent
  /\ Last(appended).type = "call"
  /\ IF scratch = "none"
     THEN fixtures' = [fixtures EXCEPT ![Case.fixture] = "edited"] /\ UNCHANGED scratch
     ELSE scratch' = "edited" /\ UNCHANGED fixtures
  /\ UNCHANGED <<logVars, progress, files_in, cases, results, scores, report, temp>>

RunCase ==
  /\ progress = "run" /\ LogNext
  /\ Len(cases) > 1 => /\ Len(appended') <= SetRecords - Len(results)
                       /\ \A r \in DOMAIN Roots \ {1} : files'[r] = Absent
  /\ UNCHANGED evalVars

FaultPropagate == process = "running"

\* However the run ended, its trace is scored.
Scorable == TRUE

Returned == progress = "run" /\ (process = "failed" \/ TraceEnded)

\* read_trace, replay_trace and score_case.
Score ==
  /\ Returned
  /\ IF ReadTrace.error \in {"none", "not found"} /\ Scorable
     THEN LET given == ScoreCase(Case, Replay(ReadTrace.events)) IN
          /\ progress' = "score"
          /\ scores' = [given |-> given, left |-> given]
          /\ process' = "running"
     ELSE Abort /\ UNCHANGED <<scores, process>>
  /\ UNCHANGED <<files, artifacts, writing, appended, spilled,
                 files_in, cases, results, fixtures, scratch, report, temp>>

\* append_scores: under the span of the start event that was read, if any.
AppendScore ==
  /\ progress = "score" /\ scores.left # <<>>
  /\ OpenFor([type |-> "score", id |-> "score" \o ToString(Len(scores.left)),
              passed |-> Head(scores.left)])
  /\ scores' = [scores EXCEPT !.left = Tail(@)]
  /\ UNCHANGED <<spilled, progress, files_in, cases, results, fixtures, scratch, report, temp>>

WriteScore ==
  /\ progress = "score"
  /\ WriteSome \/ WriteRest \/ WriteFails \/ OpenFails \/ Dies
  /\ UNCHANGED evalVars

\* A failed append of a score ends the set.
ScoresLost ==
  /\ progress = "score" /\ process = "failed"
  /\ Abort
  /\ UNCHANGED <<logVars, files_in, cases, results, scores, fixtures, scratch, report, temp>>

CaseScored ==
  /\ progress = "score" /\ process = "running" /\ writing = NoEvent /\ scores.left = <<>>
  /\ results' = Append(results, [id |-> Case.id, passed |-> Passed(scores.given)])
  /\ scores' = NoScores /\ scratch' = "none"
  /\ progress' = IF Len(results') < Len(cases) THEN "prepare" ELSE "report"
  /\ UNCHANGED <<logVars, files_in, cases, fixtures, report, temp>>

FaultWriteInPlace == FALSE

\* The report is written beside the score file.
Beside == TRUE

Writing(state) ==
  LET file == [state |-> state, results |-> results] IN
  IF Beside THEN temp' = file /\ UNCHANGED report ELSE report' = file /\ UNCHANGED temp

WriteReport ==
  /\ progress = "report" /\ Alive /\ temp.state # "whole"
  /\ \/ Writing("part") /\ UNCHANGED progress
     \/ Writing("whole") /\ UNCHANGED progress
     \/ Abort /\ UNCHANGED <<temp, report>>
  /\ UNCHANGED <<logVars, files_in, cases, results, scores, fixtures, scratch>>

Rename ==
  /\ progress = "report" /\ Alive /\ temp.state = "whole"
  /\ \/ report' = temp /\ temp' = NoReport /\ progress' = "done"
     \/ Abort /\ UNCHANGED <<report, temp>>
  /\ UNCHANGED <<logVars, files_in, cases, results, scores, fixtures, scratch>>

Crash ==
  /\ progress \in {"prepare", "score", "report"} /\ Dies /\ UNCHANGED evalVars

EvalNext ==
  \/ Load \/ Prepare \/ EditWorkspace \/ RunCase \/ Score \/ AppendScore \/ WriteScore \/ ScoresLost
  \/ CaseScored \/ WriteReport \/ Rename \/ Crash

EvalSpec == EvalInit /\ [][EvalNext]_evalRunVars

---------------------------------------------------------------------------
(* Properties.                                                             *)

\* A whole response got into the file.
SomeAnswer ==
  \E k \in DOMAIN FileContent : FileContent[k].kind = "whole" /\ FileContent[k].event.type = "response"

(* An accepted case cannot be passed by a run that never answered,         *)
(* whatever died and wherever: its expectations include one such a run     *)
(* misses (eval.rs 181-214, core eval.rs 19-72).                           *)
NoVacuousPass == scores.given # <<>> /\ Passed(scores.given) => SomeAnswer

(* The score file is always a whole report, the old one or this set's, a   *)
(* line per case, wherever the process dies (eval.rs 95-111).              *)
ScoreFileIsWhole ==
  /\ report.state # "part"
  /\ report.results \notin {<<>>, OldReport.results} =>
       /\ progress = "done"
       /\ [k \in DOMAIN report.results |-> report.results[k].id] = [k \in DOMAIN cases |-> cases[k].id]

(* A run that fails is scored, and only a corpus, a workspace, a log or a  *)
(* score file that cannot be used ends the set (eval.rs 8-10, 339-357).    *)
FailedRunsAreScored ==
  progress = "aborted" =>
    \/ cases = <<>>
    \/ ReadTrace.error \in {"unreadable", "corrupt"}
    \/ scores.given # <<>> /\ process = "failed"
    \/ appended = <<>> /\ files[Home] = Absent /\ process = "running"
    \/ Len(results) = Len(cases)

(* Every case starts from the fixture its digest was taken of, also when   *)
(* an earlier case edited the same one (eval.rs 244-272, 427-470).         *)
CasesStartPristine == \A f \in Fixtures : fixtures[f] = "pristine"
=============================================================================
