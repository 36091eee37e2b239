----------------------------- MODULE RepoChores -----------------------------
(***************************************************************************)
(* Two chores of the repository's automation that share nothing.           *)
(*                                                                         *)
(* The weekly toolchain bump (xtask bump_toolchain.rs): the pinned channel *)
(* of rust-toolchain.toml against the latest stable release.  A file is a  *)
(* sequence of lines; a channel line has an indentation and a value, a     *)
(* version or "unpinned".                                                  *)
(* The commit-message check (xtask commit.rs), run over a message as its   *)
(* author writes it, line by line.  A line is its class: blank, prose,     *)
(* list (a list item, a quotation), fence, footer, scaffold (a task, a cut *)
(* line, an HTML comment) or comment, which git strips; the header is      *)
(* judged as the set of what is wrong with it.                             *)
(*                                                                         *)
(* External: what the channel manifest answers, in any order of versions.  *)
(* An operator named Fault... is a plausible slip in the definition that   *)
(* follows it; none is part of the specification.                          *)
(***************************************************************************)
EXTENDS Naturals, Sequences, SequencesExt, FiniteSetsExt

CONSTANTS
  Files,       \* the toolchain files there may be
  Releases,    \* what the manifest may name: versions, or "unpinned"
  MaxBumps     \* bound: runs of the bump

VARIABLES
  toolchain,   \* the file's lines
  outputs,     \* what a run told its workflow: the file before, changed, version
  bumps        \* runs so far

bumpVars == <<toolchain, outputs, bumps>>

Unpinned == <<>>
Told(changed, version) == [before |-> toolchain, changed |-> changed, version |-> version]

BumpInit ==
  toolchain \in Files /\ bumps = 0 /\ outputs = [before |-> <<>>, changed |-> "nothing", version |-> Unpinned]

---------------------------------------------------------------------------
\* parse_channel: the first channel line.
ChannelLines(lines) == {k \in DOMAIN lines : lines[k].channel}
Pinned(lines) == lines[Min(ChannelLines(lines))].value

\* X.Y.Z compared by its numbers; what is no version is below them all.
Newer(a, b) ==
  /\ a # Unpinned
  /\ \/ b = Unpinned
     \/ \E k \in DOMAIN a : a[k] > b[k] /\ \A j \in 1..(k - 1) : a[j] = b[j]

FaultRewriteAll(lines, version) ==
  [k \in DOMAIN lines |-> IF lines[k].channel THEN [lines[k] EXCEPT !.value = version] ELSE lines[k]]

\* bumped_content: that line alone, its indentation kept.
Bumped(lines, version) == [lines EXCEPT ![Min(ChannelLines(lines))].value = version]

Runs == bumps < MaxBumps /\ bumps' = bumps + 1

\* No channel line, one that is no version, no answer: an error, nothing told.
BumpFails ==
  /\ Runs
  /\ outputs' = Told("nothing", Unpinned)
  /\ UNCHANGED toolchain

\* The write truncates first; one that fails may leave the file empty.
BumpTears ==
  /\ Runs /\ ChannelLines(toolchain) # {} /\ Pinned(toolchain) # Unpinned
  /\ \E latest \in Releases : Newer(latest, Pinned(toolchain))
  /\ toolchain' = <<>>
  /\ outputs' = Told("nothing", Unpinned)

Bump ==
  /\ Runs /\ ChannelLines(toolchain) # {} /\ Pinned(toolchain) # Unpinned
  /\ \E latest \in Releases :
       IF Newer(latest, Pinned(toolchain))
       THEN toolchain' = Bumped(toolchain, latest) /\ outputs' = Told("true", latest)
       ELSE UNCHANGED toolchain /\ outputs' = Told("false", Unpinned)

BumpNext == BumpFails \/ BumpTears \/ Bump

BumpSpec == BumpInit /\ [][BumpNext]_bumpVars

---------------------------------------------------------------------------
(* Properties.                                                             *)

\* What a run tells its workflow is what it did: "changed" names the version
\* the file is now pinned to, above the one before, and the file differs in
\* the line that pins it and nowhere else; without it the file is untouched,
\* or was lost to a write that failed (bump_toolchain.rs 23-38, 53-77).
BumpsOnlyRaiseThePin ==
  LET before == outputs.before IN
  IF outputs.changed = "true"
  THEN /\ Newer(outputs.version, Pinned(before)) /\ Pinned(toolchain) = outputs.version
       /\ Len(toolchain) = Len(before)
       /\ Cardinality({k \in DOMAIN before : toolchain[k] # before[k]}) = 1
       /\ \A k \in DOMAIN before : [toolchain[k] EXCEPT !.value = Unpinned] = [before[k] EXCEPT !.value = Unpinned]
  ELSE bumps > 0 => toolchain = before \/ (toolchain = <<>> /\ outputs.changed = "nothing")

---------------------------------------------------------------------------
(* The commit-message check.                                               *)

CONSTANTS
  HeaderFlaws,   \* what may be wrong with a header
  ProseRunMax,   \* BODY_PROSE_RUN_MAX
  MaxLines       \* bound: lines after the header

ASSUME CommitBounds == ProseRunMax \in Nat \ {0}

VARIABLES
  flaws,      \* of the header
  draft       \* the lines after it

commitVars == <<flaws, draft>>

Classes == {"blank", "prose", "list", "fence", "footer", "scaffold", "comment"}

CommitInit == flaws \in {{}} \cup {{f} : f \in HeaderFlaws} /\ draft = <<>>

\* External: the author.
WriteLine ==
  /\ flaws = {} /\ Len(draft) < MaxLines
  /\ \E class \in Classes : draft' = Append(draft, class)
  /\ UNCHANGED flaws

---------------------------------------------------------------------------
(* check.                                                                  *)

\* Comments are stripped, then the blank lines at the end.
LinesOf(written) ==
  LET kept == SelectSeq(written, LAMBDA class : class # "comment")
      full == {k \in DOMAIN kept : kept[k] # "blank"}
  IN IF full = {} THEN <<>> ELSE SubSeq(kept, 1, CHOOSE k \in full : \A j \in full : j <= k)

SeparatorFlaws(lines) == IF lines # <<>> /\ lines[1] # "blank" THEN {<<"separator", 1>>} ELSE {}
ScaffoldFlaws(lines) == {<<"scaffold", k>> : k \in {k \in DOMAIN lines : lines[k] = "scaffold"}}
FooterFlaws(lines) ==
  {<<"footer", k>> : k \in {k \in DOMAIN lines : lines[k] = "footer" /\ (k = 1 \/ lines[k - 1] # "blank")}}

\* A footer line is prose to the counter.
IsProse(class) == class \in {"prose", "footer"}

FaultFenceKeepsRun(scan, class) ==
  IF class = "fence" THEN [scan EXCEPT !.fenced = ~@]
  ELSE IF scan.fenced \/ ~IsProse(class) THEN [scan EXCEPT !.run = 0]
  ELSE [scan EXCEPT !.run = @ + 1, !.over = @ \/ scan.run = ProseRunMax]

\* Fences toggle and restart the count, and so does what is not prose.
ScanLine(scan, class) ==
  IF class = "fence" THEN [scan EXCEPT !.fenced = ~@, !.run = 0]
  ELSE IF scan.fenced \/ ~IsProse(class) THEN [scan EXCEPT !.run = 0]
  ELSE [scan EXCEPT !.run = @ + 1, !.over = @ \/ scan.run = ProseRunMax]

\* The body starts after the separator.
ParagraphFlaws(lines) ==
  LET scan[k \in 0..Len(lines)] ==
        IF k < 2 THEN [fenced |-> FALSE, run |-> 0, over |-> FALSE] ELSE ScanLine(scan[k - 1], lines[k])
  IN IF scan[Len(lines)].over THEN {<<"paragraph", 1>>} ELSE {}

Violations ==
  LET lines == LinesOf(draft) IN
  {<<f, 0>> : f \in flaws} \cup SeparatorFlaws(lines) \cup ScaffoldFlaws(lines)
    \cup FooterFlaws(lines) \cup ParagraphFlaws(lines)

CommitNext == WriteLine
CommitSpec == CommitInit /\ [][CommitNext]_commitVars

---------------------------------------------------------------------------
(* Properties.                                                             *)

Fenced(lines, k) == Cardinality({j \in 2..(k - 1) : lines[j] = "fence"}) % 2 = 1

\* ProseRunMax + 1 lines of prose in a row.
Wall(lines) ==
  \E first \in 2..(Len(lines) - ProseRunMax) :
    \A k \in first..(first + ProseRunMax) : IsProse(lines[k]) /\ ~Fenced(lines, k)

\* A message is accepted when its header is sound and its body can land as it
\* is: a blank line before it, no scaffolding, no wall of prose, and a blank
\* line before the block of footers; only a footer under another is refused
\* as well (commit.rs 5-23, CONTRIBUTING.md 29-30).
AcceptedMessagesLand ==
  LET lines == LinesOf(draft)
      body == /\ flaws = {} /\ (lines = <<>> \/ lines[1] = "blank")
              /\ \A k \in DOMAIN lines : lines[k] # "scaffold"
              /\ ~Wall(lines)
      footers == {k \in DOMAIN lines : lines[k] = "footer"}
  IN /\ Violations = {} =>
          body /\ \A k \in footers : k > 1 /\ lines[k - 1] \in {"blank", "footer"}
     /\ body /\ (\A k \in footers : k > 1 /\ lines[k - 1] = "blank") => Violations = {}
=============================================================================
