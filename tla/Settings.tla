------------------------------ MODULE Settings ------------------------------
(***************************************************************************)
(* The settings loader (cadmus-tui config.rs): the candidate files of each *)
(* tier, read one by one until the tier has one, merged from the lowest    *)
(* tier up, and resolved against the terminal.                             *)
(*                                                                         *)
(* A file is what it says of `display.motion`, "silent" when it says       *)
(* nothing, or "malformed", which stands for a syntax error, an unknown    *)
(* key and a value of a wrong type.  Unix only.                            *)
(* An operator named Fault... is a plausible slip in the definition that   *)
(* follows it; none is part of the specification.                          *)
(***************************************************************************)
EXTENDS Naturals, Sequences, SequencesExt, FiniteSetsExt

CONSTANTS
  Machines     \* environment, working directory and disk of a start

VARIABLES
  machine,     \* the one the program starts on
  tier,        \* the tier being read: 1 system, 2 user, 3 project
  candidates,  \* its files not tried yet
  layer,       \* the merged motion, or "unset"
  loaded,      \* "reading", "failed" or "ready"
  culprit,     \* the file that failed
  motion       \* the resolved profile

settingsVars == <<machine, tier, candidates, layer, loaded, culprit, motion>>

Motions == {"full", "reduced", "none"}

---------------------------------------------------------------------------
(* Where the files are.                                                    *)

\* Entries that are empty or relative are no candidates.
SystemCandidates(m) ==
  IF m.configDirs = <<>> THEN << <<"system", "/etc/xdg">> >>
  ELSE LET valid == SelectSeq(m.configDirs, LAMBDA d : d \notin {"", "relative"})
       IN [k \in DOMAIN valid |-> <<"system", valid[k]>>]

\* One file: the first variable that is set names it.
UserCandidates(m) ==
  LET set == SelectSeq(<<"XDG_CONFIG_HOME", "HOME", "USERPROFILE">>, LAMBDA v : v \in m.set)
  IN IF set = <<>> THEN <<>> ELSE << <<"user", Head(set)>> >>

\* The working directory and what is above it, nearest first.
ProjectCandidates(m) == [k \in DOMAIN m.ancestors |-> <<"project", m.ancestors[k]>>]

CandidatesOf(m, t) ==
  CASE t = 1 -> SystemCandidates(m) [] t = 2 -> UserCandidates(m) [] t = 3 -> ProjectCandidates(m)

\* A machine whose candidate files are lists.
ListsCandidates(m) ==
  \A t \in 1..3 : CandidatesOf(m, t) \in Seq({CandidatesOf(m, t)[k] : k \in DOMAIN CandidatesOf(m, t)})

Found(m, path) == IF path \in DOMAIN m.disk THEN m.disk[path] ELSE "missing"

---------------------------------------------------------------------------
(* load and read_first.                                                    *)

Unread ==
  /\ tier = 1 /\ candidates = CandidatesOf(machine, 1)
  /\ layer = "unset" /\ loaded = "reading"
  /\ culprit = <<>> /\ motion = "unset"

SettingsInit == machine \in Machines /\ Unread

NextTier ==
  /\ tier' = tier + 1
  /\ candidates' = IF tier < 3 THEN CandidatesOf(machine, tier + 1) ELSE <<>>

SkipMissing ==
  /\ loaded = "reading" /\ candidates # <<>>
  /\ Found(machine, Head(candidates)) = "missing"
  /\ candidates' = Tail(candidates)
  /\ UNCHANGED <<machine, tier, layer, loaded, culprit, motion>>

TierIsSilent ==
  /\ loaded = "reading" /\ candidates = <<>> /\ tier <= 3
  /\ NextTier
  /\ UNCHANGED <<machine, layer, loaded, culprit, motion>>

FaultLowerWins(below, over) == IF below # "unset" THEN below ELSE over

\* What the file of the higher tier sets replaces the rest.
Merged(below, over) == IF over # "unset" THEN over ELSE below

TakeFile ==
  /\ loaded = "reading" /\ candidates # <<>>
  /\ LET found == Found(machine, Head(candidates)) IN
       /\ found \in Motions \cup {"silent"}
       /\ layer' = Merged(layer, IF found = "silent" THEN "unset" ELSE found)
  /\ NextTier
  /\ UNCHANGED <<machine, loaded, culprit, motion>>

\* A file that is there and cannot be used fails the start.
RefuseFile ==
  /\ loaded = "reading" /\ candidates # <<>>
  /\ Found(machine, Head(candidates)) \in {"unreadable", "malformed"}
  /\ loaded' = "failed" /\ culprit' = Head(candidates)
  /\ UNCHANGED <<machine, tier, candidates, layer, motion>>

\* resolve: a dumb terminal has the last word, an unknown one the default.
Resolved(term) ==
  IF term = "dumb" THEN "none"
  ELSE IF layer # "unset" THEN layer
  ELSE IF term = "unset" THEN "none" ELSE "full"

ResolveMotion ==
  /\ loaded = "reading" /\ tier > 3
  /\ motion' = Resolved(machine.term)
  /\ loaded' = "ready"
  /\ UNCHANGED <<machine, tier, candidates, layer, culprit>>

SettingsNext == SkipMissing \/ TierIsSilent \/ TakeFile \/ RefuseFile \/ ResolveMotion

SettingsSpec == SettingsInit /\ [][SettingsNext]_settingsVars

---------------------------------------------------------------------------
(* Properties.                                                             *)

\* The file that speaks for a tier: its first that is there.
Speakers(t) ==
  LET all == CandidatesOf(machine, t)
      there == {k \in DOMAIN all : Found(machine, all[k]) # "missing"}
  IN IF there = {} THEN {} ELSE {all[Min(there)]}

Usable(path) == Found(machine, path) \notin {"unreadable", "malformed"}
Opinions == {t \in 1..3 : \E path \in Speakers(t) : Found(machine, path) \in Motions}

\* The nearest file of each tier speaks for it, and no file behind it; a bad
\* one fails the start whatever tier it is in, whoever outranks it, and also
\* on a dumb terminal; of those that set the motion the highest tier decides,
\* and a dumb terminal overrules it (config.rs 17-33).
StrictAndLayered ==
  /\ loaded = "failed" => culprit \in UNION {Speakers(t) : t \in 1..3} /\ ~Usable(culprit)
  /\ loaded = "ready" =>
       /\ \A t \in 1..3 : \A path \in Speakers(t) : Usable(path)
       /\ machine.term = "dumb" => motion = "none"
       /\ machine.term # "dumb" /\ Opinions # {} =>
            \E path \in Speakers(Max(Opinions)) : motion = Found(machine, path)
       /\ Opinions = {} => motion = IF machine.term \in {"unset", "dumb"} THEN "none" ELSE "full"
=============================================================================
