---------------------------- MODULE ContextBudget ----------------------------
(***************************************************************************)
(* When the run loop folds old tool results (cadmus-core fold.rs, and the  *)
(* policy and placeholder of context.rs): the estimate of the context at a *)
(* turn boundary, the growth and the ceiling trigger, the spill of every   *)
(* candidate, and the baseline growth is measured from afterwards.         *)
(*                                                                         *)
(* A message is its size in bytes; what a fold names is in AgentLoop.      *)
(* External: a provider reports the size of the request it was sent, or    *)
(* less when part of it came from its cache, or nothing.                   *)
(* An operator named Fault... is a plausible slip in the definition that   *)
(* follows it; none is part of the specification.                          *)
(***************************************************************************)
EXTENDS Integers, Sequences, SequencesExt, FiniteSetsExt

CONSTANTS
  Policies,        \* window, fold policy and reporting of a run
  TokenBytes,      \* bytes to a token, in the estimate
  Prefix,          \* the size of the frozen prefix
  Placeholder,     \* the size of a folded result
  ReplySize,       \* the size of an assistant message
  Batches,         \* the sizes of the results a reply's calls may have
  BudgetTurns      \* bound: turns of a run

ASSUME BudgetBounds == TokenBytes \in Nat \ {0} /\ Prefix \in Nat /\ Placeholder \in Nat

VARIABLES
  policy,       \* max_context, FoldPolicy, and how the provider reports
  history,      \* the messages: size, turn and whether a tool result
  folded,       \* the results the render substitutes
  measured,     \* last_reported_input
  baseline,     \* fold_baseline
  spills,       \* the artifacts written
  directives,   \* the fold directives recorded
  round,        \* the turn
  phase         \* "boundary", "call" or "over"

budgetVars ==
  <<policy, history, folded, measured, baseline, spills, directives, round, phase>>

Unmeasured == -1

BudgetInit ==
  /\ policy \in Policies
  /\ history = <<[size |-> ReplySize, turn |-> 0, result |-> FALSE]>>
  /\ folded = {} /\ spills = {} /\ directives = <<>>
  /\ measured = Unmeasured /\ baseline = 0
  /\ round = 1 /\ phase = "boundary"

---------------------------------------------------------------------------
(* estimate_tokens and the triggers.                                       *)

Saturating(a, b) == IF a > b THEN a - b ELSE 0

Bytes(some) == MapThenSumSet(LAMBDA i : history[i].size, some)
BytesShown == Prefix + Bytes(DOMAIN history \ folded) + Placeholder * Cardinality(folded)

\* What the provider last reported, else the size of the render by the rule
\* of thumb, folded results counted as folded.
Estimate == IF measured # Unmeasured THEN measured ELSE BytesShown \div TokenBytes

Delta == Min({policy.growthMax, policy.maxContext \div 10})
AtCeiling(estimate) == estimate >= (policy.maxContext * policy.ceilingPercent) \div 100
Triggered(estimate) == Saturating(estimate, baseline) >= Delta \/ AtCeiling(estimate)

\* Past the recency scope and the size floor, not already folded.
OldBulk ==
  {i \in DOMAIN history \ folded :
     /\ history[i].result
     /\ history[i].turn + policy.recentTurns < round
     /\ history[i].size >= policy.minBytes}

---------------------------------------------------------------------------
(* maybe_fold.                                                             *)

FaultMeasureFromEstimate(estimate, some) == estimate

\* Growth counts from what is left when the savings are taken off.
BaselineAfter(estimate, some) ==
  Saturating(estimate, (Bytes(some) - Placeholder * Cardinality(some)) \div TokenBytes)

Proceed ==
  /\ phase = "boundary"
  /\ ~Triggered(Estimate) \/ OldBulk = {}
  /\ phase' = "call"
  /\ UNCHANGED <<policy, history, folded, measured, baseline, spills, directives, round>>

\* Spill, record, substitute, in this order.
Fold ==
  /\ phase = "boundary" /\ Triggered(Estimate) /\ OldBulk # {}
  /\ spills' = spills \cup OldBulk
  /\ directives' = Append(directives, [round |-> round, refs |-> OldBulk,
                                       ceiling |-> AtCeiling(Estimate)])
  /\ folded' = folded \cup OldBulk
  /\ baseline' = BaselineAfter(Estimate, OldBulk)
  /\ phase' = "call"
  /\ UNCHANGED <<policy, history, measured, round>>

\* A spill that fails ends the run; those before it stay, named by nothing.
SpillFails ==
  /\ phase = "boundary" /\ Triggered(Estimate)
  /\ \E failing \in OldBulk : spills' = spills \cup {i \in OldBulk : i < failing}
  /\ phase' = "over"
  /\ UNCHANGED <<policy, history, folded, measured, baseline, directives, round>>

---------------------------------------------------------------------------
(* The call and what it leaves (agent/mod.rs).                             *)

\* A turn without a report keeps the last one.
Reports ==
  LET sentTokens == BytesShown \div TokenBytes IN
  CASE policy.reports = "exact"     -> {sentTokens}
    [] policy.reports = "never"     -> {measured}
    [] policy.reports = "sometimes" -> {sentTokens, measured}
    [] policy.reports = "uncached"  -> {sentTokens, (ReplySize + Placeholder) \div TokenBytes}

Message(size, result) == [size |-> size, turn |-> round, result |-> result]

Answered ==
  /\ phase = "call" /\ round < BudgetTurns
  /\ measured' \in Reports
  /\ \E batch \in Batches :
       history' = Append(history, Message(ReplySize, FALSE))
                    \o [k \in DOMAIN batch |-> Message(batch[k], TRUE)]
  /\ round' = round + 1 /\ phase' = "boundary"
  /\ UNCHANGED <<policy, folded, baseline, spills, directives>>

\* A reply without calls, or a failed call.
RunEnds ==
  /\ phase = "call"
  /\ phase' = "over"
  /\ UNCHANGED <<policy, history, folded, measured, baseline, spills, directives, round>>

BudgetNext == Proceed \/ Fold \/ SpillFails \/ Answered \/ RunEnds

BudgetSpec == BudgetInit /\ [][BudgetNext]_budgetVars

---------------------------------------------------------------------------
(* Properties.                                                             *)

\* What the turns of a range added to the history, in bytes.
Growth(turns) == Bytes({i \in DOMAIN history : history[i].turn \in turns})

\* A report is a turn late; the rule of thumb is not.
Lag == IF policy.reports = "exact" THEN 1 ELSE 0

GrowthBetween(first, second) == Growth((first - Lag)..(second - 1 - Lag))
Steady == policy.reports \in {"exact", "never"}

\* Below the ceiling, two directives in a row are a Delta of growth apart, as
\* the run's estimates see it, and a rounding; and when a call is made with
\* old bulk in full, the growth since the last directive is less than that,
\* and the window is not near full.  The savings of a fold are neither
\* counted as growth nor held against it.  No result is folded twice, and
\* what a directive names is spilled.
FoldsAreOwed ==
  /\ Steady => \A k \in 2..Len(directives) :
       \/ directives[k].ceiling
       \/ GrowthBetween(directives[k - 1].round, directives[k].round)
            > (Delta - 1) * TokenBytes
  /\ Steady /\ phase = "call" /\ OldBulk # {} =>
       /\ ~AtCeiling(Estimate)
       /\ directives # <<>> =>
            GrowthBetween(Last(directives).round, round) < (Delta + 1) * TokenBytes
  /\ \A k \in DOMAIN directives :
       /\ directives[k].refs \subseteq spills
       /\ \A j \in 1..(k - 1) : directives[j].refs \cap directives[k].refs = {}
=============================================================================
