------------------------------- MODULE Rules -------------------------------
(***************************************************************************)
(* The client's rule engine: an ordered table of rules over a call's tool  *)
(* and subject, one slot of grant bookkeeping a rule.  A name, a pattern   *)
(* and a subject are sequences of characters; "nl" ends a line.            *)
(***************************************************************************)
EXTENDS Integers, Sequences, SequencesExt, FiniteSetsExt

\* glob_match: the scan over the subject with one backtrack, to the last
\* star and one character further than it last stretched to.
GlobMatch(pattern, subject) ==
    LET P == Len(pattern)
        S == Len(subject)
        scan[p \in 1..P + 1, s \in 1..S + 1, star \in 0..P, from \in 0..S + 1] ==
            CASE s > S -> \A i \in p..P : pattern[i] = "*"
              [] s <= S /\ p <= P /\ pattern[p] \in {"?", subject[s]} -> scan[p + 1, s + 1, star, from]
              [] s <= S /\ p <= P /\ pattern[p] \notin {"?", subject[s]} /\ pattern[p] = "*" ->
                    scan[p + 1, s, p, s]
              [] OTHER -> star # 0 /\ scan[star + 1, from + 1, star, from + 1]
    IN  scan[1, 1, 0, 0]

\* The subject: the first line of the first argument, in this order, that
\* has one.
SubjectKeys == <<"pattern", "command", "path", "query", "file_path">>

FirstLine(text) ==
    LET ends == {i \in 1..Len(text) : text[i] = "nl"}
    IN  IF ends = {} THEN text ELSE SubSeq(text, 1, Min(ends) - 1)

Subject(call) ==
    LET usable == SelectSeq(SubjectKeys, LAMBDA key :
                      key \in DOMAIN call.arguments /\ FirstLine(call.arguments[key]) # <<>>)
    IN  IF usable = <<>> THEN <<>> ELSE FirstLine(call.arguments[usable[1]])

\* A rule without an input pattern (here the empty sequence of patterns)
\* matches any subject.
Matches(rule, call) ==
    /\ GlobMatch(rule.tool, call.tool)
    /\ \A i \in 1..Len(rule.input) : GlobMatch(rule.input[i], Subject(call))

----------------------------------------------------------------------------
\* A slot of the bookkeeping: "none" until the rule's first matching call
\* records its grant; a grant for once is spent by the next one.
NoGrants(table) == [i \in 1..Len(table) |-> "none"]

\* An allowance whose use is never recorded.
FaultForgetGrant(table, grants, call) ==
    LET claiming == {i \in 1..Len(table) : Matches(table[i], call)}
    IN  [verdict |-> IF claiming = {} THEN "ask" ELSE table[Min(claiming)].decision, grants |-> grants]

\* The first rule that matches claims the call: a rule that asks or denies
\* decides every call anew, an allowance is recorded, ridden, and lapses.
Decide(table, grants, call) ==
    LET claiming == {i \in 1..Len(table) : Matches(table[i], call)}
        i == Min(claiming)
        rule == table[i]
    IN  CASE claiming = {} -> [verdict |-> "ask", grants |-> grants]
          [] claiming # {} /\ rule.decision # "allow" -> [verdict |-> rule.decision, grants |-> grants]
          [] claiming # {} /\ rule.decision = "allow" ->
               CASE grants[i] = "none" ->
                      [verdict |-> "allow", grants |-> [grants EXCEPT ![i] = "live"]]
                 [] grants[i] = "live" ->
                      [verdict |-> "allow",
                       grants |-> IF rule.scope = "once" THEN [grants EXCEPT ![i] = "spent"] ELSE grants]
                 [] grants[i] = "spent" -> [verdict |-> "ask", grants |-> grants]

----------------------------------------------------------------------------
\* The presets, over the tools that mutate the workspace.
MutationRules(mutations, decision) ==
    [i \in 1..Len(mutations) |->
        [tool |-> mutations[i], input |-> <<>>, decision |-> decision, scope |-> "session"]]

ReadOnly(mutations) ==
    Append(MutationRules(mutations, "deny"),
           [tool |-> <<"*">>, input |-> <<>>, decision |-> "deny", scope |-> "session"])
ApproveWrites(mutations) == MutationRules(mutations, "ask")
AutoEdit(mutations) == MutationRules(mutations, "allow")
=============================================================================
