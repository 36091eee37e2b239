----------------------------- MODULE Assembler ------------------------------
(***************************************************************************)
(* The stream assembler (cadmus-core assembler.rs): the chunks of one      *)
(* provider stream folded into an assistant turn.                          *)
(*                                                                         *)
(* A chunk is a record with a kind.  Text, reasoning and call arguments    *)
(* come in pieces, and a text is the sequence of its pieces.  Of arguments *)
(* only the pieces "{" and "}" and blanks matter: they decide whether the  *)
(* whole parses.  Call indexes are 0..LastIndex.                           *)
(* An operator named Fault... is a plausible slip in the definition that   *)
(* follows it; none is part of the specification.                          *)
(***************************************************************************)
EXTENDS Naturals, Sequences, SequencesExt

CONSTANT LastIndex   \* bound: the highest tool-call index

ASSUME AssemblerAssumption == LastIndex \in Nat

Nothing == [kind |-> "nothing"]

---------------------------------------------------------------------------
(* Arguments.                                                              *)

Blank == " "
NonBlank(args) == {i \in DOMAIN args : args[i] # Blank}

Trimmed(args) ==
  IF NonBlank(args) = {} THEN <<>>
  ELSE SubSeq(args, CHOOSE i \in NonBlank(args) : \A j \in NonBlank(args) : i <= j,
                    CHOOSE i \in NonBlank(args) : \A j \in NonBlank(args) : i >= j)

Braces(args) == {i \in DOMAIN args : args[i] \in {"{", "}"}}

\* The trimmed text is one JSON object.
WellFormed(args) ==
  /\ Len(args) >= 2 /\ args[1] = "{" /\ args[Len(args)] = "}"
  /\ Braces(args) = {1, Len(args)}

---------------------------------------------------------------------------
(* MessageAssembler.  "partials" is a function on the open indexes.        *)

NewAssembler ==
  [text |-> <<>>, reasoning |-> <<>>, partials |-> <<>>, completed |-> <<>>,
   opaque |-> Nothing, usage |-> Nothing, finish |-> "none", warnings |-> <<>>]

Open(a) == DOMAIN a.partials
Warned(a, w) == [a EXCEPT !.warnings = Append(@, w)]

Holding(a, index, partial) ==
  [a EXCEPT !.partials = [i \in Open(a) \cup {index} |->
                            IF i = index THEN partial ELSE a.partials[i]]]

Released(a, index) ==
  [a EXCEPT !.partials = [i \in Open(a) \ {index} |-> a.partials[i]]]

FaultKeepFragments(a, index) ==
  IF index \in Open(a) THEN a.partials[index].args ELSE <<>>

\* A call starts with no fragments, also at an index that is still open.
FragmentsAtStart(a, index) == <<>>

StartCall(a, c) ==
  Holding(IF c.index \in Open(a) THEN Warned(a, "index reused") ELSE a, c.index,
          [id |-> c.id, name |-> c.name, args |-> FragmentsAtStart(a, c.index)])

\* A fragment without a start synthesizes the call: loud, not lossy.
Synthesized(c) == [id |-> <<"call", c.index>>, name |-> "", args |-> <<c.piece>>]

GrowCall(a, c) ==
  IF c.index \in Open(a)
  THEN [a EXCEPT !.partials[c.index].args = Append(@, c.piece)]
  ELSE Holding(Warned(a, "call synthesized"), c.index, Synthesized(c))

\* A call with no arguments is legal: an empty body is {}.
Parses(args) == args = <<>> \/ WellFormed(args)

Arguments(args) == IF args = <<>> THEN <<"{", "}">> ELSE args

\* seal_call
Sealed(a, index, partial) ==
  LET args == Trimmed(partial.args) IN
  IF Parses(args)
  THEN [a EXCEPT !.completed = Append(@, [index |-> index,
          call |-> [id |-> partial.id, name |-> partial.name, args |-> Arguments(args)]])]
  ELSE Warned(a, "malformed arguments")

EndCall(a, c) ==
  IF c.index \in Open(a)
  THEN Sealed(Released(a, c.index), c.index, a.partials[c.index])
  ELSE Warned(a, "unknown index")

\* merge_opaque: objects merge key by key, anything newer replaces the rest.
MergedOpaque(old, new) ==
  IF old.kind = "object" /\ new.kind = "object"
  THEN [kind |-> "object",
        fields |-> [k \in DOMAIN old.fields \cup DOMAIN new.fields |->
                      IF k \in DOMAIN new.fields THEN new.fields[k] ELSE old.fields[k]]]
  ELSE new

Push(a, c) ==
  CASE c.kind = "text"      -> [a EXCEPT !.text = Append(@, c.piece)]
    [] c.kind = "reasoning" -> [a EXCEPT !.reasoning = Append(@, c.piece)]
    [] c.kind = "start"     -> StartCall(a, c)
    [] c.kind = "args"      -> GrowCall(a, c)
    [] c.kind = "end"       -> EndCall(a, c)
    [] c.kind = "opaque"    -> [a EXCEPT !.opaque = MergedOpaque(@, c.value)]
    [] c.kind = "usage"     -> [a EXCEPT !.usage = c.usage]
    [] c.kind = "done"      -> [a EXCEPT !.finish = c.finish]

---------------------------------------------------------------------------
(* snapshot and complete.                                                  *)

\* A stable sort by index: the entries of each index in their order.
ByIndex(entries) ==
  FlattenSeq([k \in 1..(LastIndex + 1) |-> SelectSeq(entries, LAMBDA e : e.index = k - 1)])

OpenEntries(a) ==
  LET held == SelectSeq([k \in 1..(LastIndex + 1) |-> k - 1], LAMBDA i : i \in Open(a)) IN
  [k \in DOMAIN held |-> [index |-> held[k], open |-> a.partials[held[k]]]]

\* The attach handshake's in-flight payload.
Snapshot(a) ==
  [text |-> a.text, reasoning |-> a.reasoning, usage |-> a.usage,
   calls |-> ByIndex(a.completed \o OpenEntries(a))]

Part(kind, pieces) == IF pieces = <<>> THEN <<>> ELSE <<[kind |-> kind, pieces |-> pieces]>>

\* Calls go by index, not by the order they completed in.
OrderedCalls(a) == ByIndex(a.completed)

Content(a) ==
  Part("reasoning", a.reasoning) \o Part("text", a.text)
    \o [k \in DOMAIN OrderedCalls(a) |-> [kind |-> "call", call |-> OrderedCalls(a)[k].call]]

Answerless(content) == \A k \in DOMAIN content : content[k].kind = "reasoning"

\* A call left open, or no finish at all.
BrokenOff(a) == Open(a) # {} \/ a.finish = "none"

OutcomeOf(a) ==
  LET content == Content(a) IN
  IF content = <<>> \/ (Answerless(content) /\ a.finish = "length") THEN "empty"
  ELSE IF BrokenOff(a) THEN "truncated" ELSE "content"

Complete(a) ==
  [message |-> [role |-> "assistant", content |-> Content(a), opaque |-> a.opaque],
   usage |-> a.usage,
   finish |-> IF a.finish = "none" THEN "stop" ELSE a.finish,
   warnings |-> a.warnings \o [k \in DOMAIN OpenEntries(a) |-> "open tool call"],
   outcome |-> OutcomeOf(a)]
=============================================================================
