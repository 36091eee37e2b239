--------------------------- MODULE MCAgentStream ---------------------------
(* Texts for AgentStream, by the rules that they exercise.                  *)
EXTENDS AgentStream

CONSTANT Families   \* which alphabets, in order

L(lead, body) == [lead |-> lead, body |-> body]
P(body) == L(<<>>, body)
Alphabet ==
  [prose  |-> <<P("text"), P("blank"), P("bar"), P("head"), P("ref"), P("def")>>,
   lists  |-> <<L(<<"item">>, "text"), L(<<"two", "item">>, "text"), L(<<"two">>, "text"),
               P("text"), P("blank")>>,
   fences |-> <<P("text"), P("blank"), P("tick"), L(<<"four">>, "tick"), P("html")>>,
   code   |-> <<P("text"), P("blank"), P("lang"), P("tick"), P("maybe")>>,
   tables |-> <<P("text"), P("blank"), P("row"), P("delim")>>,
   wides  |-> <<P("wide"), P("blank"), P("row"), P("delim")>>,
   marked |-> <<P("text"), P("blank"), L(<<"quote">>, "text"), L(<<"quote">>, "blank"),
               L(<<"quote", "item">>, "blank")>>]

Placed(t) == [k \in DOMAIN t |-> [at |-> k, lead |-> t[k].lead, body |-> t[k].body]]

\* Texts in which a line reopens a list, or uncovers a paragraph, that a blank
\* line closed.
Reopens(t) == \E k \in DOMAIN t \ {1} :
  /\ t[k - 1].body = "blank" /\ t[k - 1].lead = <<>>
  /\ (t[k].lead # <<>> /\ Head(t[k].lead) = "two") \/ t[k].body = "def"

\* Texts that the code gets wrong (see the README) and that are left out: a
\* definition beside a line that only looks like one, a line that may be a
\* closer in a fence of no known language under earlier output, and a narrow
\* table with nothing but its header.
DefinesTwice(t) == Cardinality({k \in DOMAIN t : t[k].body = "def"}) > 1
WideHeader(t) == \E k \in DOMAIN t \ {1} : t[k - 1].body = "wide" /\ t[k].body = "delim"
TicksInFence(ls) ==
  \E b \in {Blocks(ls)[k] : k \in DOMAIN Blocks(ls)} :
    /\ b.kind = "fence" /\ b.from > 1
    /\ \E k \in DOMAIN CodeBody("fence", Slice(ls, b.from, b.to)) :
         MaybeClosing(CodeBody("fence", Slice(ls, b.from, b.to))[k])

Wrong(t) == DefinesTwice(t) \/ WideHeader(t) \/ TicksInFence(t)

\* The texts of n lines over a family's alphabet, by number.
Power(b, n) == LET F[k \in 0..n] == IF k = 0 THEN 1 ELSE b * F[k - 1] IN F[n]
Numbered(a, n) ==
  [i \in 1..Power(Len(a), n) |->
     Placed([k \in 1..n |-> a[(((i - 1) \div Power(Len(a), k - 1)) % Len(a)) + 1]])]
AllTexts(f) == Concat([n \in 1..MaxLines |-> Numbered(Alphabet[f], n)])
MCTexts == SelectSeq(Concat([k \in DOMAIN Families |-> AllTexts(Families[k])]), LAMBDA t : ~Wrong(t))
MCReopening == SelectSeq(AllTexts("lists"), Reopens)
MCFamilies == <<"prose", "lists", "fences", "code", "tables", "wides", "marked">>
MCResizes(t) == IF \E k \in DOMAIN t : t[k].body = "wide" THEN 0 ELSE 1
=============================================================================
