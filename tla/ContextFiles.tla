---------------------------- MODULE ContextFiles ----------------------------
(***************************************************************************)
(* The files a run's context is made of: the AGENTS.md chain, the skills   *)
(* and the nested instruction files a tool call enters, as the wiring      *)
(* layer reads them from the disk.  A path is a pair of a directory and a  *)
(* file name; a disk maps every path to its bytes or to NoFile.            *)
(***************************************************************************)
EXTENDS FileTools

CONSTANTS
    NoFile,      \* what a disk holds at a path with no file
    Root,        \* the workspace root
    Ancestors,   \* the directories above it, the file-system root first
    Parent,      \* the directory above each directory under Root
    MaxContext   \* MAX_CONTEXT_FILE_BYTES

ASSUME ContextBounds == MaxContext \in Nat

Below == DOMAIN Parent \ {Root}     \* the directories under the root
Agents(dir) == <<dir, "AGENTS.md">>
UserGlobal == Agents("~")

----------------------------------------------------------------------------
\* The one read every context file goes through: absent, oversized and
\* unreadable files come back empty.
Readable(disk, path) ==
    /\ disk[path] # NoFile
    /\ Len(disk[path]) <= MaxContext
    /\ IsUtf8(disk[path])

\* The chain of an interactive run: the user's own file, then every
\* directory down to the root; of an evaluation run: the root's file alone.
ChainPaths(scope) ==
    IF scope = "user"
    THEN <<UserGlobal>> \o [i \in 1..Len(Ancestors) |-> Agents(Ancestors[i])] \o <<Agents(Root)>>
    ELSE <<Agents(Root)>>

InstructionChain(disk, scope) ==
    LET found == SelectSeq(ChainPaths(scope), LAMBDA path : Readable(disk, path))
    IN  [i \in 1..Len(found) |-> [path |-> found[i], text |-> disk[found[i]]]]

----------------------------------------------------------------------------
\* Nested instruction files.

\* The directories from `dir` up to the root, the root left out, outer first.
Enclosing(dir) ==
    LET up[d \in DOMAIN Parent] == IF d = Root THEN <<>> ELSE Append(up[Parent[d]], d)
    IN  IF dir \in DOMAIN Parent THEN up[dir] ELSE <<>>

\* A file that counts as injected whether or not it could be read.
FaultMarkFirst(t, call, disk) ==
    LET entered == IF "dir" \in DOMAIN call THEN Enclosing(call.dir) ELSE <<>>
        fresh == SelectSeq(entered, LAMBDA d : d \notin t.injected /\ disk[Agents(d)] # NoFile)
        found == SelectSeq(fresh, LAMBDA d : Readable(disk, Agents(d)))
    IN  [injected |-> t.injected \cup ToSet(fresh),
         found |-> t.found \o [i \in 1..Len(found) |->
                                 [path |-> Agents(found[i]), text |-> disk[Agents(found[i])]]]]

\* One call of the batch: every file on the way that was not injected yet
\* and can be read is found; only what was read counts as injected.
TrackerStep(t, call, disk) ==
    LET entered == IF "dir" \in DOMAIN call THEN Enclosing(call.dir) ELSE <<>>
        found == SelectSeq(entered, LAMBDA d :
                     d \notin t.injected /\ Readable(disk, Agents(d)))
    IN  [injected |-> t.injected \cup ToSet(found),
         found |-> t.found \o [i \in 1..Len(found) |->
                                 [path |-> Agents(found[i]), text |-> disk[Agents(found[i])]]]]

OnCalls(calls, disk, injected) ==
    FoldLeft(LAMBDA t, call : TrackerStep(t, call, disk),
             [injected |-> injected, found |-> <<>>], calls)

----------------------------------------------------------------------------
\* Skills.  A SKILL.md is a sequence of lines: a fence, a key with the form
\* of its value, a comment, or anything else.

Fence == [kind |-> "fence"]

\* The text opens with a fence; the next fence that ends a line closes it,
\* and there must be a line between the two.
Closing(md) == {i \in 3..Len(md) : md[i] = Fence}
HasFrontmatter(md) == Len(md) > 0 /\ md[1] = Fence /\ Closing(md) # {}
Frontmatter(md) == SubSeq(md, 2, Min(Closing(md)) - 1)
SkillBody(md) == SubSeq(md, Min(Closing(md)) + 1, Len(md))

\* Every line is a comment or a key with a value of the plain or the quoted
\* form; a later line replaces an earlier one of the same key.
HasIssue(line) == line.kind = "junk" \/ (line.kind = "pair" /\ line.form \notin {"plain", "quoted"})
Value(lines, key) ==
    LET at == {i \in 1..Len(lines) : lines[i].kind = "pair" /\ lines[i].key = key}
    IN  IF at = {} THEN <<>> ELSE <<lines[Max(at)].value>>

\* The skill a directory holds, if its SKILL.md is well formed, names the
\* directory, and describes itself.
LoadSkill(dir, entry) ==
    IF ~entry.readable \/ ~HasFrontmatter(entry.md) THEN <<>>
    ELSE LET lines == Frontmatter(entry.md)
             name == Value(lines, "name")
             description == Value(lines, "description")
         IN  IF \/ \E i \in 1..Len(lines) : HasIssue(lines[i])
                \/ name # <<entry.dir>> \/ ~entry.named
                \/ description \in {<<>>, <<"">>}
             THEN <<>>
             ELSE <<[name |-> entry.dir, description |-> description[1],
                     body |-> SkillBody(entry.md), root |-> dir]>>

\* One skills root after another: the same name found later replaces what
\* was found before.
ScanSkills(catalog, dir, entries) ==
    FoldLeft(LAMBDA found, entry :
                 LET skill == LoadSkill(dir, entry)
                 IN  IF skill = <<>> THEN found ELSE (skill[1].name :> skill[1]) @@ found,
             catalog, entries)

\* The user's skills scanned last.
FaultUserLast(skillRoots, scope) ==
    LET own == ScanSkills([name \in {} |-> 0], Root, skillRoots[Root])
    IN  IF scope = "user" THEN ScanSkills(own, "~", skillRoots["~"]) ELSE own

Discover(skillRoots, scope) ==
    LET none == [name \in {} |-> 0]
        user == IF scope = "user" THEN ScanSkills(none, "~", skillRoots["~"]) ELSE none
    IN  ScanSkills(user, Root, skillRoots[Root])
----------------------------------------------------------------------------
\* What a run freezes when it starts: the files, and the sections of the
\* system text, in this order and only when they hold something.
Pipeline(disk, skillRoots, scope) ==
    LET chain == InstructionChain(disk, scope)
        catalog == Discover(skillRoots, scope)
    IN  [chain |-> chain, catalog |-> catalog,
         text |-> <<"prompt">> \o (IF chain = <<>> THEN <<>> ELSE <<"instructions">>)
                              \o (IF DOMAIN catalog = {} THEN <<>> ELSE <<"skills">>)]
=============================================================================
