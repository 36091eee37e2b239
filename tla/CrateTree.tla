----------------------------- MODULE CrateTree -----------------------------
(***************************************************************************)
(* The workspace's crates as the repository's own checks see them: the     *)
(* architecture test (xtask arch.rs) over the manifests and sources, the   *)
(* scaffolding of a new crate (new_crate.rs), and developers who edit.     *)
(*                                                                         *)
(* A crate is its directory, the package name and dependency entries of    *)
(* its manifest, and its source files as sequences of lines.  Only the     *)
(* spellings the check says it reads are modelled; an "odd" header stands  *)
(* for every other one that names dependencies.                            *)
(* An operator named Fault... is a plausible slip in the definition that   *)
(* follows it; none is part of the specification.                          *)
(***************************************************************************)
EXTENDS Naturals, Sequences, SequencesExt, FiniteSets

CONSTANTS
  Trees,        \* the trees edits start from
  NewNames,     \* the names a new crate may get
  Entries,      \* the dependency entries a developer may add
  SourceTexts,        \* the source files a developer may add
  MaxEdits      \* bound: edits by hand

VARIABLES
  tree,         \* directory |-> its crate
  making,       \* the directory new-crate is filling, or ""
  made,         \* the directories it reported as created
  edits         \* edits so far

treeVars == <<tree, making, made, edits>>

NoManifest == [there |-> FALSE, package |-> "", entries |-> {}]
Manifest(package, entries) == [there |-> TRUE, package |-> package, entries |-> entries]

---------------------------------------------------------------------------
(* The postures.                                                           *)

Binary == "cadmus"
Contract == "cadmus-contract"
Core == "cadmus-core"
Transport == "cadmus-transport"
Ui == "cadmus-ui"
Frontend == "cadmus-tui"
Automation == "xtask"
NamedPostures == {Binary, Contract, Core, Transport, Ui, Frontend, Automation}

\* The internal crates a crate may depend on.
DepsInternal(name, members) ==
  CASE name = Binary -> members
    [] name \in {Contract, Ui, Automation} -> {}
    [] name = Core -> {Contract}
    [] name = Transport -> {Contract, Core}
    [] name = Frontend -> {Contract, Ui}
    [] OTHER -> {Contract}

\* Any other crate is an adapter, which tests against the core's fakes.
DevInternal(name, members) ==
  DepsInternal(name, members) \cup (IF name \in NamedPostures THEN {} ELSE {Core})

IoCrates == {"genai", "reqwest", "rusqlite", "tokio"}
ContractSet == {"async-trait", "insta", "serde", "serde_json", "thiserror", "tokio-stream"}
UiSet == {"insta", "pulldown-cmark", "similar", "syntect", "toml", "two-face",
          "unicode-segmentation", "unicode-width"}

ForeignAllowed(name, dep, dev) ==
  CASE name = Automation -> FALSE
    [] name = Core -> dev \/ dep \notin IoCrates
    [] name = Contract -> dep \in ContractSet
    [] name = Ui -> dep \in UiSet
    [] OTHER -> TRUE

---------------------------------------------------------------------------
(* check_tree.                                                             *)

\* member_crates: a directory with a manifest.
Members(t) == {d \in DOMAIN t : t[d].manifest.there}

FaultOtherTargets(header) ==
  CASE header \in {"dependencies", "build"} -> "deps" [] header = "dev" -> "dev" [] OTHER -> "other"

\* The per-target tables count as the tables they are.
SectionOf(header) ==
  CASE header \in {"dependencies", "build", "target"} -> "deps"
    [] header \in {"dev", "target-dev"} -> "dev"
    [] OTHER -> "other"

EntryFailures(t, d, e) ==
  LET dev == SectionOf(e.header) = "dev"
      allowed == IF dev THEN DevInternal(d, Members(t)) ELSE DepsInternal(d, Members(t))
  IN IF SectionOf(e.header) = "other"
     THEN IF e.header = "odd" THEN {"header"} ELSE {}
     ELSE (IF e.name \in Members(t)
           THEN IF e.name \in allowed THEN {} ELSE {"direction"}
           ELSE IF ForeignAllowed(d, e.name, dev) THEN {} ELSE {"foreign"})
          \cup (IF e.inherits THEN {} ELSE {"version"})

\* check_package_name: the edges go by directory.
NameFailures(d, package) == IF package = d THEN {} ELSE {"package"}

ManifestFailures(t, d) ==
  NameFailures(d, t[d].manifest.package)
    \cup UNION {EntryFailures(t, d, e) : e \in t[d].manifest.entries}

\* check_rs_text: an open derive is followed until its closing line.
DerivesSerde(text) ==
  LET inside[k \in 0..Len(text)] ==
        IF k = 0 THEN FALSE
        ELSE text[k].opens \/ (inside[k - 1] /\ ~text[k - 1].closes)
  IN \E k \in DOMAIN text : inside[k] /\ text[k].names

BoundaryFailures(t, d) ==
  IF d # Contract /\ \E text \in t[d].sources : DerivesSerde(text) THEN {"serde"} ELSE {}

\* check_named_postures: a crate that is pinned by name is there.
Gone(t) == NamedPostures \ Members(t)

FailuresOf(t, d) == ManifestFailures(t, d) \cup BoundaryFailures(t, d)
Passes(t) == Gone(t) = {} /\ \A d \in Members(t) : FailuresOf(t, d) = {}

---------------------------------------------------------------------------
(* new-crate.                                                              *)

TreeInit == tree \in Trees /\ making = "" /\ made = {} /\ edits = 0

\* A directory of that name, whole or not, is refused.
MakeDirectory ==
  /\ making = ""
  /\ \E name \in NewNames \ DOMAIN tree :
       /\ tree' = [d \in DOMAIN tree \cup {name} |->
                     IF d = name THEN [manifest |-> NoManifest, sources |-> {}] ELSE tree[d]]
       /\ making' = name
  /\ UNCHANGED <<made, edits>>

Template(name) == Manifest(name, {})

WriteManifest ==
  /\ making # "" /\ ~tree[making].manifest.there
  /\ tree' = [tree EXCEPT ![making].manifest = Template(making)]
  /\ UNCHANGED <<making, made, edits>>

WriteLibrary ==
  /\ making # "" /\ tree[making].manifest.package = making
  /\ tree' = [tree EXCEPT ![making].sources = {<<>>}]
  /\ made' = made \cup {making} /\ making' = ""
  /\ UNCHANGED edits

\* A write that fails leaves what is there, and an empty file at most.
ScaffoldFails ==
  /\ making # ""
  /\ \/ UNCHANGED tree
     \/ ~tree[making].manifest.there /\ tree' = [tree EXCEPT ![making].manifest = Manifest("", {})]
  /\ making' = ""
  /\ UNCHANGED <<made, edits>>

---------------------------------------------------------------------------
(* External: developers.                                                   *)

Edit(t) == edits < MaxEdits /\ making = "" /\ edits' = edits + 1 /\ tree' = t
           /\ UNCHANGED <<making, made>>

AddEntry ==
  \E d \in Members(tree), e \in Entries :
    Edit([tree EXCEPT ![d].manifest.entries = @ \cup {e}])
AddSource ==
  \E d \in Members(tree), text \in SourceTexts : Edit([tree EXCEPT ![d].sources = @ \cup {text}])
RenamePackage ==
  \E d \in Members(tree), name \in NewNames : Edit([tree EXCEPT ![d].manifest.package = name])
MoveCrate ==
  \E d \in Members(tree), name \in NewNames \ DOMAIN tree :
    Edit([x \in (DOMAIN tree \ {d}) \cup {name} |-> IF x = name THEN tree[d] ELSE tree[x]])

TreeNext ==
  \/ MakeDirectory \/ WriteManifest \/ WriteLibrary \/ ScaffoldFails
  \/ AddEntry \/ AddSource \/ RenamePackage \/ MoveCrate

TreeSpec == TreeInit /\ [][TreeNext]_treeVars

---------------------------------------------------------------------------
(* Properties.                                                             *)

\* As Cargo reads the tree: an edge goes to the package of that name.
Edge(t, a, b) ==
  \E e \in t[a].manifest.entries :
    e.header \notin {"dev", "target-dev"} /\ e.name = t[b].manifest.package

Reach(t, a) ==
  LET more[seen \in SUBSET Members(t)] ==
        LET next == seen \cup {b \in Members(t) : \E x \in seen : Edge(t, x, b)}
        IN IF next = seen THEN seen ELSE more[next]
  IN more[{b \in Members(t) : Edge(t, a, b)}]

Foreign(t, a) == {e.name : e \in {e \in t[a].manifest.entries : e.header \notin {"dev", "target-dev"}}}

\* A tree the architecture test passes is layered in Cargo's own reading of
\* it, whatever was edited: through any chain of dependencies the contract
\* and the design system reach no crate of the workspace, the core only the
\* contract and none of the crates that do IO, the frontend never the core,
\* and no crate an adapter, the binary excepted; no version is written
\* twice, and a serde derive is in the contract.  What new-crate reports as
\* created has nothing the test objects to.
PassingTreesAreLayered ==
  /\ Passes(tree) =>
       /\ \A d \in {Contract, Ui} : Reach(tree, d) = {}
       /\ Reach(tree, Core) \subseteq {Contract}
       /\ \A d \in {Core} \cup Reach(tree, Core) : Foreign(tree, d) \cap IoCrates = {}
       /\ Reach(tree, Frontend) \subseteq {Contract, Ui}
       /\ \A d \in Members(tree) \ {Binary} : Reach(tree, d) \subseteq {Contract, Core, Ui}
       /\ \A d \in Members(tree) : \A e \in tree[d].manifest.entries : e.inherits
       /\ \A d \in Members(tree) \ {Contract} : \A text \in tree[d].sources :
            ~\E j, k \in DOMAIN text :
               /\ text[j].opens /\ j <= k /\ text[k].names
               /\ \A i \in j..(k - 1) : ~text[i].closes
  /\ edits = 0 => \A d \in made : FailuresOf(tree, d) = {}
=============================================================================
