-------------------------- MODULE OfficialEvidence --------------------------
(***************************************************************************)
(* The official evidence of the product (product/official_evidence.py): a  *)
(* directory with one file for each cell of the benchmark, by seed,        *)
(* profile and policy, and the papers of the run; when it is verified, and *)
(* what is worked out from the cells.                                      *)
(*                                                                         *)
(* A tree is [mounted, cells, strays, papers]: cells maps the places that  *)
(* have a file to what it says, strays is the number of files named after  *)
(* a policy elsewhere, papers are the checks the other files pass.  Means  *)
(* and medians are taken of values which are kept here themselves.         *)
(***************************************************************************)
EXTENDS Integers, FiniteSetsExt

CONSTANTS
  Seeds, Profiles, Arms,
  Reference,   \* REFERENCE_POLICY, B0
  NotStored,   \* a cell whose M-10 is null
  Mentions,    \* <<word, place>>: what a row says of its place holds the word
  ResultCap    \* of a page of a search

ASSUME EvidenceAssumption ==
  /\ Seeds \subseteq Nat /\ Seeds # {} /\ Profiles # {} /\ Reference \in Arms
  /\ ResultCap \in Nat
  /\ \A x \in Mentions : x[2] \in Seeds \X Profiles \X Arms

Place  == Seeds \X Profiles \X Arms
Papers == {"frozen_experiment_hash", "config_hash", "validation", "freeze_check", "policy_pack"}

\* verify_evidence.
IsVerified(tree) ==
  /\ tree.mounted
  /\ Cardinality(DOMAIN tree.cells) + tree.strays = Cardinality(Place)
  /\ DOMAIN tree.cells = Place
  /\ tree.papers = Papers

-----------------------------------------------------------------------------
(* M-10 of a cell is paired: what it recovered above the reference of its  *)
(* seed and profile.                                                       *)

\* Mutant of ReferenceNet: the reference of any profile of the seed.
ReferenceNetOfSeed(tree, place) ==
  LET others == {p \in DOMAIN tree.cells : p[1] = place[1] /\ p[3] = Reference}
  IN  IF others = {} THEN 0 ELSE Min({tree.cells[p].net : p \in others})

ReferenceNet(tree, place) ==
  LET other == <<place[1], place[2], Reference>>
  IN  IF other \in DOMAIN tree.cells THEN tree.cells[other].net ELSE 0

M10(cell, reference) ==
  IF cell.stored # NotStored THEN cell.stored ELSE cell.net - reference

-----------------------------------------------------------------------------
(* _build_index: one pass over the cells.                                  *)

M10At(tree, place) == M10(tree.cells[place], ReferenceNet(tree, place))

\* A group of the matrix: the cells of a profile and an arm.
Group(tree, profile, arm) ==
  LET present == {s \in Seeds : <<s, profile, arm>> \in DOMAIN tree.cells}
      valid   == {s \in present : tree.cells[<<s, profile, arm>>].valid}
  IN  [m10    |-> [s \in present |-> M10At(tree, <<s, profile, arm>>)],
       valid  |-> Cardinality(valid),
       status |-> IF valid = Seeds THEN "valid" ELSE "partial"]

Matrix(tree) == [profile \in Profiles |-> [arm \in Arms |-> Group(tree, profile, arm)]]

SearchIndex(tree) ==
  {[place |-> p, cell |-> tree.cells[p].index, m10 |-> M10At(tree, p), valid |-> tree.cells[p].valid,
    net |-> tree.cells[p].net] : p \in DOMAIN tree.cells}

CellsOf(tree, arm)    == {p \in DOMAIN tree.cells : p[3] = arm}
Effort(tree, arm)     == MapThenSumSet(LAMBDA p : tree.cells[p].interventions, CellsOf(tree, arm))
TotalOfNet(tree, arm) == MapThenSumSet(LAMBDA p : tree.cells[p].net, CellsOf(tree, arm))

\* What an arm did, as opposed to what it scored.
BehaviourOf(tree, arm) ==
  [arm          |-> arm,
   cells        |-> Cardinality(CellsOf(tree, arm)),
   withRecovery |-> Cardinality({p \in CellsOf(tree, arm) : tree.cells[p].net # 0}),
   acted        |-> Effort(tree, arm) > 0,
   recovered    |-> TotalOfNet(tree, arm) # 0,
   inVain       |-> Effort(tree, arm) > 0 /\ TotalOfNet(tree, arm) = 0,
   reference    |-> arm = Reference]

Behaviour(tree) == {BehaviourOf(tree, arm) : arm \in {a \in Arms : CellsOf(tree, a) # {}}}

-----------------------------------------------------------------------------
(* What requests get.                                                      *)

\* A token is <<"number", n>>, a seed or the index of a cell, or <<"word", w>>.
Answers(row, token) ==
  IF token[1] = "number" THEN token[2] \in {row.place[1], row.cell}
  ELSE <<token[2], row.place>> \in Mentions

\* search_official_cells_page, of a query that is not empty.  A page has the first
\* ResultCap of the rows; no token but noise finds nothing.
Search(index, tokens) ==
  LET rows == IF tokens = {} THEN {} ELSE {r \in index : \A k \in tokens : Answers(r, k)}
  IN  [rows |-> rows, total |-> Cardinality(rows), truncated |-> Cardinality(rows) > ResultCap]

\* official_cell_detail reads the file of the cell, and that of the reference.
CellPage(tree, place) ==
  IF place \notin Place THEN [status |-> "invalid"]
  ELSE IF place \notin DOMAIN tree.cells THEN [status |-> "not found"]
  ELSE LET cell == tree.cells[place]
       IN  [status |-> "found", m10 |-> M10At(tree, place), reference |-> ReferenceNet(tree, place),
            source |-> IF cell.stored # NotStored THEN "artefact" ELSE "derived",
            valid |-> cell.valid]
=============================================================================
