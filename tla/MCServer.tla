------------------------------ MODULE MCServer ------------------------------
(* An instance of EvidenceServer for TLC: a benchmark of two seeds, two    *)
(* profiles and two arms, in three trees.                                  *)
EXTENDS EvidenceServer, TLC

CONSTANTS complete, partial, missing, unheard, expired, offline, fact1, fact2

Cell(n, net, stored) ==
  [index |-> n, net |-> net, stored |-> stored, valid |-> n # 7,
   interventions |-> IF net = 1 THEN 0 ELSE n]

Index(p) == 4 * p[1] + (IF p[2] = "SCARCE" THEN 2 ELSE 0) + IF p[3] = "B0" THEN 1 ELSE 0

\* The reference nets 1 where it is scarce and 4 elsewhere; a cell has its M-10 stored.
Net(p) == IF p[3] = "B0" THEN IF p[2] = "SCARCE" THEN 1 ELSE 4 ELSE 6 * p[1]

Cells == [p \in Place |-> Cell(Index(p), Net(p), IF Index(p) = 4 THEN 2 ELSE NotStored)]

Complete == [mounted |-> TRUE, cells |-> Cells, strays |-> 0, papers |-> Papers]
Partial  == [Complete EXCEPT !.cells = [p \in {x \in Place : x[1] = 0} |-> Cells[p]], !.strays = 4]
Missing  == [mounted |-> FALSE, cells |-> <<>>, strays |-> 0, papers |-> {}]

\* A thread is as good as another.
Threads == Permutations(Thread)

MCContents == [t \in Tree |-> CASE t = complete -> Complete [] t = partial -> Partial [] t = missing -> Missing]
MCMentions == {x \in {"REVIVE", "SCARCE"} \X Place : x[1] \in {x[2][2], x[2][3]}}

One    == <<"number", 1>>
Scarce == <<"word", "SCARCE">>
MCQueries == {{}, {One}, {Scarce}, {One, Scarce}, {<<"number", 6>>, Scarce, <<"word", "REVIVE">>}}

\* Opportunities that the engine has diagnosed, and one whose cause it does not know.
MCTraceOf ==
  [w \in World |->
    [id         |-> w,
     causes     |-> IF w = 1 THEN <<>> ELSE <<expired, offline>>,
     candidates |-> <<"A00", "A03", "A08">>,
     evidence   |-> IF w = 1 THEN <<>> ELSE <<fact1, fact2>>,
     context    |-> IF w = 2 THEN {} ELSE {fact1}]]

Proposed(object, action, reasoned) == [object |-> object, action |-> action, reasoned |-> reasoned]

\* An answer about w that observes a fact, one that may be there and none.
Answer(w) ==
  [id |-> w, cause |-> offline, inRange |-> TRUE,
   candidates |-> <<Proposed(FALSE, "none", FALSE), Proposed(TRUE, "A08", TRUE)>>,
   observed |-> <<{fact1}, {fact2}, {}>>, notes |-> <<{fact2}>>]

MCReplies ==
  {[kind |-> "failed"], [kind |-> "refused"], [kind |-> "broken"]}
    \cup {[kind |-> "answer", payload |-> p] :
            p \in UNION {{Answer(w),
                          [Answer(w) EXCEPT !.cause = unheard],
                          [Answer(w) EXCEPT !.inRange = FALSE],
                          [Answer(w) EXCEPT !.candidates = <<Proposed(TRUE, "A99", TRUE)>>],
                          [Answer(w) EXCEPT !.candidates = <<Proposed(TRUE, "A03", FALSE)>>]} :
                         w \in World}}
=============================================================================
