--------------------------- MODULE CellBenchmark ---------------------------
(***************************************************************************)
(* What a resumable benchmark promises: the result of a cell, once it is   *)
(* on disk, stays there; the aggregate is made only of all the results;    *)
(* and it is made in the end, however often the run was interrupted.       *)
(*                                                                         *)
(* Two processes that write the same cell are not part of the promise: from *)
(* the moment a worker has outlived its run, results may be spoilt, though *)
(* even then the aggregate is made in the end, and of all the results.     *)
(***************************************************************************)
CONSTANT Cell

VARIABLES
  persisted,   \* the cells whose result is on disk
  aggregated,  \* the aggregate of all cells was made
  shared       \* a worker has outlived its run

benchmarkVars == <<persisted, aggregated, shared>>

Init ==
  /\ persisted \in SUBSET Cell
  /\ aggregated = FALSE
  /\ shared = FALSE

Persist(c) ==
  /\ c \notin persisted
  /\ persisted' = persisted \cup {c}
  /\ UNCHANGED <<aggregated, shared>>

Aggregate ==
  /\ persisted = Cell
  /\ ~aggregated
  /\ aggregated' = TRUE
  /\ UNCHANGED <<persisted, shared>>

Outlive ==
  /\ shared' = TRUE
  /\ UNCHANGED <<persisted, aggregated>>

Spoil(c) ==
  /\ shared
  /\ persisted' = persisted \ {c}
  /\ UNCHANGED <<aggregated, shared>>

Next == Aggregate \/ Outlive \/ \E c \in Cell : Persist(c) \/ Spoil(c)

Spec == Init /\ [][Next]_benchmarkVars /\ <>aggregated
=============================================================================
