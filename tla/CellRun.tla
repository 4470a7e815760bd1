------------------------------ MODULE CellRun ------------------------------
(***************************************************************************)
(* The files of a cell benchmark, and what its serial and its parallel     *)
(* runner have in common: benchmark/official/cells/store.py and runner.py  *)
(* up to line 163 and its end.                                             *)
(*                                                                         *)
(* A cell has one result file and one temporary file, whose name depends   *)
(* on the cell alone.  atomic_write_json truncates or creates the          *)
(* temporary file, writes it, closes it, and renames it to the result      *)
(* file.  A process that is between the truncation and the end of the      *)
(* write holds a file that another one may meanwhile have renamed or       *)
(* replaced: its handle stays with the file and not with the name.         *)
(*                                                                         *)
(* The manifest is written by one process at a time and in the same way,   *)
(* so it changes in one step, the rename.                                  *)
(*                                                                         *)
(* A run plans all the cells, or is limited to the first of them           *)
(* (max_cells, stop_after_cell).  Whenever it writes the manifest it first *)
(* counts the valid results on disk, and then writes; processes that run   *)
(* cells go on in between.                                                 *)
(***************************************************************************)
EXTENDS Integers, FiniteSets

CONSTANTS
  Cell,
  Proc,             \* the processes that run cells
  Main,             \* the process of a run that uses no pool
  PlanOrder,        \* the place of each cell in plan_benchmark_cells
  Limits,           \* what a limited run may plan
  MaxInterruptions  \* bound on limited runs, kills and failures

ASSUME CellRunAssumption ==
  /\ IsFiniteSet(Cell)
  /\ Main \in Proc
  /\ PlanOrder \in [Cell -> Nat]
  /\ \A c, d \in Cell : PlanOrder[c] = PlanOrder[d] => c = d
  /\ Limits \subseteq SUBSET Cell
  /\ MaxInterruptions \in Nat

Content == {"absent", "empty", "broken", "foreign", "whole"}
Handle  == {"none", "temporary", "result", "unlinked", "written"}

\* No manifest, or one that cannot be read.
NoManifest == -1

VARIABLES
  file,      \* the result file of a cell; foreign is one of another configuration
  temporary, \* its temporary file
  todo,      \* the cells a process has yet to go through, in the order of the plan
  handle,    \* what a process is writing to; written when it has closed it
  manifest   \* cells_completed of the manifest

fileVars == <<file, temporary, todo, handle, manifest>>

FilesTypeOK ==
  /\ file      \in [Cell -> Content]
  /\ temporary \in [Cell -> Content]
  /\ todo      \in [Proc -> SUBSET Cell]
  /\ handle    \in [Proc -> Handle]
  /\ manifest  \in (0 .. Cardinality(Cell)) \cup {NoManifest}

\* What an earlier run, of this or another configuration, may have left.
FilesInit ==
  /\ file \in [Cell -> {"absent", "foreign", "whole"}]
  /\ temporary = [c \in Cell |-> "absent"]
  /\ todo = [p \in Proc |-> {}]
  /\ handle = [p \in Proc |-> "none"]
  /\ manifest \in {NoManifest, 0, Cardinality(Cell)}

\* is_cell_valid: the file parses, has the checksum of its metrics and the
\* versions of this configuration.
IsValid(c) == file[c] = "whole"
Valid(S)   == {c \in S : IsValid(c)}

-----------------------------------------------------------------------------
Working(p)    == todo[p] # {}
CurrentOf(p)  == CHOOSE c \in todo[p] : \A d \in todo[p] : PlanOrder[c] <= PlanOrder[d]
AtCell(p, c)  == Working(p) /\ CurrentOf(p) = c

\* Mutant of Skip: a cell that has a result file is skipped.
SkipPresent(p) ==
  /\ Working(p) /\ handle[p] = "none"
  /\ file[CurrentOf(p)] # "absent"
  /\ todo' = [todo EXCEPT ![p] = @ \ {CurrentOf(p)}]
  /\ UNCHANGED <<file, temporary, handle, manifest>>

\* A cell that has a valid result is skipped.
Skip(p) ==
  /\ Working(p) /\ handle[p] = "none"
  /\ IsValid(CurrentOf(p))
  /\ todo' = [todo EXCEPT ![p] = @ \ {CurrentOf(p)}]
  /\ UNCHANGED <<file, temporary, handle, manifest>>

\* Mutant of Open: the result file itself is opened for writing.
OpenInPlace(p) ==
  /\ Working(p) /\ handle[p] = "none"
  /\ ~IsValid(CurrentOf(p))
  /\ file' = [file EXCEPT ![CurrentOf(p)] = "empty"]
  /\ handle' = [handle EXCEPT ![p] = "result"]
  /\ UNCHANGED <<temporary, todo, manifest>>

\* The result has been computed and the temporary file opened for writing.
Open(p) ==
  /\ Working(p) /\ handle[p] = "none"
  /\ ~IsValid(CurrentOf(p))
  /\ temporary' = [temporary EXCEPT ![CurrentOf(p)] = "empty"]
  /\ handle' = [handle EXCEPT ![p] = "temporary"]
  /\ UNCHANGED <<file, todo, manifest>>

\* Two results of a cell differ in their telemetry, so in their length: one
\* written over the other may leave a tail of it behind.
Over(content) == IF content = "empty" THEN {"whole"} ELSE {"whole", "broken"}

Write(p) ==
  /\ handle[p] \in {"temporary", "result", "unlinked"}
  /\ handle' = [handle EXCEPT ![p] = "written"]
  /\ IF handle[p] = "temporary"
     THEN \E new \in Over(temporary[CurrentOf(p)]) :
            temporary' = [temporary EXCEPT ![CurrentOf(p)] = new]
     ELSE UNCHANGED temporary
  /\ IF handle[p] = "result"
     THEN \E new \in Over(file[CurrentOf(p)]) : file' = [file EXCEPT ![CurrentOf(p)] = new]
     ELSE UNCHANGED file
  /\ UNCHANGED <<todo, manifest>>

\* Handles on the temporary file of c follow it to the name of the result
\* file, and those on the result file lose it.
Redirected(p, c) ==
  [q \in Proc |->
     IF q = p THEN "none"
     ELSE IF AtCell(q, c) /\ handle[q] = "temporary" THEN "result"
     ELSE IF AtCell(q, c) /\ handle[q] = "result" THEN "unlinked"
     ELSE handle[q]]

\* The temporary file is renamed, whatever is in it.
Replace(p) ==
  /\ handle[p] = "written"
  /\ LET c == CurrentOf(p)
     IN  /\ temporary[c] # "absent"
         /\ file' = [file EXCEPT ![c] = temporary[c]]
         /\ temporary' = [temporary EXCEPT ![c] = "absent"]
         /\ handle' = Redirected(p, c)
  /\ todo' = [todo EXCEPT ![p] = @ \ {CurrentOf(p)}]
  /\ UNCHANGED manifest

\* The temporary file is gone: the rename raises.
CannotReplace(p) == handle[p] = "written" /\ temporary[CurrentOf(p)] = "absent"

-----------------------------------------------------------------------------
Phase == {"down", "starting", "running", "syncing", "failing", "closing", "aggregating", "done"}

NotCounted == -1

VARIABLES
  phase,          \* where the parent process is; down when there is none
  pooled,         \* this run has several workers
  planned,        \* the cells of this run
  counted,        \* the number of valid results it has just counted
  interruptions,
  outlived        \* history: a worker has outlived its run

runVars == <<phase, pooled, planned, counted, interruptions, outlived>>

RunTypeOK ==
  /\ FilesTypeOK
  /\ phase \in Phase
  /\ pooled \in BOOLEAN
  /\ planned \in SUBSET Cell
  /\ counted \in (0 .. Cardinality(Cell)) \cup {NotCounted}
  /\ interruptions \in 0 .. MaxInterruptions
  /\ outlived \in BOOLEAN

RunInit ==
  /\ FilesInit
  /\ phase = "down"
  /\ pooled = FALSE
  /\ planned = {}
  /\ counted = NotCounted
  /\ interruptions = 0
  /\ outlived = FALSE

Interrupted ==
  /\ interruptions < MaxInterruptions
  /\ interruptions' = interruptions + 1

\* A run is started, with one worker or with several, whichever the last one
\* had.  The manifest found there is of this configuration.
Start ==
  /\ phase = "down"
  /\ phase' = "starting"
  /\ pooled' \in BOOLEAN
  /\ planned' = Cell
  /\ UNCHANGED <<fileVars, counted, interruptions, outlived>>

StartLimited(limit) ==
  /\ phase = "down"
  /\ Interrupted
  /\ phase' = "starting"
  /\ pooled' \in BOOLEAN
  /\ planned' = limit
  /\ UNCHANGED <<fileVars, counted, outlived>>

\* Mutant of CountValid: the cells the run is through with are not looked at.
CountPlanned ==
  /\ phase \in {"starting", "syncing", "closing"}
  /\ counted = NotCounted
  /\ counted' = Cardinality(planned)
  /\ UNCHANGED <<fileVars, phase, pooled, planned, interruptions, outlived>>

\* count_valid_cells, the first half of writing the manifest.
CountValid ==
  /\ phase \in {"starting", "syncing", "closing"}
  /\ counted = NotCounted
  /\ counted' = Cardinality(Valid(planned))
  /\ UNCHANGED <<fileVars, phase, pooled, planned, interruptions, outlived>>

\* write_checkpoint, the second half.
PublishCount ==
  /\ counted # NotCounted
  /\ manifest' = counted
  /\ counted' = NotCounted
  /\ UNCHANGED <<file, temporary, handle, pooled, planned, interruptions, outlived>>

\* Mutant of Aggregate: a limited run is taken for a complete one.
AggregateLimited ==
  /\ phase = "aggregating"
  /\ phase' = IF Valid(planned) = planned THEN "done" ELSE "down"
  /\ UNCHANGED <<fileVars, pooled, planned, counted, interruptions, outlived>>

\* aggregate_from_store.  With a result missing it raises, unless the run is a
\* limited one, whose partial aggregate does not count here.
Aggregate ==
  /\ phase = "aggregating"
  /\ phase' = IF planned = Cell /\ Valid(Cell) = Cell THEN "done" ELSE "down"
  /\ UNCHANGED <<fileVars, pooled, planned, counted, interruptions, outlived>>

-----------------------------------------------------------------------------
(* A run that is killed, at whatever point, leaves no partial result file  *)
(* under the name of a result (atomic_write_json, cells/store.py:36-41), as *)
(* long as no worker has outlived its run: the temporary file has the same *)
(* name in every process.                                                  *)
ResultsAreComplete ==
  ~outlived => \A c \in Cell : file[c] \notin {"empty", "broken"}

(* Once a run has written the manifest, the manifest never claims more     *)
(* cells than have a valid result, though it is written after the count    *)
(* and by another process than the results (cells/store.py:98-111).        *)
ManifestNotAhead ==
  ~outlived /\ phase \notin {"down", "starting"} => manifest <= Cardinality(Valid(Cell))

(* The benchmark keeps the promise of CellBenchmark, through kills,        *)
(* limited runs and changes of the number of workers, when someone starts  *)
(* it again until it is done.                                              *)
Benchmark == INSTANCE CellBenchmark WITH
               persisted  <- Valid(Cell),
               aggregated <- phase = "done",
               shared     <- outlived

KeepsPromise == Benchmark!Spec
=============================================================================
