---------------------------- MODULE CellRunner ----------------------------
(***************************************************************************)
(* run_cell_benchmark, benchmark/official/cells/runner.py: a benchmark that *)
(* is started, killed and started again, each time with one worker or with *)
(* several.                                                                *)
(*                                                                         *)
(* With several workers (cells/parallel.py, cells/parallel_worker.py) the  *)
(* parent submits the groups that lack a result to a process pool, takes   *)
(* the finished ones in any order, checks the files of each and writes the *)
(* manifest.  A worker goes through the cells of its group.  When a group  *)
(* raises, the parent waits for all the others before it raises itself,    *)
(* without another look at their files.                                    *)
(*                                                                         *)
(* A parent that is killed may leave workers behind: an orphan goes on to  *)
(* the end of its group, beside the workers of the next run.               *)
(***************************************************************************)
EXTENDS CellRun

CONSTANTS
  Group,      \* a world: a seed and a profile
  NoGroup,
  GroupOf     \* the group of each cell

ASSUME ParallelRunnerAssumption ==
  /\ NoGroup \notin Group
  /\ GroupOf \in [Cell -> Group]

VARIABLES
  queue,    \* groups submitted that no worker has taken
  job,      \* the group of each worker
  orphans,  \* workers whose parent is gone
  ended     \* how a group ended: its future, until as_completed has yielded it

poolVars == <<queue, job, orphans, ended>>

Pool == Proc \ {Main}

PoolTypeOK ==
  /\ queue \in SUBSET Group
  /\ job \in [Proc -> Group \cup {NoGroup}]
  /\ orphans \in SUBSET Pool
  /\ ended \in [Group -> {"no", "returned", "raised"}]

PoolInit ==
  /\ queue = {}
  /\ job = [p \in Proc |-> NoGroup]
  /\ orphans = {}
  /\ ended = [g \in Group |-> "no"]

PlannedOf(g)  == {c \in planned : GroupOf[c] = g}
Persisted(g)  == \A c \in PlannedOf(g) : IsValid(c)
Idle(p)       == job[p] = NoGroup
PoolIsEmpty   == queue = {} /\ \A p \in Pool \ orphans : Idle(p)

-----------------------------------------------------------------------------
(* The workers.                                                            *)

Take(p) ==
  /\ pooled /\ phase \in {"running", "syncing", "failing"}
  /\ Idle(p)
  /\ \E g \in queue :
       /\ queue' = queue \ {g}
       /\ job' = [job EXCEPT ![p] = g]
       /\ todo' = [todo EXCEPT ![p] = PlannedOf(g)]
  /\ UNCHANGED <<file, temporary, handle, manifest, runVars, orphans, ended>>

RunCell(p) ==
  /\ Skip(p) \/ Open(p) \/ Write(p) \/ Replace(p)
  /\ UNCHANGED <<runVars, poolVars>>

\* The worker is through with its group.  The result of an orphan is lost.
Leave(p, how) ==
  /\ job' = [job EXCEPT ![p] = NoGroup]
  /\ orphans' = orphans \ {p}
  /\ ended' = IF p \in orphans THEN ended ELSE [ended EXCEPT ![job[p]] = how]
  /\ todo' = [todo EXCEPT ![p] = {}]
  /\ handle' = [handle EXCEPT ![p] = "none"]
  /\ UNCHANGED <<file, temporary, manifest, phase, pooled, planned, counted, outlived, queue>>

Return(p) ==
  /\ ~Idle(p) /\ ~Working(p)
  /\ Leave(p, "returned")
  /\ UNCHANGED interruptions

\* The temporary file has gone.
RaiseAtReplace(p) ==
  /\ CannotReplace(p)
  /\ Leave(p, "raised")
  /\ UNCHANGED interruptions

\* The computation of a cell raises.
RaiseInCell(p) ==
  /\ Working(p) /\ handle[p] = "none" /\ ~IsValid(CurrentOf(p))
  /\ Interrupted
  /\ Leave(p, "raised")

Worker(p) == Take(p) \/ RunCell(p) \/ Return(p) \/ RaiseAtReplace(p)

-----------------------------------------------------------------------------
(* The parent.                                                             *)

\* The manifest is written; the first time, the groups are submitted next.
WriteManifest ==
  /\ pooled
  /\ PublishCount
  /\ phase' = IF phase = "closing" THEN "aggregating" ELSE "running"
  /\ queue' = IF phase = "starting" THEN {g \in Group : ~Persisted(g)} ELSE queue
  /\ UNCHANGED <<todo, job, orphans, ended>>

\* as_completed yields a group, and verify_group_persisted looks at its files.
Collect(g) ==
  /\ pooled /\ phase = "running"
  /\ ended[g] # "no"
  /\ ended' = [ended EXCEPT ![g] = "no"]
  /\ phase' = IF ended[g] = "returned" /\ Persisted(g) THEN "syncing" ELSE "failing"
  /\ UNCHANGED <<fileVars, pooled, planned, counted, interruptions, outlived, queue, job, orphans>>

\* Every group was collected.
Close ==
  /\ pooled /\ phase = "running" /\ PoolIsEmpty
  /\ \A g \in Group : ended[g] = "no"
  /\ phase' = "closing"
  /\ UNCHANGED <<fileVars, pooled, planned, counted, interruptions, outlived, poolVars>>

\* The pool has been shut down and the exception leaves the parent.
Fail ==
  /\ pooled /\ phase = "failing" /\ PoolIsEmpty
  /\ phase' = "down"
  /\ ended' = [g \in Group |-> "no"]
  /\ UNCHANGED <<fileVars, pooled, planned, counted, interruptions, outlived, queue, job, orphans>>

\* The parent is killed, or a worker is, which breaks the pool, or a cell of a
\* run without a pool raises.  The workers in left go on.
Interrupt(left) ==
  /\ phase \notin {"down", "done"}
  /\ \A p \in left : ~Idle(p)
  /\ Interrupted
  /\ phase' = "down"
  /\ counted' = NotCounted
  /\ queue' = {}
  /\ ended' = [g \in Group |-> "no"]
  /\ orphans' = orphans \cup left
  /\ outlived' = (outlived \/ left # {})
  /\ job'    = [p \in Proc |-> IF p \in orphans' THEN job[p] ELSE NoGroup]
  /\ todo'   = [p \in Proc |-> IF p \in orphans' THEN todo[p] ELSE {}]
  /\ handle' = [p \in Proc |-> IF p \in orphans' THEN handle[p] ELSE "none"]
  /\ UNCHANGED <<file, temporary, manifest, pooled, planned>>

Parent == WriteManifest \/ Close \/ Fail \/ \E g \in Group : Collect(g)

-----------------------------------------------------------------------------
(* With one worker (runner.py:226-331): one process goes through the       *)
(* planned cells in order, writes the result of each that has none, and    *)
(* then the manifest.                                                      *)

\* The manifest is written: at the start, and after each result.
WriteManifestAlone ==
  /\ ~pooled
  /\ PublishCount
  /\ phase' = "running"
  /\ todo' = IF phase = "starting" THEN [todo EXCEPT ![Main] = planned] ELSE todo

RunAlone ==
  /\ ~pooled /\ phase = "running"
  /\ \/ (Skip(Main) \/ Open(Main) \/ Write(Main)) /\ UNCHANGED phase
     \/ Replace(Main) /\ phase' = "syncing"
  /\ UNCHANGED <<pooled, planned, counted, interruptions, outlived>>

\* The temporary file has gone with the rename of another process.
RaiseAlone ==
  /\ ~pooled /\ CannotReplace(Main)
  /\ phase' = "down"
  /\ todo' = [todo EXCEPT ![Main] = {}]
  /\ handle' = [handle EXCEPT ![Main] = "none"]
  /\ UNCHANGED <<file, temporary, manifest, pooled, planned, counted, interruptions, outlived>>

Exhausted ==
  /\ ~pooled /\ phase = "running" /\ ~Working(Main)
  /\ phase' = "aggregating"
  /\ UNCHANGED <<fileVars, pooled, planned, counted, interruptions, outlived>>

Alone == WriteManifestAlone \/ RunAlone \/ RaiseAlone \/ Exhausted

-----------------------------------------------------------------------------
vars == <<fileVars, runVars, poolVars>>

TypeOK == RunTypeOK /\ PoolTypeOK

Init == RunInit /\ PoolInit

\* What the process of the run does.
Proceed ==
  \/ (Start \/ CountValid \/ Alone \/ Aggregate) /\ UNCHANGED poolVars
  \/ Parent

Next ==
  \/ Proceed
  \/ \E p \in Pool : Worker(p) \/ RaiseInCell(p)
  \/ \E left \in SUBSET Pool : Interrupt(left)
  \/ \E limit \in Limits : StartLimited(limit) /\ UNCHANGED poolVars

\* Every process is scheduled, and a run that went down is started again.
Spec ==
  Init /\ [][Next]_vars /\ WF_vars(Proceed) /\ \A p \in Pool : WF_vars(Worker(p))

-----------------------------------------------------------------------------
(* A worker that returns has left a valid result for every planned cell of *)
(* its group, so that the check the parent makes of its files can only     *)
(* fail when something else has touched them (parallel_worker.py:193-204,  *)
(* parallel.py:42-55).                                                     *)
ReturnIsPersisted ==
  ~outlived => \A g \in Group : ended[g] = "returned" => Persisted(g)
=============================================================================
