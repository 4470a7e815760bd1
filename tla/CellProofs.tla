----------------------------- MODULE CellProofs -----------------------------
(***************************************************************************)
(* Theorems about CellRunner, for every value of its constants.            *)
(***************************************************************************)
EXTENDS CellRunner, Sums

USE CellRunAssumption, ParallelRunnerAssumption

-----------------------------------------------------------------------------
(* Type correctness, and where the handles are.                            *)

LEMMA CurrentIsNext ==
  ASSUME NEW p \in Proc, todo[p] \in SUBSET Cell, Working(p)
  PROVE  CurrentOf(p) \in todo[p] /\ CurrentOf(p) \in Cell
<1> DEFINE places == {PlanOrder[c] : c \in todo[p]}
<1>1. places \in SUBSET Nat /\ places # {}
  BY DEF Working
<1>2. PICK n \in places : \A m \in places : n <= m
  BY <1>1, LeastNumber
<1>3. \E c \in todo[p] : \A d \in todo[p] : PlanOrder[c] <= PlanOrder[d]
  BY <1>2
<1> QED BY <1>3 DEF CurrentOf

LEMMA ValidIsCounted ==
  ASSUME NEW S \in SUBSET Cell
  PROVE  /\ Cardinality(Valid(S)) \in 0 .. Cardinality(Cell)
         /\ Cardinality(Valid(S)) <= Cardinality(Valid(Cell))
         /\ \A m \in Int : m <= Cardinality(Valid(Cell)) /\ (\A c \in Cell : IsValid(c) => IsValid(c)')
                             => m <= Cardinality(Valid(Cell)')
<1>1. Valid(S) \subseteq Valid(Cell) /\ Valid(Cell) \subseteq Cell /\ Valid(Cell)' \subseteq Cell
  BY DEF Valid
<1>2. IsFiniteSet(Valid(Cell)) /\ IsFiniteSet(Valid(S)) /\ IsFiniteSet(Valid(Cell)')
  BY <1>1, FS_Subset
<1>3. /\ Cardinality(Valid(S)) \in Nat /\ Cardinality(Valid(Cell)) \in Nat /\ Cardinality(Cell) \in Nat
      /\ Cardinality(Valid(Cell)') \in Nat
      /\ Cardinality(Valid(S)) <= Cardinality(Valid(Cell)) /\ Cardinality(Valid(Cell)) <= Cardinality(Cell)
  BY <1>1, <1>2, FS_Subset, FS_CardinalityType
<1>4. (\A c \in Cell : IsValid(c) => IsValid(c)') => Cardinality(Valid(Cell)) <= Cardinality(Valid(Cell)')
  BY <1>2, FS_Subset DEF Valid
<1> QED BY <1>3, <1>4

\* Where the process of the run is when it works on a cell or has counted.
MainInv ==
  /\ TypeOK
  /\ \A p \in Proc : handle[p] # "none" => Working(p)
  /\ \A p \in Pool : Working(p) => ~Idle(p)
  /\ Working(Main) => ~pooled /\ phase \in {"running", "syncing"}
  /\ handle[Main] # "none" => phase = "running"
  /\ counted # NotCounted => phase \in {"starting", "syncing", "closing"}
  /\ phase = "closing" => pooled

\* What the steps of a process that runs cells do.
CellStep(p) == Skip(p) \/ Open(p) \/ Write(p) \/ Replace(p)

LEMMA CellStepType ==
  ASSUME MainInv, NEW p \in Proc, CellStep(p)
  PROVE  /\ FilesTypeOK'
         /\ Working(p) /\ CurrentOf(p) \in todo[p] /\ CurrentOf(p) \in Cell
         /\ manifest' = manifest
         /\ \A c \in Cell \ {CurrentOf(p)} : file'[c] = file[c] /\ temporary'[c] = temporary[c]
         /\ \A q \in Proc \ {p} : todo'[q] = todo[q]
         /\ \A q \in Proc \ {p} : handle[q] = "none" <=> handle'[q] = "none"
         /\ todo'[p] \in {todo[p], todo[p] \ {CurrentOf(p)}}
         /\ handle'[p] # "none" => todo'[p] = todo[p]
<1> USE DEF MainInv, TypeOK, RunTypeOK, FilesTypeOK
<1>1. todo[p] \in SUBSET Cell
  OBVIOUS
<1>2. Working(p)
  BY DEF CellStep, Skip, Open, Write, Replace
<1>3. CurrentOf(p) \in todo[p] /\ CurrentOf(p) \in Cell
  BY <1>1, <1>2, CurrentIsNext
<1> DEFINE c == CurrentOf(p)
<1> HIDE DEF c
<1>4. c \in todo[p] /\ c \in Cell
  BY <1>3 DEF c
<1>5. CASE Skip(p)
  <2>1. todo' = [todo EXCEPT ![p] = @ \ {c}] /\ UNCHANGED <<file, temporary, handle, manifest>> /\ handle[p] = "none"
    BY <1>5 DEF Skip, c
  <2> QED BY <1>2, <1>4, <2>1 DEF c
<1>6. CASE Open(p)
  <2>1. /\ temporary' = [temporary EXCEPT ![c] = "empty"] /\ handle' = [handle EXCEPT ![p] = "temporary"]
        /\ UNCHANGED <<file, todo, manifest>>
    BY <1>6 DEF Open, c
  <2> QED BY <1>2, <1>4, <2>1 DEF c, Content, Handle
<1>7. CASE Write(p)
  <2>1. PICK new1 \in Content, new2 \in Content :
          /\ temporary' = [temporary EXCEPT ![c] = new1]
          /\ file' = [file EXCEPT ![c] = new2]
    <3>1. \A content : Over(content) \subseteq Content
      BY DEF Over, Content
    <3>2. \E new1 \in Content : temporary' = [temporary EXCEPT ![c] = new1]
      BY <1>4, <1>7, <3>1 DEF Write, c
    <3>3. \E new2 \in Content : file' = [file EXCEPT ![c] = new2]
      BY <1>4, <1>7, <3>1 DEF Write, c
    <3> QED BY <3>2, <3>3
  <2>2. handle' = [handle EXCEPT ![p] = "written"] /\ UNCHANGED <<todo, manifest>>
    BY <1>7 DEF Write
  <2> QED BY <1>2, <1>4, <2>1, <2>2 DEF c, Handle
<1>8. CASE Replace(p)
  <2>1. /\ file' = [file EXCEPT ![c] = temporary[c]]
        /\ temporary' = [temporary EXCEPT ![c] = "absent"]
        /\ handle' = Redirected(p, c)
        /\ todo' = [todo EXCEPT ![p] = @ \ {c}] /\ manifest' = manifest
    BY <1>8 DEF Replace, c
  <2>2. /\ handle' \in [Proc -> Handle] /\ handle'[p] = "none"
        /\ \A q \in Proc \ {p} : handle[q] = "none" <=> handle'[q] = "none"
    BY <2>1 DEF Redirected, Handle
  <2> QED BY <1>2, <1>4, <2>1, <2>2 DEF c, Content
<1> QED BY <1>5, <1>6, <1>7, <1>8 DEF CellStep

LEMMA CellStepKeepsMain ==
  ASSUME MainInv, NEW p \in Proc, CellStep(p)
  PROVE  /\ \A q \in Proc : handle'[q] # "none" => Working(q)'
         /\ \A q \in Proc : Working(q)' => Working(q)
         /\ handle'[Main] # "none" => handle[Main] # "none" \/ p = Main
<1>1. /\ \A q \in Proc \ {p} : todo'[q] = todo[q] /\ (handle[q] = "none" <=> handle'[q] = "none")
      /\ handle'[p] # "none" => todo'[p] = todo[p]
      /\ Working(p)
  BY CellStepType
<1> QED BY <1>1 DEF MainInv, Working

LEMMA MainStep ==
  ASSUME MainInv, [Next]_vars
  PROVE  MainInv'
<1> USE DEF MainInv, TypeOK, RunTypeOK, PoolTypeOK, Phase, Idle
<1>1. CASE UNCHANGED vars
  BY <1>1 DEF vars, fileVars, runVars, poolVars, FilesTypeOK, Working
<1>2. CASE Start /\ UNCHANGED poolVars
  BY <1>2 DEF Start, fileVars, poolVars, FilesTypeOK, Working
<1>3. ASSUME NEW limit \in Limits, StartLimited(limit), UNCHANGED poolVars
      PROVE  MainInv'
  BY <1>3 DEF StartLimited, Interrupted, fileVars, poolVars, FilesTypeOK, Working
<1>4. CASE CountValid /\ UNCHANGED poolVars
  BY <1>4, ValidIsCounted DEF CountValid, fileVars, poolVars, FilesTypeOK, Working
<1>5. CASE Aggregate /\ UNCHANGED poolVars
  BY <1>5 DEF Aggregate, fileVars, poolVars, FilesTypeOK, Working
<1>6. CASE WriteManifestAlone /\ UNCHANGED poolVars
  <2>1. FilesTypeOK' /\ \A q \in Proc \ {Main} : todo'[q] = todo[q]
    BY <1>6 DEF WriteManifestAlone, PublishCount, FilesTypeOK, NotCounted
  <2>2. \A q \in Proc : Working(q) => Working(q)'
    BY <1>6, <2>1 DEF WriteManifestAlone, PublishCount, Working, FilesTypeOK
  <2>3. \A q \in Pool : Working(q)' => Working(q)
    BY <2>1 DEF Pool, Working
  <2>4. handle' = handle /\ phase' = "running" /\ counted' = NotCounted /\ ~pooled
        /\ phase \in {"starting", "syncing"} /\ UNCHANGED <<poolVars, pooled, planned, interruptions, outlived>>
    BY <1>6 DEF WriteManifestAlone, PublishCount
  <2> QED BY <2>1, <2>2, <2>3, <2>4 DEF poolVars
<1>7. CASE RunAlone /\ UNCHANGED poolVars
  <2>1. CellStep(Main) /\ ~pooled /\ phase = "running"
        /\ phase' \in {"running", "syncing"} /\ (phase' = "syncing" => handle'[Main] = "none")
        /\ UNCHANGED <<pooled, planned, counted, interruptions, outlived>>
    BY <1>7 DEF RunAlone, CellStep, Replace, Redirected
  <2>2. FilesTypeOK'
    BY <2>1, CellStepType
  <2>3. \A q \in Proc : (handle'[q] # "none" => Working(q)') /\ (Working(q)' => Working(q))
    BY <2>1, CellStepKeepsMain
  <2> QED BY <1>7, <2>1, <2>2, <2>3 DEF poolVars, Pool
<1>8. CASE RaiseAlone /\ UNCHANGED poolVars
  BY <1>8 DEF RaiseAlone, CannotReplace, poolVars, FilesTypeOK, Working, Handle
<1>9. CASE Exhausted /\ UNCHANGED poolVars
  BY <1>9 DEF Exhausted, fileVars, poolVars, FilesTypeOK, Working
<1>10. CASE WriteManifest
  BY <1>10 DEF WriteManifest, PublishCount, FilesTypeOK, Working, NotCounted
<1>11. CASE Close \/ Fail
  BY <1>11 DEF Close, Fail, fileVars, poolVars, FilesTypeOK, Working
<1>12. ASSUME NEW g \in Group, Collect(g)
       PROVE  MainInv'
  BY <1>12 DEF Collect, fileVars, FilesTypeOK, Working
<1>13. ASSUME NEW p \in Pool, Take(p)
       PROVE  MainInv'
  <2>1. PICK g \in queue : /\ queue' = queue \ {g} /\ job' = [job EXCEPT ![p] = g]
                           /\ todo' = [todo EXCEPT ![p] = PlannedOf(g)]
                           /\ UNCHANGED <<file, temporary, handle, manifest, runVars, orphans, ended>>
    BY <1>13 DEF Take
  <2>2. PlannedOf(g) \in SUBSET Cell /\ p \in Proc /\ p # Main
    BY DEF PlannedOf, Pool
  <2>3. todo' \in [Proc -> SUBSET Cell] /\ \A q \in Proc \ {p} : todo'[q] = todo[q]
    BY <2>1, <2>2 DEF FilesTypeOK
  <2>4. handle[p] = "none"
    BY <1>13, <2>2 DEF Take
  <2>5. \A q \in Proc : handle'[q] # "none" => Working(q)'
    BY <2>1, <2>2, <2>3, <2>4 DEF FilesTypeOK, Working
  <2> QED BY <2>1, <2>2, <2>3, <2>5 DEF FilesTypeOK, Working, runVars
<1>14. ASSUME NEW p \in Pool, RunCell(p)
       PROVE  MainInv'
  <2>1. CellStep(p) /\ UNCHANGED <<runVars, poolVars>> /\ p \in Proc /\ p # Main
    BY <1>14 DEF RunCell, CellStep, Pool
  <2>2. FilesTypeOK'
    BY <2>1, CellStepType
  <2>3. /\ \A q \in Proc : handle'[q] # "none" => Working(q)'
        /\ \A q \in Proc : Working(q)' => Working(q)
        /\ handle'[Main] # "none" => handle[Main] # "none"
    BY <2>1, CellStepKeepsMain
  <2> QED BY <2>1, <2>2, <2>3 DEF runVars, poolVars, Pool
<1>15. ASSUME NEW p \in Pool, NEW how \in {"returned", "raised"}, Leave(p, how), interruptions' \in 0 .. MaxInterruptions
       PROVE  MainInv'
  <2>1. p \in Proc /\ p # Main
    BY DEF Pool
  <2>2. FilesTypeOK' /\ \A q \in Proc : handle'[q] # "none" => Working(q)'
    BY <1>15, <2>1 DEF Leave, FilesTypeOK, Working, Handle
  <2>3. todo'[Main] = todo[Main] /\ handle'[Main] = handle[Main]
    BY <1>15, <2>1 DEF Leave, FilesTypeOK
  <2>4. PoolTypeOK'
    BY <1>15, <2>1 DEF Leave
  <2>5. \A q \in Pool : Working(q)' => job'[q] # NoGroup
    BY <1>15, <2>1 DEF Leave, FilesTypeOK, Working, Pool
  <2>6. UNCHANGED <<phase, pooled, planned, counted, outlived>>
    BY <1>15 DEF Leave
  <2> QED BY <1>15, <2>2, <2>3, <2>4, <2>5, <2>6 DEF Working
<1>16. ASSUME NEW p \in Pool, Return(p) \/ RaiseAtReplace(p) \/ RaiseInCell(p)
       PROVE  MainInv'
  <2>1. \E how \in {"returned", "raised"} : Leave(p, how)
    BY <1>16 DEF Return, RaiseAtReplace, RaiseInCell
  <2>2. interruptions' \in 0 .. MaxInterruptions
    BY <1>16 DEF Return, RaiseAtReplace, RaiseInCell, Interrupted
  <2> QED BY <1>15, <2>1, <2>2
<1>17. ASSUME NEW left \in SUBSET Pool, Interrupt(left)
       PROVE  MainInv'
  <2>1. Main \notin orphans'
    BY <1>17 DEF Interrupt, Pool
  <2>2. FilesTypeOK' /\ \A q \in Proc : handle'[q] # "none" => Working(q)'
    BY <1>17 DEF Interrupt, FilesTypeOK, Working, Handle
  <2>3. todo'[Main] = {} /\ handle'[Main] = "none"
    BY <1>17, <2>1 DEF Interrupt
  <2>4. PoolTypeOK'
    BY <1>17 DEF Interrupt
  <2>5. \A q \in Pool : Working(q)' => job'[q] # NoGroup
    BY <1>17 DEF Interrupt, Working, Pool
  <2>6. /\ phase' = "down" /\ counted' = NotCounted /\ outlived' \in BOOLEAN
        /\ UNCHANGED <<pooled, planned>> /\ interruptions' \in 0 .. MaxInterruptions
    BY <1>17 DEF Interrupt, Interrupted
  <2> QED BY <2>2, <2>3, <2>4, <2>5, <2>6 DEF Working
<1> QED
  BY <1>1, <1>2, <1>3, <1>4, <1>5, <1>6, <1>7, <1>8, <1>9, <1>10, <1>11, <1>12, <1>13, <1>14, <1>16, <1>17
  DEF Next, Proceed, Alone, Parent, Worker

LEMMA MainInit ==
  ASSUME Init
  PROVE  MainInv
<1> USE DEF Init, RunInit, PoolInit, FilesInit
<1>1. FilesTypeOK
  <2>1. Cardinality(Cell) \in 0 .. Cardinality(Cell) /\ 0 \in 0 .. Cardinality(Cell)
    BY FS_CardinalityType
  <2> QED BY <2>1 DEF FilesTypeOK, Content, Handle
<1>2. phase \in Phase /\ counted \in (0 .. Cardinality(Cell)) \cup {NotCounted}
  BY DEF Phase
<1>3. interruptions \in 0 .. MaxInterruptions /\ planned \in SUBSET Cell
  OBVIOUS
<1>4. RunTypeOK
  BY <1>1, <1>2, <1>3 DEF RunTypeOK
<1>5. PoolTypeOK
  BY DEF PoolTypeOK
<1>6. \A p \in Proc : ~Working(p) /\ handle[p] = "none"
  BY DEF Working
<1>7. phase = "down" /\ counted = NotCounted
  OBVIOUS
<1> QED BY <1>4, <1>5, <1>6, <1>7 DEF MainInv, TypeOK, Pool

LEMMA MainIsKept == Spec => []MainInv
BY MainInit, MainStep, PTL DEF Spec

(* The files, the processes and the manifest keep their types through      *)
(* every run, kill and restart (cells/store.py, runner.py, parallel.py).   *)
THEOREM RunnerTypeCorrect == Spec => []TypeOK
<1>1. MainInv => TypeOK
  BY DEF MainInv
<1> QED BY <1>1, MainIsKept, PTL

-----------------------------------------------------------------------------
(* While no worker has outlived its run, no two processes have a cell in   *)
(* common, so that a temporary file is the business of one of them.        *)

Quiet == /\ queue = {}
         /\ \A p \in Pool : Idle(p)
         /\ \A g \in Group : ended[g] = "no"

\* The workers have different groups, none of which is waiting, and what a
\* worker has done of its own is valid.
JobsInv ==
  /\ orphans = {}
  /\ \A p \in Pool : ~Idle(p) => pooled /\ job[p] \notin queue
  /\ \A p, q \in Pool : p # q /\ ~Idle(p) => job[p] # job[q]
  /\ \A p \in Pool : todo[p] \subseteq PlannedOf(job[p])
  /\ \A p \in Pool : \A c \in PlannedOf(job[p]) \ todo[p] : IsValid(c)
  /\ \A g \in Group : ended[g] = "returned" => Persisted(g)
  /\ ~pooled \/ phase \in {"down", "starting", "closing", "aggregating", "done"} => Quiet

\* A temporary file that a process holds is the one it has opened.
FilesInv ==
  /\ \A p \in Proc : handle[p] \in {"none", "temporary", "written"}
  /\ \A p \in Proc : handle[p] = "temporary" => temporary[CurrentOf(p)] = "empty"
  /\ \A p \in Proc : handle[p] = "written" => temporary[CurrentOf(p)] = "whole"
  /\ \A c \in Cell : file[c] \notin {"empty", "broken"}

CountsInv ==
  /\ counted # NotCounted => counted <= Cardinality(Valid(Cell))
  /\ phase \notin {"down", "starting"} => manifest <= Cardinality(Valid(Cell))

ApartInv == ~outlived => JobsInv /\ FilesInv /\ CountsInv

LEMMA CellsAreApart ==
  ASSUME MainInv, JobsInv, NEW p \in Proc, NEW q \in Proc, p # q
  PROVE  todo[p] \cap todo[q] = {}
<1>1. \A c \in Cell : \A r \in Pool : c \in todo[r] => GroupOf[c] = job[r] /\ ~Idle(r)
  BY DEF JobsInv, PlannedOf, Idle
<1>2. \A r \in Proc : todo[r] \subseteq Cell
  BY DEF MainInv, TypeOK, RunTypeOK, FilesTypeOK
<1>3. ASSUME NEW r \in Pool
      PROVE  todo[Main] \cap todo[r] = {}
  BY <1>1, <1>2 DEF MainInv, JobsInv, Working
<1>4. ASSUME p \in Pool, q \in Pool
      PROVE  todo[p] \cap todo[q] = {}
  BY <1>1, <1>2, <1>4 DEF JobsInv
<1> QED BY <1>3, <1>4 DEF Pool

\* What a process that runs cells does to the files when it is alone with them.
LEMMA CellStepAlone ==
  ASSUME MainInv, JobsInv, FilesInv, NEW p \in Proc, CellStep(p)
  PROVE  /\ FilesInv'
         /\ \A c \in Cell : IsValid(c) => IsValid(c)'
         /\ \A c \in todo[p] \ todo'[p] : IsValid(c)'
<1>0. PICK c \in Cell : c = CurrentOf(p) /\ c \in todo[p]
  BY CellStepType
<1>1. /\ c \in todo[p] /\ c \in Cell
      /\ \A d \in Cell \ {c} : file'[d] = file[d] /\ temporary'[d] = temporary[d]
      /\ \A q \in Proc \ {p} : todo'[q] = todo[q]
      /\ todo'[p] \in {todo[p], todo[p] \ {c}}
      /\ handle'[p] # "none" => todo'[p] = todo[p]
      /\ FilesTypeOK /\ FilesTypeOK'
  BY <1>0, CellStepType DEF MainInv, TypeOK, RunTypeOK
<1>2. ASSUME NEW q \in Proc \ {p}, Working(q)
      PROVE  CurrentOf(q) \in Cell /\ CurrentOf(q) # c /\ CurrentOf(q)' = CurrentOf(q)
  <2>1. CurrentOf(q) \in todo[q] /\ CurrentOf(q) \in Cell
    BY <1>1, <1>2, CurrentIsNext DEF FilesTypeOK
  <2>2. todo[p] \cap todo[q] = {}
    BY CellsAreApart
  <2>3. todo'[q] = todo[q]
    BY <1>1
  <2> QED BY <1>1, <2>1, <2>2, <2>3 DEF CurrentOf
<1>3. todo'[p] = todo[p] => CurrentOf(p)' = c
  BY <1>0 DEF CurrentOf
\* The handles of the others stay as they are: none is at this cell.
<1>4. ASSUME NEW q \in Proc \ {p}
      PROVE  handle'[q] = handle[q]
  <2>1. CASE Skip(p) \/ Open(p) \/ Write(p)
    BY <1>1, <2>1 DEF Skip, Open, Write, FilesTypeOK
  <2>2. CASE Replace(p)
    <3>1. ~AtCell(q, c)
      BY <1>2 DEF AtCell
    <3>2. handle' = Redirected(p, c)
      BY <1>0, <2>2 DEF Replace
    <3> QED BY <3>1, <3>2 DEF Redirected
  <2> QED BY <2>1, <2>2 DEF CellStep
<1>5. ASSUME NEW q \in Proc \ {p}
      PROVE  /\ handle'[q] \in {"none", "temporary", "written"}
             /\ handle'[q] = "temporary" => temporary'[CurrentOf(q)'] = "empty"
             /\ handle'[q] = "written" => temporary'[CurrentOf(q)'] = "whole"
  <2>1. handle[q] # "none" => Working(q)
    BY DEF MainInv
  <2>2. Working(q) => temporary'[CurrentOf(q)'] = temporary[CurrentOf(q)]
    BY <1>1, <1>2
  <2> QED BY <1>4, <2>1, <2>2 DEF FilesInv
<1>6. /\ handle'[p] \in {"none", "temporary", "written"}
      /\ handle'[p] = "temporary" => temporary'[c] = "empty" /\ todo'[p] = todo[p]
      /\ handle'[p] = "written" => temporary'[c] = "whole" /\ todo'[p] = todo[p]
      /\ file'[c] \notin {"empty", "broken"}
      /\ IsValid(c) => IsValid(c)'
      /\ todo'[p] # todo[p] => IsValid(c)'
  <2> USE DEF IsValid
  <2>1. file[c] \notin {"empty", "broken"}
    BY <1>1 DEF FilesInv
  <2>2. CASE Skip(p)
    BY <1>0, <1>1, <2>1, <2>2 DEF Skip, FilesTypeOK
  <2>3. CASE Open(p)
    <3>1. /\ temporary' = [temporary EXCEPT ![c] = "empty"] /\ handle' = [handle EXCEPT ![p] = "temporary"]
          /\ UNCHANGED <<file, todo>>
      BY <1>0, <2>3 DEF Open
    <3> QED BY <1>1, <2>1, <3>1 DEF FilesTypeOK
  <2>4. CASE Write(p)
    <3>1. handle[p] = "temporary" /\ temporary[c] = "empty"
      BY <1>0, <2>4 DEF Write, FilesInv
    <3>2. /\ temporary' = [temporary EXCEPT ![c] = "whole"] /\ handle' = [handle EXCEPT ![p] = "written"]
          /\ UNCHANGED <<file, todo>>
      BY <1>0, <2>4, <3>1 DEF Write, Over
    <3> QED BY <1>1, <2>1, <3>2 DEF FilesTypeOK
  <2>5. CASE Replace(p)
    <3>1. temporary[c] = "whole"
      BY <1>0, <2>5 DEF Replace, FilesInv
    <3>2. file' = [file EXCEPT ![c] = "whole"] /\ handle' = Redirected(p, c)
      BY <1>0, <2>5, <3>1 DEF Replace
    <3>3. handle'[p] = "none" /\ file'[c] = "whole"
      BY <1>1, <3>2 DEF FilesTypeOK, Redirected
    <3> QED BY <3>3
  <2> QED BY <2>2, <2>3, <2>4, <2>5 DEF CellStep
<1>7. FilesInv'
  <2>1. \A q \in Proc : handle'[q] \in {"none", "temporary", "written"}
    BY <1>5, <1>6
  <2>2. \A q \in Proc : handle'[q] = "temporary" => temporary'[CurrentOf(q)'] = "empty"
    BY <1>3, <1>5, <1>6
  <2>3. \A q \in Proc : handle'[q] = "written" => temporary'[CurrentOf(q)'] = "whole"
    BY <1>3, <1>5, <1>6
  <2>4. \A d \in Cell : file'[d] \notin {"empty", "broken"}
    BY <1>1, <1>6 DEF FilesInv
  <2> QED BY <2>1, <2>2, <2>3, <2>4 DEF FilesInv
<1>8. \A d \in Cell : IsValid(d) => IsValid(d)'
  BY <1>1, <1>6 DEF IsValid
<1>9. \A d \in todo[p] \ todo'[p] : IsValid(d)'
  BY <1>1, <1>6
<1> QED BY <1>7, <1>8, <1>9

\* A step that leaves the processes and the plan alone, and spoils no result.
LEMMA ApartIdle ==
  ASSUME MainInv, MainInv', JobsInv, UNCHANGED <<job, orphans, ended, planned, pooled, queue>>,
         \A p \in Pool : todo'[p] = todo[p] \/ (todo'[p] \subseteq todo[p] /\ \A c \in todo[p] \ todo'[p] : IsValid(c)'),
         \A c \in Cell : IsValid(c) => IsValid(c)',
         phase' \in {"down", "starting", "closing", "aggregating", "done"} => Quiet
  PROVE  JobsInv'
<1>1. planned \in SUBSET Cell
  BY DEF MainInv, TypeOK, RunTypeOK
<1>2. \A g : PlannedOf(g)' = PlannedOf(g) /\ (Persisted(g) => Persisted(g)')
  BY <1>1 DEF PlannedOf, Persisted
<1>3. Quiet => Quiet'
  BY DEF Quiet, Idle
<1> QED BY <1>1, <1>2, <1>3 DEF JobsInv, Idle, PlannedOf

LEMMA QuietJobs ==
  ASSUME Quiet', orphans' = {}, planned' \in SUBSET Cell, \A p \in Pool : todo'[p] = {}
  PROVE  JobsInv'
<1>1. PlannedOf(NoGroup)' = {}
  BY DEF PlannedOf
<1> QED BY <1>1 DEF Quiet, JobsInv, Idle

\* A run that is quiet has no worker at work.
LEMMA QuietRests ==
  ASSUME MainInv, Quiet, NEW p \in Pool
  PROVE  todo[p] = {}
BY DEF Quiet, MainInv, Working

LEMMA FilesIdle ==
  ASSUME MainInv, FilesInv, UNCHANGED <<file, temporary>>,
         \A p \in Proc : \/ handle'[p] = handle[p] /\ (handle[p] # "none" => todo'[p] = todo[p])
                         \/ handle'[p] = "none"
  PROVE  FilesInv' /\ \A c \in Cell : IsValid(c) <=> IsValid(c)'
<1>1. \A p \in Proc : handle'[p] # "none" => handle'[p] = handle[p] /\ todo'[p] = todo[p]
  OBVIOUS
<1>2. \A p \in Proc : todo'[p] = todo[p] => CurrentOf(p)' = CurrentOf(p)
  BY DEF CurrentOf
<1>3. \A p \in Proc : handle'[p] # "none" => temporary'[CurrentOf(p)'] = temporary[CurrentOf(p)]
  BY <1>1, <1>2
<1>4. \A p \in Proc : handle'[p] \in {"none", "temporary", "written"}
  BY <1>1 DEF FilesInv
<1>5. /\ \A p \in Proc : handle'[p] = "temporary" => temporary'[CurrentOf(p)'] = "empty"
      /\ \A p \in Proc : handle'[p] = "written" => temporary'[CurrentOf(p)'] = "whole"
  BY <1>1, <1>3 DEF FilesInv
<1> QED BY <1>4, <1>5 DEF FilesInv, IsValid

LEMMA CountsKept ==
  ASSUME MainInv, CountsInv, \A c \in Cell : IsValid(c) => IsValid(c)',
         counted' \in {counted, NotCounted},
         manifest' = manifest \/ (counted # NotCounted /\ manifest' = counted),
         phase' \notin {"down", "starting"} => phase \notin {"down", "starting"} \/ (manifest' = counted /\ counted # NotCounted)
  PROVE  CountsInv'
<1>1. counted # NotCounted => counted \in Int
  BY DEF MainInv, TypeOK, RunTypeOK
<1>2. manifest \in Int
  BY DEF MainInv, TypeOK, RunTypeOK, FilesTypeOK, NoManifest
<1>3. counted # NotCounted => counted <= Cardinality(Valid(Cell)')
  BY <1>1, ValidIsCounted DEF CountsInv
<1>4. phase \notin {"down", "starting"} => manifest <= Cardinality(Valid(Cell)')
  BY <1>2, ValidIsCounted DEF CountsInv
<1> QED BY <1>3, <1>4 DEF CountsInv

\* A step that leaves the files alone.
LEMMA StoreIdle ==
  ASSUME MainInv, FilesInv, CountsInv, UNCHANGED <<file, temporary>>,
         \A p \in Proc : \/ handle'[p] = handle[p] /\ (handle[p] # "none" => todo'[p] = todo[p])
                         \/ handle'[p] = "none",
         counted' \in {counted, NotCounted},
         manifest' = manifest \/ (counted # NotCounted /\ manifest' = counted),
         phase' \notin {"down", "starting"} => phase \notin {"down", "starting"} \/ (manifest' = counted /\ counted # NotCounted)
  PROVE  FilesInv' /\ CountsInv'
<1>1. FilesInv' /\ \A c \in Cell : IsValid(c) => IsValid(c)'
  BY FilesIdle
<1> QED BY <1>1, CountsKept

LEMMA ApartStep ==
  ASSUME MainInv, MainInv', ApartInv, [Next]_vars
  PROVE  ApartInv'
<1> SUFFICES ASSUME ~outlived'
             PROVE  JobsInv' /\ FilesInv' /\ CountsInv'
  BY DEF ApartInv
<1>0. ~outlived
  BY DEF Next, Proceed, Alone, Parent, Worker, Start, StartLimited, CountValid, Aggregate, WriteManifestAlone,
         RunAlone, RaiseAlone, Exhausted, WriteManifest, PublishCount, Close, Fail, Collect, Take, RunCell, Return,
         RaiseAtReplace, RaiseInCell, Leave, Interrupt, vars, runVars
<1>1. JobsInv /\ FilesInv /\ CountsInv
  BY <1>0 DEF ApartInv
<1> USE <1>0, <1>1
<1>2. CASE UNCHANGED vars
  <2>1. UNCHANGED <<file, temporary, todo, handle, manifest, counted, phase, pooled, planned, poolVars>>
    BY <1>2 DEF vars, fileVars, runVars
  <2>2. JobsInv'
    BY <2>1, ApartIdle DEF poolVars, JobsInv, IsValid
  <2> QED BY <2>1, <2>2, StoreIdle
<1>3. ASSUME Start \/ \E limit \in Limits : StartLimited(limit), UNCHANGED poolVars
      PROVE  JobsInv' /\ FilesInv' /\ CountsInv'
  <2>1. phase = "down" /\ phase' = "starting" /\ UNCHANGED <<fileVars, counted, poolVars>>
    BY <1>3 DEF Start, StartLimited
  <2>2. planned' \in SUBSET Cell
    BY DEF MainInv, TypeOK, RunTypeOK
  <2>3. Quiet /\ Quiet' /\ orphans' = {}
    BY <2>1 DEF JobsInv, Quiet, Idle, poolVars
  <2>4. JobsInv'
    BY <2>1, <2>2, <2>3, QuietJobs, QuietRests DEF fileVars
  <2> QED BY <2>1, <2>4, StoreIdle DEF fileVars
<1>4. CASE CountValid /\ UNCHANGED poolVars
  <2>1. UNCHANGED <<file, temporary, todo, handle, manifest, phase, pooled, planned, poolVars>>
        /\ counted' = Cardinality(Valid(planned))
    BY <1>4 DEF CountValid, fileVars
  <2>2. planned \in SUBSET Cell /\ Valid(Cell)' = Valid(Cell)
    BY <2>1 DEF MainInv, TypeOK, RunTypeOK, Valid, IsValid
  <2>3. CountsInv'
    BY <2>1, <2>2, ValidIsCounted DEF CountsInv
  <2>4. JobsInv'
    BY <2>1, ApartIdle DEF poolVars, JobsInv, IsValid
  <2> QED BY <2>1, <2>3, <2>4, FilesIdle
<1>5. CASE Aggregate /\ UNCHANGED poolVars
  <2>1. UNCHANGED <<file, temporary, todo, handle, manifest, counted, pooled, planned, poolVars>>
        /\ phase = "aggregating"
    BY <1>5 DEF Aggregate, fileVars
  <2>2. JobsInv'
    BY <2>1, ApartIdle DEF poolVars, JobsInv, IsValid
  <2> QED BY <2>1, <2>2, StoreIdle
<1>6. CASE WriteManifestAlone /\ UNCHANGED poolVars
  <2>1. /\ UNCHANGED <<file, temporary, handle, pooled, planned, poolVars>>
        /\ counted # NotCounted /\ manifest' = counted /\ counted' = NotCounted
        /\ phase' = "running" /\ ~pooled
    BY <1>6 DEF WriteManifestAlone, PublishCount
  <2>2. \A p \in Proc : p # Main \/ phase # "starting" => todo'[p] = todo[p]
    BY <1>6 DEF WriteManifestAlone, MainInv, TypeOK, RunTypeOK, FilesTypeOK
  <2>3. JobsInv'
    BY <2>1, <2>2, ApartIdle DEF poolVars, JobsInv, IsValid, Pool
  <2>4. \A p \in Proc : handle[p] # "none" => todo'[p] = todo[p]
    BY <2>2 DEF MainInv
  <2> QED BY <2>1, <2>3, <2>4, StoreIdle
<1>7. ASSUME NEW p \in Proc, CellStep(p), UNCHANGED <<pooled, planned, counted, poolVars>>,
             phase' = phase \/ (phase = "running" /\ phase' = "syncing")
      PROVE  JobsInv' /\ FilesInv' /\ CountsInv'
  <2>1. /\ FilesInv'
        /\ \A c \in Cell : IsValid(c) => IsValid(c)'
        /\ \A c \in todo[p] \ todo'[p] : IsValid(c)'
    BY <1>7, CellStepAlone
  <2>2. /\ manifest' = manifest
        /\ \A q \in Proc \ {p} : todo'[q] = todo[q]
        /\ todo'[p] \subseteq todo[p]
    BY <1>7, CellStepType
  <2>3. JobsInv'
    <3>1. UNCHANGED <<job, orphans, ended, planned, pooled, queue>>
      BY <1>7 DEF poolVars
    <3>2. phase' \in {"down", "starting", "closing", "aggregating", "done"} => Quiet
      BY <1>7 DEF JobsInv
    <3>3. \A q \in Pool : \/ todo'[q] = todo[q]
                          \/ todo'[q] \subseteq todo[q] /\ \A c \in todo[q] \ todo'[q] : IsValid(c)'
      BY <2>1, <2>2 DEF Pool
    <3> QED BY <2>1, <3>1, <3>2, <3>3, ApartIdle
  <2> QED BY <1>7, <2>1, <2>2, <2>3, CountsKept
<1>8. CASE RunAlone /\ UNCHANGED poolVars
  BY <1>7, <1>8 DEF RunAlone, CellStep
\* The rename never fails: the temporary file is there.
<1>9. ~RaiseAlone /\ \A p \in Pool : ~RaiseAtReplace(p)
  BY DEF RaiseAlone, RaiseAtReplace, CannotReplace, FilesInv, Pool
<1>10. CASE Exhausted /\ UNCHANGED poolVars
  <2>1. UNCHANGED <<file, temporary, todo, handle, manifest, counted, pooled, planned, poolVars>>
        /\ phase = "running" /\ ~pooled
    BY <1>10 DEF Exhausted, fileVars
  <2>2. JobsInv'
    BY <2>1, ApartIdle DEF poolVars, JobsInv, IsValid
  <2> QED BY <2>1, <2>2, StoreIdle
<1>11. CASE WriteManifest
  <2>1. /\ UNCHANGED <<file, temporary, handle, todo, pooled, planned, job, orphans, ended>>
        /\ counted # NotCounted /\ manifest' = counted /\ counted' = NotCounted
        /\ pooled
        /\ phase' = IF phase = "closing" THEN "aggregating" ELSE "running"
        /\ phase # "starting" => queue' = queue
    BY <1>11 DEF WriteManifest, PublishCount
  <2>2. JobsInv'
    <3>1. CASE phase = "starting"
      BY <2>1, <3>1 DEF JobsInv, Quiet, Idle, PlannedOf, Persisted, IsValid
    <3>2. CASE phase # "starting"
      BY <2>1, <3>2, ApartIdle DEF JobsInv, IsValid
    <3> QED BY <3>1, <3>2
  <2> QED BY <2>1, <2>2, StoreIdle
<1>12. ASSUME NEW g \in Group, Collect(g)
       PROVE  JobsInv' /\ FilesInv' /\ CountsInv'
  <2>1. /\ UNCHANGED <<file, temporary, handle, todo, manifest, counted, pooled, planned, queue, job, orphans>>
        /\ pooled /\ phase = "running" /\ ended' = [ended EXCEPT ![g] = "no"]
        /\ phase' \in {"syncing", "failing"}
    BY <1>12 DEF Collect, fileVars
  <2>2. \A h \in Group : ended'[h] = "returned" => ended[h] = "returned"
    BY <2>1 DEF MainInv, TypeOK, PoolTypeOK
  <2>3. JobsInv'
    <3>1. \A h : PlannedOf(h)' = PlannedOf(h) /\ (Persisted(h)' <=> Persisted(h))
      BY <2>1 DEF PlannedOf, Persisted, IsValid
    <3>2. \A c : IsValid(c)' <=> IsValid(c)
      BY <2>1 DEF IsValid
    <3> QED BY <2>1, <2>2, <3>1, <3>2 DEF JobsInv, Idle
  <2> QED BY <2>1, <2>3, StoreIdle
<1>13. CASE Close
  <2>1. UNCHANGED <<file, temporary, todo, handle, manifest, counted, pooled, planned, poolVars>>
        /\ phase = "running" /\ PoolIsEmpty /\ \A g \in Group : ended[g] = "no"
    BY <1>13 DEF Close, fileVars
  <2>2. Quiet
    BY <2>1 DEF Quiet, PoolIsEmpty, JobsInv
  <2>3. JobsInv'
    BY <2>1, <2>2, ApartIdle DEF poolVars, IsValid
  <2> QED BY <2>1, <2>3, StoreIdle
<1>14. CASE Fail
  <2>1. UNCHANGED <<file, temporary, todo, handle, manifest, counted, pooled, planned, queue, job, orphans>>
        /\ phase' = "down" /\ PoolIsEmpty /\ ended' = [g \in Group |-> "no"]
    BY <1>14 DEF Fail, fileVars
  <2>2. Quiet' /\ orphans' = {} /\ \A p \in Pool : Idle(p)
    BY <2>1 DEF Quiet, PoolIsEmpty, JobsInv, Idle
  <2>3. \A p \in Pool : todo'[p] = {}
    BY <2>1, <2>2 DEF MainInv, Working
  <2>4. JobsInv'
    BY <2>2, <2>3, QuietJobs DEF MainInv, TypeOK, RunTypeOK
  <2> QED BY <2>1, <2>4, StoreIdle
<1>15. ASSUME NEW p \in Pool, Take(p)
       PROVE  JobsInv' /\ FilesInv' /\ CountsInv'
  <2>1. PICK g \in queue : /\ queue' = queue \ {g} /\ job' = [job EXCEPT ![p] = g]
                           /\ todo' = [todo EXCEPT ![p] = PlannedOf(g)]
                           /\ UNCHANGED <<file, temporary, handle, manifest, runVars, orphans, ended>>
                           /\ pooled /\ phase \in {"running", "syncing", "failing"} /\ Idle(p)
    BY <1>15 DEF Take
  <2>2. /\ p \in Proc /\ g \in Group
        /\ job'[p] = g /\ todo'[p] = PlannedOf(g)
        /\ \A q \in Proc \ {p} : job'[q] = job[q] /\ todo'[q] = todo[q]
    BY <2>1 DEF MainInv, TypeOK, RunTypeOK, PoolTypeOK, FilesTypeOK, Pool
  <2>3. handle[p] = "none"
    BY <2>1, <2>2 DEF MainInv
  <2>4. \A h : PlannedOf(h)' = PlannedOf(h)
    BY <2>1 DEF PlannedOf, runVars
  <2>5. JobsInv'
    <3>1. \A c : IsValid(c)' <=> IsValid(c)
      BY <2>1 DEF IsValid
    <3>2. \A h \in Group : ended'[h] = "returned" => Persisted(h)'
      BY <2>1, <2>4, <3>1 DEF JobsInv, Persisted
    <3>3. \A q \in Pool : /\ todo'[q] \subseteq PlannedOf(job[q])'
                          /\ \A c \in PlannedOf(job[q])' \ todo'[q] : IsValid(c)'
      <4> SUFFICES ASSUME NEW q \in Pool
                   PROVE  /\ todo'[q] \subseteq PlannedOf(job'[q])
                          /\ \A c \in PlannedOf(job'[q]) \ todo'[q] : IsValid(c)
        BY <2>1, <3>1 DEF PlannedOf, runVars
      <4>1. CASE q = p
        BY <2>2, <4>1
      <4>2. CASE q # p
        BY <2>2, <4>2 DEF JobsInv, Pool
      <4> QED BY <4>1, <4>2
    <3>4. \A q \in Pool : job'[q] # NoGroup => job'[q] \notin queue' /\ \A r \in Pool : r # q => job'[q] # job'[r]
      BY <2>1, <2>2 DEF JobsInv, Idle, Pool
    <3> QED BY <2>1, <3>2, <3>3, <3>4 DEF JobsInv, Idle, runVars
  <2> QED BY <2>1, <2>2, <2>3, <2>5, StoreIdle DEF runVars
<1>16. ASSUME NEW p \in Pool, RunCell(p)
       PROVE  JobsInv' /\ FilesInv' /\ CountsInv'
  BY <1>7, <1>16 DEF RunCell, CellStep, runVars, Pool
<1>17. ASSUME NEW p \in Pool, NEW how \in {"returned", "raised"}, Leave(p, how), ~Idle(p),
              how = "returned" => ~Working(p)
       PROVE  JobsInv' /\ FilesInv' /\ CountsInv'
  <2>1. /\ UNCHANGED <<file, temporary, manifest, phase, pooled, planned, counted, queue>>
        /\ job' = [job EXCEPT ![p] = NoGroup]
        /\ orphans' = {}
        /\ ended' = [ended EXCEPT ![job[p]] = how]
        /\ todo' = [todo EXCEPT ![p] = {}]
        /\ handle' = [handle EXCEPT ![p] = "none"]
    BY <1>17 DEF Leave, JobsInv
  <2>2. /\ p \in Proc /\ job[p] \in Group
        /\ job'[p] = NoGroup /\ todo'[p] = {} /\ handle'[p] = "none"
        /\ \A q \in Proc \ {p} : job'[q] = job[q] /\ todo'[q] = todo[q] /\ handle'[q] = handle[q]
        /\ ended'[job[p]] = how /\ \A g \in Group \ {job[p]} : ended'[g] = ended[g]
    BY <1>17, <2>1 DEF MainInv, TypeOK, RunTypeOK, PoolTypeOK, FilesTypeOK, Pool, Idle
  <2>3. \A h : PlannedOf(h)' = PlannedOf(h)
    BY <2>1 DEF PlannedOf
  <2>4. how = "returned" => Persisted(job[p])
    BY <1>17 DEF JobsInv, Persisted, Working
  <2>5. PlannedOf(NoGroup) = {}
    BY DEF PlannedOf, MainInv, TypeOK, RunTypeOK
  <2>6. JobsInv'
    <3>1. ~(~pooled \/ phase \in {"down", "starting", "closing", "aggregating", "done"})
      BY <1>17 DEF JobsInv, Quiet
    <3>2. \A g \in Group : ended'[g] = "returned" => Persisted(g)'
      BY <2>1, <2>2, <2>3, <2>4 DEF JobsInv, Persisted, IsValid
    <3>3. \A q \in Pool : /\ todo'[q] \subseteq PlannedOf(job[q])'
                          /\ \A c \in PlannedOf(job[q])' \ todo'[q] : IsValid(c)'
      <4> SUFFICES ASSUME NEW q \in Pool
                   PROVE  /\ todo'[q] \subseteq PlannedOf(job'[q])
                          /\ \A c \in PlannedOf(job'[q]) \ todo'[q] : IsValid(c)
        BY <2>1 DEF PlannedOf, IsValid
      <4>1. CASE q = p
        BY <2>2, <2>5, <4>1
      <4>2. CASE q # p
        BY <2>2, <4>2 DEF JobsInv, Pool
      <4> QED BY <4>1, <4>2
    <3>4. \A q \in Pool : job'[q] # NoGroup =>
            pooled /\ job'[q] \notin queue /\ \A r \in Pool : r # q => job'[q] # job'[r]
      BY <2>2 DEF JobsInv, Idle, Pool
    <3> QED BY <2>1, <3>1, <3>2, <3>3, <3>4 DEF JobsInv, Idle
  <2> QED BY <2>1, <2>2, <2>6, StoreIdle
<1>18. ASSUME NEW p \in Pool, Return(p) \/ RaiseInCell(p)
       PROVE  JobsInv' /\ FilesInv' /\ CountsInv'
  <2>1. CASE Return(p)
    BY <1>17, <2>1 DEF Return
  <2>2. CASE RaiseInCell(p)
    BY <1>17, <2>2 DEF RaiseInCell, MainInv
  <2> QED BY <1>18, <2>1, <2>2
<1>19. ASSUME NEW left \in SUBSET Pool, Interrupt(left)
       PROVE  JobsInv' /\ FilesInv' /\ CountsInv'
  <2>1. orphans' = {} /\ UNCHANGED <<file, temporary, manifest, planned>>
        /\ phase' = "down" /\ counted' = NotCounted /\ queue' = {}
        /\ ended' = [g \in Group |-> "no"]
    BY <1>19 DEF Interrupt, JobsInv
  <2>2. \A p \in Proc : job'[p] = NoGroup /\ todo'[p] = {} /\ handle'[p] = "none"
    BY <1>19, <2>1 DEF Interrupt
  <2>3. JobsInv'
    <3>1. Quiet'
      BY <2>1, <2>2 DEF Quiet, Idle, Pool
    <3> QED BY <2>1, <2>2, <3>1, QuietJobs DEF MainInv, TypeOK, RunTypeOK, Pool
  <2>4. FilesInv' /\ \A c \in Cell : IsValid(c) <=> IsValid(c)'
    BY <2>1, <2>2, FilesIdle
  <2> QED BY <2>1, <2>3, <2>4, CountsKept
<1> QED
  BY <1>2, <1>3, <1>4, <1>5, <1>6, <1>8, <1>9, <1>10, <1>11, <1>12, <1>13, <1>14, <1>15, <1>16, <1>18, <1>19
  DEF Next, Proceed, Alone, Parent, Worker

LEMMA ApartIsKept == Spec => []ApartInv
<1>1. Init => ApartInv
  <2> SUFFICES ASSUME Init
               PROVE  ApartInv
    OBVIOUS
  <2>1. JobsInv
    <3>1. \A p \in Pool : Idle(p) /\ todo[p] = {}
      BY DEF Init, RunInit, PoolInit, FilesInit, Idle, Pool
    <3>2. \A g : PlannedOf(g) = {}
      BY DEF Init, RunInit, PlannedOf
    <3>3. orphans = {} /\ queue = {} /\ \A g \in Group : ended[g] = "no"
      BY DEF Init, PoolInit
    <3> QED BY <3>1, <3>2, <3>3 DEF JobsInv, Quiet
  <2>2. FilesInv
    BY DEF Init, RunInit, PoolInit, FilesInit, FilesInv
  <2>3. CountsInv
    BY DEF Init, RunInit, CountsInv
  <2> QED BY <2>1, <2>2, <2>3 DEF ApartInv
<1>2. MainInv /\ MainInv' /\ ApartInv /\ [Next]_vars => ApartInv'
  BY ApartStep
<1> QED BY <1>1, <1>2, MainIsKept, PTL DEF Spec

(* No partial result file is ever found under the name of a result, at     *)
(* whatever point runs are killed, as long as no worker outlives its run   *)
(* (atomic_write_json, cells/store.py:36-41).                              *)
THEOREM NoPartialResult == Spec => []ResultsAreComplete
<1>1. ApartInv => ResultsAreComplete
  BY DEF ApartInv, FilesInv, ResultsAreComplete
<1> QED BY <1>1, ApartIsKept, PTL

(* The manifest never claims more cells than have a valid result, though   *)
(* workers and parent write on their own (cells/store.py:98-111).          *)
THEOREM ManifestIsBehind == Spec => []ManifestNotAhead
<1>1. ApartInv => ManifestNotAhead
  BY DEF ApartInv, CountsInv, ManifestNotAhead
<1> QED BY <1>1, ApartIsKept, PTL

(* The check the parent makes of the files of a group that has returned    *)
(* never fails (parallel_worker.py:193-204, parallel.py:42-55).            *)
THEOREM ReturnedIsOnDisk == Spec => []ReturnIsPersisted
<1>1. ApartInv => ReturnIsPersisted
  BY DEF ApartInv, JobsInv, ReturnIsPersisted
<1> QED BY <1>1, ApartIsKept, PTL

-----------------------------------------------------------------------------
(* The promise of CellBenchmark, step by step.                             *)

\* A process that runs a cell changes the result of that cell alone.
LEMMA CellStepPromise ==
  ASSUME MainInv, ApartInv, NEW p \in Proc, CellStep(p), outlived' = outlived,
         (phase' = "done") <=> (phase = "done")
  PROVE  [Benchmark!Next]_(Benchmark!benchmarkVars)
<1> USE DEF Benchmark!benchmarkVars
<1>1. PICK c \in Cell : \A d \in Cell \ {c} : file'[d] = file[d]
  BY CellStepType
<1>2. Valid(Cell)' \in {Valid(Cell), Valid(Cell) \cup {c}, Valid(Cell) \ {c}}
  BY <1>1 DEF Valid, IsValid
<1>3. ~outlived => Valid(Cell) \subseteq Valid(Cell)'
  <2>1. ~outlived => \A d \in Cell : IsValid(d) => IsValid(d)'
    BY CellStepAlone DEF ApartInv
  <2> QED BY <2>1 DEF Valid
<1>4. CASE Valid(Cell)' = Valid(Cell)
  BY <1>4
<1>5. CASE Valid(Cell)' # Valid(Cell) /\ Valid(Cell)' = Valid(Cell) \cup {c}
  <2>1. Benchmark!Persist(c)
    BY <1>5 DEF Benchmark!Persist
  <2> QED BY <2>1 DEF Benchmark!Next
<1>6. CASE Valid(Cell)' # Valid(Cell) /\ Valid(Cell)' = Valid(Cell) \ {c}
  <2>1. Benchmark!Spoil(c)
    BY <1>3, <1>6 DEF Benchmark!Spoil, MainInv, TypeOK, RunTypeOK
  <2> QED BY <2>1 DEF Benchmark!Next
<1> QED BY <1>2, <1>4, <1>5, <1>6

LEMMA PromiseStep ==
  ASSUME MainInv, ApartInv, [Next]_vars
  PROVE  [Benchmark!Next]_(Benchmark!benchmarkVars)
<1> USE DEF Benchmark!benchmarkVars
<1>1. ASSUME file' = file, outlived' = outlived, (phase' = "done") <=> (phase = "done")
      PROVE  [Benchmark!Next]_(Benchmark!benchmarkVars)
  BY <1>1 DEF Valid, IsValid
<1>2. CASE UNCHANGED vars
  BY <1>1, <1>2 DEF vars, fileVars, runVars
<1>3. ASSUME Start \/ CountValid \/ WriteManifestAlone \/ RaiseAlone \/ Exhausted
             \/ WriteManifest \/ Close \/ Fail \/ \E limit \in Limits : StartLimited(limit)
      PROVE  [Benchmark!Next]_(Benchmark!benchmarkVars)
  <2>1. file' = file /\ outlived' = outlived
    BY <1>3 DEF Start, StartLimited, CountValid, WriteManifestAlone, RaiseAlone, Exhausted, WriteManifest,
                PublishCount, Close, Fail, fileVars
  <2>2. phase # "done"
    BY <1>3 DEF Start, StartLimited, CountValid, WriteManifestAlone, RaiseAlone, Exhausted, WriteManifest,
                PublishCount, Close, Fail, CannotReplace, MainInv
  <2>3. phase' # "done"
    BY <1>3, <2>2 DEF Start, StartLimited, CountValid, WriteManifestAlone, RaiseAlone, Exhausted, WriteManifest, Close, Fail
  <2> QED BY <1>1, <2>1, <2>2, <2>3
<1>4. CASE Aggregate
  <2>1. file' = file /\ outlived' = outlived /\ phase = "aggregating"
        /\ phase' = (IF planned = Cell /\ Valid(Cell) = Cell THEN "done" ELSE "down")
    BY <1>4 DEF Aggregate, fileVars
  <2>2. CASE planned = Cell /\ Valid(Cell) = Cell
    <3>1. Benchmark!Aggregate
      BY <2>1, <2>2 DEF Benchmark!Aggregate, Valid, IsValid
    <3> QED BY <3>1 DEF Benchmark!Next
  <2>3. CASE ~(planned = Cell /\ Valid(Cell) = Cell)
    BY <1>1, <2>1, <2>3
  <2> QED BY <2>2, <2>3
<1>5. CASE RunAlone
  BY <1>5, CellStepPromise DEF RunAlone, CellStep
<1>6. ASSUME NEW p \in Pool, RunCell(p)
      PROVE  [Benchmark!Next]_(Benchmark!benchmarkVars)
  BY <1>6, CellStepPromise DEF RunCell, CellStep, runVars, Pool
<1>7. ASSUME NEW g \in Group, Collect(g)
      PROVE  [Benchmark!Next]_(Benchmark!benchmarkVars)
  BY <1>1, <1>7 DEF Collect, fileVars
<1>8. ASSUME NEW p \in Pool, Take(p) \/ Return(p) \/ RaiseAtReplace(p) \/ RaiseInCell(p)
      PROVE  [Benchmark!Next]_(Benchmark!benchmarkVars)
  BY <1>1, <1>8 DEF Take, Return, RaiseAtReplace, RaiseInCell, Leave, runVars
<1>9. ASSUME NEW left \in SUBSET Pool, Interrupt(left)
      PROVE  [Benchmark!Next]_(Benchmark!benchmarkVars)
  <2>1. file' = file /\ phase # "done" /\ phase' = "down" /\ outlived' \in {outlived, TRUE}
    BY <1>9 DEF Interrupt, MainInv, TypeOK, RunTypeOK
  <2>2. CASE outlived' = outlived
    BY <1>1, <2>1, <2>2
  <2>3. CASE outlived'
    <3>1. Benchmark!Outlive
      BY <2>1, <2>3 DEF Benchmark!Outlive, Valid, IsValid
    <3> QED BY <3>1 DEF Benchmark!Next
  <2> QED BY <2>1, <2>2, <2>3
<1> QED
  BY <1>2, <1>3, <1>4, <1>5, <1>6, <1>7, <1>8, <1>9
  DEF Next, Proceed, Alone, Parent, Worker

(* Whatever is killed and started again, a result that is on disk stays    *)
(* there until two processes write the same cell, and the aggregate is     *)
(* made once and of all the results: every step of the runner is a step of *)
(* CellBenchmark or none.  That the aggregate is made in the end is left   *)
(* to the run.                                                             *)
THEOREM KeepsPromiseSafely ==
  Spec => Benchmark!Init /\ [][Benchmark!Next]_(Benchmark!benchmarkVars)
<1>1. Init => Benchmark!Init
  BY DEF Init, RunInit, Benchmark!Init, Valid
<1>2. MainInv /\ ApartInv /\ [Next]_vars => [Benchmark!Next]_(Benchmark!benchmarkVars)
  BY PromiseStep
<1> QED BY <1>1, <1>2, MainIsKept, ApartIsKept, PTL DEF Spec
=============================================================================
