---------------------------- MODULE PolicyRunner ----------------------------
(***************************************************************************)
(* One policy on its copy of the shared world (benchmark/official/policy_  *)
(* runner.py, product/session.py): REVIVE and the product session run the  *)
(* cycles of RecoveryCycle, the baselines B0 to B3 those of this module.   *)
(* The oracle's rows are the same for all and change under none.           *)
(*                                                                         *)
(* The pipeline of the baselines, benchmark/official/baseline_pipeline.py  *)
(* over benchmark/baselines, builds the decision itself, as one whose rows *)
(* are RESERVED, and hands it to the same authorization and execution as   *)
(* REVIVE's, with the one ledger of the run.  Nothing seals the decision:  *)
(* no row is ever filed in that ledger.                                    *)
(***************************************************************************)
EXTENDS RecoveryCycle, SequencesExt

CONSTANTS
  Ids,        \* the opportunities in the order of their ids
  Scheduled,  \* first step of an opportunity's schedule in B1_RETRY_SCHEDULE
  StartOf     \* the time from which that step is taken

ASSUME RunnerAssumption ==
  /\ Ids \in SetToSeqs(Opportunity)
  /\ Scheduled \in [Opportunity -> Action]
  /\ StartOf \in [Opportunity -> Nat]

VARIABLES ledger   \* the decisions with rows in the ledger of the run

runVars == <<vars, ledger>>

RunInit == Init /\ ledger = {}

BeginDeciding ==
  /\ phase = "waiting" /\ cycle < MaxCycles
  /\ cycle' = cycle + 1
  /\ phase' = "deciding"
  /\ UNCHANGED <<policy, row, plan, contacts, storeVars, ledger>>

-----------------------------------------------------------------------------
(* The decisions of a cycle: one opportunity after the other gets its      *)
(* action if that can be reserved.                                         *)

\* A baseline looks at the marks, and leaves alone what has been recovered; what
\* is not addressable or expired is left alone too.
Eligible == {o \in Opportunity : mark[o] # "recovered"}

Reserve(f, o, a) ==
  LET g == [f EXCEPT ![o] = a]
  IN  IF a # "none" /\ Fits(g) THEN g ELSE f

\* The plan when the opportunities are taken in the order s and want the actions w.
PlanInOrder(s, w) ==
  LET after[n \in 0 .. Len(s)] ==
        IF n = 0 THEN [o \in Opportunity |-> "none"] ELSE Reserve(after[n - 1], s[n], w[s[n]])
  IN  after[Len(s)]

\* The opportunities of S want the actions w, the others nothing.
Wishes(S, w) == [o \in Opportunity |-> IF o \in S THEN w[o] ELSE "none"]

InOrderOfId(w) == PlanInOrder(Ids, w)

Nothing == InOrderOfId([o \in Opportunity |-> "none"])

\* attempt_seq is never advanced: the first step of the schedule, once it is due.
FixedRetry(S) == InOrderOfId(Wishes({o \in S : TimeOf(cycle) >= StartOf[o]}, Scheduled))

\* CONTACT_ALL_DEFAULT_ACTION is that same first step for every class.
ContactAll(S) == InOrderOfId(Wishes(S, Scheduled))

\* By an estimate from observable features: any order and any wishes.
GreedyEnrv(S) ==
  {PlanInOrder(s, Wishes(S, w)) : s \in SetToSeqs(Opportunity), w \in Plan}

Decisions(S) ==
  CASE policy = "B0" -> {Nothing}
    [] policy = "B1" -> {FixedRetry(S)}
    [] policy = "B2" -> {ContactAll(S)}
    [] policy = "B3" -> GreedyEnrv(S)

DecideCycle ==
  /\ phase = "deciding"
  /\ \E S \in SUBSET Eligible : \E f \in Decisions(S) : Adopt(f)
  /\ UNCHANGED <<policy, row, cycle, storeVars, ledger>>

-----------------------------------------------------------------------------
(* A decision is pursued.                                                  *)

\* Mutant of File: the decision is sealed into the ledger of the run.
FileSeals(o) == ledger' = ledger \cup {Current(o)}

\* The decision is built, and nothing is filed for it.
File(o) == UNCHANGED ledger

\* Mutant of Reject: what was rejected is not touched.
RejectUntouched(o) ==
  /\ Record(Current(o), Unperformed("cancelled", plan[o], TimeOf(cycle)))
  /\ UNCHANGED <<counts, mark, touches>>

\* RESERVATION_INVALID for a decision without rows.  The result is measured, and
\* the opportunity touched whatever it is.
Reject(o) ==
  /\ Record(Current(o), Unperformed("cancelled", plan[o], TimeOf(cycle)))
  /\ MarkWorld(o, FALSE, plan[o])
  /\ UNCHANGED counts

Schedule(o) ==
  /\ Record(Current(o), Unperformed("scheduled", "later", TimeOf(cycle)))
  /\ UNCHANGED <<counts, mark, touches>>

Execute(o) ==
  /\ File(o)
  /\ IF Current(o) \notin ledger' THEN Reject(o)
     ELSE IF plan[o] = "later"    THEN Schedule(o)
     ELSE Perform(Current(o), plan[o], TimeOf(cycle))

\* No candidate, no sentinel opportunity, or no authorization.
Dropped(o) == UNCHANGED <<storeVars, ledger>>

PursueDecision(o) ==
  /\ phase = "acting" /\ plan[o] # "none"
  /\ Dropped(o) \/ Execute(o)
  /\ Pursued(o)
  /\ UNCHANGED <<policy, row, cycle, phase, contacts>>

Finish ==
  /\ phase = "waiting" /\ cycle = MaxCycles
  /\ phase' = "done"
  /\ UNCHANGED <<policy, row, cycle, plan, contacts, storeVars, ledger>>

BaselineNext ==
  \/ BeginDeciding \/ DecideCycle \/ Finish
  \/ EndCycle /\ UNCHANGED ledger
  \/ \E o \in Opportunity : PursueDecision(o)

RunNext ==
  \/ Baseline /\ BaselineNext /\ UNCHANGED <<now, retryVars, held>>
  \/ ~Baseline /\ Next /\ UNCHANGED ledger

RunSpec == RunInit /\ [][RunNext]_runVars

-----------------------------------------------------------------------------
(* Every baseline decision that reaches execution is cancelled: nothing a  *)
(* baseline decides is ever done.  What its metrics say of recoveries, net *)
(* and contacts is zero, the count of interventions is not; and so the net *)
(* recovery of B0 that M-10 subtracts is zero.                             *)
NothingIsPerformed ==
  Baseline => /\ \A k \in Key : StageOf(k) \in {"none", "cancelled"}
              /\ Totals.gross = 0 /\ Totals.net = 0 /\ Totals.contacts = 0

(* contacts_made counts the touches the pipeline granted, one for each     *)
(* decision of a counted action that was handed to execution, whatever     *)
(* came of it, under every policy.                                         *)
TouchesAreDecisions ==
  \A o \in Opportunity :
    touches[o] = Cardinality({n \in 1 .. MaxCycles : /\ StageOf(<<o, n>>) # "none"
                                                     /\ result[<<o, n>>].action \in Touching})
=============================================================================
