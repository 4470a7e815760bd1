------------------------- MODULE OpportunityMachine -------------------------
(***************************************************************************)
(* The states of an opportunity and of an intervention, the steps between  *)
(* them that are legal (revive/state), and those the execution engine      *)
(* takes on an answer of the adapter (execution/world_update.py).  The     *)
(* engine looks a step up in the table of transitions; validate, which     *)
(* also refuses to leave a terminal state, is called by no code but tests. *)
(*                                                                         *)
(* An answer is an outcome of module Oracle.                               *)
(***************************************************************************)
EXTENDS Integers, Sequences

Created == "none"   \* where a machine comes from that is not started

\* Where the table leads from each state of an opportunity.
OpportunityTransition ==
  LET From(s, targets) == {<<s, t>> : t \in targets}
  IN  From(Created, {"DETECTED"})
      \cup From("DETECTED", {"NOT_ADDRESSABLE", "DIAGNOSED", "STOPPED", "RECOVERED"})
      \cup From("NOT_ADDRESSABLE", {"DETECTED", "CLOSED_UNRECOVERED", "RECOVERED"})
      \cup From("DIAGNOSED", {"PRICED", "STOPPED"})
      \cup From("PRICED", {"AUTHORISED", "AWAITING_APPROVAL", "DEFERRED", "NO_ACTION_CYCLE", "STOPPED"})
      \cup From("AWAITING_APPROVAL", {"AUTHORISED", "PRICED", "DEFERRED", "STOPPED"})
      \cup From("AUTHORISED", {"ACTING", "DEFERRED"})
      \cup From("ACTING", {"AWAITING_OUTCOME", "RECONCILING"})
      \cup From("AWAITING_OUTCOME", {"RECOVERED", "PRICED", "STOPPED", "CLOSED_UNRECOVERED"})
      \cup From("RECONCILING", {"AWAITING_OUTCOME", "RECONCILIATION_FAILED", "RECOVERED"})
      \cup From("DEFERRED", {"PRICED", "STOPPED", "CLOSED_UNRECOVERED", "RECOVERED"})
      \cup From("NO_ACTION_CYCLE", {"PRICED", "STOPPED", "RECOVERED", "CLOSED_UNRECOVERED"})
      \cup From("STOPPED", {"PRICED"})

OpportunityMachine ==
  [transition |-> OpportunityTransition,
   initial    |-> {"DETECTED"},
   terminal   |-> {"RECONCILIATION_FAILED", "RECOVERED", "STOPPED", "CLOSED_UNRECOVERED"},
   illegal    |-> {<<"PRICED", "ACTING">>, <<"AUTHORISED", "AUTHORISED">>, <<"ACTING", "ACTING">>,
                   <<"RECONCILING", "AUTHORISED">>, <<"RECONCILING", "ACTING">>,
                   <<"RECONCILIATION_FAILED", "PRICED">>, <<"RECOVERED", "PRICED">>,
                   <<"CLOSED_UNRECOVERED", "PRICED">>, <<"DEFERRED", "ACTING">>,
                   <<"AWAITING_APPROVAL", "ACTING">>}]

InterventionMachine ==
  [transition |-> {<<Created, "INTENDED">>, <<"INTENDED", "IN_FLIGHT">>}
                  \cup {"IN_FLIGHT"} \X {"COMPLETED_SUCCESS", "COMPLETED_FAILED", "UNKNOWN"}
                  \cup {"UNKNOWN"} \X {"RESOLVED_BY_RECONCILIATION", "UNRESOLVED"},
   initial    |-> {"INTENDED"},
   terminal   |-> {"COMPLETED_SUCCESS", "COMPLETED_FAILED", "RESOLVED_BY_RECONCILIATION", "UNRESOLVED"},
   illegal    |-> {<<"INTENDED", "COMPLETED_SUCCESS">>, <<"INTENDED", "COMPLETED_FAILED">>,
                   <<"UNKNOWN", "IN_FLIGHT">>}]

\* validate lets the machine go from one state to the other.
Validates(machine, from, to) ==
  IF from = Created THEN to \in machine.initial
  ELSE /\ from \notin machine.terminal
       /\ <<from, to>> \notin machine.illegal
       /\ <<from, to>> \in machine.transition

-----------------------------------------------------------------------------
(* The walk of the engine.                                                 *)

\* A step that the table does not have is not taken.
Step(walk, machine, to) ==
  IF <<walk[Len(walk)], to>> \in machine.transition THEN Append(walk, to) ELSE walk

\* Mutant of Outcoming: what was asked for and came to nothing is not awaited.
OutcomingOfSuccess(answer) ==
  IF answer.adapter = "TIMEOUT_UNKNOWN" THEN "RECONCILING"
  ELSE IF answer.adapter = "SUCCESS" THEN "AWAITING_OUTCOME" ELSE "PRICED"

\* Where the answer takes an opportunity that is acted on.
Outcoming(answer) ==
  IF answer.adapter = "TIMEOUT_UNKNOWN" THEN "RECONCILING" ELSE "AWAITING_OUTCOME"

\* Mutant of IsRecovery: a recovery past the horizon closes the opportunity.
IsRecoveryEver(answer) == answer.amount > 0 \/ answer.late

IsRecovery(answer) == answer.amount > 0 /\ answer.within

\* transition_opportunity_state: a new environment is AUTHORISED.  A recovery
\* that came late or is worth nothing, and an action that failed, are awaited on.
OpportunityWalk(answer) ==
  LET acting == Step(<<"AUTHORISED">>, OpportunityMachine, "ACTING")
      asked  == Step(acting, OpportunityMachine, Outcoming(answer))
  IN  IF asked[Len(asked)] # "AWAITING_OUTCOME" THEN asked
      ELSE IF IsRecovery(answer) THEN Step(asked, OpportunityMachine, "RECOVERED")
      ELSE IF answer.kind = "NOT_RECOVERED" THEN Step(asked, OpportunityMachine, "PRICED")
      ELSE asked

InterventionStateFor(adapter) ==
  CASE adapter = "SUCCESS"         -> "COMPLETED_SUCCESS"
    [] adapter = "TIMEOUT_UNKNOWN" -> "UNKNOWN"
    [] OTHER                       -> "COMPLETED_FAILED"

\* The intervention is put in flight before the adapter is asked.
InterventionWalk(answer) ==
  Step(Step(<<"INTENDED">>, InterventionMachine, "IN_FLIGHT"),
       InterventionMachine, InterventionStateFor(answer.adapter))

\* payment_state_for, for an action that charges or has the customer pay.
PaymentStateFor(charges, answer) ==
  IF ~charges THEN "none"
  ELSE IF answer.adapter = "SUCCESS" THEN
    IF answer.amount > 0 THEN "payment_success" ELSE "payment_pending"
  ELSE IF answer.adapter = "TIMEOUT_UNKNOWN" THEN "payment_unknown"
  ELSE "payment_failed"

\* customer_response_for.
CustomerResponseFor(adapter) ==
  CASE adapter = "SUCCESS"              -> "delivered"
    [] adapter = "REJECTED_BY_PROVIDER" -> "rejected"
    [] adapter = "TIMEOUT_UNKNOWN"      -> "unknown"
    [] OTHER                            -> "failed"

\* Every step of a walk is one that validate accepts.
IsLegal(machine, walk) ==
  \A i \in 1 .. Len(walk) - 1 : Validates(machine, walk[i], walk[i + 1])
=============================================================================
