---------------------------- MODULE DecisionPath ----------------------------
(***************************************************************************)
(* The path of one detected opportunity through the decision stages: it is *)
(* diagnosed, its candidates are generated and priced, one is selected,    *)
(* the authorization context is made and the gates are asked.              *)
(*                                                                         *)
(* REVIVE is the official pipeline and the traced product cycle, which     *)
(* pass the same context; BASELINE is the pipeline of the baselines.  Both *)
(* resolve the approval before they authorize.  CALLER stands for any      *)
(* other caller of authorize_execution, a public function, with a context  *)
(* of its own, who may come back with the answer of a human to a request   *)
(* for approval.                                                           *)
(***************************************************************************)
EXTENDS Candidates, PolicyGates

CONSTANTS Opportunities,      \* the detected opportunities
          CallerContexts(_)   \* what the context of a caller can say of an opportunity
                              \* besides its value

Value == {"NONE", "TRIFLING", "USUAL", "HIGH", "ABSURD"}
Sign  ==
  {"INSTRUMENT_BLOCKED", "INSTRUMENT_EXPIRED", "INSTRUMENT_WORKS", "DEGRADATION_FLAG",
   "DEGRADATION_OBSERVED", "FAILURE_CLUSTER", "ABANDONED_BEFORE", "LARGE_CART",
   "OVERDUE_BEFORE", "NOT_ADDRESSABLE", "ATTEMPTS_USED", "OUTSIDE_HOURS",
   "CONTACTED_ENOUGH"}

\* What detect can report: evidence of the class, and nothing that is worth
\* nothing or whose window is over is addressable (classify_addressability).
IsOpportunity(o) ==
  /\ o.class \in RiskClass
  /\ o.evidence \in Evidence[o.class]
  /\ o.signs \subseteq Sign
  /\ o.value \in Value
  /\ o.hours \in 0..3
  /\ o.value = "NONE" \/ o.hours = 0 => "NOT_ADDRESSABLE" \in o.signs

\* Conditions of a context that follow from the opportunity and the valuation.
ValueConditions(o) ==
  CASE o.value = "NONE"   -> {"NO_VALUE"}
    [] o.value = "HIGH"   -> {"HIGH_VALUE"}
    [] o.value = "ABSURD" -> {"ABSURD_VALUE"}
    [] OTHER              -> {}

\* ENRV: positive with a narrow or a wide interval, zero or negative.
Enrv == {"SURE", "WIDE", "ZERO", "NEGATIVE"}

EnrvConditions(e) ==
  CASE e = "WIDE"     -> {"UNCERTAIN"}
    [] e = "NEGATIVE" -> {"NEGATIVE_ENRV"}
    [] OTHER          -> {}

Derived == {"NO_VALUE", "HIGH_VALUE", "ABSURD_VALUE", "UNCERTAIN", "NEGATIVE_ENRV"}

\* The actions B1, B2 and B3 select for a class.
GreedyActions == {"A01", "A02", "A03", "A04", "A05", "A06", "A08", "A09"}
BaselineActions(class) ==
  GreedyActions \cup (IF class = "MANDATE_HEALTH" THEN {"A11"} ELSE {})

ASSUME PathAssumption ==
  /\ \A o \in Opportunities : IsOpportunity(o)
  /\ \A o \in Opportunities : \A c \in CallerContexts(o) : c \subseteq Condition \ Derived

Actor == {"REVIVE", "BASELINE", "CALLER"}
Stage == {"detected", "selected", "reviewed", "answered", "ended"}

VARIABLES opp, stage, by, action, enrv, context, approval, answer, asked

vars == <<opp, stage, by, action, enrv, context, approval, answer, asked>>

TypeOK ==
  /\ IsOpportunity(opp)
  /\ stage \in Stage
  /\ by \in Actor
  /\ action \in Action
  /\ enrv \in Enrv
  /\ context \subseteq Condition
  /\ approval \in ApprovalState
  /\ answer \in AuthorizationState \cup {"NONE"}
  /\ asked \in BOOLEAN

Init ==
  /\ opp \in Opportunities
  /\ stage = "detected"
  /\ by \in Actor
  /\ action = "A00"
  /\ enrv = "ZERO"
  /\ context = {}
  /\ approval = "NONE"
  /\ answer = "NONE"
  /\ asked = FALSE

\* The allocator selects an available candidate whose ENRV exceeds epsilon,
\* which is not negative.
Allocate ==
  /\ stage = "detected"
  /\ by \in {"REVIVE", "CALLER"}
  /\ stage' = "selected"
  /\ action' \in Offered(opp) \ {"A00"}
  /\ enrv' \in {"SURE", "WIDE"}
  /\ UNCHANGED <<opp, by, context, approval, answer, asked>>

\* A baseline has selected an action by rules of its own: the pipeline takes
\* the candidate of that action, available or not.
FollowBaseline ==
  /\ stage = "detected"
  /\ by = "BASELINE"
  /\ stage' = "selected"
  /\ action' \in BaselineActions(opp.class) \cap Enumerated(opp)
  /\ enrv' \in Enrv
  /\ UNCHANGED <<opp, by, context, approval, answer, asked>>

\* Nothing is selected: no candidate is worth it or has room.
LeaveAlone ==
  /\ stage = "detected"
  /\ stage' = "ended"
  /\ UNCHANGED <<opp, by, action, enrv, context, approval, answer, asked>>

\* The context the pipelines make: the local hour is a constant of 12 and all
\* the rest but the value and the window of the world keeps its default.
\* BaselinePolicy.is_eligible has tested that window at the same instant.
PipelineContexts ==
  LET values == ValueConditions(opp) \cup EnrvConditions(enrv)
  IN  {values} \cup (IF by = "REVIVE" THEN {values \cup {"WINDOW_EXPIRED"}} ELSE {})

ReviewInCycle ==
  /\ stage = "selected"
  /\ by \in {"REVIVE", "BASELINE"}
  /\ stage' = "reviewed"
  /\ \E c \in PipelineContexts :
       /\ context' = c
       /\ approval' \in SimulatedApproval(action, c)
  /\ UNCHANGED <<opp, by, action, enrv, answer, asked>>

\* Any other caller brings what it has observed, and the state of a request.
Submit ==
  /\ stage = "selected"
  /\ by = "CALLER"
  /\ stage' = "reviewed"
  /\ \E c \in CallerContexts(opp) :
       context' = c \cup ValueConditions(opp) \cup EnrvConditions(enrv)
  /\ approval' \in ApprovalState
  /\ UNCHANGED <<opp, by, action, enrv, answer, asked>>

Authorize ==
  /\ stage = "reviewed"
  /\ stage' = "answered"
  /\ answer' = Reviewed(action, context, approval)
  /\ UNCHANGED <<opp, by, action, enrv, context, approval, asked>>

\* The caller who was told to ask a human comes back with the answer, and with
\* no store, as the tests of the approval do: the store that holds the request
\* refuses another artifact of that decision (Record of module Authorization).
Resubmit ==
  /\ stage = "answered"
  /\ by = "CALLER"
  /\ answer = "REQUIRES_HUMAN_APPROVAL"
  /\ stage' = "reviewed"
  /\ approval' \in {"APPROVED", "APPROVED_MODIFIED", "REJECTED", "EXPIRED", "VOIDED"}
  /\ asked' = TRUE
  /\ UNCHANGED <<opp, by, action, enrv, context, answer>>

Next ==
  \/ Allocate
  \/ FollowBaseline
  \/ LeaveAlone
  \/ ReviewInCycle
  \/ Submit
  \/ Authorize
  \/ Resubmit

Spec == Init /\ [][Next]_vars

-----------------------------------------------------------------------------
\* A decision that a cycle has reviewed is authorized or blocked: it is never
\* left for an approval nobody gives or for a later plan.  The approver of the
\* pipelines and gate G7 work out separately when an approval is needed, and
\* what makes a gate defer is never in the context of a pipeline.
CycleLeavesNothingPending ==
  stage = "answered" /\ by # "CALLER" => answer \in {"AUTHORIZED", "BLOCKED"}

\* No message of the REVIVE pipeline leaves out of hours, to a customer who
\* has been contacted enough or for an opportunity that cannot be addressed:
\* the context of the gates says nothing of these, so the candidates must, for
\* every action the gates take for a contact.
MessagesRespectTheCustomer ==
  answer = "AUTHORIZED" /\ by = "REVIVE" /\ action \in ContactActions =>
    opp.signs \cap {"OUTSIDE_HOURS", "CONTACTED_ENOUGH", "NOT_ADDRESSABLE"} = {}

\* A human is asked only where the answer matters: a decision that was left
\* for approval, and is approved, is not then blocked by another gate.
ApprovalIsWorthAsking ==
  stage = "answered" /\ asked /\ approval = "APPROVED" =>
    answer \in {"AUTHORIZED", "REPLAN_REQUIRED"}
=============================================================================
