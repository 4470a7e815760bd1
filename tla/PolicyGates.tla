---------------------------- MODULE PolicyGates ----------------------------
(***************************************************************************)
(* What authorize_execution makes of a selected action, revive/policy: the *)
(* pre-checks of authorize.py, the stopping rules of stopping.py, the      *)
(* gates of gates.py and the worst of their verdicts.  The store the       *)
(* answer is recorded in is module Authorization.                          *)
(*                                                                         *)
(* An AuthorizeContext is the set of the conditions that hold in it: each  *)
(* name stands for the outcome of one test the code makes of its fields,   *)
(* of the decision, the valuation and the rules.  KEY_CLAIMED is both what *)
(* the store says and the flag of the context that gate G9 reads.          *)
(***************************************************************************)
EXTENDS Integers

ContactActions ==
  {"A03", "A04", "A05", "A06", "A07", "A08", "A09", "A10", "A11", "A12"}
RetryActions     == {"A01", "A02", "A03"}
IncentiveActions == {"A10", "A11"}
ApprovalActions  == {"A10", "A11", "A12", "A14"}

ApprovalState ==
  {"NONE", "QUEUED", "APPROVED", "APPROVED_MODIFIED", "REJECTED", "EXPIRED", "VOIDED"}

AuthorizationState ==
  {"AUTHORIZED", "BLOCKED", "REQUIRES_HUMAN_APPROVAL", "STALE", "EXPIRED", "REPLAN_REQUIRED"}

\* Of the decision and of the store.
DecisionConditions ==
  {"STALE", "DECISION_EXPIRED", "REPLACED", "RECONFIGURED", "KEY_CLAIMED"}

\* SR-01 ... SR-11: each stops the opportunity, whatever the action.
StoppingConditions ==
  {"WINDOW_EXPIRED", "RECOVERED", "RETRIES_AT_CAP", "CONTACTS_AT_OPPORTUNITY_CAP",
   "TERMINAL_CAUSE", "APPROVAL_EXPIRED", "NO_ACTION_CYCLES", "OPTED_OUT", "RISK_FLAG",
   "WRITTEN_OFF", "NO_VALUE", "MERCHANT_HALT", "SUPPRESSED"}

GateConditions ==
  {"NO_CONSENT", "OUTSIDE_HOURS", "CONTACTS_TODAY_AT_CAP", "INCENTIVE_OVER_MAX",
   "NO_RETRY_SLOTS", "NO_MESSAGES", "NO_INCENTIVE_BUDGET", "HIGH_VALUE", "ABSURD_VALUE",
   "FIRST_USE", "UNCERTAIN", "DUPLICATE_RECENT", "CHANNEL_DEGRADED", "AMOUNT_MISMATCH",
   "NEGATIVE_ENRV"}

Condition == DecisionConditions \cup StoppingConditions \cup GateConditions

\* g7_approval_triggers.  An absurd value is above the threshold too.
ApprovalTriggers(a, c) ==
  (c \cap {"HIGH_VALUE", "ABSURD_VALUE", "FIRST_USE", "UNCERTAIN"})
    \cup (IF a \in ApprovalActions THEN {"ACTION_FAMILY"} ELSE {})

VerdictIf(test, verdict) == IF test THEN {verdict} ELSE {}

ApprovalVerdict(a, c, approval) ==
  CASE ApprovalTriggers(a, c) = {} \/ approval = "APPROVED"  -> {}
    [] ApprovalTriggers(a, c) # {} /\ approval = "REJECTED"  -> {"DENY"}
    [] OTHER                                                 -> {"REQUIRE_APPROVAL"}

\* evaluate_gates: the verdicts of G1 ... G12 that are not ALLOW.  A capacity
\* is looked at in the order retry slots, messages, budget, to one verdict.
GateVerdicts(a, c, approval) ==
  LET contact == a \in ContactActions
      retry   == a \in RetryActions
      holds(conditions) == c \cap conditions # {}
  IN  VerdictIf(contact /\ holds({"OPTED_OUT", "NO_CONSENT"}), "DENY")
      \cup VerdictIf(contact /\ holds({"OUTSIDE_HOURS"}), "DEFER")
      \cup VerdictIf(contact /\ holds({"CONTACTS_TODAY_AT_CAP"}), "DENY")
      \cup VerdictIf(retry /\ holds({"RETRIES_AT_CAP"}), "DENY")
      \cup VerdictIf(a \in IncentiveActions /\ holds({"INCENTIVE_OVER_MAX"}), "DENY")
      \cup VerdictIf(\/ retry /\ holds({"NO_RETRY_SLOTS"})
                     \/ contact /\ holds({"NO_MESSAGES"})
                     \/ a \in IncentiveActions /\ holds({"NO_INCENTIVE_BUDGET"}), "DEFER")
      \cup ApprovalVerdict(a, c, approval)
      \cup VerdictIf(holds({"RISK_FLAG", "KEY_CLAIMED", "DUPLICATE_RECENT"}), "DENY")
      \cup VerdictIf(contact /\ holds({"CHANNEL_DEGRADED"}), "DENY")
      \cup VerdictIf(holds({"ABSURD_VALUE", "NEGATIVE_ENRV"}), "DENY")
      \cup VerdictIf(retry /\ holds({"AMOUNT_MISMATCH"}), "DENY")

\* Mutant of WorstVerdict: approval is asked for before anything is denied.
WorstVerdictApprovalFirst(verdicts) ==
  CASE "REQUIRE_APPROVAL" \in verdicts -> "REQUIRE_APPROVAL"
    [] "DENY" \in verdicts /\ "REQUIRE_APPROVAL" \notin verdicts -> "DENY"
    [] verdicts = {"DEFER"}            -> "DEFER"
    [] verdicts = {}                   -> "ALLOW"

\* worst_verdict
WorstVerdict(verdicts) ==
  CASE "DENY" \in verdicts             -> "DENY"
    [] "REQUIRE_APPROVAL" \in verdicts /\ "DENY" \notin verdicts -> "REQUIRE_APPROVAL"
    [] verdicts = {"DEFER"}            -> "DEFER"
    [] verdicts = {}                   -> "ALLOW"

StateOfVerdict ==
  [ALLOW |-> "AUTHORIZED", DEFER |-> "REPLAN_REQUIRED",
   REQUIRE_APPROVAL |-> "REQUIRES_HUMAN_APPROVAL", DENY |-> "BLOCKED"]

\* authorize_execution, up to the record of its answer.
Reviewed(a, c, approval) ==
  IF "STALE" \in c THEN "STALE"
  ELSE IF "DECISION_EXPIRED" \in c THEN "EXPIRED"
  ELSE IF "REPLACED" \in c THEN "STALE"
  ELSE IF "RECONFIGURED" \in c THEN "REPLAN_REQUIRED"
  ELSE IF a = "A00" \/ c \cap ({"KEY_CLAIMED"} \cup StoppingConditions) # {} THEN "BLOCKED"
  ELSE StateOfVerdict[WorstVerdict(GateVerdicts(a, c, approval))]

\* Mutant of SimulatedApproval: a wide interval alone does not wake the approver.
SimulatedApprovalNotWidth(a, c) ==
  CASE ApprovalTriggers(a, c) \subseteq {"UNCERTAIN"} -> {"NONE"}
    [] ~(ApprovalTriggers(a, c) \subseteq {"UNCERTAIN"}) ->
         IF c \cap {"RISK_FLAG", "MERCHANT_HALT", "WRITTEN_OFF"} # {} THEN {"REJECTED"}
         ELSE {"APPROVED", "REJECTED"}

\* resolve_simulated_approval_state and simulated_v1_approval_state, as the set
\* of the states the keyed draw can yield.
SimulatedApproval(a, c) ==
  CASE ApprovalTriggers(a, c) = {} -> {"NONE"}
    [] ApprovalTriggers(a, c) # {} ->
         IF c \cap {"RISK_FLAG", "MERCHANT_HALT", "WRITTEN_OFF"} # {} THEN {"REJECTED"}
         ELSE {"APPROVED", "REJECTED"}
=============================================================================
