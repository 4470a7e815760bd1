----------------------------- MODULE Candidates -----------------------------
(***************************************************************************)
(* The candidate actions of a diagnosed opportunity,                       *)
(* revive/recovery/candidates: which actions its class and its causes      *)
(* allow (rules.py), and which of those can be taken now (feasibility.py). *)
(*                                                                         *)
(* No caller of generate_candidates passes a capacity, so every candidate  *)
(* that passes the other tests is AVAILABLE; the statuses of those that do *)
(* not are one, since the allocator drops them all.                        *)
(***************************************************************************)
EXTENDS Diagnosis

Action ==
  {"A00", "A01", "A02", "A03", "A04", "A05", "A06", "A07", "A08", "A09",
   "A10", "A11", "A12", "A13", "A14"}

\* Mutant of Message: the link to update an instrument is no message.
MessageWithoutUpdate == {"A04", "A05", "A06", "A07", "A08", "A09", "A10", "A11"}

Message   == {"A03", "A04", "A05", "A06", "A07", "A08", "A09", "A10", "A11"}
Retry     == {"A01", "A02", "A03"}
Incentive == {"A10", "A11"}
Human     == {"A13", "A14"}

\* _CLASS_ACTIONS of rules.py, from which the actions are enumerated.
ClassActions ==
  [PAYMENT_FAILURE      |-> {"A01", "A02", "A03", "A04", "A05", "A06", "A10", "A13"},
   CHECKOUT_ABANDONMENT |-> {"A04", "A05", "A06", "A07", "A10"},
   SUBSCRIPTION_FAILURE |-> {"A01", "A02", "A05", "A08", "A11", "A13"},
   RECEIVABLE_OVERDUE   |-> {"A05", "A08", "A09", "A10", "A11", "A13", "A14"},
   MANDATE_HEALTH       |-> {"A05", "A08", "A11", "A13"}]

\* _CLASS_ACTIONS of feasibility.py, against which they are tested.
CompatibleActions ==
  [PAYMENT_FAILURE      |-> {"A01", "A02", "A03", "A04"},
   CHECKOUT_ABANDONMENT |-> {"A05", "A06", "A07"},
   SUBSCRIPTION_FAILURE |-> {"A01", "A02", "A08"},
   RECEIVABLE_OVERDUE   |-> {"A05", "A08", "A09", "A14"},
   MANDATE_HEALTH       |-> {"A08", "A11"}]

Compatible(o, a) ==
  a \in {"A00"} \cup CompatibleActions[o.class] \cup Message \cup Human \cup Incentive

UnclassifiedAllowed == {"A02", "A03", "A05", "A13"}

Excluded(cause) ==
  CASE cause \in {"CARD_EXPIRED", "ISSUER_DECLINE_HARD", "MANDATE_REVOKED",
                  "AUTH_ABANDONED_BY_CUSTOMER"}                 -> {"A01", "A02"}
    [] cause = "QUERY_OR_DISPUTE_RAISED"                        -> Action \ ({"A00"} \cup Human)
    [] cause \in {"CUSTOMER_DECLINED_TO_PAY", "ORDER_NO_LONGER_WANTED"} -> Action \ {"A00"}
    [] OTHER                                                    -> {}

ForbidsImmediateRetry(cause) ==
  cause \in {"ISSUER_DOWNTIME", "CARD_EXPIRED", "ISSUER_DECLINE_HARD", "MANDATE_REVOKED"}

PrefersDelayedRetry(cause) ==
  cause \in {"INSUFFICIENT_FUNDS", "ISSUER_DOWNTIME", "GATEWAY_TIMEOUT", "GATEWAY_ERROR"}

\* enumerate_action_codes
Enumerated(o) ==
  LET ranks == RankedCauses(o)
      cause == ranks[1].cause
      base  == IF cause = "UNCLASSIFIED" THEN ClassActions[o.class] \cap UnclassifiedAllowed
               ELSE ClassActions[o.class]
      escalated == IF \E i \in DOMAIN ranks \cap {2, 3} :
                        ranks[i].cause \in {"DO_NOT_HONOUR_AMBIGUOUS", "BUYER_APPROVAL_PENDING"}
                   THEN {"A13"} ELSE {}
      eased == IF cause \in {"PRICE_OR_FEE_HESITATION", "BUYER_CASHFLOW_CONSTRAINT",
                             "INSUFFICIENT_FUNDS"}
               THEN {"A10"} \cup (IF o.class = "RECEIVABLE_OVERDUE" THEN {"A11"} ELSE {})
               ELSE {}
  IN  (base \ Excluded(cause)) \cup escalated \cup eased \cup {"A00"}

\* The delay of a scheduled retry, in hours.
RetryDelay(cause) == IF PrefersDelayedRetry(cause) THEN 2 ELSE 1

\* evaluate_feasibility says AVAILABLE.
Available(o, a) ==
  \/ a = "A00"
  \/ LET cause == PrimaryCause(o)
     IN  /\ "NOT_ADDRESSABLE" \notin o.signs
         /\ o.hours > 0
         /\ Compatible(o, a)
         /\ a \in Retry => "ATTEMPTS_USED" \notin o.signs
         /\ a = "A01" => ~ForbidsImmediateRetry(cause)
         /\ a = "A02" => RetryDelay(cause) < o.hours
         /\ a = "A03" => \/ "INSTRUMENT_EXPIRED" \in o.signs
                         \/ "INSTRUMENT_BLOCKED" \notin o.signs
         /\ a \in Message => {"OUTSIDE_HOURS", "CONTACTED_ENOUGH"} \cap o.signs = {}
         /\ a \in Incentive => o.value \notin {"NONE", "TRIFLING"}

Offered(o) == {a \in Enumerated(o) : Available(o, a)}
=============================================================================
