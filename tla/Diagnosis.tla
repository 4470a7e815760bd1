------------------------------ MODULE Diagnosis ------------------------------
(***************************************************************************)
(* The diagnosis of an opportunity, revive/recovery/diagnosis/rules.py:    *)
(* the causes its observable context speaks for, in the order of their     *)
(* rank, the first being the one the rest of the engine acts on.           *)
(*                                                                         *)
(* An opportunity is a record of its risk class, of the evidence its class *)
(* is diagnosed from, and of the signs that are observed with it: a sign   *)
(* stands for the outcome of one test the code makes of the context.       *)
(***************************************************************************)
EXTENDS Integers, SequencesExt

\* The classes of revenue at risk (domain/enums.py).
RiskClass ==
  {"PAYMENT_FAILURE", "CHECKOUT_ABANDONMENT", "SUBSCRIPTION_FAILURE",
   "RECEIVABLE_OVERDUE", "MANDATE_HEALTH"}

\* RAW_REASON_TO_CAUSE, one reason for each cause it yields.  UNMAPPED stands
\* for an unknown reason and for none.
CauseOfReason ==
  [INSUFFICIENT_FUNDS   |-> "INSUFFICIENT_FUNDS",
   EXPIRED_CARD         |-> "CARD_EXPIRED",
   ISSUER_DOWN          |-> "ISSUER_DOWNTIME",
   NETWORK_ERROR        |-> "GATEWAY_TIMEOUT",
   GATEWAY_ERROR        |-> "GATEWAY_ERROR",
   INVALID_INSTRUMENT   |-> "INSTRUMENT_INVALID",
   INSTRUMENT_BLOCKED   |-> "INSTRUMENT_BLOCKED",
   DECLINED             |-> "DO_NOT_HONOUR_AMBIGUOUS",
   CARD_DECLINED        |-> "ISSUER_DECLINE_SOFT",
   AUTHENTICATION_ERROR |-> "AUTH_SYSTEM_FAILURE",
   AUTH_TIMEOUT         |-> "AUTH_TIMEOUT",
   AUTH_ABANDONED       |-> "AUTH_ABANDONED_BY_CUSTOMER",
   UNMAPPED             |-> "UNCLASSIFIED"]

\* What the context of a class can hold: MISSING when its part is not there.
Evidence ==
  [PAYMENT_FAILURE      |-> DOMAIN CauseOfReason,
   CHECKOUT_ABANDONMENT |-> {"PAYMENT_INITIATED", "AT_CHECKOUT", "ELSEWHERE", "MISSING"},
   SUBSCRIPTION_FAILURE |-> {"REVOKED", "EXPIRING", "DEBITS_FAILED", "ACTIVE", "MISSING"},
   RECEIVABLE_OVERDUE   |-> {"DISPUTED", "DAYS_15", "DAYS_30", "OLDER", "MISSING"},
   MANDATE_HEALTH       |-> {"REVOKED", "EXPIRING", "MISSING"}]

Rank(cause, band) == [cause |-> cause, band |-> band]

\* The ranks listed when a test holds.
When(test, rank) == IF test THEN <<rank>> ELSE <<>>

\* A cause is kept where it is first listed.
KeepFirst(ranks) ==
  LET add(kept, r) == IF \E i \in DOMAIN kept : kept[i].cause = r.cause THEN kept
                      ELSE Append(kept, r)
  IN  FoldLeft(add, <<>>, ranks)

\* What is observed of the instrument goes before a degradation of its method,
\* and that before the reason the attempt failed for.
PaymentCauses(o) ==
  LET mapped == CauseOfReason[o.evidence]
  IN  KeepFirst(
        When("INSTRUMENT_BLOCKED" \in o.signs, Rank("INSTRUMENT_BLOCKED", "HIGH"))
        \o When({"DEGRADATION_FLAG", "DEGRADATION_OBSERVED"} \cap o.signs # {},
                Rank("ISSUER_DOWNTIME", IF "INSTRUMENT_WORKS" \in o.signs THEN "MED" ELSE "HIGH"))
        \o <<Rank(mapped, IF mapped = "UNCLASSIFIED" THEN "LOW" ELSE "HIGH")>>
        \o When("FAILURE_CLUSTER" \in o.signs /\ "DEGRADATION_FLAG" \notin o.signs,
                Rank("DO_NOT_HONOUR_AMBIGUOUS", "LOW")))

CheckoutCauses(o) ==
  KeepFirst(
    <<CASE o.evidence = "PAYMENT_INITIATED" -> Rank("AUTH_ABANDONED_BY_CUSTOMER", "MED")
        [] o.evidence = "AT_CHECKOUT"       -> Rank("CHECKOUT_STEP_FRICTION", "MED")
        [] o.evidence = "ELSEWHERE"         -> Rank("SESSION_INTERRUPTED", "LOW")>>
    \o When("ABANDONED_BEFORE" \in o.signs, Rank("CHECKOUT_STEP_FRICTION", "MED"))
    \o When("LARGE_CART" \in o.signs, Rank("PRICE_OR_FEE_HESITATION", "LOW")))

SubscriptionCauses(o) ==
  CASE o.evidence = "REVOKED"       -> <<Rank("MANDATE_REVOKED", "HIGH")>>
    [] o.evidence = "EXPIRING"      -> <<Rank("MANDATE_EXPIRED", "HIGH")>>
    [] o.evidence = "DEBITS_FAILED" -> <<Rank("INSUFFICIENT_FUNDS", "MED"),
                                         Rank("ISSUER_DOWNTIME", "LOW")>>
    [] o.evidence = "ACTIVE"        -> <<Rank("MANDATE_NOT_PRESENTED", "LOW")>>

\* These are not de-duplicated.
ReceivableCauses(o) ==
  CASE o.evidence = "DISPUTED" -> <<Rank("QUERY_OR_DISPUTE_RAISED", "HIGH")>>
    [] OTHER ->
         <<CASE o.evidence = "DAYS_15" -> Rank("OVERSIGHT_OR_FORGOTTEN", "LOW")
             [] o.evidence = "DAYS_30" -> Rank("BUYER_CASHFLOW_CONSTRAINT", "MED")
             [] o.evidence = "OLDER"   -> Rank("BUYER_CASHFLOW_CONSTRAINT", "HIGH")>>
         \o When("OVERDUE_BEFORE" \in o.signs, Rank("BUYER_CASHFLOW_CONSTRAINT", "MED"))

MandateCauses(o) ==
  CASE o.evidence = "REVOKED"  -> <<Rank("MANDATE_REVOKED", "HIGH")>>
    [] o.evidence = "EXPIRING" -> <<Rank("MANDATE_EXPIRED", "HIGH")>>

RankedCauses(o) ==
  CASE o.evidence = "MISSING"             -> <<Rank("UNCLASSIFIED", "LOW")>>
    [] o.evidence # "MISSING" ->
         CASE o.class = "PAYMENT_FAILURE"      -> PaymentCauses(o)
           [] o.class = "CHECKOUT_ABANDONMENT" -> CheckoutCauses(o)
           [] o.class = "SUBSCRIPTION_FAILURE" -> SubscriptionCauses(o)
           [] o.class = "RECEIVABLE_OVERDUE"   -> ReceivableCauses(o)
           [] o.class = "MANDATE_HEALTH"       -> MandateCauses(o)

PrimaryCause(o) == RankedCauses(o)[1].cause
=============================================================================
