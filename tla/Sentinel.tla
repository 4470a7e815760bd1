------------------------------ MODULE Sentinel ------------------------------
(***************************************************************************)
(* The revenue sentinel (recovery/sentinel/detect.py and the files it      *)
(* uses): the opportunities of a view at a time, one for each natural key, *)
(* with their value, their window and whether they can be addressed.       *)
(*                                                                         *)
(* The signals of a view are ingested too, but their source is the         *)
(* identity of an opportunity, which no draft refers to: they decide       *)
(* nothing, and are left out.                                              *)
(***************************************************************************)
EXTENDS SyntheticWorld

RecoveryWindow ==
  [PAYMENT_FAILURE      |-> 14 * Day,
   CHECKOUT_ABANDONMENT |-> 48 * Hour,
   SUBSCRIPTION_FAILURE |-> 14 * Day,
   RECEIVABLE_OVERDUE   |-> 90 * Day,
   MANDATE_HEALTH       |-> 14 * Day]

BillingWindow     == 45 * Day
DegradationWindow == 90
DegradationLeast  == 3    \* attempts

-----------------------------------------------------------------------------
(* Natural keys: one opportunity for each distinct loss.                   *)

PaymentKey(customer, order)    == <<"PAYMENT_FAILURE", customer, order>>
CheckoutKey(customer, session) ==
  <<"CHECKOUT_ABANDONMENT", IF customer = Anonymous THEN session ELSE customer, session>>
SubscriptionKey(id, number)    == <<"SUBSCRIPTION_FAILURE", id, number>>
ReceivableKey(id)              == <<"RECEIVABLE_OVERDUE", id>>
MandateKey(id, expires)        == <<"MANDATE_HEALTH", id, expires>>

Draft(key, ref, customer, gross, first) ==
  [key |-> key, class |-> key[1], ref |-> ref, customer |-> customer, gross |-> gross,
   first |-> first, seq |-> 1, method |-> "NONE", settled |-> FALSE, disputed |-> FALSE,
   writtenOff |-> FALSE, determinable |-> TRUE, age |-> 0]

Larger(a, b)  == IF a >= b THEN a ELSE b
Smaller(a, b) == IF a <= b THEN a ELSE b

-----------------------------------------------------------------------------
(* Payments: the attempts are read in the order of the list.               *)

Settlements == {"SUCCESS", "PAID", "SETTLED", "CAPTURED"}

AttemptDraft(t) ==
  [Draft(PaymentKey(t.customer, t.order), t.order, t.customer, t.amount, t.at)
     EXCEPT !.seq = t.seq, !.method = t.method]

\* Mutant of Merge: another failure starts the window anew.
MergeStartsAnew(d, e) ==
  [d EXCEPT !.seq = Larger(d.seq, e.seq), !.first = Larger(d.first, e.first),
            !.gross = Larger(d.gross, e.gross)]

\* merge: what came first keeps its method, and whether it is settled.
Merge(d, e) ==
  [d EXCEPT !.seq = Larger(d.seq, e.seq), !.first = Smaller(d.first, e.first),
            !.gross = Larger(d.gross, e.gross)]

\* Mutant of Settled: what is settled keeps its value.
SettledKeepsValue(drafts, key) ==
  IF key \in DOMAIN drafts THEN [drafts EXCEPT ![key].settled = TRUE] ELSE drafts

\* A settlement takes the value of what is known to have failed before it.
Settled(drafts, key) ==
  IF key \in DOMAIN drafts THEN [drafts EXCEPT ![key].settled = TRUE, ![key].gross = 0]
  ELSE drafts

Failed(drafts, e) ==
  IF e.key \in DOMAIN drafts THEN [drafts EXCEPT ![e.key] = Merge(@, e)]
  ELSE [k \in DOMAIN drafts \cup {e.key} |-> IF k = e.key THEN e ELSE drafts[k]]

Attempted(drafts, t) ==
  CASE t.status \in Settlements -> Settled(drafts, PaymentKey(t.customer, t.order))
    [] t.status = "FAILED"      -> Failed(drafts, AttemptDraft(t))
    [] OTHER                    -> drafts

\* What is known after some attempts.
Known(attempts) == FoldLeft(Attempted, <<>>, attempts)

PaymentDrafts(view, now) ==
  Range(Known(RestrictValues(view.transactions, LAMBDA t : t.at <= now)))

-----------------------------------------------------------------------------
(* The other classes.                                                      *)

RiskStages == {"CART", "CHECKOUT", "PAYMENT_INIT", "PAYMENT_ATTEMPT"}

CheckoutDrafts(view, now) ==
  {[Draft(CheckoutKey(s.customer, s.id), s.id, s.customer, s.cart, s.abandoned)
      EXCEPT !.determinable = s.cart > 0] :
    s \in {s \in view.sessions : s.abandoned <= now /\ s.stage \in RiskStages}}

\* A subscription that is past due counts before its next charge is due, as
\* detected now, whenever now is.
SubscriptionDrafts(view, now) ==
  {Draft(SubscriptionKey(s.id, s.number), s.id, s.customer, s.amount,
         Smaller(s.nextCharge, now)) :
    s \in {s \in view.subscriptions : s.state = "PAST_DUE" \/ s.nextCharge <= now}}

Outstanding(i) == Larger(0, i.issued - i.paid - i.credited - i.writtenOff - i.disputed)

IsDisputed(i)   == i.disputed > 0 \/ i.state = "DISPUTED"
IsWrittenOff(i) == i.writtenOff > 0 /\ Outstanding(i) = 0

\* Paid in full, or nothing left and no reason for that.
IsClosed(i) == Outstanding(i) = 0 /\ (i.paid > 0 \/ ~(IsWrittenOff(i) \/ IsDisputed(i)))

ReceivableDrafts(view, now) ==
  {[Draft(ReceivableKey(i.id), i.id, i.customer, Outstanding(i), i.due)
      EXCEPT !.disputed = IsDisputed(i) /\ Outstanding(i) = 0,
             !.writtenOff = IsWrittenOff(i), !.age = i.age] :
    i \in {i \in view.invoices : i.due <= now /\ ~IsClosed(i)}}

Ailing == {"EXPIRING", "REVOKED", "EXPIRED"}

\* Mutant of AtRisk: the mandate of a subscription is a loss of its own.
AtRiskAlsoCharged(m, view, now) == m.state \in Ailing \/ m.expires <= now + BillingWindow

\* An ailing mandate, or one that expires soon and charges no subscription.
AtRisk(m, view, now) ==
  /\ m.state \in Ailing \/ m.expires <= now + BillingWindow
  /\ m.state \in Ailing \/ \A s \in view.subscriptions : s.mandate # m.id
  /\ m.state \in {"EXPIRING", "REVOKED"} \/ m.expires <= now + BillingWindow

MandateDrafts(view, now) ==
  {Draft(MandateKey(m.id, m.expires), m.id, m.customer, m.amount, Smaller(m.expires, now)) :
    m \in {m \in view.mandates : AtRisk(m, view, now)}}

Drafts(view, now) ==
  UNION {PaymentDrafts(view, now), CheckoutDrafts(view, now), SubscriptionDrafts(view, now),
         ReceivableDrafts(view, now), MandateDrafts(view, now)}

-----------------------------------------------------------------------------
(* Assessment.                                                             *)

\* Mutant of RecentAttempts: attempts that lie ahead count too.
RecentAttemptsAhead(view, now) ==
  RestrictValues(view.transactions, LAMBDA t : t.at >= now - DegradationWindow)

\* The attempts the failure rates are taken of.
RecentAttempts(view, now) ==
  RestrictValues(view.transactions, LAMBDA t : t.at >= now - DegradationWindow /\ t.at <= now)

\* How many rows there are, and how many of them pass a test.
Number(rows)         == Cardinality(DOMAIN rows)
Count(rows, Test(_)) == Number(RestrictValues(rows, Test))

\* The methods of which at least 60 % of the recent attempts have failed.
DegradedMethods(view, now) ==
  {m \in Method :
    LET attempts == RestrictValues(RecentAttempts(view, now), LAMBDA t : t.method = m)
        failures == Count(attempts, LAMBDA t : t.status = "FAILED")
    IN  Number(attempts) >= DegradationLeast /\ 10 * failures >= 6 * Number(attempts)}

WindowEnd(d) == d.first + RecoveryWindow[d.class]

\* classify_addressability: the first reason that applies.
Hindrance(d, now) ==
  IF ~d.determinable THEN "AMOUNT_NOT_DETERMINABLE"
  ELSE IF d.gross <= 0 THEN IF d.settled THEN "ALREADY_SETTLED"
                            ELSE IF d.writtenOff THEN "WRITTEN_OFF" ELSE "ZERO_AMOUNT"
  ELSE IF d.disputed THEN "DISPUTED"
  ELSE IF now >= WindowEnd(d) THEN "WINDOW_EXPIRED"
  ELSE IF d.class = "CHECKOUT_ABANDONMENT" /\ d.customer = Anonymous THEN "ANONYMOUS_CHECKOUT"
  ELSE "NONE"

Assessed(d, view, now) ==
  [key |-> d.key, class |-> d.class, ref |-> d.ref, customer |-> d.customer, value |-> d.gross,
   first |-> d.first, expires |-> WindowEnd(d), hindrance |-> Hindrance(d, now), seq |-> d.seq,
   degraded |-> d.method \in DegradedMethods(view, now), age |-> d.age]

Detect(view, now) == {Assessed(d, view, now) : d \in Drafts(view, now)}

-----------------------------------------------------------------------------
(* The two identities of an opportunity: what is detected, and the row of  *)
(* the world that decisions are carried to and measured on, matched by     *)
(* natural key (recovery/sentinel/identity_bridge.py).                     *)

\* canonical_natural_key_from_observable_opportunity.  The key of a checkout is
\* made of the customer of the opportunity, not of the session.
CanonicalKey(o, view) ==
  CASE o.class = "PAYMENT_FAILURE"      -> PaymentKey(o.customer, o.id)
    [] o.class = "CHECKOUT_ABANDONMENT" -> CheckoutKey(o.customer, o.id)
    [] o.class = "SUBSCRIPTION_FAILURE" ->
         SubscriptionKey(o.id, (CHOOSE s \in view.subscriptions : s.id = o.id).number)
    [] o.class = "RECEIVABLE_OVERDUE"   -> ReceivableKey(o.id)
    [] o.class = "MANDATE_HEALTH"       ->
         MandateKey(o.id, (CHOOSE m \in view.mandates : m.id = o.id).expires)

\* REVIVE goes from what was detected to the rows of the world that have its key:
\* the index refuses a second one.
RowsOf(detected, view) == {o \in view.opportunities : CanonicalKey(o, view) = detected.key}

\* A baseline goes from a row of the world to what was detected: nothing is
\* pursued where that is nothing.
DetectedOf(o, found, view) == {d \in found : d.key = CanonicalKey(o, view)}

\* What each of them may pursue.
PursuedByBaselines(found, view) ==
  UNION {DetectedOf(o, found, view) : o \in view.opportunities}
=============================================================================
