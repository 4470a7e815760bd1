------------------------------ MODULE Context ------------------------------
(***************************************************************************)
(* The observable context of a detected opportunity (recovery/context):    *)
(* the rows it refers to, the history of its customer, and what is going   *)
(* on around it.  Assembly reads the view once per opportunity, or the     *)
(* indexes over it that the cycles of REVIVE make once (benchmark/official/*)
(* performance/cycle_cache.py): both yield the reads of this module.       *)
(*                                                                         *)
(* What is kept of a context is what the diagnosis and the feasibility of  *)
(* the candidates test; the numbers the predictor alone takes are left out.*)
(***************************************************************************)
EXTENDS Sentinel

CONSTANTS
  ContactCap,      \* contact_cap_per_customer, in thirty days
  WeeklyCap,       \* contact_cap_7d
  MaxAttempts      \* max_retry_attempts

HistoryWindow == 90 * Day
ClusterWindow == 20
LocalOffset   == 5   \* the hours between virtual and local time

HasFailed(t)    == t.status = "FAILED"
HasSucceeded(t) == t.status = "SUCCESS"

-----------------------------------------------------------------------------
(* Reading the view row by row.                                            *)

Within(t, now, span) == t <= now /\ t >= now - span

\* A session that is anonymous has no customer, and no history.
CustomerAttempts(view, c, now) ==
  RestrictValues(view.transactions,
                 LAMBDA t : c # Anonymous /\ t.customer = c /\ Within(t.at, now, HistoryWindow))

\* A contact counts by the time its opportunity was first detected in the world.
ContactsWithin(view, c, now, span) ==
  FoldSet(LAMBDA o, n : n + o.contacts, 0,
          {o \in view.opportunities : o.customer = c /\ Within(o.first, now, span)})

PriorAbandonments(view, c, id, now) ==
  Cardinality({s \in view.sessions : /\ c # Anonymous /\ s.customer = c /\ s.id # id
                                     /\ Within(s.abandoned, now, HistoryWindow)})

PriorOverdue(view, c, id, now) ==
  Cardinality({i \in view.invoices : /\ i.customer = c /\ i.id # id /\ i.due <= now
                                     /\ i.state \in {"OVERDUE", "DISPUTED"}})

\* Failures and attempts of a method; of all methods, for the merchant.
FailureRate(view, methods, now) ==
  LET attempts == RestrictValues(RecentAttempts(view, now), LAMBDA t : t.method \in methods)
  IN  <<Count(attempts, HasFailed), Number(attempts)>>

\* The row of a set of rows with identity id.
RowWith(rows, id) == CHOOSE x \in rows : x.id = id

DirectReads(d, view, now) ==
  [attempts     |-> CustomerAttempts(view, d.customer, now),
   lastWeek     |-> ContactsWithin(view, d.customer, now, 7 * Day),
   lastMonth    |-> ContactsWithin(view, d.customer, now, 30 * Day),
   abandonments |-> PriorAbandonments(view, d.customer, d.ref, now),
   overdue      |-> PriorOverdue(view, d.customer, d.ref, now),
   degraded     |-> DegradedMethods(view, now),
   rates        |-> [m \in Method |-> FailureRate(view, {m}, now)],
   merchantRate |-> FailureRate(view, Method, now),
   row |-> CASE d.class = "CHECKOUT_ABANDONMENT" -> RowWith(view.sessions, d.ref)
             [] d.class = "SUBSCRIPTION_FAILURE" ->
                  RowWith(view.mandates, RowWith(view.subscriptions, d.ref).mandate)
             [] d.class = "RECEIVABLE_OVERDUE"   -> RowWith(view.invoices, d.ref)
             [] d.class = "MANDATE_HEALTH"       -> RowWith(view.mandates, d.ref)
             [] OTHER                            -> "NONE"]

-----------------------------------------------------------------------------
(* History of a customer, from the attempts that were read.                *)

\* Every attempt of a customer is made with the one instrument there is.
InstrumentWorks(attempts) ==
  LET successes == Count(attempts, HasSucceeded)
      failures  == Count(attempts, HasFailed)
  IN  successes >= 3 /\ 10 * successes >= 7 * (successes + failures)

ClusterSize(attempts, anchor) ==
  Count(attempts, LAMBDA t : HasFailed(t) /\ Within(t.at, anchor, ClusterWindow))

\* A debit of a subscription is an attempt on an order that is named after it.
FailedDebits(attempts, subscription) ==
  Count(attempts, LAMBDA t : t.order = subscription /\ HasFailed(t))

-----------------------------------------------------------------------------
(* What the diagnosis is told: the evidence of the class and the signs.    *)

Seeing(evidence, signs) == [evidence |-> evidence, signs |-> signs]

SignIf(test, sign) == IF test THEN {sign} ELSE {}

\* The last attempt on the order; of two at one time the first of the list.
LastAttempt(view, order, now) ==
  LET onOrder == RestrictValues(view.transactions, LAMBDA t : t.order = order /\ t.at <= now)
      last    == CHOOSE i \in DOMAIN onOrder :
                   \A j \in DOMAIN onOrder : \/ onOrder[j].at < onOrder[i].at
                                             \/ onOrder[j].at = onOrder[i].at /\ i <= j
  IN  onOrder[last]

PaymentContext(d, reads, view, now) ==
  LET last       == LastAttempt(view, d.ref, now)
      instrument == InstrumentOf[last.customer]
  IN  Seeing(last.reason,
             SignIf(instrument.blocked, "INSTRUMENT_BLOCKED")
             \cup SignIf(instrument.expired, "INSTRUMENT_EXPIRED")
             \cup SignIf(d.degraded, "DEGRADATION_FLAG")
             \cup SignIf(last.method \in reads.degraded, "DEGRADATION_OBSERVED")
             \cup SignIf(InstrumentWorks(reads.attempts), "INSTRUMENT_WORKS")
             \cup SignIf(ClusterSize(reads.attempts, last.at) >= 3, "FAILURE_CLUSTER"))

CheckoutContext(reads) ==
  Seeing(CASE reads.row.stage \in {"PAYMENT_INIT", "PAYMENT_ATTEMPT"} -> "PAYMENT_INITIATED"
           [] reads.row.stage \in {"CART", "CHECKOUT"}                -> "AT_CHECKOUT"
           [] OTHER                                                   -> "ELSEWHERE",
         SignIf(reads.abandonments >= 2, "ABANDONED_BEFORE")
         \cup SignIf(reads.row.cart >= 50000, "LARGE_CART"))

SubscriptionContext(d, reads) ==
  Seeing(CASE reads.row.state = "REVOKED"                 -> "REVOKED"
           [] reads.row.state \in {"EXPIRED", "EXPIRING"} -> "EXPIRING"
           [] FailedDebits(reads.attempts, d.ref) >= 2    -> "DEBITS_FAILED"
           [] OTHER                                       -> "ACTIVE",
         {})

\* The age is the one the invoice was written with, whatever now is.
ReceivableContext(d, reads) ==
  Seeing(CASE reads.row.disputed > 0               -> "DISPUTED"
           [] reads.row.disputed = 0 /\ d.age <= 15 -> "DAYS_15"
           [] reads.row.disputed = 0 /\ d.age \in 16 .. 30 -> "DAYS_30"
           [] OTHER                                -> "OLDER",
         SignIf(reads.overdue >= 2, "OVERDUE_BEFORE"))

MandateContext(reads) ==
  Seeing(IF reads.row.state = "REVOKED" THEN "REVOKED" ELSE "EXPIRING", {})

-----------------------------------------------------------------------------
(* What the feasibility of the candidates is told.                         *)

LocalHour(now) == (now \div Hour + LocalOffset) % 24

GeneralSigns(d, reads, now) ==
  SignIf(d.hindrance # "NONE", "NOT_ADDRESSABLE")
  \cup SignIf(d.seq >= MaxAttempts, "ATTEMPTS_USED")
  \cup SignIf(LocalHour(now) \notin 9 .. 18, "OUTSIDE_HOURS")
  \cup SignIf(reads.lastWeek >= WeeklyCap \/ reads.lastMonth >= ContactCap, "CONTACTED_ENOUGH")

\* The hours until the window closes, rounded up: what the delay of a retry is
\* compared with.
HoursLeft(d, now) ==
  IF now >= d.expires THEN 0 ELSE Smaller(3, (d.expires - now + Hour - 1) \div Hour)

ValueBand(v) ==
  IF v <= 0 THEN "NONE" ELSE IF v < 20 THEN "TRIFLING" ELSE IF v < 8000000 THEN "USUAL"
  ELSE IF v <= 100000000 THEN "HIGH" ELSE "ABSURD"

\* assemble_context, as the decision stages see it.
Assembled(d, reads, view, now) ==
  LET part == CASE d.class = "PAYMENT_FAILURE"      -> PaymentContext(d, reads, view, now)
                [] d.class = "CHECKOUT_ABANDONMENT" -> CheckoutContext(reads)
                [] d.class = "SUBSCRIPTION_FAILURE" -> SubscriptionContext(d, reads)
                [] d.class = "RECEIVABLE_OVERDUE"   -> ReceivableContext(d, reads)
                [] d.class = "MANDATE_HEALTH"       -> MandateContext(reads)
  IN  [class |-> d.class, evidence |-> part.evidence,
       signs |-> part.signs \cup GeneralSigns(d, reads, now),
       value |-> ValueBand(d.value), hours |-> HoursLeft(d, now)]

-----------------------------------------------------------------------------
(* The indexes of a cycle.                                                 *)

\* Rows by customer, those that have one.
ByCustomer(rows) == [c \in Customer |-> {x \in rows : x.customer = c}]

RowsById(rows) == [id \in {x.id : x \in rows} |-> RowWith(rows, id)]

NoContacts == [lastWeek |-> 0, lastMonth |-> 0]

\* One pass over the opportunities adds to what is counted for their customer.
ContactStats(view, now) ==
  LET add(o, stats) ==
        [stats EXCEPT
           ![o.customer].lastMonth = @ + IF Within(o.first, now, 30 * Day) THEN o.contacts ELSE 0,
           ![o.customer].lastWeek  = @ + IF Within(o.first, now, 7 * Day) THEN o.contacts ELSE 0]
  IN  FoldSet(add, [c \in Customer |-> NoContacts], view.opportunities)

\* The cache of a view at a time.
CacheOf(view, now) ==
  LET past == RestrictValues(view.transactions, LAMBDA t : Within(t.at, now, HistoryWindow))
  IN  [now       |-> now,
       attempts  |-> [c \in Customer |-> RestrictValues(past, LAMBDA t : t.customer = c)],
       contacts  |-> ContactStats(view, now),
       sessions  |-> ByCustomer(view.sessions),
       invoices  |-> ByCustomer(view.invoices),
       degraded  |-> DegradedMethods(view, now),
       rates     |-> [m \in Method |-> FailureRate(view, {m}, now)],
       merchantRate |-> FailureRate(view, Method, now),
       sessionOf |-> RowsById(view.sessions),
       subscriptionOf |-> RowsById(view.subscriptions),
       mandateOf |-> RowsById(view.mandates),
       invoiceOf |-> RowsById(view.invoices)]

\* What an index has for a customer; the anonymous one is in none.
Indexed(index, c, default) == IF c = Anonymous THEN default ELSE index[c]

\* Mutant of CachedAbandonments: the session itself is not left out.
AbandonmentsWithItself(cache, d) ==
  Cardinality({s \in Indexed(cache.sessions, d.customer, {}) :
                 Within(s.abandoned, cache.now, HistoryWindow)})

CachedAbandonments(cache, d) ==
  Cardinality({s \in Indexed(cache.sessions, d.customer, {}) :
                 s.id # d.ref /\ Within(s.abandoned, cache.now, HistoryWindow)})

CachedOverdue(cache, d) ==
  Cardinality({i \in Indexed(cache.invoices, d.customer, {}) :
                 i.id # d.ref /\ i.due <= cache.now /\ i.state \in {"OVERDUE", "DISPUTED"}})

\* The reads of assemble_context where it is handed a cache.
CachedReads(d, cache) ==
  [attempts     |-> Indexed(cache.attempts, d.customer, <<>>),
   lastWeek     |-> Indexed(cache.contacts, d.customer, NoContacts).lastWeek,
   lastMonth    |-> Indexed(cache.contacts, d.customer, NoContacts).lastMonth,
   abandonments |-> CachedAbandonments(cache, d),
   overdue      |-> CachedOverdue(cache, d),
   degraded     |-> cache.degraded,
   rates        |-> cache.rates,
   merchantRate |-> cache.merchantRate,
   row |-> CASE d.class = "CHECKOUT_ABANDONMENT" -> cache.sessionOf[d.ref]
             [] d.class = "SUBSCRIPTION_FAILURE" ->
                  cache.mandateOf[cache.subscriptionOf[d.ref].mandate]
             [] d.class = "RECEIVABLE_OVERDUE"   -> cache.invoiceOf[d.ref]
             [] d.class = "MANDATE_HEALTH"       -> cache.mandateOf[d.ref]
             [] OTHER                            -> "NONE"]
=============================================================================
