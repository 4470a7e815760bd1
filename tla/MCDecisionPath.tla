--------------------------- MODULE MCDecisionPath ---------------------------
(* Instance of CyclePath for TLC: opportunities and contexts that depart    *)
(* from the usual in few ways at a time, and small worlds.                  *)
EXTENDS CyclePath

SignsOf(class) ==
  {"NOT_ADDRESSABLE", "ATTEMPTS_USED", "OUTSIDE_HOURS", "CONTACTED_ENOUGH"}
    \cup (CASE class = "PAYMENT_FAILURE"      ->
                 {"INSTRUMENT_BLOCKED", "INSTRUMENT_EXPIRED", "DEGRADATION_FLAG",
                  "DEGRADATION_OBSERVED", "INSTRUMENT_WORKS", "FAILURE_CLUSTER"}
            [] class = "CHECKOUT_ABANDONMENT" -> {"ABANDONED_BEFORE", "LARGE_CART"}
            [] class = "RECEIVABLE_OVERDUE"   -> {"OVERDUE_BEFORE"}
            [] OTHER                          -> {})

\* At most two signs, and at most two conditions that a caller adds.
AtMostTwo(S) == {{}} \cup {{x, y} : x, y \in S}

MaxDepartures == 2   \* signs, an unusual value and a window that closes, together

MCOpportunities ==
  UNION {{o \in [class : {r}, evidence : Evidence[r], signs : AtMostTwo(SignsOf(r)),
                 value : Value, hours : {0, 1, 2, 3}] : IsOpportunity(o)
            /\ Cardinality(o.signs) + (IF o.value = "USUAL" THEN 0 ELSE 1)
                 + (IF o.hours = 3 THEN 0 ELSE 1) <= MaxDepartures}
         : r \in RiskClass}

\* One usual opportunity of each class.
Usual ==
  {o \in MCOpportunities : o.signs = {} /\ o.value = "USUAL" /\ o.hours = 3 /\
     o.evidence \in {"INSUFFICIENT_FUNDS", "ELSEWHERE", "DEBITS_FAILED", "DAYS_30", "EXPIRING"}
       \ (IF o.class = "SUBSCRIPTION_FAILURE" THEN {"EXPIRING"} ELSE {})}

\* A caller's context departs in two ways from that of a usual opportunity, in
\* one way where its value is another, and in none elsewhere.
MCCallerContexts(o) ==
  CASE o \in Usual                                   -> AtMostTwo(Condition \ Derived)
    [] [o EXCEPT !.value = "USUAL"] \in Usual \ {o} -> {{}} \cup {{x} : x \in Condition \ Derived}
    [] OTHER                                         -> {{}}

-----------------------------------------------------------------------------
\* One customer whose instrument works, one whose card is blocked.
CONSTANTS ann, bob, nobody, l1, l2, l3, paid

MCInstrumentOf ==
  (ann :> [method |-> "UPI", blocked |-> FALSE, expired |-> FALSE])
    @@ (bob :> [method |-> "CARD", blocked |-> TRUE, expired |-> TRUE])

At(day, hour) == day * Day + hour * Hour

LossOf(id, class, customer, at, amount) ==
  [id |-> id, class |-> class, customer |-> customer, at |-> at, amount |-> amount]

Payment(id, c, at, reason)   == LossOf(id, "PAYMENT_FAILURE", c, at, 60000) @@ [reason |-> reason]
Checkout(id, c, at, anonymous) ==
  LossOf(id, "CHECKOUT_ABANDONMENT", c, at, 60000) @@ [stage |-> "CART", anonymous |-> anonymous]
Subscription(id, c, at)      == LossOf(id, "SUBSCRIPTION_FAILURE", c, at, 1000) @@ [number |-> 3]
Invoice(id, c, at, days)     == LossOf(id, "RECEIVABLE_OVERDUE", c, at, 9000000) @@ [days |-> days]
Mandate(id, c, at, days)     == LossOf(id, "MANDATE_HEALTH", c, at, 60000) @@ [days |-> days]

\* The first attempt on the order of a payment, and later ones.
First(l)           == TransactionOf(l)
Again(l, n, at)    == [TransactionOf(l) EXCEPT !.seq = n, !.at = at]
Success(order, c, at) ==
  [order |-> order, customer |-> c, amount |-> 60000, method |-> MCInstrumentOf[c].method,
   seq |-> 1, status |-> "SUCCESS", reason |-> "UNMAPPED", at |-> at]

WorldOf(losses, attempts, cyc) == [losses |-> losses, attempts |-> attempts, cycles |-> cyc]

\* Failures that follow each other, the last of them ahead of the first cycle;
\* ann's contacts on them are many enough.
Cluster ==
  LET p == Payment(l1, ann, At(2, 10), "GATEWAY_ERROR")
      q == Payment(l2, ann, At(2, 10) + 5, "DECLINED")
      r == Payment(l3, ann, At(2, 10) + 20, "INSUFFICIENT_FUNDS")
  IN  WorldOf({p, q, r}, <<First(p), First(q), First(r)>>,
              {At(2, 10) + 15, At(2, 10) + 30, At(12, 4)})

\* An order that fails, fails again when its window is nearly over and is paid;
\* one that is paid and fails again after that; and one that fails again when
\* its window is over.
Settling ==
  LET p == Payment(l1, ann, At(2, 10), "INSUFFICIENT_FUNDS")
      q == Payment(l2, bob, At(3, 10), "EXPIRED_CARD")
      r == Payment(l3, bob, At(1, 0), "DECLINED")
  IN  WorldOf({p, q, r},
              <<First(r), Success(paid, ann, At(1, 1)), Success(paid, ann, At(1, 2)), Success(paid, ann, At(1, 3)),
                First(p), First(q), Again(p, 5, At(15, 0)), Success(l1, ann, At(15, 12)),
                Again(r, 2, At(17, 7)), Success(l2, bob, At(17, 8)), Again(q, 2, At(17, 9))>>,
              {At(3, 10), At(15, 6), At(15, 13), At(16, 10), At(17, 8), At(17, 10)})

Carts ==
  LET a == Checkout(l1, ann, At(2, 0), FALSE)
      b == Checkout(l2, ann, At(3, 0), FALSE)
      c == Checkout(l3, ann, At(3, 6), FALSE)
  IN  WorldOf({a, b, c}, <<>>, {At(2, 5), At(3, 5), At(3, 7), At(5, 0)})

\* A cart that nobody owns, an invoice of the one who may own it, and a payment.
Mixed ==
  LET a == Checkout(l1, ann, At(2, 6), TRUE)
      i == Invoice(l2, ann, At(20, 0), 16)
      p == Payment(l3, ann, At(2, 7), "AUTH_ABANDONED")
  IN  WorldOf({a, i, p}, <<First(p)>>, {At(2, 7), At(5, 5), At(9, 9), At(34, 9)})

Invoices ==
  LET i == Invoice(l1, bob, At(30, 0), 30)
      j == Invoice(l2, bob, At(40, 0), 20)
      k == Invoice(l3, bob, At(50, 0), 45)
  IN  WorldOf({i, j, k}, <<>>, {At(1, 6), At(15, 5), At(25, 6), At(90, 5), At(95, 5)})

\* A subscription whose mandate nears its end, and a mandate that is ailing.
Standing ==
  LET s == Subscription(l1, ann, At(3, 0))
      m == Mandate(l2, ann, At(4, 0), 7)
  IN  WorldOf({s, m}, <<>>, {At(1, 6), At(11, 5), At(20, 6), At(140, 5), At(185, 5)})

MCWorlds == {Cluster, Settling, Carts, Mixed, Invoices, Standing}
=============================================================================
