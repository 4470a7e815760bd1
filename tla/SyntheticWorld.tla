--------------------------- MODULE SyntheticWorld ---------------------------
(***************************************************************************)
(* The rows of a synthetic world and what is observed of them              *)
(* (simulation/generator.py, simulation/observation.py).                   *)
(*                                                                         *)
(* The generator draws losses one after the other and writes the rows of   *)
(* each at once: the whole world is there from the start, the rows whose   *)
(* time lies ahead included.  Only the rows of the opportunities change    *)
(* later on.  The generator writes one failed attempt for an order; a view *)
(* may hold further attempts, as the tests of the sentinel have them.      *)
(* Readers of the list filter it: what they keep stays at its place, so     *)
(* that a part of the list is a function on some of the places.            *)
(*                                                                         *)
(* Time is counted in minutes, money in paise.  The identities of all rows *)
(* of a loss are made of that of the loss, and stand here as it.           *)
(***************************************************************************)
EXTENDS Diagnosis, FiniteSets

CONSTANTS
  Loss,          \* identities of the losses
  Order,         \* identities of the orders: those of the losses, and others
  Customer,
  Anonymous,     \* the customer of a session that nobody has logged in to
  InstrumentOf   \* the one instrument of each customer

Hour == 60
Day  == 24 * Hour

Method == {"CARD", "UPI", "NETBANKING"}

\* An instrument of poor health has expired, one of the poorest is blocked too.
Instrument == {i \in [method : Method, blocked : BOOLEAN, expired : BOOLEAN] : i.blocked => i.expired}

\* Identities of different kinds differ by their prefix (deterministic_id).
ASSUME RowsAssumption ==
  /\ Loss \subseteq Order
  /\ Anonymous \notin Customer
  /\ Loss \cap (Customer \cup {Anonymous}) = {}
  /\ InstrumentOf \in [Customer -> Instrument]

\* What the generator draws: the time "at" is the detected_micros of all rows.
\* "days" is the age of an invoice or what a mandate has left.
IsLoss(l) ==
  /\ l.id \in Loss /\ l.class \in RiskClass /\ l.customer \in Customer
  /\ l.at \in Nat /\ l.at >= Day /\ l.amount \in Nat /\ l.amount >= 1000
  /\ l.class = "RECEIVABLE_OVERDUE" => l.days \in 16 .. 120
  /\ l.class = "MANDATE_HEALTH" => l.days \in 7 .. 45
  /\ l.class = "CHECKOUT_ABANDONMENT" =>
       l.stage \in {"CART", "CHECKOUT", "PAYMENT_INIT"} /\ l.anonymous \in BOOLEAN

\* A row of the transactions.
Attempt ==
  [order : Order, customer : Customer, amount : Nat, method : Method, seq : Nat,
   status : STRING, reason : DOMAIN CauseOfReason, at : Nat]

OfClass(losses, class) == {l \in losses : l.class = class}

-----------------------------------------------------------------------------
(* The rows of a loss.                                                     *)

TransactionOf(l) ==
  [order |-> l.id, customer |-> l.customer, amount |-> l.amount,
   method |-> InstrumentOf[l.customer].method, seq |-> 1, status |-> "FAILED",
   reason |-> l.reason, at |-> l.at]

\* One session in ten is anonymous, though the opportunity names the customer.
SessionOf(l) ==
  [id |-> l.id, customer |-> IF l.anonymous THEN Anonymous ELSE l.customer,
   cart |-> l.amount, stage |-> l.stage, abandoned |-> l.at]

SubscriptionOf(l) ==
  [id |-> l.id, customer |-> l.customer, mandate |-> l.id, amount |-> l.amount,
   number |-> l.number, nextCharge |-> l.at, state |-> "PAST_DUE"]

InvoiceOf(l) ==
  [id |-> l.id, customer |-> l.customer, issued |-> l.amount, paid |-> 0, credited |-> 0,
   writtenOff |-> 0, disputed |-> 0, due |-> l.at - l.days * Day, state |-> "OVERDUE",
   age |-> l.days]

\* The mandate a subscription is charged by, and one whose health is the loss.
MandateOf(l) ==
  IF l.class = "SUBSCRIPTION_FAILURE"
  THEN [id |-> l.id, customer |-> l.customer, state |-> "ACTIVE",
        expires |-> l.at + 180 * Day, amount |-> 2 * l.amount]
  ELSE [id |-> l.id, customer |-> l.customer, state |-> "EXPIRING",
        expires |-> l.at + l.days * Day, amount |-> l.amount]

OpportunityOf(l) ==
  [id |-> l.id, class |-> l.class, customer |-> l.customer, first |-> l.at,
   contacts |-> 0]

-----------------------------------------------------------------------------
(* What is observed.                                                       *)

\* get_observable_state copies the rows, those of the opportunities as they are.
\* The transactions come in the order of the list: "attempts" are all of them.
View(losses, attempts, opportunities) ==
  [transactions  |-> attempts,
   sessions      |-> {SessionOf(l) : l \in OfClass(losses, "CHECKOUT_ABANDONMENT")},
   subscriptions |-> {SubscriptionOf(l) : l \in OfClass(losses, "SUBSCRIPTION_FAILURE")},
   invoices      |-> {InvoiceOf(l) : l \in OfClass(losses, "RECEIVABLE_OVERDUE")},
   mandates      |-> {MandateOf(l) : l \in OfClass(losses, "SUBSCRIPTION_FAILURE")
                                           \cup OfClass(losses, "MANDATE_HEALTH")},
   opportunities |-> opportunities]
=============================================================================
