----------------------------- MODULE MCPolicies -----------------------------
(* Instances of PolicyRunner for TLC: two opportunities of one customer.   *)
EXTENDS PolicyRunner, TLC

CONSTANTS ann, o1, o2

OfAnn      == [o \in Opportunity |-> ann]
Costs      == [a \in Action |-> IF a = "offer" THEN 3 ELSE 1]
Incentives == [a \in Action |-> IF a = "offer" THEN 2 ELSE 0]

\* Two contacts leave a fifth, the third nothing to speak of.
Tiring == (0 :> 100) @@ (1 :> 100) @@ (2 :> 20) @@ (3 :> 5)

Answer(recovers, when, amount, timeout) ==
  [recovers |-> recovers, at |-> when, amount |-> amount, timeout |-> timeout]

\* An offer may time out or recover nothing; the others all come at one time.
RowOf(natural, when, offer) ==
  [natural |-> natural, fatigue |-> Tiring,
   response |-> [a \in Action |-> IF a = "offer" THEN offer ELSE Answer(TRUE, when, 10, FALSE)]]

Barren   == [natural  |-> 2, fatigue |-> Tiring,
             response |-> [a \in Action |-> Answer(FALSE, 1, 10, FALSE)]]
Prompt   == RowOf(Never, 1, Answer(FALSE, 1, 10, TRUE))
Eventual == RowOf(1, 4, Answer(TRUE, 2, 0, FALSE))

Rows     == {Barren, Prompt, Eventual}
IdsOf    == <<o1, o2>>
Steps    == (o1 :> "retry") @@ (o2 :> "message")
Starts   == (o1 :> 0) @@ (o2 :> 2)
=============================================================================
