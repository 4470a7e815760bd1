---------------------------- MODULE MCAllocation ----------------------------
(* Instance of Allocation for TLC: three opportunities of two customers and *)
(* an anonymous one that compete for messages, a budget and contacts.       *)
EXTENDS Allocation, TLC

CONSTANTS ann, bob

MCShared == {"message_capacity", "incentive_budget"}
MCOrder  == <<"message_capacity", "incentive_budget">>

Use(m, b, c) == "message_capacity" :> m @@ "incentive_budget" :> b @@ Contact :> c
Cand(a, e, u) == [action |-> a, enrv |-> e, usage |-> u]

Nothing == Cand(0, 0, Use(0, 0, 0))

\* A message; a message with an incentive, dearer or cheaper than the value
\* of the message; a link, which costs no contact; and one worth epsilon.
Menus ==
  {<<Nothing, Cand(4, 6, Use(1, 0, 1))>>,
   <<Nothing, Cand(4, 6, Use(1, 0, 1)), Cand(5, 9, Use(1, 2, 1))>>,
   <<Nothing, Cand(3, 4, Use(1, 0, 0)), Cand(5, 7, Use(1, 1, 1))>>,
   <<Nothing, Cand(4, 1, Use(1, 0, 1)), Cand(6, 5, Use(0, 2, 0))>>,
   <<Nothing, Cand(4, 1, Use(1, 0, 1))>>}

Items(S, v) == {[customer |-> c, value |-> v, candidates |-> m] : c \in S, m \in Menus}

Portfolios == {<<x, y, z>> : x \in Items({ann}, 1), y \in Items({ann, bob}, 2),
                             z \in Items({bob, NoCustomer}, 1)}

MCStep == <<2, 1, 1>>

Configs == {[kMax |-> 3, budget |-> 3, force |-> FALSE],
            [kMax |-> 3, budget |-> 1, force |-> FALSE],
            [kMax |-> 0, budget |-> 3, force |-> FALSE],
            [kMax |-> 1, budget |-> 1, force |-> TRUE]}

MCCalls ==
  {[items  |-> p,
    limits |-> Use(m, b, 1),
    room   |-> [used     |-> "message_capacity" :> 0 @@ "incentive_budget" :> 0,
                contacts |-> ann :> n @@ bob :> 0],
    config |-> g] : p \in Portfolios, m \in {1, 2}, b \in {1, 2}, n \in {0, 1}, g \in Configs}
=============================================================================
