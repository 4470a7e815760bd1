------------------------ MODULE AllocationResources ------------------------
(***************************************************************************)
(* What the allocators of revive/allocation share: candidates, their use   *)
(* of the capacities of a cycle and of the contacts of a customer          *)
(* (resources.py, models.py), reduced values and the order of preference   *)
(* (tiebreak.py).                                                          *)
(*                                                                         *)
(* Opportunities are numbered in the order of their ids and actions in the *)
(* order of their codes, 0 for A00.  Amounts are integers; the multipliers,*)
(* which are floats in the code, are integers too, so that rounding a      *)
(* reduced value changes nothing.                                          *)
(***************************************************************************)
EXTENDS Integers, Sequences, FiniteSetsExt

CONSTANTS
  Shared,       \* the capacities that all customers share
  SharedOrder,  \* the order in which they are tested, a sequence
  Customer,
  NoCustomer,   \* customer_id of an anonymous opportunity
  Epsilon       \* epsilon_paise of the policy

Contact  == "contact_allowance"
Resource == Shared \cup {Contact}

ASSUME ResourceAssumption ==
  /\ Contact \notin Shared
  /\ SharedOrder \in Seq(Shared)
  /\ \A r \in Shared : \E i \in DOMAIN SharedOrder : SharedOrder[i] = r
  /\ NoCustomer \notin Customer /\ IsFiniteSet(Customer)
  /\ Epsilon \in Nat

Usage     == [Resource -> Nat]
Candidate == [action : Nat, enrv : Int, usage : Usage]
Item      == [customer : Customer \cup {NoCustomer}, value : Nat, candidates : Seq(Candidate)]
Limits    == [Resource -> Nat]   \* contact_allowance is per customer

\* ResourceState: what was used of the capacities and of the contacts of each.
Room == [used : [Shared -> Nat], contacts : [Customer -> Nat]]

-----------------------------------------------------------------------------
\* Mutant of CanReserve: the contacts a customer had before are not looked at.
CanReserveAfresh(limits, room, u, c) ==
  /\ \A r \in Shared : room.used[r] + u[r] <= limits[r]
  /\ u[Contact] > 0 => c # NoCustomer /\ u[Contact] <= limits[Contact]

\* An anonymous customer is never contacted.
CanReserve(limits, room, u, c) ==
  /\ \A r \in Shared : room.used[r] + u[r] <= limits[r]
  /\ u[Contact] > 0 => c # NoCustomer /\ room.contacts[c] + u[Contact] <= limits[Contact]

Reserve(room, u, c) ==
  [used     |-> [r \in Shared |-> room.used[r] + u[r]],
   contacts |-> IF u[Contact] > 0 /\ c # NoCustomer
                THEN [room.contacts EXCEPT ![c] = @ + u[Contact]] ELSE room.contacts]

\* The resource that refuses u, the first in their order; none for the contact
\* of an anonymous customer, which CanReserve refuses.
Binding(limits, room, u, c) ==
  LET over == {i \in DOMAIN SharedOrder :
                 room.used[SharedOrder[i]] + u[SharedOrder[i]] > limits[SharedOrder[i]]}
  IN  IF over # {} THEN SharedOrder[Min(over)]
      ELSE IF /\ u[Contact] > 0 /\ c # NoCustomer
              /\ room.contacts[c] + u[Contact] > limits[Contact]
           THEN Contact ELSE "none"

-----------------------------------------------------------------------------
(* Candidates of an item, by their index.                                  *)

\* Positive-ENRV candidates other than A00.
Eligible(item) ==
  {i \in DOMAIN item.candidates :
     item.candidates[i].action # 0 /\ item.candidates[i].enrv > Epsilon}

TotalOf(f, S) == MapThenSumSet(LAMBDA x : f[x], S)

\* What a candidate is worth once the resources it draws are paid for.
ReducedValue(candidate, lambda) ==
  candidate.enrv - TotalOf([r \in Resource |-> lambda[r] * candidate.usage[r]], Resource)

\* In thousandths: the incentive budget counts by the thousand.
NormalizedCost(u) ==
  Max({1000, MapThenSumSet(LAMBDA r : IF r = "incentive_budget" THEN u[r] ELSE 1000 * u[r],
                           Resource)})

Precedes(s, t) ==
  \E n \in DOMAIN s : s[n] < t[n] /\ \A m \in 1 .. (n - 1) : s[m] = t[m]

\* The higher score, the higher value at risk, the smaller id, the smaller
\* action code; candidates of one action keep their order.
Preference(items, o, i, score) ==
  <<-score, -items[o].value, o, items[o].candidates[i].action, i>>

\* Whether x is the one of S that precedes all others.
IsFirst(x, S, Rank(_)) == x \in S /\ \A y \in S \ {x} : Precedes(Rank(x), Rank(y))

\* The index preferred among S by reduced value, 0 when there is none.
Preferred(items, o, S, lambda) ==
  LET Rank(i) == Preference(items, o, i, ReducedValue(items[o].candidates[i], lambda))
      best    == {i \in S : IsFirst(i, S, Rank)}
  IN  IF best = {} THEN 0 ELSE CHOOSE i \in best : TRUE

Worth(item, S, lambda) == {i \in S : ReducedValue(item.candidates[i], lambda) > 0}

\* The resource that refuses the most valuable of the eligible candidates that
\* are refused, the first of these for equal values.
MostBinding(limits, room, item) ==
  LET BindingOf(i) == Binding(limits, room, item.candidates[i].usage, item.customer)
      refused == {i \in Eligible(item) : BindingOf(i) # "none"}
      Rank(i) == <<-item.candidates[i].enrv, i>>
  IN  IF refused = {} THEN "none"
      ELSE BindingOf(CHOOSE i \in refused : IsFirst(i, refused, Rank))
=============================================================================
