-------------------------- MODULE AllocationProofs --------------------------
(***************************************************************************)
(* Theorems about Allocation, for all items, limits and configurations:    *)
(* no capacity is given out beyond its limit, what is used is what the     *)
(* selected candidates draw, what was refused would not fit in the end,    *)
(* the call decides as its reference does, and it keeps the promise of     *)
(* AllocationPromise.                                                      *)
(***************************************************************************)
EXTENDS Allocation, Sums, FiniteSetTheorems, TLAPS

\* The part of TypeOK that these proofs rest on: the reduced values and the
\* multipliers matter by their order alone.
PlanTypeOK ==
  /\ IsCall(call)
  /\ phase \in Phase
  /\ picks \in [Opportunity -> Nat]
  /\ room \in Room
  /\ outcome \in [Opportunity -> Outcome]
  /\ chosen \in [Opportunity -> Nat]
  /\ mode \in {"LAGRANGIAN", "FALLBACK_GREEDY"}

\* Where the call is, and what it has still to look at.
Progress ==
  /\ phase \in {"start", "dual"} =>
       mode = "LAGRANGIAN" /\ \A o \in Opportunity : outcome[o] = "UNDECIDED"
  /\ phase = "recovery" => mode = "LAGRANGIAN" /\ todo \subseteq Opportunity
  /\ phase = "fallback" => mode = "FALLBACK_GREEDY" /\ todo \subseteq Pool

\* A pick is one of the eligible candidates.
PicksAreEligible == \A o \in Opportunity : picks[o] \in Eligible(ItemOf(o)) \cup {0}

\* Recovery has an opportunity before it for as long as it is undecided.
PickedIsDecided ==
  phase = "recovery" =>
    /\ \A o \in Opportunity : outcome[o] = "UNDECIDED" /\ picks[o] # 0 => o \in todo
    /\ \A o \in todo : outcome[o] = "UNDECIDED" /\ picks[o] # 0

\* What recovery has deferred does not fit any more.
DeferredDoesNotFit ==
  mode = "LAGRANGIAN" =>
    \A o \in Opportunity : outcome[o] = "DEFERRED" /\ picks[o] # 0 =>
      \A i \in Worth(ItemOf(o), Eligible(ItemOf(o)), lambda) : ~Fits(o, i)

\* What the fallback has passed by does not fit any more.
PassedDoesNotFit ==
  mode = "FALLBACK_GREEDY" =>
    \A x \in Pool : outcome[x[1]] \in {"UNDECIDED", "DEFERRED"} /\ x \notin todo =>
      ~Fits(x[1], x[2])

\* The fallback defers at its end, when it has passed all by.
FallbackDefersLast ==
  phase = "fallback" => \A o \in Opportunity : outcome[o] # "DEFERRED"
FallbackIsThrough ==
  phase = "done" /\ mode = "FALLBACK_GREEDY" => todo = {}

IInv ==
  /\ PlanTypeOK /\ Progress /\ PicksAreEligible /\ NeverOverAllocated
  /\ PickedIsDecided /\ DeferredDoesNotFit
  /\ PassedDoesNotFit /\ FallbackDefersLast /\ FallbackIsThrough

-----------------------------------------------------------------------------
(* Resources.                                                              *)

LEMMA ItemIsTyped ==
  ASSUME IsCall(call), NEW o \in Opportunity
  PROVE  /\ ItemOf(o) \in Item
         /\ \A i \in DOMAIN ItemOf(o).candidates : UsageOf(o, i) \in Usage
<1>1. ItemOf(o) \in Item
  BY DEF IsCall, Opportunity, ItemOf
<1>2. ItemOf(o).candidates \in Seq(Candidate)
  BY <1>1 DEF Item
<1>3. ASSUME NEW i \in DOMAIN ItemOf(o).candidates
      PROVE  ItemOf(o).candidates[i] \in Candidate
  BY <1>2, <1>3
<1> QED BY <1>1, <1>3 DEF UsageOf, Candidate

LEMMA EligibleIsIndex ==
  ASSUME NEW item
  PROVE  Eligible(item) \subseteq DOMAIN item.candidates
BY DEF Eligible

LEMMA WorthIsWithin ==
  ASSUME NEW item, NEW S, NEW mu
  PROVE  Worth(item, S, mu) \subseteq S
BY DEF Worth

\* Preferred is one of those it is asked to choose among, or none.
LEMMA PreferredIsWithin ==
  ASSUME NEW items, NEW o, NEW S, NEW mu
  PROVE  Preferred(items, o, S, mu) \in S \cup {0}
BY DEF Preferred, IsFirst

LEMMA ReserveTypeOK ==
  ASSUME NEW rm \in Room, NEW u \in Usage, NEW c \in Customer \cup {NoCustomer}
  PROVE  Reserve(rm, u, c) \in Room
<1> rm.used \in [Shared -> Nat] /\ rm.contacts \in [Customer -> Nat]
  BY DEF Room
<1> u \in [Resource -> Nat] /\ Shared \subseteq Resource /\ Contact \in Resource
  BY DEF Usage, Resource
<1>1. [r \in Shared |-> rm.used[r] + u[r]] \in [Shared -> Nat]
  OBVIOUS
<1>2. c \in Customer => [rm.contacts EXCEPT ![c] = @ + u[Contact]] \in [Customer -> Nat]
  OBVIOUS
<1> QED BY <1>1, <1>2 DEF Reserve, Room

\* More of everything is used of hi than of lo.
UsedMore(lo, hi) ==
  /\ \A r \in Shared : lo.used[r] <= hi.used[r]
  /\ \A c \in Customer : lo.contacts[c] <= hi.contacts[c]

LEMMA ReserveUsesMore ==
  ASSUME NEW rm \in Room, NEW u \in Usage, NEW c \in Customer \cup {NoCustomer}
  PROVE  UsedMore(rm, Reserve(rm, u, c))
<1> rm.used \in [Shared -> Nat] /\ rm.contacts \in [Customer -> Nat]
  BY DEF Room
<1> u \in [Resource -> Nat] /\ Shared \subseteq Resource /\ Contact \in Resource
  BY DEF Usage, Resource
<1> QED BY DEF Reserve, UsedMore

\* What did not fit does not fit when more is used (resources.py:82-99 has no
\* test that a reservation could make pass).
LEMMA RefusedStaysRefused ==
  ASSUME NEW limits \in Limits, NEW lo \in Room, NEW hi \in Room, UsedMore(lo, hi),
         NEW u \in Usage, NEW c \in Customer \cup {NoCustomer},
         CanReserve(limits, hi, u, c)
  PROVE  CanReserve(limits, lo, u, c)
<1> /\ lo.used \in [Shared -> Nat] /\ lo.contacts \in [Customer -> Nat]
    /\ hi.used \in [Shared -> Nat] /\ hi.contacts \in [Customer -> Nat]
  BY DEF Room
<1> u \in [Resource -> Nat] /\ Shared \subseteq Resource /\ Contact \in Resource
  BY DEF Usage, Resource
<1> limits \in [Resource -> Nat]
  BY DEF Limits
<1>1. ASSUME NEW r \in Shared
      PROVE  lo.used[r] + u[r] <= limits[r]
  <2>1. lo.used[r] \in Nat /\ hi.used[r] \in Nat /\ u[r] \in Nat /\ limits[r] \in Nat
    OBVIOUS
  <2>2. lo.used[r] <= hi.used[r] /\ hi.used[r] + u[r] <= limits[r]
    BY DEF CanReserve, UsedMore
  <2> QED BY <2>1, <2>2
<1>2. ASSUME u[Contact] > 0
      PROVE  c # NoCustomer /\ lo.contacts[c] + u[Contact] <= limits[Contact]
  <2>1. c # NoCustomer /\ hi.contacts[c] + u[Contact] <= limits[Contact]
    BY <1>2 DEF CanReserve
  <2>2. /\ lo.contacts[c] \in Nat /\ hi.contacts[c] \in Nat
        /\ u[Contact] \in Nat /\ limits[Contact] \in Nat
    BY <2>1
  <2>3. lo.contacts[c] <= hi.contacts[c]
    BY <2>1 DEF UsedMore
  <2> QED BY <2>1, <2>2, <2>3
<1> QED BY <1>1, <1>2 DEF CanReserve

-----------------------------------------------------------------------------
(* What a selection does, whoever makes it.                                *)

LEMMA TakePlan ==
  ASSUME PlanTypeOK, NeverOverAllocated, UNCHANGED call,
         NEW o \in Opportunity, NEW i \in Eligible(ItemOf(o)), Take(o, i)
  PROVE  /\ room' \in Room
         /\ UsedMore(room, room')
         /\ NeverOverAllocated'
         /\ outcome' = [outcome EXCEPT ![o] = "SELECTED"]
         /\ chosen' \in [Opportunity -> Nat]
<1> DEFINE u == UsageOf(o, i)
           c == ItemOf(o).customer
<1>1. ItemOf(o) \in Item /\ i \in DOMAIN ItemOf(o).candidates /\ u \in Usage
  BY ItemIsTyped, EligibleIsIndex DEF PlanTypeOK
<1>2. c \in Customer \cup {NoCustomer} /\ i \in Nat
  BY <1>1 DEF Item
<1>3. room' = Reserve(room, u, c) /\ CanReserve(call.limits, room, u, c)
  BY DEF Take, Fits
<1>4. room' \in Room /\ UsedMore(room, room')
  BY <1>1, <1>2, <1>3, ReserveTypeOK, ReserveUsesMore DEF PlanTypeOK
<1>5. NeverOverAllocated'
  <2>1. /\ room.used \in [Shared -> Nat] /\ room.contacts \in [Customer -> Nat]
        /\ u \in [Resource -> Nat] /\ Shared \subseteq Resource /\ Contact \in Resource
        /\ call.limits \in [Resource -> Nat]
    BY <1>1 DEF Usage, Resource, PlanTypeOK, IsCall, Limits, Room
  <2>2. \A r \in Shared : room'.used[r] <= call.limits[r]
    BY <1>3, <2>1 DEF CanReserve, Reserve
  <2>3. ASSUME NEW d \in Customer
        PROVE  \/ room'.contacts[d] <= call.limits[Contact]
               \/ room'.contacts[d] = call.room.contacts[d]
    <3>1. CASE u[Contact] > 0 /\ c # NoCustomer /\ d = c
      BY <1>2, <1>3, <2>1, <3>1 DEF CanReserve, Reserve
    <3>2. CASE ~(u[Contact] > 0 /\ c # NoCustomer /\ d = c)
      <4>1. room'.contacts[d] = room.contacts[d]
        BY <1>2, <1>3, <2>1, <3>2 DEF Reserve
      <4> QED BY <4>1 DEF NeverOverAllocated
    <3> QED BY <3>1, <3>2
  <2> QED BY <2>2, <2>3 DEF NeverOverAllocated
<1> QED BY <1>2, <1>4, <1>5 DEF Take, PlanTypeOK

\* A candidate that was refused is refused after the selection too.
LEMMA RefusedAfterTake ==
  ASSUME PlanTypeOK, UNCHANGED call, room' \in Room, UsedMore(room, room'),
         NEW p \in Opportunity, NEW j \in Eligible(ItemOf(p)), ~Fits(p, j)
  PROVE  ~(Fits(p, j)')
<1>1. UsageOf(p, j) \in Usage /\ ItemOf(p).customer \in Customer \cup {NoCustomer}
  BY ItemIsTyped, EligibleIsIndex DEF PlanTypeOK, Item
<1>2. call.limits \in Limits
  BY DEF PlanTypeOK, IsCall
<1> QED BY <1>1, <1>2, RefusedStaysRefused DEF PlanTypeOK, Fits, ItemOf, UsageOf

\* What is left over at the end is deferred or needs no action.
LEMMA DeclineRestIs ==
  ASSUME PlanTypeOK, DeclineRest
  PROVE  /\ outcome' \in [Opportunity -> Outcome]
         /\ \A o \in Opportunity :
              /\ outcome[o] # "UNDECIDED" => outcome'[o] = outcome[o]
              /\ outcome[o] = "UNDECIDED" =>
                   outcome'[o] = IF Eligible(ItemOf(o)) = {} THEN "NO_ACTION" ELSE "DEFERRED"
BY DEF PlanTypeOK, DeclineRest, Outcome

-----------------------------------------------------------------------------
(* The inductive invariant.                                                *)

LEMMA InitIInv == Init => IInv
<1> SUFFICES ASSUME Init PROVE IInv
  OBVIOUS
<1>1. IsCall(call)
  BY CallAssumption DEF Init
<1>2. PlanTypeOK
  BY <1>1 DEF Init, PlanTypeOK, Phase, Outcome, IsCall
<1>3. NeverOverAllocated
  BY <1>1 DEF Init, NeverOverAllocated, IsCall
<1>4. Progress /\ PicksAreEligible /\ PickedIsDecided
  BY DEF Init, Progress, PicksAreEligible, PickedIsDecided
<1>5. DeferredDoesNotFit /\ PassedDoesNotFit /\ FallbackDefersLast /\ FallbackIsThrough
  BY DEF Init, DeferredDoesNotFit, PassedDoesNotFit, FallbackDefersLast, FallbackIsThrough
<1> QED BY <1>2, <1>3, <1>4, <1>5 DEF IInv

\* The steps that settle nothing: their phase, and what is to be looked at.
LEMMA DualIInv ==
  ASSUME IInv, Start \/ Iterate \/ EndIterations \/ SpendBudget
  PROVE  IInv'
<1> UNCHANGED <<call, room, outcome, chosen>>
  BY DEF Start, Iterate, EndIterations, SpendBudget, planVars
<1> UNCHANGED <<Opportunity, Pool, NeverOverAllocated>>
  BY DEF Opportunity, Pool, NeverOverAllocated, ItemOf
<1>1. \A o \in Opportunity : outcome[o] = "UNDECIDED"
  BY DEF IInv, Progress, Start, Iterate, EndIterations, SpendBudget
<1>2. PicksAreEligible' /\ picks' \in [Opportunity -> Nat]
  <2>1. CASE UNCHANGED picks
    BY <2>1 DEF IInv, PicksAreEligible, PlanTypeOK, ItemOf
  <2>2. CASE picks' = BestPicks
    <3>1. ASSUME NEW o \in Opportunity
          PROVE  picks'[o] \in Eligible(ItemOf(o)) \cup {0}
      BY <2>2, PreferredIsWithin, WorthIsWithin DEF BestPicks
    <3>2. ASSUME NEW o \in Opportunity
          PROVE  Eligible(ItemOf(o)) \subseteq Nat
      BY EligibleIsIndex, ItemIsTyped DEF IInv, PlanTypeOK, Item
    <3> QED BY <2>2, <3>1, <3>2 DEF BestPicks, PicksAreEligible, ItemOf
  <2> QED BY <2>1, <2>2 DEF Start, Iterate, EndIterations, SpendBudget, dualVars
<1>3. PlanTypeOK' /\ Progress'
  BY <1>1, <1>2 DEF IInv, PlanTypeOK, Progress, Start, StartFallback, Iterate, EndIterations,
     SpendBudget, Phase, Picked
<1>4. PickedIsDecided'
  <2>1. phase' = "recovery" => todo' = {o \in Opportunity : picks'[o] # 0}
    BY DEF Start, StartFallback, Iterate, EndIterations, SpendBudget, Picked, dualVars
  <2> QED BY <1>1, <2>1 DEF PickedIsDecided
<1>5. PassedDoesNotFit'
  BY DEF PassedDoesNotFit, Start, StartFallback, Iterate, EndIterations, SpendBudget, IInv, Progress
<1>6. DeferredDoesNotFit' /\ FallbackDefersLast'
  BY <1>1 DEF DeferredDoesNotFit, FallbackDefersLast
<1>7. FallbackIsThrough'
  BY DEF FallbackIsThrough, Start, StartFallback, Iterate, EndIterations, SpendBudget
<1> QED BY <1>2, <1>3, <1>4, <1>5, <1>6, <1>7 DEF IInv

\* A pick, or the alternative to one, is selected.
LEMMA RecoveryTakeIInv ==
  ASSUME IInv, NEW o \in Opportunity, TakePick(o) \/ TakeAlternative(o)
  PROVE  IInv'
<1> UNCHANGED <<call, phase, mode, picks, lambda>> /\ phase = "recovery" /\ o \in todo
  BY DEF TakePick, TakeAlternative, IsNext, IsFirst, dualVars
<1> UNCHANGED <<Opportunity, Pool>> /\ mode = "LAGRANGIAN" /\ todo' = todo \ {o}
  BY DEF Opportunity, Pool, ItemOf, IInv, Progress, TakePick, TakeAlternative
<1>1. PICK i \in Eligible(ItemOf(o)) : Take(o, i)
  <2>1. CASE TakePick(o)
    BY <2>1 DEF TakePick, IInv, PickedIsDecided, PicksAreEligible
  <2>2. CASE TakeAlternative(o)
    BY <2>2, PreferredIsWithin, WorthIsWithin DEF TakeAlternative, Alternative, Alternatives
  <2> QED BY <2>1, <2>2
<1>2. /\ room' \in Room /\ UsedMore(room, room') /\ NeverOverAllocated'
      /\ outcome' = [outcome EXCEPT ![o] = "SELECTED"] /\ chosen' \in [Opportunity -> Nat]
  BY <1>1, TakePlan DEF IInv
<1>3. PlanTypeOK' /\ Progress' /\ PicksAreEligible'
  BY <1>2 DEF IInv, PlanTypeOK, Progress, PicksAreEligible, Outcome, ItemOf
<1>4. PickedIsDecided'
  BY <1>2 DEF IInv, PickedIsDecided, Progress, PlanTypeOK
<1>5. DeferredDoesNotFit'
  <2> SUFFICES ASSUME NEW p \in Opportunity, outcome'[p] = "DEFERRED", picks[p] # 0,
                      NEW j \in Worth(ItemOf(p), Eligible(ItemOf(p)), lambda)
               PROVE  ~(Fits(p, j)')
    BY DEF DeferredDoesNotFit, ItemOf
  <2>1. outcome[p] = "DEFERRED"
    BY <1>2 DEF IInv, PlanTypeOK
  <2>2. ~Fits(p, j) /\ j \in Eligible(ItemOf(p))
    BY <2>1, WorthIsWithin DEF IInv, DeferredDoesNotFit
  <2> QED BY <2>2, <1>2, RefusedAfterTake DEF IInv
<1> QED BY <1>2, <1>3, <1>4, <1>5 DEF IInv, PassedDoesNotFit, FallbackDefersLast, FallbackIsThrough

LEMMA DeferIInv ==
  ASSUME IInv, NEW o \in Opportunity, Defer(o)
  PROVE  IInv'
<1> UNCHANGED <<call, phase, mode, picks, lambda, room, chosen>> /\ phase = "recovery" /\ o \in todo
  BY DEF Defer, IsNext, IsFirst, dualVars
<1> UNCHANGED <<Opportunity, NeverOverAllocated>> /\ mode = "LAGRANGIAN"
  BY DEF Opportunity, NeverOverAllocated, ItemOf, IInv, Progress
<1>1. /\ outcome' = [outcome EXCEPT ![o] = "DEFERRED"] /\ todo' = todo \ {o}
      /\ Alternatives(o) = {}
  BY DEF Defer
<1>2. PlanTypeOK' /\ Progress' /\ PicksAreEligible'
  BY <1>1 DEF IInv, PlanTypeOK, Progress, PicksAreEligible, Outcome, ItemOf
<1>3. PickedIsDecided'
  BY <1>1 DEF IInv, PickedIsDecided, Progress, PlanTypeOK
<1>4. DeferredDoesNotFit'
  <2> SUFFICES ASSUME NEW p \in Opportunity, outcome'[p] = "DEFERRED", picks[p] # 0,
                      NEW j \in Worth(ItemOf(p), Eligible(ItemOf(p)), lambda)
               PROVE  ~Fits(p, j)
    BY DEF DeferredDoesNotFit, ItemOf, Fits, UsageOf
  <2>1. CASE p = o
    BY <1>1, <2>1 DEF Alternatives, Worth
  <2>2. CASE p # o
    BY <1>1, <2>2 DEF IInv, DeferredDoesNotFit, PlanTypeOK
  <2> QED BY <2>1, <2>2
<1> QED BY <1>2, <1>3, <1>4 DEF IInv, PassedDoesNotFit, FallbackDefersLast, FallbackIsThrough

LEMMA FallbackTakeIInv ==
  ASSUME IInv, NEW x \in Pool, FallbackTake(x)
  PROVE  IInv'
<1> UNCHANGED <<call, phase, mode, picks>> /\ phase = "fallback" /\ todo' = todo \ {x}
  BY DEF FallbackTake, IsDensest, Dismiss, dualVars
<1> UNCHANGED <<Opportunity, Pool>> /\ mode = "FALLBACK_GREEDY"
  BY DEF Opportunity, Pool, ItemOf, IInv, Progress
<1>1. x[1] \in Opportunity /\ x[2] \in Eligible(ItemOf(x[1])) /\ Take(x[1], x[2])
  BY DEF FallbackTake, Pool
<1>2. /\ room' \in Room /\ UsedMore(room, room') /\ NeverOverAllocated'
      /\ outcome' = [outcome EXCEPT ![x[1]] = "SELECTED"] /\ chosen' \in [Opportunity -> Nat]
  BY <1>1, TakePlan DEF IInv
<1>3. PlanTypeOK' /\ Progress' /\ PicksAreEligible' /\ FallbackDefersLast'
  BY <1>1, <1>2 DEF IInv, PlanTypeOK, Progress, PicksAreEligible, FallbackDefersLast, Outcome,
                    ItemOf
<1>4. PassedDoesNotFit'
  <2> SUFFICES ASSUME NEW y \in Pool, outcome'[y[1]] \in {"UNDECIDED", "DEFERRED"}, y \notin todo'
               PROVE  ~(Fits(y[1], y[2])')
    BY DEF PassedDoesNotFit
  <2>1. y[1] \in Opportunity /\ y[2] \in Eligible(ItemOf(y[1]))
    BY DEF Pool
  <2>2. outcome[y[1]] \in {"UNDECIDED", "DEFERRED"} /\ y # x
    BY <1>1, <1>2, <2>1 DEF IInv, PlanTypeOK
  <2>3. ~Fits(y[1], y[2])
    BY <2>2 DEF IInv, PassedDoesNotFit
  <2> QED BY <2>1, <2>3, <1>2, RefusedAfterTake DEF IInv
<1> QED BY <1>2, <1>3, <1>4 DEF IInv, PickedIsDecided, DeferredDoesNotFit, FallbackIsThrough

LEMMA FallbackPassIInv ==
  ASSUME IInv, NEW x \in Pool, FallbackPass(x)
  PROVE  IInv'
<1> UNCHANGED <<call, phase, mode, picks, planVars>> /\ phase = "fallback" /\ todo' = todo \ {x}
  BY DEF FallbackPass, IsDensest, Dismiss, dualVars
<1> UNCHANGED <<Opportunity, Pool, NeverOverAllocated, room, outcome, chosen>>
  BY DEF Opportunity, Pool, NeverOverAllocated, ItemOf, planVars
<1>1. mode = "FALLBACK_GREEDY" /\ x[1] \in Opportunity
  BY DEF IInv, Progress, Pool
<1>2. PlanTypeOK' /\ Progress' /\ PicksAreEligible' /\ FallbackDefersLast'
  BY DEF IInv, PlanTypeOK, Progress, PicksAreEligible, FallbackDefersLast, ItemOf
<1>3. PassedDoesNotFit'
  <2>1. outcome[x[1]] \in {"UNDECIDED", "DEFERRED"} => ~Fits(x[1], x[2])
    BY <1>1 DEF FallbackPass, IInv, FallbackDefersLast
  <2> QED BY <2>1 DEF IInv, PassedDoesNotFit, Fits, ItemOf, UsageOf
<1> QED BY <1>1, <1>2, <1>3 DEF IInv, PickedIsDecided, DeferredDoesNotFit, FallbackIsThrough

LEMMA EndIInv ==
  ASSUME IInv, EndRecovery \/ EndFallback
  PROVE  IInv'
<1> UNCHANGED <<call, mode, picks, lambda, todo, room, chosen>> /\ phase' = "done" /\ DeclineRest
  BY DEF EndRecovery, EndFallback, dualVars
<1> UNCHANGED <<Opportunity, Pool, NeverOverAllocated>> /\ todo = {}
  BY DEF Opportunity, Pool, NeverOverAllocated, ItemOf, EndRecovery, EndFallback
<1>1. /\ outcome' \in [Opportunity -> Outcome]
      /\ \A o \in Opportunity : outcome[o] # "UNDECIDED" => outcome'[o] = outcome[o]
  BY DeclineRestIs DEF IInv
<1>2. PlanTypeOK' /\ Progress' /\ PicksAreEligible'
  BY <1>1 DEF IInv, PlanTypeOK, Progress, PicksAreEligible, Phase, ItemOf
<1>3. DeferredDoesNotFit'
  <2> SUFFICES ASSUME mode = "LAGRANGIAN", NEW p \in Opportunity, outcome'[p] = "DEFERRED",
                      picks[p] # 0, NEW j \in Worth(ItemOf(p), Eligible(ItemOf(p)), lambda)
               PROVE  ~Fits(p, j)
    BY DEF DeferredDoesNotFit, ItemOf, Fits, UsageOf
  <2>1. outcome[p] # "UNDECIDED"
    BY DEF IInv, PickedIsDecided, Progress, EndRecovery, EndFallback
  <2> QED BY <1>1, <2>1 DEF IInv, DeferredDoesNotFit
<1>4. PassedDoesNotFit'
  <2> SUFFICES ASSUME mode = "FALLBACK_GREEDY", NEW x \in Pool,
                      outcome'[x[1]] \in {"UNDECIDED", "DEFERRED"}
               PROVE  ~Fits(x[1], x[2])
    BY DEF PassedDoesNotFit, ItemOf, Fits, UsageOf
  <2>1. outcome[x[1]] \in {"UNDECIDED", "DEFERRED"}
    BY <1>1 DEF Pool, IInv, PlanTypeOK, Outcome
  <2> QED BY <2>1 DEF IInv, PassedDoesNotFit
<1> QED BY <1>2, <1>3, <1>4 DEF IInv, PickedIsDecided, FallbackDefersLast, FallbackIsThrough

LEMMA NextIInv == IInv /\ [Next]_vars => IInv'
<1> SUFFICES ASSUME IInv, [Next]_vars PROVE IInv'
  OBVIOUS
<1>1. CASE UNCHANGED vars
  BY <1>1 DEF vars, planVars, dualVars, IInv, PlanTypeOK, Progress, PicksAreEligible,
     NeverOverAllocated, PickedIsDecided, DeferredDoesNotFit, PassedDoesNotFit,
     FallbackDefersLast, FallbackIsThrough, Opportunity, Pool, ItemOf, Fits, UsageOf
<1>2. CASE Next
  BY <1>1, <1>2, DualIInv, RecoveryTakeIInv, DeferIInv, FallbackTakeIInv, FallbackPassIInv,
     EndIInv DEF Next, Return
<1> QED BY <1>1, <1>2

LEMMA Inductive == Spec => []IInv
BY InitIInv, NextIInv, PTL DEF Spec

-----------------------------------------------------------------------------
(* The theorems.                                                           *)

(* For any portfolio, limits and configuration, at no step of the call is  *)
(* a capacity given out beyond its limit, or a customer promised more      *)
(* contacts than the allowance and what earlier cycles have used (reserve, *)
(* resources.py).                                                          *)
THEOREM NothingOverAllocated == Spec => []NeverOverAllocated
BY Inductive, PTL DEF IInv

(* For any portfolio, a deferral is still true when the call returns:      *)
(* recovery (lagrangian.py) and the fallback (greedy.py) refuse nothing    *)
(* that would fit in what they have left.                                  *)
THEOREM RefusalsAreTrue == Spec => []RefusalsStand
<1>1. IInv => RefusalsStand
  <2> SUFFICES ASSUME IInv, phase = "done", NEW o \in Opportunity, outcome[o] = "DEFERRED"
               PROVE  IF mode = "FALLBACK_GREEDY" THEN \A i \in Eligible(ItemOf(o)) : ~Fits(o, i)
                      ELSE picks[o] # 0 => \A i \in Worth(ItemOf(o), Eligible(ItemOf(o)), lambda) :
                                             ~Fits(o, i)
    BY DEF RefusalsStand
  <2>1. CASE mode = "FALLBACK_GREEDY"
    <3>1. ASSUME NEW i \in Eligible(ItemOf(o))
          PROVE  ~Fits(o, i)
      <4>1. <<o, i>> \in Pool
        BY DEF Pool
      <4> QED BY <2>1, <4>1 DEF IInv, PassedDoesNotFit, FallbackIsThrough
    <3> QED BY <2>1, <3>1
  <2>2. CASE mode = "LAGRANGIAN"
    BY <2>2 DEF IInv, DeferredDoesNotFit
  <2> QED BY <2>1, <2>2 DEF IInv, PlanTypeOK
<1> QED BY <1>1, Inductive, PTL

-----------------------------------------------------------------------------
(* What was used is what was selected.                                     *)

\* What is undecided has no candidate, and what is chosen was eligible.
ChosenIsEligible ==
  \A o \in Opportunity :
    /\ outcome[o] = "UNDECIDED" => chosen[o] = 0
    /\ chosen[o] \in Eligible(ItemOf(o)) \cup {0}

UsageInv == IInv /\ ChosenIsEligible /\ UsageIsOfSelected

\* The ways a step can disturb what is used and chosen: it selects a candidate
\* of an opportunity that is undecided, or neither uses nor chooses anything.
SelectsOne ==
  \E o \in Opportunity : \E i \in Eligible(ItemOf(o)) :
    outcome[o] = "UNDECIDED" /\ Take(o, i)

SelectsNone ==
  /\ UNCHANGED <<room, chosen>>
  /\ \A o \in Opportunity : outcome'[o] = "UNDECIDED" => outcome[o] = "UNDECIDED"

LEMMA SelectionStep ==
  ASSUME IInv, [Next]_vars
  PROVE  UNCHANGED call /\ (SelectsOne \/ SelectsNone)
<1>1. CASE Start \/ Iterate \/ EndIterations \/ SpendBudget \/ Return \/ UNCHANGED vars
  BY <1>1 DEF Start, Iterate, EndIterations, SpendBudget, Return, vars, planVars, SelectsNone
<1>2. ASSUME NEW o \in Opportunity, TakePick(o) \/ TakeAlternative(o)
      PROVE  UNCHANGED call /\ SelectsOne
  <2>1. o \in todo /\ phase = "recovery" /\ UNCHANGED call
    BY <1>2 DEF TakePick, TakeAlternative, IsNext, IsFirst
  <2>2. outcome[o] = "UNDECIDED" /\ picks[o] # 0
    BY <2>1 DEF IInv, PickedIsDecided
  <2>3. PICK i \in Eligible(ItemOf(o)) : Take(o, i)
    BY <1>2, <2>2, PreferredIsWithin, WorthIsWithin
       DEF TakePick, TakeAlternative, Alternative, Alternatives, IInv, PicksAreEligible
  <2> QED BY <2>1, <2>2, <2>3 DEF SelectsOne
<1>3. ASSUME NEW o \in Opportunity, Defer(o)
      PROVE  UNCHANGED call /\ SelectsNone
  BY <1>3 DEF Defer, SelectsNone, IInv, PlanTypeOK
<1>4. CASE EndRecovery \/ EndFallback
  BY <1>4, DeclineRestIs DEF EndRecovery, EndFallback, SelectsNone, IInv
<1>5. ASSUME NEW x \in Pool, FallbackTake(x)
      PROVE  UNCHANGED call /\ SelectsOne
  <2>1. x[1] \in Opportunity /\ x[2] \in Eligible(ItemOf(x[1])) /\ UNCHANGED call
    BY <1>5 DEF Pool, FallbackTake, Dismiss
  <2> QED BY <1>5, <2>1 DEF FallbackTake, SelectsOne
<1>6. ASSUME NEW x \in Pool, FallbackPass(x)
      PROVE  UNCHANGED call /\ SelectsNone
  BY <1>6 DEF FallbackPass, Dismiss, planVars, SelectsNone
<1> QED BY <1>1, <1>2, <1>3, <1>4, <1>5, <1>6 DEF Next

\* What is drawn are amounts, of finitely many opportunities.
LEMMA DrawnIsTyped ==
  ASSUME PlanTypeOK, ChosenIsEligible, NEW r \in Resource
  PROVE  IsFiniteSet(Opportunity) /\ Drawn(r) \in [Opportunity -> Int]
<1>1. IsFiniteSet(Opportunity)
  <2>1. Opportunity = 1 .. Len(call.items) /\ Len(call.items) \in Nat
    BY DEF PlanTypeOK, IsCall, Opportunity
  <2> QED BY <2>1, FS_Interval
<1>2. ASSUME NEW o \in Opportunity, chosen[o] # 0
      PROVE  UsageOf(o, chosen[o])[r] \in Int
  <2>1. chosen[o] \in DOMAIN ItemOf(o).candidates
    BY <1>2, EligibleIsIndex DEF ChosenIsEligible
  <2>2. UsageOf(o, chosen[o]) \in Usage
    BY <2>1, ItemIsTyped DEF PlanTypeOK
  <2> QED BY <2>2 DEF Usage
<1> QED BY <1>1, <1>2 DEF Drawn

LEMMA DrawnForIsTyped ==
  ASSUME PlanTypeOK, ChosenIsEligible, NEW c \in Customer
  PROVE  DrawnFor(c) \in [Opportunity -> Int]
<1>1. Drawn(Contact) \in [Opportunity -> Int]
  BY DrawnIsTyped DEF Resource
<1> QED BY <1>1 DEF DrawnFor

LEMMA TotalIsSum ==
  ASSUME NEW f, NEW S
  PROVE  TotalOf(f, S) = SumOver(f, S)
BY DEF TotalOf, SumOver

\* A selection draws what its candidate uses, and no other changes.
LEMMA SelectionDraws ==
  ASSUME UsageInv, IInv', ChosenIsEligible', UNCHANGED call,
         NEW o \in Opportunity, NEW i \in Eligible(ItemOf(o)), outcome[o] = "UNDECIDED", Take(o, i)
  PROVE  /\ \A r \in Resource : TotalOf(Drawn(r), Opportunity)' =
              TotalOf(Drawn(r), Opportunity) + UsageOf(o, i)[r]
         /\ \A c \in Customer : TotalOf(DrawnFor(c), Opportunity)' =
              TotalOf(DrawnFor(c), Opportunity)
                + IF ItemOf(o).customer = c THEN UsageOf(o, i)[Contact] ELSE 0
<1>0. PICK D : D = Opportunity
  OBVIOUS
<1>1. IsFiniteSet(D) /\ o \in D /\ D = Opportunity' /\ PlanTypeOK /\ PlanTypeOK'
  BY <1>0, DrawnIsTyped DEF UsageInv, IInv, Opportunity, Resource
<1>2. /\ chosen[o] = 0 /\ chosen'[o] = i /\ i # 0
      /\ \A p \in D \ {o} : chosen'[p] = chosen[p]
  <2>1. chosen \in [Opportunity -> Nat] /\ chosen' = [chosen EXCEPT ![o] = i]
    BY <1>1 DEF PlanTypeOK, Take
  <2>2. i # 0
    <3>1. ItemOf(o).candidates \in Seq(Candidate) /\ i \in DOMAIN ItemOf(o).candidates
      BY <1>1, ItemIsTyped, EligibleIsIndex DEF PlanTypeOK, Item
    <3> QED BY <3>1
  <2> QED BY <1>0, <2>1, <2>2 DEF UsageInv, ChosenIsEligible
<1>3. \A p, j : UsageOf(p, j)' = UsageOf(p, j) /\ ItemOf(p)' = ItemOf(p)
  BY DEF UsageOf, ItemOf
<1>4. UsageOf(o, i) \in Usage
  BY <1>1, ItemIsTyped, EligibleIsIndex DEF PlanTypeOK
<1>5. ASSUME NEW r \in Resource
      PROVE  /\ Drawn(r) \in [D -> Int] /\ Drawn(r)' \in [D -> Int]
             /\ Drawn(r)[o] = 0 /\ Drawn(r)'[o] = UsageOf(o, i)[r]
             /\ \A p \in D \ {o} : Drawn(r)'[p] = Drawn(r)[p]
  <2>1. Drawn(r) \in [D -> Int]
    BY <1>0, <1>1, DrawnIsTyped DEF UsageInv
  <2>2. Drawn(r)' = [p \in D |-> IF chosen'[p] = 0 THEN 0 ELSE UsageOf(p, chosen'[p])[r]]
    BY <1>1, <1>3 DEF Drawn, UsageOf, ItemOf
  <2>3. Drawn(r) = [p \in D |-> IF chosen[p] = 0 THEN 0 ELSE UsageOf(p, chosen[p])[r]]
    BY <1>0 DEF Drawn
  <2>4. Drawn(r)'[o] = UsageOf(o, i)[r] /\ \A p \in D \ {o} : Drawn(r)'[p] = Drawn(r)[p]
    BY <1>1, <1>2, <2>2, <2>3
  <2>5. \A p \in D : Drawn(r)'[p] \in Int
    BY <1>4, <2>1, <2>4 DEF Usage
  <2> QED BY <1>1, <1>2, <2>1, <2>2, <2>3, <2>4, <2>5
<1>6. ASSUME NEW r \in Resource
      PROVE  TotalOf(Drawn(r), Opportunity)' = TotalOf(Drawn(r), Opportunity) + UsageOf(o, i)[r]
  <2>1. PICK f, g : f = Drawn(r) /\ g = Drawn(r)'
    OBVIOUS
  <2>2. SumOver(g, D) = SumOver(f, D) + (g[o] - f[o])
    BY <1>1, <1>5, <2>1, SumOfOneChange
  <2>3. SumOver(f, D) \in Int /\ g[o] - f[o] = UsageOf(o, i)[r]
    BY <1>1, <1>5, <2>1, SumFacts
  <2>4. /\ TotalOf(Drawn(r), Opportunity) = SumOver(f, D)
        /\ TotalOf(Drawn(r), Opportunity)' = SumOver(g, D)
    BY <1>0, <1>1, <2>1, TotalIsSum
  <2> QED BY <2>2, <2>3, <2>4
<1>7. ASSUME NEW c \in Customer
      PROVE  TotalOf(DrawnFor(c), Opportunity)' =
               TotalOf(DrawnFor(c), Opportunity)
                 + IF ItemOf(o).customer = c THEN UsageOf(o, i)[Contact] ELSE 0
  <2>1. PICK f, g : f = DrawnFor(c) /\ g = DrawnFor(c)'
    OBVIOUS
  <2>2. Contact \in Resource
    BY DEF Resource
  <2>3. f = [p \in D |-> IF ItemOf(p).customer # c THEN 0 ELSE Drawn(Contact)[p]]
    BY <1>0, <2>1 DEF DrawnFor
  <2>4. g = [p \in D |-> IF ItemOf(p).customer # c THEN 0 ELSE Drawn(Contact)'[p]]
    BY <1>1, <1>3, <2>1 DEF DrawnFor
  <2>5. f \in [D -> Int] /\ g \in [D -> Int] /\ \A p \in D \ {o} : g[p] = f[p]
    BY <1>5, <2>2, <2>3, <2>4
  <2>6. g[o] - f[o] = IF ItemOf(o).customer = c THEN UsageOf(o, i)[Contact] ELSE 0
    BY <1>1, <1>5, <2>2, <2>3, <2>4
  <2>7. SumOver(g, D) = SumOver(f, D) + (g[o] - f[o])
    BY <1>1, <2>5, SumOfOneChange
  <2>8. /\ TotalOf(DrawnFor(c), Opportunity) = SumOver(f, D)
        /\ TotalOf(DrawnFor(c), Opportunity)' = SumOver(g, D)
    BY <1>0, <1>1, <2>1, TotalIsSum
  <2> QED BY <2>6, <2>7, <2>8
<1> QED BY <1>6, <1>7

\* A selection uses what it draws.
LEMMA SelectionUses ==
  ASSUME PlanTypeOK, NEW o \in Opportunity, NEW i \in Eligible(ItemOf(o)), Take(o, i)
  PROVE  /\ \A r \in Shared : room'.used[r] = room.used[r] + UsageOf(o, i)[r]
         /\ \A c \in Customer : room'.contacts[c] =
              room.contacts[c] + IF ItemOf(o).customer = c THEN UsageOf(o, i)[Contact] ELSE 0
<1> DEFINE u == UsageOf(o, i)
           c == ItemOf(o).customer
<1>1. u \in Usage /\ c \in Customer \cup {NoCustomer}
  BY ItemIsTyped, EligibleIsIndex DEF PlanTypeOK, Item
<1>2. room' = Reserve(room, u, c)
  BY DEF Take
<1>3. /\ room.used \in [Shared -> Nat] /\ room.contacts \in [Customer -> Nat]
      /\ u \in [Resource -> Nat] /\ Contact \in Resource
  BY <1>1 DEF PlanTypeOK, Room, Usage, Resource
<1>4. \A r \in Shared : room'.used[r] = room.used[r] + u[r]
  BY <1>2 DEF Reserve
<1>5. ASSUME NEW d \in Customer
      PROVE  room'.contacts[d] = room.contacts[d] + IF c = d THEN u[Contact] ELSE 0
  <2>1. NoCustomer \notin Customer
    BY ResourceAssumption
  <2>2. CASE u[Contact] > 0 /\ c # NoCustomer
    <3>1. room'.contacts = [room.contacts EXCEPT ![c] = @ + u[Contact]]
      BY <1>2, <2>2 DEF Reserve
    <3> QED BY <1>1, <1>3, <2>2, <3>1
  <2>3. CASE ~(u[Contact] > 0 /\ c # NoCustomer)
    <3>1. room'.contacts = room.contacts
      BY <1>2, <2>3 DEF Reserve
    <3>2. c = d => u[Contact] = 0
      BY <1>3, <2>1, <2>3
    <3> QED BY <1>3, <3>1, <3>2
  <2> QED BY <2>2, <2>3
<1> QED BY <1>4, <1>5

LEMMA UsageStep ==
  ASSUME UsageInv, [Next]_vars
  PROVE  UsageInv'
<1>1. IInv' /\ PlanTypeOK /\ UNCHANGED call
  BY NextIInv, SelectionStep DEF UsageInv, IInv
<1>2. Opportunity' = Opportunity /\ \A o : ItemOf(o)' = ItemOf(o)
  BY <1>1 DEF Opportunity, ItemOf
<1>3. CASE SelectsNone
  <2>1. ChosenIsEligible'
    BY <1>2, <1>3 DEF SelectsNone, UsageInv, ChosenIsEligible
  <2>2. \A r : Drawn(r)' = Drawn(r)
    BY <1>1, <1>2, <1>3 DEF SelectsNone, Drawn, UsageOf, ItemOf
  <2>3. \A c : DrawnFor(c)' = DrawnFor(c)
    BY <1>2, <2>2 DEF DrawnFor
  <2>4. /\ \A r : TotalOf(Drawn(r), Opportunity)' = TotalOf(Drawn(r), Opportunity)
        /\ \A c : TotalOf(DrawnFor(c), Opportunity)' = TotalOf(DrawnFor(c), Opportunity)
    BY <1>2, <2>2, <2>3, TotalIsSum
  <2>5. UsageIsOfSelected'
    BY <1>1, <1>3, <2>4 DEF SelectsNone, UsageInv, UsageIsOfSelected
  <2> QED BY <1>1, <2>1, <2>5 DEF UsageInv
<1>4. ASSUME NEW o \in Opportunity, NEW i \in Eligible(ItemOf(o)), outcome[o] = "UNDECIDED",
             Take(o, i)
      PROVE  UsageInv'
  <2>1. ChosenIsEligible'
    BY <1>1, <1>2, <1>4 DEF Take, UsageInv, ChosenIsEligible, PlanTypeOK
  <2>2. \A r \in Resource : TotalOf(Drawn(r), Opportunity)' =
          TotalOf(Drawn(r), Opportunity) + UsageOf(o, i)[r]
    BY <1>1, <1>4, <2>1, SelectionDraws
  <2>3. \A c \in Customer : TotalOf(DrawnFor(c), Opportunity)' =
          TotalOf(DrawnFor(c), Opportunity)
            + IF ItemOf(o).customer = c THEN UsageOf(o, i)[Contact] ELSE 0
    BY <1>1, <1>4, <2>1, SelectionDraws
  <2>4. /\ \A r \in Shared : room'.used[r] = room.used[r] + UsageOf(o, i)[r]
        /\ \A c \in Customer : room'.contacts[c] =
             room.contacts[c] + IF ItemOf(o).customer = c THEN UsageOf(o, i)[Contact] ELSE 0
    BY <1>1, <1>4, SelectionUses
  <2>5. \A r \in Resource : TotalOf(Drawn(r), Opportunity) \in Int /\ UsageOf(o, i)[r] \in Int
    <3>1. ASSUME NEW r \in Resource
          PROVE  TotalOf(Drawn(r), Opportunity) \in Int
      <4>1. IsFiniteSet(Opportunity) /\ Drawn(r) \in [Opportunity -> Int]
        BY <1>1, DrawnIsTyped DEF UsageInv
      <4> QED BY <4>1, SumFacts, TotalIsSum
    <3>2. UsageOf(o, i) \in Usage
      BY <1>1, ItemIsTyped, EligibleIsIndex DEF PlanTypeOK
    <3> QED BY <3>1, <3>2 DEF Usage
  <2>6. ASSUME NEW c \in Customer
        PROVE  TotalOf(DrawnFor(c), Opportunity) \in Int
    <3>1. IsFiniteSet(Opportunity)
      BY <1>1, DrawnIsTyped DEF UsageInv, Resource
    <3>2. DrawnFor(c) \in [Opportunity -> Int]
      BY <1>1, DrawnForIsTyped DEF UsageInv
    <3> QED BY <3>1, <3>2, SumFacts, TotalIsSum
  <2>7. /\ call.room.used \in [Shared -> Nat] /\ call.room.contacts \in [Customer -> Nat]
        /\ Shared \subseteq Resource /\ Contact \in Resource
    BY <1>1 DEF PlanTypeOK, IsCall, Room, Resource
  <2>8. ASSUME NEW r \in Shared
        PROVE  room'.used[r] = call.room.used[r] + TotalOf(Drawn(r), Opportunity)'
    <3>1. room.used[r] = call.room.used[r] + TotalOf(Drawn(r), Opportunity)
      BY DEF UsageInv, UsageIsOfSelected
    <3> QED BY <2>2, <2>4, <2>5, <2>7, <3>1
  <2>9. ASSUME NEW c \in Customer
        PROVE  room'.contacts[c] = call.room.contacts[c] + TotalOf(DrawnFor(c), Opportunity)'
    <3>1. room.contacts[c] = call.room.contacts[c] + TotalOf(DrawnFor(c), Opportunity)
      BY DEF UsageInv, UsageIsOfSelected
    <3> QED BY <2>3, <2>4, <2>5, <2>6, <2>7, <3>1
  <2>10. UsageIsOfSelected'
    BY <1>1, <2>8, <2>9 DEF UsageIsOfSelected
  <2> QED BY <1>1, <2>1, <2>10 DEF UsageInv
<1> QED BY <1>3, <1>4, SelectionStep DEF SelectsOne, UsageInv

LEMMA UsageAtFirst == Init => UsageInv
<1> SUFFICES ASSUME Init PROVE UsageInv
  OBVIOUS
<1>1. IInv /\ ChosenIsEligible
  BY InitIInv DEF Init, ChosenIsEligible
<1>2. IsFiniteSet(Opportunity)
  BY <1>1, DrawnIsTyped DEF IInv, Resource
<1>3. ASSUME NEW r \in Resource
      PROVE  TotalOf(Drawn(r), Opportunity) = 0
  <2>1. PICK f : f = Drawn(r)
    OBVIOUS
  <2>2. f \in [Opportunity -> Int] /\ \A o \in Opportunity : f[o] = 0
    BY <2>1 DEF Init, Drawn
  <2> QED BY <1>2, <2>1, <2>2, SumOfZeros, TotalIsSum
<1>4. ASSUME NEW c \in Customer
      PROVE  TotalOf(DrawnFor(c), Opportunity) = 0
  <2>1. PICK f : f = DrawnFor(c)
    OBVIOUS
  <2>2. f \in [Opportunity -> Int] /\ \A o \in Opportunity : f[o] = 0
    BY <2>1 DEF Init, Drawn, DrawnFor
  <2> QED BY <1>2, <2>1, <2>2, SumOfZeros, TotalIsSum
<1>5. UsageIsOfSelected
  BY <1>1, <1>3, <1>4 DEF Init, UsageIsOfSelected, IInv, PlanTypeOK, Room, Resource
<1> QED BY <1>1, <1>5 DEF UsageInv

(* For any portfolio, what the call has used is what the candidates it has *)
(* selected draw: an opportunity is selected once, so an alternative or a  *)
(* second candidate of the fallback is never paid for on top of the first  *)
(* (reserve, resources.py:129-140).                                        *)
THEOREM UsageIsPaidOnce == Spec => []UsageIsOfSelected
BY UsageAtFirst, UsageStep, PTL DEF Spec, UsageInv

-----------------------------------------------------------------------------
(* The iterations.                                                         *)

\* What picks may be: candidates worth more than epsilon, or none.
ArePicks(p) ==
  p \in [Opportunity -> Nat] /\ \A o \in Opportunity : p[o] \in Eligible(ItemOf(o)) \cup {0}

\* What is picked draws amounts and is worth an amount.
LEMMA PickIsTyped ==
  ASSUME IsCall(call), NEW p, ArePicks(p), NEW o \in Opportunity, p[o] # 0
  PROVE  UsageOf(o, p[o]) \in Usage /\ EnrvOf(o, p[o]) \in Int
<1>1. p[o] \in DOMAIN ItemOf(o).candidates
  BY EligibleIsIndex DEF ArePicks
<1>2. ItemOf(o) \in Item
  BY ItemIsTyped
<1>3. ItemOf(o).candidates[p[o]] \in Candidate
  BY <1>1, <1>2 DEF Item
<1> QED BY <1>3 DEF UsageOf, EnrvOf, Candidate

LEMMA ResourcesAreFinite == IsFiniteSet(Resource) /\ IsFiniteSet(Customer)
<1>1. /\ SharedOrder \in Seq(Shared) /\ IsFiniteSet(Customer)
      /\ \A r \in Shared : \E i \in DOMAIN SharedOrder : SharedOrder[i] = r
  BY ResourceAssumption
<1>2. DOMAIN SharedOrder = 1 .. Len(SharedOrder) /\ Len(SharedOrder) \in Nat
  BY <1>1
<1>3. IsFiniteSet(DOMAIN SharedOrder)
  BY <1>2, FS_Interval
<1>4. IsFiniteSet(Shared)
  BY <1>1, <1>3, ImageIsFinite
<1> QED BY <1>1, <1>4, FS_AddElement DEF Resource

LEMMA OpportunitiesAreFinite ==
  ASSUME IsCall(call)
  PROVE  IsFiniteSet(Opportunity) /\ Opportunity \subseteq Nat
<1>1. Opportunity = 1 .. Len(call.items) /\ Len(call.items) \in Nat
  BY DEF IsCall, Opportunity
<1> QED BY <1>1, FS_Interval

\* What the picks draw of a resource is the sum over those for whom one was made.
LEMMA SameUsage ==
  ASSUME IsCall(call), NEW p, ArePicks(p), NEW r \in Resource
  PROVE  /\ RefUsage(call.items, p, r) = UsageOfPicks(p, r)
         /\ UsageOfPicks(p, r) \in Int
<1> DEFINE T == RefPicked(p)
           f == [o \in Opportunity |-> IF p[o] = 0 THEN 0 ELSE UsageOf(o, p[o])[r]]
           g == [o \in T |-> call.items[o].candidates[p[o]].usage[r]]
<1>1. T = {o \in Opportunity : p[o] # 0}
  BY DEF RefPicked, ArePicks
<1>2. ASSUME NEW o \in Opportunity, p[o] # 0
      PROVE  UsageOf(o, p[o])[r] \in Int
  BY <1>2, PickIsTyped DEF Usage
<1>3. f \in [Opportunity -> Int]
  BY <1>2
<1>4. g \in [T -> Int] /\ \A x \in T : f[x] = g[x]
  BY <1>1, <1>2 DEF UsageOf, ItemOf
<1>5. T \in SUBSET Opportunity /\ \A x \in Opportunity \ T : f[x] = 0
  BY <1>1
<1>6. RefUsage(call.items, p, r) = SumOver(g, T) /\ UsageOfPicks(p, r) = SumOver(f, Opportunity)
  BY TotalIsSum DEF RefUsage, UsageOfPicks
<1> HIDE DEF f, g, T
<1>7. IsFiniteSet(Opportunity)
  BY OpportunitiesAreFinite
<1> QED BY <1>3, <1>4, <1>5, <1>6, <1>7, SumOfSupport, SumFacts

\* And so for the contacts of a customer.
LEMMA SameContacts ==
  ASSUME IsCall(call), NEW p, ArePicks(p), NEW c \in Customer,
         NEW T, T = {o \in RefPicked(p) : call.items[o].customer = c}
  PROVE  /\ TotalOf([o \in T |-> call.items[o].candidates[p[o]].usage[Contact]], T)
              = ContactsOfPicks(p, c)
         /\ ContactsOfPicks(p, c) \in Int
<1> DEFINE f == [o \in Opportunity |-> IF p[o] = 0 \/ ItemOf(o).customer # c THEN 0
                                       ELSE UsageOf(o, p[o])[Contact]]
           g == [o \in T |-> call.items[o].candidates[p[o]].usage[Contact]]
<1>1. T = {o \in Opportunity : p[o] # 0 /\ ItemOf(o).customer = c}
  BY DEF RefPicked, ArePicks, ItemOf
<1>2. ASSUME NEW o \in Opportunity, p[o] # 0
      PROVE  UsageOf(o, p[o])[Contact] \in Int
  BY <1>2, PickIsTyped DEF Usage, Resource
<1>3. f \in [Opportunity -> Int]
  BY <1>2
<1>4. g \in [T -> Int] /\ \A x \in T : f[x] = g[x]
  BY <1>1, <1>2 DEF UsageOf, ItemOf
<1>5. T \in SUBSET Opportunity /\ \A x \in Opportunity \ T : f[x] = 0
  BY <1>1
<1>6. TotalOf(g, T) = SumOver(g, T) /\ ContactsOfPicks(p, c) = SumOver(f, Opportunity)
  BY TotalIsSum DEF ContactsOfPicks
<1>7. IsFiniteSet(Opportunity)
  BY OpportunitiesAreFinite
<1>8. SumOver(g, T) = SumOver(f, Opportunity) /\ SumOver(f, Opportunity) \in Int
  <2> HIDE DEF f, g
  <2> QED BY <1>3, <1>4, <1>5, <1>7, SumOfSupport, SumFacts
<1> QED BY <1>6, <1>8

\* How far the picks are from the limits.
LEMMA SameSubgradient ==
  ASSUME IsCall(call), NEW p, ArePicks(p)
  PROVE  /\ RefSubgradient(call.items, call.limits, p) = Subgradient(p)
         /\ Subgradient(p) \in [Resource -> Int]
<1>1. call.limits \in [Resource -> Nat] /\ Contact \in Resource
  BY DEF IsCall, Limits, Resource
<1> DEFINE A == call.limits[Contact]
           of(c) == {o \in RefPicked(p) : call.items[o].customer = c}
           count(c) ==
             TotalOf([o \in of(c) |-> call.items[o].candidates[p[o]].usage[Contact]], of(c))
           f == [c \in Customer |-> Atleast0(ContactsOfPicks(p, c) - A)]
           g == [c \in Customer |-> Atleast0(count(c) - A)]
<1>2. A \in Nat
  BY <1>1
<1>3. \A c \in Customer : ContactsOfPicks(p, c) \in Int
  BY SameContacts
<1>4. f = g
  <2>1. \A c \in Customer : count(c) = ContactsOfPicks(p, c)
    BY SameContacts
  <2> HIDE DEF count
  <2> QED BY <2>1
<1>5. f \in [Customer -> Int]
  <2>1. \A x \in Int : Atleast0(x) \in Int
    BY DEF Atleast0
  <2>2. ASSUME NEW c \in Customer
        PROVE  ContactsOfPicks(p, c) - A \in Int
    BY <1>2, <1>3
  <2> QED BY <2>1, <2>2
<1>6. /\ ContactExcess(p) = TotalOf(f, Customer)
      /\ RefContactViolation(call.items, p, A) = TotalOf(g, Customer)
  BY DEF ContactExcess, RefContactViolation
<1>7. ContactExcess(p) \in Int /\ ContactExcess(p) = RefContactViolation(call.items, p, A)
  <2> HIDE DEF f, g, A
  <2>1. TotalOf(f, Customer) = SumOver(f, Customer)
    BY TotalIsSum
  <2> QED BY <1>4, <1>5, <1>6, <2>1, ResourcesAreFinite, SumFacts
<1>8. \A r \in Resource : /\ RefUsage(call.items, p, r) = UsageOfPicks(p, r)
                          /\ UsageOfPicks(p, r) - call.limits[r] \in Int
  BY <1>1, SameUsage
<1>9. \A r \in Resource : RefSubgradient(call.items, call.limits, p)[r] = Subgradient(p)[r]
                          /\ Subgradient(p)[r] \in Int
  BY <1>7, <1>8 DEF RefSubgradient, Subgradient
<1> QED BY <1>9 DEF RefSubgradient, Subgradient

\* The picks under the same multipliers, and the test that ends the iterations.
LEMMA SamePicks ==
  /\ BestPicks = [o \in DOMAIN call.items |-> RefBest(call.items, o, lambda)]
  /\ \A g : RefConverged(call.limits, g) <=> Converged(g)
BY DEF BestPicks, RefBest, Opportunity, ItemOf, RefConverged, Converged

\* Best picks are picks.
LEMMA BestPicksAreTyped ==
  ASSUME IsCall(call)
  PROVE  ArePicks(BestPicks)
<1>1. ASSUME NEW o \in Opportunity
      PROVE  BestPicks[o] \in Eligible(ItemOf(o)) \cup {0}
  BY PreferredIsWithin, WorthIsWithin DEF BestPicks
<1>2. ASSUME NEW o \in Opportunity
      PROVE  Eligible(ItemOf(o)) \subseteq Nat
  BY EligibleIsIndex, ItemIsTyped DEF Item
<1> QED BY <1>1, <1>2 DEF BestPicks, ArePicks

-----------------------------------------------------------------------------
(* The reference.                                                          *)

\* What RefDual computes, step by step.
DualBase(items) ==
  [lambda |-> Zero, picks |-> [o \in DOMAIN items |-> 0], mode |-> "LAGRANGIAN"]

DualStep(items, limits, config, last, n) ==
  IF last.mode # "LAGRANGIAN" THEN last
  ELSE IF n > config.budget THEN [last EXCEPT !.mode = "FALLBACK_GREEDY"]
  ELSE RefIteration(items, limits, last, n)

\* run has the state after each of the first m iterations.
IsDualRun(items, limits, config, m, run) ==
  run = [n \in 0 .. m |-> IF n = 0 THEN DualBase(items)
                          ELSE DualStep(items, limits, config, run[n - 1], n)]

DualRun(items, limits, config) ==
  CHOOSE run : IsDualRun(items, limits, config, config.kMax, run)

LEMMA DualIsOfRun ==
  ASSUME NEW items, NEW limits, NEW config
  PROVE  RefDual(items, limits, config) = DualRun(items, limits, config)[config.kMax]
BY DEF RefDual, DualRun, IsDualRun, DualBase, DualStep

\* There is such a function: those for fewer iterations are continued.
LEMMA DualRunIs ==
  ASSUME NEW items, NEW limits, NEW config, config.kMax \in Nat
  PROVE  LET run == DualRun(items, limits, config)
         IN  /\ run[0] = DualBase(items)
             /\ \A n \in 1 .. config.kMax :
                  run[n] = DualStep(items, limits, config, run[n - 1], n)
<1> DEFINE Base == DualBase(items)
           Next1(last, n) == DualStep(items, limits, config, last, n)
           Runs(m, g) == g = [n \in 0 .. m |-> IF n = 0 THEN Base ELSE Next1(g[n - 1], n)]
           Good == {m \in Nat : \E g : Runs(m, g)}
<1>1. DualRun(items, limits, config) = CHOOSE g : Runs(config.kMax, g)
  BY DEF DualRun, IsDualRun
<1> HIDE DEF Base, Next1
<1>2. 0 \in Good
  <2>1. Runs(0, [n \in 0 .. 0 |-> Base])
    OBVIOUS
  <2> QED BY <2>1
<1>3. ASSUME NEW m \in Nat, m \in Good
      PROVE  m + 1 \in Good
  <2>1. PICK g : Runs(m, g)
    BY <1>3
  <2> DEFINE h == [n \in 0 .. m + 1 |-> IF n <= m THEN g[n] ELSE Next1(g[m], m + 1)]
  <2>2. ASSUME NEW n \in 0 .. m + 1
        PROVE  h[n] = IF n = 0 THEN Base ELSE Next1(h[n - 1], n)
    <3>1. CASE n = 0
      BY <2>1, <3>1
    <3>2. CASE n # 0 /\ n <= m
      <4>1. n \in 0 .. m /\ h[n] = g[n] /\ h[n - 1] = g[n - 1]
        BY <3>2
      <4> QED BY <2>1, <3>2, <4>1
    <3>3. CASE n = m + 1
      <4>1. h[n] = Next1(g[m], m + 1) /\ h[n - 1] = g[m] /\ n # 0
        BY <3>3
      <4> QED BY <3>3, <4>1
    <3> QED BY <3>1, <3>2, <3>3
  <2>3. Runs(m + 1, h)
    <3>1. h = [n \in 0 .. m + 1 |-> h[n]]
      OBVIOUS
    <3> HIDE DEF h
    <3> QED BY <2>2, <3>1
  <2> HIDE DEF h
  <2> QED BY <2>3
<1>4. config.kMax \in Good
  <2> HIDE DEF Good
  <2> QED BY <1>2, <1>3, NumberInduction
<1>5. PICK run : run = DualRun(items, limits, config)
  OBVIOUS
<1>6. Runs(config.kMax, run)
  <2> HIDE DEF Runs
  <2> QED BY <1>1, <1>4, <1>5
<1>7. \A n \in 0 .. config.kMax : run[n] = IF n = 0 THEN Base ELSE Next1(run[n - 1], n)
  BY <1>6
<1>8. run[0] = Base /\ \A n \in 1 .. config.kMax : run[n] = Next1(run[n - 1], n)
  BY <1>7
<1> QED BY <1>5, <1>8 DEF Base, Next1

\* What has converged, or spent its budget, stays as it is.
LEMMA DualStays ==
  ASSUME NEW items, NEW limits, NEW config, config.kMax \in Nat, NEW k0 \in 0 .. config.kMax,
         DualRun(items, limits, config)[k0].mode # "LAGRANGIAN"
  PROVE  RefDual(items, limits, config) = DualRun(items, limits, config)[k0]
<1>1. PICK run : run = DualRun(items, limits, config)
  OBVIOUS
<1>2. \A n \in 1 .. config.kMax : run[n] = DualStep(items, limits, config, run[n - 1], n)
  BY <1>1, DualRunIs
<1> DEFINE Good == {n \in Nat : k0 + n <= config.kMax => run[k0 + n] = run[k0]}
<1>3. 0 \in Good
  OBVIOUS
<1>4. ASSUME NEW n \in Nat, n \in Good
      PROVE  n + 1 \in Good
  <2> SUFFICES ASSUME k0 + (n + 1) <= config.kMax
               PROVE  run[k0 + (n + 1)] = run[k0]
    OBVIOUS
  <2>1. k0 + (n + 1) \in 1 .. config.kMax /\ (k0 + (n + 1)) - 1 = k0 + n /\ k0 + n <= config.kMax
    OBVIOUS
  <2>2. run[k0 + n] = run[k0]
    BY <1>4, <2>1
  <2>3. run[k0 + (n + 1)] = DualStep(items, limits, config, run[k0 + n], k0 + (n + 1))
    BY <1>2, <2>1
  <2> QED BY <1>1, <2>2, <2>3 DEF DualStep
<1> HIDE DEF Good
<1>5. config.kMax - k0 \in Nat /\ config.kMax - k0 \in Good
  BY <1>3, <1>4, NumberInduction
<1>6. run[config.kMax] = run[k0]
  <2>1. k0 + (config.kMax - k0) = config.kMax
    OBVIOUS
  <2> QED BY <1>5, <2>1 DEF Good
<1> QED BY <1>1, <1>6, DualIsOfRun

\* What RefPrimal computes, step by step.
PrimalBase(items, free, p) ==
  [todo |-> RefPicked(p), chosen |-> [o \in DOMAIN items |-> 0], room |-> free]

IsPrimalRun(items, limits, free, p, mu, m, run) ==
  run = [n \in 0 .. m |-> IF n = 0 THEN PrimalBase(items, free, p)
                          ELSE RefRecover(items, limits, p, mu, run[n - 1])]

PrimalRun(items, limits, free, p, mu) ==
  CHOOSE run : IsPrimalRun(items, limits, free, p, mu, Cardinality(RefPicked(p)), run)

LEMMA PrimalIsOfRun ==
  ASSUME NEW items, NEW limits, NEW free, NEW p, NEW mu
  PROVE  RefPrimal(items, limits, free, p, mu)
           = PrimalRun(items, limits, free, p, mu)[Cardinality(RefPicked(p))]
BY DEF RefPrimal, PrimalRun, IsPrimalRun, PrimalBase

LEMMA PrimalRunIs ==
  ASSUME NEW items, NEW limits, NEW free, NEW p, NEW mu,
         NEW N \in Nat, N = Cardinality(RefPicked(p))
  PROVE  LET run == PrimalRun(items, limits, free, p, mu)
         IN  /\ run[0] = PrimalBase(items, free, p)
             /\ \A n \in 1 .. N : run[n] = RefRecover(items, limits, p, mu, run[n - 1])
<1> DEFINE Base == PrimalBase(items, free, p)
           Next1(last) == RefRecover(items, limits, p, mu, last)
           Runs(m, g) == g = [n \in 0 .. m |-> IF n = 0 THEN Base ELSE Next1(g[n - 1])]
           Good == {m \in Nat : \E g : Runs(m, g)}
<1>1. PrimalRun(items, limits, free, p, mu) = CHOOSE g : Runs(N, g)
  BY DEF PrimalRun, IsPrimalRun
<1> HIDE DEF Base, Next1
<1>2. 0 \in Good
  <2>1. Runs(0, [n \in 0 .. 0 |-> Base])
    OBVIOUS
  <2> QED BY <2>1
<1>3. ASSUME NEW m \in Nat, m \in Good
      PROVE  m + 1 \in Good
  <2>1. PICK g : Runs(m, g)
    BY <1>3
  <2> DEFINE h == [n \in 0 .. m + 1 |-> IF n <= m THEN g[n] ELSE Next1(g[m])]
  <2>2. ASSUME NEW n \in 0 .. m + 1
        PROVE  h[n] = IF n = 0 THEN Base ELSE Next1(h[n - 1])
    <3>1. CASE n = 0
      BY <2>1, <3>1
    <3>2. CASE n # 0 /\ n <= m
      <4>1. n \in 0 .. m /\ h[n] = g[n] /\ h[n - 1] = g[n - 1]
        BY <3>2
      <4> QED BY <2>1, <3>2, <4>1
    <3>3. CASE n = m + 1
      <4>1. h[n] = Next1(g[m]) /\ h[n - 1] = g[m] /\ n # 0
        BY <3>3
      <4> QED BY <3>3, <4>1
    <3> QED BY <3>1, <3>2, <3>3
  <2>3. Runs(m + 1, h)
    <3>1. h = [n \in 0 .. m + 1 |-> h[n]]
      OBVIOUS
    <3> HIDE DEF h
    <3> QED BY <2>2, <3>1
  <2> HIDE DEF h
  <2> QED BY <2>3
<1>4. N \in Good
  <2> HIDE DEF Good
  <2> QED BY <1>2, <1>3, NumberInduction
<1>5. PICK run : run = PrimalRun(items, limits, free, p, mu)
  OBVIOUS
<1>6. Runs(N, run)
  <2> HIDE DEF Runs
  <2> QED BY <1>1, <1>4, <1>5
<1>7. \A n \in 0 .. N : run[n] = IF n = 0 THEN Base ELSE Next1(run[n - 1])
  BY <1>6
<1>8. run[0] = Base /\ \A n \in 1 .. N : run[n] = Next1(run[n - 1])
  BY <1>7
<1> QED BY <1>5, <1>8 DEF Base, Next1

-----------------------------------------------------------------------------
(* Recovery.                                                               *)

\* Of two lists of numbers one precedes the other.
LEMMA PrecedesIsStrict ==
  ASSUME NEW n \in Nat, NEW s \in [1 .. n -> Int], NEW t \in [1 .. n -> Int], Precedes(s, t)
  PROVE  ~Precedes(t, s)
<1>1. PICK a \in 1 .. n : s[a] < t[a] /\ \A m \in 1 .. (a - 1) : s[m] = t[m]
  BY DEF Precedes
<1>2. ASSUME NEW b \in 1 .. n, t[b] < s[b], \A m \in 1 .. (b - 1) : t[m] = s[m]
      PROVE  FALSE
  <2>1. CASE a < b
    BY <1>1, <1>2, <2>1
  <2>2. CASE b < a
    BY <1>1, <1>2, <2>2
  <2>3. CASE a = b
    BY <1>1, <1>2, <2>3
  <2> QED BY <2>1, <2>2, <2>3
<1> QED BY <1>2 DEF Precedes

\* What is compared are numbers.
LEMMA ScoreIsTyped ==
  ASSUME IsCall(call), lambda \in [Resource -> Int], ArePicks(picks),
         NEW o \in Opportunity, picks[o] # 0
  PROVE  Preference(call.items, o, picks[o], Score(o)) \in [1 .. 5 -> Int]
<1> DEFINE candidate == ItemOf(o).candidates[picks[o]]
           f == [r \in Resource |-> lambda[r] * candidate.usage[r]]
<1>1. UsageOf(o, picks[o]) = candidate.usage /\ EnrvOf(o, picks[o]) = candidate.enrv
  BY DEF UsageOf, EnrvOf
<1>2. candidate.usage \in [Resource -> Nat] /\ candidate.enrv \in Int
  BY <1>1, PickIsTyped DEF Usage
<1>3. f \in [Resource -> Int]
  BY <1>2
<1>4. TotalOf(f, Resource) \in Int
  BY <1>3, TotalIsSum, ResourcesAreFinite, SumFacts
<1>5. Score(o) \in Int
  <2>1. Score(o) = candidate.enrv - TotalOf(f, Resource)
    BY DEF Score, ReducedValue
  <2> QED BY <1>2, <1>4, <2>1
<1>6. ItemOf(o) \in Item /\ picks[o] \in DOMAIN ItemOf(o).candidates
  BY ItemIsTyped, EligibleIsIndex DEF ArePicks
<1>7. call.items[o].value \in Int /\ call.items[o].candidates[picks[o]].action \in Int
  <2>1. /\ ItemOf(o).value \in Nat
        /\ ItemOf(o).candidates \in Seq(Candidate)
    BY <1>6 DEF Item
  <2>2. candidate \in Candidate
    BY <1>6, <2>1
  <2>3. candidate.action \in Nat
    BY <2>2 DEF Candidate
  <2> QED BY <2>1, <2>3 DEF ItemOf
<1>8. o \in Int /\ picks[o] \in Int
  BY OpportunitiesAreFinite DEF ArePicks
<1> HIDE DEF candidate, f
<1> QED BY <1>5, <1>7, <1>8 DEF Preference

\* One opportunity is next.
LEMMA OneIsNext ==
  ASSUME IsCall(call), lambda \in [Resource -> Int], ArePicks(picks), todo \subseteq Opportunity,
         \A p \in todo : picks[p] # 0,
         NEW o, IsNext(o), NEW q, IsNext(q)
  PROVE  o = q
<1> SUFFICES ASSUME o # q PROVE FALSE
  OBVIOUS
<1> DEFINE Rank(p) == Preference(call.items, p, picks[p], Score(p))
<1>1. /\ o \in todo /\ \A p \in todo \ {o} : Precedes(Rank(o), Rank(p))
      /\ q \in todo /\ \A p \in todo \ {q} : Precedes(Rank(q), Rank(p))
  BY DEF IsNext, IsFirst
<1>2. Rank(o) \in [1 .. 5 -> Int] /\ Rank(q) \in [1 .. 5 -> Int]
  BY <1>1, ScoreIsTyped
<1>3. Precedes(Rank(o), Rank(q)) /\ Precedes(Rank(q), Rank(o))
  BY <1>1
<1> HIDE DEF Rank
<1> QED BY <1>2, <1>3, PrecedesIsStrict

\* What the reference makes of the opportunity that is next.
RecoversTo(o) ==
  LET i == IF Fits(o, picks[o]) THEN picks[o] ELSE Alternative(o)
  IN  [todo   |-> todo \ {o},
       chosen |-> [chosen EXCEPT ![o] = i],
       room   |-> IF i = 0 THEN room ELSE Reserve(room, UsageOf(o, i), ItemOf(o).customer)]

LEMMA ReferenceRecovers ==
  ASSUME IsCall(call), lambda \in [Resource -> Int], ArePicks(picks), todo \subseteq Opportunity,
         \A p \in todo : picks[p] # 0, NEW o, IsNext(o)
  PROVE  RefRecover(call.items, call.limits, picks, lambda,
                    [todo |-> todo, chosen |-> chosen, room |-> room]) = RecoversTo(o)
<1>1. PICK n : n = RefNext(call.items, picks, lambda, todo)
  OBVIOUS
<1>2. n = o
  <2> DEFINE Rank(p) == Preference(call.items, p, picks[p],
                                   ReducedValue(call.items[p].candidates[picks[p]], lambda))
             First(p) == p \in todo /\ IsFirst(p, todo, Rank)
  <2>1. n = CHOOSE p : First(p)
    BY <1>1 DEF RefNext
  <2>2. \A p : First(p) <=> IsNext(p)
    BY DEF IsNext, IsFirst, Score, ItemOf
  <2> HIDE DEF First
  <2> QED BY <2>1, <2>2, OneIsNext
<1>3. /\ Fits(o, picks[o]) <=>
           CanReserve(call.limits, room, call.items[o].candidates[picks[o]].usage,
                      call.items[o].customer)
      /\ Alternative(o) = RefAlternative(call.items, call.limits, room, o, lambda)
  BY DEF Fits, ItemOf, UsageOf, Alternative, Alternatives, RefAlternative
<1>4. PICK s : s = [todo |-> todo, chosen |-> chosen, room |-> room]
  OBVIOUS
<1>5. s.todo = todo /\ s.chosen = chosen /\ s.room = room
  BY <1>4
<1> QED BY <1>1, <1>2, <1>3, <1>4, <1>5 DEF RefRecover, RecoversTo, UsageOf, ItemOf

-----------------------------------------------------------------------------
(* The call beside the reference.                                          *)

\* The call is one that the reference is compared for.
Compared == ~call.config.force /\ call.config.kMax > 0

\* It is the iterations that decide.
InRecovery == phase = "recovery" \/ (phase = "done" /\ mode = "LAGRANGIAN")

DualTypeOK == k \in Nat \ {0} /\ lambda \in [Resource -> Nat]

NothingYet ==
  phase \in {"start", "dual"} => room = call.room /\ chosen = [o \in Opportunity |-> 0]

\* The iterations are where those of the reference are.
IterationsAgree ==
  LET run  == DualRun(call.items, call.limits, call.config)
      dual == RefDual(call.items, call.limits, call.config)
  IN  /\ phase = "start" => k = 1 /\ lambda = Zero /\ picks = [o \in Opportunity |-> 0]
      /\ phase = "dual" =>
           /\ k <= call.config.kMax + 1
           /\ run[k - 1] = [lambda |-> lambda, picks |-> picks, mode |-> "LAGRANGIAN"]
      /\ mode = "FALLBACK_GREEDY" => dual.mode = "FALLBACK_GREEDY"
      /\ InRecovery => dual.lambda = lambda /\ dual.picks = picks

\* Recovery has come as far as that of the reference after some of its picks.
RecoveryAgrees ==
  LET run == PrimalRun(call.items, call.limits, call.room, picks, lambda)
  IN  /\ InRecovery =>
           \E n \in Nat :
             /\ n + Cardinality(todo) = Cardinality(RefPicked(picks))
             /\ run[n] = [todo |-> todo, chosen |-> chosen, room |-> room]
      /\ phase = "done" /\ mode = "LAGRANGIAN" => todo = {}

AgreeInv ==
  /\ UsageInv /\ DualTypeOK /\ NothingYet
  /\ Compared => IterationsAgree /\ RecoveryAgrees

\* The parts of the invariant that the lemmas above ask for.
LEMMA InvGivesTypes ==
  ASSUME AgreeInv
  PROVE  /\ IsCall(call) /\ ArePicks(picks) /\ IInv /\ ChosenIsEligible
         /\ lambda \in [Resource -> Int]
         /\ phase = "recovery" => todo \subseteq Opportunity /\ \A p \in todo : picks[p] # 0
BY DEF AgreeInv, DualTypeOK, UsageInv, IInv, PlanTypeOK, PicksAreEligible, ArePicks, Progress,
   PickedIsDecided

\* An iteration of the reference, from where the call is.
LEMMA IterationIs ==
  ASSUME IsCall(call), NEW last,
         last = [lambda |-> lambda, picks |-> picks, mode |-> "LAGRANGIAN"]
  PROVE  RefIteration(call.items, call.limits, last, k) =
           IF Converged(Subgradient(BestPicks))
           THEN [lambda |-> lambda, picks |-> BestPicks, mode |-> "CONVERGED"]
           ELSE [lambda |-> [r \in Resource |->
                               Atleast0(lambda[r] + Step[k] * Subgradient(BestPicks)[r])],
                 picks |-> BestPicks, mode |-> "LAGRANGIAN"]
<1>1. PICK p, g : p = BestPicks /\ g = Subgradient(p)
  OBVIOUS
<1>2. last.lambda = lambda
  OBVIOUS
<1>3. p = [o \in DOMAIN call.items |-> RefBest(call.items, o, last.lambda)]
  BY <1>1, <1>2, SamePicks
<1>4. g = RefSubgradient(call.items, call.limits, p)
  BY <1>1, BestPicksAreTyped, SameSubgradient
<1>5. RefConverged(call.limits, g) <=> Converged(g)
  BY SamePicks
<1>6. RefIteration(call.items, call.limits, last, k) =
        IF RefConverged(call.limits, g)
        THEN [last EXCEPT !.picks = p, !.mode = "CONVERGED"]
        ELSE [last EXCEPT !.picks = p,
                          !.lambda = [r \in Resource |-> Atleast0(@[r] + Step[k] * g[r])]]
  BY <1>3, <1>4 DEF RefIteration
<1>7. [last EXCEPT !.picks = p, !.mode = "CONVERGED"]
        = [lambda |-> lambda, picks |-> p, mode |-> "CONVERGED"]
  <2>1. PICK x : x = [last EXCEPT !.picks = p, !.mode = "CONVERGED"]
    OBVIOUS
  <2>2. x = [lambda |-> lambda, picks |-> p, mode |-> "CONVERGED"]
    BY <2>1
  <2> QED BY <2>1, <2>2
<1> DEFINE mu == [r \in Resource |-> Atleast0(lambda[r] + Step[k] * g[r])]
<1>8. [last EXCEPT !.picks = p, !.lambda = [r \in Resource |-> Atleast0(@[r] + Step[k] * g[r])]]
        = [lambda |-> mu, picks |-> p, mode |-> "LAGRANGIAN"]
  <2>1. [last EXCEPT !.picks = p, !.lambda = [r \in Resource |-> Atleast0(@[r] + Step[k] * g[r])]]
          = [last EXCEPT !.picks = p, !.lambda = mu]
    BY <1>2
  <2> HIDE DEF mu
  <2>2. PICK x : x = [last EXCEPT !.picks = p, !.lambda = mu]
    OBVIOUS
  <2>3. x = [lambda |-> mu, picks |-> p, mode |-> "LAGRANGIAN"]
    BY <2>2
  <2> QED BY <2>1, <2>2, <2>3
<1> QED BY <1>1, <1>5, <1>6, <1>7, <1>8

\* Multipliers stay amounts.
LEMMA NextMultipliers ==
  ASSUME IsCall(call), DualTypeOK, k <= call.config.kMax, NEW g \in [Resource -> Int]
  PROVE  [r \in Resource |-> Atleast0(lambda[r] + Step[k] * g[r])] \in [Resource -> Nat]
<1>1. Step \in Seq(Nat) /\ call.config.kMax <= Len(Step) /\ call.config.kMax \in Int
  BY ReferenceAssumption DEF IsCall
<1>2. k \in 1 .. Len(Step)
  BY <1>1 DEF DualTypeOK
<1>3. Step[k] \in Nat
  BY <1>1, <1>2
<1>4. \A x \in Int : Atleast0(x) \in Nat
  BY DEF Atleast0
<1>5. \A r \in Resource : lambda[r] + Step[k] * g[r] \in Int
  BY <1>3 DEF DualTypeOK
<1> QED BY <1>4, <1>5

\* Recovery starts where that of the reference does.
LEMMA RecoveryStarts ==
  ASSUME NEW p, ArePicks(p), IsCall(call), NEW mu
  PROVE  /\ Cardinality(RefPicked(p)) \in Nat
         /\ RefPicked(p) = {o \in Opportunity : p[o] # 0}
         /\ PrimalRun(call.items, call.limits, call.room, p, mu)[0]
              = [todo |-> RefPicked(p), chosen |-> [o \in Opportunity |-> 0], room |-> call.room]
<1>1. RefPicked(p) = {o \in Opportunity : p[o] # 0}
  BY DEF RefPicked, ArePicks
<1>2. IsFiniteSet(RefPicked(p))
  BY <1>1, OpportunitiesAreFinite, FS_Subset
<1>3. PICK N \in Nat : N = Cardinality(RefPicked(p))
  BY <1>2, FS_CardinalityType
<1>4. PrimalRun(call.items, call.limits, call.room, p, mu)[0] = PrimalBase(call.items, call.room, p)
  BY <1>3, PrimalRunIs
<1> QED BY <1>1, <1>3, <1>4 DEF PrimalBase, Opportunity

-----------------------------------------------------------------------------
(* The steps.                                                              *)

LEMMA InitAgrees == Init => AgreeInv
<1> SUFFICES ASSUME Init PROVE AgreeInv
  OBVIOUS
<1>1. UsageInv
  BY UsageAtFirst
<1>2. DualTypeOK /\ NothingYet
  <2>1. Zero \in [Resource -> Nat]
    BY DEF Zero
  <2> QED BY <2>1 DEF Init, DualTypeOK, NothingYet
<1>3. IterationsAgree /\ RecoveryAgrees
  BY DEF Init, IterationsAgree, RecoveryAgrees, InRecovery
<1> QED BY <1>1, <1>2, <1>3 DEF AgreeInv

LEMMA StartAgrees ==
  ASSUME AgreeInv, UsageInv', Start
  PROVE  AgreeInv'
<1> UNCHANGED <<call, k, lambda, picks, room, chosen>> /\ phase = "start"
  BY DEF Start, dualVars, planVars
<1> UNCHANGED Opportunity
  BY DEF Opportunity
<1>1. DualTypeOK' /\ NothingYet'
  BY DEF AgreeInv, DualTypeOK, NothingYet
<1>2. ASSUME Compared'
      PROVE  IterationsAgree' /\ RecoveryAgrees'
  <2>1. Compared /\ call.config.kMax \in Int
    BY <1>2, InvGivesTypes DEF Compared, IsCall
  <2>2. phase' = "dual" /\ UNCHANGED mode
    BY <2>1 DEF Start, Compared
  <2>3. mode = "LAGRANGIAN"
    BY InvGivesTypes DEF IInv, Progress
  <2>4. k = 1 /\ lambda = Zero /\ picks = [o \in Opportunity |-> 0]
    BY <2>1 DEF AgreeInv, IterationsAgree
  <2>5. call.config.kMax \in Nat /\ k <= call.config.kMax + 1
    BY <2>1, <2>4 DEF Compared
  <2>6. DualRun(call.items, call.limits, call.config)[k - 1]
          = [lambda |-> lambda, picks |-> picks, mode |-> "LAGRANGIAN"]
    <3>1. k - 1 = 0
      BY <2>4
    <3> QED BY <2>4, <2>5, <3>1, DualRunIs DEF DualBase, Opportunity
  <2> QED BY <2>2, <2>3, <2>5, <2>6 DEF IterationsAgree, RecoveryAgrees, InRecovery
<1> QED BY <1>1, <1>2 DEF AgreeInv

\* What the next iteration of the reference is.
LEMMA NextOfRun ==
  ASSUME AgreeInv, Compared, phase = "dual", k <= call.config.kMax
  PROVE  /\ k \in 1 .. call.config.kMax /\ call.config.kMax \in Nat
         /\ DualRun(call.items, call.limits, call.config)[k] =
              IF k > call.config.budget
              THEN [lambda |-> lambda, picks |-> picks, mode |-> "FALLBACK_GREEDY"]
              ELSE IF Converged(Subgradient(BestPicks))
              THEN [lambda |-> lambda, picks |-> BestPicks, mode |-> "CONVERGED"]
              ELSE [lambda |-> [r \in Resource |->
                                  Atleast0(lambda[r] + Step[k] * Subgradient(BestPicks)[r])],
                    picks |-> BestPicks, mode |-> "LAGRANGIAN"]
<1>1. IsCall(call) /\ call.config.kMax \in Nat /\ k \in 1 .. call.config.kMax
  BY InvGivesTypes DEF IsCall, Compared, AgreeInv, DualTypeOK
<1>2. PICK run : run = DualRun(call.items, call.limits, call.config)
  OBVIOUS
<1>3. PICK last : last = run[k - 1]
  OBVIOUS
<1>4. last = [lambda |-> lambda, picks |-> picks, mode |-> "LAGRANGIAN"]
  BY <1>2, <1>3 DEF AgreeInv, IterationsAgree
<1>5. run[k] = DualStep(call.items, call.limits, call.config, last, k)
  BY <1>1, <1>2, <1>3, DualRunIs
<1>6. CASE k > call.config.budget
  <2>1. run[k] = [last EXCEPT !.mode = "FALLBACK_GREEDY"]
    BY <1>4, <1>5, <1>6 DEF DualStep
  <2>2. run[k] = [lambda |-> lambda, picks |-> picks, mode |-> "FALLBACK_GREEDY"]
    BY <1>4, <2>1
  <2> QED BY <1>1, <1>2, <1>6, <2>2
<1>7. CASE ~(k > call.config.budget)
  <2>1. run[k] = RefIteration(call.items, call.limits, last, k)
    BY <1>4, <1>5, <1>7 DEF DualStep
  <2> QED BY <1>1, <1>2, <1>4, <1>7, <2>1, IterationIs
<1> QED BY <1>6, <1>7

LEMMA IterateAgrees ==
  ASSUME AgreeInv, UsageInv', Iterate
  PROVE  AgreeInv'
<1> DEFINE G == Subgradient(BestPicks)
           mu == [r \in Resource |-> Atleast0(lambda[r] + Step[k] * G[r])]
<1> UNCHANGED <<call, mode, room, chosen>> /\ phase = "dual" /\ k <= call.config.kMax
                                           /\ ~(k > call.config.budget)
  <2>1. k <= call.config.budget /\ k \in Int /\ call.config.budget \in Int
    BY InvGivesTypes DEF Iterate, IsCall, AgreeInv, DualTypeOK
  <2> QED BY <2>1 DEF Iterate, planVars
<1> UNCHANGED Opportunity
  BY DEF Opportunity
<1>0. picks' = BestPicks
  BY DEF Iterate
<1>1. /\ Converged(G) => /\ phase' = "recovery" /\ todo' = {o \in Opportunity : picks'[o] # 0}
                         /\ UNCHANGED <<k, lambda>>
      /\ ~Converged(G) => /\ lambda' = mu /\ k' = k + 1
                          /\ UNCHANGED <<phase, todo>>
  BY <1>0 DEF Iterate
<1>2. IsCall(call) /\ ArePicks(BestPicks) /\ G \in [Resource -> Int]
  BY InvGivesTypes, BestPicksAreTyped, SameSubgradient
<1>3. room = call.room /\ chosen = [o \in Opportunity |-> 0]
  BY DEF AgreeInv, NothingYet
<1>4. DualTypeOK' /\ NothingYet'
  <2> HIDE DEF G
  <2>1. mu \in [Resource -> Nat]
    BY <1>2, NextMultipliers DEF AgreeInv
  <2> HIDE DEF mu
  <2> QED BY <1>1, <1>3, <2>1 DEF AgreeInv, DualTypeOK, NothingYet
<1>5. mode = "LAGRANGIAN"
  BY InvGivesTypes DEF IInv, Progress
<1>6. ASSUME Compared'
      PROVE  IterationsAgree' /\ RecoveryAgrees'
  <2>1. Compared
    BY <1>6 DEF Compared
  <2>2. PICK run : run = DualRun(call.items, call.limits, call.config)
    OBVIOUS
  <2>3. /\ k \in 1 .. call.config.kMax /\ call.config.kMax \in Nat
        /\ run[k] = IF Converged(G)
                    THEN [lambda |-> lambda, picks |-> BestPicks, mode |-> "CONVERGED"]
                    ELSE [lambda |-> mu, picks |-> BestPicks, mode |-> "LAGRANGIAN"]
    BY <2>1, <2>2, NextOfRun
  <2> HIDE DEF G, mu
  <2>4. CASE Converged(G)
    <3>1. RefDual(call.items, call.limits, call.config) = run[k]
      BY <2>2, <2>3, <2>4, DualStays
    <3>2. IterationsAgree'
      BY <1>0, <1>1, <1>5, <2>3, <2>4, <3>1 DEF IterationsAgree, InRecovery
    <3>3. PICK start : start = PrimalRun(call.items, call.limits, call.room, BestPicks, lambda)[0]
      OBVIOUS
    <3>4. PICK T : T = RefPicked(BestPicks)
      OBVIOUS
    <3>5. Cardinality(T) \in Nat /\ T = todo'
          /\ start = [todo |-> T, chosen |-> chosen, room |-> room]
      BY <1>0, <1>1, <1>2, <1>3, <2>4, <3>3, <3>4, RecoveryStarts
    <3>6. 0 + Cardinality(todo') = Cardinality(RefPicked(picks'))
      BY <1>0, <3>4, <3>5
    <3>7. PrimalRun(call.items, call.limits, call.room, picks', lambda')[0]
            = [todo |-> todo', chosen |-> chosen', room |-> room']
      BY <1>0, <1>1, <2>4, <3>3, <3>5
    <3>8. phase' = "recovery"
      BY <1>1, <2>4
    <3>9. RecoveryAgrees'
      BY <3>6, <3>7, <3>8 DEF RecoveryAgrees
    <3> QED BY <3>2, <3>9
  <2>5. CASE ~Converged(G)
    <3>1. k' = k + 1 /\ lambda' = mu /\ phase' = "dual" /\ k' - 1 = k /\ k' <= call.config.kMax + 1
      BY <1>1, <2>3, <2>5
    <3>2. run[k' - 1] = [lambda |-> lambda', picks |-> picks', mode |-> "LAGRANGIAN"]
      BY <1>0, <2>3, <2>5, <3>1
    <3>3. IterationsAgree'
      BY <1>5, <2>2, <3>1, <3>2 DEF IterationsAgree, InRecovery
    <3> QED BY <3>1, <3>3 DEF RecoveryAgrees, InRecovery
  <2> QED BY <2>4, <2>5
<1> QED BY <1>4, <1>6 DEF AgreeInv

LEMMA EndIterationsAgrees ==
  ASSUME AgreeInv, UsageInv', EndIterations
  PROVE  AgreeInv'
<1> /\ UNCHANGED <<call, mode, k, lambda, picks, room, chosen>> /\ phase = "dual"
    /\ k > call.config.kMax /\ phase' = "recovery" /\ todo' = Picked
  BY DEF EndIterations, dualVars, planVars
<1> UNCHANGED Opportunity
  BY DEF Opportunity
<1>1. room = call.room /\ chosen = [o \in Opportunity |-> 0]
  BY DEF AgreeInv, NothingYet
<1>2. DualTypeOK' /\ NothingYet'
  BY DEF AgreeInv, DualTypeOK, NothingYet
<1>3. mode = "LAGRANGIAN" /\ IsCall(call) /\ ArePicks(picks)
  BY InvGivesTypes DEF IInv, Progress
<1>4. ASSUME Compared'
      PROVE  IterationsAgree' /\ RecoveryAgrees'
  <2>1. Compared
    BY <1>4 DEF Compared
  <2>2. PICK run : run = DualRun(call.items, call.limits, call.config)
    OBVIOUS
  <2>3. /\ k <= call.config.kMax + 1
        /\ run[k - 1] = [lambda |-> lambda, picks |-> picks, mode |-> "LAGRANGIAN"]
    BY <2>1, <2>2 DEF AgreeInv, IterationsAgree
  <2>4. k - 1 = call.config.kMax
    <3>1. k \in Int /\ call.config.kMax \in Int
      BY <1>3 DEF AgreeInv, DualTypeOK, IsCall
    <3> QED BY <2>3, <3>1
  <2>5. RefDual(call.items, call.limits, call.config) = run[k - 1]
    BY <2>2, <2>4, DualIsOfRun
  <2>6. IterationsAgree'
    BY <1>3, <2>3, <2>5 DEF IterationsAgree, InRecovery
  <2>7. PICK start : start = PrimalRun(call.items, call.limits, call.room, picks, lambda)[0]
    OBVIOUS
  <2>8. /\ Cardinality(RefPicked(picks)) \in Nat /\ RefPicked(picks) = Picked
        /\ start = [todo |-> RefPicked(picks), chosen |-> chosen, room |-> room]
    BY <1>1, <1>3, <2>7, RecoveryStarts DEF Picked
  <2>9. 0 + Cardinality(todo') = Cardinality(RefPicked(picks))
    BY <2>8
  <2>10. start = [todo |-> todo', chosen |-> chosen, room |-> room]
    BY <2>8
  <2>11. RecoveryAgrees'
    BY <2>7, <2>9, <2>10 DEF RecoveryAgrees
  <2> QED BY <2>6, <2>11
<1> QED BY <1>2, <1>4 DEF AgreeInv

LEMMA SpendBudgetAgrees ==
  ASSUME AgreeInv, UsageInv', SpendBudget
  PROVE  AgreeInv'
<1> /\ UNCHANGED <<call, k, lambda, picks, room, chosen>> /\ phase = "dual"
    /\ k <= call.config.kMax /\ k > call.config.budget
    /\ phase' = "fallback" /\ mode' = "FALLBACK_GREEDY"
  BY DEF SpendBudget, StartFallback, dualVars, planVars
<1>1. DualTypeOK' /\ NothingYet'
  BY DEF AgreeInv, DualTypeOK, NothingYet
<1>2. ASSUME Compared'
      PROVE  IterationsAgree' /\ RecoveryAgrees'
  <2>1. Compared
    BY <1>2 DEF Compared
  <2>2. PICK run : run = DualRun(call.items, call.limits, call.config)
    OBVIOUS
  <2>3. /\ k \in 1 .. call.config.kMax /\ call.config.kMax \in Nat
        /\ run[k] = [lambda |-> lambda, picks |-> picks, mode |-> "FALLBACK_GREEDY"]
    BY <2>1, <2>2, NextOfRun
  <2>4. RefDual(call.items, call.limits, call.config) = run[k]
    BY <2>2, <2>3, DualStays
  <2> QED BY <2>3, <2>4 DEF IterationsAgree, RecoveryAgrees, InRecovery
<1> QED BY <1>1, <1>2 DEF AgreeInv

\* A step of recovery is that of the reference.
LEMMA RecoverAgrees ==
  ASSUME AgreeInv, UsageInv', NEW o, IsNext(o), UNCHANGED <<call, phase, mode, dualVars>>,
         [todo |-> todo', chosen |-> chosen', room |-> room'] = RecoversTo(o), todo' = todo \ {o}
  PROVE  AgreeInv'
<1> UNCHANGED <<k, lambda, picks>> /\ phase = "recovery" /\ o \in todo
  BY DEF dualVars, IsNext, IsFirst
<1>1. DualTypeOK' /\ NothingYet'
  BY DEF AgreeInv, DualTypeOK, NothingYet
<1>2. ASSUME Compared'
      PROVE  IterationsAgree' /\ RecoveryAgrees'
  <2>1. Compared
    BY <1>2 DEF Compared
  <2>2. IterationsAgree'
    BY <2>1 DEF AgreeInv, IterationsAgree, InRecovery
  <2>3. PICK run : run = PrimalRun(call.items, call.limits, call.room, picks, lambda)
    OBVIOUS
  <2>4. PICK n \in Nat : /\ n + Cardinality(todo) = Cardinality(RefPicked(picks))
                         /\ run[n] = [todo |-> todo, chosen |-> chosen, room |-> room]
    <3>1. RecoveryAgrees /\ InRecovery
      BY <2>1 DEF AgreeInv, InRecovery
    <3> QED BY <2>3, <3>1 DEF RecoveryAgrees
  <2>5. PICK N \in Nat : N = Cardinality(RefPicked(picks))
    <3>1. IsCall(call) /\ ArePicks(picks)
      BY InvGivesTypes
    <3>2. Cardinality(RefPicked(picks)) \in Nat
      BY <3>1, RecoveryStarts
    <3> QED BY <3>2
  <2>6. IsFiniteSet(todo)
    <3>1. todo \in SUBSET Opportunity /\ IsFiniteSet(Opportunity)
      BY InvGivesTypes, OpportunitiesAreFinite
    <3> QED BY <3>1, FS_Subset
  <2>7. Cardinality(todo') = Cardinality(todo) - 1 /\ Cardinality(todo) \in Nat
        /\ Cardinality(todo) # 0
    BY <2>6, FS_RemoveElement, FS_CardinalityType, FS_EmptySet
  <2>8. n + 1 \in 1 .. N /\ (n + 1) - 1 = n /\ (n + 1) + Cardinality(todo') = N
    BY <2>4, <2>5, <2>7
  <2>9. run[n + 1] = RefRecover(call.items, call.limits, picks, lambda, run[n])
    BY <2>3, <2>5, <2>8, PrimalRunIs
  <2>10. run[n + 1] = RecoversTo(o)
    BY <2>4, <2>9, InvGivesTypes, ReferenceRecovers
  <2>11. RecoveryAgrees'
    BY <2>3, <2>5, <2>8, <2>10 DEF RecoveryAgrees
  <2> QED BY <2>2, <2>11
<1> QED BY <1>1, <1>2 DEF AgreeInv

LEMMA PicksAgree ==
  ASSUME AgreeInv, UsageInv', NEW o \in Opportunity, TakePick(o) \/ TakeAlternative(o) \/ Defer(o)
  PROVE  AgreeInv'
<1>1. /\ IsNext(o) /\ UNCHANGED <<call, phase, mode, dualVars>> /\ todo' = todo \ {o}
      /\ o \in todo /\ phase = "recovery"
  BY DEF TakePick, TakeAlternative, Defer, IsNext, IsFirst
<1>2. picks[o] # 0 /\ outcome[o] = "UNDECIDED" /\ chosen \in [Opportunity -> Nat]
  BY <1>1, InvGivesTypes DEF IInv, PickedIsDecided, PlanTypeOK
<1>3. [todo |-> todo', chosen |-> chosen', room |-> room'] = RecoversTo(o)
  <2>1. CASE TakePick(o)
    BY <1>1, <1>2, <2>1 DEF TakePick, Take, RecoversTo
  <2>2. CASE TakeAlternative(o)
    BY <1>1, <2>2 DEF TakeAlternative, Take, RecoversTo
  <2>3. CASE Defer(o)
    <3>1. Alternative(o) = 0 /\ ~Fits(o, picks[o]) /\ UNCHANGED <<room, chosen>>
      BY <2>3, PreferredIsWithin DEF Defer, Alternative
    <3>2. chosen[o] = 0
      BY <1>2, InvGivesTypes DEF ChosenIsEligible
    <3>3. [chosen EXCEPT ![o] = 0] = chosen
      BY <1>2, <3>2
    <3> QED BY <1>1, <3>1, <3>3 DEF RecoversTo
  <2> QED BY <2>1, <2>2, <2>3
<1> QED BY <1>1, <1>3, RecoverAgrees

LEMMA EndAgrees ==
  ASSUME AgreeInv, UsageInv', EndRecovery
  PROVE  AgreeInv'
<1> /\ UNCHANGED <<call, mode, k, lambda, picks, todo, room, chosen>>
    /\ phase = "recovery" /\ todo = {} /\ phase' = "done"
  BY DEF EndRecovery, dualVars
<1>1. DualTypeOK' /\ NothingYet'
  BY DEF AgreeInv, DualTypeOK, NothingYet
<1>2. ASSUME Compared'
      PROVE  IterationsAgree' /\ RecoveryAgrees'
  <2>1. Compared
    BY <1>2 DEF Compared
  <2> QED BY <2>1 DEF AgreeInv, IterationsAgree, RecoveryAgrees, InRecovery
<1> QED BY <1>1, <1>2 DEF AgreeInv

LEMMA FallbackAgrees ==
  ASSUME AgreeInv, UsageInv',
         EndFallback \/ \E x \in Pool : FallbackTake(x) \/ FallbackPass(x)
  PROVE  AgreeInv'
<1> UNCHANGED <<call, mode, k, lambda, picks>> /\
    phase = "fallback" /\ phase' \in {"fallback", "done"}
  BY DEF FallbackTake, FallbackPass, EndFallback, IsDensest, Dismiss, dualVars
<1>1. DualTypeOK' /\ NothingYet'
  BY DEF AgreeInv, DualTypeOK, NothingYet
<1>2. mode = "FALLBACK_GREEDY"
  BY InvGivesTypes DEF IInv, Progress
<1>3. ASSUME Compared'
      PROVE  IterationsAgree' /\ RecoveryAgrees'
  <2>1. Compared
    BY <1>3 DEF Compared
  <2> QED BY <1>2, <2>1 DEF AgreeInv, IterationsAgree, RecoveryAgrees, InRecovery
<1> QED BY <1>1, <1>3 DEF AgreeInv

LEMMA AgreeStep ==
  ASSUME AgreeInv, [Next]_vars
  PROVE  AgreeInv'
<1>1. UsageInv'
  BY UsageStep DEF AgreeInv
<1>2. CASE UNCHANGED vars
  <2> UNCHANGED <<call, phase, mode, k, lambda, picks, todo, room, chosen>>
    BY <1>2 DEF vars, dualVars, planVars
  <2> QED BY <1>1 DEF AgreeInv, DualTypeOK, NothingYet, Compared, IterationsAgree, RecoveryAgrees,
          InRecovery, Opportunity
<1>3. CASE Next
  BY <1>1, <1>2, <1>3, StartAgrees, IterateAgrees, EndIterationsAgrees, SpendBudgetAgrees,
     PicksAgree, EndAgrees, FallbackAgrees DEF Next, Return
<1> QED BY <1>2, <1>3

(* For any portfolio, limits, configuration and use of earlier cycles,     *)
(* when recovery answers, the candidates selected and the resources used   *)
(* are those of the allocator before it was made fast: the same picks and  *)
(* multipliers in every iteration, the same end of the iterations, and the *)
(* same repair of every pick, in the same order (lagrangian.py against     *)
(* lagrangian_reference.py).                                               *)
THEOREM FastAgrees == Spec => []AgreesWithReference
<1>1. AgreeInv => AgreesWithReference
  <2> DEFINE dual == RefDual(call.items, call.limits, call.config)
             primal == RefPrimal(call.items, call.limits, call.room, dual.picks, dual.lambda)
  <2> SUFFICES ASSUME AgreeInv, phase = "done", ~call.config.force, call.config.kMax > 0,
                      dual.mode # "FALLBACK_GREEDY"
               PROVE  chosen = primal.chosen /\ room = primal.room
    BY DEF AgreesWithReference
  <2>1. IterationsAgree /\ RecoveryAgrees
    BY DEF AgreeInv, Compared
  <2>2. mode = "LAGRANGIAN" /\ InRecovery
    BY <2>1, InvGivesTypes DEF IterationsAgree, IInv, PlanTypeOK, InRecovery
  <2>3. dual.picks = picks /\ dual.lambda = lambda /\ todo = {}
    BY <2>1, <2>2 DEF IterationsAgree, RecoveryAgrees
  <2>4. PICK run : run = PrimalRun(call.items, call.limits, call.room, picks, lambda)
    OBVIOUS
  <2>5. PICK n \in Nat : /\ n + Cardinality(todo) = Cardinality(RefPicked(picks))
                         /\ run[n] = [todo |-> todo, chosen |-> chosen, room |-> room]
    BY <2>1, <2>2, <2>4 DEF RecoveryAgrees
  <2>6. n = Cardinality(RefPicked(picks))
    BY <2>3, <2>5, FS_EmptySet
  <2>7. primal = run[n]
    BY <2>3, <2>4, <2>6, PrimalIsOfRun
  <2> HIDE DEF primal
  <2> QED BY <2>5, <2>7
<1> QED BY <1>1, InitAgrees, AgreeStep, PTL DEF Spec

-----------------------------------------------------------------------------
(* Types.                                                                  *)

\* A deferral names a resource, or none.
LEMMA BindingIsTyped ==
  /\ \A limits, rm, u, c : Binding(limits, rm, u, c) \in Resource \cup {"none"}
  /\ \A limits, rm, item : MostBinding(limits, rm, item) \in Resource \cup {"none"}
<1>1. ASSUME NEW limits, NEW rm, NEW u, NEW c
      PROVE  Binding(limits, rm, u, c) \in Resource \cup {"none"}
  <2> DEFINE over == {i \in DOMAIN SharedOrder :
                        rm.used[SharedOrder[i]] + u[SharedOrder[i]] > limits[SharedOrder[i]]}
  <2>1. SharedOrder \in Seq(Shared) /\ over \subseteq DOMAIN SharedOrder
    BY ResourceAssumption
  <2>2. over # {} => SharedOrder[Min(over)] \in Shared
    <3> SUFFICES ASSUME over # {} PROVE Min(over) \in DOMAIN SharedOrder
      BY <2>1
    <3>1. over \in SUBSET Nat
      BY <2>1
    <3> HIDE DEF over
    <3>2. \E m \in over : \A n \in over : m <= n
      BY <3>1, LeastNumber
    <3>3. Min(over) \in over
      BY <3>2 DEF Min
    <3> QED BY <2>1, <3>3
  <2>3. Binding(limits, rm, u, c) \in {SharedOrder[Min(over)], Contact, "none"}
        /\ (over = {} => Binding(limits, rm, u, c) \in {Contact, "none"})
    BY DEF Binding
  <2> HIDE DEF over
  <2> QED BY <2>2, <2>3 DEF Resource
<1> QED BY <1>1 DEF MostBinding

\* What the types need beside AgreeInv.
RestTypeOK ==
  /\ phase \in {"start", "dual", "done"} => todo = {}
  /\ binding \in [Opportunity -> Resource \cup {"none"}]

LEMMA RestStep ==
  ASSUME IInv, RestTypeOK, [Next]_vars
  PROVE  RestTypeOK'
<1>1. UNCHANGED Opportunity
  BY SelectionStep DEF Opportunity
<1>2. CASE Start \/ Iterate \/ EndIterations \/ SpendBudget \/ Return \/ UNCHANGED vars
  BY <1>1, <1>2 DEF Start, StartFallback, Iterate, EndIterations, SpendBudget, Return, vars,
     planVars, RestTypeOK
<1>3. ASSUME NEW o \in Opportunity, TakePick(o) \/ TakeAlternative(o)
      PROVE  RestTypeOK'
  BY <1>1, <1>3 DEF TakePick, TakeAlternative, IsNext, RestTypeOK
<1>4. ASSUME NEW o \in Opportunity, Defer(o)
      PROVE  RestTypeOK'
  BY <1>1, <1>4, BindingIsTyped DEF Defer, IsNext, RestTypeOK
<1>5. CASE EndRecovery \/ EndFallback
  <2>1. NameBinding /\ todo = {} /\ todo' = todo
    BY <1>5 DEF EndRecovery, EndFallback
  <2> QED BY <1>1, <2>1, BindingIsTyped DEF NameBinding, RestTypeOK
<1>6. ASSUME NEW x \in Pool, FallbackTake(x) \/ FallbackPass(x)
      PROVE  RestTypeOK'
  BY <1>1, <1>6 DEF FallbackTake, FallbackPass, IsDensest, Dismiss, planVars, RestTypeOK
<1> QED BY <1>2, <1>3, <1>4, <1>5, <1>6 DEF Next

(* For any call the state keeps its type: multipliers stay amounts,        *)
(* whatever the subgradients (lagrangian.py:178-183), and a deferral names *)
(* one of the resources or none.                                           *)
THEOREM TypeCorrect == Spec => []TypeOK
<1>1. Init => RestTypeOK
  BY DEF Init, RestTypeOK
<1>2. AgreeInv /\ RestTypeOK => TypeOK
  <2> SUFFICES ASSUME AgreeInv, RestTypeOK PROVE TypeOK
    OBVIOUS
  <2>1. IInv /\ DualTypeOK
    BY DEF AgreeInv, UsageInv
  <2>2. Pool \subseteq PoolEntry
    <3>1. ASSUME NEW o \in Opportunity
          PROVE  o \in Nat /\ Eligible(ItemOf(o)) \subseteq Nat
      <4>1. IsCall(call)
        BY <2>1 DEF IInv, PlanTypeOK
      <4> QED BY <4>1, OpportunitiesAreFinite, EligibleIsIndex, ItemIsTyped DEF Item
    <3> QED BY <3>1 DEF Pool, PoolEntry
  <2>3. todo \subseteq IF phase = "fallback" THEN PoolEntry ELSE Opportunity
    BY <2>1, <2>2 DEF IInv, Progress, PlanTypeOK, RestTypeOK, Phase
  <2> QED BY <2>1, <2>3 DEF TypeOK, IInv, PlanTypeOK, DualTypeOK, RestTypeOK
<1>3. AgreeInv /\ RestTypeOK /\ [Next]_vars => AgreeInv' /\ RestTypeOK'
  BY AgreeStep, RestStep DEF AgreeInv, UsageInv
<1> QED BY <1>1, <1>2, <1>3, InitAgrees, PTL DEF Spec

-----------------------------------------------------------------------------
\* The promise is about the same resources.
LEMMA SameResources ==
  /\ \A item : Promise!Eligible(item) = Eligible(item)
  /\ \A limits, rm, u, c : Promise!CanReserve(limits, rm, u, c) = CanReserve(limits, rm, u, c)
  /\ \A rm, u, c : Promise!Reserve(rm, u, c) = Reserve(rm, u, c)
BY DEF Promise!Eligible, Eligible, Promise!CanReserve, CanReserve, Promise!Reserve, Reserve,
   Promise!Contact, Contact

LEMMA PromiseStep == IInv /\ [Next]_vars => [Promise!Next]_<<call, room, outcome, chosen>>
<1> SUFFICES ASSUME IInv, [Next]_vars, ~UNCHANGED <<call, room, outcome, chosen>>
             PROVE  Promise!Next
  OBVIOUS
<1> USE DEF Promise!Opportunity, Promise!Undecided
<1>1. ASSUME NEW o \in Opportunity, NEW i \in Eligible(ItemOf(o)), outcome[o] = "UNDECIDED",
             Take(o, i), UNCHANGED call
      PROVE  Promise!Next
  <2>1. Promise!Select(o, i)
    BY <1>1, SameResources DEF Promise!Select, Take, Fits, UsageOf, ItemOf, Opportunity
  <2>2. i \in DOMAIN call.items[o].candidates
    BY <1>1, EligibleIsIndex DEF ItemOf
  <2> QED BY <1>1, <2>1, <2>2 DEF Promise!Next, Opportunity
<1>2. ASSUME NEW S \in SUBSET Opportunity, Promise!Decline(S)
      PROVE  Promise!Next
  BY <1>2 DEF Promise!Next, Opportunity
<1>3. CASE Start \/ Iterate \/ EndIterations \/ SpendBudget \/ Return
  BY <1>3 DEF Start, Iterate, EndIterations, SpendBudget, Return, vars, planVars
<1>4. ASSUME NEW o \in Opportunity, TakePick(o) \/ TakeAlternative(o)
      PROVE  Promise!Next
  <2>1. o \in todo /\ phase = "recovery" /\ UNCHANGED call
    BY <1>4 DEF TakePick, TakeAlternative, IsNext, IsFirst
  <2>2. outcome[o] = "UNDECIDED" /\ picks[o] # 0
    BY <2>1 DEF IInv, PickedIsDecided
  <2>3. PICK i \in Eligible(ItemOf(o)) : Take(o, i)
    BY <1>4, <2>2, PreferredIsWithin, WorthIsWithin
       DEF TakePick, TakeAlternative, Alternative, Alternatives, IInv, PicksAreEligible
  <2> QED BY <1>1, <2>1, <2>2, <2>3
<1>5. ASSUME NEW o \in Opportunity, Defer(o)
      PROVE  Promise!Next
  <2>1. o \in todo /\ phase = "recovery" /\ UNCHANGED <<call, room, chosen>>
    BY <1>5 DEF Defer, IsNext, IsFirst
  <2>2. outcome[o] = "UNDECIDED" /\ Eligible(ItemOf(o)) # {}
    BY <2>1 DEF IInv, PickedIsDecided, PicksAreEligible
  <2>3. outcome' = [p \in Opportunity |->
                      IF p \notin {o} THEN outcome[p]
                      ELSE IF Eligible(ItemOf(p)) = {} THEN "NO_ACTION" ELSE "DEFERRED"]
    BY <1>5, <2>2 DEF Defer, IInv, PlanTypeOK
  <2>4. Promise!Decline({o})
    BY <2>1, <2>2, <2>3, SameResources DEF Promise!Decline, ItemOf, Opportunity
  <2> QED BY <1>2, <2>4
<1>6. CASE EndRecovery \/ EndFallback
  <2> DEFINE S == {o \in Opportunity : outcome[o] = "UNDECIDED"}
  <2>1. DeclineRest /\ UNCHANGED <<call, room, chosen>>
    BY <1>6 DEF EndRecovery, EndFallback
  <2>2. Promise!Decline(S)
    <3>1. outcome' = [p \in Opportunity |->
                        IF p \notin S THEN outcome[p]
                        ELSE IF Eligible(ItemOf(p)) = {} THEN "NO_ACTION" ELSE "DEFERRED"]
      BY <2>1 DEF DeclineRest
    <3> QED BY <2>1, <3>1, SameResources DEF Promise!Decline, ItemOf, Opportunity
  <2> QED BY <1>2, <2>2
<1>7. ASSUME NEW x \in Pool, FallbackTake(x)
      PROVE  Promise!Next
  <2>1. x[1] \in Opportunity /\ x[2] \in Eligible(ItemOf(x[1])) /\ UNCHANGED call
    BY <1>7 DEF Pool, FallbackTake, Dismiss
  <2> QED BY <1>1, <1>7, <2>1 DEF FallbackTake
<1>8. ASSUME NEW x \in Pool, FallbackPass(x)
      PROVE  FALSE
  BY <1>8 DEF FallbackPass, Dismiss, planVars
<1> QED BY <1>3, <1>4, <1>5, <1>6, <1>7, <1>8 DEF Next, vars, planVars

(* For any portfolio, limits and configuration, every step of either       *)
(* allocator is a step of the promise: selections that fit, of candidates  *)
(* worth more than epsilon, each opportunity decided once, and a deferral  *)
(* never for one that has nothing to offer (allocate_portfolio).           *)
THEOREM CallKeepsPromise == Spec => KeepsPromise
<1>1. Init => Promise!Init
  BY DEF Init, Promise!Init, Promise!Opportunity, Opportunity
<1> QED BY <1>1, Inductive, PromiseStep, PTL DEF Spec, KeepsPromise, Promise!Spec
=============================================================================
