----------------------------- MODULE Allocation -----------------------------
(***************************************************************************)
(* One call of allocate_portfolio (allocation/allocate.py): subgradient    *)
(* iterations over the Lagrangian relaxation, then primal recovery, which  *)
(* reserves (lagrangian.py); or the greedy fallback (greedy.py), when it   *)
(* is asked for or the iterations have used up their budget.               *)
(*                                                                         *)
(* Shadow prices, the duality gap, reasons and the hash of the result are  *)
(* reports that nothing reads back, and are left out.                      *)
(*                                                                         *)
(* Nothing else uses the ResourceState during the call.  The room there is *)
(* at first has the contacts of earlier cycles (begin_cycle resets the     *)
(* rest).  No caller passes multipliers to start from.                     *)
(***************************************************************************)
EXTENDS AllocationReference

CONSTANT Calls   \* the arguments a call may have

IsCall(c) ==
  /\ c.items \in Seq(Item)
  /\ c.limits \in Limits
  /\ c.room \in Room
  /\ \A r \in Shared : c.room.used[r] <= c.limits[r]
  /\ c.config.kMax \in Int /\ c.config.kMax <= Len(Step)
  /\ c.config.budget \in Nat
  /\ c.config.force \in BOOLEAN

ASSUME CallAssumption == \A c \in Calls : IsCall(c)

VARIABLES
  call,     \* items, limits, room and config
  phase,
  k,        \* number of the next iteration
  lambda,   \* multipliers
  picks,    \* of each opportunity, the pick of the last iteration or 0
  todo,     \* what recovery or the fallback has still to look at
  room,     \* the resource state
  outcome,  \* of each opportunity
  chosen,   \* the candidate selected, or 0
  binding,  \* the resource that a deferral names
  mode      \* allocator_mode of the result

planVars == <<room, outcome, chosen, binding>>
dualVars == <<k, lambda, picks>>
vars     == <<call, phase, mode, dualVars, todo, planVars>>

Opportunity == DOMAIN call.items
Phase       == {"start", "dual", "recovery", "fallback", "done"}
Outcome     == {"UNDECIDED", "SELECTED", "DEFERRED", "NO_ACTION"}
PoolEntry   == Nat \X Nat

TypeOK ==
  /\ IsCall(call)
  /\ phase \in Phase
  /\ k \in Nat
  /\ lambda \in [Resource -> Nat]
  /\ picks \in [Opportunity -> Nat]
  /\ todo \subseteq IF phase = "fallback" THEN PoolEntry ELSE Opportunity
  /\ room \in Room
  /\ outcome \in [Opportunity -> Outcome]
  /\ chosen \in [Opportunity -> Nat]
  /\ binding \in [Opportunity -> Resource \cup {"none"}]
  /\ mode \in {"LAGRANGIAN", "FALLBACK_GREEDY"}

Init ==
  /\ call \in Calls
  /\ phase = "start"
  /\ k = 1
  /\ lambda = Zero
  /\ picks = [o \in Opportunity |-> 0]
  /\ todo = {}
  /\ room = call.room
  /\ outcome = [o \in Opportunity |-> "UNDECIDED"]
  /\ chosen = [o \in Opportunity |-> 0]
  /\ binding = [o \in Opportunity |-> "none"]
  /\ mode = "LAGRANGIAN"

ItemOf(o)  == call.items[o]
UsageOf(o, i) == ItemOf(o).candidates[i].usage
EnrvOf(o, i)  == ItemOf(o).candidates[i].enrv
Fits(o, i) == CanReserve(call.limits, room, UsageOf(o, i), ItemOf(o).customer)

\* The candidates that may be selected, over all opportunities.
Pool == UNION {{<<o, i>> : i \in Eligible(ItemOf(o))} : o \in Opportunity}

-----------------------------------------------------------------------------
(* The iterations.                                                         *)

StartFallback ==
  /\ phase' = "fallback"
  /\ mode' = "FALLBACK_GREEDY"
  /\ todo' = Pool

Start ==
  /\ phase = "start"
  /\ IF call.config.force \/ call.config.kMax <= 0
     THEN StartFallback
     ELSE phase' = "dual" /\ UNCHANGED <<mode, todo>>
  /\ UNCHANGED <<call, dualVars, planVars>>

BestPicks ==
  [o \in Opportunity |-> Preferred(call.items, o,
                                   Worth(ItemOf(o), Eligible(ItemOf(o)), lambda), lambda)]

\* Those for whom a pick was made, and not yet recovered.
Picked == {o \in Opportunity : picks[o] # 0}

UsageOfPicks(p, r) ==
  TotalOf([o \in Opportunity |-> IF p[o] = 0 THEN 0 ELSE UsageOf(o, p[o])[r]], Opportunity)

ContactsOfPicks(p, c) ==
  TotalOf([o \in Opportunity |-> IF p[o] = 0 \/ ItemOf(o).customer # c THEN 0
                                 ELSE UsageOf(o, p[o])[Contact]], Opportunity)

\* Mutant of ContactExcess: the picks of all customers share one allowance.
ContactExcessOfAll(p) ==
  Atleast0(TotalOf([c \in Customer |-> ContactsOfPicks(p, c)], Customer) - call.limits[Contact])

ContactExcess(p) ==
  TotalOf([c \in Customer |-> Atleast0(ContactsOfPicks(p, c) - call.limits[Contact])], Customer)

Subgradient(p) ==
  [r \in Resource |-> IF r = Contact THEN ContactExcess(p)
                      ELSE UsageOfPicks(p, r) - call.limits[r]]

\* All are met, with so little left over that more iterations are idle.
Converged(g) ==
  /\ \A r \in Resource : g[r] <= 0
  /\ ToleranceInverse * TotalOf([r \in Resource |-> Magnitude(g[r])], Resource)
       <= Max({1, TotalOf(call.limits, Resource)})

Iterate ==
  /\ phase = "dual" /\ k <= call.config.kMax /\ k <= call.config.budget
  /\ picks' = BestPicks
  /\ LET g == Subgradient(picks')
     IN  IF Converged(g)
         THEN /\ phase' = "recovery"
              /\ todo' = {o \in Opportunity : picks'[o] # 0}
              /\ UNCHANGED <<k, lambda>>
         ELSE /\ lambda' = [r \in Resource |-> Atleast0(lambda[r] + Step[k] * g[r])]
              /\ k' = k + 1
              /\ UNCHANGED <<phase, todo>>
  /\ UNCHANGED <<call, mode, planVars>>

\* The picks of the last iteration stand, under multipliers updated once more.
EndIterations ==
  /\ phase = "dual" /\ k > call.config.kMax
  /\ phase' = "recovery"
  /\ todo' = Picked
  /\ UNCHANGED <<call, mode, dualVars, planVars>>

SpendBudget ==
  /\ phase = "dual" /\ k <= call.config.kMax /\ k > call.config.budget
  /\ StartFallback
  /\ UNCHANGED <<call, dualVars, planVars>>

-----------------------------------------------------------------------------
(* Decisions.                                                              *)

Take(o, i) ==
  /\ Fits(o, i)
  /\ room' = Reserve(room, UsageOf(o, i), ItemOf(o).customer)
  /\ outcome' = [outcome EXCEPT ![o] = "SELECTED"]
  /\ chosen' = [chosen EXCEPT ![o] = i]

\* Mutant of DeclineRest: what a refusal has deferred is left alone.
DeclineRestAsUnpicked ==
  outcome' = [o \in Opportunity |-> IF outcome[o] = "SELECTED" THEN outcome[o]
                                    ELSE IF picks[o] = 0 THEN "NO_ACTION" ELSE "DEFERRED"]

\* What is left has no pick: deferred where a candidate was worth something.
DeclineRest ==
  outcome' = [o \in Opportunity |-> IF outcome[o] # "UNDECIDED" THEN outcome[o]
                                    ELSE IF Eligible(ItemOf(o)) = {} THEN "NO_ACTION" ELSE "DEFERRED"]

NameBinding ==
  binding' = [o \in Opportunity |-> IF outcome[o] # "UNDECIDED" THEN binding[o]
                                    ELSE MostBinding(call.limits, room, ItemOf(o))]

-----------------------------------------------------------------------------
(* Primal recovery.                                                        *)

Score(o) == ReducedValue(ItemOf(o).candidates[picks[o]], lambda)

IsNext(o) ==
  LET Rank(p) == Preference(call.items, p, picks[p], Score(p))
  IN  phase = "recovery" /\ IsFirst(o, todo, Rank)

\* Mutant of Alternatives: an alternative is worth as much as the pick.
AlternativesAsGood(o) ==
  {i \in Eligible(ItemOf(o)) : /\ Fits(o, i)
                               /\ ReducedValue(ItemOf(o).candidates[i], lambda) >= Score(o)}

Alternatives(o) == Worth(ItemOf(o), {i \in Eligible(ItemOf(o)) : Fits(o, i)}, lambda)

Alternative(o) == Preferred(call.items, o, Alternatives(o), lambda)

TakePick(o) ==
  /\ IsNext(o)
  /\ Take(o, picks[o])
  /\ todo' = todo \ {o}
  /\ UNCHANGED <<call, phase, mode, dualVars, binding>>

\* Mutant of TakeAlternative: the resources of the pick are reserved.
TakeAlternativePaysPick(o) ==
  /\ IsNext(o) /\ ~Fits(o, picks[o])
  /\ Alternative(o) # 0
  /\ room' = Reserve(room, UsageOf(o, picks[o]), ItemOf(o).customer)
  /\ outcome' = [outcome EXCEPT ![o] = "SELECTED"]
  /\ chosen' = [chosen EXCEPT ![o] = Alternative(o)]
  /\ todo' = todo \ {o}
  /\ UNCHANGED <<call, phase, mode, dualVars, binding>>

TakeAlternative(o) ==
  /\ IsNext(o) /\ ~Fits(o, picks[o])
  /\ Alternative(o) # 0 /\ Take(o, Alternative(o))
  /\ todo' = todo \ {o}
  /\ UNCHANGED <<call, phase, mode, dualVars, binding>>

\* The pick was eligible: it is deferred, never left below epsilon.
Defer(o) ==
  /\ IsNext(o) /\ ~Fits(o, picks[o]) /\ Alternatives(o) = {}
  /\ outcome' = [outcome EXCEPT ![o] = "DEFERRED"]
  /\ binding' = [binding EXCEPT ![o] =
                   Binding(call.limits, room, UsageOf(o, picks[o]), ItemOf(o).customer)]
  /\ todo' = todo \ {o}
  /\ UNCHANGED <<call, phase, mode, dualVars, room, chosen>>

EndRecovery ==
  /\ phase = "recovery" /\ todo = {}
  /\ DeclineRest
  /\ NameBinding
  /\ phase' = "done"
  /\ UNCHANGED <<call, mode, dualVars, todo, room, chosen>>

-----------------------------------------------------------------------------
(* The greedy fallback: all candidates by ENRV for their normalized cost.  *)

\* The density of x is the higher one, or equal and x is preferred.
Denser(x, y) ==
  LET left  == EnrvOf(x[1], x[2]) * NormalizedCost(UsageOf(y[1], y[2]))
      right == EnrvOf(y[1], y[2]) * NormalizedCost(UsageOf(x[1], x[2]))
  IN  \/ left > right
      \/ /\ left = right
         /\ Precedes(Preference(call.items, x[1], x[2], EnrvOf(x[1], x[2])),
                     Preference(call.items, y[1], y[2], EnrvOf(y[1], y[2])))

IsDensest(x) == phase = "fallback" /\ x \in todo /\ \A y \in todo \ {x} : Denser(x, y)

Dismiss(x) ==
  /\ todo' = todo \ {x}
  /\ UNCHANGED <<call, phase, mode, dualVars>>

FallbackTake(x) ==
  /\ IsDensest(x) /\ outcome[x[1]] = "UNDECIDED"
  /\ Take(x[1], x[2])
  /\ Dismiss(x)
  /\ UNCHANGED binding

\* The opportunity has its action, or the candidate does not fit.
FallbackPass(x) ==
  /\ IsDensest(x)
  /\ outcome[x[1]] # "UNDECIDED" \/ ~Fits(x[1], x[2])
  /\ Dismiss(x)
  /\ UNCHANGED planVars

EndFallback ==
  /\ phase = "fallback" /\ todo = {}
  /\ DeclineRest
  /\ NameBinding
  /\ phase' = "done"
  /\ UNCHANGED <<call, mode, dualVars, todo, room, chosen>>

\* The result is with the caller.
Return == phase = "done" /\ UNCHANGED vars

-----------------------------------------------------------------------------
Next ==
  \/ Start \/ Iterate \/ EndIterations \/ SpendBudget
  \/ \E o \in Opportunity : TakePick(o) \/ TakeAlternative(o) \/ Defer(o)
  \/ EndRecovery
  \/ \E x \in Pool : FallbackTake(x) \/ FallbackPass(x)
  \/ EndFallback
  \/ Return

Spec == Init /\ [][Next]_vars

-----------------------------------------------------------------------------
(* No capacity is given out beyond its limit, and no customer contacted    *)
(* beyond the allowance, at any instant of the call: what earlier cycles   *)
(* have used counts (AL-2; reserve, resources.py:129-140).                 *)
NeverOverAllocated ==
  /\ \A r \in Shared : room.used[r] <= call.limits[r]
  /\ \A c \in Customer : \/ room.contacts[c] <= call.limits[Contact]
                         \/ room.contacts[c] = call.room.contacts[c]

\* What the selected candidates draw, of a capacity or of the contacts of c.
Drawn(r) == [o \in Opportunity |-> IF chosen[o] = 0 THEN 0 ELSE UsageOf(o, chosen[o])[r]]

DrawnFor(c) ==
  [o \in Opportunity |-> IF ItemOf(o).customer # c THEN 0 ELSE Drawn(Contact)[o]]

(* What was used is what was used before and what the selected candidates  *)
(* draw: an alternative that takes the place of a pick, or a second        *)
(* candidate of one opportunity, is paid for once.                         *)
UsageIsOfSelected ==
  /\ \A r \in Shared : room.used[r] = call.room.used[r] + TotalOf(Drawn(r), Opportunity)
  /\ \A c \in Customer : room.contacts[c] = call.room.contacts[c] + TotalOf(DrawnFor(c), Opportunity)

(* Nothing that was refused would fit in the end: an opportunity that      *)
(* recovery has deferred has no candidate left that is worth its resources *)
(* and finds them free, and one that the fallback has deferred has none    *)
(* that finds its resources free (lagrangian.py:250-292, greedy.py:38-62). *)
RefusalsStand ==
  phase = "done" =>
    \A o \in Opportunity : outcome[o] = "DEFERRED" =>
      IF mode = "FALLBACK_GREEDY" THEN \A i \in Eligible(ItemOf(o)) : ~Fits(o, i)
      ELSE picks[o] # 0 => \A i \in Worth(ItemOf(o), Eligible(ItemOf(o)), lambda) : ~Fits(o, i)

(* The fast allocator decides as the reference does (test_m13_12_          *)
(* performance.py, test_m13_14_performance.py).                            *)
AgreesWithReference ==
  phase = "done" /\ ~call.config.force /\ call.config.kMax > 0 =>
    LET dual == RefDual(call.items, call.limits, call.config)
    IN  dual.mode # "FALLBACK_GREEDY" =>
          LET primal == RefPrimal(call.items, call.limits, call.room, dual.picks, dual.lambda)
          IN  chosen = primal.chosen /\ room = primal.room

Promise == INSTANCE AllocationPromise

(* Whichever allocator answers, the promise of module AllocationPromise is *)
(* kept at each step.                                                      *)
KeepsPromise == Promise!Spec
=============================================================================
