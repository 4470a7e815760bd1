------------------------ MODULE AllocationReference ------------------------
(***************************************************************************)
(* The allocator before it was made fast, allocation/lagrangian_reference. *)
(* py, which the tests of M13.12 and M13.14 hold the fast one against: the *)
(* dual iterations and primal recovery as functions of their arguments.    *)
(***************************************************************************)
EXTENDS AllocationResources

CONSTANTS
  Step,             \* step(k) of the first iterations, falling with k
  ToleranceInverse  \* 1 / duality_tolerance

ASSUME ReferenceAssumption ==
  /\ Step \in Seq(Nat)
  /\ ToleranceInverse \in Nat \ {0}

Zero == [r \in Resource |-> 0]

Atleast0(x) == IF x < 0 THEN 0 ELSE x
Magnitude(x) == IF x < 0 THEN -x ELSE x

\* The argument of the iterations: capacities, not what is left of them.
RefBest(items, o, lambda) ==
  Preferred(items, o, Worth(items[o], Eligible(items[o]), lambda), lambda)

RefPicked(picks) == {o \in DOMAIN picks : picks[o] # 0}

RefUsage(items, picks, r) ==
  TotalOf([o \in RefPicked(picks) |-> items[o].candidates[picks[o]].usage[r]], RefPicked(picks))

\* The contacts above the allowance, summed over the customers.
RefContactViolation(items, picks, allowance) ==
  LET of(c) == {o \in RefPicked(picks) : items[o].customer = c}
      count(c) == TotalOf([o \in of(c) |-> items[o].candidates[picks[o]].usage[Contact]], of(c))
  IN  TotalOf([c \in Customer |-> Atleast0(count(c) - allowance)], Customer)

RefSubgradient(items, limits, picks) ==
  [r \in Resource |-> IF r = Contact THEN RefContactViolation(items, picks, limits[r])
                      ELSE RefUsage(items, picks, r) - limits[r]]

\* No capacity is broken and the gap is within the tolerance.
RefConverged(limits, g) ==
  /\ \A r \in Resource : g[r] <= 0
  /\ ToleranceInverse * TotalOf([r \in Resource |-> Magnitude(g[r])], Resource)
       <= Max({1, TotalOf(limits, Resource)})

RefIteration(items, limits, last, k) ==
  LET picks == [o \in DOMAIN items |-> RefBest(items, o, last.lambda)]
      g     == RefSubgradient(items, limits, picks)
  IN  IF RefConverged(limits, g)
      THEN [last EXCEPT !.picks = picks, !.mode = "CONVERGED"]
      ELSE [last EXCEPT !.picks = picks,
                        !.lambda = [r \in Resource |-> Atleast0(@[r] + Step[k] * g[r])]]

\* The state after k iterations, unless it converged or the budget was spent.
RefDual(items, limits, config) ==
  LET run[k \in 0 .. config.kMax] ==
        IF k = 0
        THEN [lambda |-> Zero, picks |-> [o \in DOMAIN items |-> 0], mode |-> "LAGRANGIAN"]
        ELSE LET last == run[k - 1]
             IN  IF last.mode # "LAGRANGIAN" THEN last
                 ELSE IF k > config.budget THEN [last EXCEPT !.mode = "FALLBACK_GREEDY"]
                 ELSE RefIteration(items, limits, last, k)
  IN  run[config.kMax]

RefAlternative(items, limits, room, o, lambda) ==
  LET fits == {i \in Eligible(items[o]) :
                 CanReserve(limits, room, items[o].candidates[i].usage, items[o].customer)}
  IN  Preferred(items, o, Worth(items[o], fits, lambda), lambda)

\* The opportunity whose pick is preferred to those of all others.
RefNext(items, picks, lambda, todo) ==
  LET Rank(p) == Preference(items, p, picks[p],
                            ReducedValue(items[p].candidates[picks[p]], lambda))
  IN  CHOOSE o \in todo : IsFirst(o, todo, Rank)

\* One pick, in the order of preference: it is reserved, else the best
\* alternative that fits, else the opportunity is deferred.
RefRecover(items, limits, picks, lambda, s) ==
  LET o   == RefNext(items, picks, lambda, s.todo)
      fit == CanReserve(limits, s.room, items[o].candidates[picks[o]].usage, items[o].customer)
      i   == IF fit THEN picks[o] ELSE RefAlternative(items, limits, s.room, o, lambda)
  IN  [todo   |-> s.todo \ {o},
       chosen |-> [s.chosen EXCEPT ![o] = i],
       room   |-> IF i = 0 THEN s.room
                  ELSE Reserve(s.room, items[o].candidates[i].usage, items[o].customer)]

RefPrimal(items, limits, room, picks, lambda) ==
  LET picked == RefPicked(picks)
      run[n \in 0 .. Cardinality(picked)] ==
        IF n = 0
        THEN [todo |-> picked, chosen |-> [o \in DOMAIN items |-> 0], room |-> room]
        ELSE RefRecover(items, limits, picks, lambda, run[n - 1])
  IN  run[Cardinality(picked)]
=============================================================================
