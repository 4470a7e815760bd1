---------------------------- MODULE CycleProofs ----------------------------
(***************************************************************************)
(* Theorems about PolicyRunner, the cycles of every policy, for every      *)
(* value of its constants.                                                 *)
(***************************************************************************)
EXTENDS PolicyRunner, Sums, SequenceTheorems

LEMMA ConstantTypes ==
  /\ Policy \subseteq {"B0", "B1", "B2", "B3", "REVIVE", "SESSION"}
  /\ Action \subseteq Known
  /\ IsFiniteSet(Opportunity)
  /\ CustomerOf \in [Opportunity -> Customer]
  /\ Value \in Nat /\ Cost \in [Action -> Nat] /\ Incentive \in [Action -> Nat]
  /\ MaxCycles \in Nat /\ CycleLength \in Nat /\ ContactAllowance \in Nat
  /\ RetrySlots \in Nat /\ MessageCapacity \in Nat
  /\ Delays \subseteq Nat /\ AuthTTL \in Nat
BY WorldAssumption, CycleAssumption DEF WorldAssumption, CycleAssumption

USE ConstantTypes

-----------------------------------------------------------------------------
(* Type correctness.                                                       *)

Phase == {"waiting", "settling", "deciding", "acting", "closing", "done"}

\* What the engine keeps of a decision.
ResultsTypeOK ==
  /\ result = [k \in Key |-> result[k]]
  /\ \A k \in Key : /\ StageOf(k) \in Stage
                    /\ result[k].action \in Action \cup {"none"}
                    /\ result[k].time \in Nat

StoreTypeOK ==
  /\ ResultsTypeOK
  /\ book = [k \in Key |-> book[k]]
  /\ counts \in [Customer -> Nat]
  /\ mark \in [Opportunity -> {"open", "awaiting", "recovered"}]
  /\ touches \in [Opportunity -> Nat]

RetryTypeOK ==
  /\ now \in Nat
  /\ due \in SUBSET Key /\ pending \in SUBSET Key /\ held \in SUBSET Key
  /\ at \in [Key -> Nat]

TypeOK ==
  /\ policy \in Policy
  /\ row \in [Opportunity -> Row]
  /\ cycle \in 0 .. MaxCycles
  /\ phase \in Phase
  /\ plan \in Plan
  /\ contacts \in [Customer -> 0 .. ContactAllowance]
  /\ StoreTypeOK
  /\ RetryTypeOK
  /\ ledger = {}

\* A decision has a result only when its cycle came to pursue it, and what waits
\* to be settled are retries.
Timely ==
  /\ phase \in {"settling", "deciding", "acting"} => cycle # 0
  /\ \A o \in Opportunity : plan[o] # "none" => phase = "acting"
  /\ \A k \in Key : StageOf(k) # "none" =>
       /\ k[2] <= cycle
       /\ k[2] = cycle => phase \notin {"settling", "deciding"} /\ plan[k[1]] = "none"
  /\ \A k \in Key : StageOf(k) = "scheduled" => result[k].action = "later"

Waiting ==
  /\ PendingIsKept
  /\ ~Settles => pending \cup due = {}
  /\ pending \cap due = {}
  /\ due # {} => phase \in {"settling", "closing"}
  /\ phase \in {"closing", "done"} => pending = {}

CycleInv == TypeOK /\ Timely /\ Waiting

-----------------------------------------------------------------------------
(* What a call leaves.                                                     *)

LEMMA AnswersAreOfThree ==
  ASSUME NEW r, NEW a, NEW t, NEW n, NEW v, NEW d
  PROVE  Resolve(r, a, t, n, v, d).adapter \in {"SUCCESS", "FAILED_TERMINAL", "TIMEOUT_UNKNOWN"}
BY DEF Resolve, Outcome, Recovery

LEMMA KeysAreDecisions ==
  /\ IsFiniteSet(Key)
  /\ \A k \in Key : k[1] \in Opportunity /\ k[2] \in 1 .. MaxCycles /\ k = <<k[1], k[2]>>
  /\ \A o \in Opportunity : cycle \in 1 .. MaxCycles => Current(o) \in Key
<1>1. IsFiniteSet(1 .. MaxCycles)
  BY FS_Interval
<1> QED BY <1>1, FS_Product DEF Key, Current

LEMMA RecordLeaves ==
  ASSUME StoreTypeOK, NEW k \in Key, NEW r, Record(k, r),
         r.stage \in Stage, r.action \in Action \cup {"none"}, r.time \in Nat
  PROVE  /\ ResultsTypeOK'
         /\ book' = [j \in Key |-> book'[j]]
         /\ result'[k] = r
         /\ book'[k] = Measure(r, FALSE, Value, LeftAlone(row[k[1]], r.time, Value))
         /\ \A j \in Key \ {k} : result'[j] = result[j] /\ book'[j] = book[j]
<1>1. /\ result' = [result EXCEPT ![k] = r]
      /\ book' = [book EXCEPT ![k] = Measure(r, FALSE, Value, LeftAlone(row[k[1]], r.time, Value))]
  BY DEF Record
<1>2. result' = [j \in Key |-> result'[j]] /\ book' = [j \in Key |-> book'[j]]
  BY <1>1 DEF StoreTypeOK, ResultsTypeOK
<1>3. result'[k] = r /\ \A j \in Key \ {k} : result'[j] = result[j] /\ book'[j] = book[j]
  BY <1>1 DEF StoreTypeOK, ResultsTypeOK
<1>4. book'[k] = Measure(r, FALSE, Value, LeftAlone(row[k[1]], r.time, Value))
  BY <1>1 DEF StoreTypeOK
<1> QED BY <1>2, <1>3, <1>4 DEF StoreTypeOK, ResultsTypeOK, StageOf

LEMMA MeasureIs ==
  ASSUME NEW r, NEW v, NEW noAction
  PROVE  LET m     == Measure(r, FALSE, v, noAction)
             split == SplitRecovery(r, FALSE)
         IN  /\ m.split = split
             /\ m.cost = r.cost
             /\ m.net = split.attributed - r.cost
             /\ m.remaining = AtLeastZero(v - split.gross)
BY DEF Measure

\* A call that is not performed is measured as nothing.
LEMMA UnperformedLeaves ==
  ASSUME StoreTypeOK, NEW k \in Key, NEW s \in {"scheduled", "cancelled"}, NEW a \in Action,
         NEW t \in Nat, Record(k, Unperformed(s, a, t))
  PROVE  /\ ResultsTypeOK'
         /\ book' = [j \in Key |-> book'[j]]
         /\ result'[k].stage = s /\ result'[k].action = a /\ result'[k].time = t
         /\ book'[k].split = EmptySplit /\ book'[k].cost = 0 /\ book'[k].net = 0
         /\ \A j \in Key \ {k} : result'[j] = result[j] /\ book'[j] = book[j]
<1> DEFINE r == Unperformed(s, a, t)
<1>1. r.stage = s /\ r.action = a /\ r.time = t /\ r.cost = 0
  BY DEF Unperformed, NoResult
<1>2. Record(k, r)
  OBVIOUS
<1> HIDE DEF r
<1>3. r.stage \in Stage /\ SplitRecovery(r, FALSE) = EmptySplit
  BY <1>1 DEF Stage, SplitRecovery
<1>4. EmptySplit.attributed = 0
  BY DEF EmptySplit, Split
<1> DEFINE m == Measure(r, FALSE, Value, LeftAlone(row[k[1]], r.time, Value))
<1>5. m.split = EmptySplit /\ m.cost = r.cost /\ m.net = EmptySplit.attributed - r.cost
  BY <1>3, MeasureIs
<1> HIDE DEF m
<1>6. m.split = EmptySplit /\ m.cost = 0 /\ m.net = 0
  BY <1>1, <1>4, <1>5
<1>7. /\ ResultsTypeOK' /\ book' = [j \in Key |-> book'[j]] /\ result'[k] = r
      /\ book'[k] = Measure(r, FALSE, Value, LeftAlone(row[k[1]], r.time, Value))
      /\ \A j \in Key \ {k} : result'[j] = result[j] /\ book'[j] = book[j]
  BY <1>1, <1>2, <1>3, RecordLeaves
<1>8. book'[k] = m
  BY <1>7 DEF m
<1> QED BY <1>1, <1>6, <1>7, <1>8

LEMMA PerformLeaves ==
  ASSUME StoreTypeOK, NEW k \in Key, NEW a \in Action, NEW t \in Nat, Perform(k, a, t)
  PROVE  /\ StoreTypeOK'
         /\ result'[k].stage \in Performed /\ result'[k].action = a /\ result'[k].time = t
         /\ \A j \in Key \ {k} : result'[j] = result[j] /\ book'[j] = book[j]
         /\ touches' = IF a \in Touching THEN [touches EXCEPT ![k[1]] = @ + 1] ELSE touches
         /\ \A o \in Opportunity \ {k[1]} : mark'[o] = mark[o]
         /\ book'[k].split.gross > 0 => mark'[k[1]] = "recovered"
<1> DEFINE n == counts'[CustomerOf[k[1]]]
<1>1. PICK degraded \in BOOLEAN :
        LET outcome == Resolve(row[k[1]], a, t, n, Value, degraded)
        IN  Record(k, [stage |-> StageFor(outcome.adapter), action |-> a, time |-> t,
                       realized |-> outcome, cost |-> RealizedCost(a, outcome.adapter),
                       states |-> StatesAfter(a, outcome)])
  BY DEF Perform
<1> DEFINE outcome == Resolve(row[k[1]], a, t, n, Value, degraded)
           r == [stage |-> StageFor(outcome.adapter), action |-> a, time |-> t,
                 realized |-> outcome, cost |-> RealizedCost(a, outcome.adapter),
                 states |-> StatesAfter(a, outcome)]
<1>2. outcome.adapter \in {"SUCCESS", "FAILED_TERMINAL", "TIMEOUT_UNKNOWN"}
  BY AnswersAreOfThree
<1> HIDE DEF outcome
<1>3. r.stage \in Performed /\ r.action = a /\ r.time = t
  BY <1>2 DEF StageFor, Performed
<1>4. Record(k, r)
  BY <1>1 DEF outcome
<1> HIDE DEF r
<1>5. /\ ResultsTypeOK' /\ book' = [j \in Key |-> book'[j]] /\ result'[k] = r
      /\ \A j \in Key \ {k} : result'[j] = result[j] /\ book'[j] = book[j]
  BY <1>3, <1>4, RecordLeaves DEF Stage
<1>6. counts' \in [Customer -> Nat]
  <2>1. \/ counts' = counts
        \/ counts' = [counts EXCEPT ![CustomerOf[k[1]]] = @ + 1]
    BY DEF Perform, CountContact
  <2> QED BY <2>1 DEF StoreTypeOK
<1>7. /\ touches' = IF a \in Touching THEN [touches EXCEPT ![k[1]] = @ + 1] ELSE touches
      /\ mark' = [mark EXCEPT ![k[1]] = IF book'[k].split.gross > 0 THEN "recovered"
                                        ELSE IF a \in Touching THEN "awaiting" ELSE @]
  BY DEF Perform, MarkWorld
<1>8. k[1] \in Opportunity
  BY KeysAreDecisions
<1>9. /\ touches' \in [Opportunity -> Nat]
      /\ mark' \in [Opportunity -> {"open", "awaiting", "recovered"}]
      /\ \A o \in Opportunity \ {k[1]} : mark'[o] = mark[o]
      /\ book'[k].split.gross > 0 => mark'[k[1]] = "recovered"
  BY <1>7, <1>8 DEF StoreTypeOK
<1> QED BY <1>3, <1>5, <1>6, <1>7, <1>9 DEF StoreTypeOK

-----------------------------------------------------------------------------
(* The plans that the baselines make.                                      *)

NoPlan == [o \in Opportunity |-> "none"]

LEMMA NoPlanFits ==
  ASSUME contacts \in [Customer -> 0 .. ContactAllowance]
  PROVE  NoPlan \in Plan /\ Fits(NoPlan)
<1>1. "none" \notin Retrying /\ "none" \notin Contacting
  BY DEF Retrying, Contacting
<1>2. /\ Selected(NoPlan, Retrying) = {} /\ Selected(NoPlan, Contacting) = {}
      /\ \A c \in Customer : ContactsIn(NoPlan, c) = Cardinality({})
  <2>1. Selected(NoPlan, Retrying) = {} /\ Selected(NoPlan, Contacting) = {}
    BY <1>1 DEF Selected, NoPlan
  <2>2. \A c \in Customer : {o \in Selected(NoPlan, Contacting) : CustomerOf[o] = c} = {}
    BY <2>1
  <2> QED BY <2>1, <2>2 DEF ContactsIn
<1>3. FitsSlots(NoPlan)
  BY <1>2, FS_EmptySet DEF FitsSlots
<1>4. \A c \in Customer : ContactsAfter(NoPlan)[c] <= ContactAllowance
  BY <1>2, FS_EmptySet DEF ContactsAfter
<1> QED BY <1>3, <1>4 DEF Fits, NoPlan, Plan

\* The plans on the way to the one that PlanInOrder makes.
ArePlans(g, s, w) ==
  g = [n \in 0 .. Len(s) |->
         IF n = 0 THEN [o \in Opportunity |-> "none"] ELSE Reserve(g[n - 1], s[n], w[s[n]])]

LEMMA PlanIsLast ==
  ASSUME NEW s, NEW w
  PROVE  PlanInOrder(s, w) = (CHOOSE g : ArePlans(g, s, w))[Len(s)]
BY DEF PlanInOrder, ArePlans

\* PlanInOrder makes a plan that can be reserved as a whole.
LEMMA PlanInOrderFits ==
  ASSUME Fits(NoPlan), NEW s \in SetToSeqs(Opportunity),
         NEW w \in [Opportunity -> Action \cup {"none"}]
  PROVE  PlanInOrder(s, w) \in Plan /\ Fits(PlanInOrder(s, w))
<1>1. Cardinality(Opportunity) \in Nat
  BY FS_CardinalityType
<1>2. Len(s) \in Nat /\ s \in [1 .. Len(s) -> Opportunity]
  BY <1>1 DEF SetToSeqs
<1>3. NoPlan \in Plan
  BY DEF NoPlan, Plan
<1>4. \A f \in Plan, o \in Opportunity, a \in Action \cup {"none"} : Reserve(f, o, a) \in Plan
  BY DEF Reserve, Plan
<1>5. \A f, o, a : Fits(f) => Fits(Reserve(f, o, a))
  BY DEF Reserve
<1> DEFINE N == Len(s)
           Then(n, f) == Reserve(f, s[n], w[s[n]])
           step == [p \in (1 .. N) \X Plan |-> Then(p[1], p[2])]
           IsWay(g) == ArePlans(g, s, w)
           way == CHOOSE g : IsWay(g)
<1> HIDE DEF N
<1>6. \E g : IsWay(g)
  <2>1. \A n \in 1 .. N : s[n] \in Opportunity /\ w[s[n]] \in Action \cup {"none"}
    BY <1>2 DEF N
  <2>2. step \in [(1 .. N) \X Plan -> Plan]
    BY <1>4, <2>1
  <2> HIDE DEF step
  <2>3. PICK h \in [0 .. N -> Plan] : IsIteration(h, N, NoPlan, step)
    BY <1>2, <1>3, <2>2, IterationExists DEF N
  <2>4. \A n \in 1 .. N : h[n - 1] \in Plan
    <3>1. \A n \in 1 .. N : n - 1 \in 0 .. N
      BY <1>2 DEF N
    <3> QED BY <2>3, <3>1
  <2> USE DEF step
  <2>5. h[0] = NoPlan /\ \A n \in 1 .. N : h[n] = Then(n, h[n - 1])
    BY <2>3, <2>4 DEF IsIteration
  <2>6. \A n \in 0 .. N : h[n] = IF n = 0 THEN NoPlan ELSE Then(n, h[n - 1])
    BY <2>5, <1>2 DEF N
  <2>7. h = [n \in 0 .. N |-> IF n = 0 THEN NoPlan ELSE Then(n, h[n - 1])]
    BY <2>6
  <2> QED BY <2>7 DEF ArePlans, N, NoPlan
<1>7. IsWay(way)
  BY <1>6
<1> DEFINE Good == {n \in Nat : n <= N => way[n] \in Plan /\ Fits(way[n])}
<1> HIDE DEF way
<1>8. \A n \in 0 .. N : way[n] = IF n = 0 THEN NoPlan ELSE Then(n, way[n - 1])
  BY <1>7 DEF ArePlans, N, NoPlan
<1>9. 0 \in Good
  BY <1>3, <1>8, <1>2 DEF N
<1>10. ASSUME NEW n \in Nat, n \in Good
       PROVE  n + 1 \in Good
  <2> SUFFICES ASSUME n + 1 <= N
               PROVE  way[n + 1] \in Plan /\ Fits(way[n + 1])
    OBVIOUS
  <2>1. N \in Nat /\ n <= N /\ n + 1 \in 1 .. N /\ (n + 1) - 1 = n /\ n + 1 # 0
    BY <1>2 DEF N
  <2>2. s[n + 1] \in Opportunity /\ w[s[n + 1]] \in Action \cup {"none"}
    BY <1>2, <2>1 DEF N
  <2>3. way[n + 1] = Then(n + 1, way[n])
    BY <1>8, <2>1
  <2>4. way[n] \in Plan /\ Fits(way[n])
    BY <1>10, <2>1
  <2> QED BY <1>4, <1>5, <2>2, <2>3, <2>4
<1> HIDE DEF Good
<1>11. N \in Good
  BY <1>2, <1>9, <1>10, NumberInduction DEF N
<1>12. way[N] \in Plan /\ Fits(way[N])
  BY <1>2, <1>11 DEF Good, N
<1> QED BY <1>12, PlanIsLast DEF way, N

LEMMA DecisionsFit ==
  ASSUME policy \in Policy, Baseline, contacts \in [Customer -> 0 .. ContactAllowance],
         NEW S \in SUBSET Opportunity, NEW f \in Decisions(S)
  PROVE  f \in Plan /\ Fits(f)
<1>1. Fits(NoPlan)
  BY NoPlanFits
<1>2. /\ Ids \in SetToSeqs(Opportunity)
      /\ Scheduled \in [Opportunity -> Action]
  BY RunnerAssumption DEF RunnerAssumption
<1>3. \A U \in SUBSET Opportunity, w \in Plan : Wishes(U, w) \in Plan
  BY DEF Wishes, Plan
<1>4. \A U \in SUBSET Opportunity : Wishes(U, Scheduled) \in Plan
  BY <1>2 DEF Wishes, Plan
<1>5. CASE policy = "B0"
  <2>1. f = PlanInOrder(Ids, NoPlan)
    BY <1>5 DEF Decisions, Nothing, InOrderOfId, NoPlan
  <2>2. NoPlan \in [Opportunity -> Action \cup {"none"}]
    BY DEF NoPlan
  <2> QED BY <1>1, <1>2, <2>1, <2>2, PlanInOrderFits
<1>6. CASE policy \in {"B1", "B2"}
  <2>1. PICK U \in SUBSET Opportunity : f = PlanInOrder(Ids, Wishes(U, Scheduled))
    <3>1. CASE policy = "B1"
      BY <3>1 DEF Decisions, FixedRetry, InOrderOfId
    <3>2. CASE policy = "B2"
      BY <3>2 DEF Decisions, ContactAll, InOrderOfId
    <3> QED BY <1>6, <3>1, <3>2
  <2>2. Wishes(U, Scheduled) \in [Opportunity -> Action \cup {"none"}]
    BY <1>4 DEF Plan
  <2> QED BY <1>1, <1>2, <2>1, <2>2, PlanInOrderFits
<1>7. CASE policy = "B3"
  <2>1. PICK s \in SetToSeqs(Opportunity), w \in Plan : f = PlanInOrder(s, Wishes(S, w))
    BY <1>7 DEF Decisions, GreedyEnrv
  <2>2. Wishes(S, w) \in [Opportunity -> Action \cup {"none"}]
    BY <1>3 DEF Plan
  <2> QED BY <1>1, <2>1, <2>2, PlanInOrderFits
<1> QED BY <1>5, <1>6, <1>7 DEF Baseline

-----------------------------------------------------------------------------
(* Every step keeps CycleInv.                                              *)

LEMMA InitTypes == RunInit => CycleInv
<1> SUFFICES ASSUME RunInit
             PROVE  CycleInv
  OBVIOUS
<1> USE DEF RunInit, Init, WorldInit
<1>1. \A k \in Key : result[k].stage = "none" /\ result[k].action = "none" /\ result[k].time = 0
  BY DEF NoResult
<1>2. StoreTypeOK
  BY <1>1 DEF StoreTypeOK, ResultsTypeOK, StageOf, Stage
<1>3. TypeOK
  BY <1>2 DEF TypeOK, RetryTypeOK, Phase, Plan
<1>4. Timely /\ Waiting
  BY <1>1 DEF Timely, Waiting, PendingIsKept, StageOf
<1> QED BY <1>3, <1>4 DEF CycleInv

LEMMA CurrentIsKey ==
  ASSUME CycleInv, NEW o \in Opportunity, phase = "acting"
  PROVE  \E k \in Key : k = Current(o) /\ k[1] = o /\ k[2] = cycle
<1>1. cycle \in 1 .. MaxCycles
  BY DEF CycleInv, Timely, TypeOK
<1>2. Current(o) \in Key
  BY <1>1, KeysAreDecisions
<1>3. Current(o)[1] = o /\ Current(o)[2] = cycle
  BY DEF Current
<1> QED BY <1>2, <1>3

\* A step that leaves the store and the retries alone.
LEMMA StoreKept ==
  ASSUME CycleInv, UNCHANGED <<policy, row, storeVars, ledger>>
  PROVE  /\ StoreTypeOK'
         /\ \A k \in Key : StageOf(k)' = StageOf(k) /\ result'[k] = result[k]
         /\ policy' \in Policy /\ row' \in [Opportunity -> Row] /\ ledger' = {} /\ Settles' = Settles
BY DEF CycleInv, TypeOK, StoreTypeOK, ResultsTypeOK, StageOf, storeVars, Settles

\* What is adopted may be pursued.
LEMMA AdoptKeeps ==
  ASSUME CycleInv, NEW f \in Plan, Fits(f), Adopt(f), phase \in {"settling", "deciding"}, due = {},
         UNCHANGED <<policy, row, cycle, storeVars, now, retryVars, held, ledger>>
  PROVE  CycleInv'
<1> USE DEF CycleInv
<1>1. contacts' \in [Customer -> 0 .. ContactAllowance]
  <2>1. contacts' = [c \in Customer |-> contacts[c] + ContactsIn(f, c)]
    BY DEF Adopt, ContactsAfter
  <2>2. \A c \in Customer : ContactsIn(f, c) \in Nat
    <3>1. \A c \in Customer : {o \in Selected(f, Contacting) : CustomerOf[o] = c} \subseteq Opportunity
      BY DEF Selected
    <3>2. \A c \in Customer : IsFiniteSet({o \in Selected(f, Contacting) : CustomerOf[o] = c})
      BY <3>1, FS_Subset
    <3> QED BY <3>2, FS_CardinalityType DEF ContactsIn
  <2>3. \A c \in Customer : contacts'[c] \in Nat /\ contacts'[c] <= ContactAllowance
    BY <2>1, <2>2 DEF TypeOK, Fits, ContactsAfter
  <2> QED BY <2>1, <2>3
<1>2. TypeOK'
  <2>1. plan' = f /\ phase' = "acting"
    BY DEF Adopt
  <2>2. RetryTypeOK'
    BY DEF TypeOK, RetryTypeOK, retryVars
  <2> QED BY <1>1, <2>1, <2>2, StoreKept DEF TypeOK, Phase
<1>3. Timely'
  BY StoreKept DEF Adopt, Timely
<1>4. Waiting'
  BY StoreKept DEF Adopt, Waiting, PendingIsKept, retryVars
<1> QED BY <1>2, <1>3, <1>4

\* A decision that is pursued gets its result, if any.
Executed(o) ==
  LET k == Current(o)
  IN  /\ result'[k].stage \in Performed \cup {"scheduled", "cancelled"}
      /\ result'[k].action = plan[o]
      /\ result'[k].stage = "scheduled" => plan[o] = "later"
      /\ \A j \in Key \ {k} : result'[j] = result[j] /\ book'[j] = book[j]
      /\ touches' = IF plan[o] \in Touching THEN [touches EXCEPT ![o] = @ + 1] ELSE touches
      /\ \A p \in Opportunity \ {o} : mark'[p] = mark[p]
      /\ book'[k].split.gross > 0 => mark'[o] = "recovered"

LEMMA PursuedKeeps ==
  ASSUME CycleInv, NEW o \in Opportunity, phase = "acting", plan[o] # "none", Pursued(o),
         UNCHANGED <<policy, row, cycle, phase, contacts, ledger>>, StoreTypeOK', RetryTypeOK',
         UNCHANGED storeVars \/ Executed(o),
         IF Settles /\ result'[Current(o)].stage = "scheduled"
         THEN pending' = pending \cup {Current(o)} /\ Current(o) \in held' ELSE pending' = pending,
         due' = due, held \subseteq held'
  PROVE  CycleInv'
<1> USE DEF CycleInv
<1>1. PICK k \in Key : k = Current(o) /\ k[1] = o /\ k[2] = cycle
  BY CurrentIsKey
<1>2. StageOf(k) = "none"
  BY <1>1 DEF Timely
<1>0. /\ \A j \in Key \ {k} : result'[j] = result[j]
      /\ result'[k].stage = "scheduled" => result'[k].action = "later"
  BY <1>1, <1>2 DEF Executed, StageOf, storeVars
<1>3. plan' \in Plan /\ plan'[o] = "none" /\ \A p \in Opportunity \ {o} : plan'[p] = plan[p]
  BY DEF Pursued, Plan, TypeOK
<1>4. TypeOK'
  BY <1>3 DEF TypeOK
<1>5. Timely'
  <2>1. \A p \in Opportunity : plan'[p] # "none" => phase' = "acting"
    OBVIOUS
  <2>2. ASSUME NEW j \in Key, StageOf(j)' # "none"
        PROVE  /\ j[2] <= cycle'
               /\ j[2] = cycle' => phase' \notin {"settling", "deciding"} /\ plan'[j[1]] = "none"
    <3>1. CASE j = k
      BY <1>1, <1>3, <3>1 DEF TypeOK
    <3>2. CASE j # k
      <4>1. StageOf(j) # "none"
        BY <1>0, <2>2, <3>2 DEF StageOf
      <4>2. j[1] \in Opportunity
        BY KeysAreDecisions
      <4> QED BY <1>3, <4>1, <4>2 DEF Timely
    <3> QED BY <3>1, <3>2
  <2>3. \A j \in Key : StageOf(j)' = "scheduled" => result'[j].action = "later"
    <3>1. \A j \in Key \ {k} : StageOf(j)' = "scheduled" => result'[j].action = "later"
      BY <1>0 DEF Timely, StageOf
    <3> QED BY <1>0, <3>1 DEF StageOf
  <2>4. phase' \in {"settling", "deciding", "acting"} => cycle' # 0
    BY DEF Timely
  <2> QED BY <2>1, <2>2, <2>3, <2>4 DEF Timely
<1>6. Waiting'
  <2>1. k \notin pending /\ k \notin due
    BY <1>2 DEF Waiting, PendingIsKept
  <2>2. \A j \in Key \ {k} : StageOf(j)' = StageOf(j)
    BY <1>0 DEF StageOf
  <2>3. Settles' = Settles
    BY DEF Settles
  <2>4. StageOf(k)' = "scheduled" <=> result'[k].stage = "scheduled"
    BY DEF StageOf
  <2>5. pending' = IF Settles /\ StageOf(k)' = "scheduled" THEN pending \cup {k} ELSE pending
    BY <1>1, <2>4
  <2>6. PendingIsKept'
    <3>1. CASE Settles
      BY <1>1, <1>2, <2>1, <2>2, <2>3, <2>4, <2>5, <3>1 DEF Waiting, PendingIsKept
    <3>2. CASE ~Settles
      BY <2>3, <3>2 DEF Waiting, PendingIsKept
    <3> QED BY <3>1, <3>2
  <2> QED BY <2>1, <2>3, <2>5, <2>6 DEF Waiting
<1> QED BY <1>4, <1>5, <1>6

\* What is due.
LEMMA DueWaits ==
  ASSUME CycleInv, NEW k \in due
  PROVE  /\ Settles /\ k \in Key /\ k \notin pending /\ k \in held
         /\ StageOf(k) = "scheduled" /\ result[k].action = "later"
         /\ "later" \in Action
<1>1. k \in Key /\ Settles /\ k \notin pending /\ k \in held
  BY DEF CycleInv, TypeOK, RetryTypeOK, Waiting, PendingIsKept
<1>2. StageOf(k) = "scheduled"
  BY <1>1 DEF CycleInv, Waiting, PendingIsKept
<1>3. result[k].action = "later"
  BY <1>1, <1>2 DEF CycleInv, Timely
<1>4. "later" \in Action
  BY <1>1, <1>3 DEF CycleInv, TypeOK, StoreTypeOK, ResultsTypeOK
<1> QED BY <1>1, <1>2, <1>3, <1>4

\* What a settled retry leaves.
LEMMA SettleLeaves ==
  ASSUME CycleInv, NEW k \in due, SettleRetry(k)
  PROVE  /\ StoreTypeOK'
         /\ result'[k].stage \in Performed \cup {"cancelled"} /\ result'[k].action = "later"
         /\ \A j \in Key \ {k} : result'[j] = result[j] /\ book'[j] = book[j]
         /\ touches' = touches
         /\ \A o \in Opportunity \ {k[1]} : mark'[o] = mark[o]
         /\ book'[k].split.gross > 0 => mark'[k[1]] = "recovered"
         /\ due' = due \ {k} /\ held' \in SUBSET held /\ held \ {k} \subseteq held'
<1>1. k \in Key /\ "later" \in Action /\ now \in Nat /\ StoreTypeOK
  BY DueWaits DEF CycleInv, TypeOK, RetryTypeOK
<1>2. CASE Perform(k, "later", now) /\ held' = held \ {k} /\ due' = due \ {k}
  BY <1>1, <1>2, PerformLeaves DEF Touching
<1>3. CASE /\ Record(k, Unperformed("cancelled", "later", now)) /\ due' = due \ {k}
           /\ UNCHANGED <<held, counts, mark, touches>>
  <2>1. /\ ResultsTypeOK' /\ book' = [j \in Key |-> book'[j]]
        /\ result'[k].stage = "cancelled" /\ result'[k].action = "later"
        /\ book'[k].split = EmptySplit
        /\ \A j \in Key \ {k} : result'[j] = result[j] /\ book'[j] = book[j]
    BY <1>1, <1>3, UnperformedLeaves
  <2>2. ~(EmptySplit.gross > 0)
    BY DEF EmptySplit, Split
  <2>3. StoreTypeOK'
    BY <1>1, <1>3, <2>1 DEF StoreTypeOK
  <2> QED BY <1>3, <2>1, <2>2, <2>3
<1> QED BY <1>2, <1>3 DEF SettleRetry

LEMMA SettleKeeps ==
  ASSUME CycleInv, Settle, UNCHANGED ledger
  PROVE  CycleInv'
<1> USE DEF CycleInv
<1>1. PICK k \in due : SettleRetry(k)
  BY DEF Settle
<1>2. /\ phase \in {"settling", "closing"} /\ phase' = phase /\ pending' = pending /\ at' = at
      /\ UNCHANGED <<policy, row, cycle, plan, contacts, now>>
  BY DEF Settle
<1>3. /\ StoreTypeOK'
      /\ result'[k].stage \in Performed \cup {"cancelled"} /\ result'[k].action = "later"
      /\ \A j \in Key \ {k} : result'[j] = result[j]
      /\ due' = due \ {k} /\ held' \in SUBSET held /\ held \ {k} \subseteq held'
  BY <1>1, SettleLeaves
<1>4. /\ Settles /\ k \in Key /\ k \notin pending /\ k \in held
      /\ StageOf(k) = "scheduled" /\ result[k].action = "later"
  BY DueWaits
<1>5. /\ \A j \in Key \ {k} : StageOf(j)' = StageOf(j)
      /\ StageOf(k)' \notin {"scheduled", "none"}
  BY <1>3 DEF StageOf, Performed
<1>6. TypeOK'
  BY <1>2, <1>3 DEF TypeOK, RetryTypeOK
<1>7. Timely'
  BY <1>2, <1>3, <1>4, <1>5 DEF Timely
<1>8. Settles' = Settles
  BY <1>2 DEF Settles
<1>9. Waiting'
  BY <1>2, <1>3, <1>4, <1>5, <1>8 DEF Waiting, PendingIsKept
<1> QED BY <1>6, <1>7, <1>9

\* What the pursuit of a decision by REVIVE leaves.
LEMMA PursueLeaves ==
  ASSUME CycleInv, NEW o \in Opportunity, Pursue(o)
  PROVE  /\ Current(o) \in Key /\ plan[o] \in Action
         /\ StoreTypeOK' /\ RetryTypeOK'
         /\ UNCHANGED storeVars \/ Executed(o)
         /\ IF Settles /\ result'[Current(o)].stage = "scheduled"
            THEN pending' = pending \cup {Current(o)} /\ Current(o) \in held' ELSE pending' = pending
         /\ due' = due /\ held \subseteq held'
<1> USE DEF CycleInv
<1>1. /\ phase = "acting" /\ plan[o] # "none" /\ now' = now
      /\ Blocked(o) \/ Postpone(o) \/ Act(o)
  BY DEF Pursue
<1>2. PICK k \in Key : k = Current(o) /\ k[1] = o /\ k[2] = cycle
  BY <1>1, CurrentIsKey
<1>3. plan[o] \in Action /\ now \in Nat /\ StoreTypeOK /\ RetryTypeOK
  BY <1>1 DEF TypeOK, Plan, RetryTypeOK
<1>4. StageOf(k) = "none"
  BY <1>1, <1>2 DEF Timely
<1>5. CASE Blocked(o)
  <2>1. UNCHANGED storeVars /\ UNCHANGED retryVars /\ held' = held \cup {k}
    BY <1>2, <1>5 DEF Blocked
  <2>2. StoreTypeOK'
    BY <1>3, <2>1 DEF storeVars, StoreTypeOK, ResultsTypeOK, StageOf
  <2>3. RetryTypeOK'
    BY <1>1, <1>3, <2>1 DEF RetryTypeOK, retryVars
  <2>4. result'[k].stage = "none"
    BY <1>4, <2>1 DEF storeVars, StageOf
  <2> QED BY <1>2, <1>3, <2>1, <2>2, <2>3, <2>4 DEF retryVars
<1>6. CASE Postpone(o)
  <2>1. /\ plan[o] = "later" /\ Record(k, Unperformed("scheduled", "later", now))
        /\ pending' = IF Settles THEN pending \cup {k} ELSE pending
        /\ held' = held \cup {k} /\ UNCHANGED <<counts, mark, touches, due>>
    BY <1>2, <1>6 DEF Postpone
  <2>2. at' \in [Key -> Nat]
    <3>1. PICK d \in Delays : at' = [at EXCEPT ![k] = now + d]
      BY <1>2, <1>6 DEF Postpone
    <3> QED BY <1>3, <3>1 DEF RetryTypeOK
  <2>3. /\ ResultsTypeOK' /\ book' = [j \in Key |-> book'[j]]
        /\ result'[k].stage = "scheduled" /\ result'[k].action = "later"
        /\ book'[k].split = EmptySplit
        /\ \A j \in Key \ {k} : result'[j] = result[j] /\ book'[j] = book[j]
    BY <1>3, <2>1, UnperformedLeaves
  <2>4. StoreTypeOK' /\ RetryTypeOK'
    BY <1>1, <1>2, <1>3, <2>1, <2>2, <2>3 DEF StoreTypeOK, RetryTypeOK
  <2>5. Executed(o)
    BY <1>2, <2>1, <2>3 DEF Executed, Touching, EmptySplit, Split
  <2> QED BY <1>2, <1>3, <2>1, <2>3, <2>4, <2>5
<1>7. CASE Act(o)
  <2>1. plan[o] # "later" /\ Perform(k, plan[o], now) /\ UNCHANGED <<retryVars, held>>
    BY <1>2, <1>7 DEF Act
  <2>2. /\ StoreTypeOK'
        /\ result'[k].stage \in Performed /\ result'[k].action = plan[o]
        /\ \A j \in Key \ {k} : result'[j] = result[j] /\ book'[j] = book[j]
        /\ touches' = IF plan[o] \in Touching THEN [touches EXCEPT ![k[1]] = @ + 1] ELSE touches
        /\ \A p \in Opportunity \ {k[1]} : mark'[p] = mark[p]
        /\ book'[k].split.gross > 0 => mark'[k[1]] = "recovered"
    BY <1>3, <2>1, PerformLeaves
  <2>3. RetryTypeOK'
    BY <1>1, <1>3, <2>1 DEF RetryTypeOK, retryVars
  <2>4. Executed(o) /\ result'[k].stage # "scheduled"
    BY <1>2, <2>2 DEF Executed, Performed
  <2> QED BY <1>2, <1>3, <2>1, <2>2, <2>3, <2>4 DEF retryVars
<1> QED BY <1>1, <1>5, <1>6, <1>7

\* What the pursuit of a decision by a baseline leaves: at most a cancelled call.
LEMMA PursueDecisionLeaves ==
  ASSUME CycleInv, NEW o \in Opportunity, PursueDecision(o)
  PROVE  /\ Current(o) \in Key /\ plan[o] \in Action
         /\ StoreTypeOK' /\ ledger' = {}
         /\ \/ UNCHANGED storeVars
            \/ /\ Executed(o)
               /\ result'[Current(o)].stage = "cancelled"
               /\ book'[Current(o)].split = EmptySplit /\ book'[Current(o)].net = 0
<1> USE DEF CycleInv
<1>1. phase = "acting" /\ plan[o] # "none" /\ (Dropped(o) \/ Execute(o))
  BY DEF PursueDecision
<1>2. PICK k \in Key : k = Current(o) /\ k[1] = o /\ k[2] = cycle
  BY <1>1, CurrentIsKey
<1>3. plan[o] \in Action /\ TimeOf(cycle) \in Nat /\ StoreTypeOK
  BY <1>1 DEF TypeOK, Plan, TimeOf
<1>4. CASE Dropped(o)
  <2>1. UNCHANGED storeVars /\ ledger' = {}
    BY <1>4 DEF Dropped, TypeOK
  <2>2. StoreTypeOK'
    BY <1>3, <2>1 DEF storeVars, StoreTypeOK, ResultsTypeOK, StageOf
  <2> QED BY <1>2, <1>3, <2>1, <2>2
<1>5. CASE Execute(o)
  <2>1. ledger' = {} /\ Reject(o)
    BY <1>5 DEF Execute, File, TypeOK
  <2>2. /\ Record(k, Unperformed("cancelled", plan[o], TimeOf(cycle)))
        /\ MarkWorld(o, FALSE, plan[o]) /\ counts' = counts
    BY <1>2, <2>1 DEF Reject
  <2>3. /\ ResultsTypeOK' /\ book' = [j \in Key |-> book'[j]]
        /\ result'[k].stage = "cancelled" /\ result'[k].action = plan[o]
        /\ book'[k].split = EmptySplit /\ book'[k].net = 0
        /\ \A j \in Key \ {k} : result'[j] = result[j] /\ book'[j] = book[j]
    BY <1>3, <2>2, UnperformedLeaves
  <2>4. /\ touches' = IF plan[o] \in Touching THEN [touches EXCEPT ![o] = @ + 1] ELSE touches
        /\ mark' = [mark EXCEPT ![o] = IF plan[o] \in Touching THEN "awaiting" ELSE @]
    BY <2>2 DEF MarkWorld
  <2>5. /\ touches' \in [Opportunity -> Nat] /\ mark' \in [Opportunity -> {"open", "awaiting", "recovered"}]
        /\ \A p \in Opportunity \ {o} : mark'[p] = mark[p]
    BY <1>3, <2>4 DEF StoreTypeOK
  <2>6. StoreTypeOK'
    BY <1>3, <2>2, <2>3, <2>5 DEF StoreTypeOK
  <2>7. Executed(o)
    BY <1>2, <2>3, <2>4, <2>5 DEF Executed, EmptySplit, Split
  <2> QED BY <1>2, <1>3, <2>1, <2>3, <2>6, <2>7
<1> QED BY <1>1, <1>4, <1>5

LEMMA PursuitKeeps ==
  ASSUME CycleInv, NEW o \in Opportunity,
         \/ Pursue(o) /\ UNCHANGED ledger
         \/ PursueDecision(o) /\ ~Settles /\ UNCHANGED <<now, retryVars, held>>
  PROVE  CycleInv'
<1>1. CASE Pursue(o) /\ UNCHANGED ledger
  <2>1. /\ phase = "acting" /\ plan[o] # "none" /\ Pursued(o)
        /\ UNCHANGED <<policy, row, cycle, phase, contacts>>
    BY <1>1 DEF Pursue
  <2> QED BY <1>1, <2>1, PursueLeaves, PursuedKeeps
<1>2. CASE PursueDecision(o) /\ ~Settles /\ UNCHANGED <<now, retryVars, held>>
  <2>1. /\ phase = "acting" /\ plan[o] # "none" /\ Pursued(o)
        /\ UNCHANGED <<policy, row, cycle, phase, contacts>>
    BY <1>2 DEF PursueDecision
  <2>2. ledger' = ledger /\ RetryTypeOK'
    BY <1>2, PursueDecisionLeaves DEF CycleInv, TypeOK, RetryTypeOK, retryVars
  <2>3. StoreTypeOK' /\ (UNCHANGED storeVars \/ Executed(o))
    BY <1>2, PursueDecisionLeaves
  <2> QED BY <1>2, <2>1, <2>2, <2>3, PursuedKeeps DEF retryVars
<1> QED BY <1>1, <1>2

\* The last of the waiting retries.
LEMMA LatestIsLast ==
  ASSUME RetryTypeOK, pending # {}
  PROVE  LastInstant \in Nat /\ \A k \in pending : at[k] <= LastInstant
<1>1. IsFiniteSet(pending) /\ \A k \in pending : at[k] \in Nat
  BY KeysAreDecisions, FS_Subset DEF RetryTypeOK
<1>2. \E k \in pending : \A j \in pending : at[j] <= at[k]
  BY <1>1, GreatestExists
<1>3. Latest(pending) \in pending /\ \A j \in pending : at[j] <= at[Latest(pending)]
  BY <1>2 DEF Latest
<1> QED BY <1>1, <1>3 DEF LastInstant

\* What is due is taken off the list of what waits.
LEMMA TakenIsDue ==
  ASSUME CycleInv, NEW t, due = {}, TakeDue(t), UNCHANGED <<policy, storeVars, at, held>>
  PROVE  /\ due' \in SUBSET Key /\ pending' \in SUBSET Key
         /\ PendingIsKept' /\ pending' \cap due' = {}
         /\ ~Settles => due' = {} /\ pending' = {}
<1>1. due' \cup pending' = pending /\ pending' \cap due' = {}
  BY DEF TakeDue
<1>2. Settles' = Settles
  BY DEF Settles
<1>3. \A k \in Key : StageOf(k)' = StageOf(k)
  BY DEF storeVars, StageOf
<1> QED BY <1>1, <1>2, <1>3 DEF CycleInv, TypeOK, RetryTypeOK, Waiting, PendingIsKept

LEMMA EndKeeps ==
  ASSUME CycleInv, EndCycle, UNCHANGED <<now, retryVars, held, ledger>>
  PROVE  CycleInv'
<1> USE DEF CycleInv
<1>1. /\ phase = "acting" /\ phase' = "waiting" /\ \A o \in Opportunity : plan[o] = "none"
      /\ UNCHANGED <<policy, row, cycle, storeVars, plan, contacts>>
  BY DEF EndCycle, Chosen
<1>2. TypeOK'
  BY <1>1, StoreKept DEF TypeOK, RetryTypeOK, retryVars, Phase
<1>3. Timely'
  BY <1>1, StoreKept DEF Timely
<1>4. Waiting'
  BY <1>1, StoreKept DEF Waiting, PendingIsKept, retryVars
<1> QED BY <1>2, <1>3, <1>4

LEMMA CycleStep ==
  ASSUME CycleInv, [RunNext]_runVars
  PROVE  CycleInv'
<1> USE DEF CycleInv
<1>1. CASE UNCHANGED runVars
  <2>1. UNCHANGED <<policy, row, storeVars, ledger, cycle, phase, plan, contacts, now, retryVars, held>>
    BY <1>1 DEF runVars, vars, worldVars
  <2>2. TypeOK'
    BY <2>1, StoreKept DEF TypeOK, RetryTypeOK, retryVars
  <2>3. Timely' /\ Waiting'
    BY <2>1, StoreKept DEF Timely, Waiting, PendingIsKept, retryVars
  <2> QED BY <2>2, <2>3
<1>2. ASSUME Baseline, BaselineNext, UNCHANGED <<now, retryVars, held>>
      PROVE  CycleInv'
  <2>1. ~Settles
    BY <1>2 DEF Baseline, Settles
  <2>2. CASE BeginDeciding
    <3>1. /\ phase = "waiting" /\ cycle < MaxCycles /\ cycle' = cycle + 1 /\ phase' = "deciding"
          /\ UNCHANGED <<policy, row, storeVars, ledger, plan, contacts>>
      BY <2>2 DEF BeginDeciding
    <3>2. TypeOK'
      BY <1>2, <3>1, StoreKept DEF TypeOK, RetryTypeOK, retryVars, Phase
    <3>3. Timely'
      BY <3>1, StoreKept, KeysAreDecisions DEF Timely, TypeOK
    <3>4. Waiting'
      BY <1>2, <3>1, StoreKept DEF Waiting, PendingIsKept, retryVars
    <3> QED BY <3>2, <3>3, <3>4
  <2>3. CASE DecideCycle
    <3>1. PICK S \in SUBSET Eligible : \E f \in Decisions(S) : Adopt(f)
      BY <2>3 DEF DecideCycle
    <3>2. PICK f \in Decisions(S) : Adopt(f)
      BY <3>1
    <3>3. f \in Plan /\ Fits(f)
      BY <1>2, <3>2, DecisionsFit DEF Eligible, TypeOK
    <3>4. due = {}
      BY <2>1 DEF Waiting
    <3> QED BY <1>2, <2>3, <3>2, <3>3, <3>4, AdoptKeeps DEF DecideCycle
  <2>4. CASE Finish
    <3>1. /\ phase = "waiting" /\ phase' = "done"
          /\ UNCHANGED <<policy, row, cycle, storeVars, ledger, plan, contacts>>
      BY <2>4 DEF Finish
    <3>2. TypeOK'
      BY <1>2, <3>1, StoreKept DEF TypeOK, RetryTypeOK, retryVars, Phase
    <3>3. Timely'
      BY <3>1, StoreKept DEF Timely
    <3>4. Waiting'
      BY <1>2, <2>1, <3>1, StoreKept DEF Waiting, PendingIsKept, retryVars
    <3> QED BY <3>2, <3>3, <3>4
  <2>5. CASE EndCycle /\ UNCHANGED ledger
    BY <1>2, <2>5, EndKeeps
  <2>6. ASSUME NEW o \in Opportunity, PursueDecision(o)
        PROVE  CycleInv'
    BY <1>2, <2>1, <2>6, PursuitKeeps
  <2> QED BY <1>2, <2>2, <2>3, <2>4, <2>5, <2>6 DEF BaselineNext
<1>3. ASSUME Next, UNCHANGED ledger
      PROVE  CycleInv'
  <2>1. CASE BeginCycle
    <3>1. /\ phase = "waiting" /\ cycle < MaxCycles /\ cycle' = cycle + 1 /\ now' = TimeOf(cycle')
          /\ phase' = "settling" /\ TakeDue(now')
          /\ UNCHANGED <<policy, row, storeVars, plan, contacts, at, held>>
      BY <2>1 DEF BeginCycle
    <3>2. due = {}
      BY <3>1 DEF Waiting
    <3>3. /\ due' \in SUBSET Key /\ pending' \in SUBSET Key
          /\ PendingIsKept' /\ pending' \cap due' = {}
          /\ ~Settles => due' = {} /\ pending' = {}
      BY <3>1, <3>2, TakenIsDue
    <3>4. cycle' \in 0 .. MaxCycles /\ now' \in Nat
      BY <3>1 DEF TypeOK, TimeOf
    <3>5. TypeOK'
      BY <1>3, <3>1, <3>3, <3>4, StoreKept DEF TypeOK, RetryTypeOK, Phase
    <3>6. Timely'
      BY <1>3, <3>1, StoreKept, KeysAreDecisions DEF Timely, TypeOK
    <3>7. Waiting'
      BY <1>3, <3>1, <3>3, StoreKept DEF Waiting
    <3> QED BY <3>5, <3>6, <3>7
  <2>2. CASE Settle
    BY <1>3, <2>2, SettleKeeps
  <2>3. CASE DetectAndPlan
    <3>1. PICK f \in Plan : Fits(f) /\ Adopt(f)
      BY <2>3 DEF DetectAndPlan
    <3> QED BY <1>3, <2>3, <3>1, AdoptKeeps DEF DetectAndPlan
  <2>4. ASSUME NEW o \in Opportunity, Pursue(o)
        PROVE  CycleInv'
    BY <1>3, <2>4, PursuitKeeps
  <2>5. CASE EndCycle /\ UNCHANGED <<now, retryVars, held>>
    BY <1>3, <2>5, EndKeeps
  <2>6. CASE CloseSession
    <3>1. /\ phase = "waiting" /\ phase' = "closing"
          /\ UNCHANGED <<policy, row, cycle, storeVars, plan, contacts, at, held>>
      BY <2>6 DEF CloseSession
    <3>2. due = {}
      BY <3>1 DEF Waiting
    <3>3. /\ due' \in SUBSET Key /\ pending' \in SUBSET Key /\ now' \in Nat
          /\ PendingIsKept' /\ pending' = {}
          /\ ~Settles => due' = {}
      <4>1. CASE pending = {}
        <5>1. UNCHANGED <<now, due, pending>>
          BY <2>6, <4>1 DEF CloseSession
        <5> QED BY <1>3, <3>1, <3>2, <4>1, <5>1, StoreKept DEF TypeOK, RetryTypeOK, Waiting, PendingIsKept
      <4>2. CASE pending # {}
        <5>1. now' = LastInstant /\ TakeDue(LastInstant)
          BY <2>6, <4>2 DEF CloseSession
        <5>2. LastInstant \in Nat /\ \A k \in pending : at[k] <= LastInstant
          BY <4>2, LatestIsLast DEF TypeOK
        <5>3. pending' = {}
          BY <5>1, <5>2 DEF TakeDue
        <5> QED BY <3>1, <3>2, <5>1, <5>2, <5>3, TakenIsDue
      <4> QED BY <4>1, <4>2
    <3>4. TypeOK'
      BY <1>3, <3>1, <3>3, StoreKept DEF TypeOK, RetryTypeOK, Phase
    <3>5. Timely'
      BY <1>3, <3>1, StoreKept DEF Timely
    <3>6. Waiting'
      BY <1>3, <3>1, <3>3, StoreKept DEF Waiting
    <3> QED BY <3>4, <3>5, <3>6
  <2>7. CASE Done
    <3>1. /\ phase = "closing" /\ due = {} /\ phase' = "done"
          /\ UNCHANGED <<policy, row, cycle, storeVars, plan, contacts, now, retryVars, held>>
      BY <2>7 DEF Done
    <3>2. TypeOK'
      BY <1>3, <3>1, StoreKept DEF TypeOK, RetryTypeOK, retryVars, Phase
    <3>3. Timely'
      BY <1>3, <3>1, StoreKept DEF Timely
    <3>4. Waiting'
      BY <1>3, <3>1, StoreKept DEF Waiting, PendingIsKept, retryVars
    <3> QED BY <3>2, <3>3, <3>4
  <2> QED BY <1>3, <2>1, <2>2, <2>3, <2>4, <2>5, <2>6, <2>7 DEF Next
<1> QED BY <1>1, <1>2, <1>3 DEF RunNext

LEMMA CycleInvariant == RunSpec => []CycleInv
<1>1. CycleInv /\ [RunNext]_runVars => CycleInv'
  BY CycleStep
<1> QED BY InitTypes, <1>1, PTL DEF RunSpec

(* The variables keep their types: no plan, result or retry of anything    *)
(* but a decision of this run, no customer granted more than its           *)
(* allowance, and no row ever in the ledger the baselines are judged by.   *)
THEOREM RunTypeCorrect == RunSpec => []TypeOK
<1>1. CycleInv => TypeOK
  BY DEF CycleInv
<1> QED BY CycleInvariant, <1>1, PTL

(* PendingIsKept: the session waits for exactly the retries whose stored   *)
(* result is a schedule, whatever the delays and the times of the cycles,  *)
(* and each of them keeps its reserved rows until it is settled.           *)
THEOREM RetriesAreKept == RunSpec => []PendingIsKept
<1>1. CycleInv => PendingIsKept
  BY DEF CycleInv, Waiting
<1> QED BY CycleInvariant, <1>1, PTL

(* SessionIsSettled: a session that is handed out has no schedule left.    *)
THEOREM SessionEndsSettled == RunSpec => []SessionIsSettled
<1>1. CycleInv => SessionIsSettled
  BY DEF CycleInv, Waiting, PendingIsKept, SessionIsSettled
<1> QED BY CycleInvariant, <1>1, PTL

-----------------------------------------------------------------------------
(* What a step can do to the plan and to the store.                        *)

Grants(f) ==
  /\ phase \in {"settling", "deciding"} /\ Fits(f) /\ Adopt(f)
  /\ UNCHANGED <<policy, storeVars>>

\* What the baselines hand to execution is cancelled.
Pursues(o) ==
  /\ phase = "acting" /\ plan[o] # "none" /\ Pursued(o)
  /\ UNCHANGED <<policy, cycle, contacts>>
  /\ \/ UNCHANGED storeVars
     \/ /\ Executed(o)
        /\ Baseline => /\ result'[Current(o)].stage = "cancelled"
                       /\ book'[Current(o)].split = EmptySplit /\ book'[Current(o)].net = 0

Settling(k) == SettleRetry(k) /\ UNCHANGED <<policy, plan, contacts>>

LEMMA StepIsOfAKind ==
  ASSUME CycleInv, [RunNext]_runVars
  PROVE  \/ UNCHANGED <<policy, plan, contacts, storeVars>>
         \/ \E f \in Plan : Grants(f)
         \/ \E o \in Opportunity : Pursues(o)
         \/ \E k \in due : Settling(k)
<1>1. CASE UNCHANGED runVars
  BY <1>1 DEF runVars, vars, worldVars
<1>2. ASSUME Baseline, BaselineNext
      PROVE  \/ UNCHANGED <<policy, plan, contacts, storeVars>>
             \/ \E f \in Plan : Grants(f)
             \/ \E o \in Opportunity : Pursues(o)
  <2>1. CASE BeginDeciding \/ Finish \/ EndCycle
    BY <2>1 DEF BeginDeciding, Finish, EndCycle
  <2>2. CASE DecideCycle
    <3>1. PICK S \in SUBSET Eligible : \E f \in Decisions(S) : Adopt(f)
      BY <2>2 DEF DecideCycle
    <3>2. PICK f \in Decisions(S) : Adopt(f)
      BY <3>1
    <3>3. f \in Plan /\ Fits(f)
      BY <1>2, <3>1, DecisionsFit DEF Eligible, CycleInv, TypeOK
    <3> QED BY <2>2, <3>2, <3>3 DEF DecideCycle, Grants
  <2>3. ASSUME NEW o \in Opportunity, PursueDecision(o)
        PROVE  Pursues(o)
    BY <2>3, PursueDecisionLeaves DEF PursueDecision, Pursues
  <2> QED BY <1>2, <2>1, <2>2, <2>3 DEF BaselineNext
<1>3. ASSUME ~Baseline, Next
      PROVE  \/ UNCHANGED <<policy, plan, contacts, storeVars>>
             \/ \E f \in Plan : Grants(f)
             \/ \E o \in Opportunity : Pursues(o)
             \/ \E k \in due : Settling(k)
  <2>1. CASE BeginCycle \/ EndCycle \/ CloseSession \/ Done
    BY <2>1 DEF BeginCycle, EndCycle, CloseSession, Done
  <2>2. CASE DetectAndPlan
    BY <2>2 DEF DetectAndPlan, Grants
  <2>3. ASSUME NEW o \in Opportunity, Pursue(o)
        PROVE  Pursues(o)
    BY <1>3, <2>3, PursueLeaves DEF Pursue, Pursues
  <2>4. CASE Settle
    BY <2>4 DEF Settle, Settling
  <2> QED BY <1>3, <2>1, <2>2, <2>3, <2>4 DEF Next
<1> QED BY <1>1, <1>2, <1>3 DEF RunNext

-----------------------------------------------------------------------------
(* Recoveries and touches on the record of the world.                      *)

LEMMA MarkStep ==
  ASSUME CycleInv, [RunNext]_runVars, NEW k \in Key, Counted(k)', ~Counted(k)
  PROVE  mark'[k[1]] = "recovered"
<1>1. book'[k].split.gross > 0 /\ book'[k] # book[k]
  BY DEF Counted
<1>2. ~UNCHANGED storeVars
  BY <1>1 DEF storeVars
<1>3. ASSUME NEW o \in Opportunity, Pursues(o)
      PROVE  mark'[k[1]] = "recovered"
  <2>1. PICK j \in Key : j = Current(o) /\ j[1] = o
    BY <1>3, CurrentIsKey DEF Pursues
  <2> QED BY <1>1, <1>2, <1>3, <2>1 DEF Pursues, Executed
<1>4. ASSUME NEW j \in due, Settling(j)
      PROVE  mark'[k[1]] = "recovered"
  BY <1>1, <1>4, SettleLeaves DEF Settling
<1> QED BY <1>2, <1>3, <1>4, StepIsOfAKind DEF Grants

(* RecoveryIsMarked: a step that counts a recovery leaves the opportunity  *)
(* marked as recovered, under every policy and whatever the oracle's row.  *)
THEOREM RecoveriesAreMarked == RunSpec => RecoveryIsMarked
<1>1. CycleInv /\ [RunNext]_runVars =>
        [\A k \in Key : Counted(k)' /\ ~Counted(k) => mark'[k[1]] = "recovered"]_worldVars
  BY MarkStep
<1> QED BY CycleInvariant, <1>1, PTL DEF RunSpec, RecoveryIsMarked

\* The cycles in which a touch was granted.
TouchedIn(o) == {n \in 1 .. MaxCycles : /\ StageOf(<<o, n>>) # "none"
                                        /\ result[<<o, n>>].action \in Touching}

LEMMA TouchStep ==
  ASSUME CycleInv, [RunNext]_runVars, TouchesAreDecisions
  PROVE  TouchesAreDecisions'
<1>1. SUFFICES ASSUME NEW p \in Opportunity, touches[p] = Cardinality(TouchedIn(p))
               PROVE  touches'[p] = Cardinality(TouchedIn(p)')
  BY DEF TouchesAreDecisions, TouchedIn
<1>2. \A n \in 1 .. MaxCycles : <<p, n>> \in Key
  BY DEF Key
<1>3. CASE UNCHANGED storeVars
  BY <1>1, <1>3 DEF storeVars, TouchedIn, StageOf
<1>4. ASSUME NEW o \in Opportunity, Pursues(o), ~UNCHANGED storeVars
      PROVE  touches'[p] = Cardinality(TouchedIn(p)')
  <2>1. Executed(o)
    BY <1>4 DEF Pursues
  <2>2. PICK k \in Key : k = Current(o) /\ k[1] = o /\ k[2] = cycle
    BY <1>4, CurrentIsKey DEF Pursues
  <2>3. StageOf(k) = "none" /\ cycle \in 1 .. MaxCycles /\ k = <<o, cycle>>
    BY <1>4, <2>2, KeysAreDecisions DEF Pursues, CycleInv, Timely
  <2>4. /\ result'[k].stage # "none" /\ result'[k].action = plan[o]
        /\ \A j \in Key \ {k} : result'[j] = result[j]
        /\ touches' = IF plan[o] \in Touching THEN [touches EXCEPT ![o] = @ + 1] ELSE touches
    BY <2>1, <2>2 DEF Executed, Performed
  <2>5. CASE p # o
    <3>1. \A n \in 1 .. MaxCycles : result'[<<p, n>>] = result[<<p, n>>]
      BY <1>2, <2>3, <2>4, <2>5
    <3>2. TouchedIn(p)' = TouchedIn(p)
      BY <3>1 DEF TouchedIn, StageOf
    <3> QED BY <1>1, <2>4, <2>5, <3>2
  <2>6. CASE p = o
    <3>1. \A n \in (1 .. MaxCycles) \ {cycle} : result'[<<p, n>>] = result[<<p, n>>]
      BY <1>2, <2>3, <2>4, <2>6
    <3>2. cycle \notin TouchedIn(p)
      BY <2>3, <2>6 DEF TouchedIn
    <3>3. TouchedIn(p)' = IF plan[o] \in Touching THEN TouchedIn(p) \cup {cycle} ELSE TouchedIn(p)
      BY <2>3, <2>4, <2>6, <3>1, <3>2 DEF TouchedIn, StageOf
    <3>4. IsFiniteSet(TouchedIn(p))
      <4>1. IsFiniteSet(1 .. MaxCycles) /\ TouchedIn(p) \in SUBSET (1 .. MaxCycles)
        BY FS_Interval DEF TouchedIn
      <4> QED BY <4>1, FS_Subset
    <3>5. touches'[p] = IF plan[o] \in Touching THEN touches[p] + 1 ELSE touches[p]
      BY <2>4, <2>6 DEF CycleInv, TypeOK, StoreTypeOK
    <3>6. Cardinality(TouchedIn(p) \cup {cycle}) = Cardinality(TouchedIn(p)) + 1
      BY <3>2, <3>4, FS_AddElement
    <3> QED BY <1>1, <3>3, <3>5, <3>6
  <2> QED BY <2>5, <2>6
<1>5. ASSUME NEW k \in due, Settling(k)
      PROVE  touches'[p] = Cardinality(TouchedIn(p)')
  <2>1. /\ result'[k].action = "later" /\ result[k].action = "later" /\ touches' = touches
        /\ \A j \in Key \ {k} : result'[j] = result[j]
    BY <1>5, SettleLeaves, DueWaits DEF Settling
  <2>2. "later" \notin Touching
    BY DEF Touching
  <2>3. TouchedIn(p)' = TouchedIn(p)
    BY <1>2, <2>1, <2>2 DEF TouchedIn, StageOf
  <2> QED BY <1>1, <2>1, <2>3
<1> QED BY <1>3, <1>4, <1>5, StepIsOfAKind DEF Grants

(* TouchesAreDecisions: contacts_made is the number of decisions of a      *)
(* counted action that were handed to execution, under every policy.       *)
THEOREM TouchesAreCounted == RunSpec => []TouchesAreDecisions
<1>1. RunInit => TouchesAreDecisions
  <2> SUFFICES ASSUME RunInit, NEW o \in Opportunity
               PROVE  touches[o] = Cardinality(TouchedIn(o))
    BY DEF TouchesAreDecisions, TouchedIn
  <2>1. \A k \in Key : StageOf(k) = "none"
    BY DEF RunInit, Init, WorldInit, NoResult, StageOf
  <2>2. TouchedIn(o) = {}
    BY <2>1 DEF TouchedIn, Key
  <2> QED BY <2>2, FS_EmptySet DEF RunInit, Init, WorldInit
<1>2. CycleInv /\ TouchesAreDecisions /\ [RunNext]_runVars => TouchesAreDecisions'
  BY TouchStep
<1> QED BY CycleInvariant, <1>1, <1>2, PTL DEF RunSpec

-----------------------------------------------------------------------------
(* The baselines.                                                          *)

NothingInv ==
  Baseline => \A k \in Key : /\ StageOf(k) \in {"none", "cancelled"}
                             /\ book[k].split.gross = 0 /\ book[k].net = 0

LEMMA NothingStep ==
  ASSUME CycleInv, [RunNext]_runVars, NothingInv
  PROVE  NothingInv'
<1>1. policy' = policy /\ (Baseline' => Baseline)
  BY StepIsOfAKind DEF Grants, Pursues, Settling, Baseline
<1> SUFFICES ASSUME Baseline, NEW j \in Key
             PROVE  /\ StageOf(j)' \in {"none", "cancelled"}
                    /\ book'[j].split.gross = 0 /\ book'[j].net = 0
  BY <1>1 DEF NothingInv
<1>2. StageOf(j) \in {"none", "cancelled"} /\ book[j].split.gross = 0 /\ book[j].net = 0
  BY DEF NothingInv
<1>3. CASE UNCHANGED storeVars
  BY <1>2, <1>3 DEF storeVars, StageOf
<1>4. ASSUME NEW o \in Opportunity, Pursues(o), ~UNCHANGED storeVars
      PROVE  /\ StageOf(j)' \in {"none", "cancelled"}
             /\ book'[j].split.gross = 0 /\ book'[j].net = 0
  <2>1. PICK k \in Key : k = Current(o)
    BY <1>4, CurrentIsKey DEF Pursues
  <2>2. /\ result'[k].stage = "cancelled" /\ book'[k].split = EmptySplit /\ book'[k].net = 0
        /\ \A i \in Key \ {k} : result'[i] = result[i] /\ book'[i] = book[i]
    BY <1>4, <2>1 DEF Pursues, Executed
  <2> QED BY <1>2, <2>2 DEF StageOf, EmptySplit, Split
<1>5. ASSUME NEW k \in due, Settling(k)
      PROVE  FALSE
  BY <1>5, DueWaits DEF Settles, Baseline
<1> QED BY <1>3, <1>4, <1>5, StepIsOfAKind DEF Grants

(* NothingIsPerformed: no decision of a baseline is ever performed, and    *)
(* the metrics summed over its run are zero.                               *)
THEOREM BaselinesDoNothing == RunSpec => []NothingIsPerformed
<1>1. RunInit => NothingInv
  BY DEF RunInit, Init, WorldInit, NothingInv, StageOf, NoResult, Unmeasured, EmptySplit, Split
<1>2. CycleInv /\ NothingInv /\ [RunNext]_runVars => NothingInv'
  BY NothingStep
<1>3. CycleInv /\ NothingInv => NothingIsPerformed
  <2> SUFFICES ASSUME NothingInv, Baseline
               PROVE  Totals.gross = 0 /\ Totals.net = 0 /\ Totals.contacts = 0
    BY DEF NothingInv, NothingIsPerformed
  <2>1. Measured \in SUBSET Key /\ IsFiniteSet(Key)
    BY KeysAreDecisions DEF Measured
  <2> DEFINE gross == [k \in Key |-> book[k].split.gross]
             net   == [k \in Key |-> book[k].net]
  <2>2. /\ gross \in [Key -> Int] /\ \A k \in Measured : gross[k] = 0
        /\ net \in [Key -> Int] /\ \A k \in Measured : net[k] = 0
    BY <2>1 DEF NothingInv
  <2> HIDE DEF gross, net
  <2>3. SumOver(gross, Measured) = 0 /\ SumOver(net, Measured) = 0
    BY <2>1, <2>2, SumOfZeros
  <2>4. {k \in Measured : StageOf(k) = "succeeded" /\ result[k].action \in Touching} = {}
    BY <2>1 DEF NothingInv
  <2> QED BY <2>3, <2>4, FS_EmptySet DEF Totals, SumOver, gross, net
<1> QED BY CycleInvariant, <1>1, <1>2, <1>3, PTL DEF RunSpec

-----------------------------------------------------------------------------
(* The allowance of a customer: what was granted to it covers the contacts *)
(* it had and those it is still to have in this cycle.                     *)

Spent(c) == {k \in Key : CustomerOf[k[1]] = c /\ result[k].action \in Contacting /\ StageOf(k) # "none"}

Open(c) == {o \in Opportunity : plan[o] \in Contacting /\ CustomerOf[o] = c}

IsCovered(c) == Cardinality(Spent(c)) + Cardinality(Open(c)) <= contacts[c]

AllowanceInv == \A c \in Customer : IsCovered(c)

LEMMA ContactsAreFinite ==
  ASSUME NEW c
  PROVE  /\ IsFiniteSet(Spent(c)) /\ Cardinality(Spent(c)) \in Nat
         /\ IsFiniteSet(Spent(c)') /\ Cardinality(Spent(c)') \in Nat
         /\ IsFiniteSet(Open(c)) /\ Cardinality(Open(c)) \in Nat
         /\ IsFiniteSet(Open(c)') /\ Cardinality(Open(c)') \in Nat
<1>1. /\ Spent(c) \in SUBSET Key /\ Spent(c)' \in SUBSET Key
      /\ Open(c) \in SUBSET Opportunity /\ Open(c)' \in SUBSET Opportunity
  BY DEF Spent, Open
<1> QED BY <1>1, KeysAreDecisions, FS_Subset, FS_CardinalityType

LEMMA AllowanceStep ==
  ASSUME CycleInv, [RunNext]_runVars, NEW c \in Customer, IsCovered(c)
  PROVE  IsCovered(c)'
<1> USE ContactsAreFinite
<1>1. policy' = policy /\ Contacting' = Contacting
  BY StepIsOfAKind DEF Grants, Pursues, Settling, Baseline, Contacting
<1>2. contacts[c] \in Nat
  BY DEF CycleInv, TypeOK
<1>3. CASE UNCHANGED <<plan, contacts, storeVars>>
  <2>1. Spent(c)' = Spent(c) /\ Open(c)' = Open(c)
    BY <1>1, <1>3 DEF Spent, Open, StageOf, storeVars
  <2> QED BY <1>3, <2>1 DEF IsCovered
<1>4. ASSUME NEW f \in Plan, Grants(f)
      PROVE  IsCovered(c)'
  <2>1. Open(c) = {}
    BY <1>4 DEF Open, Contacting, Grants, CycleInv, Timely
  <2>2. Spent(c)' = Spent(c)
    BY <1>1, <1>4 DEF Grants, Spent, StageOf, storeVars
  <2>3. plan' = f /\ contacts'[c] = contacts[c] + ContactsIn(f, c)
    BY <1>4 DEF Grants, Adopt, ContactsAfter
  <2>4. Open(c)' = {o \in Selected(f, Contacting) : CustomerOf[o] = c}
    BY <1>1, <2>3 DEF Open, Selected
  <2>5. ContactsIn(f, c) = Cardinality(Open(c)')
    BY <2>4 DEF ContactsIn
  <2>6. Cardinality(Open(c)) = 0
    BY <2>1, FS_EmptySet
  <2> QED BY <1>2, <2>2, <2>3, <2>5, <2>6 DEF IsCovered
<1>5. ASSUME NEW o \in Opportunity, Pursues(o)
      PROVE  IsCovered(c)'
  <2>1. PICK k \in Key : k = Current(o) /\ k[1] = o
    BY <1>5, CurrentIsKey DEF Pursues
  <2>2. /\ \A j \in Key \ {k} : result'[j] = result[j]
        /\ \/ result'[k] = result[k]
           \/ result'[k].action = plan[o]
    BY <1>5, <2>1 DEF Pursues, Executed, storeVars
  <2>3. StageOf(k) = "none"
    BY <1>5, <2>1 DEF Pursues, CycleInv, Timely, Current
  <2>4. plan'[o] = "none" /\ \A p \in Opportunity \ {o} : plan'[p] = plan[p]
    BY <1>5 DEF Pursues, Pursued, CycleInv, TypeOK, Plan
  <2>5. contacts' = contacts /\ "none" \notin Contacting
    BY <1>5 DEF Pursues, Contacting
  <2>6. CASE o \in Open(c)
    <3>1. Open(c)' = Open(c) \ {o}
      BY <1>1, <2>4, <2>5 DEF Open
    <3>2. Cardinality(Open(c)') = Cardinality(Open(c)) - 1
      BY <2>6, <3>1, FS_RemoveElement
    <3>3. Spent(c)' \in SUBSET (Spent(c) \cup {k})
      BY <1>1, <2>2 DEF Spent, StageOf
    <3>4. k \notin Spent(c)
      BY <2>3 DEF Spent
    <3>5. IsFiniteSet(Spent(c) \cup {k}) /\ Cardinality(Spent(c) \cup {k}) = Cardinality(Spent(c)) + 1
      BY <3>4, FS_AddElement
    <3>6. Cardinality(Spent(c)') <= Cardinality(Spent(c)) + 1
      BY <3>3, <3>5, FS_Subset
    <3> QED BY <1>2, <2>5, <3>2, <3>6 DEF IsCovered
  <2>7. CASE o \notin Open(c)
    <3>1. Open(c)' = Open(c)
      BY <1>1, <2>4, <2>5, <2>7 DEF Open
    <3>2. k \notin Spent(c)' \/ result'[k] = result[k]
      BY <1>1, <2>1, <2>2, <2>7 DEF Spent, Open
    <3>3. Spent(c)' = Spent(c)
      BY <1>1, <2>2, <2>3, <3>2 DEF Spent, StageOf
    <3> QED BY <2>5, <3>1, <3>3 DEF IsCovered
  <2> QED BY <2>6, <2>7
<1>6. ASSUME NEW k \in due, Settling(k)
      PROVE  IsCovered(c)'
  <2>1. /\ k \in Key /\ result'[k].action = "later" /\ result[k].action = "later"
        /\ \A j \in Key \ {k} : result'[j] = result[j]
        /\ plan' = plan /\ contacts' = contacts
    BY <1>6, SettleLeaves, DueWaits DEF Settling
  <2>2. "later" \notin Contacting
    BY DEF Contacting
  <2>3. Spent(c)' = Spent(c) /\ Open(c)' = Open(c)
    BY <1>1, <2>1, <2>2 DEF Spent, Open, StageOf
  <2> QED BY <2>1, <2>3 DEF IsCovered
<1> QED BY <1>3, <1>4, <1>5, <1>6, StepIsOfAKind

(* ContactsWithinAllowance: no customer has more contacts than its         *)
(* allowance, over all cycles and opportunities and under every policy.    *)
THEOREM AllowanceIsKept == RunSpec => []ContactsWithinAllowance
<1>1. RunInit => AllowanceInv
  <2> SUFFICES ASSUME RunInit, NEW c \in Customer
               PROVE  IsCovered(c)
    BY DEF AllowanceInv
  <2>1. Spent(c) = {}
    BY DEF RunInit, Init, WorldInit, NoResult, StageOf, Spent
  <2>2. Open(c) = {} /\ contacts[c] = 0
    BY DEF RunInit, Init, WorldInit, Open, Contacting
  <2> QED BY <2>1, <2>2, FS_EmptySet DEF IsCovered
<1>2. CycleInv /\ AllowanceInv /\ [RunNext]_runVars => AllowanceInv'
  BY AllowanceStep DEF AllowanceInv
<1>3. CycleInv /\ AllowanceInv => ContactsWithinAllowance
  <2> SUFFICES ASSUME CycleInv, NEW c \in Customer, IsCovered(c)
               PROVE  Cardinality(Spent(c)) <= ContactAllowance
    BY DEF AllowanceInv, ContactsWithinAllowance, Spent
  <2>1. contacts[c] \in Nat /\ contacts[c] <= ContactAllowance
    BY DEF CycleInv, TypeOK
  <2> QED BY <2>1, ContactsAreFinite DEF IsCovered
<1> QED BY CycleInvariant, <1>1, <1>2, <1>3, PTL DEF RunSpec

-----------------------------------------------------------------------------
(* The books.                                                              *)

LEMMA RowsAreRows ==
  /\ \A o \in Opportunity : row \in [Opportunity -> Row] => IsRow(row[o])
  /\ IsFiniteSet(Opportunity)
BY WorldAssumption DEF WorldAssumption

LEMMA MinIsLeast ==
  ASSUME NEW S \in SUBSET Nat, S # {}
  PROVE  Min(S) \in S
<1>1. \E m \in S : \A n \in S : m <= n
  BY LeastNumber
<1> QED BY <1>1 DEF Min

LEMMA MaxIsGreatest ==
  ASSUME NEW S \in SUBSET Nat, S # {}, IsFiniteSet(S)
  PROVE  Max(S) \in S
<1> DEFINE f == [n \in S |-> n]
<1>1. \A n \in S : f[n] \in Int
  OBVIOUS
<1> HIDE DEF f
<1>2. PICK m \in S : \A n \in S : f[n] <= f[m]
  BY <1>1, GreatestExists
<1>3. \A n \in S : n <= m
  BY <1>2 DEF f
<1> QED BY <1>3 DEF Max

\* What a tired customer pays is at most what is owed.
LEMMA AmountIsOwed ==
  ASSUME NEW r, IsRow(r), NEW a \in DOMAIN r.response, NEW n \in Nat
  PROVE  AmountOf(r, a, n, Value) \in 0 .. Value
<1> DEFINE known == DOMAIN r.fatigue
<1>1. FatigueOf(r, n) \in 0 .. 100
  <2>1. CASE known = {}
    BY <2>1 DEF FatigueOf
  <2>2. CASE known # {}
    <3>1. Min(known) \in known /\ Max(known) \in known
      BY <2>2, MinIsLeast, MaxIsGreatest DEF IsRow
    <3>2. \A m \in known : r.fatigue[m] \in 0 .. 100
      BY DEF IsRow
    <3> QED BY <2>2, <3>1, <3>2 DEF FatigueOf
  <2> QED BY <2>1, <2>2
<1> DEFINE amount == r.response[a].amount
           owed == Min({amount, Value})
<1>2. amount \in Nat
  BY DEF IsRow
<1>3. owed \in 0 .. Value
  <2>1. \E m \in {amount, Value} : \A y \in {amount, Value} : m <= y
    BY <1>2
  <2>2. owed \in {amount, Value} /\ owed <= Value
    BY <2>1 DEF Min
  <2> QED BY <1>2, <2>2
<1> HIDE DEF owed
<1> DEFINE fatigue == FatigueOf(r, n)
<1> HIDE DEF fatigue
<1>4. fatigue \in 0 .. 100
  BY <1>1 DEF fatigue
<1>5. owed * fatigue \in 0 .. Value * 100
  BY <1>3, <1>4
<1>6. (owed * fatigue) \div 100 \in 0 .. Value
  BY <1>5
<1> QED BY <1>6 DEF AmountOf, owed, fatigue

\* The steps the engine asks for are in the table, and validate accepts them.
LEMMA TableHasSteps ==
  /\ <<"AUTHORISED", "ACTING">> \in OpportunityTransition
  /\ <<"ACTING", "AWAITING_OUTCOME">> \in OpportunityTransition
  /\ <<"ACTING", "RECONCILING">> \in OpportunityTransition
  /\ <<"AWAITING_OUTCOME", "RECOVERED">> \in OpportunityTransition
  /\ <<"AWAITING_OUTCOME", "PRICED">> \in OpportunityTransition
BY DEF OpportunityTransition

LEMMA EngineStepsAreValid ==
  /\ Validates(OpportunityMachine, "AUTHORISED", "ACTING")
  /\ Validates(OpportunityMachine, "ACTING", "AWAITING_OUTCOME")
  /\ Validates(OpportunityMachine, "ACTING", "RECONCILING")
  /\ Validates(OpportunityMachine, "AWAITING_OUTCOME", "RECOVERED")
  /\ Validates(OpportunityMachine, "AWAITING_OUTCOME", "PRICED")
BY TableHasSteps DEF Validates, OpportunityMachine, Created

LEMMA InterventionStepsAreValid ==
  /\ Validates(InterventionMachine, "INTENDED", "IN_FLIGHT")
  /\ \A s \in {"COMPLETED_SUCCESS", "COMPLETED_FAILED", "UNKNOWN"} :
       Validates(InterventionMachine, "IN_FLIGHT", s)
BY DEF Validates, InterventionMachine, Created

\* A walk that is one step longer.
LEMMA AppendedToOne ==
  ASSUME NEW a, NEW b
  PROVE  Append(<<a>>, b) = <<a, b>>
<1> DEFINE S == {a, b}
<1>1. a \in S /\ b \in S
  OBVIOUS
<1> HIDE DEF S
<1>2. <<a>> \in Seq(S) /\ <<a, b>> \in Seq(S) /\ Append(<<a>>, b) \in Seq(S)
  BY <1>1
<1>3. Len(Append(<<a>>, b)) = 2 /\ Len(<<a, b>>) = 2
  BY <1>1, <1>2
<1>4. \A i \in 1 .. 2 : Append(<<a>>, b)[i] = <<a, b>>[i]
  BY <1>1, <1>2
<1> QED BY <1>2, <1>3, <1>4, SeqEqual

LEMMA AppendedToTwo ==
  ASSUME NEW a, NEW b, NEW c
  PROVE  Append(<<a, b>>, c) = <<a, b, c>>
<1> DEFINE S == {a, b, c}
<1>1. a \in S /\ b \in S /\ c \in S
  OBVIOUS
<1> HIDE DEF S
<1>2. <<a, b>> \in Seq(S) /\ <<a, b, c>> \in Seq(S) /\ Append(<<a, b>>, c) \in Seq(S)
  BY <1>1
<1>3. Len(Append(<<a, b>>, c)) = 3 /\ Len(<<a, b, c>>) = 3
  BY <1>1, <1>2
<1>4. \A i \in 1 .. 3 : Append(<<a, b>>, c)[i] = <<a, b, c>>[i]
  BY <1>1, <1>2
<1> QED BY <1>2, <1>3, <1>4, SeqEqual

LEMMA AppendedToThree ==
  ASSUME NEW a, NEW b, NEW c, NEW d
  PROVE  Append(<<a, b, c>>, d) = <<a, b, c, d>>
<1> DEFINE S == {a, b, c, d}
<1>1. a \in S /\ b \in S /\ c \in S /\ d \in S
  OBVIOUS
<1> HIDE DEF S
<1>2. <<a, b, c>> \in Seq(S) /\ <<a, b, c, d>> \in Seq(S) /\ Append(<<a, b, c>>, d) \in Seq(S)
  BY <1>1
<1>3. Len(Append(<<a, b, c>>, d)) = 4 /\ Len(<<a, b, c, d>>) = 4
  BY <1>1, <1>2
<1>4. \A i \in 1 .. 4 : Append(<<a, b, c>>, d)[i] = <<a, b, c, d>>[i]
  BY <1>1, <1>2
<1> QED BY <1>2, <1>3, <1>4, SeqEqual

\* Where the walk of an opportunity can end.
LEMMA WalkOfOpportunity ==
  ASSUME NEW answer
  PROVE  OpportunityWalk(answer) =
           IF answer.adapter = "TIMEOUT_UNKNOWN" THEN <<"AUTHORISED", "ACTING", "RECONCILING">>
           ELSE IF IsRecovery(answer)
                THEN <<"AUTHORISED", "ACTING", "AWAITING_OUTCOME", "RECOVERED">>
           ELSE IF answer.kind = "NOT_RECOVERED"
                THEN <<"AUTHORISED", "ACTING", "AWAITING_OUTCOME", "PRICED">>
           ELSE <<"AUTHORISED", "ACTING", "AWAITING_OUTCOME">>
<1> DEFINE T == OpportunityMachine.transition
<1>1. T = OpportunityTransition
  BY DEF OpportunityMachine
<1>2. Step(<<"AUTHORISED">>, OpportunityMachine, "ACTING") = <<"AUTHORISED", "ACTING">>
  BY <1>1, TableHasSteps, AppendedToOne, AppendedToTwo DEF Step
<1> DEFINE acting == <<"AUTHORISED", "ACTING">>
           asked == Step(acting, OpportunityMachine, Outcoming(answer))
<1>3. CASE answer.adapter = "TIMEOUT_UNKNOWN"
  <2>1. asked = <<"AUTHORISED", "ACTING", "RECONCILING">>
    BY <1>1, <1>3, TableHasSteps, AppendedToOne, AppendedToTwo DEF Step, Outcoming
  <2>2. asked[Len(asked)] # "AWAITING_OUTCOME"
    <3> HIDE DEF asked
    <3> QED BY <2>1
  <2> QED BY <1>2, <1>3, <2>1, <2>2 DEF OpportunityWalk
<1>4. CASE answer.adapter # "TIMEOUT_UNKNOWN"
  <2> DEFINE awaiting == <<"AUTHORISED", "ACTING", "AWAITING_OUTCOME">>
  <2>1. asked = awaiting
    BY <1>1, <1>4, TableHasSteps, AppendedToOne, AppendedToTwo DEF Step, Outcoming
  <2>2. awaiting[Len(awaiting)] = "AWAITING_OUTCOME"
    OBVIOUS
  <2>3. /\ Step(awaiting, OpportunityMachine, "RECOVERED") = Append(awaiting, "RECOVERED")
        /\ Step(awaiting, OpportunityMachine, "PRICED") = Append(awaiting, "PRICED")
    BY <1>1, <2>2, TableHasSteps DEF Step
  <2>4. \A s \in {"RECOVERED", "PRICED"} :
          Append(awaiting, s) = <<"AUTHORISED", "ACTING", "AWAITING_OUTCOME", s>>
    BY AppendedToThree
  <2>5. OpportunityWalk(answer) =
          IF IsRecovery(answer) THEN Step(awaiting, OpportunityMachine, "RECOVERED")
          ELSE IF answer.kind = "NOT_RECOVERED" THEN Step(awaiting, OpportunityMachine, "PRICED")
          ELSE awaiting
    BY <1>2, <2>1, <2>2 DEF OpportunityWalk
  <2> QED BY <1>4, <2>3, <2>4, <2>5
<1> QED BY <1>3, <1>4

LEMMA WalksAreLegal ==
  ASSUME NEW answer
  PROVE  /\ IsLegal(OpportunityMachine, OpportunityWalk(answer))
         /\ IsLegal(InterventionMachine, InterventionWalk(answer))
<1>1. IsLegal(OpportunityMachine, OpportunityWalk(answer))
  <2>1. ASSUME NEW w, w = <<"AUTHORISED", "ACTING", "RECONCILING">>
        PROVE  IsLegal(OpportunityMachine, w)
    BY <2>1, EngineStepsAreValid DEF IsLegal
  <2>2. ASSUME NEW w, w = <<"AUTHORISED", "ACTING", "AWAITING_OUTCOME">>
        PROVE  IsLegal(OpportunityMachine, w)
    BY <2>2, EngineStepsAreValid DEF IsLegal
  <2>3. ASSUME NEW w, NEW s \in {"RECOVERED", "PRICED"},
               w = <<"AUTHORISED", "ACTING", "AWAITING_OUTCOME", s>>
        PROVE  IsLegal(OpportunityMachine, w)
    BY <2>3, EngineStepsAreValid DEF IsLegal
  <2> QED BY <2>1, <2>2, <2>3, WalkOfOpportunity
<1>2. IsLegal(InterventionMachine, InterventionWalk(answer))
  <2> DEFINE s == InterventionStateFor(answer.adapter)
  <2>1. s \in {"COMPLETED_SUCCESS", "COMPLETED_FAILED", "UNKNOWN"}
    BY DEF InterventionStateFor
  <2> HIDE DEF s
  <2>2. /\ <<"INTENDED", "IN_FLIGHT">> \in InterventionMachine.transition
        /\ <<"IN_FLIGHT", s>> \in InterventionMachine.transition
    BY <2>1 DEF InterventionMachine
  <2>3. Step(<<"INTENDED">>, InterventionMachine, "IN_FLIGHT") = <<"INTENDED", "IN_FLIGHT">>
    BY <2>2, AppendedToOne, AppendedToTwo DEF Step
  <2>4. Step(<<"INTENDED", "IN_FLIGHT">>, InterventionMachine, s) = <<"INTENDED", "IN_FLIGHT", s>>
    BY <2>2, AppendedToOne, AppendedToTwo DEF Step
  <2>5. InterventionWalk(answer) = <<"INTENDED", "IN_FLIGHT", s>>
    BY <2>3, <2>4 DEF InterventionWalk, s
  <2> QED BY <2>1, <2>5, InterventionStepsAreValid DEF IsLegal
<1> QED BY <1>1, <1>2

\* An answer of the oracle, asked at t: what is paid is at most what is owed and
\* is paid in time, by an action that succeeded.
IsAnswer(answer, t) ==
  /\ answer.kind \in {"ACTION_FAILED", "NOT_RECOVERED", "RECOVERED", "PARTIALLY_RECOVERED"}
  /\ answer.adapter \in {"SUCCESS", "FAILED_TERMINAL", "TIMEOUT_UNKNOWN"}
  /\ answer.class \in {"ATTRIBUTED", "NATURAL", "AMBIGUOUS"}
  /\ answer.amount \in 0 .. Value
  /\ answer.amount > 0 => /\ answer.adapter = "SUCCESS" /\ answer.within /\ ~answer.late
                          /\ answer.at <= t + Horizon

LEMMA AnswersAreAnswers ==
  ASSUME NEW r, IsRow(r), NEW a, NEW t \in Nat, NEW n \in Nat, NEW d \in BOOLEAN
  PROVE  IsAnswer(Resolve(r, a, t, n, Value, d), t)
<1> DEFINE answer == Resolve(r, a, t, n, Value, d)
<1>1. \/ answer = Outcome("ACTION_FAILED", "AMBIGUOUS", "FAILED_TERMINAL")
      \/ answer = Outcome("ACTION_FAILED", "AMBIGUOUS", "TIMEOUT_UNKNOWN")
      \/ answer = Outcome("NOT_RECOVERED", "ATTRIBUTED", "FAILED_TERMINAL")
      \/ a \in DOMAIN r.response /\ answer = Recovery(r, a, t, n, Value, d)
  BY DEF Resolve
<1> HIDE DEF answer
<1>2. ASSUME a \in DOMAIN r.response, answer = Recovery(r, a, t, n, Value, d)
      PROVE  IsAnswer(answer, t)
  <2> DEFINE amount == AmountOf(r, a, n, Value)
  <2>1. amount \in 0 .. Value
    BY <1>2, AmountIsOwed
  <2> HIDE DEF amount
  <2>2. /\ answer.kind \in {"RECOVERED", "PARTIALLY_RECOVERED"} /\ answer.adapter = "SUCCESS"
        /\ answer.class \in {"ATTRIBUTED", "NATURAL"}
        /\ answer.within = IsWithin(r, a, t, d) /\ answer.late = ~IsWithin(r, a, t, d)
        /\ answer.at = RecoversAt(r, a, d)
        /\ answer.amount = IF IsWithin(r, a, t, d) THEN amount ELSE 0
    BY <1>2 DEF Recovery, ClassOfRecovery, amount
  <2>3. IsWithin(r, a, t, d) => answer.at <= t + Horizon
    BY <2>2 DEF IsWithin
  <2>4. answer.amount \in 0 .. Value
    BY <2>1, <2>2
  <2>5. answer.amount > 0 => IsWithin(r, a, t, d)
    BY <2>2
  <2> QED BY <2>2, <2>3, <2>4, <2>5 DEF IsAnswer
<1>3. ASSUME \/ answer = Outcome("ACTION_FAILED", "AMBIGUOUS", "FAILED_TERMINAL")
             \/ answer = Outcome("ACTION_FAILED", "AMBIGUOUS", "TIMEOUT_UNKNOWN")
             \/ answer = Outcome("NOT_RECOVERED", "ATTRIBUTED", "FAILED_TERMINAL")
      PROVE  IsAnswer(answer, t)
  BY <1>3 DEF Outcome, IsAnswer
<1>4. IsAnswer(answer, t)
  BY <1>1, <1>2, <1>3
<1> QED BY <1>4 DEF answer

\* The states that a call reports agree with its measurement.
ReportAgrees(gross, r) ==
  LET reached == r.states.opportunity[Len(r.states.opportunity)]
  IN  /\ IsLegal(OpportunityMachine, r.states.opportunity)
      /\ IsLegal(InterventionMachine, r.states.intervention)
      /\ IF r.stage \notin Performed
         THEN r.states.intervention = <<"INTENDED">> /\ r.states.payment = "none"
         ELSE /\ reached \notin {"AUTHORISED", "ACTING"}
              /\ reached = "RECOVERED" <=> gross > 0
              /\ reached = "RECONCILING" <=> r.stage = "unknown"
              /\ r.states.payment = "payment_success" => gross > 0
              /\ r.states.response = "delivered" <=> r.stage = "succeeded"

\* The measurement m adds up and says what the result r says.
IsBalanced(m, r) ==
  /\ m.split.gross \in 0 .. Value /\ m.split.attributed \in 0 .. Value /\ m.cost \in Nat
  /\ m.split.gross = m.split.attributed + m.split.natural + m.split.ambiguous
  /\ m.net = m.split.attributed - m.cost
  /\ m.remaining = IF r.stage = "none" THEN 0 ELSE Value - m.split.gross
  /\ m.cost # 0 => r.stage \in Performed
  /\ m.split.gross # 0 => r.stage = "succeeded" /\ r.realized.at <= r.time + Horizon
  /\ ReportAgrees(m.split.gross, r)

BooksInv == \A k \in Key : IsBalanced(book[k], result[k])

LEMMA BalancedEntries ==
  ASSUME BooksInv, NEW k \in Key
  PROVE  /\ EntryBalances(k)
         /\ book[k].split.gross \in 0 .. Value /\ book[k].split.attributed \in 0 .. Value
         /\ book[k].cost \in Nat /\ book[k].net = book[k].split.attributed - book[k].cost
<1>1. IsBalanced(book[k], result[k])
  BY DEF BooksInv
<1>2. StatesAgree(k)
  BY <1>1 DEF IsBalanced, ReportAgrees, StatesAgree, StageOf, Counted
<1> QED BY <1>1, <1>2 DEF IsBalanced, EntryBalances, StageOf

\* What is not performed reports states that no call was made for.
LEMMA IntendedAgrees ==
  ASSUME NEW r, r.stage \notin Performed, NEW w \in {<<>>, <<"AUTHORISED">>}, r.states = Intended(w)
  PROVE  ReportAgrees(0, r)
<1>1. r.states.opportunity = w /\ r.states.intervention = <<"INTENDED">> /\ r.states.payment = "none"
  BY DEF Intended, Reported
<1>2. IsLegal(OpportunityMachine, w)
  <2>1. CASE w = <<>>
    BY <2>1 DEF IsLegal
  <2>2. CASE w = <<"AUTHORISED">>
    BY <2>2 DEF IsLegal
  <2> QED BY <2>1, <2>2
<1>3. IsLegal(InterventionMachine, <<"INTENDED">>)
  BY DEF IsLegal
<1> QED BY <1>1, <1>2, <1>3 DEF ReportAgrees

LEMMA UnperformedIsBalanced ==
  ASSUME NEW s \in {"scheduled", "cancelled"}, NEW a \in Action, NEW t \in Nat, NEW noAction
  PROVE  IsBalanced(Measure(Unperformed(s, a, t), FALSE, Value, noAction), Unperformed(s, a, t))
<1> DEFINE r == Unperformed(s, a, t)
           m == Measure(r, FALSE, Value, noAction)
<1>1. /\ r.stage = s /\ r.cost = 0
      /\ r.states = Intended(IF s = "scheduled" THEN <<"AUTHORISED">> ELSE <<>>)
  BY DEF Unperformed, NoResult
<1>2. SplitRecovery(r, FALSE) = EmptySplit
  BY <1>1 DEF SplitRecovery
<1> HIDE DEF r
<1>3. m.split = EmptySplit /\ m.cost = r.cost /\ m.net = EmptySplit.attributed - r.cost
      /\ m.remaining = AtLeastZero(Value - EmptySplit.gross)
  BY <1>2, MeasureIs
<1> HIDE DEF m
<1>4. /\ m.split.gross = 0 /\ m.split.attributed = 0 /\ m.split.natural = 0
      /\ m.split.ambiguous = 0 /\ m.cost = 0 /\ m.net = 0 /\ m.remaining = Value
  BY <1>1, <1>3 DEF EmptySplit, Split, AtLeastZero
<1>5. r.stage \notin Performed
  BY <1>1 DEF Performed
<1>6. ReportAgrees(0, r)
  BY <1>1, <1>5, IntendedAgrees
<1>7. IsBalanced(m, r)
  BY <1>1, <1>3, <1>4, <1>6 DEF IsBalanced
<1> QED BY <1>7 DEF m, r

LEMMA PerformedIsBalanced ==
  ASSUME NEW q, IsRow(q), NEW a \in Action, NEW t \in Nat, NEW n \in Nat, NEW d \in BOOLEAN,
         NEW noAction, NEW answer, answer = Resolve(q, a, t, n, Value, d),
         NEW r, r = [stage |-> StageFor(answer.adapter), action |-> a, time |-> t,
                     realized |-> answer, cost |-> RealizedCost(a, answer.adapter),
                     states |-> StatesAfter(a, answer)]
  PROVE  IsBalanced(Measure(r, FALSE, Value, noAction), r)
<1>1. IsAnswer(answer, t)
  BY AnswersAreAnswers
<1>2. r.cost \in Nat
  <2>1. Cost[a] \in Nat /\ Incentive[a] \in Nat
    OBVIOUS
  <2>2. Cost[a] - Incentive[a] \in Int
    BY <2>1
  <2>3. AtLeastZero(Cost[a] - Incentive[a]) \in Nat
    BY <2>2 DEF AtLeastZero
  <2> QED BY <2>1, <2>3 DEF RealizedCost
<1>3. /\ r.stage \in Performed /\ r.stage \notin {"cancelled", "scheduled", "none"}
      /\ r.stage = "succeeded" <=> answer.adapter = "SUCCESS"
      /\ r.stage = "unknown" <=> answer.adapter = "TIMEOUT_UNKNOWN"
  BY <1>1 DEF IsAnswer, StageFor, Performed
<1>4. r.realized = answer /\ r.time = t /\ answer # NoOutcome
  <2>1. answer.kind # "none" /\ NoOutcome.kind = "none"
    BY <1>1 DEF IsAnswer, NoOutcome
  <2> QED BY <2>1
<1> DEFINE split == SplitRecovery(r, FALSE)
<1>5. split = IF answer.amount > 0 THEN Split(answer.amount, answer.class) ELSE EmptySplit
  BY <1>1, <1>3, <1>4 DEF IsAnswer, SplitRecovery
<1> HIDE DEF split
<1>6. /\ split.gross = answer.amount /\ split.gross \in 0 .. Value
      /\ split.attributed \in 0 .. Value
      /\ split.gross = split.attributed + split.natural + split.ambiguous
  <2>1. CASE answer.amount > 0
    BY <1>1, <1>5, <2>1 DEF IsAnswer, Split
  <2>2. CASE answer.amount = 0
    BY <1>5, <2>2 DEF EmptySplit, Split
  <2> QED BY <1>1, <2>1, <2>2 DEF IsAnswer
<1> DEFINE m == Measure(r, FALSE, Value, noAction)
<1>7. /\ m.split = split /\ m.cost = r.cost /\ m.net = split.attributed - r.cost
      /\ m.remaining = AtLeastZero(Value - split.gross)
  BY DEF Measure, split
<1> HIDE DEF m
<1>8. m.remaining = Value - split.gross
  BY <1>6, <1>7 DEF AtLeastZero
<1>9. ReportAgrees(answer.amount, r)
  <2>1. /\ r.states.opportunity = OpportunityWalk(answer)
        /\ r.states.intervention = InterventionWalk(answer)
        /\ r.states.payment = PaymentStateFor(a \in Charging, answer)
        /\ r.states.response = CustomerResponseFor(answer.adapter)
    BY DEF StatesAfter, Reported
  <2>2. IsLegal(OpportunityMachine, OpportunityWalk(answer)) /\ IsLegal(InterventionMachine, InterventionWalk(answer))
    BY WalksAreLegal
  <2>3. IsRecovery(answer) <=> answer.amount > 0
    BY <1>1 DEF IsAnswer, IsRecovery
  <2>4. answer.adapter = "TIMEOUT_UNKNOWN" => ~(answer.amount > 0)
    BY <1>1 DEF IsAnswer
  <2> DEFINE walk    == OpportunityWalk(answer)
             reached == walk[Len(walk)]
  <2>5. reached = IF answer.adapter = "TIMEOUT_UNKNOWN" THEN "RECONCILING"
                  ELSE IF answer.amount > 0 THEN "RECOVERED"
                  ELSE IF answer.kind = "NOT_RECOVERED" THEN "PRICED"
                  ELSE "AWAITING_OUTCOME"
    <3>1. CASE answer.adapter = "TIMEOUT_UNKNOWN"
      <4>1. walk = <<"AUTHORISED", "ACTING", "RECONCILING">>
        BY <3>1, WalkOfOpportunity
      <4> HIDE DEF walk
      <4> QED BY <3>1, <4>1
    <3>2. CASE answer.adapter # "TIMEOUT_UNKNOWN" /\ answer.amount > 0
      <4>1. walk = <<"AUTHORISED", "ACTING", "AWAITING_OUTCOME", "RECOVERED">>
        BY <2>3, <3>2, WalkOfOpportunity
      <4> HIDE DEF walk
      <4> QED BY <3>2, <4>1
    <3>3. CASE /\ answer.adapter # "TIMEOUT_UNKNOWN" /\ ~(answer.amount > 0)
               /\ answer.kind = "NOT_RECOVERED"
      <4>1. walk = <<"AUTHORISED", "ACTING", "AWAITING_OUTCOME", "PRICED">>
        BY <2>3, <3>3, WalkOfOpportunity
      <4> HIDE DEF walk
      <4> QED BY <3>3, <4>1
    <3>4. CASE /\ answer.adapter # "TIMEOUT_UNKNOWN" /\ ~(answer.amount > 0)
               /\ answer.kind # "NOT_RECOVERED"
      <4>1. walk = <<"AUTHORISED", "ACTING", "AWAITING_OUTCOME">>
        BY <2>3, <3>4, WalkOfOpportunity
      <4> HIDE DEF walk
      <4> QED BY <3>4, <4>1
    <3> QED BY <3>1, <3>2, <3>3, <3>4
  <2> HIDE DEF reached
  <2>6. /\ reached \notin {"AUTHORISED", "ACTING"}
        /\ reached = "RECOVERED" <=> answer.amount > 0
        /\ reached = "RECONCILING" <=> r.stage = "unknown"
    BY <1>3, <2>4, <2>5
  <2>7. r.states.payment = "payment_success" => answer.amount > 0
    BY <2>1 DEF PaymentStateFor
  <2>8. r.states.response = "delivered" <=> r.stage = "succeeded"
    BY <1>1, <1>3, <2>1 DEF IsAnswer, CustomerResponseFor
  <2> QED BY <1>3, <2>1, <2>2, <2>6, <2>7, <2>8 DEF ReportAgrees, reached
<1>10. split.gross # 0 => r.stage = "succeeded" /\ r.realized.at <= r.time + Horizon
  BY <1>1, <1>3, <1>4, <1>6 DEF IsAnswer
<1>11. IsBalanced(m, r)
  BY <1>2, <1>3, <1>6, <1>7, <1>8, <1>9, <1>10 DEF IsBalanced
<1> QED BY <1>11 DEF m

\* A decision is written by a call to the engine, made or not made.
Calls(k) ==
  \E a \in Action, t \in Nat :
    \/ Perform(k, a, t)
    \/ \E s \in {"scheduled", "cancelled"} : Record(k, Unperformed(s, a, t))

LEMMA StepIsACall ==
  ASSUME CycleInv, [RunNext]_runVars
  PROVE  UNCHANGED storeVars \/ \E k \in Key : Calls(k)
<1>1. ASSUME NEW o \in Opportunity, Pursue(o) \/ PursueDecision(o)
      PROVE  UNCHANGED storeVars \/ \E k \in Key : Calls(k)
  <2>1. phase = "acting" /\ plan[o] \in Action /\ now \in Nat /\ TimeOf(cycle) \in Nat
    BY <1>1 DEF Pursue, PursueDecision, CycleInv, TypeOK, Plan, RetryTypeOK, TimeOf
  <2>2. PICK k \in Key : k = Current(o)
    BY <1>1, <2>1, CurrentIsKey DEF Pursue, PursueDecision
  <2>3. CASE Pursue(o)
    <3>1. \/ UNCHANGED storeVars
          \/ plan[o] = "later" /\ Record(k, Unperformed("scheduled", "later", now))
          \/ Perform(k, plan[o], now)
      BY <2>2, <2>3 DEF Pursue, Blocked, Postpone, Act
    <3> QED BY <2>1, <2>2, <3>1 DEF Calls
  <2>4. CASE PursueDecision(o)
    <3>1. \/ UNCHANGED storeVars
          \/ Record(k, Unperformed("cancelled", plan[o], TimeOf(cycle)))
          \/ plan[o] = "later" /\ Record(k, Unperformed("scheduled", "later", TimeOf(cycle)))
          \/ Perform(k, plan[o], TimeOf(cycle))
      BY <2>2, <2>4 DEF PursueDecision, Dropped, Execute, Reject, Schedule
    <3> QED BY <2>1, <2>2, <3>1 DEF Calls
  <2> QED BY <1>1, <2>3, <2>4
<1>2. ASSUME Settle
      PROVE  \E k \in Key : Calls(k)
  <2>1. PICK k \in due : SettleRetry(k)
    BY <1>2 DEF Settle
  <2>2. k \in Key /\ "later" \in Action /\ now \in Nat
    BY DueWaits DEF CycleInv, TypeOK, RetryTypeOK
  <2>3. Record(k, Unperformed("cancelled", "later", now)) \/ Perform(k, "later", now)
    BY <2>1 DEF SettleRetry
  <2> QED BY <2>2, <2>3 DEF Calls
<1>3. CASE \/ BeginDeciding \/ DecideCycle \/ Finish \/ EndCycle
           \/ BeginCycle \/ DetectAndPlan \/ CloseSession \/ Done
  BY <1>3 DEF BeginDeciding, DecideCycle, Finish, EndCycle, BeginCycle, DetectAndPlan,
              CloseSession, Done
<1>4. CASE UNCHANGED runVars
  BY <1>4 DEF runVars, vars, worldVars
<1> QED BY <1>1, <1>2, <1>3, <1>4 DEF RunNext, BaselineNext, Next

LEMMA BooksStep ==
  ASSUME CycleInv, [RunNext]_runVars, BooksInv
  PROVE  BooksInv'
<1>1. CASE UNCHANGED storeVars
  BY <1>1 DEF storeVars, BooksInv
<1>2. ASSUME NEW k \in Key, Calls(k)
      PROVE  BooksInv'
  <2>1. PICK a \in Action, t \in Nat :
          \/ Perform(k, a, t)
          \/ \E s \in {"scheduled", "cancelled"} : Record(k, Unperformed(s, a, t))
    BY <1>2 DEF Calls
  <2>2. ASSUME NEW r, Record(k, r), r.stage \in Stage, r.action = a, r.time = t,
               \A noAction : IsBalanced(Measure(r, FALSE, Value, noAction), r)
        PROVE  BooksInv'
    <3>1. /\ result'[k] = r
          /\ book'[k] = Measure(r, FALSE, Value, LeftAlone(row[k[1]], r.time, Value))
          /\ \A j \in Key \ {k} : result'[j] = result[j] /\ book'[j] = book[j]
      BY <2>2, RecordLeaves DEF CycleInv, TypeOK
    <3>2. IsBalanced(book'[k], result'[k])
      BY <2>2, <3>1
    <3> QED BY <3>1, <3>2 DEF BooksInv
  <2>3. ASSUME NEW s \in {"scheduled", "cancelled"}, Record(k, Unperformed(s, a, t))
        PROVE  BooksInv'
    <3>1. PICK r : r = Unperformed(s, a, t)
      OBVIOUS
    <3>2. r.stage = s /\ r.action = a /\ r.time = t /\ s \in Stage
      BY <3>1 DEF Unperformed, NoResult, Stage
    <3>3. \A noAction : IsBalanced(Measure(r, FALSE, Value, noAction), r)
      BY <3>1, UnperformedIsBalanced
    <3> QED BY <2>2, <2>3, <3>1, <3>2, <3>3
  <2>4. ASSUME Perform(k, a, t)
        PROVE  BooksInv'
    <3>1. PICK q : q = row[k[1]]
      OBVIOUS
    <3>2. PICK n : n = counts'[CustomerOf[k[1]]]
      OBVIOUS
    <3>3. PICK d \in BOOLEAN :
            LET outcome == Resolve(q, a, t, n, Value, d)
            IN  Record(k, [stage |-> StageFor(outcome.adapter), action |-> a, time |-> t,
                           realized |-> outcome, cost |-> RealizedCost(a, outcome.adapter),
                           states |-> StatesAfter(a, outcome)])
      BY <2>4, <3>1, <3>2 DEF Perform
    <3>4. PICK answer : answer = Resolve(q, a, t, n, Value, d)
      OBVIOUS
    <3>5. PICK r : r = [stage |-> StageFor(answer.adapter), action |-> a, time |-> t,
                        realized |-> answer, cost |-> RealizedCost(a, answer.adapter),
                        states |-> StatesAfter(a, answer)]
      OBVIOUS
    <3>6. Record(k, r)
      BY <3>3, <3>4, <3>5
    <3>7. IsRow(q) /\ n \in Nat
      <4>1. k[1] \in Opportunity
        BY KeysAreDecisions
      <4>2. counts' \in [Customer -> Nat]
        BY <2>4, PerformLeaves DEF CycleInv, TypeOK, StoreTypeOK
      <4> QED BY <3>1, <3>2, <4>1, <4>2, RowsAreRows DEF CycleInv, TypeOK
    <3>8. answer.adapter \in {"SUCCESS", "FAILED_TERMINAL", "TIMEOUT_UNKNOWN"}
      BY <3>4, AnswersAreOfThree
    <3>9. r.stage \in Stage /\ r.action = a /\ r.time = t
      BY <3>5, <3>8 DEF StageFor, Stage, Performed
    <3>10. \A noAction : IsBalanced(Measure(r, FALSE, Value, noAction), r)
      BY <3>4, <3>5, <3>7, PerformedIsBalanced
    <3> QED BY <2>2, <3>6, <3>9, <3>10
  <2> QED BY <2>1, <2>3, <2>4
<1> QED BY <1>1, <1>2, StepIsACall

(* BooksBalance: each measurement adds up and agrees with the result it    *)
(* measures, and the sums of the run do too, for any row the generator     *)
(* draws, any value and any costs.                                         *)
THEOREM BooksAreBalanced == RunSpec => []BooksBalance
<1>1. RunInit => BooksInv
  <2> SUFFICES ASSUME RunInit, NEW k \in Key
               PROVE  IsBalanced(book[k], result[k])
    BY DEF BooksInv
  <2>1. result[k] = NoResult /\ book[k] = Unmeasured
    BY DEF RunInit, Init, WorldInit
  <2>2. NoResult.stage = "none" /\ NoResult.states = Intended(<<>>) /\ "none" \notin Performed
    BY DEF NoResult, Performed
  <2>3. ReportAgrees(0, NoResult)
    BY <2>2, IntendedAgrees
  <2> QED BY <2>1, <2>2, <2>3 DEF IsBalanced, Unmeasured, EmptySplit, Split
<1>2. CycleInv /\ BooksInv /\ [RunNext]_runVars => BooksInv'
  BY BooksStep
<1>3. BooksInv => BooksBalance
  <2> SUFFICES ASSUME BooksInv
               PROVE  BooksBalance
    OBVIOUS
  <2>1. Measured \in SUBSET Key /\ IsFiniteSet(Key)
    BY KeysAreDecisions DEF Measured
  <2> DEFINE gross      == [k \in Key |-> book[k].split.gross]
             attributed == [k \in Key |-> book[k].split.attributed]
             cost       == [k \in Key |-> book[k].cost]
             net        == [k \in Key |-> book[k].net]
  <2>2. gross \in [Key -> Int] /\ \A k \in Measured : gross[k] <= Value
    BY <2>1, BalancedEntries
  <2>3. /\ attributed \in [Key -> Int] /\ cost \in [Key -> Int] /\ net \in [Key -> Int]
        /\ \A k \in Measured : net[k] = attributed[k] - cost[k]
    BY <2>1, BalancedEntries
  <2>4. /\ Totals.gross = SumOver(gross, Measured) /\ Totals.net = SumOver(net, Measured)
        /\ Totals.attributed = SumOver(attributed, Measured)
        /\ Totals.cost = SumOver(cost, Measured)
        /\ Totals.atRisk = Value * Cardinality(Measured)
    BY DEF Totals, SumOver
  <2> HIDE DEF gross, attributed, cost, net
  <2>5. SumOver(gross, Measured) <= Value * Cardinality(Measured)
    BY <2>1, <2>2, SumIsBounded
  <2>6. SumOver(net, Measured) = SumOver(attributed, Measured) - SumOver(cost, Measured)
    BY <2>1, <2>3, SumOfDifferences
  <2>7. \A k \in Key : EntryBalances(k)
    BY BalancedEntries
  <2> QED BY <2>4, <2>5, <2>6, <2>7 DEF BooksBalance
<1> QED BY CycleInvariant, <1>1, <1>2, <1>3, PTL DEF RunSpec
=============================================================================
