--------------------------- MODULE CyclePathProofs ---------------------------
(***************************************************************************)
(* Proofs about the decision path and the cycles that lead to it, for      *)
(* every set of opportunities, contexts of any size, and every set of      *)
(* worlds.                                                                 *)
(*                                                                         *)
(* First the path: what the verdict of the gates depends on, and the       *)
(* invariants of DecisionPath.  Then what a cycle makes of a world: what   *)
(* is known of an order after some attempts; the loss that each draft is   *)
(* of, and the row that each loss has; the sums and the cache over the     *)
(* rows; that what lies ahead is read by nobody; and the type of what is   *)
(* assembled.  Last the invariant of a cycle and the theorems about it.    *)
(***************************************************************************)
EXTENDS CyclePath, Sums, FiniteSetTheorems, TLAPS

\* What makes a gate other than G7 deny, and what makes one defer.
Denied(a, c) ==
  \/ a \in ContactActions
       /\ c \cap {"OPTED_OUT", "NO_CONSENT", "CONTACTS_TODAY_AT_CAP", "CHANNEL_DEGRADED"} # {}
  \/ a \in RetryActions /\ c \cap {"RETRIES_AT_CAP", "AMOUNT_MISMATCH"} # {}
  \/ a \in IncentiveActions /\ c \cap {"INCENTIVE_OVER_MAX"} # {}
  \/ c \cap {"RISK_FLAG", "KEY_CLAIMED", "DUPLICATE_RECENT", "ABSURD_VALUE", "NEGATIVE_ENRV"} # {}

Deferred(a, c) ==
  \/ a \in ContactActions /\ c \cap {"OUTSIDE_HOURS", "NO_MESSAGES"} # {}
  \/ a \in RetryActions /\ c \cap {"NO_RETRY_SLOTS"} # {}
  \/ a \in IncentiveActions /\ c \cap {"NO_INCENTIVE_BUDGET"} # {}

\* The verdicts of the twelve gates are those of G7, a denial and a deferral.
LEMMA VerdictsOfGates ==
  ASSUME NEW a, NEW c, NEW p
  PROVE  GateVerdicts(a, c, p) =
           VerdictIf(Denied(a, c), "DENY") \cup VerdictIf(Deferred(a, c), "DEFER")
             \cup ApprovalVerdict(a, c, p)
BY DEF GateVerdicts, VerdictIf, Denied, Deferred

LEMMA ApprovalVerdictIs ==
  ASSUME NEW a, NEW c, NEW p
  PROVE  /\ ApprovalVerdict(a, c, p) = {} <=> ApprovalTriggers(a, c) = {} \/ p = "APPROVED"
         /\ ApprovalVerdict(a, c, p) = {"DENY"} <=> ApprovalTriggers(a, c) # {} /\ p = "REJECTED"
         /\ ApprovalVerdict(a, c, p) \in {{}, {"DENY"}, {"REQUIRE_APPROVAL"}}
BY DEF ApprovalVerdict

\* The gates' part of the answer, case by case.
LEMMA VerdictCases ==
  ASSUME NEW a, NEW c, NEW p
  PROVE  LET worst == WorstVerdict(GateVerdicts(a, c, p))
         IN  /\ worst \in {"DENY", "REQUIRE_APPROVAL", "DEFER", "ALLOW"}
             /\ worst = "DENY" <=> Denied(a, c) \/ ApprovalVerdict(a, c, p) = {"DENY"}
             /\ worst = "REQUIRE_APPROVAL" <=>
                  ~Denied(a, c) /\ ApprovalVerdict(a, c, p) = {"REQUIRE_APPROVAL"}
             /\ worst = "DEFER" <=>
                  ~Denied(a, c) /\ Deferred(a, c) /\ ApprovalVerdict(a, c, p) = {}
             /\ worst = "ALLOW" <=>
                  ~Denied(a, c) /\ ~Deferred(a, c) /\ ApprovalVerdict(a, c, p) = {}
<1> DEFINE verdicts == GateVerdicts(a, c, p)
<1>1. verdicts = VerdictIf(Denied(a, c), "DENY") \cup VerdictIf(Deferred(a, c), "DEFER")
                   \cup ApprovalVerdict(a, c, p)
  BY VerdictsOfGates
<1>2. CASE ApprovalVerdict(a, c, p) = {}
  <2>1. verdicts = VerdictIf(Denied(a, c), "DENY") \cup VerdictIf(Deferred(a, c), "DEFER")
    BY <1>1, <1>2
  <2>2. /\ "DENY" \in verdicts <=> Denied(a, c)
        /\ "REQUIRE_APPROVAL" \notin verdicts
        /\ verdicts = {"DEFER"} <=> ~Denied(a, c) /\ Deferred(a, c)
        /\ verdicts = {} <=> ~Denied(a, c) /\ ~Deferred(a, c)
    BY <2>1 DEF VerdictIf
  <2> QED  BY <1>2, <2>2 DEF WorstVerdict
<1>3. CASE ApprovalVerdict(a, c, p) = {"DENY"}
  <2>1. "DENY" \in verdicts
    BY <1>1, <1>3
  <2> QED  BY <1>3, <2>1 DEF WorstVerdict
<1>4. CASE ApprovalVerdict(a, c, p) = {"REQUIRE_APPROVAL"}
  <2>1. /\ "REQUIRE_APPROVAL" \in verdicts
        /\ "DENY" \in verdicts <=> Denied(a, c)
    BY <1>1, <1>4 DEF VerdictIf
  <2> QED  BY <1>4, <2>1 DEF WorstVerdict
<1> QED  BY <1>2, <1>3, <1>4, ApprovalVerdictIs

-----------------------------------------------------------------------------
(* The answer of authorize_execution.                                      *)

\* What ends the review before the gates are asked.
Barred(a, c) == a = "A00" \/ c \cap (DecisionConditions \cup StoppingConditions) # {}

LEMMA AnswerTyped ==
  ASSUME NEW a, NEW c, NEW p
  PROVE  Reviewed(a, c, p) \in AuthorizationState
BY VerdictCases DEF Reviewed, StateOfVerdict, AuthorizationState

LEMMA AnswerOfGates ==
  ASSUME NEW a, NEW c, NEW p, ~Barred(a, c)
  PROVE  Reviewed(a, c, p) = StateOfVerdict[WorstVerdict(GateVerdicts(a, c, p))]
BY DEF Reviewed, Barred, DecisionConditions, StoppingConditions

LEMMA BarredIsNotAuthorized ==
  ASSUME NEW a, NEW c, NEW p, Barred(a, c)
  PROVE  Reviewed(a, c, p) \notin {"AUTHORIZED", "REQUIRES_HUMAN_APPROVAL"}
BY DEF Reviewed, Barred, DecisionConditions, StoppingConditions

LEMMA AuthorizedMeans ==
  ASSUME NEW a, NEW c, NEW p
  PROVE  Reviewed(a, c, p) = "AUTHORIZED" <=>
           /\ ~Barred(a, c)
           /\ ~Denied(a, c)
           /\ ~Deferred(a, c)
           /\ ApprovalTriggers(a, c) = {} \/ p = "APPROVED"
<1>1. CASE Barred(a, c)
  BY <1>1, BarredIsNotAuthorized
<1>2. CASE ~Barred(a, c)
  BY <1>2, AnswerOfGates, VerdictCases, ApprovalVerdictIs DEF StateOfVerdict
<1> QED  BY <1>1, <1>2

\* A context in which more conditions hold never turns a refusal into an
\* authorization, whatever the approval: a caller that leaves something out of
\* the context can only be authorized too easily, one that adds something
\* never is.
THEOREM WorseContextNeverHelps ==
  ASSUME NEW a, NEW c, NEW d, NEW p, c \subseteq d, Reviewed(a, d, p) = "AUTHORIZED"
  PROVE  Reviewed(a, c, p) = "AUTHORIZED"
<1>1. /\ ~Barred(a, d)
      /\ ~Denied(a, d)
      /\ ~Deferred(a, d)
      /\ ApprovalTriggers(a, d) = {} \/ p = "APPROVED"
  BY AuthorizedMeans
<1>2. ~Barred(a, c)
  BY <1>1 DEF Barred
<1>3. ~Denied(a, c)
  BY <1>1 DEF Denied
<1>4. ~Deferred(a, c)
  BY <1>1 DEF Deferred
<1>5. ApprovalTriggers(a, c) \subseteq ApprovalTriggers(a, d)
  BY DEF ApprovalTriggers
<1> QED  BY <1>1, <1>2, <1>3, <1>4, <1>5, AuthorizedMeans

\* What is left for approval is denied by no gate, so approval settles it.
LEMMA ApprovalSettles ==
  ASSUME NEW a, NEW c, NEW p, Reviewed(a, c, p) = "REQUIRES_HUMAN_APPROVAL"
  PROVE  Reviewed(a, c, "APPROVED") \in {"AUTHORIZED", "REPLAN_REQUIRED"}
<1>1. ~Barred(a, c)
  BY BarredIsNotAuthorized
<1>2. ~Denied(a, c)
  BY <1>1, AnswerOfGates, VerdictCases DEF StateOfVerdict
<1>3. ApprovalVerdict(a, c, "APPROVED") = {}
  BY ApprovalVerdictIs
<1>4. WorstVerdict(GateVerdicts(a, c, "APPROVED")) \in {"DEFER", "ALLOW"}
  BY <1>2, <1>3, VerdictCases
<1> QED  BY <1>1, <1>4, AnswerOfGates DEF StateOfVerdict

\* The actions the candidate generator enumerates for a class, all its
\* additions included, are compatible with it by the feasibility test's own
\* table of the classes: no candidate is enumerated in vain.
THEOREM ClassTablesAgree ==
  ASSUME NEW o, IsOpportunity(o), NEW a \in Enumerated(o)
  PROVE  Compatible(o, a)
<1>1. a \in ClassActions[o.class] \cup {"A00", "A10", "A11", "A13"}
  BY DEF Enumerated
<1>2. \A r \in RiskClass :
        ClassActions[r] \subseteq CompatibleActions[r] \cup Message \cup Human \cup Incentive
  BY DEF RiskClass, ClassActions, CompatibleActions, Message, Human, Incentive
<1> QED  BY <1>1, <1>2 DEF Compatible, IsOpportunity, Incentive, Human

-----------------------------------------------------------------------------
(* Type correctness.                                                       *)

LEMMA ConditionsTyped ==
  ASSUME NEW o, NEW e
  PROVE  ValueConditions(o) \cup EnrvConditions(e) \subseteq Derived /\ Derived \subseteq Condition
BY DEF ValueConditions, EnrvConditions, Derived, Condition, GateConditions, StoppingConditions

LEMMA EnumeratedTyped ==
  ASSUME NEW o, IsOpportunity(o)
  PROVE  Enumerated(o) \subseteq Action
<1>1. \A r \in RiskClass : ClassActions[r] \subseteq Action
  BY DEF RiskClass, ClassActions, Action
<1> QED  BY <1>1 DEF Enumerated, IsOpportunity, Action

\* A12, a contact for the gates and no message of the catalogue, is never
\* enumerated.
LEMMA ContactsAreMessages ==
  ASSUME NEW o, IsOpportunity(o), NEW a \in Enumerated(o) \cap ContactActions
  PROVE  a \in Message
<1>1. \A r \in RiskClass : "A12" \notin ClassActions[r]
  BY DEF RiskClass, ClassActions
<1>2. a # "A12"
  BY <1>1 DEF Enumerated, IsOpportunity
<1> QED  BY <1>2 DEF ContactActions, Message

LEMMA ApprovalsTyped ==
  ASSUME NEW a, NEW c
  PROVE  SimulatedApproval(a, c) \subseteq ApprovalState
BY DEF SimulatedApproval, ApprovalState

\* A caller decides on what it was given: its contexts are those of it.
Typed == TypeOK /\ (by = "CALLER" => opp \in Opportunities)

LEMMA TypedAtFirst == Init => Typed
BY PathAssumption DEF Init, Typed, TypeOK, Stage, Action, Enrv, ApprovalState

LEMMA StepKeepsTypes ==
  ASSUME Typed, [Next]_vars
  PROVE  Typed'
<1> USE DEF Typed, TypeOK
<1>1. CASE Allocate
  BY <1>1, EnumeratedTyped DEF Allocate, Offered, Stage, Enrv
<1>2. CASE FollowBaseline
  BY <1>2, EnumeratedTyped DEF FollowBaseline, Stage
<1>3. CASE LeaveAlone
  BY <1>3 DEF LeaveAlone, Stage
<1>4. CASE ReviewInCycle
  <2>1. PICK c \in PipelineContexts : context' = c /\ approval' \in SimulatedApproval(action, c)
    BY <1>4 DEF ReviewInCycle
  <2>2. context' \subseteq Condition
    BY <2>1, ConditionsTyped DEF PipelineContexts, Condition, StoppingConditions
  <2> QED  BY <1>4, <2>1, <2>2, ApprovalsTyped DEF ReviewInCycle, Stage
<1>5. CASE Submit
  <2>1. PICK c \in CallerContexts(opp) :
          context' = c \cup ValueConditions(opp) \cup EnrvConditions(enrv)
    BY <1>5 DEF Submit
  <2>2. context' \subseteq Condition
    BY <1>5, <2>1, ConditionsTyped, PathAssumption DEF Submit
  <2> QED  BY <1>5, <2>2 DEF Submit, Stage
<1>6. CASE Authorize
  BY <1>6, AnswerTyped DEF Authorize, Stage
<1>7. CASE Resubmit
  BY <1>7 DEF Resubmit, Stage, ApprovalState
<1>8. CASE UNCHANGED vars
  BY <1>8 DEF vars
<1> QED  BY <1>1, <1>2, <1>3, <1>4, <1>5, <1>6, <1>7, <1>8 DEF Next

\* Every variable keeps its type, through every path a decision can take.
THEOREM TypeCorrect == Spec => []TypeOK
<1>1. Typed => TypeOK
  BY DEF Typed
<1> QED  BY <1>1, TypedAtFirst, StepKeepsTypes, PTL DEF Spec

-----------------------------------------------------------------------------
(* Where a decision stands on its path.                                    *)

AnswerIsOfReview == stage = "answered" => answer = Reviewed(action, context, approval)

CycleReviews ==
  by # "CALLER" /\ stage \in {"reviewed", "answered"} =>
    /\ approval \in SimulatedApproval(action, context)
    /\ context \subseteq Derived \cup {"WINDOW_EXPIRED"}

CycleSelects ==
  by = "REVIVE" /\ stage \in {"selected", "reviewed", "answered"} =>
    action \in Offered(opp) \ {"A00"}

AnsweredOnce == by # "CALLER" /\ stage # "answered" => answer = "NONE"

ApprovalWillSettle ==
  asked => /\ stage \in {"reviewed", "answered"}
           /\ Reviewed(action, context, "APPROVED") \in {"AUTHORIZED", "REPLAN_REQUIRED"}

PathInv ==
  /\ AnswerIsOfReview
  /\ CycleReviews
  /\ CycleSelects
  /\ AnsweredOnce
  /\ ApprovalWillSettle

LEMMA PathAtFirst == Init => PathInv
BY DEF Init, PathInv, AnswerIsOfReview, CycleReviews, CycleSelects, AnsweredOnce,
       ApprovalWillSettle

LEMMA StepKeepsPath ==
  ASSUME PathInv, [Next]_vars
  PROVE  PathInv'
<1> USE DEF PathInv, AnswerIsOfReview, CycleReviews, CycleSelects, AnsweredOnce, ApprovalWillSettle
<1>1. CASE Allocate
  BY <1>1 DEF Allocate
<1>2. CASE FollowBaseline
  BY <1>2 DEF FollowBaseline
<1>3. CASE LeaveAlone
  BY <1>3 DEF LeaveAlone
<1>4. CASE ReviewInCycle
  <2>1. PICK c \in PipelineContexts : context' = c /\ approval' \in SimulatedApproval(action, c)
    BY <1>4 DEF ReviewInCycle
  <2>2. context' \subseteq Derived \cup {"WINDOW_EXPIRED"}
    BY <2>1, ConditionsTyped DEF PipelineContexts
  <2> QED  BY <1>4, <2>1, <2>2 DEF ReviewInCycle
<1>5. CASE Submit
  BY <1>5 DEF Submit
<1>6. CASE Authorize
  BY <1>6 DEF Authorize
<1>7. CASE Resubmit
  <2>1. Reviewed(action, context, "APPROVED") \in {"AUTHORIZED", "REPLAN_REQUIRED"}
    BY <1>7, ApprovalSettles DEF Resubmit
  <2> QED  BY <1>7, <2>1 DEF Resubmit
<1>8. CASE UNCHANGED vars
  BY <1>8 DEF vars
<1> QED  BY <1>1, <1>2, <1>3, <1>4, <1>5, <1>6, <1>7, <1>8 DEF Next

LEMMA PathInvariant == Spec => []PathInv
BY PathAtFirst, StepKeepsPath, PTL DEF Spec

LEMMA PathSettles ==
  ASSUME PathInv
  PROVE  CycleLeavesNothingPending
<1> SUFFICES ASSUME stage = "answered", by # "CALLER"
             PROVE  answer \in {"AUTHORIZED", "BLOCKED"}
  BY DEF CycleLeavesNothingPending
<1>1. /\ answer = Reviewed(action, context, approval)
      /\ approval \in SimulatedApproval(action, context)
      /\ context \subseteq Derived \cup {"WINDOW_EXPIRED"}
  BY DEF PathInv, AnswerIsOfReview, CycleReviews
<1>2. context \cap (DecisionConditions \ {"KEY_CLAIMED"}) = {} /\ ~Deferred(action, context)
  BY <1>1 DEF Derived, DecisionConditions, Deferred
<1>3. ApprovalVerdict(action, context, approval) # {"REQUIRE_APPROVAL"}
  BY <1>1, ApprovalVerdictIs DEF SimulatedApproval
<1>4. WorstVerdict(GateVerdicts(action, context, approval)) \in {"ALLOW", "DENY"}
  BY <1>2, <1>3, VerdictCases
<1> QED  BY <1>1, <1>2, <1>4 DEF Reviewed, StateOfVerdict, DecisionConditions

LEMMA PathRespects ==
  ASSUME PathInv, TypeOK
  PROVE  MessagesRespectTheCustomer
<1> SUFFICES ASSUME answer = "AUTHORIZED", by = "REVIVE", action \in ContactActions
             PROVE  opp.signs \cap {"OUTSIDE_HOURS", "CONTACTED_ENOUGH", "NOT_ADDRESSABLE"} = {}
  BY DEF MessagesRespectTheCustomer
<1>1. action \in Offered(opp)
  BY DEF PathInv, AnsweredOnce, CycleSelects
<1>2. action \in Message
  BY <1>1, ContactsAreMessages DEF Offered, TypeOK
<1> QED  BY <1>1, <1>2 DEF Offered, Available, Message

LEMMA PathIsWorthAsking ==
  ASSUME PathInv
  PROVE  ApprovalIsWorthAsking
BY DEF PathInv, ApprovalWillSettle, AnswerIsOfReview, ApprovalIsWorthAsking

\* A decision that a cycle has reviewed is authorized or blocked: the approver
\* answers whatever G7 asks, and nothing in the context the pipelines make
\* lets a gate defer.
THEOREM NothingPending == Spec => []CycleLeavesNothingPending
BY PathInvariant, PathSettles, PTL

\* Every message REVIVE is authorized to send was tested against the hours, the
\* contacts and the addressability of its opportunity when it was a candidate.
THEOREM MessagesRespect == Spec => []MessagesRespectTheCustomer
BY PathInvariant, TypeCorrect, PathRespects, PTL

\* A decision that was left for approval and is approved is not blocked.
THEOREM ApprovalMatters == Spec => []ApprovalIsWorthAsking
BY PathInvariant, PathIsWorthAsking, PTL

-----------------------------------------------------------------------------
(* The fold over the attempts.                                             *)

\* g holds what is known after every part of the attempts f at the places D.
IsKnownTable(f, D, g) ==
  g = [s \in SUBSET D |-> IF s = {} THEN <<>> ELSE Attempted(g[s \ {Max(s)}], f[Max(s)])]

LEMMA KnownDefinition ==
  ASSUME NEW f
  PROVE  Known(f) = (CHOOSE g : IsKnownTable(f, DOMAIN f, g))[DOMAIN f]
BY DEF Known, FoldLeft, MapThenFoldSet, IsKnownTable

LEMMA KnownTableExists ==
  ASSUME NEW f, NEW D \in SUBSET Nat, IsFiniteSet(D)
  PROVE  \E g : IsKnownTable(f, D, g)
<1> DEFINE Upto(n) == {s \in SUBSET D : Cardinality(s) <= n}
           Entry(g, s) == IF s = {} THEN <<>> ELSE Attempted(g[s \ {Max(s)}], f[Max(s)])
           Good == {n \in Nat : \E g : DOMAIN g = Upto(n) /\ \A s \in Upto(n) : g[s] = Entry(g, s)}
<1>1. ASSUME NEW s \in SUBSET D
      PROVE  /\ Cardinality(s) \in Nat
             /\ s = {} <=> Cardinality(s) = 0
             /\ s # {} => Cardinality(s \ {Max(s)}) = Cardinality(s) - 1
  BY FS_Subset, FS_CardinalityType, FS_EmptySet, FS_RemoveElement, GreatestIsIn
<1>2. ASSUME NEW n \in Nat
      PROVE  /\ Upto(n) \subseteq Upto(n + 1)
             /\ \A s \in Upto(n + 1) : s # {} => s \ {Max(s)} \in Upto(n)
             /\ \A s \in Upto(0) : s = {}
  <2>1. ASSUME NEW s \in Upto(n + 1), s # {}
        PROVE  s \ {Max(s)} \in Upto(n)
    <3>1. s \in SUBSET D /\ Cardinality(s) <= n + 1 /\ s \ {Max(s)} \in SUBSET D
      OBVIOUS
    <3>2. Cardinality(s) \in Nat /\ Cardinality(s \ {Max(s)}) = Cardinality(s) - 1
      BY <1>1, <2>1, <3>1
    <3>3. Cardinality(s \ {Max(s)}) <= n
      BY <3>1, <3>2
    <3> QED  BY <3>1, <3>3, Zenon
  <2>2. \A s \in SUBSET D : Cardinality(s) \in Nat /\ (s = {} <=> Cardinality(s) = 0)
    BY <1>1
  <2>3. Upto(n) \subseteq Upto(n + 1) /\ \A s \in Upto(0) : s = {}
    BY <2>2
  <2> QED  BY <2>1, <2>3
<1> HIDE DEF Upto
<1>3. 0 \in Good
  <2> DEFINE g == [s \in Upto(0) |-> <<>>]
  <2>1. DOMAIN g = Upto(0) /\ \A s \in Upto(0) : g[s] = Entry(g, s)
    BY <1>2
  <2> QED  BY <2>1
<1>4. ASSUME NEW n \in Nat, n \in Good
      PROVE  n + 1 \in Good
  <2>1. PICK g : DOMAIN g = Upto(n) /\ \A s \in Upto(n) : g[s] = Entry(g, s)
    BY <1>4
  <2> DEFINE h == [s \in Upto(n + 1) |-> Entry(g, s)]
  <2>2. \A s \in Upto(n) : s \in Upto(n + 1) /\ h[s] = g[s]
    BY <1>2, <2>1
  <2>3. \A s \in Upto(n + 1) : h[s] = Entry(h, s)
    BY <1>2, <2>2
  <2>4. DOMAIN h = Upto(n + 1)
    OBVIOUS
  <2> HIDE DEF h, Entry
  <2> QED  BY <2>3, <2>4
<1> HIDE DEF Good
<1>5. Cardinality(D) \in Good
  BY <1>3, <1>4, NumberInduction, FS_CardinalityType
<1>6. PICK g : /\ DOMAIN g = Upto(Cardinality(D))
               /\ \A s \in Upto(Cardinality(D)) : g[s] = Entry(g, s)
  BY <1>5 DEF Good
<1>7. Upto(Cardinality(D)) = SUBSET D
  BY FS_Subset DEF Upto
<1>8. IsKnownTable(f, D, [s \in SUBSET D |-> g[s]])
  <2> DEFINE h == [s \in SUBSET D |-> g[s]]
  <2>1. \A s \in SUBSET D : h[s] = Entry(h, s)
    BY <1>6, <1>7
  <2>2. h = [s \in SUBSET D |-> h[s]]
    OBVIOUS
  <2> QED  BY <2>1, <2>2 DEF IsKnownTable
<1> QED  BY <1>8

\* What is known after the first n attempts of a list.
After(attempts, n) == Known([i \in 1 .. n |-> attempts[i]])

LEMMA AfterFirst ==
  ASSUME NEW attempts, NEW n \in Nat
  PROVE  \E g : /\ g[{}] = <<>>
                /\ \A k \in 1 .. n : g[1 .. k] = Attempted(g[1 .. k - 1], attempts[k])
                /\ After(attempts, n) = g[1 .. n]
<1> DEFINE f == [i \in 1 .. n |-> attempts[i]]
           g == CHOOSE h : IsKnownTable(f, DOMAIN f, h)
<1>1. DOMAIN f = 1 .. n /\ IsFiniteSet(1 .. n) /\ 1 .. n \in SUBSET Nat
  BY FS_Interval
<1>2. IsKnownTable(f, 1 .. n, g)
  <2>1. \E h : IsKnownTable(f, 1 .. n, h)
    BY <1>1, KnownTableExists
  <2> QED  BY <1>1, <2>1
<1>3. Known(f) = g[1 .. n]
  BY <1>1, KnownDefinition
<1> HIDE DEF g
<1>4. g[{}] = <<>>
  BY <1>2 DEF IsKnownTable
<1>5. ASSUME NEW k \in 1 .. n
      PROVE  g[1 .. k] = Attempted(g[1 .. k - 1], attempts[k])
  <2>1. Max(1 .. k) = k /\ (1 .. k) \ {k} = 1 .. k - 1
    <3>1. k - 1 \in Nat /\ k = (k - 1) + 1
      OBVIOUS
    <3> QED  BY <3>1, GreatestOfFirst
  <2>2. 1 .. k \in SUBSET (1 .. n) /\ 1 .. k # {} /\ f[k] = attempts[k]
    OBVIOUS
  <2>3. g[1 .. k] = Attempted(g[(1 .. k) \ {Max(1 .. k)}], f[Max(1 .. k)])
    BY <1>2, <2>2 DEF IsKnownTable
  <2> QED  BY <2>1, <2>2, <2>3
<1> QED  BY <1>3, <1>4, <1>5 DEF After

LEMMA AfterNone ==
  ASSUME NEW attempts
  PROVE  After(attempts, 0) = <<>>
<1>1. 1 .. 0 = {}
  OBVIOUS
<1> QED  BY <1>1, AfterFirst

LEMMA AfterOneMore ==
  ASSUME NEW attempts, NEW n \in Nat
  PROVE  After(attempts, n + 1) = Attempted(After(attempts, n), attempts[n + 1])
<1>1. PICK g : /\ g[{}] = <<>>
               /\ \A k \in 1 .. n : g[1 .. k] = Attempted(g[1 .. k - 1], attempts[k])
               /\ After(attempts, n) = g[1 .. n]
  BY AfterFirst
<1>2. PICK h : /\ h[{}] = <<>>
               /\ \A k \in 1 .. n + 1 : h[1 .. k] = Attempted(h[1 .. k - 1], attempts[k])
               /\ After(attempts, n + 1) = h[1 .. n + 1]
  <2>1. n + 1 \in Nat
    OBVIOUS
  <2> QED  BY <2>1, AfterFirst
<1> DEFINE Good == {k \in Nat : k <= n => g[1 .. k] = h[1 .. k]}
<1>3. 0 \in Good
  BY <1>1, <1>2
<1>4. ASSUME NEW k \in Nat, k \in Good
      PROVE  k + 1 \in Good
  <2> SUFFICES ASSUME k + 1 <= n
               PROVE  g[1 .. k + 1] = h[1 .. k + 1]
    OBVIOUS
  <2>1. k + 1 \in 1 .. n /\ k + 1 \in 1 .. n + 1 /\ (k + 1) - 1 = k
    OBVIOUS
  <2>2. g[1 .. k + 1] = Attempted(g[1 .. k], attempts[k + 1])
    BY <1>1, <2>1
  <2>3. h[1 .. k + 1] = Attempted(h[1 .. k], attempts[k + 1])
    BY <1>2, <2>1
  <2> QED  BY <1>4, <2>2, <2>3
<1> HIDE DEF Good
<1>5. n \in Good
  BY <1>3, <1>4, NumberInduction
<1>6. n + 1 \in 1 .. n + 1 /\ (n + 1) - 1 = n
  OBVIOUS
<1>7. h[1 .. n + 1] = Attempted(h[1 .. n], attempts[n + 1])
  BY <1>2, <1>6
<1> QED  BY <1>1, <1>2, <1>5, <1>7 DEF Good

-----------------------------------------------------------------------------
(* What is known of an order.                                              *)

KeyOf(t) == PaymentKey(t.customer, t.order)

DraftFields ==
  {"key", "class", "ref", "customer", "gross", "first", "seq", "method", "settled", "disputed",
   "writtenOff", "determinable", "age"}

IsDraft(d) == DOMAIN d = DraftFields

\* A draft of the order that t is an attempt on.
IsPaymentDraft(d, t) ==
  /\ IsDraft(d)
  /\ d.key = KeyOf(t) /\ d.class = "PAYMENT_FAILURE" /\ d.ref = t.order /\ d.customer = t.customer
  /\ d.gross \in Nat /\ d.first \in Nat
  /\ d.disputed = FALSE /\ d.writtenOff = FALSE /\ d.determinable = TRUE

LEMMA AttemptDraftIs ==
  ASSUME NEW t \in Attempt
  PROVE  /\ IsPaymentDraft(AttemptDraft(t), t)
         /\ AttemptDraft(t).first = t.at /\ AttemptDraft(t).key = KeyOf(t)
<1> DEFINE d == Draft(PaymentKey(t.customer, t.order), t.order, t.customer, t.amount, t.at)
<1>1. /\ IsDraft(d)
      /\ d.key = KeyOf(t) /\ d.class = "PAYMENT_FAILURE" /\ d.ref = t.order
      /\ d.customer = t.customer /\ d.gross = t.amount /\ d.first = t.at
      /\ d.disputed = FALSE /\ d.writtenOff = FALSE /\ d.determinable = TRUE
  <2>1. KeyOf(t) = PaymentKey(t.customer, t.order) /\ PaymentKey(t.customer, t.order)[1] = "PAYMENT_FAILURE"
    BY DEF KeyOf, PaymentKey
  <2> QED  BY <2>1 DEF Draft, IsDraft, DraftFields
<1>2. t.amount \in Nat /\ t.at \in Nat
  BY DEF Attempt
<1> HIDE DEF d
<1>3. IsDraft([d EXCEPT !.seq = t.seq, !.method = t.method])
  BY <1>1 DEF IsDraft
<1>4. AttemptDraft(t) = [d EXCEPT !.seq = t.seq, !.method = t.method]
  BY DEF AttemptDraft, d
<1> QED  BY <1>1, <1>2, <1>3, <1>4 DEF IsPaymentDraft, IsDraft

LEMMA MergedIs ==
  ASSUME NEW t, NEW d, IsPaymentDraft(d, t), NEW e, IsPaymentDraft(e, t)
  PROVE  /\ IsPaymentDraft(Merge(d, e), t)
         /\ Merge(d, e).first = Smaller(d.first, e.first)
<1>1. Larger(d.gross, e.gross) \in Nat /\ Smaller(d.first, e.first) \in Nat
  BY DEF IsPaymentDraft, Larger, Smaller
<1>2. IsDraft(Merge(d, e))
  BY DEF IsPaymentDraft, IsDraft, Merge
<1> QED  BY <1>1, <1>2 DEF IsPaymentDraft, IsDraft, Merge

\* One draft that is settled.
SettledDraft(d) == [d EXCEPT !.settled = TRUE, !.gross = 0]

LEMMA SettledDraftIs ==
  ASSUME NEW t, NEW d, IsPaymentDraft(d, t)
  PROVE  /\ IsPaymentDraft(SettledDraft(d), t)
         /\ SettledDraft(d).first = d.first /\ SettledDraft(d).gross = 0
<1>1. IsDraft(SettledDraft(d))
  BY DEF IsPaymentDraft, IsDraft, SettledDraft
<1> QED  BY <1>1 DEF IsPaymentDraft, IsDraft, SettledDraft

\* An attempt settles the draft of its order, adds to it or starts it, and
\* leaves all others alone.
IsOneMore(drafts, t, next) ==
  \/ /\ next = drafts /\ t.status # "FAILED"
     /\ t.status \in Settlements => KeyOf(t) \notin DOMAIN drafts
  \/ /\ t.status \in Settlements /\ KeyOf(t) \in DOMAIN drafts
     /\ DOMAIN next = DOMAIN drafts
     /\ next[KeyOf(t)] = SettledDraft(drafts[KeyOf(t)])
     /\ \A k \in DOMAIN drafts \ {KeyOf(t)} : next[k] = drafts[k]
  \/ /\ t.status = "FAILED" /\ t.status \notin Settlements
     /\ DOMAIN next = DOMAIN drafts \cup {KeyOf(t)}
     /\ next[KeyOf(t)] = IF KeyOf(t) \in DOMAIN drafts
                         THEN Merge(drafts[KeyOf(t)], AttemptDraft(t)) ELSE AttemptDraft(t)
     /\ \A k \in DOMAIN drafts \ {KeyOf(t)} : next[k] = drafts[k]

LEMMA AttemptedIs ==
  ASSUME NEW drafts, NEW t \in Attempt
  PROVE  IsOneMore(drafts, t, Attempted(drafts, t))
<1> DEFINE next == Attempted(drafts, t)
<1>1. CASE t.status \in Settlements
  <2>1. next = Settled(drafts, KeyOf(t)) /\ t.status # "FAILED"
    BY <1>1 DEF Attempted, Settlements, KeyOf
  <2>2. CASE KeyOf(t) \notin DOMAIN drafts
    BY <2>1, <2>2 DEF Settled, IsOneMore
  <2>3. CASE KeyOf(t) \in DOMAIN drafts
    <3>1. next = [drafts EXCEPT ![KeyOf(t)] = SettledDraft(@)]
      BY <2>1, <2>3 DEF Settled, SettledDraft
    <3> QED  BY <1>1, <2>3, <3>1 DEF IsOneMore
  <2> QED  BY <2>2, <2>3
<1>2. CASE t.status = "FAILED"
  <2>1. t.status \notin Settlements
    BY <1>2 DEF Settlements
  <2>2. next = Failed(drafts, AttemptDraft(t)) /\ AttemptDraft(t).key = KeyOf(t)
    BY <1>2, <2>1, AttemptDraftIs DEF Attempted
  <2>3. CASE KeyOf(t) \in DOMAIN drafts
    <3>1. next = [drafts EXCEPT ![KeyOf(t)] = Merge(@, AttemptDraft(t))]
      BY <2>2, <2>3 DEF Failed
    <3> QED  BY <1>2, <2>1, <2>3, <3>1 DEF IsOneMore
  <2>4. CASE KeyOf(t) \notin DOMAIN drafts
    <3>1. next = [k \in DOMAIN drafts \cup {KeyOf(t)} |->
                    IF k = KeyOf(t) THEN AttemptDraft(t) ELSE drafts[k]]
      BY <2>2, <2>4 DEF Failed
    <3> QED  BY <1>2, <2>1, <2>4, <3>1 DEF IsOneMore
  <2> QED  BY <2>3, <2>4
<1>3. CASE t.status \notin Settlements /\ t.status # "FAILED"
  BY <1>3 DEF Attempted, IsOneMore
<1> QED  BY <1>1, <1>2, <1>3

\* What is known after n attempts: the draft of an order is of a failed attempt on
\* it, its first detection is the time of an attempt, and it has lost its value
\* where the last attempt on its order was a settlement.
FromFailures(attempts, n) ==
  \A k \in DOMAIN After(attempts, n) : \E i \in 1 .. n :
    /\ attempts[i].status = "FAILED" /\ KeyOf(attempts[i]) = k
    /\ IsPaymentDraft(After(attempts, n)[k], attempts[i])

FirstIsOfAttempt(attempts, n) ==
  \A k \in DOMAIN After(attempts, n) : \E i \in 1 .. n :
    After(attempts, n)[k].first = attempts[i].at

SettledLast(attempts, n, i) ==
  /\ attempts[i].status \in Settlements
  /\ \A j \in i + 1 .. n : attempts[j].order # attempts[i].order

SettledIsWorthless(attempts, n) ==
  \A i \in 1 .. n :
    SettledLast(attempts, n, i) /\ KeyOf(attempts[i]) \in DOMAIN After(attempts, n) =>
      After(attempts, n)[KeyOf(attempts[i])].gross = 0

IsKnownOf(attempts, n) ==
  FromFailures(attempts, n) /\ FirstIsOfAttempt(attempts, n) /\ SettledIsWorthless(attempts, n)

LEMMA KeyOfOrder ==
  ASSUME NEW s, NEW t, KeyOf(s) = KeyOf(t)
  PROVE  s.order = t.order /\ s.customer = t.customer
BY DEF KeyOf, PaymentKey

LEMMA SameKeySameDraft ==
  ASSUME NEW s, NEW t, KeyOf(s) = KeyOf(t), NEW d, IsPaymentDraft(d, s)
  PROVE  IsPaymentDraft(d, t)
BY KeyOfOrder DEF IsPaymentDraft

LEMMA KnownStep ==
  ASSUME NEW attempts \in Seq(Attempt), NEW n \in Nat, n + 1 <= Len(attempts),
         IsKnownOf(attempts, n)
  PROVE  IsKnownOf(attempts, n + 1)
<1> DEFINE D == After(attempts, n)
           E == After(attempts, n + 1)
           t == attempts[n + 1]
<1>1. t \in Attempt /\ t.at \in Nat /\ n + 1 \in 1 .. n + 1 /\ (1 .. n) \subseteq 1 .. n + 1
  <2>1. n + 1 \in 1 .. Len(attempts) /\ n + 1 \in 1 .. n + 1 /\ (1 .. n) \subseteq 1 .. n + 1
    OBVIOUS
  <2>2. t \in Attempt
    BY <2>1
  <2> QED  BY <2>1, <2>2 DEF Attempt
<1>2. E = Attempted(D, t)
  BY AfterOneMore
<1>3. /\ \A k \in DOMAIN D : \E i \in 1 .. n :
           attempts[i].status = "FAILED" /\ KeyOf(attempts[i]) = k /\ IsPaymentDraft(D[k], attempts[i])
      /\ \A k \in DOMAIN D : \E i \in 1 .. n : D[k].first = attempts[i].at
      /\ \A i \in 1 .. n : SettledLast(attempts, n, i) /\ KeyOf(attempts[i]) \in DOMAIN D =>
                             D[KeyOf(attempts[i])].gross = 0
  BY DEF IsKnownOf, FromFailures, FirstIsOfAttempt, SettledIsWorthless
<1>4. IsOneMore(D, t, E)
  BY <1>1, <1>2, AttemptedIs
<1> HIDE DEF D, E, t
<1>5. KeyOf(t) \in DOMAIN D => IsPaymentDraft(D[KeyOf(t)], t)
  <2> SUFFICES ASSUME KeyOf(t) \in DOMAIN D
               PROVE  IsPaymentDraft(D[KeyOf(t)], t)
    OBVIOUS
  <2>1. PICK i \in 1 .. n : KeyOf(attempts[i]) = KeyOf(t) /\ IsPaymentDraft(D[KeyOf(t)], attempts[i])
    BY <1>3
  <2> QED  BY <2>1, SameKeySameDraft
<1>6. /\ IsPaymentDraft(AttemptDraft(t), t) /\ AttemptDraft(t).first = t.at
  BY <1>1, AttemptDraftIs
<1>7. \A k \in DOMAIN E : k # KeyOf(t) => k \in DOMAIN D /\ E[k] = D[k]
  BY <1>4 DEF IsOneMore
<1>8. ASSUME KeyOf(t) \in DOMAIN E
      PROVE  /\ t.status = "FAILED" => IsPaymentDraft(E[KeyOf(t)], t)
             /\ t.status # "FAILED" => KeyOf(t) \in DOMAIN D
             /\ t.status # "FAILED" => \/ E[KeyOf(t)] = D[KeyOf(t)]
                                       \/ E[KeyOf(t)] = SettledDraft(D[KeyOf(t)])
             /\ t.status \in Settlements => E[KeyOf(t)].gross = 0
             /\ \/ E[KeyOf(t)].first = t.at
                \/ KeyOf(t) \in DOMAIN D /\ E[KeyOf(t)].first = D[KeyOf(t)].first
  <2>1. CASE E = D /\ t.status # "FAILED" /\ (t.status \in Settlements => KeyOf(t) \notin DOMAIN D)
    BY <1>8, <2>1
  <2>2. CASE /\ t.status \in Settlements /\ KeyOf(t) \in DOMAIN D
             /\ E[KeyOf(t)] = SettledDraft(D[KeyOf(t)])
    <3>1. SettledDraft(D[KeyOf(t)]).first = D[KeyOf(t)].first /\ SettledDraft(D[KeyOf(t)]).gross = 0
      BY <1>5, <2>2, SettledDraftIs
    <3>2. t.status # "FAILED"
      BY <2>2 DEF Settlements
    <3> QED  BY <2>2, <3>1, <3>2
  <2>3. CASE /\ t.status = "FAILED" /\ t.status \notin Settlements
             /\ E[KeyOf(t)] = IF KeyOf(t) \in DOMAIN D THEN Merge(D[KeyOf(t)], AttemptDraft(t))
                              ELSE AttemptDraft(t)
    <3>1. CASE KeyOf(t) \in DOMAIN D
      <4>1. /\ IsPaymentDraft(Merge(D[KeyOf(t)], AttemptDraft(t)), t)
            /\ Merge(D[KeyOf(t)], AttemptDraft(t)).first = Smaller(D[KeyOf(t)].first, t.at)
        BY <1>5, <1>6, <3>1, MergedIs
      <4> QED  BY <2>3, <3>1, <4>1 DEF Smaller
    <3>2. CASE KeyOf(t) \notin DOMAIN D
      BY <1>6, <2>3, <3>2
    <3> QED  BY <3>1, <3>2
  <2> QED  BY <1>4, <2>1, <2>2, <2>3 DEF IsOneMore
<1>9. FromFailures(attempts, n + 1)
  <2> SUFFICES ASSUME NEW k \in DOMAIN E
               PROVE  \E i \in 1 .. n + 1 :
                        /\ attempts[i].status = "FAILED" /\ KeyOf(attempts[i]) = k
                        /\ IsPaymentDraft(E[k], attempts[i])
    BY DEF FromFailures, E
  <2>1. CASE k # KeyOf(t)
    BY <1>1, <1>3, <1>7, <2>1
  <2>2. CASE k = KeyOf(t) /\ t.status = "FAILED"
    BY <1>1, <1>8, <2>2 DEF t
  <2>3. CASE k = KeyOf(t) /\ t.status # "FAILED"
    <3>1. PICK i \in 1 .. n : /\ attempts[i].status = "FAILED" /\ KeyOf(attempts[i]) = k
                              /\ IsPaymentDraft(D[k], attempts[i])
      BY <1>3, <1>8, <2>3
    <3>2. IsPaymentDraft(SettledDraft(D[k]), attempts[i])
      BY <3>1, SettledDraftIs
    <3> QED  BY <1>1, <1>8, <2>3, <3>1, <3>2
  <2> QED  BY <2>1, <2>2, <2>3
<1>10. FirstIsOfAttempt(attempts, n + 1)
  <2> SUFFICES ASSUME NEW k \in DOMAIN E
               PROVE  \E i \in 1 .. n + 1 : E[k].first = attempts[i].at
    BY DEF FirstIsOfAttempt, E
  <2>1. CASE k # KeyOf(t)
    BY <1>1, <1>3, <1>7, <2>1
  <2>2. CASE k = KeyOf(t)
    BY <1>1, <1>3, <1>8, <2>2 DEF t
  <2> QED  BY <2>1, <2>2
<1>11. SettledIsWorthless(attempts, n + 1)
  <2> SUFFICES ASSUME NEW i \in 1 .. n + 1, SettledLast(attempts, n + 1, i),
                      KeyOf(attempts[i]) \in DOMAIN E
               PROVE  E[KeyOf(attempts[i])].gross = 0
    BY DEF SettledIsWorthless, E
  <2>1. CASE i = n + 1
    BY <1>8, <2>1 DEF t, SettledLast
  <2>2. CASE i # n + 1
    <3>1. i \in 1 .. n /\ n + 1 \in i + 1 .. n + 1 /\ i + 1 .. n \subseteq i + 1 .. n + 1
      BY <2>2
    <3>2. t.order # attempts[i].order /\ SettledLast(attempts, n, i)
      BY <3>1 DEF SettledLast, t
    <3>3. KeyOf(attempts[i]) # KeyOf(t)
      BY <3>2, KeyOfOrder
    <3> QED  BY <1>3, <1>7, <3>1, <3>2, <3>3
  <2> QED  BY <2>1, <2>2
<1> QED  BY <1>9, <1>10, <1>11 DEF IsKnownOf

LEMMA KnownIs ==
  ASSUME NEW attempts \in Seq(Attempt)
  PROVE  \A n \in 0 .. Len(attempts) : IsKnownOf(attempts, n)
<1> DEFINE Good == {n \in Nat : n <= Len(attempts) => IsKnownOf(attempts, n)}
<1>1. 0 \in Good
  <2>1. DOMAIN After(attempts, 0) = {} /\ 1 .. 0 = {}
    BY AfterNone
  <2> QED  BY <2>1 DEF IsKnownOf, FromFailures, FirstIsOfAttempt, SettledIsWorthless
<1>2. ASSUME NEW n \in Nat, n \in Good
      PROVE  n + 1 \in Good
  BY <1>2, KnownStep
<1> HIDE DEF Good
<1>3. \A n \in Nat : n \in Good
  BY <1>1, <1>2, NumberInduction
<1> QED  BY <1>3 DEF Good

\* What is known stays known, and was detected when it was: a later attempt on an
\* order does not move its window.
LEMMA KnownStays ==
  ASSUME NEW attempts \in Seq(Attempt), NEW n \in Nat, NEW m \in Nat, n <= m, m <= Len(attempts),
         \A i, j \in DOMAIN attempts : i < j => attempts[i].at <= attempts[j].at
  PROVE  \A k \in DOMAIN After(attempts, n) :
           /\ k \in DOMAIN After(attempts, m)
           /\ After(attempts, m)[k].first = After(attempts, n)[k].first
<1> DEFINE Stays(l) == \A k \in DOMAIN After(attempts, n) :
                         /\ k \in DOMAIN After(attempts, n + l)
                         /\ After(attempts, n + l)[k].first = After(attempts, n)[k].first
           Good == {l \in Nat : n + l <= Len(attempts) => Stays(l)}
<1>1. 0 \in Good
  <2>1. n + 0 = n
    OBVIOUS
  <2> QED  BY <2>1, Zenon
<1>2. ASSUME NEW l \in Nat, l \in Good
      PROVE  l + 1 \in Good
  <2> SUFFICES ASSUME (n + l) + 1 <= Len(attempts)
               PROVE  Stays(l + 1)
    BY n + (l + 1) = (n + l) + 1
  <2> DEFINE p == n + l
             D == After(attempts, p)
             E == After(attempts, p + 1)
             t == attempts[p + 1]
  <2>1. p \in Nat /\ p + 1 \in 1 .. Len(attempts) /\ n + (l + 1) = p + 1 /\ p \in 0 .. Len(attempts)
        /\ n + l <= Len(attempts)
    OBVIOUS
  <2>2. t \in Attempt
    BY <2>1
  <2>3. t.at \in Nat
    BY <2>2 DEF Attempt
  <2>4. E = Attempted(D, t)
    BY <2>1, AfterOneMore
  <2>5. \A k \in DOMAIN After(attempts, n) : k \in DOMAIN D /\ D[k].first = After(attempts, n)[k].first
    BY <1>2, <2>1
  <2>6. IsKnownOf(attempts, p)
    BY <2>1, KnownIs
  <2> HIDE DEF p
  <2>7. IsOneMore(D, t, E)
    BY <2>2, <2>4, AttemptedIs
  <2>8. ASSUME KeyOf(t) \in DOMAIN D
        PROVE  /\ SettledDraft(D[KeyOf(t)]).first = D[KeyOf(t)].first
               /\ Merge(D[KeyOf(t)], AttemptDraft(t)).first = D[KeyOf(t)].first
    <3>1. PICK i \in 1 .. p : KeyOf(attempts[i]) = KeyOf(t) /\ IsPaymentDraft(D[KeyOf(t)], attempts[i])
      BY <2>6, <2>8 DEF IsKnownOf, FromFailures
    <3>2. IsPaymentDraft(D[KeyOf(t)], t)
      BY <3>1, SameKeySameDraft
    <3>3. PICK j \in 1 .. p : D[KeyOf(t)].first = attempts[j].at
      BY <2>6, <2>8 DEF IsKnownOf, FirstIsOfAttempt
    <3>4. D[KeyOf(t)].first <= t.at
      BY <2>1, <3>3
    <3>5. IsPaymentDraft(AttemptDraft(t), t) /\ AttemptDraft(t).first = t.at
      BY <2>2, AttemptDraftIs
    <3>6. Merge(D[KeyOf(t)], AttemptDraft(t)).first = Smaller(D[KeyOf(t)].first, t.at)
      BY <3>2, <3>5, MergedIs
    <3>7. SettledDraft(D[KeyOf(t)]).first = D[KeyOf(t)].first
      BY <3>2, SettledDraftIs
    <3> QED  BY <3>4, <3>6, <3>7 DEF Smaller
  <2> HIDE DEF D, E, t
  <2>9. \A k \in DOMAIN D : k \in DOMAIN E /\ E[k].first = D[k].first
    BY <2>7, <2>8 DEF IsOneMore
  <2> QED  BY <2>1, <2>5, <2>9 DEF E
<1> HIDE DEF Good
<1>3. m - n \in Good
  <2>1. m - n \in Nat
    OBVIOUS
  <2> QED  BY <1>1, <1>2, <2>1, NumberInduction
<1>4. n + (m - n) = m
  OBVIOUS
<1> QED  BY <1>3, <1>4 DEF Good

-----------------------------------------------------------------------------
(* What has happened by a time is the first part of the list.              *)

HasPassed(attempts, t, n) ==
  /\ n \in 0 .. Len(attempts)
  /\ \A i \in 1 .. Len(attempts) : attempts[i].at <= t <=> i <= n

LEMMA AttemptsTyped ==
  ASSUME NEW w, IsWorld(w)
  PROVE  /\ w.attempts \in Seq(Attempt) /\ DOMAIN w.attempts = 1 .. Len(w.attempts)
         /\ Len(w.attempts) \in Nat
         /\ \A i \in 1 .. Len(w.attempts) :
              /\ w.attempts[i] \in Attempt /\ w.attempts[i].at \in Nat
              /\ w.attempts[i].reason \in DOMAIN CauseOfReason
<1>1. w.attempts \in Seq(Attempt)
  BY DEF IsWorld
<1>2. \A i \in 1 .. Len(w.attempts) : w.attempts[i] \in Attempt
  BY <1>1
<1>3. \A a \in Attempt : a.at \in Nat /\ a.reason \in DOMAIN CauseOfReason
  BY DEF Attempt
<1> QED  BY <1>1, <1>2, <1>3

LEMMA SomePassed ==
  ASSUME NEW w, IsWorld(w), NEW t \in Nat
  PROVE  \E n : HasPassed(w.attempts, t, n)
<1> DEFINE A == w.attempts
           S == {i \in 1 .. Len(A) : A[i].at <= t}
<1>1. /\ Len(A) \in Nat /\ DOMAIN A = 1 .. Len(A)
      /\ \A i \in 1 .. Len(A) : A[i].at \in Nat
  BY AttemptsTyped
<1>2. \A i, j \in 1 .. Len(A) : i < j => A[i].at <= A[j].at
  BY <1>1 DEF IsWorld
<1> HIDE DEF A
<1>3. IsFiniteSet(S) /\ S \in SUBSET Nat
  <2>1. IsFiniteSet(1 .. Len(A))
    <3>1. 1 \in Int /\ Len(A) \in Int
      BY <1>1
    <3> QED  BY <3>1, FS_Interval
  <2>2. S \subseteq 1 .. Len(A)
    OBVIOUS
  <2> QED  BY <1>1, <2>1, <2>2, FS_Subset
<1>4. CASE S = {}
  <2>1. 0 \in 0 .. Len(A) /\ \A i \in 1 .. Len(A) : A[i].at <= t <=> i <= 0
    BY <1>1, <1>4
  <2> QED  BY <2>1 DEF HasPassed, A
<1>5. CASE S # {}
  <2>1. PICK n : n \in S /\ \A y \in S : n >= y
    BY <1>3, <1>5, GreatestIsIn
  <2>2. \A i \in 1 .. Len(A) : i < n => A[i].at <= t
    BY <1>1, <1>2, <2>1
  <2>3. \A i \in 1 .. Len(A) : A[i].at <= t <=> i <= n
    BY <1>1, <2>1, <2>2
  <2>4. n \in 0 .. Len(A)
    BY <1>1, <2>1
  <2> QED  BY <2>3, <2>4 DEF HasPassed, A
<1> QED  BY <1>4, <1>5

LEMMA PassedInTurn ==
  ASSUME NEW w, IsWorld(w), NEW s \in Nat, NEW t \in Nat, s <= t, NEW n, NEW m,
         HasPassed(w.attempts, s, n), HasPassed(w.attempts, t, m)
  PROVE  n <= m
<1>1. n \in 0 .. Len(w.attempts) /\ m \in 0 .. Len(w.attempts) /\ Len(w.attempts) \in Nat
  BY AttemptsTyped DEF HasPassed
<1>2. CASE n = 0
  BY <1>1, <1>2
<1>3. CASE n # 0
  <2>1. n \in 1 .. Len(w.attempts)
    BY <1>1, <1>3
  <2>2. w.attempts[n].at <= s /\ w.attempts[n].at \in Nat
    BY <1>1, <2>1, AttemptsTyped DEF HasPassed
  <2>3. w.attempts[n].at <= t
    BY <2>2
  <2> QED  BY <2>1, <2>3 DEF HasPassed
<1> QED  BY <1>2, <1>3

LEMMA PassedPart ==
  ASSUME NEW w, IsWorld(w), NEW t \in Nat, NEW n, HasPassed(w.attempts, t, n)
  PROVE  RestrictValues(w.attempts, LAMBDA x : x.at <= t) = [i \in 1 .. n |-> w.attempts[i]]
<1> DEFINE A == w.attempts
           S == {i \in DOMAIN A : A[i].at <= t}
<1>1. S = 1 .. n
  BY AttemptsTyped DEF HasPassed
<1>2. RestrictValues(A, LAMBDA x : x.at <= t) = [i \in S |-> A[i]]
  BY DEF RestrictValues, Restrict
<1> QED  BY <1>1, <1>2

LEMMA PaymentDraftsAre ==
  ASSUME NEW w, IsWorld(w), NEW t \in Nat, NEW n, HasPassed(w.attempts, t, n), NEW O
  PROVE  PaymentDrafts(View(w.losses, w.attempts, O), t) = Range(After(w.attempts, n))
<1>1. View(w.losses, w.attempts, O).transactions = w.attempts
  BY DEF View
<1>2. PaymentDrafts(View(w.losses, w.attempts, O), t) =
        Range(Known(RestrictValues(w.attempts, LAMBDA x : x.at <= t)))
  BY <1>1 DEF PaymentDrafts
<1> QED  BY <1>2, PassedPart DEF After

-----------------------------------------------------------------------------
(* The loss that a draft is of.                                            *)

CustomerOf(l) ==
  IF l.class = "CHECKOUT_ABANDONMENT" /\ l.anonymous THEN Anonymous ELSE l.customer

KeyOfLoss(l) ==
  CASE l.class = "PAYMENT_FAILURE"      -> PaymentKey(l.customer, l.id)
    [] l.class = "CHECKOUT_ABANDONMENT" -> CheckoutKey(CustomerOf(l), l.id)
    [] l.class = "SUBSCRIPTION_FAILURE" -> SubscriptionKey(l.id, l.number)
    [] l.class = "RECEIVABLE_OVERDUE"   -> ReceivableKey(l.id)
    [] l.class = "MANDATE_HEALTH"       -> MandateKey(l.id, l.at + l.days * Day)

IsDraftOf(d, l) ==
  /\ d.class = l.class /\ d.ref = l.id /\ d.customer = CustomerOf(l) /\ d.key = KeyOfLoss(l)
  /\ d.gross \in Int /\ d.first \in Int

\* When what is no payment was first detected, at a time: none has happened
\* yet that a view keeps although it lies ahead.
FirstOf(l, t) ==
  CASE l.class = "CHECKOUT_ABANDONMENT" -> l.at
    [] l.class = "SUBSCRIPTION_FAILURE" -> Smaller(l.at, t)
    [] l.class = "RECEIVABLE_OVERDUE"   -> l.at - l.days * Day
    [] l.class = "MANDATE_HEALTH"       -> Smaller(l.at + l.days * Day, t)

Happened(l, t) ==
  /\ l.class = "CHECKOUT_ABANDONMENT" => l.at <= t
  /\ l.class = "RECEIVABLE_OVERDUE" => l.at - l.days * Day <= t

LEMMA LossTyped ==
  ASSUME NEW l, IsLoss(l)
  PROVE  /\ l.id \in Loss /\ l.class \in RiskClass /\ l.customer \in Customer
         /\ l.at \in Nat /\ l.amount \in Nat /\ l.amount >= 1000
         /\ l.class \in {"RECEIVABLE_OVERDUE", "MANDATE_HEALTH"} => l.days * Day \in Nat
         /\ l.class = "CHECKOUT_ABANDONMENT" => l.anonymous \in BOOLEAN
<1>1. l.class \in {"RECEIVABLE_OVERDUE", "MANDATE_HEALTH"} => l.days \in Nat
  BY DEF IsLoss
<1>2. Day \in Nat
  BY DEF Day, Hour
<1>3. \A n \in Nat, m \in Nat : n * m \in Nat
  OBVIOUS
<1>4. l.class \in {"RECEIVABLE_OVERDUE", "MANDATE_HEALTH"} => l.days * Day \in Nat
  BY <1>1, <1>2, <1>3
<1> QED  BY <1>4 DEF IsLoss

LEMMA PaymentDraftSource ==
  ASSUME NEW w, IsWorld(w), NEW n \in 0 .. Len(w.attempts), NEW k \in DOMAIN After(w.attempts, n)
  PROVE  /\ After(w.attempts, n)[k].key = k
         /\ \E l \in w.losses :
              l.class = "PAYMENT_FAILURE" /\ IsDraftOf(After(w.attempts, n)[k], l)
<1> DEFINE d == After(w.attempts, n)[k]
<1>1. IsKnownOf(w.attempts, n)
  BY AttemptsTyped, KnownIs
<1>2. PICK i \in 1 .. n : /\ w.attempts[i].status = "FAILED" /\ KeyOf(w.attempts[i]) = k
                          /\ IsPaymentDraft(d, w.attempts[i])
  BY <1>1 DEF IsKnownOf, FromFailures
<1>3. i \in DOMAIN w.attempts
  BY AttemptsTyped
<1>4. PICK l \in w.losses : /\ l.class = "PAYMENT_FAILURE" /\ l.id = w.attempts[i].order
                            /\ l.customer = w.attempts[i].customer
  BY <1>2, <1>3 DEF IsWorld
<1> HIDE DEF d
<1>5. CustomerOf(l) = l.customer /\ KeyOfLoss(l) = k
  BY <1>2, <1>4 DEF CustomerOf, KeyOfLoss, KeyOf
<1>6. IsDraftOf(d, l) /\ d.key = k
  BY <1>2, <1>4, <1>5 DEF IsPaymentDraft, IsDraftOf
<1> QED  BY <1>4, <1>6 DEF d

LEMMA CheckoutDraftSource ==
  ASSUME NEW w, IsWorld(w), NEW t \in Nat, NEW O,
         NEW d \in CheckoutDrafts(View(w.losses, w.attempts, O), t)
  PROVE  \E l \in w.losses :
           l.class = "CHECKOUT_ABANDONMENT" /\ IsDraftOf(d, l) /\ d.first = l.at /\ l.at <= t
<1>1. PICK l \in w.losses :
        /\ l.class = "CHECKOUT_ABANDONMENT"
        /\ SessionOf(l).abandoned <= t
        /\ d = [Draft(CheckoutKey(SessionOf(l).customer, SessionOf(l).id), SessionOf(l).id,
                      SessionOf(l).customer, SessionOf(l).cart, SessionOf(l).abandoned)
                  EXCEPT !.determinable = SessionOf(l).cart > 0]
  BY DEF CheckoutDrafts, View, OfClass
<1>2. /\ SessionOf(l).id = l.id /\ SessionOf(l).cart = l.amount /\ SessionOf(l).abandoned = l.at
      /\ SessionOf(l).customer = CustomerOf(l)
  BY <1>1 DEF SessionOf, CustomerOf
<1>3. /\ d.key = CheckoutKey(CustomerOf(l), l.id) /\ d.class = CheckoutKey(CustomerOf(l), l.id)[1]
      /\ d.ref = l.id /\ d.customer = CustomerOf(l) /\ d.gross = l.amount /\ d.first = l.at
  BY <1>1, <1>2 DEF Draft
<1>4. CheckoutKey(CustomerOf(l), l.id)[1] = "CHECKOUT_ABANDONMENT"
  BY DEF CheckoutKey
<1>5. KeyOfLoss(l) = CheckoutKey(CustomerOf(l), l.id)
  BY <1>1 DEF KeyOfLoss
<1>6. IsLoss(l)
  BY DEF IsWorld
<1>7. IsDraftOf(d, l)
  BY <1>1, <1>3, <1>4, <1>5, <1>6, LossTyped DEF IsDraftOf
<1> QED  BY <1>1, <1>2, <1>3, <1>7

LEMMA SubscriptionDraftSource ==
  ASSUME NEW w, IsWorld(w), NEW t \in Nat, NEW O,
         NEW d \in SubscriptionDrafts(View(w.losses, w.attempts, O), t)
  PROVE  \E l \in w.losses :
           l.class = "SUBSCRIPTION_FAILURE" /\ IsDraftOf(d, l) /\ d.first = Smaller(l.at, t)
<1>1. PICK l \in w.losses :
        /\ l.class = "SUBSCRIPTION_FAILURE"
        /\ d = Draft(SubscriptionKey(SubscriptionOf(l).id, SubscriptionOf(l).number),
                     SubscriptionOf(l).id, SubscriptionOf(l).customer, SubscriptionOf(l).amount,
                     Smaller(SubscriptionOf(l).nextCharge, t))
  BY DEF SubscriptionDrafts, View, OfClass
<1>2. /\ SubscriptionOf(l).id = l.id /\ SubscriptionOf(l).amount = l.amount
      /\ SubscriptionOf(l).number = l.number /\ SubscriptionOf(l).nextCharge = l.at
      /\ SubscriptionOf(l).customer = CustomerOf(l)
  BY <1>1 DEF SubscriptionOf, CustomerOf
<1>3. /\ d.key = SubscriptionKey(l.id, l.number) /\ d.class = SubscriptionKey(l.id, l.number)[1]
      /\ d.ref = l.id /\ d.customer = CustomerOf(l) /\ d.gross = l.amount
      /\ d.first = Smaller(l.at, t)
  BY <1>1, <1>2 DEF Draft
<1>4. SubscriptionKey(l.id, l.number)[1] = "SUBSCRIPTION_FAILURE"
  BY DEF SubscriptionKey
<1>5. KeyOfLoss(l) = SubscriptionKey(l.id, l.number)
  BY <1>1 DEF KeyOfLoss
<1>6. IsLoss(l)
  BY DEF IsWorld
<1>7. Smaller(l.at, t) \in Int
  BY <1>6, LossTyped DEF Smaller
<1>8. IsDraftOf(d, l)
  BY <1>1, <1>3, <1>4, <1>5, <1>6, <1>7, LossTyped DEF IsDraftOf
<1> QED  BY <1>1, <1>3, <1>8

LEMMA ReceivableDraftSource ==
  ASSUME NEW w, IsWorld(w), NEW t \in Nat, NEW O,
         NEW d \in ReceivableDrafts(View(w.losses, w.attempts, O), t)
  PROVE  \E l \in w.losses :
           /\ l.class = "RECEIVABLE_OVERDUE" /\ IsDraftOf(d, l)
           /\ d.first = l.at - l.days * Day /\ l.at - l.days * Day <= t
<1> DEFINE v == View(w.losses, w.attempts, O)
           DraftOf(i) == [Draft(ReceivableKey(i.id), i.id, i.customer, Outstanding(i), i.due)
                            EXCEPT !.disputed = IsDisputed(i) /\ Outstanding(i) = 0,
                                   !.writtenOff = IsWrittenOff(i), !.age = i.age]
<1>1. PICK l \in w.losses :
        /\ l.class = "RECEIVABLE_OVERDUE"
        /\ InvoiceOf(l).due <= t
        /\ d = DraftOf(InvoiceOf(l))
  <2>1. PICK i \in v.invoices : i.due <= t /\ d = DraftOf(i)
    BY DEF ReceivableDrafts
  <2>2. PICK l \in w.losses : l.class = "RECEIVABLE_OVERDUE" /\ i = InvoiceOf(l)
    BY DEF View, OfClass
  <2> QED  BY <2>1, <2>2
<1>2. /\ InvoiceOf(l).id = l.id /\ InvoiceOf(l).issued = l.amount /\ InvoiceOf(l).paid = 0
      /\ InvoiceOf(l).credited = 0 /\ InvoiceOf(l).writtenOff = 0 /\ InvoiceOf(l).disputed = 0
      /\ InvoiceOf(l).due = l.at - l.days * Day /\ InvoiceOf(l).customer = CustomerOf(l)
  BY <1>1 DEF InvoiceOf, CustomerOf
<1>3. IsLoss(l)
  BY DEF IsWorld
<1>4. Outstanding(InvoiceOf(l)) \in Int
  BY <1>2, <1>3, LossTyped DEF Outstanding, Larger
<1>5. /\ d.key = ReceivableKey(l.id) /\ d.class = ReceivableKey(l.id)[1]
      /\ d.ref = l.id /\ d.customer = CustomerOf(l) /\ d.gross = Outstanding(InvoiceOf(l))
      /\ d.first = l.at - l.days * Day
  BY <1>1, <1>2 DEF Draft
<1>6. ReceivableKey(l.id)[1] = "RECEIVABLE_OVERDUE"
  BY DEF ReceivableKey
<1>7. KeyOfLoss(l) = ReceivableKey(l.id)
  BY <1>1 DEF KeyOfLoss
<1>8. l.at - l.days * Day \in Int
  BY <1>1, <1>3, LossTyped
<1>9. IsDraftOf(d, l)
  BY <1>1, <1>4, <1>5, <1>6, <1>7, <1>8 DEF IsDraftOf
<1> QED  BY <1>1, <1>2, <1>5, <1>9

LEMMA MandateDraftSource ==
  ASSUME NEW w, IsWorld(w), NEW t \in Nat, NEW O,
         NEW d \in MandateDrafts(View(w.losses, w.attempts, O), t)
  PROVE  \E l \in w.losses :
           /\ l.class = "MANDATE_HEALTH" /\ IsDraftOf(d, l)
           /\ d.first = Smaller(l.at + l.days * Day, t)
<1> DEFINE v == View(w.losses, w.attempts, O)
<1>1. PICK l \in w.losses :
        /\ l.class \in {"SUBSCRIPTION_FAILURE", "MANDATE_HEALTH"}
        /\ AtRisk(MandateOf(l), v, t)
        /\ d = Draft(MandateKey(MandateOf(l).id, MandateOf(l).expires), MandateOf(l).id,
                     MandateOf(l).customer, MandateOf(l).amount, Smaller(MandateOf(l).expires, t))
  BY DEF MandateDrafts, View, OfClass
<1>2. IsLoss(l)
  BY DEF IsWorld
<1>3. l.class # "SUBSCRIPTION_FAILURE"
  <2> SUFFICES ASSUME l.class = "SUBSCRIPTION_FAILURE"
               PROVE  FALSE
    OBVIOUS
  <2>1. MandateOf(l).state = "ACTIVE" /\ MandateOf(l).id = l.id
    BY DEF MandateOf
  <2>2. SubscriptionOf(l) \in v.subscriptions /\ SubscriptionOf(l).mandate = l.id
    BY DEF View, OfClass, SubscriptionOf
  <2> QED  BY <1>1, <2>1, <2>2 DEF AtRisk, Ailing
<1>4. l.class = "MANDATE_HEALTH"
  BY <1>1, <1>3
<1>5. /\ MandateOf(l).id = l.id /\ MandateOf(l).expires = l.at + l.days * Day
      /\ MandateOf(l).amount = l.amount /\ MandateOf(l).customer = CustomerOf(l)
  BY <1>4 DEF MandateOf, CustomerOf
<1>6. /\ d.key = MandateKey(l.id, l.at + l.days * Day)
      /\ d.class = MandateKey(l.id, l.at + l.days * Day)[1]
      /\ d.ref = l.id /\ d.customer = CustomerOf(l) /\ d.gross = l.amount
      /\ d.first = Smaller(l.at + l.days * Day, t)
  BY <1>1, <1>5 DEF Draft
<1>7. MandateKey(l.id, l.at + l.days * Day)[1] = "MANDATE_HEALTH"
  BY DEF MandateKey
<1>8. KeyOfLoss(l) = MandateKey(l.id, l.at + l.days * Day)
  BY <1>4 DEF KeyOfLoss
<1>9. Smaller(l.at + l.days * Day, t) \in Int
  BY <1>2, <1>4, LossTyped DEF Smaller
<1>10. IsDraftOf(d, l)
  BY <1>2, <1>4, <1>6, <1>7, <1>8, <1>9, LossTyped DEF IsDraftOf
<1> QED  BY <1>4, <1>6, <1>10

\* Every draft of a view is of a loss of its world.
IsFrom(d, l, w, t) ==
  /\ IsDraftOf(d, l) /\ Happened(l, t)
  /\ l.class # "PAYMENT_FAILURE" => d.first = FirstOf(l, t)
  /\ l.class = "PAYMENT_FAILURE" =>
       \A n : HasPassed(w.attempts, t, n) =>
         KeyOfLoss(l) \in DOMAIN After(w.attempts, n) /\ d = After(w.attempts, n)[KeyOfLoss(l)]

LEMMA DraftSource ==
  ASSUME NEW w, IsWorld(w), NEW t \in Nat, NEW O,
         NEW d \in Drafts(View(w.losses, w.attempts, O), t)
  PROVE  \E l \in w.losses : IsFrom(d, l, w, t)
<1> DEFINE v == View(w.losses, w.attempts, O)
<1>1. CASE d \in PaymentDrafts(v, t)
  <2>1. PICK m : HasPassed(w.attempts, t, m)
    BY SomePassed
  <2>2. PICK k \in DOMAIN After(w.attempts, m) : d = After(w.attempts, m)[k]
    <3>1. PaymentDrafts(v, t) = Range(After(w.attempts, m))
      BY <2>1, PaymentDraftsAre
    <3> QED  BY <1>1, <3>1 DEF Range
  <2>3. m \in 0 .. Len(w.attempts)
    BY <2>1 DEF HasPassed
  <2>4. d.key = k
    BY <2>2, <2>3, PaymentDraftSource
  <2>5. PICK l \in w.losses : l.class = "PAYMENT_FAILURE" /\ IsDraftOf(d, l)
    BY <2>2, <2>3, PaymentDraftSource
  <2>6. k = KeyOfLoss(l)
    BY <2>4, <2>5 DEF IsDraftOf
  <2>7. ASSUME NEW n, HasPassed(w.attempts, t, n)
        PROVE  n = m
    <3>1. n <= m /\ m <= n
      BY <2>1, <2>7, PassedInTurn
    <3> QED  BY <2>1, <2>7, <3>1 DEF HasPassed
  <2>8. Happened(l, t)
    BY <2>5 DEF Happened
  <2>9. IsFrom(d, l, w, t)
    BY <2>2, <2>5, <2>6, <2>7, <2>8 DEF IsFrom
  <2> QED  BY <2>9
<1>2. CASE d \in CheckoutDrafts(v, t)
  BY <1>2, CheckoutDraftSource DEF IsFrom, Happened, FirstOf
<1>3. CASE d \in SubscriptionDrafts(v, t)
  BY <1>3, SubscriptionDraftSource DEF IsFrom, Happened, FirstOf
<1>4. CASE d \in ReceivableDrafts(v, t)
  BY <1>4, ReceivableDraftSource DEF IsFrom, Happened, FirstOf
<1>5. CASE d \in MandateDrafts(v, t)
  BY <1>5, MandateDraftSource DEF IsFrom, Happened, FirstOf
<1> QED  BY <1>1, <1>2, <1>3, <1>4, <1>5 DEF Drafts

-----------------------------------------------------------------------------
(* Keys and rows.                                                          *)

LEMMA KeyOfLossIs ==
  ASSUME NEW l, IsLoss(l)
  PROVE  /\ KeyOfLoss(l)[1] = l.class
         /\ l.class \in {"PAYMENT_FAILURE", "CHECKOUT_ABANDONMENT"} => KeyOfLoss(l)[3] = l.id
         /\ l.class \notin {"PAYMENT_FAILURE", "CHECKOUT_ABANDONMENT"} => KeyOfLoss(l)[2] = l.id
<1>1. l.class \in RiskClass
  BY LossTyped
<1>2. CASE l.class = "PAYMENT_FAILURE"
  BY <1>2 DEF KeyOfLoss, PaymentKey
<1>3. CASE l.class = "CHECKOUT_ABANDONMENT"
  BY <1>3 DEF KeyOfLoss, CheckoutKey
<1>4. CASE l.class = "SUBSCRIPTION_FAILURE"
  BY <1>4 DEF KeyOfLoss, SubscriptionKey
<1>5. CASE l.class = "RECEIVABLE_OVERDUE"
  BY <1>5 DEF KeyOfLoss, ReceivableKey
<1>6. CASE l.class = "MANDATE_HEALTH"
  BY <1>6 DEF KeyOfLoss, MandateKey
<1> QED  BY <1>1, <1>2, <1>3, <1>4, <1>5, <1>6 DEF RiskClass

LEMMA SameKeySameLoss ==
  ASSUME NEW w, IsWorld(w), NEW l \in w.losses, NEW m \in w.losses, KeyOfLoss(l) = KeyOfLoss(m)
  PROVE  l = m
<1>1. IsLoss(l) /\ IsLoss(m)
  BY DEF IsWorld
<1>2. l.class = m.class /\ l.id = m.id
  BY <1>1, KeyOfLossIs
<1> QED  BY <1>2 DEF IsWorld

\* The rows of the opportunities of a world, however often they were executed on.
RowFields == {"id", "class", "customer", "first", "contacts"}

IsRowOf(r, l) ==
  /\ DOMAIN r = RowFields
  /\ r.id = l.id /\ r.class = l.class /\ r.customer = l.customer /\ r.first = l.at
  /\ r.contacts \in Nat

RowsMatch(R, w) ==
  /\ IsFiniteSet(R)
  /\ \A r \in R : \E l \in w.losses : IsRowOf(r, l)
  /\ \A l \in w.losses : \E r \in R : IsRowOf(r, l)
  /\ \A r, s \in R : r.id = s.id => r = s

\* Rows of a kind have an identity of their own.
HasRowsOf(v, l) ==
  /\ l.class = "CHECKOUT_ABANDONMENT" =>
       /\ SessionOf(l) \in v.sessions /\ RowWith(v.sessions, l.id) = SessionOf(l)
       /\ \A s \in v.sessions : s.id = l.id => s = SessionOf(l)
  /\ l.class = "SUBSCRIPTION_FAILURE" =>
       SubscriptionOf(l) \in v.subscriptions /\ RowWith(v.subscriptions, l.id) = SubscriptionOf(l)
  /\ l.class = "RECEIVABLE_OVERDUE" =>
       /\ InvoiceOf(l) \in v.invoices /\ RowWith(v.invoices, l.id) = InvoiceOf(l)
       /\ \A i \in v.invoices : i.id = l.id => i = InvoiceOf(l)
  /\ l.class \in {"SUBSCRIPTION_FAILURE", "MANDATE_HEALTH"} =>
       MandateOf(l) \in v.mandates /\ RowWith(v.mandates, l.id) = MandateOf(l)

LEMMA RowsOfView ==
  ASSUME NEW w, IsWorld(w), NEW O, NEW l \in w.losses
  PROVE  HasRowsOf(View(w.losses, w.attempts, O), l)
<1> DEFINE v == View(w.losses, w.attempts, O)
<1>1. \A k, m \in w.losses : k.id = m.id => k = m
  BY DEF IsWorld
<1>2. ASSUME l.class = "CHECKOUT_ABANDONMENT"
      PROVE  /\ SessionOf(l) \in v.sessions /\ RowWith(v.sessions, l.id) = SessionOf(l)
             /\ \A s \in v.sessions : s.id = l.id => s = SessionOf(l)
  <2>1. SessionOf(l) \in v.sessions /\ SessionOf(l).id = l.id
    BY <1>2 DEF View, OfClass, SessionOf
  <2>2. \A y \in v.sessions : \E m \in w.losses : y = SessionOf(m) /\ y.id = m.id
    BY DEF View, OfClass, SessionOf
  <2>3. \A y \in v.sessions : y.id = l.id => y = SessionOf(l)
    BY <1>1, <2>2
  <2> QED  BY <2>1, <2>3 DEF RowWith
<1>3. ASSUME l.class = "SUBSCRIPTION_FAILURE"
      PROVE  /\ SubscriptionOf(l) \in v.subscriptions
             /\ RowWith(v.subscriptions, l.id) = SubscriptionOf(l)
  <2>1. SubscriptionOf(l) \in v.subscriptions /\ SubscriptionOf(l).id = l.id
    BY <1>3 DEF View, OfClass, SubscriptionOf
  <2>2. \A y \in v.subscriptions : \E m \in w.losses : y = SubscriptionOf(m) /\ y.id = m.id
    BY DEF View, OfClass, SubscriptionOf
  <2>3. \A y \in v.subscriptions : y.id = l.id => y = SubscriptionOf(l)
    BY <1>1, <2>2
  <2> QED  BY <2>1, <2>3 DEF RowWith
<1>4. ASSUME l.class = "RECEIVABLE_OVERDUE"
      PROVE  /\ InvoiceOf(l) \in v.invoices /\ RowWith(v.invoices, l.id) = InvoiceOf(l)
             /\ \A i \in v.invoices : i.id = l.id => i = InvoiceOf(l)
  <2>1. InvoiceOf(l) \in v.invoices /\ InvoiceOf(l).id = l.id
    BY <1>4 DEF View, OfClass, InvoiceOf
  <2>2. \A y \in v.invoices : \E m \in w.losses : y = InvoiceOf(m) /\ y.id = m.id
    BY DEF View, OfClass, InvoiceOf
  <2>3. \A y \in v.invoices : y.id = l.id => y = InvoiceOf(l)
    BY <1>1, <2>2
  <2> QED  BY <2>1, <2>3 DEF RowWith
<1>5. ASSUME l.class \in {"SUBSCRIPTION_FAILURE", "MANDATE_HEALTH"}
      PROVE  MandateOf(l) \in v.mandates /\ RowWith(v.mandates, l.id) = MandateOf(l)
  <2>1. MandateOf(l) \in v.mandates /\ MandateOf(l).id = l.id
    BY <1>5 DEF View, OfClass, MandateOf
  <2>2. \A y \in v.mandates : \E m \in w.losses : y = MandateOf(m) /\ y.id = m.id
    BY DEF View, OfClass, MandateOf
  <2>3. \A y \in v.mandates : y.id = l.id => y = MandateOf(l)
    BY <1>1, <2>2
  <2> QED  BY <2>1, <2>3 DEF RowWith
<1> QED  BY <1>2, <1>3, <1>4, <1>5 DEF HasRowsOf

\* The key that leads from a row of the world to what is detected.
LEMMA CanonicalKeyIs ==
  ASSUME NEW w, IsWorld(w), NEW O, NEW l \in w.losses, NEW o, IsRowOf(o, l)
  PROVE  CanonicalKey(o, View(w.losses, w.attempts, O)) =
           IF l.class = "CHECKOUT_ABANDONMENT" THEN CheckoutKey(l.customer, l.id) ELSE KeyOfLoss(l)
<1> DEFINE v == View(w.losses, w.attempts, O)
<1>1. IsLoss(l)
  BY DEF IsWorld
<1>2. o.class = l.class /\ o.id = l.id /\ o.customer = l.customer /\ l.class \in RiskClass
  BY <1>1, LossTyped DEF IsRowOf
<1>3. l.class = "SUBSCRIPTION_FAILURE" =>
       (CHOOSE s \in v.subscriptions : s.id = l.id) = SubscriptionOf(l)
  <2>1. l.class = "SUBSCRIPTION_FAILURE" => RowWith(v.subscriptions, l.id) = SubscriptionOf(l)
    BY RowsOfView DEF HasRowsOf
  <2> QED  BY <2>1 DEF RowWith
<1>4. l.class = "MANDATE_HEALTH" => (CHOOSE m \in v.mandates : m.id = l.id) = MandateOf(l)
  BY RowsOfView DEF HasRowsOf, RowWith
<1> HIDE DEF v
<1>5. CASE l.class = "PAYMENT_FAILURE"
  BY <1>2, <1>5 DEF CanonicalKey, KeyOfLoss, v
<1>6. CASE l.class = "CHECKOUT_ABANDONMENT"
  BY <1>2, <1>6 DEF CanonicalKey, v
<1>7. CASE l.class = "SUBSCRIPTION_FAILURE"
  <2>1. SubscriptionOf(l).number = l.number
    BY DEF SubscriptionOf
  <2>2. CanonicalKey(o, v) = SubscriptionKey(l.id, (CHOOSE s \in v.subscriptions : s.id = l.id).number)
    BY <1>2, <1>7 DEF CanonicalKey
  <2> QED  BY <1>3, <1>7, <2>1, <2>2 DEF KeyOfLoss, v
<1>8. CASE l.class = "RECEIVABLE_OVERDUE"
  BY <1>2, <1>8 DEF CanonicalKey, KeyOfLoss, v
<1>9. CASE l.class = "MANDATE_HEALTH"
  <2>1. MandateOf(l).expires = l.at + l.days * Day
    BY <1>9 DEF MandateOf
  <2>2. CanonicalKey(o, v) = MandateKey(l.id, (CHOOSE m \in v.mandates : m.id = l.id).expires)
    BY <1>2, <1>9 DEF CanonicalKey
  <2> QED  BY <1>4, <1>9, <2>1, <2>2 DEF KeyOfLoss, v
<1> QED  BY <1>2, <1>5, <1>6, <1>7, <1>8, <1>9 DEF RiskClass

\* What is detected has one row, that of its loss, but for an anonymous checkout.
LEMMA RowsOfLoss ==
  ASSUME NEW w, IsWorld(w), NEW O, RowsMatch(O, w), NEW l \in w.losses,
         NEW d, d.key = KeyOfLoss(l)
  PROVE  IF CustomerOf(l) = Anonymous THEN RowsOf(d, View(w.losses, w.attempts, O)) = {}
         ELSE \E o \in O : IsRowOf(o, l) /\ RowsOf(d, View(w.losses, w.attempts, O)) = {o}
<1> DEFINE v == View(w.losses, w.attempts, O)
           Led(m) == IF m.class = "CHECKOUT_ABANDONMENT" THEN CheckoutKey(m.customer, m.id)
                     ELSE KeyOfLoss(m)
<1>1. RowsOf(d, v) = {o \in O : CanonicalKey(o, v) = KeyOfLoss(l)}
  BY DEF RowsOf, View
<1>2. \A m \in w.losses : \A o \in O : IsRowOf(o, m) => CanonicalKey(o, v) = Led(m)
  BY CanonicalKeyIs
<1>3. \A m \in w.losses : IsLoss(m)
  BY DEF IsWorld
<1>4. \A m \in w.losses : /\ m.customer \in Customer /\ m.customer # Anonymous /\ m.id \in Loss
                          /\ m.id \notin Customer
  BY <1>3, LossTyped, RowsAssumption
<1> HIDE DEF v
<1>5. ASSUME NEW m \in w.losses, Led(m) = KeyOfLoss(l)
      PROVE  l = m /\ CustomerOf(l) # Anonymous
  <2>1. CASE m.class # "CHECKOUT_ABANDONMENT"
    <3>1. l = m
      BY <1>5, <2>1, SameKeySameLoss
    <3> QED  BY <1>4, <2>1, <3>1 DEF CustomerOf
  <2>2. CASE m.class = "CHECKOUT_ABANDONMENT"
    <3>1. Led(m) = <<"CHECKOUT_ABANDONMENT", m.customer, m.id>>
      BY <1>4, <2>2 DEF CheckoutKey
    <3>2. l.class = "CHECKOUT_ABANDONMENT" /\ l.id = m.id
      BY <1>3, <1>5, <3>1, KeyOfLossIs
    <3>3. l = m
      BY <3>2 DEF IsWorld
    <3>4. KeyOfLoss(l) = CheckoutKey(CustomerOf(l), l.id)
      BY <3>2 DEF KeyOfLoss
    <3>5. CustomerOf(l) # Anonymous
      <4> SUFFICES ASSUME CustomerOf(l) = Anonymous
                   PROVE  FALSE
        OBVIOUS
      <4>1. KeyOfLoss(l) = <<"CHECKOUT_ABANDONMENT", l.id, l.id>>
        BY <3>4 DEF CheckoutKey
      <4>2. m.customer = l.id
        BY <1>5, <3>1, <4>1
      <4> QED  BY <1>4, <4>2
    <3> QED  BY <3>3, <3>5
  <2> QED  BY <2>1, <2>2
<1>6. CustomerOf(l) # Anonymous => Led(l) = KeyOfLoss(l)
  BY DEF CustomerOf, KeyOfLoss
<1>7. CASE CustomerOf(l) = Anonymous
  <2>1. RowsOf(d, v) = {}
    BY <1>1, <1>2, <1>5, <1>7 DEF RowsMatch
  <2> QED  BY <1>7, <2>1 DEF v
<1>8. CASE CustomerOf(l) # Anonymous
  <2>1. PICK o \in O : IsRowOf(o, l)
    BY DEF RowsMatch
  <2>2. o \in RowsOf(d, v)
    BY <1>1, <1>2, <1>6, <1>8, <2>1
  <2>3. ASSUME NEW r \in RowsOf(d, v)
        PROVE  r = o
    <3>1. PICK m \in w.losses : IsRowOf(r, m)
      BY <1>1 DEF RowsMatch
    <3>2. l = m
      BY <1>1, <1>2, <1>5, <3>1
    <3> QED  BY <1>1, <2>1, <3>1, <3>2 DEF IsRowOf, RowsMatch
  <2>4. RowsOf(d, v) = {o}
    BY <2>2, <2>3
  <2> QED  BY <1>8, <2>1, <2>4 DEF v
<1> QED  BY <1>7, <1>8

-----------------------------------------------------------------------------
(* The contacts of a customer, row by row and in one pass.                 *)

\* Two tables over the subsets of a set that go from what is the same with one
\* element less to the same are the same.
LEMMA SameTables ==
  ASSUME NEW T, IsFiniteSet(T), NEW g, NEW h, g[{}] = h[{}],
         \A s \in SUBSET T : s # {} /\ g[Others(s)] = h[Others(s)] => g[s] = h[s]
  PROVE  g[T] = h[T]
<1> DEFINE Good == {n \in Nat : \A s \in SUBSET T : Cardinality(s) = n => g[s] = h[s]}
<1>1. 0 \in Good
  BY OthersAreFewer
<1>2. ASSUME NEW n \in Nat, n \in Good
      PROVE  n + 1 \in Good
  <2> SUFFICES ASSUME NEW s \in SUBSET T, Cardinality(s) = n + 1
               PROVE  g[s] = h[s]
    OBVIOUS
  <2>1. s # {} /\ Others(s) \in SUBSET T /\ Cardinality(Others(s)) = n
    BY OthersAreFewer
  <2> QED  BY <1>2, <2>1
<1> HIDE DEF Good
<1>3. Cardinality(T) \in Good
  BY <1>1, <1>2, NumberInduction, OthersAreFewer
<1> QED  BY <1>3 DEF Good

IsTotals(T, g) ==
  g = [s \in SUBSET T |-> IF s = {} THEN 0 ELSE g[Others(s)] + AnElement(s).contacts]

Contacts(T) == [o \in T |-> o.contacts]

LEMMA ContactsAreSummed ==
  ASSUME NEW T, IsFiniteSet(T), \A o \in T : o.contacts \in Nat
  PROVE  FoldSet(LAMBDA o, n : n + o.contacts, 0, T) = SumOver(Contacts(T), T)
<1> DEFINE g == [s \in SUBSET T |-> SumOver(Contacts(T), s)]
           h == CHOOSE x : IsTotals(T, x)
<1>1. FoldSet(LAMBDA o, n : n + o.contacts, 0, T) = h[T]
  BY DEF FoldSet, MapThenFoldSet, IsTotals, Others, AnElement
<1>2. Contacts(T) \in [T -> Int] /\ \A o \in T : Contacts(T)[o] = o.contacts
  BY DEF Contacts
<1>3. DOMAIN g = SUBSET T /\ \A s \in SUBSET T : g[s] = SumOver(Contacts(T), s)
  OBVIOUS
<1>4. g = [s \in SUBSET T |-> g[s]]
  OBVIOUS
<1> HIDE DEF g
<1>5. ASSUME NEW s \in SUBSET T
      PROVE  /\ g[s] = SumOver(Contacts(T), s) /\ g[s] \in Int
             /\ s = {} => g[s] = 0
             /\ s # {} => /\ Others(s) \in SUBSET T /\ AnElement(s) \in T
                          /\ g[s] = g[Others(s)] + AnElement(s).contacts
  <2>1. SumOver(Contacts(T), s) \in Int /\ SumOver(Contacts(T), {}) = 0
        /\ (s # {} => SumOver(Contacts(T), s) =
                        Contacts(T)[AnElement(s)] + SumOver(Contacts(T), Others(s)))
    BY <1>2, SumFacts
  <2>2. s # {} => /\ Others(s) \in SUBSET T /\ AnElement(s) \in T
                  /\ SumOver(Contacts(T), Others(s)) \in Int
    BY <1>2, SumFacts, OthersAreFewer
  <2>3. s # {} => AnElement(s).contacts \in Int
    BY <2>2
  <2>4. s # {} => g[Others(s)] = SumOver(Contacts(T), Others(s))
                      /\ Contacts(T)[AnElement(s)] = AnElement(s).contacts
    BY <1>2, <1>3, <2>2
  <2>5. g[s] = SumOver(Contacts(T), s)
    BY <1>3
  <2>6. s # {} => g[s] = g[Others(s)] + AnElement(s).contacts
    BY <2>1, <2>2, <2>3, <2>4, <2>5
  <2> QED  BY <2>1, <2>2, <2>5, <2>6
<1>6. IsTotals(T, g)
  BY <1>5, <1>4 DEF IsTotals
<1>7. IsTotals(T, h)
  BY <1>6
<1> HIDE DEF h
<1>8. g[{}] = h[{}] /\ \A s \in SUBSET T : s # {} /\ g[Others(s)] = h[Others(s)] => g[s] = h[s]
  BY <1>5, <1>7 DEF IsTotals
<1>9. g[T] = h[T]
  BY <1>8, SameTables
<1> QED  BY <1>1, <1>5, <1>9

\* What a row has to say of the contacts of a customer.
ContactsOf(c, t, span, T) ==
  [o \in T |-> IF o.customer = c /\ Within(o.first, t, span) THEN o.contacts ELSE 0]

LEMMA ContactsWithinIs ==
  ASSUME NEW v, IsFiniteSet(v.opportunities), \A o \in v.opportunities : o.contacts \in Nat,
         NEW c, NEW t, NEW span
  PROVE  ContactsWithin(v, c, t, span) =
           SumOver(ContactsOf(c, t, span, v.opportunities), v.opportunities)
<1> DEFINE O == v.opportunities
           T == {o \in O : o.customer = c /\ Within(o.first, t, span)}
           f == ContactsOf(c, t, span, O)
           Good == {U \in SUBSET O : SumOver(f, U) = SumOver(Contacts(T), U \cap T)}
<1>1. ContactsWithin(v, c, t, span) = FoldSet(LAMBDA o, n : n + o.contacts, 0, T)
  BY DEF ContactsWithin
<1> HIDE DEF O
<1>2. IsFiniteSet(O) /\ \A o \in O : o.contacts \in Nat
  BY DEF O
<1>3. T \in SUBSET O /\ IsFiniteSet(T)
  BY <1>2, FS_Subset
<1>4. f \in [O -> Int] /\ \A o \in O : f[o] = IF o \in T THEN o.contacts ELSE 0
  BY <1>2 DEF ContactsOf
<1>5. Contacts(T) \in [T -> Int] /\ \A o \in T : Contacts(T)[o] = o.contacts
  BY <1>2, <1>3 DEF Contacts
<1> HIDE DEF T, f
<1>6. {} \in Good
  <2>1. SumOver(f, {}) = 0 /\ SumOver(Contacts(T), {}) = 0
    BY <1>2, <1>3, <1>4, <1>5, SumFacts
  <2>2. {} \cap T = {} /\ {} \in SUBSET O
    OBVIOUS
  <2> QED  BY <2>1, <2>2
<1>7. ASSUME NEW U \in SUBSET O, NEW x \in O, U \in Good, x \notin U
      PROVE  U \cup {x} \in Good
  <2>1. SumOver(f, U \cup {x}) = SumOver(f, U) + f[x] /\ SumOver(f, U) \in Int
    BY <1>2, <1>4, <1>7, SumAdds, SumFacts
  <2>2. SumOver(f, U) = SumOver(Contacts(T), U \cap T)
    BY <1>7
  <2>3. CASE x \in T
    <3>1. U \cap T \in SUBSET T /\ x \notin U \cap T /\ (U \cup {x}) \cap T = (U \cap T) \cup {x}
      BY <1>7, <2>3
    <3>2. SumOver(Contacts(T), (U \cap T) \cup {x}) = SumOver(Contacts(T), U \cap T) + Contacts(T)[x]
      <4>1. \A X \in SUBSET T : x \notin X =>
              SumOver(Contacts(T), X \cup {x}) = SumOver(Contacts(T), X) + Contacts(T)[x]
        BY <1>3, <1>5, <2>3, SumAdds
      <4> QED  BY <3>1, <4>1
    <3>3. f[x] = Contacts(T)[x]
      BY <1>4, <1>5, <2>3
    <3> QED  BY <2>1, <2>2, <3>1, <3>2, <3>3
  <2>4. CASE x \notin T
    <3>1. (U \cup {x}) \cap T = U \cap T /\ f[x] = 0
      BY <1>4, <2>4
    <3> QED  BY <2>1, <2>2, <3>1
  <2> QED  BY <2>3, <2>4
<1> HIDE DEF Good
<1>8. O \in Good
  <2>1. \A U \in SUBSET O, x \in O : U \in Good /\ x \notin U => U \cup {x} \in Good
    BY <1>7
  <2> QED  BY <1>2, <1>6, <2>1, SetInduction
<1>9. O \cap T = T
  BY <1>3
<1>10. SumOver(f, O) = SumOver(Contacts(T), T)
  BY <1>8, <1>9 DEF Good
<1>11. FoldSet(LAMBDA o, n : n + o.contacts, 0, T) = SumOver(Contacts(T), T)
  BY <1>2, <1>3, ContactsAreSummed
<1> QED  BY <1>1, <1>10, <1>11 DEF f, O

\* One row more is added to what is counted.
Counted(o, t, stats) ==
  [stats EXCEPT
     ![o.customer].lastMonth = @ + IF Within(o.first, t, 30 * Day) THEN o.contacts ELSE 0,
     ![o.customer].lastWeek  = @ + IF Within(o.first, t, 7 * Day) THEN o.contacts ELSE 0]

IsStats(t, S, g) ==
  g = [s \in SUBSET S |-> IF s = {} THEN [c \in Customer |-> NoContacts]
                          ELSE Counted(AnElement(s), t, g[Others(s)])]

\* The sums of all customers over some rows.
SumsOf(t, O, s) ==
  [c \in Customer |-> [lastWeek  |-> SumOver(ContactsOf(c, t, 7 * Day, O), s),
                       lastMonth |-> SumOver(ContactsOf(c, t, 30 * Day, O), s)]]

LEMMA ContactsOfTyped ==
  ASSUME NEW O, \A o \in O : o.contacts \in Nat, NEW c, NEW t, NEW span
  PROVE  /\ ContactsOf(c, t, span, O) \in [O -> Int]
         /\ \A o \in O : ContactsOf(c, t, span, O)[o] =
                           IF o.customer = c /\ Within(o.first, t, span) THEN o.contacts ELSE 0
BY DEF ContactsOf

LEMMA SumsGrow ==
  ASSUME NEW O, IsFiniteSet(O), \A o \in O : o.contacts \in Nat /\ o.customer \in Customer, NEW t,
         NEW s \in SUBSET O, s # {}
  PROVE  SumsOf(t, O, s) = Counted(AnElement(s), t, SumsOf(t, O, Others(s)))
<1> DEFINE o == AnElement(s)
           rest == Others(s)
           week == IF Within(o.first, t, 7 * Day) THEN o.contacts ELSE 0
           month == IF Within(o.first, t, 30 * Day) THEN o.contacts ELSE 0
           old == SumsOf(t, O, rest)
           new == Counted(o, t, old)
<1>1. o \in O /\ rest \in SUBSET O
  BY OthersAreFewer
<1>2. ASSUME NEW c, NEW span
      PROVE  SumOver(ContactsOf(c, t, span, O), s) =
               ContactsOf(c, t, span, O)[o] + SumOver(ContactsOf(c, t, span, O), rest)
  BY ContactsOfTyped, SumFacts
<1>3. o.contacts \in Int /\ o.customer \in Customer /\ week \in Int /\ month \in Int
  BY <1>1
<1>4. \A c, span : SumOver(ContactsOf(c, t, span, O), rest) \in Int
  BY <1>1, ContactsOfTyped, SumFacts
<1>5. ASSUME NEW c, NEW span
      PROVE  SumOver(ContactsOf(c, t, span, O), s) =
               SumOver(ContactsOf(c, t, span, O), rest)
                 + IF c = o.customer /\ Within(o.first, t, span) THEN o.contacts ELSE 0
  <2>1. ContactsOf(c, t, span, O)[o] =
          IF o.customer = c /\ Within(o.first, t, span) THEN o.contacts ELSE 0
    BY <1>1, ContactsOfTyped
  <2> QED  BY <1>2, <1>3, <1>4, <2>1
<1> DEFINE W(c) == SumOver(ContactsOf(c, t, 7 * Day, O), rest)
           M(c) == SumOver(ContactsOf(c, t, 30 * Day, O), rest)
<1>6. \A c \in Customer : W(c) \in Int /\ M(c) \in Int
  BY <1>4
<1>7. old = [c \in Customer |-> [lastWeek |-> W(c), lastMonth |-> M(c)]]
  BY DEF SumsOf
<1>8. SumsOf(t, O, s) = [c \in Customer |->
                           [lastWeek  |-> W(c) + IF c = o.customer THEN week ELSE 0,
                            lastMonth |-> M(c) + IF c = o.customer THEN month ELSE 0]]
  <2>1. ASSUME NEW c
        PROVE  /\ SumOver(ContactsOf(c, t, 7 * Day, O), s) = W(c) + IF c = o.customer THEN week ELSE 0
               /\ SumOver(ContactsOf(c, t, 30 * Day, O), s) = M(c) + IF c = o.customer THEN month ELSE 0
    BY <1>5
  <2> QED  BY <2>1 DEF SumsOf
<1>9. new = [old EXCEPT ![o.customer].lastMonth = @ + month, ![o.customer].lastWeek = @ + week]
  BY DEF Counted
<1> HIDE DEF o, rest, week, month, old, new, W, M
<1>10. new = [c \in Customer |->
                [lastWeek  |-> W(c) + IF c = o.customer THEN week ELSE 0,
                 lastMonth |-> M(c) + IF c = o.customer THEN month ELSE 0]]
  <2> DEFINE goal == [c \in Customer |->
                [lastWeek  |-> W(c) + IF c = o.customer THEN week ELSE 0,
                 lastMonth |-> M(c) + IF c = o.customer THEN month ELSE 0]]
  <2>1. DOMAIN new = Customer /\ new = [c \in Customer |-> new[c]]
    BY <1>7, <1>9
  <2>2. ASSUME NEW c \in Customer, c # o.customer
        PROVE  new[c] = goal[c]
    BY <1>6, <1>7, <1>9, <2>2
  <2>3. new[o.customer] = goal[o.customer]
    BY <1>3, <1>6, <1>7, <1>9
  <2>4. \A c \in Customer : new[c] = goal[c]
    BY <2>2, <2>3
  <2> QED  BY <2>1, <2>4
<1> QED  BY <1>8, <1>10 DEF new, old, o, rest

LEMMA StatsAreSums ==
  ASSUME NEW v, IsFiniteSet(v.opportunities),
         \A o \in v.opportunities : o.contacts \in Nat /\ o.customer \in Customer, NEW t
  PROVE  ContactStats(v, t) = SumsOf(t, v.opportunities, v.opportunities)
<1> DEFINE O == v.opportunities
           g == [s \in SUBSET O |-> SumsOf(t, O, s)]
           h == CHOOSE x : IsStats(t, O, x)
<1>1. ContactStats(v, t) = h[O]
  BY DEF ContactStats, FoldSet, MapThenFoldSet, IsStats, Counted, Others, AnElement
<1>2. DOMAIN g = SUBSET O /\ \A s \in SUBSET O : g[s] = SumsOf(t, O, s)
  OBVIOUS
<1>3. g = [s \in SUBSET O |-> g[s]]
  OBVIOUS
<1> HIDE DEF g, O
<1>4. IsFiniteSet(O) /\ \A o \in O : o.contacts \in Nat /\ o.customer \in Customer
  BY DEF O
<1>5. SumsOf(t, O, {}) = [c \in Customer |-> NoContacts]
  <2>1. \A c, span : SumOver(ContactsOf(c, t, span, O), {}) = 0
    BY <1>4, ContactsOfTyped, SumFacts
  <2> QED  BY <2>1 DEF SumsOf, NoContacts
<1>6. \A s \in SUBSET O : s # {} => /\ Others(s) \in SUBSET O
                                    /\ g[s] = Counted(AnElement(s), t, g[Others(s)])
  BY <1>2, <1>4, SumsGrow, OthersAreFewer
<1>7. g[{}] = [c \in Customer |-> NoContacts]
  BY <1>2, <1>5
<1>8. IsStats(t, O, g)
  BY <1>3, <1>6, <1>7 DEF IsStats
<1>9. IsStats(t, O, h)
  BY <1>8
<1> HIDE DEF h
<1>10. g[{}] = h[{}] /\ \A s \in SUBSET O : s # {} /\ g[Others(s)] = h[Others(s)] => g[s] = h[s]
  BY <1>6, <1>7, <1>9 DEF IsStats
<1>11. g[O] = h[O]
  BY <1>4, <1>10, SameTables
<1> QED  BY <1>1, <1>2, <1>11 DEF O

LEMMA IndexedContacts ==
  ASSUME NEW v, IsFiniteSet(v.opportunities),
         \A o \in v.opportunities : o.contacts \in Nat /\ o.customer \in Customer, NEW t,
         NEW c \in Customer \cup {Anonymous}
  PROVE  /\ Indexed(ContactStats(v, t), c, NoContacts).lastWeek = ContactsWithin(v, c, t, 7 * Day)
         /\ Indexed(ContactStats(v, t), c, NoContacts).lastMonth = ContactsWithin(v, c, t, 30 * Day)
<1>1. \A span : ContactsWithin(v, c, t, span) =
                  SumOver(ContactsOf(c, t, span, v.opportunities), v.opportunities)
  BY ContactsWithinIs
<1>2. CASE c = Anonymous
  <2>1. Indexed(ContactStats(v, t), c, NoContacts) = NoContacts
    BY <1>2 DEF Indexed
  <2>2. ASSUME NEW span
        PROVE  SumOver(ContactsOf(c, t, span, v.opportunities), v.opportunities) = 0
    <3> DEFINE f == ContactsOf(c, t, span, v.opportunities)
    <3>1. f \in [v.opportunities -> Int] /\ \A o \in v.opportunities : f[o] = 0
      <4>1. /\ f \in [v.opportunities -> Int]
            /\ \A o \in v.opportunities :
                 f[o] = IF o.customer = c /\ Within(o.first, t, span) THEN o.contacts ELSE 0
        BY ContactsOfTyped
      <4>2. \A o \in v.opportunities : o.customer # c
        BY <1>2, RowsAssumption
      <4> QED  BY <4>1, <4>2
    <3> HIDE DEF f
    <3>2. \A S \in SUBSET v.opportunities : SumOver(f, S) = 0
      BY <3>1, SumOfZeros
    <3> QED  BY <3>2 DEF f
  <2> QED  BY <1>1, <2>1, <2>2 DEF NoContacts
<1>3. CASE c # Anonymous
  BY <1>1, <1>3, StatsAreSums DEF Indexed, SumsOf
<1> QED  BY <1>2, <1>3

-----------------------------------------------------------------------------
(* What is detected, and the reads of it.                                  *)

LEMMA DetectedSource ==
  ASSUME NEW w, IsWorld(w), NEW t \in Nat, NEW O,
         NEW d \in Detect(View(w.losses, w.attempts, O), t)
  PROVE  \E e \in Drafts(View(w.losses, w.attempts, O), t) :
           /\ d = Assessed(e, View(w.losses, w.attempts, O), t)
           /\ \E l \in w.losses : IsFrom(e, l, w, t)
BY DraftSource DEF Detect

LEMMA AssessedIs ==
  ASSUME NEW e, NEW v, NEW t
  PROVE  LET d == Assessed(e, v, t)
         IN  /\ d.key = e.key /\ d.class = e.class /\ d.ref = e.ref /\ d.customer = e.customer
             /\ d.value = e.gross /\ d.first = e.first /\ d.expires = WindowEnd(e)
             /\ d.hindrance = Hindrance(e, t)
BY DEF Assessed

\* Whose it is, for the rows that are read of it.
LEMMA LossOfDetected ==
  ASSUME NEW w, IsWorld(w), NEW t \in Nat, NEW O,
         NEW d \in Detect(View(w.losses, w.attempts, O), t)
  PROVE  \E l \in w.losses :
           /\ IsLoss(l) /\ Happened(l, t)
           /\ d.class = l.class /\ d.ref = l.id /\ d.customer = CustomerOf(l)
           /\ d.customer \in Customer \cup {Anonymous}
           /\ d.key = KeyOfLoss(l)
<1>1. PICK e \in Drafts(View(w.losses, w.attempts, O), t) :
        /\ d = Assessed(e, View(w.losses, w.attempts, O), t)
        /\ \E l \in w.losses : IsFrom(e, l, w, t)
  BY DetectedSource
<1>2. PICK l \in w.losses : IsFrom(e, l, w, t)
  BY <1>1
<1>3. IsLoss(l)
  BY DEF IsWorld
<1>4. CustomerOf(l) \in Customer \cup {Anonymous}
  BY <1>3, LossTyped DEF CustomerOf
<1>5. d.key = e.key /\ d.class = e.class /\ d.ref = e.ref /\ d.customer = e.customer
  BY <1>1, AssessedIs
<1> QED  BY <1>2, <1>3, <1>4, <1>5 DEF IsFrom, IsDraftOf

LEMMA SameAttempts ==
  ASSUME NEW v, NEW t, NEW c \in Customer \cup {Anonymous}
  PROVE  Indexed(CacheOf(v, t).attempts, c, <<>>) = CustomerAttempts(v, c, t)
<1> DEFINE T == v.transactions
           P == {i \in DOMAIN T : Within(T[i].at, t, HistoryWindow)}
           past == [i \in P |-> T[i]]
           Q == {i \in DOMAIN T : c # Anonymous /\ T[i].customer = c /\ Within(T[i].at, t, HistoryWindow)}
<1>1. CustomerAttempts(v, c, t) = [i \in Q |-> T[i]]
  BY DEF CustomerAttempts, RestrictValues, Restrict
<1>2. CASE c = Anonymous
  <2>1. Q = {}
    BY <1>2
  <2>2. [i \in {} |-> T[i]] = <<>>
    OBVIOUS
  <2> QED  BY <1>1, <1>2, <2>1, <2>2 DEF Indexed
<1>3. CASE c # Anonymous
  <2>1. RestrictValues(T, LAMBDA x : Within(x.at, t, HistoryWindow)) = past
    BY DEF RestrictValues, Restrict
  <2>2. Indexed(CacheOf(v, t).attempts, c, <<>>) = RestrictValues(past, LAMBDA x : x.customer = c)
    BY <1>3, <2>1 DEF Indexed, CacheOf
  <2>3. RestrictValues(past, LAMBDA x : x.customer = c) =
          [i \in {j \in DOMAIN past : past[j].customer = c} |-> past[i]]
    BY DEF RestrictValues, Restrict
  <2>4. {j \in DOMAIN past : past[j].customer = c} = Q
    BY <1>3
  <2>5. \A i \in Q : past[i] = T[i]
    OBVIOUS
  <2> QED  BY <1>1, <2>2, <2>3, <2>4, <2>5
<1> QED  BY <1>2, <1>3

LEMMA SameCounts ==
  ASSUME NEW w, IsWorld(w), NEW O, NEW t, NEW d, d.customer \in Customer \cup {Anonymous}
  PROVE  LET v == View(w.losses, w.attempts, O)
         IN  /\ CachedAbandonments(CacheOf(v, t), d) = PriorAbandonments(v, d.customer, d.ref, t)
             /\ CachedOverdue(CacheOf(v, t), d) = PriorOverdue(v, d.customer, d.ref, t)
<1> DEFINE v == View(w.losses, w.attempts, O)
           C == CacheOf(v, t)
           c == d.customer
<1>1. \A i \in v.invoices : i.customer # Anonymous
  <2>1. \A l \in w.losses : InvoiceOf(l).customer = l.customer /\ l.customer \in Customer
    BY LossTyped DEF IsWorld, InvoiceOf
  <2> QED  BY <2>1, RowsAssumption DEF View, OfClass
<1>2. /\ C.now = t /\ C.sessions = [x \in Customer |-> {s \in v.sessions : s.customer = x}]
      /\ C.invoices = [x \in Customer |-> {i \in v.invoices : i.customer = x}]
  BY DEF CacheOf, ByCustomer
<1> HIDE DEF v, C
<1>3. {s \in Indexed(C.sessions, c, {}) : s.id # d.ref /\ Within(s.abandoned, t, HistoryWindow)} =
      {s \in v.sessions : /\ c # Anonymous /\ s.customer = c /\ s.id # d.ref
                          /\ Within(s.abandoned, t, HistoryWindow)}
  BY <1>2 DEF Indexed
<1>4. {i \in Indexed(C.invoices, c, {}) :
         i.id # d.ref /\ i.due <= t /\ i.state \in {"OVERDUE", "DISPUTED"}} =
      {i \in v.invoices : /\ i.customer = c /\ i.id # d.ref /\ i.due <= t
                          /\ i.state \in {"OVERDUE", "DISPUTED"}}
  BY <1>1, <1>2 DEF Indexed
<1>5. CachedAbandonments(C, d) = PriorAbandonments(v, c, d.ref, t)
  BY <1>2, <1>3 DEF CachedAbandonments, PriorAbandonments
<1>6. CachedOverdue(C, d) = PriorOverdue(v, c, d.ref, t)
  BY <1>2, <1>4 DEF CachedOverdue, PriorOverdue
<1> QED  BY <1>5, <1>6 DEF v, C

\* The row of each kind that the reads of a loss are of.
RowOf(l) ==
  CASE l.class = "CHECKOUT_ABANDONMENT" -> SessionOf(l)
    [] l.class = "SUBSCRIPTION_FAILURE" -> MandateOf(l)
    [] l.class = "RECEIVABLE_OVERDUE"   -> InvoiceOf(l)
    [] l.class = "MANDATE_HEALTH"       -> MandateOf(l)
    [] OTHER                            -> "NONE"

LEMMA DirectRow ==
  ASSUME NEW v, NEW l, HasRowsOf(v, l), NEW t, NEW d, d.class = l.class, d.ref = l.id
  PROVE  DirectReads(d, v, t).row = RowOf(l)
<1>1. SubscriptionOf(l).mandate = l.id
  BY DEF SubscriptionOf
<1>2. /\ l.class = "CHECKOUT_ABANDONMENT" => RowWith(v.sessions, l.id) = SessionOf(l)
      /\ l.class = "SUBSCRIPTION_FAILURE" =>
           RowWith(v.mandates, RowWith(v.subscriptions, l.id).mandate) = MandateOf(l)
      /\ l.class = "RECEIVABLE_OVERDUE" => RowWith(v.invoices, l.id) = InvoiceOf(l)
      /\ l.class = "MANDATE_HEALTH" => RowWith(v.mandates, l.id) = MandateOf(l)
  <2>1. l.class = "CHECKOUT_ABANDONMENT" => RowWith(v.sessions, l.id) = SessionOf(l)
    BY DEF HasRowsOf
  <2>2. l.class = "SUBSCRIPTION_FAILURE" => /\ RowWith(v.subscriptions, l.id) = SubscriptionOf(l)
                                            /\ RowWith(v.mandates, l.id) = MandateOf(l)
    BY DEF HasRowsOf
  <2>3. l.class = "RECEIVABLE_OVERDUE" => RowWith(v.invoices, l.id) = InvoiceOf(l)
    BY DEF HasRowsOf
  <2>4. l.class = "MANDATE_HEALTH" => RowWith(v.mandates, l.id) = MandateOf(l)
    BY DEF HasRowsOf
  <2> QED  BY <1>1, <2>1, <2>2, <2>3, <2>4
<1>3. DirectReads(d, v, t).row =
        CASE d.class = "CHECKOUT_ABANDONMENT" -> RowWith(v.sessions, d.ref)
          [] d.class = "SUBSCRIPTION_FAILURE" ->
               RowWith(v.mandates, RowWith(v.subscriptions, d.ref).mandate)
          [] d.class = "RECEIVABLE_OVERDUE"   -> RowWith(v.invoices, d.ref)
          [] d.class = "MANDATE_HEALTH"       -> RowWith(v.mandates, d.ref)
          [] OTHER                            -> "NONE"
  BY DEF DirectReads
<1> QED  BY <1>2, <1>3 DEF RowOf

LEMMA CachedRow ==
  ASSUME NEW v, NEW l, HasRowsOf(v, l), NEW t, NEW d, d.class = l.class, d.ref = l.id
  PROVE  CachedReads(d, CacheOf(v, t)).row = RowOf(l)
<1> DEFINE C == CacheOf(v, t)
<1>1. SubscriptionOf(l).mandate = l.id
  BY DEF SubscriptionOf
<1>2. ASSUME NEW S, NEW x \in S, x.id = l.id
      PROVE  RowsById(S)[l.id] = RowWith(S, l.id)
  BY <1>2 DEF RowsById
<1>3. /\ C.sessionOf = RowsById(v.sessions) /\ C.subscriptionOf = RowsById(v.subscriptions)
      /\ C.mandateOf = RowsById(v.mandates) /\ C.invoiceOf = RowsById(v.invoices)
  BY DEF CacheOf
<1>4. l.class = "CHECKOUT_ABANDONMENT" => C.sessionOf[l.id] = SessionOf(l)
  <2>1. SessionOf(l).id = l.id
    BY DEF SessionOf
  <2>2. l.class = "CHECKOUT_ABANDONMENT" =>
          SessionOf(l) \in v.sessions /\ RowWith(v.sessions, l.id) = SessionOf(l)
    BY DEF HasRowsOf
  <2> QED  BY <1>2, <1>3, <2>1, <2>2
<1>5. l.class = "SUBSCRIPTION_FAILURE" => C.subscriptionOf[l.id] = SubscriptionOf(l)
  <2>1. SubscriptionOf(l).id = l.id
    BY DEF SubscriptionOf
  <2>2. l.class = "SUBSCRIPTION_FAILURE" =>
          SubscriptionOf(l) \in v.subscriptions /\ RowWith(v.subscriptions, l.id) = SubscriptionOf(l)
    BY DEF HasRowsOf
  <2> QED  BY <1>2, <1>3, <2>1, <2>2
<1>6. l.class = "RECEIVABLE_OVERDUE" => C.invoiceOf[l.id] = InvoiceOf(l)
  <2>1. InvoiceOf(l).id = l.id
    BY DEF InvoiceOf
  <2>2. l.class = "RECEIVABLE_OVERDUE" =>
          InvoiceOf(l) \in v.invoices /\ RowWith(v.invoices, l.id) = InvoiceOf(l)
    BY DEF HasRowsOf
  <2> QED  BY <1>2, <1>3, <2>1, <2>2
<1>7. l.class \in {"SUBSCRIPTION_FAILURE", "MANDATE_HEALTH"} => C.mandateOf[l.id] = MandateOf(l)
  <2>1. MandateOf(l).id = l.id
    BY DEF MandateOf
  <2>2. l.class \in {"SUBSCRIPTION_FAILURE", "MANDATE_HEALTH"} =>
          MandateOf(l) \in v.mandates /\ RowWith(v.mandates, l.id) = MandateOf(l)
    BY DEF HasRowsOf
  <2> QED  BY <1>2, <1>3, <2>1, <2>2
<1> HIDE DEF C
<1>8. CachedReads(d, C).row =
        CASE d.class = "CHECKOUT_ABANDONMENT" -> C.sessionOf[d.ref]
          [] d.class = "SUBSCRIPTION_FAILURE" -> C.mandateOf[C.subscriptionOf[d.ref].mandate]
          [] d.class = "RECEIVABLE_OVERDUE"   -> C.invoiceOf[d.ref]
          [] d.class = "MANDATE_HEALTH"       -> C.mandateOf[d.ref]
          [] OTHER                            -> "NONE"
  BY DEF CachedReads
<1> QED  BY <1>1, <1>4, <1>5, <1>6, <1>7, <1>8 DEF RowOf, C

LEMMA RowsTyped ==
  ASSUME NEW w, IsWorld(w), NEW O, RowsMatch(O, w)
  PROVE  /\ IsFiniteSet(O) /\ \A o \in O : o.contacts \in Nat /\ o.customer \in Customer
         /\ View(w.losses, w.attempts, O).opportunities = O
<1>1. \A l \in w.losses : l.customer \in Customer
  BY LossTyped DEF IsWorld
<1> QED  BY <1>1 DEF RowsMatch, IsRowOf, View

\* The cache of a cycle holds what the rows of its view say.
LEMMA CacheIsView ==
  ASSUME NEW w, IsWorld(w), NEW O, RowsMatch(O, w), NEW t \in Nat,
         NEW d \in Detect(View(w.losses, w.attempts, O), t)
  PROVE  CachedReads(d, CacheOf(View(w.losses, w.attempts, O), t)) =
           DirectReads(d, View(w.losses, w.attempts, O), t)
<1>1. PICK v : v = View(w.losses, w.attempts, O)
  OBVIOUS
<1> DEFINE C == CacheOf(v, t)
           a == CachedReads(d, C)
           b == DirectReads(d, v, t)
<1>2. PICK l \in w.losses : d.class = l.class /\ d.ref = l.id
                            /\ d.customer \in Customer \cup {Anonymous}
  BY <1>1, LossOfDetected
<1>3. a.row = b.row
  <2> HasRowsOf(v, l)
    BY <1>1, RowsOfView
  <2>1. a.row = RowOf(l)
    BY <1>2, CachedRow
  <2>2. b.row = RowOf(l)
    BY <1>2, DirectRow
  <2> QED  BY <2>1, <2>2
<1>4. Indexed(C.attempts, d.customer, <<>>) = CustomerAttempts(v, d.customer, t)
  BY <1>2, SameAttempts
<1>5. /\ CachedAbandonments(C, d) = PriorAbandonments(v, d.customer, d.ref, t)
      /\ CachedOverdue(C, d) = PriorOverdue(v, d.customer, d.ref, t)
  BY <1>1, <1>2, SameCounts
<1>6. /\ IsFiniteSet(v.opportunities)
      /\ \A o \in v.opportunities : o.contacts \in Nat /\ o.customer \in Customer
  BY <1>1, RowsTyped
<1>7. /\ C.contacts = ContactStats(v, t) /\ C.degraded = DegradedMethods(v, t)
      /\ C.rates = [m \in Method |-> FailureRate(v, {m}, t)]
      /\ C.merchantRate = FailureRate(v, Method, t)
  BY DEF CacheOf
<1> HIDE DEF C
<1>8. /\ Indexed(C.contacts, d.customer, NoContacts).lastWeek
        = ContactsWithin(v, d.customer, t, 7 * Day)
      /\ Indexed(C.contacts, d.customer, NoContacts).lastMonth
        = ContactsWithin(v, d.customer, t, 30 * Day)
  BY <1>2, <1>6, <1>7, IndexedContacts
<1>9. a = [attempts |-> a.attempts, lastWeek |-> a.lastWeek, lastMonth |-> a.lastMonth,
           abandonments |-> a.abandonments, overdue |-> a.overdue, degraded |-> a.degraded,
           rates |-> a.rates, merchantRate |-> a.merchantRate, row |-> a.row]
  BY DEF CachedReads
<1>10. b = [attempts |-> b.attempts, lastWeek |-> b.lastWeek, lastMonth |-> b.lastMonth,
           abandonments |-> b.abandonments, overdue |-> b.overdue, degraded |-> b.degraded,
           rates |-> b.rates, merchantRate |-> b.merchantRate, row |-> b.row]
  BY DEF DirectReads
<1>11. /\ a.attempts = b.attempts /\ a.lastWeek = b.lastWeek /\ a.lastMonth = b.lastMonth
       /\ a.abandonments = b.abandonments /\ a.overdue = b.overdue /\ a.degraded = b.degraded
       /\ a.rates = b.rates /\ a.merchantRate = b.merchantRate
  BY <1>4, <1>5, <1>7, <1>8 DEF CachedReads, DirectReads
<1> HIDE DEF a, b
<1>12. a = b
  BY <1>3, <1>9, <1>10, <1>11
<1> QED  BY <1>1, <1>12 DEF a, b, C

-----------------------------------------------------------------------------
(* What lies ahead is read by nobody.                                      *)

IsView(v) ==
  DOMAIN v = {"transactions", "sessions", "subscriptions", "invoices", "mandates", "opportunities"}

LEMMA ViewIsView ==
  ASSUME NEW L, NEW A, NEW O
  PROVE  IsView(View(L, A, O)) /\ View(L, A, O).transactions = A /\ View(L, A, O).opportunities = O
BY DEF IsView, View

LEMMA PastIs ==
  ASSUME NEW v, IsView(v), NEW t
  PROVE  /\ Past(v, t).transactions = [i \in {j \in DOMAIN v.transactions : v.transactions[j].at <= t} |->
                                         v.transactions[i]]
         /\ \A s : s \in Past(v, t).sessions <=> s \in v.sessions /\ s.abandoned <= t
         /\ Past(v, t).subscriptions = v.subscriptions
         /\ \A i : i \in Past(v, t).invoices <=> i \in v.invoices /\ i.due <= t
         /\ Past(v, t).mandates = v.mandates
         /\ \A o : o \in Past(v, t).opportunities <=> o \in v.opportunities /\ o.first <= t
<1>1. RestrictValues(v.transactions, LAMBDA x : x.at <= t) =
        [i \in {j \in DOMAIN v.transactions : v.transactions[j].at <= t} |-> v.transactions[i]]
  BY DEF RestrictValues, Restrict
<1>2. Past(v, t) =
        [v EXCEPT !.transactions  = [i \in {j \in DOMAIN v.transactions : v.transactions[j].at <= t} |->
                                       v.transactions[i]],
                  !.sessions      = {s \in v.sessions : s.abandoned <= t},
                  !.invoices      = {i \in v.invoices : i.due <= t},
                  !.opportunities = {o \in v.opportunities : o.first <= t}]
  BY <1>1 DEF Past
<1> QED  BY <1>2 DEF IsView

LEMMA SameRecent ==
  ASSUME NEW v, IsView(v), NEW t
  PROVE  RecentAttempts(Past(v, t), t) = RecentAttempts(v, t)
<1> DEFINE T == v.transactions
           U == Past(v, t).transactions
           P == {i \in DOMAIN T : T[i].at >= t - DegradationWindow /\ T[i].at <= t}
           Q == {i \in DOMAIN U : U[i].at >= t - DegradationWindow /\ U[i].at <= t}
<1>1. RecentAttempts(v, t) = [i \in P |-> T[i]] /\ RecentAttempts(Past(v, t), t) = [i \in Q |-> U[i]]
  BY DEF RecentAttempts, RestrictValues, Restrict
<1>2. U = [i \in {j \in DOMAIN T : T[j].at <= t} |-> T[i]]
  BY PastIs
<1> HIDE DEF T, U
<1>3. P = Q /\ \A i \in P : U[i] = T[i]
  BY <1>2
<1> QED  BY <1>1, <1>3

LEMMA SameRates ==
  ASSUME NEW v, IsView(v), NEW t
  PROVE  /\ DegradedMethods(Past(v, t), t) = DegradedMethods(v, t)
         /\ \A M : FailureRate(Past(v, t), M, t) = FailureRate(v, M, t)
<1>1. RecentAttempts(Past(v, t), t) = RecentAttempts(v, t)
  BY SameRecent
<1>2. DegradedMethods(Past(v, t), t) = DegradedMethods(v, t)
  BY <1>1 DEF DegradedMethods
<1>3. \A M : FailureRate(Past(v, t), M, t) = FailureRate(v, M, t)
  BY <1>1 DEF FailureRate
<1> QED  BY <1>2, <1>3

LEMMA SameHistory ==
  ASSUME NEW v, IsView(v), NEW t, NEW c
  PROVE  CustomerAttempts(Past(v, t), c, t) = CustomerAttempts(v, c, t)
<1> DEFINE T == v.transactions
           U == Past(v, t).transactions
           P == {i \in DOMAIN T : c # Anonymous /\ T[i].customer = c /\ Within(T[i].at, t, HistoryWindow)}
           Q == {i \in DOMAIN U : c # Anonymous /\ U[i].customer = c /\ Within(U[i].at, t, HistoryWindow)}
<1>1. /\ CustomerAttempts(v, c, t) = [i \in P |-> T[i]]
      /\ CustomerAttempts(Past(v, t), c, t) = [i \in Q |-> U[i]]
  BY DEF CustomerAttempts, RestrictValues, Restrict
<1>2. U = [i \in {j \in DOMAIN T : T[j].at <= t} |-> T[i]]
  BY PastIs
<1> HIDE DEF T, U
<1>3. P = Q /\ \A i \in P : U[i] = T[i]
  BY <1>2 DEF Within
<1> QED  BY <1>1, <1>3

LEMMA SameLast ==
  ASSUME NEW v, IsView(v), NEW t, NEW order
  PROVE  LastAttempt(Past(v, t), order, t) = LastAttempt(v, order, t)
<1> DEFINE T == v.transactions
           U == Past(v, t).transactions
           P == {i \in DOMAIN T : T[i].order = order /\ T[i].at <= t}
           Q == {i \in DOMAIN U : U[i].order = order /\ U[i].at <= t}
<1>1. /\ RestrictValues(T, LAMBDA x : x.order = order /\ x.at <= t) = [i \in P |-> T[i]]
      /\ RestrictValues(U, LAMBDA x : x.order = order /\ x.at <= t) = [i \in Q |-> U[i]]
  BY DEF RestrictValues, Restrict
<1>2. U = [i \in {j \in DOMAIN T : T[j].at <= t} |-> T[i]]
  BY PastIs
<1>3. P = Q /\ \A i \in P : U[i] = T[i]
  <2> HIDE DEF T, U
  <2> QED  BY <1>2
<1>4. RestrictValues(T, LAMBDA x : x.order = order /\ x.at <= t) =
      RestrictValues(U, LAMBDA x : x.order = order /\ x.at <= t)
  BY <1>1, <1>3
<1> QED  BY <1>4 DEF LastAttempt

LEMMA SamePayments ==
  ASSUME NEW v, IsView(v), NEW t
  PROVE  PaymentDrafts(Past(v, t), t) = PaymentDrafts(v, t)
<1> DEFINE T == v.transactions
           U == Past(v, t).transactions
           P == {i \in DOMAIN T : T[i].at <= t}
           Q == {i \in DOMAIN U : U[i].at <= t}
<1>1. /\ RestrictValues(T, LAMBDA x : x.at <= t) = [i \in P |-> T[i]]
      /\ RestrictValues(U, LAMBDA x : x.at <= t) = [i \in Q |-> U[i]]
  BY DEF RestrictValues, Restrict
<1>2. U = [i \in {j \in DOMAIN T : T[j].at <= t} |-> T[i]]
  BY PastIs
<1>3. P = Q /\ \A i \in P : U[i] = T[i]
  <2> HIDE DEF T, U
  <2> QED  BY <1>2
<1>4. RestrictValues(T, LAMBDA x : x.at <= t) = RestrictValues(U, LAMBDA x : x.at <= t)
  BY <1>1, <1>3
<1> QED  BY <1>4 DEF PaymentDrafts

LEMMA SameDetected ==
  ASSUME NEW v, IsView(v), NEW t
  PROVE  Detect(Past(v, t), t) = Detect(v, t)
<1> DEFINE p == Past(v, t)
<1>1. /\ \A s : s \in p.sessions <=> s \in v.sessions /\ s.abandoned <= t
      /\ \A i : i \in p.invoices <=> i \in v.invoices /\ i.due <= t
      /\ p.subscriptions = v.subscriptions /\ p.mandates = v.mandates
  BY PastIs
<1>2. PaymentDrafts(p, t) = PaymentDrafts(v, t) /\ DegradedMethods(p, t) = DegradedMethods(v, t)
  BY SamePayments, SameRates
<1> HIDE DEF p
<1>3. CheckoutDrafts(p, t) = CheckoutDrafts(v, t)
  <2>1. {s \in p.sessions : s.abandoned <= t /\ s.stage \in RiskStages} =
        {s \in v.sessions : s.abandoned <= t /\ s.stage \in RiskStages}
    BY <1>1
  <2> QED  BY <2>1 DEF CheckoutDrafts
<1>4. SubscriptionDrafts(p, t) = SubscriptionDrafts(v, t)
  BY <1>1 DEF SubscriptionDrafts
<1>5. ReceivableDrafts(p, t) = ReceivableDrafts(v, t)
  <2>1. {i \in p.invoices : i.due <= t /\ ~IsClosed(i)}
        = {i \in v.invoices : i.due <= t /\ ~IsClosed(i)}
    BY <1>1
  <2> QED  BY <2>1 DEF ReceivableDrafts
<1>6. MandateDrafts(p, t) = MandateDrafts(v, t)
  <2>1. {m \in p.mandates : AtRisk(m, p, t)} = {m \in v.mandates : AtRisk(m, v, t)}
    BY <1>1 DEF AtRisk
  <2> QED  BY <2>1 DEF MandateDrafts
<1>7. Drafts(p, t) = Drafts(v, t)
  BY <1>2, <1>3, <1>4, <1>5, <1>6 DEF Drafts
<1>8. \A d : Assessed(d, p, t) = Assessed(d, v, t)
  BY <1>2 DEF Assessed
<1>9. Detect(p, t) = Detect(v, t)
  BY <1>7, <1>8 DEF Detect
<1> QED  BY <1>9 DEF p

LEMMA RowsOfPast ==
  ASSUME NEW v, IsView(v), NEW t, NEW l, HasRowsOf(v, l), Happened(l, t)
  PROVE  HasRowsOf(Past(v, t), l)
<1> DEFINE p == Past(v, t)
<1>1. /\ \A s : s \in p.sessions <=> s \in v.sessions /\ s.abandoned <= t
      /\ \A i : i \in p.invoices <=> i \in v.invoices /\ i.due <= t
      /\ p.subscriptions = v.subscriptions /\ p.mandates = v.mandates
  BY PastIs
<1> HIDE DEF p
<1>2. ASSUME l.class = "CHECKOUT_ABANDONMENT"
      PROVE  /\ SessionOf(l) \in p.sessions /\ RowWith(p.sessions, l.id) = SessionOf(l)
             /\ \A s \in p.sessions : s.id = l.id => s = SessionOf(l)
  <2>1. SessionOf(l).abandoned <= t /\ SessionOf(l).id = l.id
    BY <1>2 DEF Happened, SessionOf
  <2>2. SessionOf(l) \in p.sessions /\ \A s \in p.sessions : s.id = l.id => s = SessionOf(l)
    BY <1>1, <1>2, <2>1 DEF HasRowsOf
  <2> QED  BY <2>1, <2>2 DEF RowWith
<1>3. ASSUME l.class = "RECEIVABLE_OVERDUE"
      PROVE  /\ InvoiceOf(l) \in p.invoices /\ RowWith(p.invoices, l.id) = InvoiceOf(l)
             /\ \A i \in p.invoices : i.id = l.id => i = InvoiceOf(l)
  <2>1. InvoiceOf(l).due <= t /\ InvoiceOf(l).id = l.id
    BY <1>3 DEF Happened, InvoiceOf
  <2>2. InvoiceOf(l) \in p.invoices /\ \A i \in p.invoices : i.id = l.id => i = InvoiceOf(l)
    BY <1>1, <1>3, <2>1 DEF HasRowsOf
  <2> QED  BY <2>1, <2>2 DEF RowWith
<1>4. HasRowsOf(p, l)
  BY <1>1, <1>2, <1>3 DEF HasRowsOf
<1> QED  BY <1>4 DEF p

LEMMA SameCountsOfPast ==
  ASSUME NEW v, IsView(v), NEW t, NEW c, NEW id
  PROVE  /\ \A span : ContactsWithin(Past(v, t), c, t, span) = ContactsWithin(v, c, t, span)
         /\ PriorAbandonments(Past(v, t), c, id, t) = PriorAbandonments(v, c, id, t)
         /\ PriorOverdue(Past(v, t), c, id, t) = PriorOverdue(v, c, id, t)
<1> DEFINE p == Past(v, t)
<1>1. /\ \A s : s \in p.sessions <=> s \in v.sessions /\ s.abandoned <= t
      /\ \A i : i \in p.invoices <=> i \in v.invoices /\ i.due <= t
      /\ \A o : o \in p.opportunities <=> o \in v.opportunities /\ o.first <= t
  BY PastIs
<1> HIDE DEF p
<1>2. ASSUME NEW span
      PROVE  ContactsWithin(p, c, t, span) = ContactsWithin(v, c, t, span)
  <2>1. {o \in p.opportunities : o.customer = c /\ Within(o.first, t, span)} =
        {o \in v.opportunities : o.customer = c /\ Within(o.first, t, span)}
    BY <1>1 DEF Within
  <2> QED  BY <2>1 DEF ContactsWithin
<1>3. PriorAbandonments(p, c, id, t) = PriorAbandonments(v, c, id, t)
  <2>1. {s \in p.sessions : /\ c # Anonymous /\ s.customer = c /\ s.id # id
                            /\ Within(s.abandoned, t, HistoryWindow)} =
        {s \in v.sessions : /\ c # Anonymous /\ s.customer = c /\ s.id # id
                            /\ Within(s.abandoned, t, HistoryWindow)}
    BY <1>1 DEF Within
  <2> QED  BY <2>1 DEF PriorAbandonments
<1>4. PriorOverdue(p, c, id, t) = PriorOverdue(v, c, id, t)
  <2>1. {i \in p.invoices : /\ i.customer = c /\ i.id # id /\ i.due <= t
                            /\ i.state \in {"OVERDUE", "DISPUTED"}} =
        {i \in v.invoices : /\ i.customer = c /\ i.id # id /\ i.due <= t
                            /\ i.state \in {"OVERDUE", "DISPUTED"}}
    BY <1>1
  <2> QED  BY <2>1 DEF PriorOverdue
<1> QED  BY <1>2, <1>3, <1>4 DEF p

\* The reads of a context, one by one.
LEMMA SameReads ==
  ASSUME NEW d, NEW v, NEW u, NEW t,
         DirectReads(d, u, t).row = DirectReads(d, v, t).row,
         CustomerAttempts(u, d.customer, t) = CustomerAttempts(v, d.customer, t),
         \A span : ContactsWithin(u, d.customer, t, span) = ContactsWithin(v, d.customer, t, span),
         PriorAbandonments(u, d.customer, d.ref, t) = PriorAbandonments(v, d.customer, d.ref, t),
         PriorOverdue(u, d.customer, d.ref, t) = PriorOverdue(v, d.customer, d.ref, t),
         DegradedMethods(u, t) = DegradedMethods(v, t),
         \A M : FailureRate(u, M, t) = FailureRate(v, M, t)
  PROVE  DirectReads(d, u, t) = DirectReads(d, v, t)
<1> DEFINE a == DirectReads(d, u, t)
           b == DirectReads(d, v, t)
<1>1. a = [attempts |-> a.attempts, lastWeek |-> a.lastWeek, lastMonth |-> a.lastMonth,
           abandonments |-> a.abandonments, overdue |-> a.overdue, degraded |-> a.degraded,
           rates |-> a.rates, merchantRate |-> a.merchantRate, row |-> a.row]
  BY DEF DirectReads
<1>2. b = [attempts |-> b.attempts, lastWeek |-> b.lastWeek, lastMonth |-> b.lastMonth,
           abandonments |-> b.abandonments, overdue |-> b.overdue, degraded |-> b.degraded,
           rates |-> b.rates, merchantRate |-> b.merchantRate, row |-> b.row]
  BY DEF DirectReads
<1>3. /\ a.attempts = b.attempts /\ a.lastWeek = b.lastWeek /\ a.lastMonth = b.lastMonth
      /\ a.abandonments = b.abandonments /\ a.overdue = b.overdue /\ a.degraded = b.degraded
      /\ a.rates = b.rates /\ a.merchantRate = b.merchantRate
  BY DEF DirectReads
<1>4. a.row = b.row
  OBVIOUS
<1> HIDE DEF a, b
<1>5. a = b
  BY <1>1, <1>2, <1>3, <1>4
<1> QED  BY <1>5 DEF a, b

\* The context of what is detected is the same without what lies ahead.
LEMMA PastIsEnough ==
  ASSUME NEW w, IsWorld(w), NEW O, NEW t \in Nat, NEW v, v = View(w.losses, w.attempts, O),
         NEW d \in Detect(v, t)
  PROVE  /\ d \in Detect(Past(v, t), t)
         /\ Assembled(d, DirectReads(d, Past(v, t), t), Past(v, t), t) =
              Assembled(d, DirectReads(d, v, t), v, t)
<1> DEFINE p == Past(v, t)
<1>1. IsView(v)
  BY ViewIsView
<1>2. PICK l \in w.losses : d.class = l.class /\ d.ref = l.id /\ Happened(l, t)
  BY LossOfDetected
<1>3. HasRowsOf(v, l)
  BY RowsOfView
<1>4. HasRowsOf(p, l)
  BY <1>1, <1>2, <1>3, RowsOfPast
<1>5. DirectReads(d, p, t).row = DirectReads(d, v, t).row
  <2>1. DirectReads(d, p, t).row = RowOf(l)
    BY <1>2, <1>4, DirectRow
  <2>2. DirectReads(d, v, t).row = RowOf(l)
    BY <1>2, <1>3, DirectRow
  <2> QED  BY <2>1, <2>2
<1>6. DirectReads(d, p, t) = DirectReads(d, v, t)
  <2>1. CustomerAttempts(p, d.customer, t) = CustomerAttempts(v, d.customer, t)
    BY <1>1, SameHistory
  <2>2. /\ \A span : ContactsWithin(p, d.customer, t, span) = ContactsWithin(v, d.customer, t, span)
        /\ PriorAbandonments(p, d.customer, d.ref, t) = PriorAbandonments(v, d.customer, d.ref, t)
        /\ PriorOverdue(p, d.customer, d.ref, t) = PriorOverdue(v, d.customer, d.ref, t)
    BY <1>1, SameCountsOfPast
  <2>3. DegradedMethods(p, t) = DegradedMethods(v, t)
        /\ \A M : FailureRate(p, M, t) = FailureRate(v, M, t)
    BY <1>1, SameRates
  <2> HIDE DEF p
  <2> QED  BY <1>5, <2>1, <2>2, <2>3, SameReads
<1>7. ASSUME NEW reads
      PROVE  PaymentContext(d, reads, p, t) = PaymentContext(d, reads, v, t)
  <2>1. LastAttempt(p, d.ref, t) = LastAttempt(v, d.ref, t)
    BY <1>1, SameLast
  <2> QED  BY <2>1 DEF PaymentContext
<1>8. Detect(p, t) = Detect(v, t)
  BY <1>1, SameDetected
<1> HIDE DEF p
<1>9. Assembled(d, DirectReads(d, p, t), p, t) = Assembled(d, DirectReads(d, v, t), v, t)
  BY <1>6, <1>7 DEF Assembled
<1> QED  BY <1>8, <1>9 DEF p

-----------------------------------------------------------------------------
(* The attempts on an order that have happened.                            *)

Tried(attempts, n, order) == {i \in 1 .. n : attempts[i].order = order}

LEMMA TriedIs ==
  ASSUME NEW w, IsWorld(w), NEW t \in Nat, NEW n, HasPassed(w.attempts, t, n), NEW order
  PROVE  \A i : i \in Tried(w.attempts, n, order) <=>
               i \in DOMAIN w.attempts /\ w.attempts[i].order = order /\ w.attempts[i].at <= t
<1> DEFINE A == w.attempts
<1>1. DOMAIN A = 1 .. Len(A) /\ Len(A) \in Nat
  BY AttemptsTyped
<1>2. n \in 0 .. Len(A) /\ \A i \in 1 .. Len(A) : A[i].at <= t <=> i <= n
  BY DEF HasPassed
<1> HIDE DEF A
<1> QED  BY <1>1, <1>2 DEF Tried, A

LEMMA TriedIsFinite ==
  ASSUME NEW attempts, NEW n \in Nat, NEW order
  PROVE  IsFiniteSet(Tried(attempts, n, order)) /\ Tried(attempts, n, order) \in SUBSET Nat
<1>1. IsFiniteSet(1 .. n)
  BY 1 \in Int, n \in Int, FS_Interval
<1>2. Tried(attempts, n, order) \subseteq 1 .. n
  BY DEF Tried
<1> QED  BY <1>1, <1>2, FS_Subset

\* A payment that is detected is of a failed attempt on its order.
LEMMA DetectedWasTried ==
  ASSUME NEW w, IsWorld(w), NEW t \in Nat, NEW O, NEW n, HasPassed(w.attempts, t, n),
         NEW d \in Detect(View(w.losses, w.attempts, O), t), d.class = "PAYMENT_FAILURE"
  PROVE  \E i \in 1 .. n :
           /\ KeyOf(w.attempts[i]) \in DOMAIN After(w.attempts, n)
           /\ IsPaymentDraft(After(w.attempts, n)[KeyOf(w.attempts[i])], w.attempts[i])
           /\ d = Assessed(After(w.attempts, n)[KeyOf(w.attempts[i])],
                           View(w.losses, w.attempts, O), t)
<1> DEFINE A == w.attempts
           v == View(w.losses, w.attempts, O)
<1>1. PICK e : d = Assessed(e, v, t) /\ \E l \in w.losses : IsFrom(e, l, w, t)
  BY DetectedSource
<1>2. PICK l \in w.losses : IsFrom(e, l, w, t)
  BY <1>1
<1>3. e.class = "PAYMENT_FAILURE"
  BY <1>1, AssessedIs
<1>4. l.class = "PAYMENT_FAILURE"
  BY <1>2, <1>3 DEF IsFrom, IsDraftOf
<1>5. KeyOfLoss(l) \in DOMAIN After(A, n) /\ e = After(A, n)[KeyOfLoss(l)]
  BY <1>2, <1>4 DEF IsFrom
<1>6. IsKnownOf(A, n)
  BY AttemptsTyped, KnownIs DEF HasPassed
<1>7. PICK i \in 1 .. n : KeyOf(A[i]) = KeyOfLoss(l) /\ IsPaymentDraft(e, A[i])
  BY <1>5, <1>6 DEF IsKnownOf, FromFailures
<1> HIDE DEF A, v
<1> QED  BY <1>1, <1>5, <1>7 DEF A, v

LEMMA LastAttemptIs ==
  ASSUME NEW w, IsWorld(w), NEW t \in Nat, NEW O,
         NEW d \in Detect(View(w.losses, w.attempts, O), t), d.class = "PAYMENT_FAILURE"
  PROVE  LastAttempt(View(w.losses, w.attempts, O), d.ref, t) \in Attempt
<1> DEFINE A == w.attempts
           v == View(w.losses, w.attempts, O)
<1>1. PICK n : HasPassed(A, t, n)
  BY SomePassed
<1> DEFINE D == Tried(A, n, d.ref)
           Latest(i) == \A j \in D : A[j].at < A[i].at \/ (A[j].at = A[i].at /\ i <= j)
           f == [i \in D |-> A[i]]
<1>2. /\ \A i \in 1 .. Len(A) : A[i] \in Attempt /\ A[i].at \in Nat
      /\ Len(A) \in Nat /\ DOMAIN A = 1 .. Len(A) /\ n \in 0 .. Len(A)
  BY <1>1, AttemptsTyped DEF HasPassed
<1>3. \A i, j \in 1 .. Len(A) : i < j => A[i].at <= A[j].at
  BY <1>2 DEF IsWorld
<1>4. D # {}
  <2>1. PICK i \in 1 .. n : /\ IsPaymentDraft(After(A, n)[KeyOf(A[i])], A[i])
                            /\ d = Assessed(After(A, n)[KeyOf(A[i])], v, t)
    BY <1>1, DetectedWasTried
  <2>2. d.ref = A[i].order
    BY <2>1, AssessedIs DEF IsPaymentDraft
  <2> QED  BY <2>2 DEF Tried
<1>5. IsFiniteSet(D) /\ D \in SUBSET Nat /\ D \subseteq 1 .. Len(A)
  <2>1. n \in Nat
    BY <1>2
  <2>2. D \subseteq 1 .. Len(A)
    BY <1>2 DEF Tried
  <2> QED  BY <2>1, <2>2, TriedIsFinite
<1>6. LastAttempt(v, d.ref, t) = f[CHOOSE i \in D : \A j \in D : \/ f[j].at < f[i].at
                                                                 \/ f[j].at = f[i].at /\ i <= j]
  <2>1. v.transactions = A
    BY DEF View
  <2>2. RestrictValues(v.transactions, LAMBDA x : x.order = d.ref /\ x.at <= t) = f
    <3> DEFINE S == {i \in DOMAIN A : A[i].order = d.ref /\ A[i].at <= t}
    <3>1. RestrictValues(v.transactions, LAMBDA x : x.order = d.ref /\ x.at <= t) = [i \in S |-> A[i]]
      BY <2>1 DEF RestrictValues, Restrict
    <3>2. S = D
      BY <1>1, TriedIs
    <3> QED  BY <3>1, <3>2
  <2>3. DOMAIN f = D
    OBVIOUS
  <2> HIDE DEF f, D, v, A
  <2> QED  BY <2>2, <2>3 DEF LastAttempt
<1> HIDE DEF A, D, v
<1>7. \E i \in D : Latest(i)
  <2>1. PICK m : m \in D /\ \A y \in D : m >= y
    BY <1>4, <1>5, GreatestIsIn
  <2> DEFINE M == {i \in D : A[i].at = A[m].at}
  <2>2. PICK i \in M : \A j \in M : i <= j
    <3>1. M \in SUBSET Nat /\ M # {}
      BY <1>5, <2>1
    <3> HIDE DEF M
    <3> QED  BY <3>1, LeastNumber
  <2>3. \A j \in D : A[j].at <= A[m].at
    <3> TAKE j \in D
    <3>1. j \in Nat /\ m \in Nat /\ j \in 1 .. Len(A) /\ m \in 1 .. Len(A) /\ j <= m
      BY <1>5, <2>1
    <3>2. A[j].at \in Nat
      BY <1>2, <3>1
    <3>3. j = m \/ j < m
      BY <3>1
    <3> QED  BY <1>3, <3>1, <3>2, <3>3
  <2>4. ASSUME NEW j \in D
        PROVE  A[j].at < A[i].at \/ (A[j].at = A[i].at /\ i <= j)
    <3>1. A[i].at = A[m].at /\ A[j].at <= A[m].at
      BY <2>2, <2>3
    <3>2. A[j].at \in Nat /\ A[m].at \in Nat
      BY <1>2, <1>5, <2>1
    <3>3. A[j].at = A[m].at => i <= j
      BY <2>2
    <3> QED  BY <3>1, <3>2, <3>3
  <2>5. i \in D
    BY <2>2
  <2> QED  BY <2>4, <2>5
<1>8. \E i \in D : \A j \in D : f[j].at < f[i].at \/ (f[j].at = f[i].at /\ i <= j)
  BY <1>7
<1>9. PICK i \in D : LastAttempt(v, d.ref, t) = f[i]
  BY <1>6, <1>8
<1> QED  BY <1>2, <1>5, <1>9 DEF v, A

-----------------------------------------------------------------------------
(* What is assembled is an opportunity of the decision path.               *)

LEMMA WindowTyped ==
  ASSUME NEW e, e.class \in RiskClass, e.first \in Int
  PROVE  WindowEnd(e) \in Int /\ RecoveryWindow[e.class] \in Nat /\ RecoveryWindow[e.class] > 0
BY DEF WindowEnd, RiskClass, RecoveryWindow, Day, Hour

\* Nothing that is worth nothing or whose window is over is addressable, nor is an
\* anonymous checkout.
LEMMA Hindered ==
  ASSUME NEW e, NEW t,
         \/ e.gross <= 0
         \/ t >= WindowEnd(e)
         \/ e.class = "CHECKOUT_ABANDONMENT" /\ e.customer = Anonymous
  PROVE  Hindrance(e, t) # "NONE"
BY DEF Hindrance

LEMMA DetectedTyped ==
  ASSUME NEW w, IsWorld(w), NEW t \in Nat, NEW O,
         NEW d \in Detect(View(w.losses, w.attempts, O), t)
  PROVE  /\ d.class \in RiskClass /\ d.value \in Int /\ d.first \in Int /\ d.expires \in Int
         /\ d.expires = d.first + RecoveryWindow[d.class]
         /\ \/ d.value <= 0
            \/ t >= d.expires
            \/ d.class = "CHECKOUT_ABANDONMENT" /\ d.customer = Anonymous
            => d.hindrance # "NONE"
<1>1. PICK e : /\ d = Assessed(e, View(w.losses, w.attempts, O), t)
               /\ \E l \in w.losses : IsFrom(e, l, w, t)
  BY DetectedSource
<1>2. PICK l \in w.losses : IsFrom(e, l, w, t)
  BY <1>1
<1>3. IsLoss(l)
  BY DEF IsWorld
<1>4. e.class \in RiskClass /\ e.gross \in Int /\ e.first \in Int
  BY <1>2, <1>3, LossTyped DEF IsFrom, IsDraftOf
<1>5. WindowEnd(e) \in Int
  BY <1>4, WindowTyped
<1>6. /\ d.class = e.class /\ d.customer = e.customer
      /\ d.value = e.gross /\ d.first = e.first /\ d.expires = WindowEnd(e)
      /\ d.hindrance = Hindrance(e, t)
  BY <1>1, AssessedIs
<1>7. WindowEnd(e) = e.first + RecoveryWindow[e.class]
  BY DEF WindowEnd
<1>8. \/ d.value <= 0
      \/ t >= d.expires
      \/ d.class = "CHECKOUT_ABANDONMENT" /\ d.customer = Anonymous
      => d.hindrance # "NONE"
  BY <1>6, Hindered
<1> QED  BY <1>4, <1>5, <1>6, <1>7, <1>8

LEMMA HoursTyped ==
  ASSUME NEW d, d.expires \in Int, NEW t \in Nat
  PROVE  HoursLeft(d, t) \in 0 .. 3 /\ (HoursLeft(d, t) = 0 => t >= d.expires)
<1>1. CASE t >= d.expires
  BY <1>1 DEF HoursLeft
<1>2. CASE ~(t >= d.expires)
  <2>1. d.expires - t + Hour - 1 >= Hour /\ d.expires - t + Hour - 1 \in Int /\ Hour = 60
    BY <1>2 DEF Hour
  <2>2. \A n \in Int : n >= 60 => n \div 60 >= 1 /\ n \div 60 \in Int
    OBVIOUS
  <2>3. (d.expires - t + Hour - 1) \div Hour >= 1 /\ (d.expires - t + Hour - 1) \div Hour \in Int
    BY <2>1, <2>2
  <2>4. HoursLeft(d, t) = Smaller(3, (d.expires - t + Hour - 1) \div Hour)
    BY <1>2 DEF HoursLeft
  <2> QED  BY <2>3, <2>4 DEF Smaller
<1> QED  BY <1>1, <1>2

LEMMA SignsTyped ==
  ASSUME NEW test, NEW sign
  PROVE  SignIf(test, sign) \subseteq {sign} /\ (test => sign \in SignIf(test, sign))
BY DEF SignIf

LEMMA PartTyped ==
  ASSUME NEW d, NEW reads, NEW v, NEW t, LastAttempt(v, d.ref, t) \in Attempt
  PROVE  /\ PaymentContext(d, reads, v, t).evidence \in Evidence["PAYMENT_FAILURE"]
         /\ PaymentContext(d, reads, v, t).signs \subseteq Sign
<1> DEFINE last == LastAttempt(v, d.ref, t)
           c == PaymentContext(d, reads, v, t)
<1>1. last.reason \in DOMAIN CauseOfReason
  BY DEF Attempt
<1>2. c.evidence = last.reason
  BY DEF PaymentContext, Seeing
<1>3. c.signs \subseteq {"INSTRUMENT_BLOCKED", "INSTRUMENT_EXPIRED", "DEGRADATION_FLAG",
                         "DEGRADATION_OBSERVED", "INSTRUMENT_WORKS", "FAILURE_CLUSTER"}
  BY SignsTyped DEF PaymentContext, Seeing
<1>4. Evidence["PAYMENT_FAILURE"] = DOMAIN CauseOfReason
  BY DEF Evidence
<1> HIDE DEF last, c
<1>5. c.evidence \in Evidence["PAYMENT_FAILURE"] /\ c.signs \subseteq Sign
  BY <1>1, <1>2, <1>3, <1>4 DEF Sign
<1> QED  BY <1>5 DEF c

LEMMA OtherPartsTyped ==
  ASSUME NEW d, NEW reads
  PROVE  /\ CheckoutContext(reads).evidence \in Evidence["CHECKOUT_ABANDONMENT"]
         /\ CheckoutContext(reads).signs \subseteq Sign
         /\ SubscriptionContext(d, reads).evidence \in Evidence["SUBSCRIPTION_FAILURE"]
         /\ SubscriptionContext(d, reads).signs \subseteq Sign
         /\ ReceivableContext(d, reads).evidence \in Evidence["RECEIVABLE_OVERDUE"]
         /\ ReceivableContext(d, reads).signs \subseteq Sign
         /\ MandateContext(reads).evidence \in Evidence["MANDATE_HEALTH"]
         /\ MandateContext(reads).signs \subseteq Sign
<1>1. /\ Evidence["CHECKOUT_ABANDONMENT"] = {"PAYMENT_INITIATED", "AT_CHECKOUT", "ELSEWHERE", "MISSING"}
      /\ Evidence["SUBSCRIPTION_FAILURE"] =
           {"REVOKED", "EXPIRING", "DEBITS_FAILED", "ACTIVE", "MISSING"}
      /\ Evidence["RECEIVABLE_OVERDUE"] = {"DISPUTED", "DAYS_15", "DAYS_30", "OLDER", "MISSING"}
      /\ Evidence["MANDATE_HEALTH"] = {"REVOKED", "EXPIRING", "MISSING"}
  BY DEF Evidence
<1>2. /\ CheckoutContext(reads).evidence \in Evidence["CHECKOUT_ABANDONMENT"]
      /\ CheckoutContext(reads).signs \subseteq Sign
  <2>1. CheckoutContext(reads).evidence \in {"PAYMENT_INITIATED", "AT_CHECKOUT", "ELSEWHERE"}
    BY DEF CheckoutContext, Seeing
  <2>2. CheckoutContext(reads).signs \subseteq {"ABANDONED_BEFORE", "LARGE_CART"}
    BY SignsTyped DEF CheckoutContext, Seeing
  <2> QED  BY <1>1, <2>1, <2>2 DEF Sign
<1>3. /\ SubscriptionContext(d, reads).evidence \in Evidence["SUBSCRIPTION_FAILURE"]
      /\ SubscriptionContext(d, reads).signs \subseteq Sign
  <2>1. SubscriptionContext(d, reads).evidence \in {"REVOKED", "EXPIRING", "DEBITS_FAILED", "ACTIVE"}
    BY DEF SubscriptionContext, Seeing
  <2>2. SubscriptionContext(d, reads).signs = {}
    BY DEF SubscriptionContext, Seeing
  <2> QED  BY <1>1, <2>1, <2>2
<1>4. /\ ReceivableContext(d, reads).evidence \in Evidence["RECEIVABLE_OVERDUE"]
      /\ ReceivableContext(d, reads).signs \subseteq Sign
  <2>1. ReceivableContext(d, reads).evidence \in {"DISPUTED", "DAYS_15", "DAYS_30", "OLDER"}
    BY DEF ReceivableContext, Seeing
  <2>2. ReceivableContext(d, reads).signs \subseteq {"OVERDUE_BEFORE"}
    BY SignsTyped DEF ReceivableContext, Seeing
  <2> QED  BY <1>1, <2>1, <2>2 DEF Sign
<1>5. /\ MandateContext(reads).evidence \in Evidence["MANDATE_HEALTH"]
      /\ MandateContext(reads).signs \subseteq Sign
  <2>1. MandateContext(reads).evidence \in {"REVOKED", "EXPIRING"} /\ MandateContext(reads).signs = {}
    BY DEF MandateContext, Seeing
  <2> QED  BY <1>1, <2>1
<1> QED  BY <1>2, <1>3, <1>4, <1>5

LEMMA AssembledIs ==
  ASSUME NEW d, NEW reads, NEW v, NEW t \in Nat,
         d.class \in RiskClass, d.value \in Int, d.expires \in Int,
         d.value <= 0 \/ t >= d.expires => d.hindrance # "NONE",
         d.class = "PAYMENT_FAILURE" => LastAttempt(v, d.ref, t) \in Attempt
  PROVE  /\ IsOpportunity(Assembled(d, reads, v, t))
         /\ d.hindrance # "NONE" => "NOT_ADDRESSABLE" \in Assembled(d, reads, v, t).signs
<1> DEFINE o == Assembled(d, reads, v, t)
           general == GeneralSigns(d, reads, t)
           Part(part) == /\ o.evidence = part.evidence /\ o.signs = part.signs \cup general
<1>1. o.class = d.class /\ o.value = ValueBand(d.value) /\ o.hours = HoursLeft(d, t)
  BY DEF Assembled
<1>2. /\ d.class = "PAYMENT_FAILURE" => Part(PaymentContext(d, reads, v, t))
      /\ d.class = "CHECKOUT_ABANDONMENT" => Part(CheckoutContext(reads))
      /\ d.class = "SUBSCRIPTION_FAILURE" => Part(SubscriptionContext(d, reads))
      /\ d.class = "RECEIVABLE_OVERDUE" => Part(ReceivableContext(d, reads))
      /\ d.class = "MANDATE_HEALTH" => Part(MandateContext(reads))
  BY DEF Assembled
<1>3. /\ general \subseteq {"NOT_ADDRESSABLE", "ATTEMPTS_USED", "OUTSIDE_HOURS", "CONTACTED_ENOUGH"}
      /\ d.hindrance # "NONE" => "NOT_ADDRESSABLE" \in general
  <2>1. SignIf(d.seq >= MaxAttempts, "ATTEMPTS_USED") \subseteq {"ATTEMPTS_USED"}
    BY SignsTyped
  <2>2. SignIf(LocalHour(t) \notin 9 .. 18, "OUTSIDE_HOURS") \subseteq {"OUTSIDE_HOURS"}
    BY SignsTyped
  <2>3. SignIf(reads.lastWeek >= WeeklyCap \/ reads.lastMonth >= ContactCap, "CONTACTED_ENOUGH")
          \subseteq {"CONTACTED_ENOUGH"}
    BY SignsTyped
  <2>4. /\ SignIf(d.hindrance # "NONE", "NOT_ADDRESSABLE") \subseteq {"NOT_ADDRESSABLE"}
        /\ d.hindrance # "NONE" => "NOT_ADDRESSABLE" \in SignIf(d.hindrance # "NONE", "NOT_ADDRESSABLE")
    BY SignsTyped
  <2> QED  BY <2>1, <2>2, <2>3, <2>4 DEF GeneralSigns
<1>4. o.value \in Value /\ (o.value = "NONE" => d.value <= 0)
  BY <1>1 DEF ValueBand, Value
<1>5. o.hours \in 0 .. 3 /\ (o.hours = 0 => t >= d.expires)
  BY <1>1, HoursTyped
<1>6. general \subseteq Sign
  BY <1>3 DEF Sign
<1> HIDE DEF o, general
<1>7. /\ o.evidence \in Evidence[o.class] /\ o.signs \subseteq Sign /\ general \subseteq o.signs
  <2>1. CASE d.class = "PAYMENT_FAILURE"
    BY <1>1, <1>2, <1>6, <2>1, PartTyped
  <2>2. CASE d.class = "CHECKOUT_ABANDONMENT"
    BY <1>1, <1>2, <1>6, <2>2, OtherPartsTyped
  <2>3. CASE d.class = "SUBSCRIPTION_FAILURE"
    BY <1>1, <1>2, <1>6, <2>3, OtherPartsTyped
  <2>4. CASE d.class = "RECEIVABLE_OVERDUE"
    BY <1>1, <1>2, <1>6, <2>4, OtherPartsTyped
  <2>5. CASE d.class = "MANDATE_HEALTH"
    BY <1>1, <1>2, <1>6, <2>5, OtherPartsTyped
  <2> QED  BY <2>1, <2>2, <2>3, <2>4, <2>5 DEF RiskClass
<1>8. IsOpportunity(o) /\ (d.hindrance # "NONE" => "NOT_ADDRESSABLE" \in o.signs)
  BY <1>1, <1>3, <1>4, <1>5, <1>7 DEF IsOpportunity
<1> QED  BY <1>8 DEF o

LEMMA AssembledTyped ==
  ASSUME NEW w, IsWorld(w), NEW O, NEW t \in Nat, NEW v, v = View(w.losses, w.attempts, O),
         NEW d \in Detect(v, t), NEW reads
  PROVE  /\ IsOpportunity(Assembled(d, reads, v, t))
         /\ d.hindrance # "NONE" => "NOT_ADDRESSABLE" \in Assembled(d, reads, v, t).signs
<1>1. /\ d.class \in RiskClass /\ d.value \in Int /\ d.expires \in Int
      /\ d.value <= 0 \/ t >= d.expires => d.hindrance # "NONE"
  BY DetectedTyped
<1>2. d.class = "PAYMENT_FAILURE" => LastAttempt(v, d.ref, t) \in Attempt
  BY LastAttemptIs
<1> QED  BY <1>1, <1>2, AssembledIs

-----------------------------------------------------------------------------
(* What is detected, as a cycle finds it.                                  *)

LEMMA LastTried ==
  ASSUME NEW w, IsWorld(w), NEW t \in Nat, NEW O, NEW n, HasPassed(w.attempts, t, n),
         NEW d \in Detect(View(w.losses, w.attempts, O), t), d.class = "PAYMENT_FAILURE"
  PROVE  /\ Max(Tried(w.attempts, n, d.ref)) \in Tried(w.attempts, n, d.ref)
         /\ \A i \in Tried(w.attempts, n, d.ref) : Max(Tried(w.attempts, n, d.ref)) >= i
<1> DEFINE A == w.attempts
           D == Tried(A, n, d.ref)
<1>1. PICK i \in 1 .. n : /\ KeyOf(A[i]) \in DOMAIN After(A, n)
                          /\ IsPaymentDraft(After(A, n)[KeyOf(A[i])], A[i])
                          /\ d = Assessed(After(A, n)[KeyOf(A[i])],
                                          View(w.losses, w.attempts, O), t)
  BY DetectedWasTried
<1>2. i \in D
  BY <1>1, AssessedIs DEF IsPaymentDraft, Tried
<1>3. n \in Nat
  BY AttemptsTyped DEF HasPassed
<1>4. IsFiniteSet(D) /\ D \in SUBSET Nat
  BY <1>3, TriedIsFinite
<1> HIDE DEF D
<1> QED  BY <1>2, <1>4, GreatestIsIn DEF D

\* An order whose last attempt has settled it is worth nothing.
LEMMA SettledIsHindered ==
  ASSUME NEW w, IsWorld(w), NEW t \in Nat, NEW O, NEW n, HasPassed(w.attempts, t, n),
         NEW d \in Detect(View(w.losses, w.attempts, O), t), d.class = "PAYMENT_FAILURE",
         w.attempts[Max(Tried(w.attempts, n, d.ref))].status \in Settlements
  PROVE  d.hindrance # "NONE"
<1> DEFINE A == w.attempts
           D == Tried(A, n, d.ref)
<1>1. PICK i \in 1 .. n : /\ KeyOf(A[i]) \in DOMAIN After(A, n)
                          /\ IsPaymentDraft(After(A, n)[KeyOf(A[i])], A[i])
                          /\ d = Assessed(After(A, n)[KeyOf(A[i])],
                                          View(w.losses, w.attempts, O), t)
  BY DetectedWasTried
<1> DEFINE e == After(A, n)[KeyOf(A[i])]
<1>2. d.ref = A[i].order /\ d.hindrance = Hindrance(e, t)
  BY <1>1, AssessedIs DEF IsPaymentDraft
<1>3. n \in Nat /\ n <= Len(A) /\ Len(A) \in Nat /\ DOMAIN A = 1 .. Len(A)
  BY AttemptsTyped DEF HasPassed
<1>4. PICK m : m = Max(D) /\ m \in D /\ \A y \in D : m >= y
  BY LastTried
<1>5. m \in 1 .. n /\ A[m].order = A[i].order
  BY <1>2, <1>4 DEF Tried
<1>6. A[m].customer = A[i].customer
  BY <1>3, <1>5 DEF IsWorld
<1>7. KeyOf(A[m]) = KeyOf(A[i])
  BY <1>5, <1>6 DEF KeyOf
<1>8. SettledLast(A, n, m)
  <2>1. A[m].status \in Settlements
    BY <1>4
  <2>2. ASSUME NEW j \in m + 1 .. n, A[j].order = A[m].order
        PROVE  FALSE
    <3>1. j \in D /\ j > m
      BY <1>2, <1>3, <1>5, <2>2 DEF Tried
    <3> QED  BY <1>3, <1>4, <1>5, <2>2, <3>1
  <2> QED  BY <2>1, <2>2 DEF SettledLast
<1>9. IsKnownOf(A, n)
  BY <1>3, AttemptsTyped, KnownIs
<1>10. e.gross = 0
  BY <1>1, <1>5, <1>7, <1>8, <1>9 DEF IsKnownOf, SettledIsWorthless
<1> HIDE DEF e
<1> QED  BY <1>2, <1>10, Hindered

\* What is detected is about one row of its class and customer, or it is an
\* anonymous checkout and hindered.
LEMMA DetectedHasRow ==
  ASSUME NEW w, IsWorld(w), NEW O, RowsMatch(O, w), NEW t \in Nat,
         NEW v, v = View(w.losses, w.attempts, O), NEW d \in Detect(v, t)
  PROVE  \/ \E o \in O : RowsOf(d, v) = {o} /\ o.class = d.class /\ o.customer = d.customer
         \/ RowsOf(d, v) = {} /\ d.customer = Anonymous /\ d.hindrance # "NONE"
<1>1. PICK l \in w.losses : /\ IsLoss(l) /\ d.class = l.class /\ d.ref = l.id
                            /\ d.customer = CustomerOf(l) /\ d.key = KeyOfLoss(l)
  BY LossOfDetected
<1>2. CASE CustomerOf(l) = Anonymous
  <2>1. l.class = "CHECKOUT_ABANDONMENT"
    BY <1>1, <1>2, LossTyped, RowsAssumption DEF CustomerOf
  <2>2. RowsOf(d, v) = {}
    BY <1>1, <1>2, RowsOfLoss
  <2>3. d.hindrance # "NONE"
    BY <1>1, <1>2, <2>1, DetectedTyped
  <2> QED  BY <1>1, <1>2, <2>2, <2>3
<1>3. CASE CustomerOf(l) # Anonymous
  <2>1. PICK o \in O : IsRowOf(o, l) /\ RowsOf(d, v) = {o}
    BY <1>1, <1>3, RowsOfLoss
  <2>2. CustomerOf(l) = l.customer
    BY <1>3 DEF CustomerOf
  <2> QED  BY <1>1, <2>1, <2>2 DEF IsRowOf
<1> QED  BY <1>2, <1>3

\* The window of a loss that is over at one time is over at every later one.
LEMMA ExpiredStays ==
  ASSUME NEW w, IsWorld(w), NEW O, NEW Q, NEW s \in Nat, NEW t \in Nat, s <= t,
         NEW d \in Detect(View(w.losses, w.attempts, O), s),
         NEW e \in Detect(View(w.losses, w.attempts, Q), t),
         d.key = e.key, d.hindrance = "WINDOW_EXPIRED"
  PROVE  e.hindrance # "NONE"
<1>1. PICK a : /\ d = Assessed(a, View(w.losses, w.attempts, O), s)
               /\ \E l \in w.losses : IsFrom(a, l, w, s)
  BY DetectedSource
<1>2. PICK b : /\ e = Assessed(b, View(w.losses, w.attempts, Q), t)
               /\ \E l \in w.losses : IsFrom(b, l, w, t)
  BY DetectedSource
<1>3. PICK l \in w.losses : IsFrom(a, l, w, s)
  BY <1>1
<1>4. PICK m \in w.losses : IsFrom(b, m, w, t)
  BY <1>2
<1>5. d.key = a.key /\ e.key = b.key /\ d.hindrance = Hindrance(a, s) /\ e.hindrance = Hindrance(b, t)
  BY <1>1, <1>2, AssessedIs
<1>6. m = l
  <2>1. KeyOfLoss(l) = KeyOfLoss(m)
    BY <1>3, <1>4, <1>5 DEF IsFrom, IsDraftOf
  <2> QED  BY <2>1, SameKeySameLoss
<1>7. IsLoss(l) /\ l.class \in RiskClass /\ l.at \in Nat
  BY LossTyped DEF IsWorld
<1>8. /\ a.class = l.class /\ b.class = l.class /\ a.first \in Int /\ b.first \in Int
  BY <1>3, <1>4, <1>6 DEF IsFrom, IsDraftOf
<1>9. s >= WindowEnd(a)
  BY <1>5 DEF Hindrance
<1>10. /\ WindowEnd(a) = a.first + RecoveryWindow[l.class]
       /\ WindowEnd(b) = b.first + RecoveryWindow[l.class]
       /\ RecoveryWindow[l.class] \in Nat /\ RecoveryWindow[l.class] > 0
  BY <1>7, <1>8, WindowTyped DEF WindowEnd
<1>11. a.first < s
  BY <1>8, <1>9, <1>10
<1>12. b.first <= a.first
  <2>1. CASE l.class = "PAYMENT_FAILURE"
    <3>1. PICK n : HasPassed(w.attempts, s, n)
      BY SomePassed
    <3>2. PICK o : HasPassed(w.attempts, t, o)
      BY SomePassed
    <3>3. n <= o
      BY <3>1, <3>2, PassedInTurn
    <3>4. /\ KeyOfLoss(l) \in DOMAIN After(w.attempts, n)
          /\ a = After(w.attempts, n)[KeyOfLoss(l)]
          /\ b = After(w.attempts, o)[KeyOfLoss(l)]
      BY <1>3, <1>4, <1>6, <2>1, <3>1, <3>2 DEF IsFrom
    <3>5. n \in Nat /\ o \in Nat /\ o <= Len(w.attempts)
      BY <3>1, <3>2, AttemptsTyped DEF HasPassed
    <3>6. \A i, j \in DOMAIN w.attempts : i < j => w.attempts[i].at <= w.attempts[j].at
      BY DEF IsWorld
    <3>7. w.attempts \in Seq(Attempt)
      BY AttemptsTyped
    <3>8. b.first = a.first
      BY <3>3, <3>4, <3>5, <3>6, <3>7, KnownStays
    <3> QED  BY <1>8, <3>8
  <2>2. CASE l.class # "PAYMENT_FAILURE"
    <3>1. a.first = FirstOf(l, s) /\ b.first = FirstOf(l, t)
      BY <1>3, <1>4, <1>6, <2>2 DEF IsFrom
    <3>2. CASE l.class \in {"CHECKOUT_ABANDONMENT", "RECEIVABLE_OVERDUE"}
      <4>1. FirstOf(l, s) = FirstOf(l, t)
        BY <3>2 DEF FirstOf
      <4> QED  BY <1>8, <3>1, <4>1
    <3>3. CASE l.class \in {"SUBSCRIPTION_FAILURE", "MANDATE_HEALTH"}
      <4>1. \E x \in Int : FirstOf(l, s) = Smaller(x, s) /\ FirstOf(l, t) = Smaller(x, t)
        <5>1. CASE l.class = "SUBSCRIPTION_FAILURE"
          BY <1>7, <5>1 DEF FirstOf
        <5>2. CASE l.class = "MANDATE_HEALTH"
          <6>1. l.at + l.days * Day \in Int
            BY <1>7, <5>2, LossTyped
          <6> QED  BY <5>2, <6>1 DEF FirstOf
        <5> QED  BY <3>3, <5>1, <5>2
      <4>2. PICK x \in Int : FirstOf(l, s) = Smaller(x, s) /\ FirstOf(l, t) = Smaller(x, t)
        BY <4>1
      <4> QED  BY <1>11, <3>1, <4>2 DEF Smaller
    <3> QED  BY <1>7, <2>2, <3>2, <3>3 DEF RiskClass
  <2> QED  BY <2>1, <2>2
<1>13. t >= WindowEnd(b)
  BY <1>8, <1>9, <1>10, <1>12
<1> QED  BY <1>5, <1>13, Hindered

-----------------------------------------------------------------------------
(* A cycle and its world.                                                  *)

WorldInv == IsWorld(world) /\ RowsMatch(rows, world) /\ now \in Nat

\* What is being decided on was detected in the view of the cycle.
ViewInv ==
  \/ found = {} /\ todo = {} /\ subject = Nothing
  \/ /\ view = View(world.losses, world.attempts, view.opportunities)
     /\ RowsMatch(view.opportunities, world)
     /\ cache = CacheOf(view, now)
     /\ found = Detect(view, now)
     /\ todo \subseteq found
     /\ subject = Nothing \/ subject \in found

SubjectInv ==
  subject # Nothing => opp = Assembled(subject, DirectReads(subject, view, now), view, now)

\* A caller has no world, and decides on what it was given.
CallerInv == by = "CALLER" => world = NoWorld /\ todo = {} /\ opp \in Opportunities

CycleInv ==
  /\ TypeOK
  /\ PathInv
  /\ WorldInv
  /\ ViewInv
  /\ SubjectInv
  /\ CallerInv

LEMMA RowsAtFirst ==
  ASSUME NEW w, IsWorld(w)
  PROVE  RowsMatch({OpportunityOf(l) : l \in w.losses}, w)
<1> DEFINE R == {OpportunityOf(l) : l \in w.losses}
<1>1. IsFiniteSet(R)
  <2> DEFINE f == [l \in w.losses |-> OpportunityOf(l)]
  <2>1. f \in [w.losses -> R] /\ \A y \in R : \E l \in w.losses : y = f[l]
    OBVIOUS
  <2> HIDE DEF f, R
  <2> QED  BY <2>1, ImageIsFinite DEF IsWorld
<1>2. \A l \in w.losses : IsRowOf(OpportunityOf(l), l)
  BY DEF IsRowOf, OpportunityOf, RowFields
<1>3. \A l, m \in w.losses : l.id = m.id => l = m
  BY DEF IsWorld
<1>4. \A l \in w.losses : OpportunityOf(l).id = l.id
  BY DEF OpportunityOf
<1>5. \A r, s \in R : r.id = s.id => r = s
  BY <1>3, <1>4
<1> QED  BY <1>1, <1>2, <1>5 DEF RowsMatch

LEMMA NoWorldIs == IsWorld(NoWorld) /\ RowsMatch({}, NoWorld)
<1>1. NoWorld.losses = {} /\ NoWorld.attempts = <<>> /\ NoWorld.cycles = {}
  BY DEF NoWorld
<1>2. IsFiniteSet({}) /\ <<>> \in Seq(Attempt) /\ DOMAIN <<>> = {}
  BY FS_EmptySet
<1> QED  BY <1>1, <1>2 DEF IsWorld, RowsMatch

\* An execution leaves the rows those of the losses.
LEMMA TouchedMatch ==
  ASSUME NEW w, NEW R, RowsMatch(R, w), R = rows, NEW rs
  PROVE  RowsMatch(Touched(rs), w)
<1> DEFINE T(r) == IF r \in rs /\ action \in Touches THEN [r EXCEPT !.contacts = @ + 1] ELSE r
           S == {T(r) : r \in rows}
<1>1. \A r \in rows : \A l \in w.losses : IsRowOf(r, l) => IsRowOf(T(r), l)
  BY DEF IsRowOf, RowFields
<1>2. \A r \in rows : T(r).id = r.id
  <2> TAKE r \in rows
  <2>1. PICK l \in w.losses : IsRowOf(r, l)
    BY DEF RowsMatch
  <2> QED  BY <1>1, <2>1 DEF IsRowOf
<1>3. IsFiniteSet(S)
  <2> DEFINE f == [r \in rows |-> T(r)]
  <2>1. f \in [rows -> S] /\ \A y \in S : \E r \in rows : y = f[r]
    OBVIOUS
  <2> HIDE DEF f, S
  <2> QED  BY <2>1, ImageIsFinite DEF RowsMatch
<1>4. \A s \in S : \E l \in w.losses : IsRowOf(s, l)
  BY <1>1 DEF RowsMatch
<1>5. \A l \in w.losses : \E s \in S : IsRowOf(s, l)
  <2> TAKE l \in w.losses
  <2>1. PICK r \in rows : IsRowOf(r, l)
    BY DEF RowsMatch
  <2>2. T(r) \in S
    OBVIOUS
  <2> QED  BY <1>1, <2>1, <2>2
<1>6. \A r, s \in S : r.id = s.id => r = s
  <2> TAKE r, s \in S
  <2>1. PICK x \in rows : r = T(x)
    OBVIOUS
  <2>2. PICK y \in rows : s = T(y)
    OBVIOUS
  <2> HIDE DEF T
  <2>3. r.id = s.id => x = y
    BY <1>2, <2>1, <2>2 DEF RowsMatch
  <2> QED  BY <2>1, <2>2, <2>3
<1>7. S = Touched(rs)
  BY DEF Touched
<1> HIDE DEF S
<1> QED  BY <1>3, <1>4, <1>5, <1>6, <1>7 DEF RowsMatch

LEMMA CycleAtFirst == CycleInit => CycleInv
<1> SUFFICES ASSUME CycleInit
             PROVE  CycleInv
  OBVIOUS
<1>1. ViewInv /\ SubjectInv
  BY DEF CycleInit, ViewInv, SubjectInv
<1>2. now \in Nat
  BY DEF CycleInit
<1>3. CASE Given
  <2>1. TypeOK /\ PathInv
    BY <1>3, TypedAtFirst, PathAtFirst DEF Given, Typed
  <2>2. WorldInv
    BY <1>2, <1>3, NoWorldIs DEF Given, WorldInv
  <2>3. CallerInv
    BY <1>3 DEF Given, CallerInv, CycleInit, Init
  <2> QED  BY <1>1, <2>1, <2>2, <2>3 DEF CycleInv
<1>4. CASE Observed
  <2>1. TypeOK
    <3>1. IsOpportunity(opp)
      BY <1>4 DEF Observed, IsOpportunity, RiskClass, Evidence, Sign, Value
    <3> QED  BY <1>4, <3>1 DEF Observed, TypeOK, Stage, Actor, Action, Enrv, ApprovalState
  <2>2. PathInv
    BY <1>4 DEF Observed, PathInv, AnswerIsOfReview, CycleReviews, CycleSelects, AnsweredOnce,
                ApprovalWillSettle
  <2>3. WorldInv
    BY <1>2, <1>4, WorldsAssumption, RowsAtFirst DEF Observed, WorldInv
  <2>4. CallerInv
    BY <1>4 DEF Observed, CallerInv
  <2> QED  BY <1>1, <2>1, <2>2, <2>3, <2>4 DEF CycleInv
<1> QED  BY <1>3, <1>4 DEF CycleInit

LEMMA BeginKeepsInv ==
  ASSUME CycleInv, BeginCycle
  PROVE  CycleInv'
<1>1. UNCHANGED vars /\ UNCHANGED <<world, rows, subject>> /\ subject = Nothing
  BY DEF BeginCycle
<1>2. now' \in world.cycles /\ IsWorld(world) /\ RowsMatch(rows, world)
  BY DEF BeginCycle, CycleInv, WorldInv
<1>3. TypeOK' /\ PathInv'
  BY <1>1 DEF CycleInv, TypeOK, PathInv, AnswerIsOfReview, CycleReviews, CycleSelects,
              AnsweredOnce, ApprovalWillSettle, vars
<1>4. WorldInv'
  BY <1>1, <1>2 DEF WorldInv, IsWorld
<1>5. ViewInv'
  <2>1. /\ view' = View(world.losses, world.attempts, rows) /\ cache' = CacheOf(view', now')
        /\ found' = Detect(view', now')
    BY DEF BeginCycle
  <2>2. view'.opportunities = rows
    BY <2>1, ViewIsView
  <2>3. todo' \subseteq found'
    <3>1. PursuedByBaselines(found', view') \subseteq found'
      BY DEF PursuedByBaselines, DetectedOf
    <3> QED  BY <3>1 DEF BeginCycle
  <2> QED  BY <1>1, <1>2, <2>1, <2>2, <2>3 DEF ViewInv
<1>6. SubjectInv'
  BY <1>1 DEF SubjectInv
<1>7. CallerInv'
  <2>1. NoWorld.cycles = {}
    BY DEF NoWorld
  <2> QED  BY <1>1, <1>2, <2>1 DEF CycleInv, CallerInv, vars
<1> QED  BY <1>3, <1>4, <1>5, <1>6, <1>7 DEF CycleInv

LEMMA TakeUpKeepsInv ==
  ASSUME CycleInv, TakeUp
  PROVE  CycleInv'
<1>1. PICK d \in todo :
        /\ subject' = d /\ todo' = todo \ {d}
        /\ opp' = Assembled(d, IF by = "REVIVE" THEN CachedReads(d, cache)
                               ELSE DirectReads(d, view, now), view, now)
  BY DEF TakeUp
<1>2. /\ stage = "ended" /\ stage' = "detected" /\ subject = Nothing
      /\ UNCHANGED <<world, rows, now, cycles, view, cache, found, by>>
      /\ UNCHANGED <<action, enrv, context, approval, answer, asked>>
  BY DEF TakeUp, Locals
<1>3. /\ view = View(world.losses, world.attempts, view.opportunities)
      /\ RowsMatch(view.opportunities, world)
      /\ cache = CacheOf(view, now) /\ found = Detect(view, now) /\ todo \subseteq found
  BY <1>1 DEF CycleInv, ViewInv
<1>4. IsWorld(world) /\ now \in Nat
  BY DEF CycleInv, WorldInv
<1>5. d \in Detect(view, now)
  BY <1>1, <1>3
<1>6. CachedReads(d, cache) = DirectReads(d, view, now)
  BY <1>3, <1>4, <1>5, CacheIsView
<1>7. opp' = Assembled(d, DirectReads(d, view, now), view, now)
  BY <1>1, <1>6
<1>8. TypeOK'
  <2>1. IsOpportunity(opp')
    BY <1>3, <1>4, <1>5, <1>7, AssembledTyped
  <2> QED  BY <1>2, <2>1 DEF CycleInv, TypeOK, Stage
<1>9. PathInv'
  BY <1>2 DEF CycleInv, PathInv, AnswerIsOfReview, CycleReviews, CycleSelects, AnsweredOnce,
              ApprovalWillSettle
<1>10. WorldInv'
  BY <1>2 DEF CycleInv, WorldInv
<1>11. ViewInv'
  BY <1>1, <1>2, <1>3 DEF ViewInv
<1>12. SubjectInv'
  BY <1>1, <1>2, <1>7 DEF SubjectInv
<1>13. CallerInv'
  BY <1>1, <1>2 DEF CycleInv, CallerInv
<1> QED  BY <1>8, <1>9, <1>10, <1>11, <1>12, <1>13 DEF CycleInv

\* What is decided on, and for whom, stays what it is.
LEMMA StepKeepsOpportunity ==
  ASSUME [Next]_vars
  PROVE  opp' = opp /\ by' = by
BY DEF Next, Allocate, FollowBaseline, LeaveAlone, ReviewInCycle, Submit, Authorize, Resubmit, vars

LEMMA DecideKeepsInv ==
  ASSUME CycleInv, [Next]_vars, UNCHANGED cycleVars
  PROVE  CycleInv'
<1>1. TypeOK' /\ PathInv'
  BY StepKeepsTypes, StepKeepsPath DEF CycleInv, CallerInv, Typed
<1>2. opp' = opp /\ by' = by
  BY StepKeepsOpportunity
<1>3. WorldInv' /\ ViewInv' /\ SubjectInv' /\ CallerInv'
  BY <1>2 DEF CycleInv, WorldInv, ViewInv, SubjectInv, CallerInv, cycleVars
<1> QED  BY <1>1, <1>3 DEF CycleInv

LEMMA CarryKeepsInv ==
  ASSUME CycleInv, Carry
  PROVE  CycleInv'
<1>1. /\ subject' = Nothing /\ stage' = "ended" /\ action' = "A00" /\ enrv' = "ZERO"
      /\ context' = {} /\ approval' = "NONE" /\ answer' = "NONE" /\ asked' = FALSE
      /\ UNCHANGED <<world, now, cycles, view, cache, found, todo, opp, by>>
  BY DEF Carry
<1>2. TypeOK' /\ PathInv'
  BY <1>1 DEF CycleInv, TypeOK, Stage, Action, Enrv, ApprovalState, PathInv, AnswerIsOfReview,
              CycleReviews, CycleSelects, AnsweredOnce, ApprovalWillSettle
<1>3. RowsMatch(rows', world)
  <2>1. RowsMatch(rows, world)
    BY DEF CycleInv, WorldInv
  <2>2. \A rs : RowsMatch(Touched(rs), world)
    BY <2>1, TouchedMatch
  <2> QED  BY <2>1, <2>2 DEF Carry
<1>4. WorldInv'
  BY <1>1, <1>3 DEF CycleInv, WorldInv
<1>5. ViewInv' /\ SubjectInv' /\ CallerInv'
  BY <1>1 DEF CycleInv, ViewInv, SubjectInv, CallerInv
<1> QED  BY <1>2, <1>4, <1>5 DEF CycleInv

LEMMA CycleStepKeepsInv ==
  ASSUME CycleInv, [CycleNext]_<<vars, cycleVars>>
  PROVE  CycleInv'
<1>1. CASE BeginCycle
  BY <1>1, BeginKeepsInv
<1>2. CASE TakeUp
  BY <1>2, TakeUpKeepsInv
<1>3. CASE Decide
  BY <1>3, DecideKeepsInv DEF Decide
<1>4. CASE Carry
  BY <1>4, CarryKeepsInv
<1>5. CASE UNCHANGED <<vars, cycleVars>>
  BY <1>5, DecideKeepsInv
<1> QED  BY <1>1, <1>2, <1>3, <1>4, <1>5 DEF CycleNext

LEMMA CycleInvariant == CycleSpec => []CycleInv
BY CycleAtFirst, CycleStepKeepsInv, PTL DEF CycleSpec

-----------------------------------------------------------------------------
(* What holds of every cycle.                                              *)

\* Every variable of the path keeps its type through every cycle of every world:
\* what a context is assembled of a world is an opportunity the path takes.
THEOREM TypeCorrectInCycles == CycleSpec => []TypeOK
<1>1. CycleInv => TypeOK
  BY DEF CycleInv
<1> QED  BY <1>1, CycleInvariant, PTL

\* The same of the decisions a cycle takes on what it has detected in its world.
THEOREM NothingPendingInCycles == CycleSpec => []CycleLeavesNothingPending
<1>1. CycleInv => CycleLeavesNothingPending
  BY PathSettles DEF CycleInv
<1> QED  BY <1>1, CycleInvariant, PTL

\* No message of REVIVE leaves a cycle against the hours, the contacts or the
\* addressability its world shows.
THEOREM MessagesRespectInCycles == CycleSpec => []MessagesRespectTheCustomer
<1>1. CycleInv => MessagesRespectTheCustomer
  BY PathRespects DEF CycleInv
<1> QED  BY <1>1, CycleInvariant, PTL

\* Nor does a world change that an approval that was asked for is of use.
THEOREM ApprovalMattersInCycles == CycleSpec => []ApprovalIsWorthAsking
<1>1. CycleInv => ApprovalIsWorthAsking
  BY PathIsWorthAsking DEF CycleInv
<1> QED  BY <1>1, CycleInvariant, PTL

\* What is being decided on was detected in the view of the cycle.
LEMMA SubjectIsDetected ==
  ASSUME CycleInv, subject # Nothing
  PROVE  /\ IsWorld(world) /\ now \in Nat
         /\ view = View(world.losses, world.attempts, view.opportunities)
         /\ RowsMatch(view.opportunities, world)
         /\ cache = CacheOf(view, now)
         /\ subject \in Detect(view, now)
         /\ opp = Assembled(subject, DirectReads(subject, view, now), view, now)
BY DEF CycleInv, WorldInv, ViewInv, SubjectInv

\* The cache a cycle of REVIVE decides by yields the reads the baselines take from
\* the rows of the view, whatever the world, its executions and the time.
THEOREM CacheIsFaithful == CycleSpec => []CachedIsUncached
<1>1. ASSUME CycleInv
      PROVE  CachedIsUncached
  <2> SUFFICES ASSUME subject # Nothing
               PROVE  CachedReads(subject, cache) = DirectReads(subject, view, now)
    BY DEF CachedIsUncached, JustTakenUp
  <2> QED  BY <1>1, SubjectIsDetected, CacheIsView
<1> QED  BY <1>1, CycleInvariant, PTL

\* Rows that lie ahead of a cycle decide neither what is detected nor any context.
THEOREM NothingAheadIsSeen == CycleSpec => []NoForesight
<1>1. ASSUME CycleInv
      PROVE  NoForesight
  <2> SUFFICES ASSUME subject # Nothing
               PROVE  /\ subject \in Detect(Past(view, now), now)
                      /\ opp = Assembled(subject, DirectReads(subject, Past(view, now), now),
                                         Past(view, now), now)
    BY DEF NoForesight, JustTakenUp
  <2>1. /\ IsWorld(world) /\ now \in Nat
        /\ view = View(world.losses, world.attempts, view.opportunities)
        /\ subject \in Detect(view, now)
        /\ opp = Assembled(subject, DirectReads(subject, view, now), view, now)
    BY <1>1, SubjectIsDetected
  <2>2. /\ subject \in Detect(Past(view, now), now)
        /\ Assembled(subject, DirectReads(subject, Past(view, now), now), Past(view, now), now) =
             Assembled(subject, DirectReads(subject, view, now), view, now)
    BY <2>1, PastIsEnough
  <2> QED  BY <2>1, <2>2
<1> QED  BY <1>1, CycleInvariant, PTL

\* What is handed to the path is of a kind it takes and about one row of its class
\* and customer, but for an anonymous checkout, which is never addressable.
THEOREM HandedOn == CycleSpec => []HandedOnFaithfully
<1>1. ASSUME CycleInv
      PROVE  HandedOnFaithfully
  <2> SUFFICES ASSUME subject # Nothing
               PROVE  /\ IsOpportunity(opp)
                      /\ \/ \E o \in view.opportunities :
                              /\ RowsOf(subject, view) = {o}
                              /\ o.class = subject.class /\ o.customer = subject.customer
                         \/ /\ RowsOf(subject, view) = {}
                            /\ subject.customer = Anonymous /\ subject.hindrance # "NONE"
    BY DEF HandedOnFaithfully, JustTakenUp
  <2>1. IsOpportunity(opp)
    BY <1>1 DEF CycleInv, TypeOK
  <2> QED  BY <1>1, <2>1, SubjectIsDetected, DetectedHasRow
<1> QED  BY <1>1, CycleInvariant, PTL

\* Nothing is selected for an order whose last attempt has settled it, however its
\* failures and settlements follow each other.
THEOREM SettledLeftAlone == CycleSpec => []SettledIsLeftAlone
<1>1. ASSUME CycleInv
      PROVE  SettledIsLeftAlone
  <2> DEFINE A == world.attempts
             S == {i \in DOMAIN A : A[i].order = subject.ref /\ A[i].at <= now}
             tried == RestrictValues(view.transactions,
                                     LAMBDA t : t.order = subject.ref /\ t.at <= now)
  <2> SUFFICES ASSUME by = "REVIVE", stage \in {"selected", "reviewed", "answered"},
                      subject # Nothing, subject.class = "PAYMENT_FAILURE",
                      tried[Max(DOMAIN tried)].status \in Settlements
               PROVE  FALSE
    BY DEF SettledIsLeftAlone
  <2>1. /\ IsWorld(world) /\ now \in Nat
        /\ view = View(world.losses, world.attempts, view.opportunities)
        /\ subject \in Detect(view, now)
        /\ opp = Assembled(subject, DirectReads(subject, view, now), view, now)
    BY <1>1, SubjectIsDetected
  <2>2. PICK n : HasPassed(A, now, n)
    BY <2>1, SomePassed
  <2>3. view.transactions = A
    BY <2>1, ViewIsView
  <2>4. tried = [i \in S |-> A[i]]
    BY <2>3 DEF RestrictValues, Restrict
  <2>5. S = Tried(A, n, subject.ref)
    BY <2>1, <2>2, TriedIs
  <2>6. Max(Tried(A, n, subject.ref)) \in Tried(A, n, subject.ref)
    BY <2>1, <2>2, LastTried
  <2>7. A[Max(Tried(A, n, subject.ref))].status \in Settlements
    <3> HIDE DEF S, tried
    <3>1. DOMAIN tried = Tried(A, n, subject.ref) /\ \A i \in Tried(A, n, subject.ref) : tried[i] = A[i]
      BY <2>4, <2>5
    <3> QED  BY <2>6, <3>1
  <2>8. subject.hindrance # "NONE"
    BY <2>1, <2>2, <2>7, SettledIsHindered
  <2>9. "NOT_ADDRESSABLE" \in opp.signs
    BY <2>1, <2>8, AssembledTyped
  <2>10. action \in Offered(opp) \ {"A00"}
    BY <1>1 DEF CycleInv, PathInv, CycleSelects
  <2> QED  BY <2>9, <2>10 DEF Offered, Available
<1> QED  BY <1>1, CycleInvariant, PTL

\* A key whose window is over in one cycle is hindered in every later one: what is
\* known of an order keeps its first detection, whatever is attempted after it.
THEOREM ExpiredStaysExpired == CycleSpec => ExpiredForGood
<1> DEFINE Stays == \A d \in found, e \in found' :
                      d.key = e.key /\ d.hindrance = "WINDOW_EXPIRED" => e.hindrance # "NONE"
<1>1. ASSUME CycleInv, CycleInv', [CycleNext]_<<vars, cycleVars>>
      PROVE  [Stays]_found
  <2>1. CASE BeginCycle
    <3> SUFFICES ASSUME NEW d \in found, NEW e \in found', d.key = e.key,
                        d.hindrance = "WINDOW_EXPIRED"
                 PROVE  e.hindrance # "NONE"
      OBVIOUS
    <3>1. /\ view = View(world.losses, world.attempts, view.opportunities)
          /\ found = Detect(view, now)
      BY <1>1 DEF CycleInv, ViewInv
    <3>2. /\ view' = View(world.losses, world.attempts, rows) /\ found' = Detect(view', now')
          /\ now' \in world.cycles /\ now' > now
      BY <2>1 DEF BeginCycle
    <3>3. IsWorld(world) /\ now \in Nat /\ now' \in Nat
      BY <1>1, <3>2 DEF CycleInv, WorldInv, IsWorld
    <3>4. now <= now'
      BY <3>2, <3>3
    <3> QED  BY <3>1, <3>2, <3>3, <3>4, ExpiredStays
  <2>2. CASE TakeUp
    BY <2>2 DEF TakeUp
  <2>3. CASE Decide
    BY <2>3 DEF Decide, cycleVars
  <2>4. CASE Carry
    BY <2>4 DEF Carry
  <2>5. CASE UNCHANGED <<vars, cycleVars>>
    BY <2>5 DEF cycleVars
  <2> QED  BY <1>1, <2>1, <2>2, <2>3, <2>4, <2>5 DEF CycleNext
<1> QED  BY <1>1, CycleInvariant, PTL DEF CycleSpec, ExpiredForGood
=============================================================================
