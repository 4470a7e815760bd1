--------------------------- MODULE PipelineWorld ---------------------------
(***************************************************************************)
(* What the cycles of all policies share (benchmark/official/policy_       *)
(* runner.py): a copy of the world whose opportunities they mark           *)
(* (benchmark/official/world.py), the oracle that answers their actions,   *)
(* the capacities they plan within (allocation/resources.py, benchmark/    *)
(* baselines/resources.py), and the results and measurements they leave.   *)
(*                                                                         *)
(* A decision is known by its opportunity and its cycle: the idempotency   *)
(* key contains both.                                                      *)
(***************************************************************************)
EXTENDS Oracle, Measurement, OpportunityMachine, FiniteSets

CONSTANTS
  Policy,      \* the policies to run, some of "B0" to "B3", "REVIVE", "SESSION"
  Action,      \* the actions a plan may choose
  Opportunity,
  Customer,
  CustomerOf,
  Row,               \* the rows the oracle may have
  Value,             \* value at risk
  Cost,              \* predicted cost of each action, incentive included
  Incentive,         \* the part of it that is reserved as an incentive
  MaxCycles,         \* length of cycle_times_micros
  CycleLength,       \* between two of them
  RetrySlots,        \* per cycle
  MessageCapacity,   \* per cycle
  ContactAllowance   \* per customer

\* "retry" is A01; "later" A02, which waits; "link" A03; "notice" A08; "message"
\* A04 and A05; "offer" A06, A07, A09 and A11.
Known == {"retry", "later", "link", "notice", "message", "offer"}

ASSUME WorldAssumption ==
  /\ Policy \subseteq {"B0", "B1", "B2", "B3", "REVIVE", "SESSION"}
  /\ Action \subseteq Known
  /\ IsFiniteSet(Opportunity)
  /\ CustomerOf \in [Opportunity -> Customer]
  /\ \A r \in Row : IsRow(r)
  /\ Value \in Nat /\ Cost \in [Action -> Nat] /\ Incentive \in [Action -> Nat]
  /\ CycleLength \in Nat \ {0}
  /\ {MaxCycles, RetrySlots, MessageCapacity, ContactAllowance} \subseteq Nat

VARIABLES
  policy,    \* the policy that runs
  row,       \* the oracle's row of each opportunity
  cycle,     \* number of the current cycle
  phase,     \* what the pipeline is at
  plan,      \* the selected assignments not yet pursued
  contacts,  \* contacts granted to each customer, over all cycles
  result,    \* the execution store, by decision
  book,      \* the measurement of each decision
  counts,    \* contacts the execution engine has counted for each customer
  mark,      \* state of each opportunity in the world
  touches    \* contacts_made of each opportunity in the world

storeVars == <<result, book, counts, mark, touches>>
worldVars == <<policy, row, cycle, phase, plan, contacts, storeVars>>

Key  == Opportunity \X (1 .. MaxCycles)
Plan == [Opportunity -> Action \cup {"none"}]

Performed == {"succeeded", "failed", "unknown"}
Stage     == Performed \cup {"none", "scheduled", "cancelled"}

\* The states a result reports; intended is those of an action never performed.
Reported(opportunity, intervention, payment, response) ==
  [opportunity |-> opportunity, intervention |-> intervention,
   payment |-> payment, response |-> response]

Intended(opportunity) == Reported(opportunity, <<"INTENDED">>, "none", "none")

NoResult ==
  [stage |-> "none", action |-> "none", time |-> 0, realized |-> NoOutcome, cost |-> 0,
   states |-> Intended(<<>>)]

WorldInit ==
  /\ policy \in Policy
  /\ row \in [Opportunity -> Row]
  /\ cycle = 0
  /\ phase = "waiting"
  /\ plan = [o \in Opportunity |-> "none"]
  /\ contacts = [c \in Customer |-> 0]
  /\ result = [k \in Key |-> NoResult]
  /\ book = [k \in Key |-> Unmeasured]
  /\ counts = [c \in Customer |-> 0]
  /\ mark = [o \in Opportunity |-> "open"]
  /\ touches = [o \in Opportunity |-> 0]

TimeOf(n) == n * CycleLength

-----------------------------------------------------------------------------
(* What an action draws, by the table of the policy: for the baselines A03 *)
(* draws a retry slot and no contact, and A08 draws nothing.               *)

Baseline == policy \in {"B0", "B1", "B2", "B3"}

Retrying   == {"retry", "later"} \cup IF Baseline THEN {"link"} ELSE {}
Contacting == {"message", "offer"} \cup IF Baseline THEN {} ELSE {"link", "notice"}

\* Counted by the engine for the customer, and in the world for the opportunity.
Counting  == {"link", "message"}
Touching == {"notice", "message", "offer"}

Selected(f, kind)   == {o \in Opportunity : f[o] \in kind}
ContactsIn(f, c)    == Cardinality({o \in Selected(f, Contacting) : CustomerOf[o] = c})
ContactsAfter(f)    == [c \in Customer |-> contacts[c] + ContactsIn(f, c)]

FitsSlots(f) ==
  /\ Cardinality(Selected(f, Retrying)) <= RetrySlots
  /\ Cardinality(Selected(f, Contacting)) <= MessageCapacity

\* Mutant of Fits: the allowance of a customer is granted anew in each cycle.
FitsThisCycle(f) ==
  FitsSlots(f) /\ \A c \in Customer : ContactsIn(f, c) <= ContactAllowance

\* can_reserve holds of every assignment.  The slots start each cycle unused,
\* the contacts of a customer go on from cycle to cycle.
Fits(f) ==
  FitsSlots(f) /\ \A c \in Customer : ContactsAfter(f)[c] <= ContactAllowance

Adopt(f) == plan' = f /\ contacts' = ContactsAfter(f) /\ phase' = "acting"

Chosen == {o \in Opportunity : plan[o] # "none"}

Pursued(o) == plan' = [plan EXCEPT ![o] = "none"]

\* Every assignment was pursued.
EndCycle ==
  /\ phase = "acting" /\ Chosen = {}
  /\ phase' = "waiting"
  /\ UNCHANGED <<policy, row, cycle, plan, contacts, storeVars>>

-----------------------------------------------------------------------------
(* Executions and their measurement.                                       *)

StageOf(k) == result[k].stage

StageFor(adapter) ==
  CASE adapter = "SUCCESS"         -> "succeeded"
    [] adapter = "FAILED_TERMINAL" -> "failed"
    [] adapter = "TIMEOUT_UNKNOWN" -> "unknown"

\* The incentive of an action that failed is given back.
RealizedCost(a, adapter) ==
  IF adapter = "FAILED_TERMINAL" THEN AtLeastZero(Cost[a] - Incentive[a]) ELSE Cost[a]

\* Measured at once: neither a measurement store nor a recovery ledger is handed
\* to measure_execution, and it starts from empty ones.
Record(k, r) ==
  /\ result' = [result EXCEPT ![k] = r]
  /\ book' = [book EXCEPT ![k] =
                Measure(r, FALSE, Value, LeftAlone(row[k[1]], r.time, Value))]

\* Mutant of Unperformed: what is not performed costs what was predicted.
UnperformedAtCost(s, a, t) ==
  [NoResult EXCEPT !.stage = s, !.action = a, !.time = t, !.cost = Cost[a]]

\* A schedule reports the opportunity as authorised, a rejection does not report it.
Unperformed(s, a, t) ==
  [NoResult EXCEPT !.stage = s, !.action = a, !.time = t,
                   !.states = Intended(IF s = "scheduled" THEN <<"AUTHORISED">> ELSE <<>>)]

\* The actions with a payment behind them: A01, A02 and A03.
Charging == {"retry", "later", "link"}

StatesAfter(a, outcome) ==
  Reported(OpportunityWalk(outcome), InterventionWalk(outcome),
           PaymentStateFor(a \in Charging, outcome), CustomerResponseFor(outcome.adapter))

CountContact(c, a) ==
  counts' = IF a \in Counting THEN [counts EXCEPT ![c] = @ + 1] ELSE counts

\* Mutant of MarkWorld: increment_contact comes after mark_recovered.
MarkThenTouch(o, gains, a) ==
  /\ touches' = IF a \in Touching THEN [touches EXCEPT ![o] = @ + 1] ELSE touches
  /\ mark' = [mark EXCEPT ![o] = IF a \in Touching THEN "awaiting"
                                 ELSE IF gains THEN "recovered" ELSE @]

\* increment_contact, then mark_recovered when the measurement is positive.
MarkWorld(o, gains, a) ==
  /\ touches' = IF a \in Touching THEN [touches EXCEPT ![o] = @ + 1] ELSE touches
  /\ mark' = [mark EXCEPT ![o] = IF gains THEN "recovered"
                                 ELSE IF a \in Touching THEN "awaiting" ELSE @]

\* The measurement of k counts a recovery.
Counted(k) == book[k].split.gross > 0

\* The metrics of the run: the sums of its measurements, one for each execution.
Measured   == {k \in Key : StageOf(k) # "none"}

Totals ==
  LET TotalOf(f) == MapThenSumSet(LAMBDA k : f[k], Measured)
  IN
  [atRisk     |-> Value * Cardinality(Measured),
   gross      |-> TotalOf([k \in Key |-> book[k].split.gross]),
   natural    |-> TotalOf([k \in Key |-> book[k].split.natural]),
   attributed |-> TotalOf([k \in Key |-> book[k].split.attributed]),
   cost       |-> TotalOf([k \in Key |-> book[k].cost]),
   net        |-> TotalOf([k \in Key |-> book[k].net]),
   contacts   |-> Cardinality({k \in Measured : /\ StageOf(k) = "succeeded"
                                               /\ result[k].action \in Touching})]

\* The engine performs action a for k at time t: the adapter asks the oracle.
Perform(k, a, t) ==
  /\ CountContact(CustomerOf[k[1]], a)
  /\ \E degraded \in {d \in BOOLEAN : d => a = "retry"} :
       LET outcome == Resolve(row[k[1]], a, t, counts'[CustomerOf[k[1]]], Value, degraded)
       IN  Record(k, [stage |-> StageFor(outcome.adapter), action |-> a, time |-> t,
                      realized |-> outcome, cost |-> RealizedCost(a, outcome.adapter),
                      states |-> StatesAfter(a, outcome)])
  /\ MarkWorld(k[1], book'[k].split.gross > 0, a)

-----------------------------------------------------------------------------
(* No customer gets more of the actions that draw a contact than the       *)
(* allowance, however many cycles there are and however many of its        *)
(* opportunities are pursued: begin_cycle resets the slots, never the      *)
(* contacts (revive_pipeline.py:83-88, trace.py:169-174,                   *)
(* baseline_pipeline.py:89-102).                                           *)
ContactsWithinAllowance ==
  \A c \in Customer :
    Cardinality({k \in Key : /\ CustomerOf[k[1]] = c
                             /\ result[k].action \in Contacting
                             /\ StageOf(k) # "none"}) <= ContactAllowance

(* A recovery is on the world's record of the opportunity from the moment  *)
(* it is counted.                                                          *)
RecoveryIsMarked ==
  [][\A k \in Key : Counted(k)' /\ ~Counted(k) => mark'[k[1]] = "recovered"]_worldVars

(* What an execution reports of the opportunity, the intervention and the  *)
(* payment is the end of a walk that the state machines allow, and says    *)
(* the same as the measurement of its recovery, which does not read it.    *)
StatesAgree(k) ==
  LET states  == result[k].states
      reached == states.opportunity[Len(states.opportunity)]
  IN  /\ IsLegal(OpportunityMachine, states.opportunity)
      /\ IsLegal(InterventionMachine, states.intervention)
      /\ IF StageOf(k) \notin Performed
         THEN states.intervention = <<"INTENDED">> /\ states.payment = "none"
         ELSE /\ reached \notin {"AUTHORISED", "ACTING"}
              /\ reached = "RECOVERED" <=> Counted(k)
              /\ reached = "RECONCILING" <=> StageOf(k) = "unknown"
              /\ states.payment = "payment_success" => Counted(k)
              /\ states.response = "delivered" <=> StageOf(k) = "succeeded"

\* The measurement of k adds up and says what the result of k says.
EntryBalances(k) ==
  LET entry == book[k]
      split == entry.split
  IN  /\ split.gross = split.attributed + split.natural + split.ambiguous
      /\ entry.net = split.attributed - entry.cost
      /\ entry.remaining = IF StageOf(k) = "none" THEN 0 ELSE Value - split.gross
      /\ entry.cost # 0 => StageOf(k) \in Performed
      /\ split.gross # 0 => /\ StageOf(k) = "succeeded"
                            /\ result[k].realized.at <= result[k].time + Horizon
      /\ StatesAgree(k)

(* The books balance (AT-3 of docs/21-evaluation.md, and its M-05 to M-07):*)
(* what is counted is split without remainder, it is what the customer     *)
(* owed at most, it came within the horizon of the call that is credited   *)
(* with it, only a call that was performed has a gain or a cost, and the   *)
(* states it reports (execution/world_update.py) and the metrics of the    *)
(* run agree with that.                                                    *)
BooksBalance ==
  /\ \A k \in Key : EntryBalances(k)
  /\ Totals.net = Totals.attributed - Totals.cost
  /\ Totals.gross <= Totals.atRisk

(* No recovery is counted twice, across actions and cycles: AT-2 of        *)
(* docs/21-evaluation.md.                                                  *)
CountedOnce ==
  \A o \in Opportunity : Cardinality({n \in 1 .. MaxCycles : Counted(<<o, n>>)}) <= 1
=============================================================================
