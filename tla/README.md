# REVIVE in TLA+

REVIVE recovers revenue that a merchant is about to lose: failed payments,
abandoned checkouts, overdue invoices, lapsing mandates. In each cycle it
detects opportunities, prices candidate actions, allocates scarce resources to
them, seals the allocation into decisions, authorizes and executes the
decisions, and measures what came of them. An official benchmark runs this
pipeline and four baselines over many synthetic worlds, one result file for
each *cell* (seed, profile, policy), and a sandbox server shows one session of
it.

This directory holds a model of the parts of REVIVE that keep state, the TLC
configurations that check it on small instances, and proofs, checked by TLAPS,
of nearly every safety property the runs check: of the execution engine and its
stores, the decision store, the allocator, the path of a decision, the cycles of
all policies, the cell benchmark and the sandbox server. `PROJECT.json` lists the
components, the runs, the hazards they are for, and for each definition the lines
of source it models.

Contents: [components](#components) ·
[what is hard](#what-is-hard-to-test) ·
[modules](#modules-and-the-code) ·
[runs](#runs) ·
[proofs](#proofs) ·
[where code and documents disagree](#where-code-and-documents-disagree) ·
[limits](#what-is-not-modelled) ·
[plan](#plan)

To check a module: `tlc -config Execution_engine.cfg MCExecution`. To check the
proofs: `tlapm ExecutionProofs.tla`, and so for `Sums`, `AllocationProofs`,
`CyclePathProofs`, `DecisionStoreProofs`, `CellProofs`, `CycleProofs` and
`ServerProofs`.

## Components

| component | state | operations | who calls it | what makes it correct |
|---|---|---|---|---|
| reservation ledger `decision/ledger.py` | active, released and committed rows per decision id | reserve, commit, release | sealing, decision store, settlement | no slot held twice; what is consumed is final |
| sealing `decision/seal.py` | none of its own | seal_allocation | the cycles | all rows of the decisions it returns are filed |
| authorization `policy/authorize.py`, `policy/store.py` | one artifact per decision, claimed keys | authorize_execution, record | the cycles | one authorization per idempotency key, never replaced |
| gates and stopping rules `policy/gates.py`, `policy/stopping.py` | none | evaluate | authorization | verdict is the worst of the gates |
| execution engine `execution/` | results by key, claimed keys, contact counts | execute_authorization | the cycles, settlement of delayed retries | an action at most once, a result that tells what happened and is final |
| audit journal `audit/journal.py` | records, halted or not | append, halt | execution engine | intent before outcome |
| decision store `decision/store.py`, `decision/reconcile.py` | decisions, transitions, cached answers | record_bundle, reconcile, apply_transition, supersede | callers that keep decisions across time | what is unfit is not ready and holds nothing |
| cell benchmark `benchmark/official/cells/` | result files, temporary files, manifest; processes | run, resume, limit | the operator | no torn or lost result, manifest not ahead, completion |
| product cycles `product/trace.py`, `product/session.py` | pending retries, contacts, world, cycle traces | run_traced_cycle, settle_scheduled_executions, build_demo_session | sandbox server | retries settled once, contacts within the allowance |
| official pipeline `benchmark/official/revive_pipeline.py` | the same without pending retries | run_revive_cycle | cell benchmark | as above |
| baselines `benchmark/baselines/`, `benchmark/official/baseline_pipeline.py` | context of capacities and contacts, an empty ledger | run_baseline_cycle_full | cell benchmark | the same constraints as REVIVE |
| allocation `allocation/` | resource state | allocate_portfolio, reserve | the cycles | a plan fits the capacities |
| measurement `measurement/` | optional store and recovery ledger | measure_execution, aggregates | the cycles | nothing counted twice; the accounting identity |
| outcome oracle `simulation/oracle/`, adapters `execution/adapters/` | seeded rows | resolve_outcome | the engine | no recovery past the horizon or above what is owed |
| synthetic world `simulation/` | seeded rows | generate, observe | the cycles | what is ahead is not seen |
| sentinel `recovery/sentinel/` | none | detect, bridge to the rows of the world | the cycles | one opportunity for a loss; settled and expired ones are left alone |
| context, diagnosis, candidates, valuation `recovery/` | the indices of a cycle | assemble, rank_causes, enumerate, evaluate, price | the cycles | a context says what the rows say |
| state machines `state/`, `execution/world_update.py` | none | validate, the engine's walk | tests, the engine | what a result reports is a legal walk and agrees with the measurement |
| sandbox server `product/server.py` | module globals: session, snapshot, run counter, diagnoses, events | GET handlers, recovery-run, ai-diagnosis | HTTP threads | what is served belongs together |
| official evidence `product/official_evidence.py`, `product/benchmark_lab.py` | the cache: payload, index | summary, matrix, search, cell | HTTP threads | verified evidence is whole and its figures are paired |
| freeze, artifacts, validation, calibration, feasibility, performance `benchmark/` | files | reports over results | the operator | reproducibility |
| intelligence `product/intelligence/` | none | calls of an external model, parse, ground, fall back | sandbox server | a diagnosis says nothing the engine does not support |
| projections `product/project.py`, `overview.py`, `benchmark_story.py` | none | projections | sandbox server | what is shown is what was computed |

How they interact. Everything up to the benchmark is single-threaded and calls
downwards: a cycle observes the world, detects, assembles a context for each
opportunity, diagnoses, enumerates and prices candidates, allocates, and then
calls sealing, authorization, execution and measurement in this order for each
selected assignment. The stores and the ledger are shared
objects, and the hazards come from *when* a caller calls again: with the same
decision, a decision of the same key, later, after an exception. Real
concurrency is in two places. The cell benchmark runs worker processes that
share a directory, is killed and restarted; and the sandbox server handles
requests in threads that share globals without a lock, and the cache of the
evidence with a lock for part of it.

## What is hard to test

`PROJECT.json` lists the hazards at their lines. In short:

* **Repetition and partial failure in execution.** A call may be repeated after
  any of its answers, after an exception at either journal append or in the
  adapter, with an expired artifact, or after the reservation was given back or
  has been consumed. Effect, reservation, result and audit record are updated in
  four steps.
* **Two decisions, one key.** Allocations of one cycle may plan the same action
  on the same opportunity. Seal, authorize, expire and execute may interleave.
* **Answers that are cached.** Reconciliation caches by decision, transitions
  and replacement invalidate.
* **Refusal in the middle.** Sealing files rows one decision at a time,
  `record_bundle` stores before it reserves.
* **Files.** Kill between truncate, write, rename and manifest; workers beside
  the parent's count; orphans of an earlier run.
* **Time across cycles.** A retry outlives the authorization it is kept with; a
  recovery is followed by another cycle; an allowance spans all cycles while
  slots are reset.
* **Shared globals.** Session, snapshot, cache and events are written one after
  the other; the index of the evidence part after part, into whatever payload is
  current.
* **Rows that lie ahead.** A world is generated whole. Some fifteen readers each
  have to leave out what has not happened yet, and each cycle works out again
  since when a loss is known.
* **Two ways to one answer.** Contexts from rows or from indices, the fast
  allocator and the one it replaced, the losses detected and the rows that stand
  for them, the state an execution reports and the recovery that is measured.
* **Greedy repair at a capacity.** Primal recovery turns picks that break a
  capacity into assignments, under multipliers updated once more.

## Modules and the code

```
ReservationLedger <- Sealing <- Authorization <- Execution  --implements--> AtMostOnce
                        ^                            ^
                        |                            +-- ExecutionProofs
                  DecisionStore <- DecisionStoreProofs

AllocationResources <- AllocationReference <- Allocation  --implements--> AllocationPromise
                                                  ^
                                                  +-- AllocationProofs

CellRun <- CellRunner  --implements--> CellBenchmark
               ^
               +-- CellProofs

Oracle, Measurement, OpportunityMachine <- PipelineWorld <- RecoveryCycle <- PolicyRunner
                                                                                 ^
                                                                                 +-- CycleProofs
Diagnosis <- Candidates --+
                          +-- DecisionPath
            PolicyGates --+        ^
                                   +------------------- CyclePath <- CyclePathProofs
Diagnosis <- SyntheticWorld <- Sentinel <- Context -----+

Sums <- ExecutionProofs, AllocationProofs, CellProofs, CycleProofs, CyclePathProofs

Intelligence <- ControlRoom
ControlRoom, OfficialEvidence <- EvidenceServer <- ServerProofs
```

An arrow `A <- B` is `EXTENDS`. `MC*` modules give the constants of an instance.
A definition whose comment begins with *Mutant* is a plausible mistake in the
definition after it; no specification uses it. Checking that a property fails
when a mutant takes the place of its definition shows that the property can see
that mistake.

**ReservationLedger**. Rows exclude each other when they have the same resource
key, or are contact allowances of one customer. The model keeps only that: a
*slot* is what at most one active entry may hold. `entry`, `released` and
`consumed` are `_active`, `_released` and `_committed`; `Reserve`,
`ReserveRefused`, `Commit` and `Release` are the methods, including their early
returns.

**Sealing**. `Seal(S)` returns the decisions of allocation `S`; `SealRefused(S)`
is the call that raises after some of them were filed. `sealedAt` is
`created_at` of the decisions that were returned. `Tick` is the virtual clock.

**Authorization**. `artifact` and `authorizedKeys` are the store. `Authorize`
takes any verdict in `Verdicts`, the outcome of gates and stopping rules.

**Execution**. One action per way a call can end: `Cancel` (three rejections),
`Schedule`, `Perform`, and the calls cut short by an exception: `HaltedAtIntent`,
`HaltedAtOutcome`, `AdapterRaises`. A call that finds a final result changes
nothing and is a stutter. `skip` is the parameter `skip_delay`, with which a
retry is performed before it is due (agent.py:194, 230); no caller in `src/`
passes it, and the run has calls of both kinds (`Skips`). A completing call
compares the clock with the instant its schedule was stored with, a starting one
with that of its decision; they are the same, since one decision of a key is ever
authorized (`OneAuthorizationPerKey`) and feasibility gives each retry its
instant. `EngineStep` is what may happen between two calls: sealing,
authorization, time, and a decision store that shares the ledger and gives a
reservation back. `effects` counts what the provider did, which no
variable of the code does. Decisions that share a key are for one customer and
either all of them contact it or none, since the key is a hash of opportunity,
action, attempt and cycle (decision/hashing.py:31-41).

**AtMostOnce** is the engine's promise: for each key an action is put off, then
performed at most once or called off, for good; unless something could not be
recorded, from when on an action not known to be done may be done again.

**DecisionStore**. `stored`, `superseded`, `recorded`, `status`, `passed` and
`cache` are the fields of the class. `Answer` is what `reconcile` returns,
`Assess` the computation of `reconcile_decision`. With `SharedLedger` the bundle
was sealed into the store's ledger; without, `record_bundle` files all rows under
the first id, as `ReservationLedger.reserve` does.

**CellRun, CellRunner**. `CellRun` is `atomic_write_json` in its steps with the
file handles of each process (a handle stays with a file while another process
renames it), and what the two runners share: planning, the count of valid
results and the write of the manifest as two steps, the aggregate. `CellRunner`
is the loop of `parallel.py` with `parallel_worker.py`, and that of `runner.py`
with one worker. `Interrupt`
kills the parent and may leave workers behind. `outlived` is a history variable:
some worker has outlived its run.

**CellBenchmark** is the promise: a persisted result stays, the aggregate is
made of all the results, and is made in the end; results may be spoilt only
after a worker has outlived its run.

**Oracle, Measurement, OpportunityMachine**. Pure operators. `Resolve` is
`resolve_outcome`: a row says of an opportunity whether and when each action
would recover it, fatigue cuts the amount, a degraded issuer delays an immediate
retry, what comes after the horizon is late. `Measure` is `measure_execution`
with the split of `attribution.py`. `OpportunityWalk` and `InterventionWalk` are
the steps the engine takes on an answer, each looked up in the table of the
machine (`Step`); `Validates` is `StateMachine.validate`, which only tests call.

**PipelineWorld**. What the cycles of all policies share: the marks and touches
on the world's opportunities, the execution store as the cycles see it, the
measurements (`book`) with their totals, and the capacities. `Perform` is an
execution: the contact is counted, the oracle answers, the result is stored with
the states it reports, and it is measured and marked. A plan is any assignment
that `can_reserve` admits, so that the properties hold whatever the allocator
prefers. Actions are grouped by what they draw and how they count: A01, A02
(which waits), A03 (not counted as a touch), A08, the other messages and the
offers. `Retrying` and `Contacting` differ between REVIVE's catalogue and the
baselines' own table, and so they do here.

**RecoveryCycle**. The cycles of the official REVIVE pipeline, which leaves a
delayed retry scheduled for good, and of the product session, which settles them
(`Settles`). `held` are the decisions whose own ledger has their rows.

**PolicyRunner** runs one policy on its copy of a world: the cycles of REVIVE or
the session, or those of B0 to B3 with the decisions that the pipeline builds for
them. B0 selects nothing, B1 the step of its schedule, B2 contacts in the order
of the ids while there is room, B3 any order and any wishes. `ledger` is the
ledger the baselines' decisions are executed with.

**AllocationResources, AllocationReference, Allocation**. The capacities with
`CanReserve` and `Reserve`, the order of preference, and a call of
`allocate_portfolio` step by step: iterations, primal recovery one pick at a
time, and the greedy fallback one candidate at a time. Multipliers are floats in
the code and integers here, which decides nothing but how they are rounded.
`AllocationReference` is `lagrangian_reference.py`, the allocator that the fast
one replaced, as functions. **AllocationPromise** is what either allocator
promises: each opportunity is decided once, selected only for what fits and is
worth more than epsilon, and deferred only if it had anything to offer. `Drawn`
and `DrawnFor` are what a selection takes of a resource and of the allowance of a
customer.

**SyntheticWorld, Sentinel, Context**. Pure operators over the rows
of a world. `View` is what a cycle observes; `Detect` is `detect` for all five
classes, with the folding of the attempts on an order, settlements, windows and
what hinders an opportunity; `RowsOf` is the bridge from an opportunity to the
row of the world it stands for. `DirectReads` are the reads of the assembly from
the rows, `CachedReads` those from the indices that REVIVE builds once in a
cycle, and `Assembled` is what diagnosis and feasibility test of a context.

**Diagnosis, Candidates**. Pure operators over an opportunity: its class, the
evidence the class is diagnosed from, and signs, each the outcome of one test
the code makes of the context. `RankedCauses` is `rank_causes`, `Enumerated` is
`enumerate_action_codes`, `Available` is `evaluate_feasibility` and `Offered`
what the allocator gets. `evaluate_feasibility` has the hour, the contacts, the
attempts and the window of the opportunity; an hour is a step of `RetryDelay`.

**PolicyGates**. `Reviewed` is `authorize_execution` up to the record of its
answer: the pre-checks in their order, the stopping rules, the gates and the
worst of their verdicts. A context is the set of the conditions that hold in it.
`SimulatedApproval` is the set of the answers the keyed draw of the simulated
approver can yield.

**DecisionPath** takes one opportunity through these: detected, selected,
reviewed, answered. `by` tells who does it, because each passes another context:
the REVIVE pipeline and the product cycle a constant hour and no counters, a
baseline the same for an action that need not be available, any other caller of
`authorize_execution` what it has observed, perhaps after a human has answered.
The store is in `Authorization`; here an answer is not recorded, and `Resubmit`
is the call with a store of its own.

**CyclePath** puts a world before it: `BeginCycle` observes and detects,
`TakeUp` assembles the context of one opportunity, the steps of `DecisionPath`
decide, and `Carry` takes what was authorized to the row it is about, which has
one contact more then. The opportunities that `DecisionPath` is given without a
world are decided on too. A list that the code filters is here a function on the
places that remain, with the row that was there: its latest row is the one at the
greatest place, and what is known of it can be proved without renumbering.

**Intelligence, ControlRoom**. `Intelligence` is the answer of the model as it is
parsed: which is accepted, which of its claims are grounded in the trace and
which become notes, and the engine's own diagnosis that is taken otherwise.
`ControlRoom` has one action per stretch of a handler between two long calls.
Worlds are their seeds. The model is configured or not for the life of the
server (`keyed`). A call that fails is repeated (`Retry`), an answer that
cannot be used is not (`Conclude` with the fallback), and a connection that
breaks while it is read ends the request (`BreakOff`): a run may clear the cache
between any two of these. `overlapped` is a history variable.

**OfficialEvidence, EvidenceServer**. `OfficialEvidence` is what is worked out
from a tree of result files: whether it is verified, the matrix, the index of
the search, the behaviour of the arms, the page of a cell. `EvidenceServer` has
the requests for it, each in the steps between which another thread may run: the
look at the cache, the verification, the publication of a payload, the three
parts of the index under the lock, and the reads from the payload. `side` says
which half of the server a behaviour is about: the handlers of the session and
those of the evidence share no variable. `alone` is a history variable.

## Runs

| run | instance | states | shows |
|---|---|---|---|
| `Execution_engine` | two delayed retries of one key and slot, one offer; calls that wait for a retry and calls that do not; one journal that may halt; an adapter that may raise, and answers FAILED_RETRYABLE or REJECTED_BY_PROVIDER; lifetimes and delay of one tick | 484 000 | the ledger, the keys, results, effects, contacts and records agree; the engine implements `AtMostOnce` |
| `Execution_doubleEffect` | one delayed retry | violated | `NoDoubleEffect` fails with a halted journal |
| `DecisionStore_lifecycle` | a bundle of two decisions with rows, or of one with and one without, and a later decision that wants the rows of the first; shared ledger | 470 000 | `UnfitHoldsNothing`, `SupersededIsNotReady`, `ExpiryIsFinal` |
| `DecisionStore_expiry` | three decisions, a ledger for each bundle | violated | `ExpiredIsNotReady` fails |
| `Cells` | three cells, two worlds, two workers, two interruptions | 553 000 | files, manifest, verification; implements `CellBenchmark`, with liveness |
| `Cycle_policies` | B0 to B3, REVIVE and the session; two opportunities of one customer, each with one of three rows; two cycles | 176 000 | retries, contacts, marks, and the books |
| `Cycle_twice` | REVIVE on the same worlds | violated | `CountedOnce` fails |
| `Cycle_expired` | the session on the same worlds | violated | `SettledIsPerformed` fails |
| `Allocation_call` | three items, five menus, two customers and an anonymous item, scarce and ample capacities, contacts left over, four configurations | 119 000 | capacities, refusals, agreement with the reference; implements `AllocationPromise` |
| `Decision_path` | six worlds in at most three cycles each; every class and evidence, at most two departures from the usual; callers' contexts of at most two conditions | 1 877 000 | what reaches a decision, and what is decided |
| `ControlRoom_serving` | three threads; two runs and a seed that is invalid, a model that fails, breaks off, is wrong or is not there; or a tree that is missing, partial or complete | 3 445 000 | consistency of the session while requests do not overlap; diagnoses the engine supports; evidence that is whole |
| `ControlRoom_startup` | two threads | violated | `SnapshotExists` fails |

**The properties.** `ResultTellsEffect` compares the store with what the
provider did. `OneDecisionActs` compares the stores of results, authorizations
and reservations: what is put off, done and consumed under a key is of one
decision, though a call that completes a schedule takes the schedule from the
store and everything else from its caller. `SettlementAgrees`
compares the ledger with the results in both directions. `ContactsAgree` bounds
the counter from both sides. `OneAuthorizationPerKey` and `AuthorizationIsFinal`
are the authorization store's, `NoDoubleBooking` the
ledger's. `IntentBeforeOutcome` is for a caller with one journal.

`PendingIsKept` says that the list of pending retries and the execution
store agree and that none of them has lost its reservation; `SessionIsSettled`
that the horizon covers all; `RecoveryIsMarked` that what is counted is on the
world's record at once. `BooksBalance` relates four accounts of an execution that
are made one from another or apart: the oracle's answer, the states the engine
reports, the measurement, and the totals of the run. `NothingIsPerformed` and
`TouchesAreDecisions` record what the code does, and contradict documents (see
below).

`RefusalsStand` is the one that greedy repair could break: what was deferred
early still does not fit when the call returns. `AgreesWithReference` compares
the two allocators, `UsageIsOfSelected` the reservations with the selection.

`NoForesight` compares each detection and context with the same made from rows
without a future. `CachedIsUncached` compares the two ways to a context.
`HandedOnFaithfully` says that detection and the world enumerate the same
losses, `SettledIsLeftAlone` and `ExpiredForGood` what must not be pursued again.
`CycleLeavesNothingPending`,
`MessagesRespectTheCustomer` and `ApprovalIsWorthAsking` each relate two places
of the code that were written apart: the approver and gate G7, the candidates'
tests and the gates' table of contacts, one gate and all the others.

`SnapshotIsOfSession` and the second half of `DiagnosesAreSupported` hold until
two requests have overlapped, and not after. `AnswersAreWhole` is stronger:
requests for the evidence may have raced in any way before, a request that runs
alone, and finds verified evidence in the cache, gets the whole matrix and every
cell, each with the figure of its own seed and profile. For the laboratory, which
verifies the tree anew, it says that this verification agrees with the cached one.

**Bounds.** `MaxTime` 2 with lifetimes of 1 tick reaches before, at and after
each instant. `MaxCalls` 2 lets a second effect of a key be seen, which is what
the properties exclude. `MaxIntents` 1 lets the adapter raise in one start of a
key, which a second start then follows. `OnePlan` gives the first cycle of the
decision store one of two plans, so that bundles with rows for both decisions and
for one are in one run. Two decisions that share a key and a slot, and a third
that shares neither, are the smallest set in which keys and slots conflict and
do not. Two cycles suffice for "earlier" and "later" and for an allowance that is
used up. The three rows of the oracle recover at once, late or of themselves, or
never; one action times out; two contacts tire a customer, and a horizon of two
cycles has recoveries at and past its end. Three items are the least for which
one refusal lets a third item take what two compete for; the menus have
candidates that are dearer, cheaper and worth no more than epsilon. The six
worlds have failures in a cluster, orders paid before and after they fail again,
carts of one customer and of nobody, invoices of different age, a subscription
and a mandate; their cycles lie before, at and after each window. Two workers are
the least that can be out of order, and two interruptions
let a kill be followed by a kill of the run that recovers. Three threads let one
request change the globals between two steps of two others. Two seeds, profiles
and arms are the least in which a figure can be paired with the wrong reference.
A decision is
refused by one condition and approved by none, so two departures from the usual
suffice for one stage to pass what another refuses; the proofs need no such
bound.

SUCCESS, FAILED_TERMINAL and TIMEOUT_UNKNOWN differ from
FAILED_RETRYABLE in the label of the result alone, so the engine's run has one
answer that consumes the reservation and the one that gives it back; the run of
`NoDoubleEffect` has SUCCESS. What the label means for states and books is
checked in `Cycle_policies`. The two retries are alike, and so are the threads of
the server; these runs use that symmetry and have no liveness property.

**Deadlock.** The runs of Execution, DecisionStore, cells, cycles and the decision
path switch the check off: the clock, the calls and the cycles are bounded or the
work is done. The sandbox server and the allocation, whose last step is its
return, are checked for deadlock.

**Fairness.** Only the cell benchmark promises that something happens. `Proceed`
is what the process of a run does, and that someone starts the benchmark again
after it went down; each worker process is scheduled by the operating system.
Kills, failing cells and limited runs get no fairness and happen at most
`MaxInterruptions` times: a benchmark that is killed for ever is never done.

## Proofs

There are seven modules of theorems, one for each component that is proved about,
and `Sums`, the lemmas about sums that five of them use. A theorem states for
every value of the constants what a run shows for one.

`ExecutionProofs` proves for every set of decisions, keys, slots, journals,
answers and every lifetime, from the assumptions `SealingAssumption`,
`AuthorizationAssumption` and `ExecutionAssumption`:

| theorem | states |
|---|---|
| `TypeCorrect` | `Spec => []TypeOK` |
| `EffectsAreTold` | `Spec => []ResultTellsEffect` |
| `ResultsAreFinal` | `Spec => ResultIsFinal` |
| `EngineKeepsPromise` | `Spec => KeepsPromise`: the engine implements `AtMostOnce` |
| `AuthorizationsAreFinal` | `Spec => AuthorizationIsFinal` |
| `KeysAreAuthorizedOnce` | `Spec => []OneAuthorizationPerKey` |
| `OnlyTheHolderActs` | `Spec => []OneDecisionActs` |
| `NothingDoubleBooked` | `Spec => []NoDoubleBooking` |
| `SettlementIsTold` | `Spec => []SettlementAgrees` |
| `IntentsComeFirst` | `Spec => []IntentBeforeOutcome` |
| `ContactsAreTold` | `Spec => []ContactsAgree` |

The argument. `TypeOK` is inductive by itself (`InitTypeOK`, `NextTypeOK`, with
one lemma for each store). The lemma `KeyStep` then looks at one key: a step
leaves it alone, puts it off, calls it off, performs it and stores an answered
result, or performs it with a journal halted and stores nothing; the last four
only when its result is none or a schedule.
The first three theorems after `TypeCorrect` follow from `KeyStep` for every key: `ResultIsFinal`
at once, `ResultTellsEffect` with `WritableShrinks` (a halted
journal stays halted, so if all are writable after a step, they were before) and
`TypeOK /\ ResultTellsEffect` as the inductive invariant. For the refinement the
five cases of `KeyStep` are the actions of `AtMostOnce`; since a step touches
the key of one call only, all other keys stutter.

The next theorems are about the stores under the engine. Most of what the
engine does leaves the authorizations alone or records one artifact
(`AuthorizeStep`), and `RecordStep` says what that changes: nothing that was on
record. `OneAuthorizationPerKey` is not inductive alone, since two decisions of
a key could be authorized one after the other were the key not claimed;
`KeysAreClaimed` adds that whatever is authorized has claimed its key.
For `OneDecisionActs`, `ActStep` says what one step does under a key: nothing is
put off, done or consumed, or one authorized decision does it and its rows are
settled. `HoldersAct`, that whatever was put off, done or consumed is of a
decision authorized for the key, is inductive because an authorization is final
and settled rows stay settled; that this decision is the only one is
`OneAuthorizationPerKey`.
`LedgerStep` reduces a step to filing a set of reservations, settling one, or
giving one back. `NoDoubleBooking` is inductive: only filing makes an entry
active, and `CanFile` compares it with the active entries and with those filed
beside it, also when the sealing is refused half-way.

The last three relate results to ledger, journal and contacts. `SettlementAgrees` is
inductive together with `SettledIsAnswered` (a result that settled its rows is an
answered one): rows are consumed only by a call for their decision, which stores a
result or is cut short by a halted journal (`CommitStep`), and what was consumed, or
given back unconsumed, stays so (`LedgerIsFinal`). `IntentBeforeOutcome`, for a
caller with one journal, holds because the intents of a key cover its outcomes with one to spare while the key is
scheduled (`IntentsCover`): a call that completes a schedule writes none of its own.
For `ContactsAgree` no contact action is ever scheduled (`ContactsAreNotPutOff`),
so a call that counts a contact writes an intent for it; the count lies between
the answered keys and the sum of the intents (`ContactsLie`). This one needs that
decisions of one key agree on the customer and on whether they contact it, and that
there are finitely many journals and keys, which the sums range over.

`AllocationProofs` proves for all portfolios, limits, rooms left by earlier
cycles and configurations, from `ResourceAssumption`, `ReferenceAssumption` and
`CallAssumption`:

| theorem | states |
|---|---|
| `NothingOverAllocated` | `Spec => []NeverOverAllocated` |
| `RefusalsAreTrue` | `Spec => []RefusalsStand` |
| `UsageIsPaidOnce` | `Spec => []UsageIsOfSelected` |
| `FastAgrees` | `Spec => []AgreesWithReference` |
| `TypeCorrect` | `Spec => []TypeOK` |
| `CallKeepsPromise` | `Spec => KeepsPromise`: the allocator implements `AllocationPromise` |

The argument. What is used of a resource only grows during a call
(`ReserveUsesMore`), so what did not fit never fits later
(`RefusedStaysRefused`). The inductive invariant `IInv` says of each phase what
was looked at so far: a pick that recovery deferred has no alternative that fits
(`DeferredDoesNotFit`), a candidate that the fallback has passed belongs to an
opportunity that is decided or does not fit (`PassedDoesNotFit`), and the
fallback defers nothing before it is through. `TakePlan` is the one lemma about
selections, whichever of the three actions makes one; for the promise, each
action is a selection, a deferral, or leaves the plan alone. For these, the
reduced values matter only by the order in which candidates are looked at and by
which of them are worth anything; nothing else of the multipliers is used, so that
it does not matter that the code keeps them as floats. For `UsageIsOfSelected` a step selects
one candidate of an opportunity that was undecided, and drew nothing before, or
none (`SelectionStep`); in the first case exactly one summand changes
(`SelectionDraws`), by what `Reserve` adds to the usage (`SelectionUses`).

`FastAgrees` keeps the call in step with the reference, which is a function of the
arguments and defined by recursion. That the two recursive functions exist, and
what they are at each number, is `DualRunIs` and `PrimalRunIs`. The invariant
`AgreeInv` says for every state of a call that may end by recovery: after `k`
iterations the reference has these picks, multipliers and mode
(`IterationsAgree`), and after as many picks as recovery has left behind it has
this selection, this room and the same picks before it (`RecoveryAgrees`). A step
keeps both. The two add up usage differently, the fast allocator over all items
and the reference over those with a pick, the contacts of a customer over its own
picks: `SumOfSupport` says that summands that are zero may be left out, hence
`SameSubgradient`, hence the same multipliers and the same end (`NextMultipliers`).
Once it has converged or spent its budget, the reference does not move on
(`DualStays`). In recovery the order of preference is strict and total
(`PrecedesIsStrict`), since ids are its last component, so there is exactly one
next pick (`OneIsNext`), whichever way it is found, and the reference repairs it as
the call does (`ReferenceRecovers`). It needs that there are finitely many
customers, over which the excess of contacts is summed. Here the multipliers are
compared as numbers: the theorem says that the two algorithms are the same in exact
arithmetic, and a difference in the order of float additions is not modelled.
`TypeCorrect` follows with it: multipliers are cut off at 0, so that they stay
amounts, and `RestTypeOK` has what only reporting uses.

`CyclePathProofs` proves for every set of opportunities, every contexts of callers
and every set of worlds of any size, from `PathAssumption`, `RowsAssumption` and
`WorldsAssumption`, first of the path alone:

| theorem | states |
|---|---|
| `TypeCorrect` | `Spec => []TypeOK` |
| `NothingPending` | `Spec => []CycleLeavesNothingPending` |
| `MessagesRespect` | `Spec => []MessagesRespectTheCustomer` |
| `ApprovalMatters` | `Spec => []ApprovalIsWorthAsking` |
| `WorseContextNeverHelps` | with more conditions in its context, no action that was refused is authorized |
| `ClassTablesAgree` | every action enumerated for a class is compatible with it by the other table of classes |

and then of the cycles that lead to it:

| theorem | states |
|---|---|
| `TypeCorrectInCycles` | `CycleSpec => []TypeOK` |
| `NothingPendingInCycles` | `CycleSpec => []CycleLeavesNothingPending` |
| `MessagesRespectInCycles` | `CycleSpec => []MessagesRespectTheCustomer` |
| `ApprovalMattersInCycles` | `CycleSpec => []ApprovalIsWorthAsking` |
| `CacheIsFaithful` | `CycleSpec => []CachedIsUncached` |
| `NothingAheadIsSeen` | `CycleSpec => []NoForesight` |
| `HandedOn` | `CycleSpec => []HandedOnFaithfully` |
| `SettledLeftAlone` | `CycleSpec => []SettledIsLeftAlone` |
| `ExpiredStaysExpired` | `CycleSpec => ExpiredForGood` |

The argument. The properties speak of the answer, and say nothing of how it came
about, so the inductive invariant `PathInv` adds that: the answer is `Reviewed`
of what is in the state; a cycle has reviewed a pipeline's context and asked the
approver; REVIVE has selected what was offered; an answer that was asked for
settles. `VerdictsOfGates` reduces the twelve gates to a denial, a deferral and
the verdict of G7, and `VerdictCases` says what the worst of these is. From it:
the approver answers whenever G7 has a trigger, since both use the same
triggers; what is left for approval is denied by no gate, so approval leaves
nothing that denies.

In the cycles `CycleInv` adds to it what the rest of the state is made of. `WorldInv`:
the world is one of those given, and there is one row for each of its losses,
whatever was executed. `ViewInv`: what was found was detected in the view of the
cycle, which is the world with the rows as they were when the cycle began, and the
cache is of that view; or nothing was found yet. `SubjectInv`: what is being decided
on was assembled from this view. `CallerInv`: a caller has no world, and an
opportunity that was given. They need each other: the type of what is decided on
is that of an assembled context (`AssembledTyped`), which needs the world; and
`Carry` changes rows, so that `ViewInv` must be about the rows of the view, and
`WorldInv` about those that the next cycle observes. TLC has checked `CycleInv` on
the instance of `Decision_path` with the opportunities `Usual` (1 104 574 states).

What the properties rest on:

* `After`: what is known of the orders after n attempts is a fold, a recursive
  function on sets of places. It is shown to exist (`KnownTableExists`) and to go one
  attempt at a time (`AfterOneMore`); `KnownIs` says by induction over n that what is
  known of an order comes from a failure of it, is dated by one of its attempts, and
  is worth nothing if the last one has settled it. A later attempt does not change
  the date (`KnownStays`).
* `DraftSource`: each draft of the five detectors is of a loss of the world, and
  `SameKeySameLoss` that a key names one loss. With `RowsOfLoss`, that a loss has
  exactly one row in the view unless its customer is anonymous, this gives `HandedOn`.
* `CacheIsView`: what each index of the cache holds for a subject is what the direct
  reads select; for contacts these are sums over the rows, taken in different
  groups (`ContactsAreSummed`, `StatsAreSums`).
* `PastIsEnough`: each detector, each read and each sign is the same of the view
  and of its past, with a lemma for each (`SameDetected`, `SameReads`, ...).
* `SettledIsHindered`: where the last attempt so far has settled an order, the
  detection is hindered, its context not addressable, and only A00 offered.
* `ExpiredStays`: the date of a key does not move later from cycle to cycle, so
  neither does the end of its window.

`RowsAssumption` says that losses are orders, that the names of losses and of
customers are apart, and that each customer has an instrument; `WorldsAssumption`
that worlds have finitely many losses, attempts in the order of time, those that
failed on orders of losses, and cycles at quarters of an hour.

`DecisionStoreProofs` proves for every set of decisions, slots and bundles, from
`SealingAssumption` and `DecisionStoreAssumption`:

| theorem | states |
|---|---|
| `TypeCorrect` | `Spec => []TypeOK` |
| `CacheIsKept` | `Spec => []CacheInv`, the inductive invariant |
| `SupersededStaysSo` | `Spec => []SupersededIsNotReady` |
| `ExpiredStaysSo` | `Spec => ExpiryIsFinal` |
| `UnfitIsReleased` | `SharedLedger` implies `Spec => []UnfitHoldsNothing` |

The argument. A cached answer is preferred to a new one, so what matters is that it
is never older than the facts. `CacheInv` says so from both sides: whatever says
that a decision was replaced (its last transition, its cached answer, a transition it
has passed) is right, and the answer cached for a replaced decision, if any, says so; and
the same of one that has expired. `passed` is in it because a transition that was
applied before is dropped, and its cached answer is kept with it. `AnswerIsDue`
then reads the two properties off what `reconcile` returns. For
`UnfitHoldsNothing`, `HoldingInv` adds that an id that was sealed has its rows
filed, so that nothing is filed again under an id that became unfit. The
hypothesis `SharedLedger` is the case of bundles sealed into the ledger of the
store, as in the run. Otherwise the property is false: a decision
that replaced another is stored before its bundle is recorded, may become unfit,
and is given its rows afterwards.

`CellProofs` proves for any cells, groups, workers and interruptions, from
`CellRunAssumption` and `ParallelRunnerAssumption`:

| theorem | states |
|---|---|
| `RunnerTypeCorrect` | `Spec => []TypeOK` |
| `NoPartialResult` | `Spec => []ResultsAreComplete` |
| `ManifestIsBehind` | `Spec => []ManifestNotAhead` |
| `ReturnedIsOnDisk` | `Spec => []ReturnIsPersisted` |
| `KeepsPromiseSafely` | the safety half of `KeepsPromise`: `Init` is `Benchmark!Init`, each step a step of `CellBenchmark` or a stutter |

The argument. `MainInv` says which process may have cells and a handle in which
phase. `ApartInv` holds as long as no worker has outlived its run: workers have
different groups, none of which is still queued (`JobsInv`), hence no two processes
have a cell in common (`CellsAreApart`); so the temporary file that a process
holds is the one it has opened, whole once it is closed (`FilesInv`); so a step of
one process replaces its cell by a whole file and leaves all others alone
(`CellStepAlone`), valid results are never lost, and a count made earlier is never
too high (`CountsInv`), though workers go on between the count and the manifest.
What a group has returned is on disk because a worker keeps what it has done of
its group (`JobsInv` again). The first three properties and the promise follow
from `ApartInv` for each action. Once a worker has outlived its run the promise
allows `Spoil`, and `ApartInv` says nothing, which is what the finding about
orphans is about.

`CycleProofs` proves for any finite set of opportunities, any rows, policies,
cycles, delays, capacities and costs, from `OracleAssumption`, `WorldAssumption`,
`CycleAssumption` and `RunnerAssumption`:

| theorem | states |
|---|---|
| `RunTypeCorrect` | `RunSpec => []TypeOK` |
| `RetriesAreKept` | `RunSpec => []PendingIsKept` |
| `SessionEndsSettled` | `RunSpec => []SessionIsSettled` |
| `RecoveriesAreMarked` | `RunSpec => RecoveryIsMarked` |
| `TouchesAreCounted` | `RunSpec => []TouchesAreDecisions` |
| `BaselinesDoNothing` | `RunSpec => []NothingIsPerformed` |
| `AllowanceIsKept` | `RunSpec => []ContactsWithinAllowance` |
| `BooksAreBalanced` | `RunSpec => []BooksBalance` |

The argument. `CycleInv` is the base of all: types; `Timely`, that a decision has
a result only when its cycle came to pursue it, so that what is planned was
never pursued before; and `Waiting`, that pending and due retries are apart, there
are none unless the run settles them, and none is left when the session closes.
`PendingIsKept` and `SessionIsSettled` are part of it or follow. `StepIsOfAKind`
reduces a step, of whichever policy, to granting a plan, pursuing one assignment,
settling one retry, or nothing that counts. From it `MarkStep` and `TouchStep` are
immediate, and `NothingInv` adds to `NothingIsPerformed` that a baseline's decisions are
cancelled one by one. `AllowanceInv` is stronger than the property: what a customer
was granted covers the contacts it had and those still planned in this cycle; a
plan may grant several at once, so `PlanInOrderFits` follows the order in which a
plan is filled to what all of it takes. `BooksInv` says of each decision that its
measurement, the states it reports and its result agree; it needs that what the
oracle answers lies between 0 and what is owed (`AmountIsOwed`, by cases on the
fatigue curve) and that the engine's walks are legal in the tables of the
machines (`WalksAreLegal`). The sums of the run then agree because their
summands do.

The assumption `IsRow` of a row of the oracle is what the generator draws
(simulation/generator.py): amounts are natural numbers, a fatigue curve
has finitely many points, each between 0 and 100 percent.

`ServerProofs` proves for any threads, seeds, number of runs, answers of the model,
trees and queries, from `IntelligenceAssumption`, `ControlRoomAssumption`,
`EvidenceAssumption` and `TreesAssumption`:

| theorem | states |
|---|---|
| `SnapshotsAgree` | `ServerSpec => []SnapshotIsOfSession` |
| `DiagnosesHold` | `ServerSpec => []DiagnosesAreSupported` |
| `AnswersHold` | `ServerSpec => []AnswersAreWhole` |

The argument. That a cached diagnosis is supported owes nothing to the order of
requests: whatever `Concluded` returns is either the engine's own diagnosis, made
from what it knows (`OwnIsSupported`), or an answer that has passed the checks
(`AcceptedIsSupported`), and it is kept under the opportunity whose trace it was made
from. What holds only while requests do not overlap is `Orderly`: one thread at
most is at work; the snapshot is of the session but between the two assignments
of a run (`Shown`); at most one diagnosis is kept, that of the session (`Kept`);
and a thread that is about to replace the session has cleared it (`IsAt`).
`SessionInv` asks for `Orderly` only until `overlapped` is set, which is as far as
the code goes.

`EvidenceInv` is about payloads that several threads share without a lock.
`Genuine`: a payload that says it is verified is of the directory, which is not
exchanged once it is complete. `Whole`: a payload that is made with its index has
all parts of it before it is published. `Completed`: where the published payload
has a matrix and lacks another part, some thread is still at filling it; the parts
may meanwhile go into a payload that another thread has published. So a thread
that is alone and returns the published payload finds it whole (`Served`). A
step of one thread leaves the others where they were, and none of them is alone
(`OthersStep`), so that `LocalStep` leaves only the thread itself and what is
shared to look at. That what it gets agrees with the cells is then a matter of
the definitions of the matrix, the search and the behaviour (`MatrixIsOfTree`,
`SearchIsOfTree`, `BehaviourIsOfTree`).

`TreesAssumption` says that the M-10 a complete tree stores for a cell is the one that the
benchmark works out for it (apply_m10_paired, benchmark/official/metrics.py:223):
the server takes a stored value as it is, and verifies files, not figures.

**Sums.** The library's induction theorems take a predicate as a parameter, which
the provers cannot instantiate. `NumberInduction` and `SetInduction` take the set
of the numbers, or sets, that have the property instead, and are proved by the
least counterexample. With them `MapThenSumSet`, whose definition is a recursive
function on sets, is shown to exist and to be unique (`TablesExist`,
`TablesAgree`), and from that come the lemmas others cite: what a sum is after an
element is added or one summand changes (`SumAdds`, `SumOfOneChange`), its
bounds, differences and growth, and that summands that are zero may be left out
(`SumOfSupport`). `IterationExists` shows in the same way that a function defined by
recursion on the numbers exists, which the dual iterations and primal recovery of the
reference are; `GreatestIsIn` and `GreatestOfFirst` are about `Max`, by which folds
and latest rows are chosen.

**Only model-checked.** That the benchmark is completed, the liveness half of the
cells' `KeepsPromise`: fairness and ENABLED are out of the prover's reach.
All invariants and all other action and temporal properties of the passing runs are
theorems. The runs remain: they show that the assumptions can be met, that each
action happens, and that each property fails under a plausible mistake.

## Where code and documents disagree

Shown by a run that TLC finds violated, or by a property that holds and says
the opposite of the document:

| run, property | document | code |
|---|---|---|
| `Execution_doubleEffect`, `NoDoubleEffect` | docs/15-execution-model.md:75, zero double effects | a call that completes a schedule acts before it appends to a halted journal, and stores nothing (agent.py:278-299) |
| `DecisionStore_expiry`, `ExpiredIsNotReady` | M9-allocation-integrity.md:84 | the cached VALID answer is returned after expiry (store.py:84) |
| `Cycle_twice`, `CountedOnce` | docs/21-evaluation.md:132, AT-2 | no pipeline hands measure_execution a recovery ledger (measure.py:64) |
| `Cycle_expired`, `SettledIsPerformed` | trace.py:97-102, 204-206 | the kept authorization has expired by the instant of the retry (trace.py:229) |
| `ControlRoom_startup`, `SnapshotExists` | the assertion server.py:97 | `_SESSION` is set before `_SNAPSHOT` (server.py:90) |
| `Cycle_policies`, `NothingIsPerformed` | docs/20-benchmark.md:92, BF-8 | nothing is filed in the ledger the baselines execute with (baseline_pipeline.py:261) |
| `Cycle_policies`, `TouchesAreDecisions` | docs/17-data-model.md:98 | cancelled decisions are counted as touches (baseline_pipeline.py:286) |

Met while modelling, and part of the models, without a run of their own:

* docs/13-policy-and-guardrails.md:158-159: what needs approval never executes in
  the proposing cycle, and is re-gated in a later one. The simulated approver
  answers within the cycle (revive_pipeline.py:236), and re-gating a decision
  with the store that holds the request raises (policy/store.py:25).
* docs/34-state-machine.md:154: a decision approved with changes re-enters all
  gates; G7 asks for its approval again (gates.py:242).
* docs/20-benchmark.md:86 (BF-2): baselines may not violate caps or windows; the
  baseline pipeline takes a candidate that is not available, and its context has
  a constant hour and no contacts (baseline_pipeline.py:154, 209).
* docs/12-revenue-leakage-model.md:297: no retry of an expired card; a degraded
  method or a blocked instrument is ranked before the expiry, and a retry is
  offered (diagnosis/rules.py:59, 89).
* implementation-decisions.md:33 and the frozen pack: approval from ₹5000; the
  rules of the gates look elsewhere in the pack and use ₹80,000
  (policy/config.py:50).
* docs/20-benchmark.md:88 (BF-4): REVIVE's catalogue and the baselines' table
  charge A03 and A08 differently (benchmark/baselines/resources.py:8-18).
* docs/15-execution-model.md:64-65: an audit that cannot be written halts
  execution; a completing call reuses the first intent and still acts
  (agent.py:262).
* docs/15-execution-model.md:111: a claimed key blocks; a claim without a
  result does not (agent.py:257).
* docs/16-audit-trail.md:305 (V-6): a call without `audit=` writes to a journal
  of its own, so a settled retry's outcome and intent are in different ones
  (agent.py:138).
* docs/15-execution-model.md:185-186: a failed attempt gives its incentive back;
  the settlement commits all rows (settlement.py:28).
* docs/34-state-machine.md:233-234 (SM-6, SM-7) and docs/17-data-model.md:266
  (DM-22): an approval or an authorization that lapses returns to planning and
  its reservation is given back; the code keeps the artifact (authorize.py:139)
  and the rows (agent.py:505).
* docs/34-state-machine.md:92: RECOVERED is terminal; `increment_contact` sets
  AWAITING_OUTCOME on a recovered opportunity (world.py:125).
* M9-allocation-integrity.md:121, 128: replacing a decision gives its rows back,
  a repeated reconciliation is cached; rows of a bundle are filed under one id
  (store.py:42), and a transition throws the answer away (store.py:74).
* M13.11-benchmark-runner-reliability.md:12, 72: writes are crash-safe; an
  orphaned worker shares the name of the temporary file (cells/store.py:38).
* server.py:146-148: each press is a new run; a request with a given or an
  invalid seed advances the counter as well and clears the diagnoses
  (server.py:152-160). Overlapping runs may pair one's session with the other's
  snapshot (server.py:161-162).
* implementation/ai-substance/contract.md:30: one diagnosis per opportunity,
  cleared by a run; two requests may both ask, and one asked before a run may be
  cached after it (server.py:118, 133). One that is cleared between the test of
  the cache and the look at it is answered as an unknown opportunity (:119).
* implementation/ai-substance/contract.md:16: observed evidence is facts only; a
  claim that names a fact and adds to it is kept (intelligence/schemas.py:161).
* implementation/ai-substance/contract.md:12-13: the answer of the model or the
  fallback; a connection that is reset while it is read ends the request
  (intelligence/groq_client.py:77).
* docs/21-evaluation.md:122: a recovery that would have come anyway is NATURAL;
  the oracle says so only of one that is also late, and a late one is not
  counted at all (simulation/oracle/resolve.py:138).
* docs/21-evaluation.md:123: a recovery before the action is NATURAL, without
  exception; the instant of a recovery is compared with the end of the horizon
  only, and the action is credited (resolve.py:124).
* docs/21-evaluation.md:98: natural recovery cancels in the paired difference;
  only executions are measured, so B0 recovers nothing in any world
  (benchmark/official/policy_runner.py:61).
* benchmark/config.py:10-36: B1 has a schedule of several steps; nobody passes
  `attempt_seq`, so it is always at the first (baselines/b1_fixed_retry.py:95).
* docs/10-recovery-allocation.md:286, 287 (AL-5, AL-6): more capacity never
  lowers the value, a resource that does not bind has price 0; the ascent stops
  after its rounds and the assignments are made after the prices
  (allocation/lagrangian.py:190, 204).
* docs/12-revenue-leakage-model.md:230: `first_detected_at` is when the
  opportunity was created; for a subscription or a mandate it moves with every
  cycle until its own date has come (recovery/sentinel/detect.py:176).
* docs/13-policy-and-guardrails.md:35: contacts are capped by day, week and
  month; they are counted by the first detection of their opportunity, not by
  the contact (recovery/context/history.py:213).
* recovery/sentinel/identity_bridge.py:27-29: the bridge derives the natural key
  of `detect`; for an anonymous checkout it does not, and no row is found (:52).
* product/official_evidence.py:552: the index is guarded by the presence of its
  matrix, which is written before the search index; :548: the path without the
  lock indexes an unverified tree; :547 against benchmark_story.py:529: a tree
  mounted after the first request is not seen until a restart.
* docs/34-state-machine.md:79: STOPPED may be re-opened to PRICED; the table
  says so (state/transitions.py:57) and `validate` refuses it, STOPPED being
  among the terminal states.
* docs/34-state-machine.md:67: RECOVERED is the full amount; any amount above
  zero within the horizon is (execution/world_update.py:34).


## What is not modelled

* **Valuation.** Probabilities, ENRV and prices are floating-point arithmetic
  without state. A valuation is any that the types allow: `Allocation` takes its
  values from a small set, and a cycle's plan is any one that fits the
  capacities, which is more than `Allocation` lets it be.
* **The gates in the other modules.** `Authorization` and the cycles take any
  verdict of the gates, which is more than `DecisionPath` lets them give. The
  contexts of `DecisionPath` are independent conditions, more than a world can
  yield.
* **Hash chains and digests.** Ids are model values; that equal inputs give
  equal ids is what `Sealing` and `Authorization` take from them.
* **The check of the manifest's configuration** (cells/store.py:282-302): the
  manifest found is of this configuration. The second verification in the
  progress output (parallel.py:77) is left out.
* **The machines of approvals, reservations, cycles and runs** (state/): they
  have no caller; what they name changes in `DecisionPath`, `ReservationLedger`
  and the cycles without them.
* **Mounting evidence during a request.** The tree of the official evidence
  appears only while no request for it is in flight. Otherwise a request on the
  path without the lock could put the index of the empty directory into the
  verified payload of another.
* **The simulator endpoint and the static files** of the server, stateless.
* **The product projection** (product/project.py, overview.py,
  benchmark_story.py): what a session looks like on a page.
* **Prompts and confidences** of the intelligence layer. A claim is known by the
  facts it names, blank ones are left out.
* **Calibration, feasibility, freeze, artifacts, aggregation, the database
  schema, the command line, the user interface and the scripts**: studies,
  files and presentation around what the modules decide.

## Plan

Done: execution with ledger, sealing and authorization; decision store; cell
benchmark; diagnosis, candidates, gates and stopping rules; the portfolio
allocation of one call against its reference; the cycles of REVIVE and of the
baselines over a world with its oracle, its books, detection and contexts; the
state machines of the opportunity and the intervention; the sandbox server with
its diagnoses by a model and the cache of the evidence; proofs of the engine's
promise and of its stores, of the decision store, of the path of a decision and
of what leads to it from the rows of a world, of the allocation and its agreement
with its reference, of the cycles under all policies, of the safety of the cell
benchmark, and of the server.

Next, in this order:

1. `Allocation` in the cycles, in place of any plan that fits.
2. `Reviewed` of `PolicyGates` in place of `Verdicts` in an instance of
   `Authorization`.
3. Valuation: monotonicity and bounds of ENRV over integers.
