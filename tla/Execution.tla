----------------------------- MODULE Execution -----------------------------
(***************************************************************************)
(* Execution of authorized decisions, revive/execution/agent.py, with the  *)
(* execution store, the reservation ledger and the audit journal it uses.  *)
(*                                                                         *)
(* A call of execute_authorization runs to its end or to the first thing   *)
(* that raises, with no other call in between; what it had done before an  *)
(* exception stays done.  So an action here is a call that returned, or a  *)
(* call cut short at one place that can raise: the two journal appends and *)
(* the adapter.  The caller may call again, any number of times.           *)
(*                                                                         *)
(* A journal is what the caller passes as audit=.  An ExecutionAgent has   *)
(* one for all its calls; a call that passes none writes to a new one.     *)
(* skip is skip_delay=, chosen anew by every call: a call that passes TRUE *)
(* does not wait for the instant of a retry, scheduled or not.             *)
(***************************************************************************)
EXTENDS Authorization, FiniteSetsExt

CONSTANTS
  NoDecision,  \* the decision of a key that has no result
  Journal,     \* audit journals
  Delayed,     \* the decisions for A02, a retry that waits for its instant
  Contacting,  \* the decisions for A03, A04 and A05, which count as a contact
  Customer,
  CustomerOf,
  Delay,       \* earliest_eligible_at of a delayed decision, after it was sealed
  Answers,     \* the adapter results the provider may return
  Faults,      \* what may go wrong: "halt" of a journal, "raise" of the adapter
  Skips,       \* the values of skip_delay= that callers pass
  MaxCalls,    \* bound on the adapter calls made for one key
  MaxIntents   \* bound on the intents of a key before a start whose adapter raises

AdapterResult ==
  {"SUCCESS", "FAILED_RETRYABLE", "FAILED_TERMINAL", "TIMEOUT_UNKNOWN", "REJECTED_BY_PROVIDER"}

\* A key is made of the opportunity, the action, the attempt and the cycle
\* (decision/hashing.py:31-41): decisions of one key plan one action for one
\* customer.
ASSUME ExecutionAssumption ==
  /\ NoDecision \notin Decision
  /\ IsFiniteSet(Journal)
  /\ Delayed \subseteq Decision
  /\ Contacting \subseteq Decision
  /\ Delayed \cap Contacting = {}
  /\ CustomerOf \in [Decision -> Customer]
  /\ IsFiniteSet(Key)
  /\ \A d, e \in Decision : KeyOf[d] = KeyOf[e] =>
       (d \in Contacting <=> e \in Contacting) /\ CustomerOf[d] = CustomerOf[e]
  /\ Delay \in Nat
  /\ Answers \subseteq AdapterResult
  /\ Faults \subseteq {"halt", "raise"}
  /\ Skips \subseteq BOOLEAN
  /\ MaxCalls \in Nat
  /\ MaxIntents \in Nat

\* execution_stage of the result the store holds for a key.
Answered   == {"SUCCEEDED", "RETRYABLE", "PERMANENT_FAILURE", "FAILED"}
Final      == Answered \cup {"CANCELLED"}
Stage      == Final \cup {"NONE", "SCHEDULED"}
Settlement == {"NONE", "COMMIT", "PARTIAL_COMMIT", "RELEASE"}

VARIABLES
  result,    \* _by_idempotency: the stage, the ledger settlement, the decision
  claimed,   \* _claimed
  writable,  \* the journals that were not halted
  intents,   \* ACTION_INTENT records, per journal and key
  outcomes,  \* ACTION_RESULT records, per journal and key
  contacts,  \* env.contact_counts
  effects    \* how often the provider did what was asked, per key

storeVars   == <<result, claimed>>
journalVars == <<writable, intents, outcomes>>
vars        == <<authVars, storeVars, journalVars, contacts, effects>>

TypeOK ==
  /\ AuthTypeOK
  /\ result \in [Key -> [stage : Stage, settlement : Settlement,
                       by : Decision \cup {NoDecision}]]
  /\ claimed \in SUBSET Key
  /\ writable \in SUBSET Journal
  /\ intents \in [Journal \X Key -> Nat]
  /\ outcomes \in [Journal \X Key -> Nat]
  /\ contacts \in [Customer -> Nat]
  /\ effects \in [Key -> Nat]

Init ==
  /\ AuthInit
  /\ result = [k \in Key |-> [stage |-> "NONE", settlement |-> "NONE", by |-> NoDecision]]
  /\ claimed = {}
  /\ writable = Journal
  /\ intents = [p \in Journal \X Key |-> 0]
  /\ outcomes = [p \in Journal \X Key |-> 0]
  /\ contacts = [c \in Customer |-> 0]
  /\ effects = [k \in Key |-> 0]

-----------------------------------------------------------------------------
(* What a call reads.                                                      *)

StageOf(d)  == result[KeyOf[d]].stage
Reserved(d) == HasActive(d) \/ IsCommitted(d)

\* The action is not put off: it is no retry, its instant has come, or the call
\* does not wait for it.  The instant is the same for every call that comes so
\* far with one key, and the one its schedule was stored with: it is that of the
\* one decision the key is authorized for (OneAuthorizationPerKey).
Due(d, skip) == skip \/ d \notin Delayed \/ now >= sealedAt[d] + Delay

\* Mutant of Live: the state of the artifact is not looked at.
LiveUnexpired(d) == IsSealed(d) /\ ~AuthorizationExpired(d)

\* The artifact lets a call through: AUTHORIZED, and not expired.
Live(d) == IsAuthorized(d) /\ ~AuthorizationExpired(d)

\* Mutant of Completing: whatever result there is is completed.
CompletingAny(d, skip) == StageOf(d) # "NONE" /\ Due(d, skip)

\* The call starts the action of a key no call has a result for, or completes
\* the one that is scheduled.
Starting(d, skip)   == StageOf(d) = "NONE" /\ Due(d, skip)
Completing(d, skip) == StageOf(d) = "SCHEDULED" /\ Due(d, skip)

\* Mutant of Duplicate: what failed may be tried again under the same key.
DuplicateUnlessFailed(d) == StageOf(d) \in {"SUCCEEDED", "CANCELLED"}

\* A key with a result the call may not replace: it gets that result back.
Duplicate(d) == StageOf(d) \in Final

StageFor(a) ==
  CASE a = "SUCCESS"          -> "SUCCEEDED"
    [] a = "FAILED_RETRYABLE" -> "RETRYABLE"
    [] a = "FAILED_TERMINAL"  -> "PERMANENT_FAILURE"
    [] OTHER                  -> "FAILED"

SettlementFor(a) ==
  CASE a = "REJECTED_BY_PROVIDER"                    -> "RELEASE"
    [] a \in {"FAILED_RETRYABLE", "FAILED_TERMINAL"} -> "PARTIAL_COMMIT"
    [] OTHER                                         -> "COMMIT"

(* What a call writes.                                                     *)

\* ExecutionStore.record of a result that replaces none or a SCHEDULED one.
Store(d, stage, settlement) ==
  /\ result' = [result EXCEPT ![KeyOf[d]] =
                  [stage |-> stage, settlement |-> settlement, by |-> d]]
  /\ claimed' = claimed \cup {KeyOf[d]}

Claim(d) == claimed' = claimed \cup {KeyOf[d]}

AppendIntent(d, j)  == intents'  = [intents  EXCEPT ![<<j, KeyOf[d]>>] = @ + 1]
AppendOutcome(d, j) == outcomes' = [outcomes EXCEPT ![<<j, KeyOf[d]>>] = @ + 1]

\* Mutant: a delayed retry is taken to have its intent from the schedule.
AppendIntentUnlessDelayed(d, j) ==
  IF StageOf(d) = "NONE" /\ d \notin Delayed THEN j \in writable /\ AppendIntent(d, j)
  ELSE UNCHANGED intents

\* A call that starts writes the intent; one that completes reuses the first.
AppendIntentIfStarting(d, j) ==
  IF StageOf(d) = "NONE" THEN j \in writable /\ AppendIntent(d, j) ELSE UNCHANGED intents

\* Mutant of CountContact: every action counts as a contact.
CountEveryAction(d) == contacts' = [contacts EXCEPT ![CustomerOf[d]] = @ + 1]

CountContact(d) ==
  contacts' = IF d \in Contacting THEN [contacts EXCEPT ![CustomerOf[d]] = @ + 1]
              ELSE contacts

\* Mutant of Settle: the reservation is consumed whatever the answer.
SettleCommits(d, a) == a \in Answers /\ Commit(d)

\* The adapter answers a, and the reservation is settled by that answer.
Settle(d, a) == IF a = "REJECTED_BY_PROVIDER" THEN Release(d) ELSE Commit(d)

Effect(d, a) ==
  /\ effects[KeyOf[d]] < MaxCalls
  /\ effects' = [effects EXCEPT ![KeyOf[d]] = @ + 1]
  /\ CountContact(d)
  /\ Settle(d, a)

-----------------------------------------------------------------------------
(* The calls.                                                              *)

\* A rejection is stored as a CANCELLED result, and takes the place of a
\* scheduled one.
Cancel(d) ==
  /\ ~Duplicate(d)
  /\ Store(d, "CANCELLED", "NONE")
  /\ UNCHANGED <<authVars, journalVars, contacts, effects>>

\* The caller passes an artifact for d that is not AUTHORIZED.  One can always
\* be had, by asking for authorization in a context that is stale.
RejectUnauthorized(d) == IsSealed(d) /\ Cancel(d)

RejectExpired(d) == IsAuthorized(d) /\ AuthorizationExpired(d) /\ Cancel(d)

RejectUnreserved(d, skip) ==
  /\ Live(d)
  /\ StageOf(d) = "NONE" \/ Completing(d, skip)
  /\ ~Reserved(d)
  /\ Cancel(d)

Schedule(d, j) ==
  /\ Live(d) /\ Reserved(d)
  /\ StageOf(d) = "NONE" /\ ~Due(d, FALSE)
  /\ j \in writable
  /\ AppendIntent(d, j)
  /\ Store(d, "SCHEDULED", "NONE")
  /\ UNCHANGED <<authVars, writable, outcomes, contacts, effects>>

Perform(d, j, a, skip) ==
  /\ Live(d) /\ Reserved(d)
  /\ Starting(d, skip) \/ Completing(d, skip)
  /\ j \in writable
  /\ AppendIntentIfStarting(d, j)
  /\ Effect(d, a)
  /\ AppendOutcome(d, j)
  /\ Store(d, StageFor(a), SettlementFor(a))
  /\ UNCHANGED <<now, sealedAt, authStoreVars, writable>>

\* The intent cannot be written.  The key has been claimed by then.
HaltedAtIntent(d, j) ==
  /\ Live(d) /\ Reserved(d)
  /\ StageOf(d) = "NONE"
  /\ j \notin writable
  /\ Claim(d)
  /\ UNCHANGED <<authVars, result, journalVars, contacts, effects>>

\* The outcome cannot be written: the provider was called and the reservation
\* settled, and the call raises before it stores a result.
HaltedAtOutcome(d, j, a, skip) ==
  /\ Live(d) /\ Reserved(d)
  /\ Completing(d, skip)
  /\ j \notin writable
  /\ Effect(d, a)
  /\ UNCHANGED <<now, sealedAt, authStoreVars, storeVars, journalVars>>

\* The adapter raises: the key is claimed, the intent written and the contact
\* counted, and there is no result.
AdapterRaises(d, j, skip) ==
  /\ "raise" \in Faults
  /\ Live(d) /\ Reserved(d)
  /\ Starting(d, skip) \/ Completing(d, skip)
  /\ Starting(d, skip) => intents[<<j, KeyOf[d]>>] < MaxIntents
  /\ d \in Contacting => contacts[CustomerOf[d]] < MaxCalls
  /\ AppendIntentIfStarting(d, j)
  /\ Claim(d)
  /\ CountContact(d)
  /\ UNCHANGED <<authVars, result, writable, outcomes, effects>>

\* AuditJournal.halt.
Halt(j) ==
  /\ "halt" \in Faults
  /\ j \in writable
  /\ writable' = writable \ {j}
  /\ UNCHANGED <<authVars, storeVars, intents, outcomes, contacts, effects>>

(* What the rest of the engine does between two calls.                     *)

EngineStep ==
  /\ \/ \E S \in SUBSET Decision : S # {} /\ (Seal(S) \/ SealRefused(S)) /\ UNCHANGED authStoreVars
     \/ Tick /\ UNCHANGED authStoreVars
     \/ \E d \in Decision, verdict \in Verdicts : Authorize(d, verdict)
     \/ \E d \in Decision :    \* a decision store that shares the ledger
          IsSealed(d) /\ Release(d) /\ UNCHANGED <<now, sealedAt, authStoreVars>>
  /\ UNCHANGED <<storeVars, journalVars, contacts, effects>>

Next ==
  \/ EngineStep
  \/ \E d \in Decision :
       \/ RejectUnauthorized(d)
       \/ RejectExpired(d)
       \/ \E j \in Journal : Schedule(d, j) \/ HaltedAtIntent(d, j)
       \/ \E skip \in Skips :
            \/ RejectUnreserved(d, skip)
            \/ \E j \in Journal :
                 \/ AdapterRaises(d, j, skip)
                 \/ \E a \in Answers :
                      Perform(d, j, a, skip) \/ HaltedAtOutcome(d, j, a, skip)
  \/ \E j \in Journal : Halt(j)

Spec == Init /\ [][Next]_vars

-----------------------------------------------------------------------------
(* What the provider did and what the store says agree as long as no       *)
(* journal was halted: a key with an answered result had its effect once,  *)
(* any other key not at all.  So no action is performed twice, none is     *)
(* performed and then reported as cancelled or still waiting, and a result *)
(* is never made up.  (Duplicate test, claim and record: agent.py:190-260  *)
(* and 347, execution/store.py:31-44.)                                     *)
ResultTellsEffect ==
  writable = Journal =>
    \A k \in Key : effects[k] = IF result[k].stage \in Answered THEN 1 ELSE 0

(* A result that is not a schedule is never replaced, whoever calls again  *)
(* with whatever artifact (execution/store.py:31-44).                      *)
ResultIsFinal ==
  [][\A k \in Key : result[k].stage \in Final => result'[k] = result[k]]_vars

(* Whatever is put off, done or consumed under a key is of one decision,   *)
(* the only one the key is authorized for.  A call that completes a        *)
(* schedule reuses the stored intent with the decision, the ledger rows    *)
(* and the parameters its caller brings (agent.py:190-201, 262-266): they  *)
(* belong together because of this.  No rows are consumed without an       *)
(* effect and no effect leaves rows unsettled, halted journals, adapters   *)
(* that raise and releases from elsewhere included.                        *)
OneDecisionActs ==
  \A k \in Key :
    LET holders == {d \in Decision : KeyOf[d] = k /\ IsAuthorized(d)}
    IN  /\ result[k].stage \in Answered \cup {"SCHEDULED"} => holders = {result[k].by}
        /\ effects[k] > 0 =>
             \E d \in Decision : holders = {d} /\ (IsCommitted(d) \/ d \in released)
        /\ \A d \in Decision : KeyOf[d] = k /\ IsCommitted(d) =>
             holders = {d} /\ effects[k] > 0

(* The ledger agrees with the results (execution/settlement.py:14-40): a   *)
(* result that says COMMIT or PARTIAL_COMMIT has the rows of its decision  *)
(* consumed, for good.  While no journal is halted, one that says RELEASE  *)
(* has them given back, and no rows are consumed but of the decision that  *)
(* the result of their key was settled for.                                *)
SettlementAgrees ==
  /\ \A k \in Key :
       result[k].settlement \in {"COMMIT", "PARTIAL_COMMIT"} => IsCommitted(result[k].by)
  /\ writable = Journal =>
       /\ \A k \in Key :
            LET d == result[k].by
            IN  result[k].settlement = "RELEASE" => d \in released /\ ~IsCommitted(d)
       /\ \A d \in Decision :
            IsCommitted(d) => /\ result[KeyOf[d]].by = d
                              /\ result[KeyOf[d]].settlement \in {"COMMIT", "PARTIAL_COMMIT"}

(* Zero double effects, halted journal or not: docs/15 section 2.2.        *)
NoDoubleEffect == \A k \in Key : effects[k] <= 1

(* Every record of an outcome has the record of its intent before it in    *)
(* the same journal (V-6 of docs/16-audit-trail.md) for a caller that      *)
(* keeps one journal, as an ExecutionAgent does (agent.py:51-93).          *)
IntentBeforeOutcome ==
  Cardinality(Journal) = 1 =>
    \A j \in Journal, k \in Key : outcomes[<<j, k>>] <= intents[<<j, k>>]

(* The contacts counted for a customer lie between the contact actions     *)
(* answered for that customer and the intents written for them: a          *)
(* schedule, a cancellation or a repeated call counts none, and each       *)
(* attempt at most one (agent.py:262-276).                                 *)
ContactsAgree ==
  \A c \in Customer :
    LET keys == {KeyOf[d] : d \in {e \in Contacting : CustomerOf[e] = c}}
        answered == {k \in keys : result[k].stage \in Answered}
    IN  contacts[c] \in Cardinality(answered) ..
                        MapThenSumSet(LAMBDA p : intents[p], Journal \X keys)

-----------------------------------------------------------------------------
(* The engine keeps the promise of AtMostOnce, whatever the adapter raises *)
(* and whichever journals are halted: the phase of a key is read off the   *)
(* stage of its result, and everything is recorded while every journal is  *)
(* writable.                                                               *)
PhaseOf(stage) ==
  CASE stage = "NONE"      -> "open"
    [] stage = "SCHEDULED" -> "waiting"
    [] stage = "CANCELLED" -> "called_off"
    [] OTHER               -> "performed"

Promise == INSTANCE AtMostOnce WITH
             phase     <- [k \in Key |-> PhaseOf(result[k].stage)],
             count     <- effects,
             recording <- writable = Journal

KeepsPromise == Promise!Spec
=============================================================================
