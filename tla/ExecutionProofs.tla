-------------------------- MODULE ExecutionProofs --------------------------
(***************************************************************************)
(* Theorems about Execution, for every value of its constants.             *)
(***************************************************************************)
EXTENDS Execution, Sums, FiniteSetTheorems, TLAPS

USE SealingAssumption, AuthorizationAssumption, ExecutionAssumption

-----------------------------------------------------------------------------
(* Type correctness.                                                       *)

LEMMA CommitTypeOK ==
  ASSUME NEW d \in Decision, LedgerTypeOK, Commit(d)
  PROVE  LedgerTypeOK'
BY DEF LedgerTypeOK, Commit, ledgerVars

LEMMA ReleaseTypeOK ==
  ASSUME NEW d \in Decision, LedgerTypeOK, Release(d)
  PROVE  LedgerTypeOK'
BY DEF LedgerTypeOK, Release, ledgerVars

LEMMA SettleTypeOK ==
  ASSUME NEW d \in Decision, NEW a, LedgerTypeOK, Settle(d, a)
  PROVE  LedgerTypeOK'
BY CommitTypeOK, ReleaseTypeOK DEF Settle

LEMMA FileTypeOK ==
  ASSUME NEW S, LedgerTypeOK, File(S)
  PROVE  LedgerTypeOK'
BY DEF LedgerTypeOK, File

LEMMA StagesAndSettlements ==
  ASSUME NEW a
  PROVE  /\ StageFor(a) \in Answered
         /\ Answered \subseteq Final
         /\ Final \subseteq Stage
         /\ {"NONE", "SCHEDULED"} \subseteq Stage
         /\ {"NONE", "SCHEDULED"} \cap Final = {}
         /\ "CANCELLED" \in Final \ Answered
         /\ SettlementFor(a) \in Settlement
         /\ "NONE" \in Settlement
BY DEF StageFor, SettlementFor, Answered, Final, Stage, Settlement

LEMMA StoreTypeOK ==
  ASSUME NEW d \in Decision, NEW stage \in Stage, NEW settlement \in Settlement,
         TypeOK, Store(d, stage, settlement)
  PROVE  /\ (result \in [Key -> [stage : Stage, settlement : Settlement,
                                 by : Decision \cup {NoDecision}]])'
         /\ (claimed \in SUBSET Key)'
         /\ result'[KeyOf[d]].stage = stage
         /\ result'[KeyOf[d]].settlement = settlement
         /\ result'[KeyOf[d]].by = d
         /\ \A k \in Key \ {KeyOf[d]} : result'[k] = result[k]
<1>1. result'[KeyOf[d]] = [stage |-> stage, settlement |-> settlement, by |-> d]
  BY DEF TypeOK, Store
<1> QED BY <1>1 DEF TypeOK, Store

\* The engine's own steps, which leave the execution variables alone.
LEMMA EngineTypeOK ==
  ASSUME TypeOK, EngineStep
  PROVE  TypeOK'
<1> USE DEF TypeOK, AuthTypeOK, SealingTypeOK
<1>1. ASSUME NEW S \in SUBSET Decision, Seal(S) \/ SealRefused(S), UNCHANGED authStoreVars
      PROVE  AuthTypeOK'
  <2>1. LedgerTypeOK'
    BY <1>1, FileTypeOK DEF Seal, SealRefused
  <2>2. now' \in Nat /\ sealedAt' \in [Decision -> Nat \cup {Never}]
    BY <1>1 DEF Seal, SealRefused
  <2> QED BY <1>1, <2>1, <2>2 DEF authStoreVars
<1>2. ASSUME Tick, UNCHANGED authStoreVars
      PROVE  AuthTypeOK'
  BY <1>2 DEF Tick, authStoreVars, ledgerVars, LedgerTypeOK
<1>3. ASSUME NEW d \in Decision, NEW verdict \in Verdicts, Authorize(d, verdict)
      PROVE  AuthTypeOK'
  <2>1. SealingTypeOK'
    BY <1>3 DEF Authorize, sealingVars, ledgerVars, LedgerTypeOK
  <2>2. (artifact \in [Decision -> [state : AuthState, at : Nat]])'
    <3> DEFINE state == IF KeyOf[d] \in authorizedKeys THEN "BLOCKED" ELSE verdict
    <3>1. state \in AuthState
      BY DEF AuthState
    <3>2. Record(d, state)
      BY <1>3 DEF Authorize
    <3> HIDE DEF state
    <3> QED BY <3>1, <3>2 DEF Record, authStoreVars
  <2>3. (authorizedKeys \in SUBSET Key)'
    BY <1>3 DEF Authorize, Record, authStoreVars
  <2> QED BY <2>1, <2>2, <2>3
<1>4. ASSUME NEW d \in Decision, Release(d), UNCHANGED <<now, sealedAt, authStoreVars>>
      PROVE  AuthTypeOK'
  BY <1>4, ReleaseTypeOK DEF authStoreVars
<1>5. UNCHANGED <<storeVars, journalVars, contacts, effects>>
  BY DEF EngineStep
<1>6. AuthTypeOK'
  BY <1>1, <1>2, <1>3, <1>4 DEF EngineStep
<1> QED BY <1>5, <1>6 DEF storeVars, journalVars

LEMMA EffectTypeOK ==
  ASSUME TypeOK, NEW d \in Decision, NEW a, Effect(d, a),
         UNCHANGED <<now, sealedAt, authStoreVars>>
  PROVE  /\ AuthTypeOK'
         /\ (contacts \in [Customer -> Nat])'
         /\ (effects \in [Key -> Nat])'
         /\ effects'[KeyOf[d]] = effects[KeyOf[d]] + 1
         /\ \A k \in Key \ {KeyOf[d]} : effects'[k] = effects[k]
<1>1. LedgerTypeOK'
  BY SettleTypeOK DEF Effect, TypeOK, AuthTypeOK, SealingTypeOK
<1>2. AuthTypeOK'
  BY <1>1 DEF TypeOK, AuthTypeOK, SealingTypeOK, authStoreVars
<1>3. (contacts \in [Customer -> Nat])'
  BY DEF Effect, CountContact, TypeOK
<1> QED BY <1>2, <1>3 DEF Effect, TypeOK

LEMMA Increment ==
  ASSUME NEW S, NEW f \in [S -> Nat], NEW p \in S, NEW g, g = [f EXCEPT ![p] = @ + 1]
  PROVE  /\ g \in [S -> Nat]
         /\ g[p] = f[p] + 1
         /\ \A q \in S : q # p => g[q] = f[q]
OBVIOUS

LEMMA AppendTypeOK ==
  ASSUME TypeOK, NEW d \in Decision, NEW j \in Journal
  PROVE  /\ AppendIntent(d, j) =>
              /\ (intents \in [Journal \X Key -> Nat])'
              /\ intents'[<<j, KeyOf[d]>>] = intents[<<j, KeyOf[d]>>] + 1
              /\ \A q \in Journal \X Key : q # <<j, KeyOf[d]>> => intents'[q] = intents[q]
         /\ AppendOutcome(d, j) =>
              /\ (outcomes \in [Journal \X Key -> Nat])'
              /\ outcomes'[<<j, KeyOf[d]>>] = outcomes[<<j, KeyOf[d]>>] + 1
              /\ \A q \in Journal \X Key : q # <<j, KeyOf[d]>> => outcomes'[q] = outcomes[q]
<1> DEFINE S == Journal \X Key
           p == <<j, KeyOf[d]>>
<1>1. p \in S /\ intents \in [S -> Nat] /\ outcomes \in [S -> Nat]
  BY DEF TypeOK
<1>2. /\ AppendIntent(d, j) => intents' = [intents EXCEPT ![p] = @ + 1]
      /\ AppendOutcome(d, j) => outcomes' = [outcomes EXCEPT ![p] = @ + 1]
  BY DEF AppendIntent, AppendOutcome
<1> SUFFICES /\ AppendIntent(d, j) =>
                  /\ intents' \in [S -> Nat]
                  /\ intents'[p] = intents[p] + 1
                  /\ \A q \in S : q # p => intents'[q] = intents[q]
             /\ AppendOutcome(d, j) =>
                  /\ outcomes' \in [S -> Nat]
                  /\ outcomes'[p] = outcomes[p] + 1
                  /\ \A q \in S : q # p => outcomes'[q] = outcomes[q]
  OBVIOUS
<1> HIDE DEF S, p
<1> QED BY <1>1, <1>2, Increment

LEMMA NextTypeOK ==
  ASSUME TypeOK, [Next]_vars
  PROVE  TypeOK'
<1>1. CASE EngineStep
  BY <1>1, EngineTypeOK
<1>2. ASSUME NEW d \in Decision, Cancel(d)
      PROVE  TypeOK'
  <2>1. /\ (result \in [Key -> [stage : Stage, settlement : Settlement,
                                by : Decision \cup {NoDecision}]])'
        /\ (claimed \in SUBSET Key)'
    <3>1. "CANCELLED" \in Stage /\ "NONE" \in Settlement
      BY StagesAndSettlements
    <3> QED BY <1>2, <3>1, StoreTypeOK DEF Cancel
  <2> QED BY <1>2, <2>1 DEF Cancel, TypeOK, AuthTypeOK, SealingTypeOK, LedgerTypeOK,
             authVars, sealingVars, ledgerVars, authStoreVars, journalVars
<1>3. ASSUME NEW d \in Decision, NEW j \in Journal, Schedule(d, j)
      PROVE  TypeOK'
  <2>1. /\ (result \in [Key -> [stage : Stage, settlement : Settlement,
                                by : Decision \cup {NoDecision}]])'
        /\ (claimed \in SUBSET Key)'
    <3>1. "SCHEDULED" \in Stage /\ "NONE" \in Settlement
      BY StagesAndSettlements
    <3> QED BY <1>3, <3>1, StoreTypeOK DEF Schedule
  <2>2. (intents \in [Journal \X Key -> Nat])'
    BY <1>3, AppendTypeOK DEF Schedule
  <2> QED BY <1>3, <2>1, <2>2 DEF Schedule, TypeOK, AuthTypeOK, SealingTypeOK, LedgerTypeOK,
             authVars, sealingVars, ledgerVars, authStoreVars
<1>4. ASSUME NEW d \in Decision, NEW j \in Journal, NEW a \in Answers, NEW skip \in Skips,
             Perform(d, j, a, skip)
      PROVE  TypeOK'
  <2>1. /\ (result \in [Key -> [stage : Stage, settlement : Settlement,
                                by : Decision \cup {NoDecision}]])'
        /\ (claimed \in SUBSET Key)'
    <3>1. StageFor(a) \in Stage /\ SettlementFor(a) \in Settlement
      BY StagesAndSettlements
    <3> QED BY <1>4, <3>1, StoreTypeOK DEF Perform
  <2>2. (intents \in [Journal \X Key -> Nat])' /\ (outcomes \in [Journal \X Key -> Nat])'
    BY <1>4, AppendTypeOK DEF Perform, AppendIntentIfStarting, TypeOK
  <2>3. AuthTypeOK' /\ (contacts \in [Customer -> Nat])' /\ (effects \in [Key -> Nat])'
    BY <1>4, EffectTypeOK DEF Perform
  <2> QED BY <1>4, <2>1, <2>2, <2>3 DEF Perform, TypeOK
<1>5. ASSUME NEW d \in Decision, NEW j \in Journal, HaltedAtIntent(d, j)
      PROVE  TypeOK'
  BY <1>5 DEF HaltedAtIntent, Claim, TypeOK, AuthTypeOK, SealingTypeOK, LedgerTypeOK,
     authVars, sealingVars, ledgerVars, authStoreVars, journalVars
<1>6. ASSUME NEW d \in Decision, NEW j \in Journal, NEW a \in Answers, NEW skip \in Skips,
             HaltedAtOutcome(d, j, a, skip)
      PROVE  TypeOK'
  <2>1. AuthTypeOK' /\ (contacts \in [Customer -> Nat])' /\ (effects \in [Key -> Nat])'
    BY <1>6, EffectTypeOK DEF HaltedAtOutcome
  <2> QED BY <1>6, <2>1 DEF HaltedAtOutcome, TypeOK, storeVars, journalVars
<1>7. ASSUME NEW d \in Decision, NEW j \in Journal, NEW skip \in Skips,
             AdapterRaises(d, j, skip)
      PROVE  TypeOK'
  <2>1. (intents \in [Journal \X Key -> Nat])'
    BY <1>7, AppendTypeOK DEF AdapterRaises, AppendIntentIfStarting, TypeOK
  <2>2. (contacts \in [Customer -> Nat])'
    BY <1>7 DEF AdapterRaises, CountContact, TypeOK
  <2> QED BY <1>7, <2>1, <2>2 DEF AdapterRaises, Claim, TypeOK, AuthTypeOK, SealingTypeOK,
             LedgerTypeOK, authVars, sealingVars, ledgerVars, authStoreVars
<1>8. ASSUME NEW j \in Journal, Halt(j)
      PROVE  TypeOK'
  BY <1>8 DEF Halt, TypeOK, AuthTypeOK, SealingTypeOK, LedgerTypeOK,
     authVars, sealingVars, ledgerVars, authStoreVars, storeVars
<1>9. CASE UNCHANGED vars
  BY <1>9 DEF vars, TypeOK, AuthTypeOK, SealingTypeOK, LedgerTypeOK,
     authVars, sealingVars, ledgerVars, authStoreVars, storeVars, journalVars
<1> QED BY <1>1, <1>2, <1>3, <1>4, <1>5, <1>6, <1>7, <1>8, <1>9
        DEF Next, RejectUnauthorized, RejectExpired, RejectUnreserved

LEMMA InitTypeOK == Init => TypeOK
BY DEF Init, TypeOK, AuthInit, AuthTypeOK, SealingInit, SealingTypeOK, LedgerInit,
   LedgerTypeOK, AuthState, Stage, Settlement, Final, Answered

(* Every variable keeps its type: in particular a result always names the  *)
(* decision it was stored for, and no key outside Key is ever claimed.     *)
THEOREM TypeCorrect == Spec => []TypeOK
BY InitTypeOK, NextTypeOK, PTL DEF Spec

-----------------------------------------------------------------------------
(* What a step can do to one key.                                          *)

Open(k) == result[k].stage \in {"NONE", "SCHEDULED"}

Untouched(k) == result'[k] = result[k] /\ effects'[k] = effects[k]

PutOff(k) ==
  /\ result[k].stage = "NONE" /\ result'[k].stage = "SCHEDULED"
  /\ effects'[k] = effects[k]

CalledOff(k) ==
  /\ Open(k) /\ result'[k].stage = "CANCELLED"
  /\ effects'[k] = effects[k]

Performed(k) ==
  /\ Open(k) /\ result'[k].stage \in Answered
  /\ effects'[k] = effects[k] + 1

PerformedUnrecorded(k) ==
  /\ writable # Journal
  /\ Open(k) /\ result'[k] = result[k]
  /\ effects'[k] = effects[k] + 1

LEMMA KeyStep ==
  ASSUME TypeOK, [Next]_vars, NEW k \in Key
  PROVE  \/ Untouched(k) \/ PutOff(k) \/ CalledOff(k)
         \/ Performed(k) \/ PerformedUnrecorded(k)
<1>0. \A d \in Decision : StageOf(d) = result[KeyOf[d]].stage
  BY DEF StageOf
<1>1. CASE EngineStep
  BY <1>1 DEF EngineStep, storeVars, Untouched
<1>2. ASSUME NEW d \in Decision, Cancel(d)
      PROVE  Untouched(k) \/ CalledOff(k)
  <2>1. "CANCELLED" \in Stage /\ "NONE" \in Settlement
    BY StagesAndSettlements
  <2>2. /\ result'[KeyOf[d]].stage = "CANCELLED"
        /\ \A l \in Key \ {KeyOf[d]} : result'[l] = result[l]
    BY <1>2, <2>1, StoreTypeOK DEF Cancel
  <2>3. Open(KeyOf[d])
    BY <1>0, <1>2 DEF Cancel, Duplicate, Open, TypeOK, Stage
  <2> QED BY <1>2, <2>2, <2>3 DEF Cancel, Untouched, CalledOff
<1>3. ASSUME NEW d \in Decision, NEW j \in Journal, Schedule(d, j)
      PROVE  Untouched(k) \/ PutOff(k)
  <2>1. "SCHEDULED" \in Stage /\ "NONE" \in Settlement
    BY StagesAndSettlements
  <2>2. /\ result'[KeyOf[d]].stage = "SCHEDULED"
        /\ \A l \in Key \ {KeyOf[d]} : result'[l] = result[l]
    BY <1>3, <2>1, StoreTypeOK DEF Schedule
  <2> QED BY <1>0, <1>3, <2>2 DEF Schedule, Untouched, PutOff
<1>4. ASSUME NEW d \in Decision, NEW j \in Journal, NEW a \in Answers, NEW skip \in Skips,
             Perform(d, j, a, skip)
      PROVE  Untouched(k) \/ Performed(k)
  <2>1. StageFor(a) \in Answered /\ StageFor(a) \in Stage /\ SettlementFor(a) \in Settlement
    BY StagesAndSettlements
  <2>2. /\ result'[KeyOf[d]].stage = StageFor(a)
        /\ \A l \in Key \ {KeyOf[d]} : result'[l] = result[l]
    BY <1>4, <2>1, StoreTypeOK DEF Perform
  <2>3. /\ effects'[KeyOf[d]] = effects[KeyOf[d]] + 1
        /\ \A l \in Key \ {KeyOf[d]} : effects'[l] = effects[l]
    BY <1>4, EffectTypeOK DEF Perform
  <2>4. Open(KeyOf[d])
    BY <1>0, <1>4 DEF Perform, Starting, Completing, Open
  <2> QED BY <2>1, <2>2, <2>3, <2>4 DEF Untouched, Performed
<1>5. ASSUME NEW d \in Decision, NEW j \in Journal, HaltedAtIntent(d, j)
      PROVE  Untouched(k)
  BY <1>5 DEF HaltedAtIntent, Untouched
<1>6. ASSUME NEW d \in Decision, NEW j \in Journal, NEW a \in Answers, NEW skip \in Skips,
             HaltedAtOutcome(d, j, a, skip)
      PROVE  Untouched(k) \/ PerformedUnrecorded(k)
  <2>1. /\ effects'[KeyOf[d]] = effects[KeyOf[d]] + 1
        /\ \A l \in Key \ {KeyOf[d]} : effects'[l] = effects[l]
    BY <1>6, EffectTypeOK DEF HaltedAtOutcome
  <2>2. /\ Open(KeyOf[d])
        /\ writable # Journal
        /\ result' = result
    BY <1>0, <1>6 DEF HaltedAtOutcome, Completing, Open, storeVars
  <2> QED BY <2>1, <2>2 DEF Untouched, PerformedUnrecorded
<1>7. ASSUME NEW d \in Decision, NEW j \in Journal, NEW skip \in Skips,
             AdapterRaises(d, j, skip)
      PROVE  Untouched(k)
  BY <1>7 DEF AdapterRaises, Untouched
<1>8. ASSUME NEW j \in Journal, Halt(j)
      PROVE  Untouched(k)
  BY <1>8 DEF Halt, Untouched, storeVars
<1>9. CASE UNCHANGED vars
  BY <1>9 DEF vars, storeVars, Untouched
<1> QED BY <1>1, <1>2, <1>3, <1>4, <1>5, <1>6, <1>7, <1>8, <1>9
        DEF Next, RejectUnauthorized, RejectExpired, RejectUnreserved

\* A halted journal stays halted.
LEMMA WritableShrinks ==
  ASSUME TypeOK, [Next]_vars
  PROVE  writable' \subseteq writable
<1>1. ASSUME NEW d \in Decision, NEW j \in Journal, NEW a \in Answers, NEW skip \in Skips,
             Perform(d, j, a, skip) \/ HaltedAtOutcome(d, j, a, skip)
      PROVE  writable' = writable
  BY <1>1 DEF Perform, HaltedAtOutcome, journalVars
<1>2. ASSUME NEW d \in Decision, NEW j \in Journal, NEW skip \in Skips, AdapterRaises(d, j, skip)
      PROVE  writable' = writable
  BY <1>2 DEF AdapterRaises
<1>3. ASSUME NEW d \in Decision, Cancel(d)
      PROVE  writable' = writable
  BY <1>3 DEF Cancel, journalVars
<1>4. ASSUME EngineStep \/ UNCHANGED vars
      PROVE  writable' = writable
  BY <1>4 DEF EngineStep, journalVars, vars
<1>5. ASSUME NEW j \in Journal, Halt(j)
      PROVE  writable' \subseteq writable
  BY <1>5 DEF Halt
<1>6. ASSUME Next, ~EngineStep, \A j \in Journal : ~Halt(j)
      PROVE  writable' = writable
  <2>1. ASSUME NEW d \in Decision,
               \/ RejectUnauthorized(d) \/ RejectExpired(d)
               \/ \E skip \in Skips : RejectUnreserved(d, skip)
        PROVE  writable' = writable
    BY <1>3, <2>1 DEF RejectUnauthorized, RejectExpired, RejectUnreserved
  <2>2. ASSUME NEW d \in Decision, NEW j \in Journal, Schedule(d, j) \/ HaltedAtIntent(d, j)
        PROVE  writable' = writable
    BY <2>2 DEF Schedule, HaltedAtIntent, journalVars
  <2> QED BY <1>1, <1>2, <1>6, <2>1, <2>2 DEF Next
<1> QED BY <1>4, <1>5, <1>6

-----------------------------------------------------------------------------
(* Results and effects.                                                    *)

LEMMA ResultTellsEffectStep ==
  ASSUME TypeOK, ResultTellsEffect, [Next]_vars
  PROVE  ResultTellsEffect'
<1> SUFFICES ASSUME writable' = Journal, NEW k \in Key
             PROVE  effects'[k] = IF result'[k].stage \in Answered THEN 1 ELSE 0
  BY DEF ResultTellsEffect
<1>1. writable = Journal
  BY WritableShrinks DEF TypeOK
<1>2. effects[k] = IF result[k].stage \in Answered THEN 1 ELSE 0
  BY <1>1 DEF ResultTellsEffect
<1>3. Open(k) => result[k].stage \notin Answered
  BY DEF Open, Answered
<1>4. {"SCHEDULED", "CANCELLED"} \cap Answered = {}
  BY DEF Answered
<1> QED BY <1>1, <1>2, <1>3, <1>4, KeyStep
        DEF Untouched, PutOff, CalledOff, Performed, PerformedUnrecorded, Open

(* As long as no journal is halted, the provider was called once for a key *)
(* whose result says it answered, and never for any other: no double       *)
(* effect, no effect reported as cancelled, no result without an effect.   *)
THEOREM EffectsAreTold == Spec => []ResultTellsEffect
<1>1. Init => ResultTellsEffect
  BY DEF Init, ResultTellsEffect, Answered
<1> QED BY <1>1, ResultTellsEffectStep, TypeCorrect, PTL DEF Spec

(* Whoever calls again, with whatever artifact, at whatever time, a result *)
(* that is not a schedule is never replaced.                               *)
THEOREM ResultsAreFinal == Spec => ResultIsFinal
<1>1. ASSUME TypeOK, [Next]_vars
      PROVE  [\A k \in Key : result[k].stage \in Final => result'[k] = result[k]]_vars
  <2>1. ASSUME NEW k \in Key, result[k].stage \in Final
        PROVE  result'[k] = result[k]
    <3>1. ~Open(k)
      BY <2>1 DEF Open, Final, Answered
    <3> QED BY <1>1, <3>1, KeyStep
            DEF Untouched, PutOff, CalledOff, Performed, PerformedUnrecorded, Open
  <2> QED BY <2>1
<1> QED BY <1>1, TypeCorrect, PTL DEF Spec, ResultIsFinal

-----------------------------------------------------------------------------
(* The engine keeps the promise of AtMostOnce.                             *)

\* A step touches one key at most.
LEMMA OneKeyAtATime ==
  ASSUME TypeOK, [Next]_vars
  PROVE  \/ \A l \in Key : Untouched(l)
         \/ \E k \in Key : \A l \in Key \ {k} : Untouched(l)
<1>1. ASSUME NEW d \in Decision, NEW stage \in Stage, NEW settlement \in Settlement,
             Store(d, stage, settlement),
             \A l \in Key \ {KeyOf[d]} : effects'[l] = effects[l]
      PROVE  \E k \in Key : \A l \in Key \ {k} : Untouched(l)
  <2>1. \A l \in Key \ {KeyOf[d]} : Untouched(l)
    BY <1>1, StoreTypeOK DEF Untouched
  <2> QED BY <2>1
<1>2. "CANCELLED" \in Stage /\ "SCHEDULED" \in Stage /\ "NONE" \in Settlement
  BY StagesAndSettlements
<1>3. ASSUME NEW d \in Decision, Cancel(d)
      PROVE  \E k \in Key : \A l \in Key \ {k} : Untouched(l)
  BY <1>1, <1>2, <1>3 DEF Cancel
<1>4. ASSUME NEW d \in Decision, NEW j \in Journal, Schedule(d, j)
      PROVE  \E k \in Key : \A l \in Key \ {k} : Untouched(l)
  BY <1>1, <1>2, <1>4 DEF Schedule
<1>5. ASSUME NEW d \in Decision, NEW j \in Journal, NEW a \in Answers, NEW skip \in Skips,
             Perform(d, j, a, skip)
      PROVE  \E k \in Key : \A l \in Key \ {k} : Untouched(l)
  <2>1. StageFor(a) \in Stage /\ SettlementFor(a) \in Settlement
    BY StagesAndSettlements
  <2>2. \A l \in Key \ {KeyOf[d]} : effects'[l] = effects[l]
    BY <1>5, EffectTypeOK DEF Perform
  <2>3. Store(d, StageFor(a), SettlementFor(a))
    BY <1>5 DEF Perform
  <2> QED BY <1>1, <2>1, <2>2, <2>3
<1>6. ASSUME NEW d \in Decision, NEW j \in Journal, NEW a \in Answers, NEW skip \in Skips,
             HaltedAtOutcome(d, j, a, skip)
      PROVE  \E k \in Key : \A l \in Key \ {k} : Untouched(l)
  <2>1. \A l \in Key \ {KeyOf[d]} : effects'[l] = effects[l] /\ result'[l] = result[l]
    BY <1>6, EffectTypeOK DEF HaltedAtOutcome, storeVars
  <2> QED BY <2>1 DEF Untouched
<1>7. \/ \E d \in Decision :
           \/ Cancel(d)
           \/ \E j \in Journal : Schedule(d, j)
           \/ \E j \in Journal, a \in Answers, skip \in Skips :
                Perform(d, j, a, skip) \/ HaltedAtOutcome(d, j, a, skip)
      \/ result' = result /\ effects' = effects
  BY DEF Next, EngineStep, RejectUnauthorized, RejectExpired, RejectUnreserved,
     HaltedAtIntent, AdapterRaises, Halt, storeVars, vars
<1> QED BY <1>3, <1>4, <1>5, <1>6, <1>7 DEF Untouched

\* Only the halt of a journal changes what can be recorded, and nothing else.
LEMMA HaltStep ==
  ASSUME TypeOK, [Next]_vars, writable' # writable
  PROVE  /\ writable' # Journal
         /\ result' = result
         /\ effects' = effects
<1>1. \E j \in Journal : Halt(j)
  <2>1. ASSUME NEW d \in Decision, NEW j \in Journal,
               Schedule(d, j) \/ HaltedAtIntent(d, j) \/ (\E skip \in Skips : AdapterRaises(d, j, skip))
                 \/ \E a \in Answers, skip \in Skips :
                     Perform(d, j, a, skip) \/ HaltedAtOutcome(d, j, a, skip)
        PROVE  writable' = writable
    BY <2>1 DEF Schedule, HaltedAtIntent, AdapterRaises, Perform, HaltedAtOutcome, journalVars
  <2>2. ASSUME \/ EngineStep \/ UNCHANGED vars
               \/ \E d \in Decision : RejectUnauthorized(d) \/ RejectExpired(d)
                    \/ \E skip \in Skips : RejectUnreserved(d, skip)
        PROVE  writable' = writable
    BY <2>2 DEF EngineStep, RejectUnauthorized, RejectExpired, RejectUnreserved, Cancel, journalVars, vars
  <2> QED BY <2>1, <2>2 DEF Next
<1> QED BY <1>1 DEF Halt, storeVars, TypeOK

LEMMA OneChange ==
  ASSUME NEW S, NEW T, NEW f \in [S -> T], NEW g \in [S -> T], NEW x \in S,
         \A y \in S \ {x} : g[y] = f[y]
  PROVE  g = [f EXCEPT ![x] = g[x]]
OBVIOUS

LEMMA PromiseStep ==
  ASSUME TypeOK, [Next]_vars
  PROVE  [Promise!Next]_<<[k \in Key |-> PhaseOf(result[k].stage)], effects, writable = Journal>>
<1> DEFINE phase == [k \in Key |-> PhaseOf(result[k].stage)]
           recording == writable = Journal
           promiseVars == <<phase, effects, recording>>
<1>0. effects \in [Key -> Nat] /\ effects' \in [Key -> Nat]
  BY NextTypeOK DEF TypeOK
<1>1. CASE writable' # writable
  <2>1. phase' = phase /\ effects' = effects
    BY <1>1, HaltStep
  <2>2. recording' = FALSE
    BY <1>1, HaltStep
  <2> QED BY <2>1, <2>2 DEF Promise!Next, Promise!StopRecording
<1>2. CASE writable' = writable
  <2>1. recording' = recording
    BY <1>2
  <2>2. CASE \A l \in Key : Untouched(l)
    <3>1. phase' = phase
      BY <2>2 DEF Untouched
    <3>2. effects' = effects
      BY <1>0, <2>2 DEF Untouched
    <3> QED BY <2>1, <3>1, <3>2
  <2>3. ASSUME NEW k \in Key, \A l \in Key \ {k} : Untouched(l)
        PROVE  [Promise!Next]_promiseVars
    <3>1. \A l \in Key \ {k} : phase'[l] = phase[l] /\ effects'[l] = effects[l]
      BY <2>3 DEF Untouched
    <3>2. /\ phase' = [phase EXCEPT ![k] = PhaseOf(result'[k].stage)]
          /\ effects' = [effects EXCEPT ![k] = effects'[k]]
      <4>1. \A l \in Key : phase'[l] = PhaseOf(result'[l].stage)
        OBVIOUS
      <4>2. phase' = [phase EXCEPT ![k] = phase'[k]]
        BY <3>1, OneChange
      <4>3. effects' = [effects EXCEPT ![k] = effects'[k]]
        BY <1>0, <3>1, OneChange
      <4> QED BY <4>1, <4>2, <4>3
    <3>3. CASE Untouched(k)
      BY <2>2, <2>3, <3>3
    <3>4. CASE PutOff(k)
      <4>1. phase[k] = "open" /\ PhaseOf(result'[k].stage) = "waiting"
        BY <3>4 DEF PutOff, PhaseOf
      <4>2. effects' = effects
        BY <1>0, <3>2, <3>4 DEF PutOff
      <4> QED BY <2>1, <3>2, <4>1, <4>2 DEF Promise!Next, Promise!PutOff
    <3>5. CASE CalledOff(k)
      <4>1. phase[k] \in {"open", "waiting"} /\ PhaseOf(result'[k].stage) = "called_off"
        BY <3>5 DEF CalledOff, Open, PhaseOf
      <4>2. effects' = effects
        BY <1>0, <3>2, <3>5 DEF CalledOff
      <4> QED BY <2>1, <3>2, <4>1, <4>2 DEF Promise!Next, Promise!CallOff
    <3>6. CASE Performed(k)
      <4>1. phase[k] \in {"open", "waiting"} /\ PhaseOf(result'[k].stage) = "performed"
        BY <3>6 DEF Performed, Open, PhaseOf, Answered
      <4>2. effects' = [effects EXCEPT ![k] = effects[k] + 1]
        BY <3>2, <3>6 DEF Performed
      <4> QED BY <2>1, <3>2, <4>1, <4>2 DEF Promise!Next, Promise!Perform
    <3>7. CASE PerformedUnrecorded(k)
      <4>1. phase[k] \in {"open", "waiting"}
        BY <3>7 DEF PerformedUnrecorded, Open, PhaseOf
      <4>2. phase' = phase
        BY <2>3, <3>7 DEF PerformedUnrecorded, Untouched
      <4>3. effects' = [effects EXCEPT ![k] = effects[k] + 1]
        BY <3>2, <3>7 DEF PerformedUnrecorded
      <4>4. ~recording
        BY <3>7 DEF PerformedUnrecorded
      <4> QED BY <2>1, <4>1, <4>2, <4>3, <4>4 DEF Promise!Next, Promise!PerformUnrecorded
    <3> QED BY <3>3, <3>4, <3>5, <3>6, <3>7, KeyStep
  <2> QED BY <2>2, <2>3, OneKeyAtATime
<1> QED BY <1>1, <1>2

(* Every behaviour of the engine is one of AtMostOnce: whatever the        *)
(* adapter raises, whichever journals are halted, whoever calls again and  *)
(* whatever becomes of authorizations and reservations meanwhile.          *)
THEOREM EngineKeepsPromise == Spec => KeepsPromise
<1>1. Init => Promise!Init
  BY DEF Init, Promise!Init, PhaseOf
<1>2. TypeOK /\ [Next]_vars
        => [Promise!Next]_<<[k \in Key |-> PhaseOf(result[k].stage)], effects, writable = Journal>>
  BY PromiseStep
<1> QED BY <1>1, <1>2, TypeCorrect, PTL DEF Spec, KeepsPromise, Promise!Spec

-----------------------------------------------------------------------------
(* Authorizations and reservations.                                        *)

\* What a step may do to the authorization store.
LEMMA AuthorizationStep ==
  ASSUME [Next]_vars
  PROVE  \/ UNCHANGED authStoreVars
         \/ \E d \in Decision, verdict \in Verdicts : Authorize(d, verdict)
<1>1. ASSUME NEW d \in Decision, NEW j \in Journal,
             Schedule(d, j) \/ HaltedAtIntent(d, j) \/ (\E skip \in Skips : AdapterRaises(d, j, skip))
               \/ \E a \in Answers, skip \in Skips :
                     Perform(d, j, a, skip) \/ HaltedAtOutcome(d, j, a, skip)
      PROVE  UNCHANGED authStoreVars
  BY <1>1 DEF Schedule, HaltedAtIntent, AdapterRaises, Perform, HaltedAtOutcome, authVars
<1>2. ASSUME \/ UNCHANGED vars \/ \E j \in Journal : Halt(j)
             \/ \E d \in Decision : RejectUnauthorized(d) \/ RejectExpired(d)
                    \/ \E skip \in Skips : RejectUnreserved(d, skip)
      PROVE  UNCHANGED authStoreVars
  BY <1>2 DEF RejectUnauthorized, RejectExpired, RejectUnreserved, Cancel, Halt, authVars, vars
<1> QED BY <1>1, <1>2 DEF Next, EngineStep

\* Recording an artifact leaves every other alone, and one that is there as it is.
LEMMA RecordStep ==
  ASSUME AuthTypeOK, NEW d \in Decision, NEW state \in AuthState, Record(d, state)
  PROVE  /\ \A e \in Decision : artifact'[e] # artifact[e] =>
              e = d /\ artifact[d].state = "NONE" /\ artifact'[d].state = state
         /\ authorizedKeys \subseteq authorizedKeys'
         /\ artifact'[d] # artifact[d] /\ state = "AUTHORIZED" => KeyOf[d] \in authorizedKeys'
<1>1. CASE artifact[d].state # "NONE"
  BY <1>1 DEF Record, authStoreVars
<1>2. CASE artifact[d].state = "NONE"
  <2>1. artifact' = [artifact EXCEPT ![d] = [state |-> state, at |-> now]]
    BY <1>2 DEF Record
  <2>2. authorizedKeys' = IF state = "AUTHORIZED"
                          THEN authorizedKeys \cup {KeyOf[d]} ELSE authorizedKeys
    BY <1>2 DEF Record
  <2> QED BY <1>2, <2>1, <2>2 DEF AuthTypeOK
<1> QED BY <1>1, <1>2

LEMMA AuthorizeStep ==
  ASSUME AuthTypeOK, [Next]_vars
  PROVE  \/ UNCHANGED authStoreVars
         \/ \E d \in Decision, state \in AuthState :
              /\ Record(d, state)
              /\ KeyOf[d] \in authorizedKeys => state # "AUTHORIZED"
<1>1. ASSUME NEW d \in Decision, NEW verdict \in Verdicts, Authorize(d, verdict)
      PROVE  \E state \in AuthState :
               Record(d, state) /\ (KeyOf[d] \in authorizedKeys => state # "AUTHORIZED")
  <2> DEFINE state == IF KeyOf[d] \in authorizedKeys THEN "BLOCKED" ELSE verdict
  <2>1. state \in AuthState
    BY DEF AuthState
  <2>2. Record(d, state)
    BY <1>1 DEF Authorize
  <2>3. KeyOf[d] \in authorizedKeys => state # "AUTHORIZED"
    OBVIOUS
  <2> HIDE DEF state
  <2> QED BY <2>1, <2>2, <2>3
<1> QED BY <1>1, AuthorizationStep

(* An authorization on record stays as it is, whatever is authorized or    *)
(* approved after it, and however often.                                   *)
THEOREM AuthorizationsAreFinal == Spec => AuthorizationIsFinal
<1>1. ASSUME TypeOK, [Next]_vars
      PROVE  [\A d \in Decision : artifact[d].state # "NONE" => artifact'[d] = artifact[d]]_authVars
  <2>1. AuthTypeOK
    BY <1>1 DEF TypeOK
  <2>2. ASSUME NEW e \in Decision, artifact[e].state # "NONE"
        PROVE  artifact'[e] = artifact[e]
    BY <1>1, <2>1, <2>2, AuthorizeStep, RecordStep DEF authStoreVars
  <2> QED BY <2>2
<1> QED BY <1>1, TypeCorrect, PTL DEF Spec, AuthorizationIsFinal

\* Whatever is authorized has claimed its key (policy/store.py:27-30).
KeysAreClaimed == \A d \in Decision : IsAuthorized(d) => KeyOf[d] \in authorizedKeys

(* Of the decisions of a key at most one is authorized.  The claim of its  *)
(* key in the store makes the invariant inductive: a decision is refused   *)
(* when the key is claimed, and what is authorized has claimed it.         *)
THEOREM KeysAreAuthorizedOnce == Spec => []OneAuthorizationPerKey
<1> DEFINE IInv == OneAuthorizationPerKey /\ KeysAreClaimed
<1>1. Init => IInv
  BY DEF Init, AuthInit, OneAuthorizationPerKey, KeysAreClaimed, IsAuthorized
<1>2. TypeOK /\ IInv /\ [Next]_vars => IInv'
  <2> SUFFICES ASSUME TypeOK, IInv, [Next]_vars PROVE IInv'
    OBVIOUS
  <2>0. AuthTypeOK
    BY DEF TypeOK
  <2>1. CASE UNCHANGED authStoreVars
    BY <2>1 DEF OneAuthorizationPerKey, KeysAreClaimed, IsAuthorized, authStoreVars
  <2>2. ASSUME NEW d \in Decision, NEW state \in AuthState, Record(d, state),
               KeyOf[d] \in authorizedKeys => state # "AUTHORIZED"
        PROVE  IInv'
    <3>1. /\ \A e \in Decision : artifact'[e] # artifact[e] =>
               e = d /\ artifact[d].state = "NONE" /\ artifact'[d].state = state
          /\ authorizedKeys \subseteq authorizedKeys'
          /\ artifact'[d] # artifact[d] /\ state = "AUTHORIZED" => KeyOf[d] \in authorizedKeys'
      BY <2>0, <2>2, RecordStep
    <3>2. \A e \in Decision : IsAuthorized(e)' =>
            \/ IsAuthorized(e)
            \/ e = d /\ KeyOf[d] \notin authorizedKeys /\ KeyOf[d] \in authorizedKeys'
      BY <2>2, <3>1 DEF IsAuthorized
    <3>3. KeysAreClaimed'
      BY <3>1, <3>2 DEF KeysAreClaimed
    <3>4. OneAuthorizationPerKey'
      BY <3>2 DEF OneAuthorizationPerKey, KeysAreClaimed
    <3> QED BY <3>3, <3>4
  <2> QED BY <2>0, <2>1, <2>2, AuthorizeStep
<1> QED BY <1>1, <1>2, TypeCorrect, PTL DEF Spec

\* What a step may do to the ledger.
LEMMA LedgerStep ==
  ASSUME [Next]_vars
  PROVE  \/ UNCHANGED ledgerVars
         \/ \E S \in SUBSET Decision : CanFile(S) /\ File(S)
         \/ \E d \in Decision : Commit(d) \/ Release(d)
<1>1. CASE EngineStep
  BY <1>1 DEF EngineStep, Seal, SealRefused, Tick, Authorize, sealingVars
<1>2. ASSUME NEW d \in Decision, NEW a \in Answers, Effect(d, a)
      PROVE  Commit(d) \/ Release(d)
  BY <1>2 DEF Effect, Settle
<1>3. ASSUME NEW d \in Decision, NEW j \in Journal, NEW a \in Answers, NEW skip \in Skips,
             Perform(d, j, a, skip) \/ HaltedAtOutcome(d, j, a, skip)
      PROVE  Commit(d) \/ Release(d)
  BY <1>2, <1>3 DEF Perform, HaltedAtOutcome
<1>4. ASSUME NEW d \in Decision, NEW j \in Journal,
             Schedule(d, j) \/ HaltedAtIntent(d, j) \/ (\E skip \in Skips : AdapterRaises(d, j, skip))
      PROVE  UNCHANGED ledgerVars
  BY <1>4 DEF Schedule, HaltedAtIntent, AdapterRaises, authVars, sealingVars
<1>5. ASSUME NEW d \in Decision, RejectUnauthorized(d) \/ RejectExpired(d)
                    \/ \E skip \in Skips : RejectUnreserved(d, skip)
      PROVE  UNCHANGED ledgerVars
  BY <1>5 DEF RejectUnauthorized, RejectExpired, RejectUnreserved, Cancel, authVars, sealingVars
<1>6. ASSUME UNCHANGED vars \/ \E j \in Journal : Halt(j)
      PROVE  UNCHANGED ledgerVars
  BY <1>6 DEF Halt, authVars, sealingVars, vars
<1> QED BY <1>1, <1>3, <1>4, <1>5, <1>6 DEF Next

(* No slot is held by two entries that are active: the conflict test of    *)
(* reserve is enough, whatever is sealed, refused half-way, settled and    *)
(* given back, in any order.                                               *)
THEOREM NothingDoubleBooked == Spec => []NoDoubleBooking
<1>1. Init => NoDoubleBooking
  BY DEF Init, AuthInit, SealingInit, LedgerInit, NoDoubleBooking, HasActive, HasEntry
<1>2. TypeOK /\ NoDoubleBooking /\ [Next]_vars => NoDoubleBooking'
  <2> SUFFICES ASSUME TypeOK, NoDoubleBooking, [Next]_vars PROVE NoDoubleBooking'
    OBVIOUS
  <2>0. LedgerTypeOK
    BY DEF TypeOK, AuthTypeOK, SealingTypeOK
  <2>1. ASSUME \A d \in Decision : HasActive(d)' => HasActive(d) /\ entry'[d] = entry[d]
        PROVE  NoDoubleBooking'
    BY <2>1 DEF NoDoubleBooking
  <2>2. CASE UNCHANGED ledgerVars
    BY <2>1, <2>2 DEF HasActive, HasEntry, ledgerVars
  <2>3. ASSUME NEW S \in SUBSET Decision, CanFile(S), File(S)
        PROVE  NoDoubleBooking'
    <3>1. ASSUME NEW d \in Decision, HasActive(d)'
          PROVE  \/ d \in Unfiled(S) /\ entry'[d] = SlotsOf[d]
                 \/ d \notin Unfiled(S) /\ entry'[d] = entry[d] /\ HasActive(d)
      BY <2>3, <3>1 DEF File, HasActive, HasEntry
    <3>2. ASSUME NEW d \in Unfiled(S), NEW e \in Decision, HasActive(e), d # e
          PROVE  SlotsOf[d] \cap entry[e] = {}
      BY <2>3, <3>2 DEF CanFile, Conflicts, Unfiled
    <3>3. \A d, e \in Unfiled(S) : d # e => SlotsOf[d] \cap SlotsOf[e] = {}
      BY <2>3 DEF CanFile
    <3>4. ASSUME NEW d \in Decision, NEW e \in Decision, d # e, HasActive(d)', HasActive(e)'
          PROVE  entry'[d] \cap entry'[e] = {}
      <4>1. CASE d \in Unfiled(S) /\ e \in Unfiled(S)
        BY <3>1, <3>3, <3>4, <4>1
      <4>2. CASE d \in Unfiled(S) /\ e \notin Unfiled(S)
        BY <3>1, <3>2, <3>4, <4>2
      <4>3. CASE d \notin Unfiled(S) /\ e \in Unfiled(S)
        BY <3>1, <3>2, <3>4, <4>3
      <4>4. CASE d \notin Unfiled(S) /\ e \notin Unfiled(S)
        BY <3>1, <3>4, <4>4 DEF NoDoubleBooking
      <4> QED BY <4>1, <4>2, <4>3, <4>4
    <3> QED BY <3>4 DEF NoDoubleBooking
  <2>4. ASSUME NEW d \in Decision, Commit(d)
        PROVE  NoDoubleBooking'
    <3>1. ASSUME NEW e \in Decision, HasActive(e)'
          PROVE  HasActive(e) /\ entry'[e] = entry[e]
      BY <2>0, <2>4, <3>1 DEF Commit, HasActive, HasEntry, ledgerVars, LedgerTypeOK
    <3> QED BY <2>1, <3>1
  <2>5. ASSUME NEW d \in Decision, Release(d)
        PROVE  NoDoubleBooking'
    <3>1. ASSUME NEW e \in Decision, HasActive(e)'
          PROVE  HasActive(e) /\ entry'[e] = entry[e]
      BY <2>5, <3>1 DEF Release, HasActive, HasEntry, ledgerVars
    <3> QED BY <2>1, <3>1
  <2> QED BY <2>2, <2>3, <2>4, <2>5, LedgerStep
<1> QED BY <1>1, <1>2, TypeCorrect, PTL DEF Spec

-----------------------------------------------------------------------------
(* Settlement.                                                             *)

\* What was consumed stays so, and so does what was given back unconsumed.
LEMMA LedgerIsFinal ==
  ASSUME TypeOK, [Next]_vars, NEW d \in Decision
  PROVE  /\ IsCommitted(d) => IsCommitted(d)'
         /\ d \in released /\ ~IsCommitted(d) => (d \in released /\ ~IsCommitted(d))'
<1>0. LedgerTypeOK
  BY DEF TypeOK, AuthTypeOK, SealingTypeOK
<1>1. CASE UNCHANGED ledgerVars
  BY <1>1 DEF IsCommitted, ledgerVars
<1>2. ASSUME NEW S \in SUBSET Decision, File(S)
      PROVE  consumed' = consumed /\ released' = released
  BY <1>2 DEF File
<1>3. ASSUME NEW e \in Decision, Commit(e)
      PROVE  /\ released' = released
             /\ IsCommitted(d) => IsCommitted(d)'
             /\ d \in released => consumed'[d] = consumed[d]
  BY <1>0, <1>3 DEF Commit, LedgerTypeOK, IsCommitted, HasActive, HasEntry, ledgerVars
<1>4. ASSUME NEW e \in Decision, Release(e)
      PROVE  consumed' = consumed /\ released \subseteq released'
  BY <1>4 DEF Release, ledgerVars
<1> QED BY <1>1, <1>2, <1>3, <1>4, LedgerStep DEF IsCommitted

\* The rows of a decision are consumed by a call for it, which stores a result
\* or is cut short.
LEMMA CommitStep ==
  ASSUME TypeOK, [Next]_vars, NEW d \in Decision, ~IsCommitted(d), IsCommitted(d)'
  PROVE  \/ writable # Journal
         \/ \E j \in Journal, a \in Answers, skip \in Skips :
              a # "REJECTED_BY_PROVIDER" /\ Perform(d, j, a, skip)
<1>0. LedgerTypeOK
  BY DEF TypeOK, AuthTypeOK, SealingTypeOK
<1>1. ASSUME NEW e \in Decision, NEW a \in Answers, Effect(e, a)
      PROVE  e = d /\ a # "REJECTED_BY_PROVIDER"
  BY <1>0, <1>1 DEF Effect, Settle, Commit, Release, LedgerTypeOK, IsCommitted, ledgerVars
<1>2. consumed' # consumed
  BY DEF IsCommitted
<1>3. \E e \in Decision, j \in Journal, a \in Answers, skip \in Skips :
        Perform(e, j, a, skip) \/ HaltedAtOutcome(e, j, a, skip)
  <2>1. ~EngineStep
    BY <1>2 DEF EngineStep, Seal, SealRefused, File, Tick, Authorize, Release, sealingVars, ledgerVars
  <2> QED BY <1>2, <2>1 DEF Next, RejectUnauthorized, RejectExpired, RejectUnreserved, Cancel,
             Schedule, HaltedAtIntent, AdapterRaises, Halt, authVars, sealingVars, ledgerVars, vars
<1> QED BY <1>1, <1>3 DEF Perform, HaltedAtOutcome

\* What a step may do to the result of a key, seen by its settlement.
LEMMA SettlementStep ==
  ASSUME TypeOK, [Next]_vars, NEW k \in Key
  PROVE  \/ result'[k] = result[k]
         \/ Open(k) /\ result'[k].settlement = "NONE"
         \/ \E d \in Decision, a \in Answers :
              /\ KeyOf[d] = k /\ Open(k) /\ Reserved(d) /\ Settle(d, a)
              /\ result'[k] = [stage |-> StageFor(a), settlement |-> SettlementFor(a), by |-> d]
<1>0. \A d \in Decision : StageOf(d) = result[KeyOf[d]].stage
  BY DEF StageOf
<1>1. ASSUME NEW d \in Decision, Cancel(d)
      PROVE  result'[k] = result[k] \/ (Open(k) /\ result'[k].settlement = "NONE")
  <2>1. "CANCELLED" \in Stage /\ "NONE" \in Settlement
    BY StagesAndSettlements
  <2>2. /\ result'[KeyOf[d]].settlement = "NONE"
        /\ \A l \in Key \ {KeyOf[d]} : result'[l] = result[l]
    BY <1>1, <2>1, StoreTypeOK DEF Cancel
  <2>3. Open(KeyOf[d])
    BY <1>0, <1>1 DEF Cancel, Duplicate, Open, TypeOK, Stage
  <2> QED BY <2>2, <2>3
<1>2. ASSUME NEW d \in Decision, NEW j \in Journal, Schedule(d, j)
      PROVE  result'[k] = result[k] \/ (Open(k) /\ result'[k].settlement = "NONE")
  <2>1. "SCHEDULED" \in Stage /\ "NONE" \in Settlement
    BY StagesAndSettlements
  <2>2. /\ result'[KeyOf[d]].settlement = "NONE"
        /\ \A l \in Key \ {KeyOf[d]} : result'[l] = result[l]
    BY <1>2, <2>1, StoreTypeOK DEF Schedule
  <2> QED BY <1>0, <1>2, <2>2 DEF Schedule, Open
<1>3. ASSUME NEW d \in Decision, NEW j \in Journal, NEW a \in Answers, NEW skip \in Skips,
             Perform(d, j, a, skip)
      PROVE  \/ result'[k] = result[k]
             \/ /\ KeyOf[d] = k /\ Open(k) /\ Reserved(d) /\ Settle(d, a)
                /\ result'[k] = [stage |-> StageFor(a), settlement |-> SettlementFor(a), by |-> d]
  BY <1>0, <1>3 DEF Perform, Store, Starting, Completing, Open, Effect, TypeOK
<1>4. ASSUME NEW d \in Decision, NEW j \in Journal, NEW a \in Answers, NEW skip \in Skips,
             HaltedAtOutcome(d, j, a, skip)
      PROVE  result' = result
  BY <1>4 DEF HaltedAtOutcome, storeVars
<1>5. \/ \E d \in Decision :
           \/ Cancel(d)
           \/ \E j \in Journal : Schedule(d, j)
           \/ \E j \in Journal, a \in Answers, skip \in Skips :
                Perform(d, j, a, skip) \/ HaltedAtOutcome(d, j, a, skip)
      \/ result' = result
  BY DEF Next, EngineStep, RejectUnauthorized, RejectExpired, RejectUnreserved,
     HaltedAtIntent, AdapterRaises, Halt, storeVars, vars
<1> QED BY <1>1, <1>2, <1>3, <1>4, <1>5

\* A result that was settled was answered, for a decision of its key.
SettledIsAnswered ==
  \A k \in Key : result[k].settlement # "NONE" =>
    result[k].stage \in Answered /\ result[k].by \in Decision /\ KeyOf[result[k].by] = k

LEMMA SettledIsAnsweredStep ==
  ASSUME TypeOK, SettledIsAnswered, [Next]_vars
  PROVE  SettledIsAnswered'
<1> SUFFICES ASSUME NEW k \in Key, result'[k].settlement # "NONE"
             PROVE  /\ result'[k].stage \in Answered /\ result'[k].by \in Decision
                    /\ KeyOf[result'[k].by] = k
  BY DEF SettledIsAnswered
<1>1. CASE result'[k] = result[k]
  BY <1>1 DEF SettledIsAnswered
<1>2. ASSUME NEW d \in Decision, NEW a \in Answers, KeyOf[d] = k,
             result'[k] = [stage |-> StageFor(a), settlement |-> SettlementFor(a), by |-> d]
      PROVE  /\ result'[k].stage \in Answered /\ result'[k].by \in Decision
             /\ KeyOf[result'[k].by] = k
  <2>1. StageFor(a) \in Answered
    BY StagesAndSettlements
  <2> QED BY <1>2, <2>1
<1> QED BY <1>1, <1>2, SettlementStep

SettlementInv == SettlementAgrees /\ SettledIsAnswered

\* Rows consumed stay with the result that says so.
LEMMA CommitsAgreeStep ==
  ASSUME TypeOK, SettlementInv, [Next]_vars, NEW k \in Key,
         result'[k].settlement \in {"COMMIT", "PARTIAL_COMMIT"}
  PROVE  IsCommitted(result[k].by)'
<1>1. CASE result'[k] = result[k]
  <2>1. result[k].by \in Decision /\ IsCommitted(result[k].by)
    BY <1>1 DEF SettlementInv, SettlementAgrees, SettledIsAnswered
  <2> QED BY <1>1, <2>1, LedgerIsFinal DEF IsCommitted
<1>2. ASSUME NEW d \in Decision, NEW a \in Answers, Reserved(d), Settle(d, a),
             result'[k] = [stage |-> StageFor(a), settlement |-> SettlementFor(a), by |-> d]
      PROVE  IsCommitted(result[k].by)'
  <2>1. a # "REJECTED_BY_PROVIDER"
    BY <1>2 DEF SettlementFor
  <2>2. IsCommitted(d)'
    BY <1>2, <2>1 DEF Settle, Commit, Reserved, IsCommitted, HasActive, HasEntry, ledgerVars,
       TypeOK, AuthTypeOK, SealingTypeOK, LedgerTypeOK
  <2> QED BY <1>2, <2>2 DEF IsCommitted
<1> QED BY <1>1, <1>2, SettlementStep

\* An open key has no decision whose rows were consumed, while all is recorded.
LEMMA OpenIsUncommitted ==
  ASSUME SettlementInv, writable = Journal, NEW d \in Decision, Open(KeyOf[d])
  PROVE  ~IsCommitted(d)
<1>1. result[KeyOf[d]].settlement \in {"COMMIT", "PARTIAL_COMMIT"}
        => result[KeyOf[d]].stage \in Answered
  BY DEF SettlementInv, SettledIsAnswered
<1> QED BY <1>1 DEF SettlementInv, SettlementAgrees, Open, Answered

\* A reservation given back stays so with the result that says so.
LEMMA ReleasesAgreeStep ==
  ASSUME TypeOK, SettlementInv, [Next]_vars, writable = Journal, NEW k \in Key,
         result'[k].settlement = "RELEASE"
  PROVE  (result[k].by \in released /\ ~IsCommitted(result[k].by))'
<1>1. CASE result'[k] = result[k]
  <2>1. PICK d \in Decision : d = result[k].by
    BY <1>1 DEF SettlementInv, SettledIsAnswered
  <2>2. d \in released /\ ~IsCommitted(d)
    BY <1>1, <2>1 DEF SettlementInv, SettlementAgrees
  <2>3. d \in released' /\ ~IsCommitted(d)'
    BY <2>2, LedgerIsFinal
  <2> QED BY <1>1, <2>1, <2>3 DEF IsCommitted
<1>2. ASSUME NEW d \in Decision, NEW a \in Answers, KeyOf[d] = k, Open(k), Reserved(d),
             Settle(d, a),
             result'[k] = [stage |-> StageFor(a), settlement |-> SettlementFor(a), by |-> d]
      PROVE  (result[k].by \in released /\ ~IsCommitted(result[k].by))'
  <2>1. a = "REJECTED_BY_PROVIDER"
    BY <1>2 DEF SettlementFor
  <2>2. ~IsCommitted(d)
    BY <1>2, OpenIsUncommitted
  <2>3. d \in released' /\ ~IsCommitted(d)'
    BY <1>2, <2>1, <2>2 DEF Settle, Release, Reserved, IsCommitted
  <2> QED BY <1>2, <2>3 DEF IsCommitted
<1> QED BY <1>1, <1>2, SettlementStep

\* No rows are consumed but for the result of their key.
LEMMA ConsumedIsToldStep ==
  ASSUME TypeOK, SettlementInv, [Next]_vars, writable = Journal, NEW d \in Decision,
         IsCommitted(d)'
  PROVE  /\ result'[KeyOf[d]].by = d
         /\ result'[KeyOf[d]].settlement \in {"COMMIT", "PARTIAL_COMMIT"}
<1>1. CASE IsCommitted(d)
  <2>1. ~Open(KeyOf[d])
    BY <1>1, OpenIsUncommitted
  <2>2. result'[KeyOf[d]] = result[KeyOf[d]]
    BY <2>1, SettlementStep
  <2> QED BY <1>1, <2>2 DEF SettlementInv, SettlementAgrees
<1>2. ASSUME ~IsCommitted(d), NEW j \in Journal, NEW a \in Answers,
             NEW skip \in Skips,
             a # "REJECTED_BY_PROVIDER", Perform(d, j, a, skip)
      PROVE  /\ result'[KeyOf[d]].by = d
             /\ result'[KeyOf[d]].settlement \in {"COMMIT", "PARTIAL_COMMIT"}
  BY <1>2 DEF Perform, Store, SettlementFor, TypeOK
<1> QED BY <1>1, <1>2, CommitStep

(* The ledger agrees with the results of the calls.  While everything is   *)
(* recorded, rows that are consumed have a result that says so; that is    *)
(* why a call that finds its key open can still give its rows back, and it *)
(* holds only together with SettledIsAnswered: no result without an answer *)
(* has settled anything.                                                   *)
THEOREM SettlementIsTold == Spec => []SettlementAgrees
<1>1. Init => SettlementInv
  BY DEF Init, AuthInit, SealingInit, LedgerInit, SettlementInv, SettlementAgrees,
     SettledIsAnswered, IsCommitted
<1>2. ASSUME TypeOK, SettlementInv, [Next]_vars
      PROVE  SettlementInv'
  <2>1. writable' = Journal => writable = Journal
    BY <1>2, WritableShrinks DEF TypeOK
  <2>2. SettledIsAnswered'
    BY <1>2, SettledIsAnsweredStep DEF SettlementInv
  <2>3. \A k \in Key : result'[k].settlement \in {"COMMIT", "PARTIAL_COMMIT"}
                         => IsCommitted(result[k].by)'
    BY <1>2, CommitsAgreeStep
  <2>4. ASSUME writable' = Journal
        PROVE  /\ \A k \in Key : result'[k].settlement = "RELEASE"
                    => (result[k].by \in released /\ ~IsCommitted(result[k].by))'
               /\ \A d \in Decision : IsCommitted(d)' =>
                    /\ result'[KeyOf[d]].by = d
                    /\ result'[KeyOf[d]].settlement \in {"COMMIT", "PARTIAL_COMMIT"}
    <3>1. \A k \in Key : result'[k].settlement = "RELEASE"
            => (result[k].by \in released /\ ~IsCommitted(result[k].by))'
      BY <1>2, <2>1, <2>4, ReleasesAgreeStep
    <3>2. \A d \in Decision : IsCommitted(d)' =>
            /\ result'[KeyOf[d]].by = d
            /\ result'[KeyOf[d]].settlement \in {"COMMIT", "PARTIAL_COMMIT"}
      BY <1>2, <2>1, <2>4, ConsumedIsToldStep
    <3> QED BY <3>1, <3>2
  <2>5. SettlementAgrees'
    BY <2>3, <2>4 DEF SettlementAgrees, IsCommitted
  <2> QED BY <2>2, <2>5 DEF SettlementInv
<1> QED BY <1>1, <1>2, TypeCorrect, PTL DEF Spec, SettlementInv

-----------------------------------------------------------------------------
(* Who acts under a key.                                                   *)

\* A step that puts nothing off, does nothing and consumes nothing under k.
Resting(k) ==
  /\ result'[k] = result[k] \/ result'[k].stage = "CANCELLED"
  /\ effects'[k] = effects[k]
  /\ \A e \in Decision : KeyOf[e] = k /\ IsCommitted(e)' => IsCommitted(e)

\* A call for d that puts its action off, or performs it and settles its rows.
Acting(k, d) ==
  /\ KeyOf[d] = k /\ IsAuthorized(d)
  /\ result'[k] = result[k] \/ result'[k].by = d
  /\ \A e \in Decision : e # d /\ IsCommitted(e)' => IsCommitted(e)
  /\ \/ effects'[k] = effects[k] /\ (IsCommitted(d)' => IsCommitted(d))
     \/ effects'[k] = effects[k] + 1 /\ (d \in released \/ IsCommitted(d))'

LEMMA EffectSettles ==
  ASSUME TypeOK, NEW d \in Decision, NEW a, Reserved(d), Effect(d, a)
  PROVE  /\ (d \in released \/ IsCommitted(d))'
         /\ \A e \in Decision : e # d /\ IsCommitted(e)' => IsCommitted(e)
         /\ effects'[KeyOf[d]] = effects[KeyOf[d]] + 1
         /\ \A l \in Key \ {KeyOf[d]} : effects'[l] = effects[l]
<1>0. LedgerTypeOK
  BY DEF TypeOK, AuthTypeOK, SealingTypeOK
<1>1. CASE Commit(d)
  BY <1>0, <1>1 DEF Commit, Reserved, IsCommitted, HasActive, HasEntry, ledgerVars, LedgerTypeOK,
     Effect, TypeOK
<1>2. CASE Release(d)
  BY <1>2 DEF Release, Reserved, IsCommitted, HasActive, HasEntry, ledgerVars, Effect, TypeOK
<1> QED BY <1>1, <1>2 DEF Effect, Settle

LEMMA ActStep ==
  ASSUME TypeOK, [Next]_vars, NEW k \in Key
  PROVE  Resting(k) \/ \E d \in Decision : Acting(k, d)
<1>1. CASE EngineStep
  <2>1. consumed' = consumed
    BY <1>1 DEF EngineStep, Seal, SealRefused, File, Tick, Authorize, Release, sealingVars, ledgerVars
  <2> QED BY <1>1, <2>1 DEF EngineStep, Resting, IsCommitted, storeVars
<1>2. ASSUME NEW d \in Decision, Cancel(d)
      PROVE  Resting(k)
  <2>1. /\ result'[KeyOf[d]].stage = "CANCELLED"
        /\ \A l \in Key \ {KeyOf[d]} : result'[l] = result[l]
    <3>1. "CANCELLED" \in Stage /\ "NONE" \in Settlement
      BY StagesAndSettlements
    <3> QED BY <1>2, <3>1, StoreTypeOK DEF Cancel
  <2> QED BY <1>2, <2>1 DEF Cancel, Resting, IsCommitted, authVars, sealingVars, ledgerVars
<1>3. ASSUME NEW d \in Decision, NEW j \in Journal, Schedule(d, j)
      PROVE  Resting(k) \/ Acting(k, d)
  <2>1. /\ result'[KeyOf[d]].by = d
        /\ \A l \in Key \ {KeyOf[d]} : result'[l] = result[l]
    <3>1. "SCHEDULED" \in Stage /\ "NONE" \in Settlement
      BY StagesAndSettlements
    <3> QED BY <1>3, <3>1, StoreTypeOK DEF Schedule
  <2>2. IsAuthorized(d) /\ effects' = effects /\ consumed' = consumed
    BY <1>3 DEF Schedule, Live, authVars, sealingVars, ledgerVars
  <2> QED BY <2>1, <2>2 DEF Resting, Acting, IsCommitted
<1>4. ASSUME NEW d \in Decision, NEW a \in Answers, Live(d), Reserved(d), Effect(d, a),
             result'[KeyOf[d]] = result[KeyOf[d]] \/ result'[KeyOf[d]].by = d,
             \A l \in Key \ {KeyOf[d]} : result'[l] = result[l]
      PROVE  Resting(k) \/ Acting(k, d)
  <2>1. /\ (d \in released \/ IsCommitted(d))'
        /\ \A e \in Decision : e # d /\ IsCommitted(e)' => IsCommitted(e)
        /\ effects'[KeyOf[d]] = effects[KeyOf[d]] + 1
        /\ \A l \in Key \ {KeyOf[d]} : effects'[l] = effects[l]
    BY <1>4, EffectSettles
  <2>2. IsAuthorized(d)
    BY <1>4 DEF Live
  <2>3. CASE KeyOf[d] = k
    BY <1>4, <2>1, <2>2, <2>3 DEF Acting
  <2>4. CASE KeyOf[d] # k
    BY <1>4, <2>1, <2>4 DEF Resting
  <2> QED BY <2>3, <2>4
<1>5. ASSUME NEW d \in Decision, NEW j \in Journal, NEW a \in Answers, NEW skip \in Skips,
             Perform(d, j, a, skip)
      PROVE  Resting(k) \/ Acting(k, d)
  <2>1. /\ result'[KeyOf[d]].by = d
        /\ \A l \in Key \ {KeyOf[d]} : result'[l] = result[l]
    <3>1. StageFor(a) \in Stage /\ SettlementFor(a) \in Settlement
      BY StagesAndSettlements
    <3>2. Store(d, StageFor(a), SettlementFor(a))
      BY <1>5 DEF Perform
    <3> QED BY <3>1, <3>2, StoreTypeOK
  <2>2. Live(d) /\ Reserved(d) /\ Effect(d, a)
    BY <1>5 DEF Perform
  <2> QED BY <1>4, <2>1, <2>2
<1>6. ASSUME NEW d \in Decision, NEW j \in Journal, NEW a \in Answers, NEW skip \in Skips,
             HaltedAtOutcome(d, j, a, skip)
      PROVE  Resting(k) \/ Acting(k, d)
  <2>1. Live(d) /\ Reserved(d) /\ Effect(d, a) /\ result' = result
    BY <1>6 DEF HaltedAtOutcome, storeVars
  <2> QED BY <1>4, <2>1
<1>7. \/ EngineStep
      \/ \E d \in Decision :
           \/ Cancel(d)
           \/ \E j \in Journal : Schedule(d, j)
           \/ \E j \in Journal, a \in Answers, skip \in Skips :
                Perform(d, j, a, skip) \/ HaltedAtOutcome(d, j, a, skip)
      \/ result' = result /\ effects' = effects /\ consumed' = consumed
  BY DEF Next, RejectUnauthorized, RejectExpired, RejectUnreserved, HaltedAtIntent, AdapterRaises,
     Halt, storeVars, authVars, sealingVars, ledgerVars, vars
<1> QED BY <1>1, <1>2, <1>3, <1>5, <1>6, <1>7 DEF Resting, IsCommitted

\* Whatever was put off, done or consumed under a key is of a decision that is
\* authorized for it.
HoldersAct ==
  \A k \in Key :
    /\ result[k].stage \in Answered \cup {"SCHEDULED"} =>
         result[k].by \in Decision /\ KeyOf[result[k].by] = k /\ IsAuthorized(result[k].by)
    /\ effects[k] > 0 => \E d \in Decision :
         KeyOf[d] = k /\ IsAuthorized(d) /\ (IsCommitted(d) \/ d \in released)
    /\ \A d \in Decision : KeyOf[d] = k /\ IsCommitted(d) => IsAuthorized(d) /\ effects[k] > 0

LEMMA HoldersActStep ==
  ASSUME TypeOK, HoldersAct, [Next]_vars
  PROVE  HoldersAct'
<1>1. \A d \in Decision : IsAuthorized(d) => IsAuthorized(d)'
  <2>1. AuthTypeOK
    BY DEF TypeOK
  <2> QED BY <2>1, AuthorizeStep, RecordStep DEF IsAuthorized, authStoreVars
<1>2. \A d \in Decision : IsCommitted(d) \/ d \in released => (IsCommitted(d) \/ d \in released)'
  BY LedgerIsFinal
<1>3. effects \in [Key -> Nat]
  BY DEF TypeOK
<1> SUFFICES ASSUME NEW k \in Key
             PROVE  /\ result'[k].stage \in Answered \cup {"SCHEDULED"} =>
                         result'[k].by \in Decision /\ KeyOf[result'[k].by] = k
                           /\ artifact'[result'[k].by].state = "AUTHORIZED"
                    /\ effects'[k] > 0 => \E d \in Decision :
                         KeyOf[d] = k /\ IsAuthorized(d)' /\ (IsCommitted(d) \/ d \in released)'
                    /\ \A d \in Decision :
                         KeyOf[d] = k /\ IsCommitted(d)' => IsAuthorized(d)' /\ effects'[k] > 0
  BY DEF HoldersAct, IsAuthorized, IsCommitted
<1>4. CASE Resting(k)
  <2>1. result'[k].stage \in Answered \cup {"SCHEDULED"} => result'[k] = result[k]
    BY <1>4 DEF Resting, Answered
  <2> QED BY <1>1, <1>2, <1>3, <1>4, <2>1 DEF HoldersAct, Resting, IsAuthorized
<1>5. ASSUME NEW d \in Decision, Acting(k, d)
      PROVE  /\ result'[k].stage \in Answered \cup {"SCHEDULED"} =>
                  result'[k].by \in Decision /\ KeyOf[result'[k].by] = k
                    /\ artifact'[result'[k].by].state = "AUTHORIZED"
             /\ effects'[k] > 0 => \E e \in Decision :
                  KeyOf[e] = k /\ IsAuthorized(e)' /\ (IsCommitted(e) \/ e \in released)'
             /\ \A e \in Decision :
                  KeyOf[e] = k /\ IsCommitted(e)' => IsAuthorized(e)' /\ effects'[k] > 0
  <2>1. KeyOf[d] = k /\ IsAuthorized(d)'
    BY <1>1, <1>5 DEF Acting
  <2>2. result'[k].stage \in Answered \cup {"SCHEDULED"} =>
          result'[k].by \in Decision /\ KeyOf[result'[k].by] = k
            /\ artifact'[result'[k].by].state = "AUTHORIZED"
    BY <1>1, <1>5, <2>1 DEF Acting, HoldersAct, IsAuthorized
  <2>3. effects'[k] > 0 => \E e \in Decision :
          KeyOf[e] = k /\ IsAuthorized(e)' /\ (IsCommitted(e) \/ e \in released)'
    BY <1>1, <1>2, <1>5, <2>1 DEF Acting, HoldersAct
  <2>4. ASSUME NEW e \in Decision, KeyOf[e] = k, IsCommitted(e)'
        PROVE  IsAuthorized(e)' /\ effects'[k] > 0
    BY <1>1, <1>3, <1>5, <2>1, <2>4 DEF Acting, HoldersAct
  <2> QED BY <2>2, <2>3, <2>4
<1> QED BY <1>4, <1>5, ActStep

(* Whatever is put off, done or consumed under a key is of the one         *)
(* decision the key is authorized for, whatever is sealed, authorized,     *)
(* given back and called meanwhile, and whatever cuts a call short.  That  *)
(* it is of a decision authorized for the key is inductive because an      *)
(* authorization is final and settled rows stay settled; that there is no  *)
(* other such decision is OneAuthorizationPerKey.                          *)
THEOREM OnlyTheHolderActs == Spec => []OneDecisionActs
<1>1. Init => HoldersAct
  BY DEF Init, AuthInit, SealingInit, LedgerInit, HoldersAct, Answered, IsCommitted
<1>2. ASSUME OneAuthorizationPerKey, HoldersAct
      PROVE  OneDecisionActs
  <2> DEFINE holders(k) == {d \in Decision : KeyOf[d] = k /\ IsAuthorized(d)}
  <2>1. ASSUME NEW k \in Key, NEW d \in Decision, KeyOf[d] = k, IsAuthorized(d)
        PROVE  holders(k) = {d}
    BY <1>2, <2>1 DEF OneAuthorizationPerKey
  <2> SUFFICES ASSUME NEW k \in Key
               PROVE  /\ result[k].stage \in Answered \cup {"SCHEDULED"} => holders(k) = {result[k].by}
                      /\ effects[k] > 0 =>
                           \E d \in Decision : holders(k) = {d} /\ (IsCommitted(d) \/ d \in released)
                      /\ \A d \in Decision : KeyOf[d] = k /\ IsCommitted(d) =>
                           holders(k) = {d} /\ effects[k] > 0
    BY DEF OneDecisionActs
  <2> HIDE DEF holders
  <2> QED BY <1>2, <2>1 DEF HoldersAct
<1> QED BY <1>1, <1>2, HoldersActStep, TypeCorrect, KeysAreAuthorizedOnce, PTL DEF Spec

-----------------------------------------------------------------------------
(* The journal.                                                            *)

\* A call that puts an action off writes its intent.
Postponed(j, k) ==
  /\ intents'[<<j, k>>] = intents[<<j, k>>] + 1
  /\ outcomes'[<<j, k>>] = outcomes[<<j, k>>]

\* A call that is answered writes the outcome, and the intent unless it
\* completes a schedule.
Told(j, k) ==
  /\ outcomes'[<<j, k>>] = outcomes[<<j, k>>] + 1
  /\ \/ intents'[<<j, k>>] = intents[<<j, k>>] + 1
     \/ result[k].stage = "SCHEDULED" /\ intents'[<<j, k>>] = intents[<<j, k>>]
  /\ result'[k].stage \in Answered

\* Any other step writes no outcome and makes no schedule.
Untold(j, k) ==
  /\ outcomes'[<<j, k>>] = outcomes[<<j, k>>]
  /\ intents'[<<j, k>>] >= intents[<<j, k>>]
  /\ result'[k].stage = "SCHEDULED" => result[k].stage = "SCHEDULED"

LEMMA JournalStep ==
  ASSUME TypeOK, [Next]_vars, NEW j \in Journal, NEW k \in Key, Journal = {j}
  PROVE  Postponed(j, k) \/ Told(j, k) \/ Untold(j, k)
<1>0. /\ \A d \in Decision : StageOf(d) = result[KeyOf[d]].stage
      /\ \A i \in Journal : i = j
      /\ intents[<<j, k>>] \in Nat
  BY DEF StageOf, TypeOK
<1>1. ASSUME NEW d \in Decision, Cancel(d)
      PROVE  Untold(j, k)
  <2>1. "CANCELLED" \in Stage /\ "NONE" \in Settlement
    BY StagesAndSettlements
  <2>2. /\ result'[KeyOf[d]].stage = "CANCELLED"
        /\ \A l \in Key \ {KeyOf[d]} : result'[l] = result[l]
    BY <1>1, <2>1, StoreTypeOK DEF Cancel
  <2> QED BY <1>0, <1>1, <2>2 DEF Cancel, Untold, journalVars
<1>2. ASSUME NEW d \in Decision, Schedule(d, j)
      PROVE  Postponed(j, k) \/ Untold(j, k)
  <2>1. "SCHEDULED" \in Stage /\ "NONE" \in Settlement
    BY StagesAndSettlements
  <2>2. \A l \in Key \ {KeyOf[d]} : result'[l] = result[l]
    BY <1>2, <2>1, StoreTypeOK DEF Schedule
  <2>3. /\ intents'[<<j, KeyOf[d]>>] = intents[<<j, KeyOf[d]>>] + 1
        /\ \A q \in Journal \X Key : q # <<j, KeyOf[d]>> => intents'[q] = intents[q]
    BY <1>2, AppendTypeOK DEF Schedule
  <2>4. outcomes' = outcomes
    BY <1>2 DEF Schedule
  <2> QED BY <1>0, <2>2, <2>3, <2>4 DEF Postponed, Untold
<1>3. ASSUME NEW d \in Decision, NEW a \in Answers, NEW skip \in Skips,
             Perform(d, j, a, skip)
      PROVE  Told(j, k) \/ Untold(j, k)
  <2>1. StageFor(a) \in Stage /\ StageFor(a) \in Answered /\ SettlementFor(a) \in Settlement
    BY StagesAndSettlements
  <2>2. /\ result'[KeyOf[d]].stage \in Answered
        /\ \A l \in Key \ {KeyOf[d]} : result'[l] = result[l]
    BY <1>3, <2>1, StoreTypeOK DEF Perform
  <2>3. /\ outcomes'[<<j, KeyOf[d]>>] = outcomes[<<j, KeyOf[d]>>] + 1
        /\ \A q \in Journal \X Key : q # <<j, KeyOf[d]>> => outcomes'[q] = outcomes[q]
    BY <1>3, AppendTypeOK DEF Perform
  <2>4. CASE StageOf(d) = "NONE"
    <3>1. /\ intents'[<<j, KeyOf[d]>>] = intents[<<j, KeyOf[d]>>] + 1
          /\ \A q \in Journal \X Key : q # <<j, KeyOf[d]>> => intents'[q] = intents[q]
      BY <1>3, <2>4, AppendTypeOK DEF Perform, AppendIntentIfStarting
    <3> QED BY <1>0, <2>2, <2>3, <3>1 DEF Told, Untold
  <2>5. CASE StageOf(d) # "NONE"
    <3>1. intents' = intents /\ result[KeyOf[d]].stage = "SCHEDULED"
      BY <1>0, <1>3, <2>5 DEF Perform, AppendIntentIfStarting, Starting, Completing
    <3> QED BY <1>0, <2>2, <2>3, <3>1 DEF Told, Untold
  <2> QED BY <2>4, <2>5
<1>4. ASSUME NEW d \in Decision, NEW skip \in Skips, AdapterRaises(d, j, skip)
      PROVE  Untold(j, k)
  <2>1. CASE StageOf(d) = "NONE"
    <3>1. /\ intents'[<<j, KeyOf[d]>>] = intents[<<j, KeyOf[d]>>] + 1
          /\ \A q \in Journal \X Key : q # <<j, KeyOf[d]>> => intents'[q] = intents[q]
      BY <1>4, <2>1, AppendTypeOK DEF AdapterRaises, AppendIntentIfStarting
    <3> QED BY <1>0, <1>4, <3>1 DEF AdapterRaises, Untold
  <2>2. CASE StageOf(d) # "NONE"
    BY <1>0, <1>4, <2>2 DEF AdapterRaises, AppendIntentIfStarting, Untold
  <2> QED BY <2>1, <2>2
<1>5. \/ \E d \in Decision :
           \/ Cancel(d)
           \/ Schedule(d, j) \/ (\E skip \in Skips : AdapterRaises(d, j, skip))
           \/ \E a \in Answers, skip \in Skips : Perform(d, j, a, skip)
      \/ result' = result /\ intents' = intents /\ outcomes' = outcomes
  BY <1>0 DEF Next, EngineStep, RejectUnauthorized, RejectExpired, RejectUnreserved,
     HaltedAtIntent, HaltedAtOutcome, Halt, storeVars, journalVars, vars
<1> QED BY <1>0, <1>1, <1>2, <1>3, <1>4, <1>5 DEF Untold

\* What is scheduled has an intent that waits for its outcome.
IntentsCover(j, k) ==
  /\ outcomes[<<j, k>>] <= intents[<<j, k>>]
  /\ result[k].stage = "SCHEDULED" => outcomes[<<j, k>>] < intents[<<j, k>>]

(* In one journal every outcome is preceded by its intent: a delayed retry *)
(* is completed with the intent of its schedule, and a schedule is         *)
(* completed once.                                                         *)
THEOREM IntentsComeFirst == Spec => []IntentBeforeOutcome
<1> DEFINE IInv == Cardinality(Journal) = 1 => \A j \in Journal, k \in Key : IntentsCover(j, k)
<1>1. Init => IInv
  BY DEF Init, IntentsCover
<1>2. ASSUME TypeOK, IInv, [Next]_vars
      PROVE  IInv'
  <2> SUFFICES ASSUME Cardinality(Journal) = 1, NEW j \in Journal, NEW k \in Key
               PROVE  IntentsCover(j, k)'
    OBVIOUS
  <2>1. Journal = {j}
    BY FS_Singleton
  <2>2. intents[<<j, k>>] \in Nat /\ outcomes[<<j, k>>] \in Nat /\ intents'[<<j, k>>] \in Nat
    BY <1>2, NextTypeOK DEF TypeOK
  <2>3. IntentsCover(j, k)
    BY <1>2
  <2>4. "SCHEDULED" \notin Answered
    BY DEF Answered
  <2> QED BY <1>2, <2>1, <2>2, <2>3, <2>4, JournalStep DEF IntentsCover, Postponed, Told, Untold
<1>3. IInv => IntentBeforeOutcome
  BY DEF IntentBeforeOutcome, IntentsCover
<1> QED BY <1>1, <1>2, <1>3, TypeCorrect, PTL DEF Spec

-----------------------------------------------------------------------------
(* The contacts.                                                           *)

\* The keys of the contact actions for a customer, and those of them that the
\* provider answered; the intents written for them, in whichever journal.
ContactKeys(c) == {KeyOf[d] : d \in {e \in Contacting : CustomerOf[e] = c}}

AnsweredKeys(c) == {k \in ContactKeys(c) : result[k].stage \in Answered}

IntentsFor(c) == SumOver(intents, Journal \X ContactKeys(c))

LEMMA ContactKeyFacts ==
  ASSUME NEW c \in Customer
  PROVE  /\ ContactKeys(c) \subseteq Key
         /\ IsFiniteSet(ContactKeys(c))
         /\ IsFiniteSet(Journal \X Key)
         /\ Journal \X ContactKeys(c) \subseteq Journal \X Key
         /\ \A d \in Decision : KeyOf[d] \in ContactKeys(c) => d \in Contacting /\ CustomerOf[d] = c
         /\ \A d \in Contacting : CustomerOf[d] = c => KeyOf[d] \in ContactKeys(c)
<1>1. ContactKeys(c) \subseteq Key
  BY DEF ContactKeys
<1>2. IsFiniteSet(Journal \X Key)
  BY FS_Product
<1> QED BY <1>1, <1>2, FS_Subset DEF ContactKeys

\* The key of a contact action is never scheduled: only a delayed retry is.
ContactsAreNotPutOff == \A d \in Contacting : result[KeyOf[d]].stage # "SCHEDULED"

\* A step that contacts c writes an intent for it, unless it contacts nobody.
Uncontacted(c) ==
  /\ contacts'[c] = contacts[c]
  /\ \A k \in ContactKeys(c) : result'[k].stage \in Answered => result[k].stage \in Answered

Contacted(c) ==
  /\ contacts'[c] = contacts[c] + 1
  /\ \E k \in ContactKeys(c) :
       /\ \E j \in Journal : intents'[<<j, k>>] = intents[<<j, k>>] + 1
       /\ \A l \in ContactKeys(c) \ {k} :
            result'[l].stage \in Answered => result[l].stage \in Answered

LEMMA ContactStep ==
  ASSUME TypeOK, ContactsAreNotPutOff, [Next]_vars, NEW c \in Customer
  PROVE  Uncontacted(c) \/ Contacted(c)
<1>0. /\ \A d \in Decision : StageOf(d) = result[KeyOf[d]].stage
      /\ Contacting \subseteq Decision
      /\ contacts \in [Customer -> Nat]
  BY DEF StageOf, TypeOK
<1>1. ASSUME NEW d \in Decision, Cancel(d)
      PROVE  Uncontacted(c)
  <2>1. /\ result'[KeyOf[d]].stage = "CANCELLED"
        /\ \A l \in Key \ {KeyOf[d]} : result'[l] = result[l]
    <3>1. "CANCELLED" \in Stage /\ "NONE" \in Settlement
      BY StagesAndSettlements
    <3> QED BY <1>1, <3>1, StoreTypeOK DEF Cancel
  <2>2. "CANCELLED" \notin Answered
    BY DEF Answered
  <2> QED BY <1>1, <2>1, <2>2, ContactKeyFacts DEF Cancel, Uncontacted
<1>2. ASSUME NEW d \in Decision, NEW j \in Journal, Schedule(d, j)
      PROVE  Uncontacted(c)
  <2>1. /\ result'[KeyOf[d]].stage = "SCHEDULED"
        /\ \A l \in Key \ {KeyOf[d]} : result'[l] = result[l]
    <3>1. "SCHEDULED" \in Stage /\ "NONE" \in Settlement
      BY StagesAndSettlements
    <3> QED BY <1>2, <3>1, StoreTypeOK DEF Schedule
  <2>2. "SCHEDULED" \notin Answered
    BY DEF Answered
  <2> QED BY <1>2, <2>1, <2>2, ContactKeyFacts DEF Schedule, Uncontacted
<1>3. ASSUME NEW d \in Decision, NEW j \in Journal,
             StageOf(d) \in {"NONE", "SCHEDULED"}, AppendIntentIfStarting(d, j), CountContact(d),
             \A l \in Key \ {KeyOf[d]} : result'[l] = result[l]
      PROVE  Uncontacted(c) \/ Contacted(c)
  <2>1. CASE KeyOf[d] \in ContactKeys(c)
    <3>1. d \in Contacting /\ CustomerOf[d] = c
      BY <2>1, ContactKeyFacts
    <3>2. StageOf(d) = "NONE"
      BY <1>0, <1>3, <3>1 DEF ContactsAreNotPutOff
    <3>3. intents'[<<j, KeyOf[d]>>] = intents[<<j, KeyOf[d]>>] + 1
      BY <1>3, <3>2, AppendTypeOK DEF AppendIntentIfStarting
    <3>4. contacts'[c] = contacts[c] + 1
      BY <1>0, <1>3, <3>1 DEF CountContact
    <3>5. \A l \in ContactKeys(c) \ {KeyOf[d]} : result'[l] = result[l]
      BY <1>3, ContactKeyFacts
    <3> QED BY <2>1, <3>3, <3>4, <3>5 DEF Contacted
  <2>2. CASE KeyOf[d] \notin ContactKeys(c)
    <3>1. ~(d \in Contacting /\ CustomerOf[d] = c)
      BY <2>2, ContactKeyFacts
    <3>2. contacts'[c] = contacts[c]
      BY <1>0, <1>3, <3>1 DEF CountContact
    <3>3. \A l \in ContactKeys(c) : result'[l] = result[l]
      BY <1>3, <2>2, ContactKeyFacts
    <3> QED BY <3>2, <3>3 DEF Uncontacted
  <2> QED BY <2>1, <2>2
<1>4. ASSUME NEW d \in Decision, NEW j \in Journal, NEW a \in Answers, NEW skip \in Skips,
             Perform(d, j, a, skip)
      PROVE  Uncontacted(c) \/ Contacted(c)
  <2>1. \A l \in Key \ {KeyOf[d]} : result'[l] = result[l]
    <3>1. StageFor(a) \in Stage /\ SettlementFor(a) \in Settlement
      BY StagesAndSettlements
    <3> QED BY <1>4, <3>1, StoreTypeOK DEF Perform
  <2> QED BY <1>3, <1>4, <2>1 DEF Perform, Effect, Starting, Completing
<1>5. ASSUME NEW d \in Decision, NEW j \in Journal, NEW a \in Answers, NEW skip \in Skips,
             HaltedAtOutcome(d, j, a, skip)
      PROVE  Uncontacted(c)
  <2>1. d \notin Contacting
    BY <1>0, <1>5 DEF HaltedAtOutcome, Completing, ContactsAreNotPutOff
  <2> QED BY <1>5, <2>1 DEF HaltedAtOutcome, Effect, CountContact, Uncontacted, storeVars
<1>6. ASSUME NEW d \in Decision, NEW j \in Journal, NEW skip \in Skips,
             AdapterRaises(d, j, skip)
      PROVE  Uncontacted(c) \/ Contacted(c)
  BY <1>3, <1>6 DEF AdapterRaises, Starting, Completing
<1>7. \/ \E d \in Decision :
           \/ Cancel(d)
           \/ \E j \in Journal : Schedule(d, j) \/ (\E skip \in Skips : AdapterRaises(d, j, skip))
           \/ \E j \in Journal, a \in Answers, skip \in Skips :
                Perform(d, j, a, skip) \/ HaltedAtOutcome(d, j, a, skip)
      \/ result' = result /\ contacts' = contacts
  BY DEF Next, EngineStep, RejectUnauthorized, RejectExpired, RejectUnreserved,
     HaltedAtIntent, Halt, storeVars, vars
<1> QED BY <1>1, <1>2, <1>4, <1>5, <1>6, <1>7 DEF Uncontacted

LEMMA ContactsAreNotPutOffStep ==
  ASSUME TypeOK, ContactsAreNotPutOff, [Next]_vars
  PROVE  ContactsAreNotPutOff'
<1> SUFFICES ASSUME NEW e \in Contacting
             PROVE  result'[KeyOf[e]].stage # "SCHEDULED"
  BY DEF ContactsAreNotPutOff
<1>1. ASSUME NEW d \in Decision, NEW j \in Journal, Schedule(d, j)
      PROVE  result'[KeyOf[e]] = result[KeyOf[e]]
  <2>1. d \notin Contacting
    BY <1>1 DEF Schedule, Due
  <2>2. KeyOf[e] # KeyOf[d]
    BY <2>1
  <2>3. "SCHEDULED" \in Stage /\ "NONE" \in Settlement
    BY StagesAndSettlements
  <2> QED BY <1>1, <2>2, <2>3, StoreTypeOK DEF Schedule
<1>2. ASSUME NEW d \in Decision, NEW stage \in Stage, NEW settlement \in Settlement,
             Store(d, stage, settlement), stage # "SCHEDULED"
      PROVE  result'[KeyOf[e]].stage # "SCHEDULED"
  BY <1>2, StoreTypeOK DEF ContactsAreNotPutOff
<1>3. ASSUME NEW d \in Decision, Cancel(d)
      PROVE  result'[KeyOf[e]].stage # "SCHEDULED"
  BY <1>2, <1>3, StagesAndSettlements DEF Cancel
<1>4. ASSUME NEW d \in Decision, NEW j \in Journal, NEW a \in Answers, NEW skip \in Skips,
             Perform(d, j, a, skip)
      PROVE  result'[KeyOf[e]].stage # "SCHEDULED"
  <2>1. StageFor(a) \in Stage /\ StageFor(a) # "SCHEDULED" /\ SettlementFor(a) \in Settlement
    BY StagesAndSettlements DEF Answered
  <2>2. Store(d, StageFor(a), SettlementFor(a))
    BY <1>4 DEF Perform
  <2> QED BY <1>2, <2>1, <2>2
<1>5. \/ \E d \in Decision :
           \/ Cancel(d)
           \/ \E j \in Journal : Schedule(d, j)
           \/ \E j \in Journal, a \in Answers, skip \in Skips : Perform(d, j, a, skip)
      \/ result' = result
  BY DEF Next, EngineStep, RejectUnauthorized, RejectExpired, RejectUnreserved,
     HaltedAtIntent, HaltedAtOutcome, AdapterRaises, Halt, storeVars, vars
<1> QED BY <1>1, <1>3, <1>4, <1>5 DEF ContactsAreNotPutOff

\* Intents are only ever added.
LEMMA IntentsGrow ==
  ASSUME TypeOK, [Next]_vars, NEW p \in Journal \X Key
  PROVE  intents[p] <= intents'[p]
<1>0. intents[p] \in Nat
  BY DEF TypeOK
<1>1. ASSUME NEW d \in Decision, NEW j \in Journal, AppendIntent(d, j)
      PROVE  intents[p] <= intents'[p]
  <2>1. /\ intents'[<<j, KeyOf[d]>>] = intents[<<j, KeyOf[d]>>] + 1
        /\ \A q \in Journal \X Key : q # <<j, KeyOf[d]>> => intents'[q] = intents[q]
    BY <1>1, AppendTypeOK
  <2>2. p # <<j, KeyOf[d]>> => intents'[p] = intents[p]
    BY <2>1
  <2>3. p = <<j, KeyOf[d]>> => intents'[p] = intents[p] + 1
    BY <2>1
  <2> QED BY <1>0, <2>2, <2>3
<1>2. ASSUME NEW d \in Decision, NEW j \in Journal,
             AppendIntent(d, j) \/ AppendIntentIfStarting(d, j) \/ UNCHANGED journalVars
      PROVE  intents[p] <= intents'[p]
  BY <1>0, <1>1, <1>2 DEF AppendIntentIfStarting, journalVars
<1>3. ASSUME NEW d \in Decision, NEW j \in Journal,
             Schedule(d, j) \/ HaltedAtIntent(d, j) \/ (\E skip \in Skips : AdapterRaises(d, j, skip))
      PROVE  intents[p] <= intents'[p]
  BY <1>2, <1>3 DEF Schedule, HaltedAtIntent, AdapterRaises
<1>4. ASSUME NEW d \in Decision, NEW j \in Journal, NEW a \in Answers, NEW skip \in Skips,
             Perform(d, j, a, skip) \/ HaltedAtOutcome(d, j, a, skip)
      PROVE  intents[p] <= intents'[p]
  BY <1>2, <1>4 DEF Perform, HaltedAtOutcome
<1>5. ASSUME \/ EngineStep \/ UNCHANGED vars \/ \E j \in Journal : Halt(j)
             \/ \E d \in Decision : RejectUnauthorized(d) \/ RejectExpired(d)
                    \/ \E skip \in Skips : RejectUnreserved(d, skip)
      PROVE  intents' = intents
  BY <1>5 DEF EngineStep, RejectUnauthorized, RejectExpired, RejectUnreserved, Cancel, Halt, journalVars, vars
<1> QED BY <1>0, <1>3, <1>4, <1>5 DEF Next

\* The contacts lie between the answers and the intents.
ContactsLie(c) == Cardinality(AnsweredKeys(c)) <= contacts[c] /\ contacts[c] <= IntentsFor(c)

LEMMA ContactsLieStep ==
  ASSUME TypeOK, ContactsAreNotPutOff, [Next]_vars, NEW c \in Customer, ContactsLie(c)
  PROVE  ContactsLie(c)'
<1> DEFINE pairs == Journal \X ContactKeys(c)
<1>0. /\ contacts[c] \in Nat
      /\ intents \in [Journal \X Key -> Int] /\ intents' \in [Journal \X Key -> Int]
  <2>1. TypeOK'
    BY NextTypeOK
  <2> QED BY <2>1 DEF TypeOK
<1>1. /\ IsFiniteSet(AnsweredKeys(c)) /\ IsFiniteSet(AnsweredKeys(c)')
      /\ Cardinality(AnsweredKeys(c)) \in Nat /\ Cardinality(AnsweredKeys(c)') \in Nat
  <2>1. AnsweredKeys(c) \subseteq ContactKeys(c) /\ AnsweredKeys(c)' \subseteq ContactKeys(c)
    BY DEF AnsweredKeys, ContactKeys
  <2> QED BY <2>1, ContactKeyFacts, FS_Subset, FS_CardinalityType
<1>2. pairs \in SUBSET (Journal \X Key) /\ IsFiniteSet(Journal \X Key)
  BY ContactKeyFacts
<1>3. \A p \in pairs : intents[p] <= intents'[p]
  BY <1>2, IntentsGrow
<1>4. SumOver(intents, pairs) \in Int /\ SumOver(intents', pairs) \in Int
  BY <1>0, <1>2, SumFacts
<1>5. IntentsFor(c) = SumOver(intents, pairs) /\ IntentsFor(c)' = SumOver(intents', pairs)
  BY DEF IntentsFor, ContactKeys
<1>6. CASE Uncontacted(c)
  <2>1. AnsweredKeys(c)' \subseteq AnsweredKeys(c)
    BY <1>6 DEF Uncontacted, AnsweredKeys, ContactKeys
  <2>2. Cardinality(AnsweredKeys(c)') <= Cardinality(AnsweredKeys(c))
    BY <1>1, <2>1, FS_Subset
  <2>3. SumOver(intents, pairs) <= SumOver(intents', pairs)
    BY <1>0, <1>2, <1>3, SumIsMonotonic
  <2>4. contacts'[c] = contacts[c]
    BY <1>6 DEF Uncontacted
  <2> QED BY <1>0, <1>1, <1>4, <1>5, <2>2, <2>3, <2>4 DEF ContactsLie
<1>7. CASE Contacted(c)
  <2>1. PICK k \in ContactKeys(c), j \in Journal :
          /\ intents'[<<j, k>>] = intents[<<j, k>>] + 1
          /\ \A l \in ContactKeys(c) \ {k} :
               result'[l].stage \in Answered => result[l].stage \in Answered
    BY <1>7 DEF Contacted
  <2>2. AnsweredKeys(c)' \subseteq AnsweredKeys(c) \cup {k}
    BY <2>1 DEF AnsweredKeys, ContactKeys
  <2>3. Cardinality(AnsweredKeys(c)') <= Cardinality(AnsweredKeys(c)) + 1
    <3>0. PICK A : A = AnsweredKeys(c)
      OBVIOUS
    <3>1. IsFiniteSet(AnsweredKeys(c) \cup {k})
      BY <1>1, <3>0, FS_AddElement
    <3>2. Cardinality(AnsweredKeys(c) \cup {k}) <= Cardinality(AnsweredKeys(c)) + 1
      <4>1. CASE k \in A
        <5>1. AnsweredKeys(c) \cup {k} = AnsweredKeys(c)
          BY <3>0, <4>1
        <5> HIDE DEF AnsweredKeys
        <5>2. Cardinality(AnsweredKeys(c) \cup {k}) = Cardinality(AnsweredKeys(c))
          BY <5>1
        <5> QED BY <1>1, <5>2
      <4>2. CASE k \notin A
        <5>1. Cardinality(A \cup {k}) = Cardinality(A) + 1
          BY <1>1, <3>0, <4>2, FS_AddElement
        <5> QED BY <1>1, <3>0, <5>1
      <4> QED BY <4>1, <4>2
    <3>3. Cardinality(AnsweredKeys(c)') <= Cardinality(AnsweredKeys(c) \cup {k})
      BY <2>2, <3>1, FS_Subset
    <3>4. Cardinality(AnsweredKeys(c) \cup {k}) \in Nat
      BY <3>1, FS_CardinalityType
    <3> QED BY <1>1, <3>2, <3>3, <3>4
  <2>4. <<j, k>> \in pairs /\ intents[<<j, k>>] + 1 <= intents'[<<j, k>>]
    <3>1. <<j, k>> \in pairs
      OBVIOUS
    <3>2. intents[<<j, k>>] \in Int
      BY <1>0, <1>2, <3>1
    <3> QED BY <2>1, <3>1, <3>2
  <2>5. SumOver(intents, pairs) + 1 <= SumOver(intents', pairs)
    BY <1>0, <1>2, <1>3, <2>4, SumGrows
  <2>6. contacts'[c] = contacts[c] + 1
    BY <1>7 DEF Contacted
  <2> QED BY <1>0, <1>1, <1>4, <1>5, <2>3, <2>5, <2>6 DEF ContactsLie
<1> QED BY <1>6, <1>7, ContactStep

(* No customer is contacted without an intent on record, and every answer  *)
(* to a contact action was counted.  The bounds are inductive because the  *)
(* decisions of a key agree on the action: what is scheduled is a delayed  *)
(* retry, so a contact is always counted by a call that writes its intent. *)
THEOREM ContactsAreTold == Spec => []ContactsAgree
<1> DEFINE IInv == ContactsAreNotPutOff /\ \A c \in Customer : ContactsLie(c)
<1>1. Init => IInv
  <2> SUFFICES ASSUME Init, NEW c \in Customer
               PROVE  ContactsAreNotPutOff /\ ContactsLie(c)
    BY DEF ContactsAreNotPutOff, Init
  <2>1. AnsweredKeys(c) = {} /\ ContactsAreNotPutOff /\ contacts[c] = 0
    BY ContactKeyFacts DEF Init, AnsweredKeys, Answered, ContactsAreNotPutOff
  <2>2. intents \in [Journal \X Key -> Int] /\ \A p \in Journal \X ContactKeys(c) : intents[p] = 0
    BY ContactKeyFacts DEF Init
  <2>3. IntentsFor(c) = 0
    <3>1. Journal \X ContactKeys(c) \in SUBSET (Journal \X Key) /\ IsFiniteSet(Journal \X Key)
      BY ContactKeyFacts
    <3> QED BY <2>2, <3>1, SumOfZeros DEF IntentsFor
  <2> QED BY <2>1, <2>3, FS_EmptySet DEF ContactsLie
<1>2. ASSUME TypeOK, IInv, [Next]_vars
      PROVE  IInv'
  <2>1. ContactsAreNotPutOff'
    BY <1>2, ContactsAreNotPutOffStep
  <2>2. \A c \in Customer : ContactsLie(c)'
    BY <1>2, ContactsLieStep
  <2> QED BY <2>1, <2>2
<1>3. ASSUME TypeOK, IInv
      PROVE  ContactsAgree
  <2> SUFFICES ASSUME NEW c \in Customer
               PROVE  contacts[c] \in Cardinality(AnsweredKeys(c)) .. IntentsFor(c)
    BY DEF ContactsAgree, AnsweredKeys, ContactKeys, IntentsFor, SumOver
  <2>1. contacts[c] \in Nat /\ ContactsLie(c)
    BY <1>3 DEF TypeOK
  <2>2. Cardinality(AnsweredKeys(c)) \in Nat
    <3>1. AnsweredKeys(c) \subseteq ContactKeys(c)
      BY DEF AnsweredKeys
    <3> QED BY <3>1, ContactKeyFacts, FS_Subset, FS_CardinalityType
  <2>3. IntentsFor(c) \in Int
    <3>1. Journal \X ContactKeys(c) \in SUBSET (Journal \X Key) /\ IsFiniteSet(Journal \X Key)
      BY ContactKeyFacts
    <3>2. intents \in [Journal \X Key -> Int]
      BY <1>3 DEF TypeOK
    <3> QED BY <3>1, <3>2, SumFacts DEF IntentsFor
  <2> QED BY <2>1, <2>2, <2>3 DEF ContactsLie
<1> QED BY <1>1, <1>2, <1>3, TypeCorrect, PTL DEF Spec
=============================================================================
