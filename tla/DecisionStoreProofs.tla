------------------------ MODULE DecisionStoreProofs ------------------------
(***************************************************************************)
(* Theorems about DecisionStore, for every value of its constants.         *)
(***************************************************************************)
EXTENDS DecisionStore, TLAPS

USE SealingAssumption, DecisionStoreAssumption

Answers == [status : Status, at : Nat]

-----------------------------------------------------------------------------
(* Type correctness.                                                       *)

LEMMA Statuses ==
  /\ NoAnswer \notin Answers
  /\ Unfit \subseteq Status
  /\ \A d \in Decision : Sealed(d) \in Status \ Unfit /\ Lifecycle(d) \in Status
BY DEF NoAnswer, Answers, Never, Status, Unfit, Sealed, Lifecycle

LEMMA AnswerType ==
  ASSUME TypeOK, NEW d \in Decision, NEW outOfDate \in BOOLEAN
  PROVE  Answer(d, outOfDate) \in Answers
<1>1. Assess(d, outOfDate) \in Status
  BY Statuses DEF Assess, Status, Unfit, Sealed
<1>2. now \in Nat /\ cache[d] \in Answers \cup {NoAnswer}
  BY DEF TypeOK, SealingTypeOK, Answers
<1> QED BY <1>1, <1>2 DEF Answer, Answers

LEMMA ReserveType ==
  ASSUME LedgerTypeOK, NEW d \in Decision, NEW slots \in SUBSET Slot,
         Reserve(d, slots) \/ ReserveRefused(d, slots)
  PROVE  /\ LedgerTypeOK'
         /\ UNCHANGED <<released, consumed>>
         /\ \A e \in Decision : e # d \/ HasEntry(d) => entry'[e] = entry[e]
BY DEF LedgerTypeOK, Reserve, ReserveRefused, ledgerVars

LEMMA ReleaseType ==
  ASSUME LedgerTypeOK, NEW d \in Decision, Release(d)
  PROVE  /\ LedgerTypeOK'
         /\ UNCHANGED <<entry, consumed>>
         /\ released \subseteq released'
         /\ ~HasActive(d)'
BY DEF LedgerTypeOK, Release, HasActive, HasEntry, ledgerVars

LEMMA RowsType ==
  ASSUME NEW B \in Bundle
  PROVE  /\ B \subseteq Decision
         /\ RowsOf(B) \in SUBSET Slot
         /\ RowsOf(B) # {} => SlotsOf[LeadOf[B]] # {}
<1>1. \A d \in B : d \in Decision /\ SlotsOf[d] \subseteq Slot
  OBVIOUS
<1> QED BY <1>1 DEF RowsOf

\* Sealing, into whichever ledger.
LEMMA SealType ==
  ASSUME SealingTypeOK, NEW B \in Bundle, SealBundle(B)
  PROVE  /\ SealingTypeOK'
         /\ UNCHANGED <<released, consumed, now, storeVars>>
         /\ \A d \in Decision : entry[d] # {} => entry'[d] = entry[d]
         /\ \A d \in Decision : entry'[d] # {} /\ entry[d] = {} => entry'[d] = SlotsOf[d]
         /\ \A d \in Decision : IsSealed(d) => sealedAt'[d] = sealedAt[d]
<1> USE DEF SealingTypeOK, LedgerTypeOK
<1>1. CASE ~SharedLedger
  BY <1>1, RowsType DEF SealBundle, ledgerVars, storeVars
<1>2. CASE SharedLedger
  <2>1. PICK P \in SUBSET B : File(P) /\ UNCHANGED <<now, storeVars>>
                              /\ \/ sealedAt' = [d \in Decision |-> IF d \in B /\ ~IsSealed(d) THEN now ELSE sealedAt[d]]
                                 \/ sealedAt' = sealedAt
    BY <1>2 DEF SealBundle, Seal, SealRefused
  <2>2. \A d \in Decision : entry'[d] = IF d \in P /\ entry[d] = {} THEN SlotsOf[d] ELSE entry[d]
    BY <2>1, RowsType DEF File, Unfiled, HasEntry
  <2>3. LedgerTypeOK' /\ UNCHANGED <<released, consumed>>
    BY <2>1 DEF File
  <2> QED BY <2>1, <2>2, <2>3 DEF IsSealed, storeVars
<1> QED BY <1>1, <1>2

\* Applying a transition.
LEMMA ApplyType ==
  ASSUME TypeOK, NEW d \in Decision, NEW answer \in Answers, Apply(d, answer)
  PROVE  /\ LedgerTypeOK'
         /\ UNCHANGED <<entry, consumed>>
         /\ released \subseteq released'
         /\ answer.status \in Unfit => ~HasActive(d)'
         /\ (status \in [Decision -> Status])'
         /\ (passed \in [Decision -> SUBSET Answers])'
         /\ (cache \in [Decision -> Answers \cup {NoAnswer}])'
         /\ status'[d] = answer.status /\ cache'[d] = NoAnswer
         /\ passed'[d] = passed[d] \cup {answer}
         /\ \A e \in Decision \ {d} : UNCHANGED <<status[e], cache[e], passed[e]>>
<1>1. LedgerTypeOK /\ status \in [Decision -> Status]
      /\ passed \in [Decision -> SUBSET Answers] /\ cache \in [Decision -> Answers \cup {NoAnswer}]
  BY DEF TypeOK, SealingTypeOK, Answers
<1>2. /\ LedgerTypeOK' /\ UNCHANGED <<entry, consumed>> /\ released \subseteq released'
      /\ answer.status \in Unfit => ~HasActive(d)'
  BY <1>1, ReleaseType DEF Apply, ledgerVars, LedgerTypeOK
<1>3. answer.status \in Status
  BY DEF Answers
<1> QED BY <1>1, <1>2, <1>3 DEF Apply

LEMMA Replacement ==
  ASSUME TypeOK, NEW e \in Decision, IsSealed(e)
  PROVE  [status |-> "SUPERSEDED", at |-> sealedAt[e]] \in Answers
BY DEF TypeOK, SealingTypeOK, IsSealed, Answers, Status, Unfit

LEMMA TypeStep ==
  ASSUME TypeOK, [Next]_vars
  PROVE  TypeOK'
<1> USE DEF TypeOK
<1>1. CASE UNCHANGED vars
  BY <1>1 DEF vars, sealingVars, ledgerVars, storeVars, SealingTypeOK, LedgerTypeOK
<1>2. CASE Tick /\ UNCHANGED storeVars
  BY <1>2 DEF Tick, ledgerVars, storeVars, SealingTypeOK, LedgerTypeOK
<1>3. ASSUME NEW B \in Bundle, SealBundle(B)
      PROVE  TypeOK'
  BY <1>3, SealType DEF storeVars
<1>4. ASSUME NEW B \in Bundle, RecordBundle(B)
      PROVE  TypeOK'
  <2>1. LedgerTypeOK'
    BY <1>4, RowsType, ReserveType DEF RecordBundle, ledgerVars, SealingTypeOK, LedgerTypeOK
  <2> QED BY <1>4, <2>1, RowsType DEF RecordBundle, SealingTypeOK
<1>5. ASSUME NEW B \in Bundle, RecordCollides(B)
      PROVE  TypeOK'
  BY <1>5, RowsType DEF RecordCollides, sealingVars, ledgerVars, SealingTypeOK, LedgerTypeOK
<1>6. ASSUME NEW d \in Decision, NEW outOfDate \in BOOLEAN, Reconcile(d, outOfDate)
      PROVE  TypeOK'
  <2>1. Answer(d, outOfDate) \in Answers
    BY AnswerType
  <2>2. CASE Apply(d, Answer(d, outOfDate))
    BY <1>6, <2>1, <2>2, ApplyType DEF Reconcile, SealingTypeOK, Answers
  <2>3. CASE ~Apply(d, Answer(d, outOfDate))
    BY <1>6, <2>1, <2>3 DEF Reconcile, SealingTypeOK, LedgerTypeOK, ledgerVars, Answers
  <2> QED BY <2>2, <2>3
<1>7. ASSUME NEW d \in Decision, NEW e \in Decision, Supersede(d, e)
      PROVE  TypeOK'
  <2> DEFINE replaced == [status |-> "SUPERSEDED", at |-> sealedAt[e]]
  <2>1. replaced \in Answers
    BY <1>7, Replacement DEF Supersede
  <2>2. /\ superseded' = superseded \cup {d} /\ stored' = stored \cup {e} /\ d \in stored
        /\ UNCHANGED <<now, sealedAt, recorded>>
        /\ Apply(d, replaced) \/ UNCHANGED <<ledgerVars, status, passed, cache>>
    BY <1>7 DEF Supersede
  <2> HIDE DEF replaced
  <2>3. CASE Apply(d, replaced)
    BY <2>1, <2>2, <2>3, ApplyType DEF SealingTypeOK, Answers
  <2>4. CASE UNCHANGED <<ledgerVars, status, passed, cache>>
    BY <2>2, <2>4 DEF SealingTypeOK, LedgerTypeOK, ledgerVars
  <2> QED BY <2>2, <2>3, <2>4
<1> QED BY <1>1, <1>2, <1>3, <1>4, <1>5, <1>6, <1>7 DEF Next

(* The ledger, the decisions and the cached results keep their types       *)
(* through every call of the store (decision/store.py).                    *)
THEOREM TypeCorrect == Spec => []TypeOK
<1>1. Init => TypeOK
  BY Statuses DEF Init, TypeOK, SealingInit, SealingTypeOK, LedgerInit, LedgerTypeOK, Never
<1> QED BY <1>1, TypeStep, PTL DEF Spec

-----------------------------------------------------------------------------
(* The cached results.                                                     *)

\* What is known of a decision from its transitions and its cached result.
Replaced(d) == \/ status[d] = "SUPERSEDED"
               \/ cache[d].status = "SUPERSEDED"
               \/ \E answer \in passed[d] : answer.status = "SUPERSEDED"

Expired(d) == status[d] = "EXPIRED" \/ cache[d].status = "EXPIRED"

Cached(d, statuses) == cache[d] = NoAnswer \/ cache[d].status \in statuses

CacheInv ==
  /\ TypeOK
  /\ \A d \in stored : IsSealed(d)
  /\ \A d \in Decision : status[d] \in Unfit \/ cache[d] # NoAnswer => d \in stored
  /\ \A d \in Decision : Replaced(d) => d \in superseded
  /\ \A d \in superseded : Cached(d, {"SUPERSEDED"})
  /\ \A d \in Decision : Expired(d) => DecisionExpired(d)
  /\ \A d \in Decision : status[d] = "EXPIRED" => Cached(d, {"EXPIRED", "SUPERSEDED"})

\* What reconcile answers is never older than the facts.
LEMMA AnswerIsDue ==
  ASSUME CacheInv, NEW d \in Decision, NEW outOfDate \in BOOLEAN
  PROVE  /\ Answer(d, outOfDate).status = "SUPERSEDED" <=> d \in superseded
         /\ Answer(d, outOfDate).status = "EXPIRED" => DecisionExpired(d)
         /\ status[d] = "EXPIRED" => Answer(d, outOfDate).status \in {"EXPIRED", "SUPERSEDED"}
<1>1. CASE cache[d] # NoAnswer
  BY <1>1 DEF CacheInv, Answer, Cached, Replaced, Expired
<1>2. CASE cache[d] = NoAnswer
  <2>1. Answer(d, outOfDate).status = Assess(d, outOfDate)
    BY <1>2 DEF Answer
  <2>2. Sealed(d) \in {"RESERVED", "PROPOSED"}
    BY DEF Sealed
  <2> QED BY <2>1, <2>2 DEF CacheInv, Assess, Expired
<1> QED BY <1>1, <1>2

\* The steps that leave the transitions and the cached results alone.
LEMMA CacheIdle ==
  ASSUME CacheInv, TypeOK', UNCHANGED <<superseded, status, passed, cache>>, stored \subseteq stored',
         \A d \in Decision : IsSealed(d) => sealedAt'[d] = sealedAt[d],
         \A d \in stored' : IsSealed(d)', now <= now'
  PROVE  CacheInv'
<1>1. \A d \in Decision : /\ Replaced(d)' <=> Replaced(d)
                          /\ Expired(d)' <=> Expired(d)
                          /\ status'[d] = status[d]
                          /\ \A S \in {{"SUPERSEDED"}, {"EXPIRED", "SUPERSEDED"}} : Cached(d, S)' <=> Cached(d, S)
  BY DEF Replaced, Expired, Cached
<1>2. \A d \in Decision : Expired(d) => d \in stored
  BY DEF CacheInv, Expired, Unfit, NoAnswer
<1>3. ASSUME NEW d \in stored, DecisionExpired(d)
      PROVE  DecisionExpired(d)'
  <2>1. d \in Decision /\ IsSealed(d)
    BY DEF CacheInv, TypeOK
  <2>2. sealedAt[d] \in Nat /\ sealedAt'[d] = sealedAt[d] /\ now \in Nat /\ now' \in Nat
    BY <2>1 DEF CacheInv, TypeOK, SealingTypeOK, IsSealed
  <2> QED BY <1>3, <2>2 DEF DecisionExpired
<1>4. \A d \in Decision : Expired(d)' => DecisionExpired(d)'
  BY <1>1, <1>2, <1>3 DEF CacheInv
<1>5. \A d \in superseded' : Cached(d, {"SUPERSEDED"})'
  BY <1>1 DEF CacheInv, TypeOK
<1>6. \A d \in Decision : status'[d] = "EXPIRED" => Cached(d, {"EXPIRED", "SUPERSEDED"})'
  BY <1>1 DEF CacheInv
<1>7. \A d \in Decision : Replaced(d)' => d \in superseded'
  BY <1>1 DEF CacheInv
<1>8. \A d \in Decision : status'[d] \in Unfit \/ cache'[d] # NoAnswer => d \in stored'
  BY DEF CacheInv
<1> QED BY <1>4, <1>5, <1>6, <1>7, <1>8 DEF CacheInv

\* A transition of d that says no more than is known.
LEMMA CacheApply ==
  ASSUME CacheInv, TypeOK', NEW d \in stored, NEW answer \in Answers, Apply(d, answer),
         UNCHANGED <<now, sealedAt>>, superseded \subseteq superseded', superseded' \subseteq superseded \cup {d},
         stored \subseteq stored', \A e \in stored' : IsSealed(e)',
         answer.status = "SUPERSEDED" <=> d \in superseded',
         answer.status = "EXPIRED" => DecisionExpired(d)
  PROVE  CacheInv'
<1>1. d \in Decision
  BY DEF CacheInv, TypeOK
<1>2. /\ status'[d] = answer.status /\ cache'[d] = NoAnswer
      /\ passed'[d] = passed[d] \cup {answer}
      /\ \A e \in Decision \ {d} : status'[e] = status[e] /\ cache'[e] = cache[e] /\ passed'[e] = passed[e]
  BY <1>1, ApplyType DEF CacheInv
<1>3. \A e \in Decision : DecisionExpired(e)' <=> DecisionExpired(e)
  BY DEF DecisionExpired
<1>4. ASSUME NEW e \in Decision \ {d}
      PROVE  /\ Replaced(e)' <=> Replaced(e)
             /\ Expired(e)' <=> Expired(e)
             /\ \A S : Cached(e, S)' <=> Cached(e, S)
             /\ e \in superseded' <=> e \in superseded
  BY <1>2 DEF Replaced, Expired, Cached
<1>5. /\ Replaced(d)' => d \in superseded'
      /\ Expired(d)' => DecisionExpired(d)
      /\ \A S : Cached(d, S)'
  <2>1. NoAnswer.status = "PROPOSED"
    BY DEF NoAnswer
  <2>2. Replaced(d)' => answer.status = "SUPERSEDED" \/ Replaced(d)
    BY <1>2, <2>1 DEF Replaced
  <2> QED BY <1>1, <1>2, <2>1, <2>2 DEF CacheInv, Expired, Cached
<1> HIDE DEF Replaced, Expired, Cached
<1>6. \A e \in Decision : status'[e] \in Unfit \/ cache'[e] # NoAnswer => e \in stored'
  BY <1>2 DEF CacheInv
<1>7. \A e \in superseded' : e \in Decision
  BY DEF TypeOK
<1> QED BY <1>1, <1>2, <1>3, <1>4, <1>5, <1>6, <1>7 DEF CacheInv

LEMMA CacheStep ==
  ASSUME CacheInv, TypeOK', [Next]_vars
  PROVE  CacheInv'
<1> USE DEF CacheInv, TypeOK, SealingTypeOK
<1>1. CASE UNCHANGED vars
  BY <1>1, CacheIdle DEF vars, sealingVars, storeVars, IsSealed
<1>2. CASE Tick /\ UNCHANGED storeVars
  BY <1>2, CacheIdle DEF Tick, storeVars, IsSealed
<1>3. ASSUME NEW B \in Bundle, SealBundle(B)
      PROVE  CacheInv'
  <2> QED BY <1>3, SealType, CacheIdle DEF storeVars, IsSealed
<1>4. ASSUME NEW B \in Bundle, RecordBundle(B) \/ RecordCollides(B)
      PROVE  CacheInv'
  <2>1. \A d \in stored' : IsSealed(d)'
    BY <1>4 DEF RecordBundle, RecordCollides, IsReturned, IsSealed, sealingVars
  <2> QED BY <1>4, <2>1, CacheIdle DEF RecordBundle, RecordCollides, sealingVars
<1>5. ASSUME NEW d \in Decision, NEW outOfDate \in BOOLEAN, Reconcile(d, outOfDate)
      PROVE  CacheInv'
  <2> DEFINE answer == Answer(d, outOfDate)
  <2>1. answer \in Answers /\ d \in stored /\ UNCHANGED <<now, sealedAt, stored, superseded, recorded>>
    BY <1>5, AnswerType DEF Reconcile
  <2>2. /\ answer.status = "SUPERSEDED" <=> d \in superseded
        /\ answer.status = "EXPIRED" => DecisionExpired(d)
        /\ status[d] = "EXPIRED" => answer.status \in {"EXPIRED", "SUPERSEDED"}
    BY AnswerIsDue
  <2>3. \/ Apply(d, answer)
        \/ cache' = [cache EXCEPT ![d] = answer] /\ UNCHANGED <<ledgerVars, status, passed>>
    BY <1>5 DEF Reconcile
  <2> HIDE DEF answer
  <2>4. CASE Apply(d, answer)
    BY <2>1, <2>2, <2>4, CacheApply DEF IsSealed
  <2>5. CASE cache' = [cache EXCEPT ![d] = answer] /\ UNCHANGED <<ledgerVars, status, passed>>
    <3>1. \A e \in Decision \ {d} : cache'[e] = cache[e]
      BY <2>5
    <3>2. cache'[d] = answer
      BY <2>5
    <3>3. \A e \in Decision : Replaced(e)' => e \in superseded'
      BY <2>1, <2>2, <2>5, <3>1, <3>2 DEF Replaced
    <3>4. \A e \in superseded' : Cached(e, {"SUPERSEDED"})'
      BY <2>1, <2>2, <3>1, <3>2 DEF Cached
    <3>5. \A e \in Decision : Expired(e)' => DecisionExpired(e)'
      BY <2>1, <2>2, <2>5, <3>1, <3>2 DEF Expired, DecisionExpired
    <3>6. \A e \in Decision : status'[e] = "EXPIRED" => Cached(e, {"EXPIRED", "SUPERSEDED"})'
      BY <2>1, <2>2, <2>5, <3>1, <3>2 DEF Cached
    <3>7. /\ \A e \in stored' : IsSealed(e)'
          /\ \A e \in Decision : status'[e] \in Unfit \/ cache'[e] # NoAnswer => e \in stored'
      BY <2>1, <2>5, <3>1 DEF IsSealed
    <3> QED BY <3>3, <3>4, <3>5, <3>6, <3>7
  <2> QED BY <2>3, <2>4, <2>5
<1>6. ASSUME NEW d \in Decision, NEW e \in Decision, Supersede(d, e)
      PROVE  CacheInv'
  <2> DEFINE replaced == [status |-> "SUPERSEDED", at |-> sealedAt[e]]
  <2>1. replaced \in Answers
    BY <1>6, Replacement DEF Supersede
  <2>2. /\ superseded' = superseded \cup {d} /\ stored' = stored \cup {e} /\ d \in stored
        /\ IsSealed(e) /\ UNCHANGED <<now, sealedAt, recorded>>
        /\ \/ Apply(d, replaced)
           \/ replaced \in passed[d] /\ UNCHANGED <<ledgerVars, status, passed, cache>>
        /\ replaced.status = "SUPERSEDED"
    BY <1>6 DEF Supersede
  <2> HIDE DEF replaced
  <2>3. CASE Apply(d, replaced)
    BY <2>1, <2>2, <2>3, CacheApply DEF IsSealed
  <2>4. CASE replaced \in passed[d] /\ UNCHANGED <<ledgerVars, status, passed, cache>>
    <3>1. d \in superseded
      BY <2>2, <2>4 DEF Replaced
    <3> QED BY <2>2, <2>4, <3>1, CacheIdle DEF IsSealed
  <2> QED BY <2>2, <2>3, <2>4
<1> QED BY <1>1, <1>2, <1>3, <1>4, <1>5, <1>6 DEF Next

\* What is cached is never older than a replacement or an expiry that was
\* recorded: reconcile prefers what it has cached, and a transition throws it
\* away (decision/store.py:57-92).
THEOREM CacheIsKept == Spec => []CacheInv
<1>1. Init => CacheInv
  <2> SUFFICES ASSUME Init
               PROVE  CacheInv
    OBVIOUS
  <2>1. TypeOK
    BY Statuses DEF Init, TypeOK, SealingInit, SealingTypeOK, LedgerInit, LedgerTypeOK, Never
  <2>2. \A d \in Decision : ~Replaced(d) /\ ~Expired(d)
    BY DEF Init, Replaced, Expired, Sealed, NoAnswer
  <2>3. \A d \in Decision : cache[d] = NoAnswer /\ status[d] \notin Unfit
    BY Statuses DEF Init
  <2>4. \A d \in Decision : status[d] # "EXPIRED"
    BY <2>3 DEF Unfit
  <2>5. stored = {} /\ superseded = {}
    BY DEF Init
  <2> QED BY <2>1, <2>2, <2>3, <2>4, <2>5 DEF CacheInv
<1> QED BY <1>1, TypeCorrect, CacheStep, PTL DEF Spec

(* No call ever answers that a replaced decision is ready, whatever was    *)
(* cached for it before (decision/store.py:74, 124).                       *)
THEOREM SupersededStaysSo == Spec => []SupersededIsNotReady
<1>1. CacheInv => SupersededIsNotReady
  BY AnswerIsDue DEF SupersededIsNotReady, CacheInv, TypeOK
<1> QED BY <1>1, CacheIsKept, PTL

(* A decision that has expired is not brought back by a result cached      *)
(* before it expired (decision/store.py:74).                               *)
THEOREM ExpiredStaysSo == Spec => ExpiryIsFinal
<1>1. ASSUME CacheInv, [Next]_vars, NEW d \in Decision, status[d] = "EXPIRED"
      PROVE  status'[d] \in {"EXPIRED", "SUPERSEDED"}
  <2>1. ASSUME NEW e \in Decision, NEW answer \in Answers, Apply(e, answer),
               e = d => answer.status \in {"EXPIRED", "SUPERSEDED"}
        PROVE  status'[d] \in {"EXPIRED", "SUPERSEDED"}
    BY <1>1, <2>1, ApplyType DEF CacheInv
  <2>2. ASSUME NEW e \in Decision, NEW outOfDate \in BOOLEAN, Reconcile(e, outOfDate)
        PROVE  status'[d] \in {"EXPIRED", "SUPERSEDED"}
    <3>1. Answer(e, outOfDate) \in Answers
      BY <1>1, AnswerType DEF CacheInv
    <3>2. e = d => Answer(e, outOfDate).status \in {"EXPIRED", "SUPERSEDED"}
      BY <1>1, AnswerIsDue
    <3>3. Apply(e, Answer(e, outOfDate)) \/ status' = status
      BY <2>2 DEF Reconcile
    <3> QED BY <1>1, <2>1, <3>1, <3>2, <3>3
  <2>3. ASSUME NEW e \in Decision, NEW f \in Decision, Supersede(e, f)
        PROVE  status'[d] \in {"EXPIRED", "SUPERSEDED"}
    <3> DEFINE replaced == [status |-> "SUPERSEDED", at |-> sealedAt[f]]
    <3>1. replaced \in Answers /\ replaced.status = "SUPERSEDED"
      BY <1>1, <2>3, Replacement DEF Supersede, CacheInv
    <3>2. Apply(e, replaced) \/ status' = status
      BY <2>3 DEF Supersede
    <3> HIDE DEF replaced
    <3> QED BY <1>1, <2>1, <3>1, <3>2
  <2>4. ASSUME NEW B \in Bundle, SealBundle(B) \/ RecordBundle(B) \/ RecordCollides(B)
        PROVE  status' = status
    BY <2>4 DEF SealBundle, RecordBundle, RecordCollides, storeVars
  <2>5. (Tick /\ UNCHANGED storeVars) \/ UNCHANGED vars => status' = status
    BY DEF storeVars, vars
  <2> QED BY <1>1, <2>2, <2>3, <2>4, <2>5 DEF Next
<1>2. CacheInv /\ [Next]_vars =>
        [\A d \in Decision : status[d] = "EXPIRED" => status'[d] \in {"EXPIRED", "SUPERSEDED"}]_vars
  BY <1>1
<1> QED BY <1>2, CacheIsKept, PTL DEF Spec, ExpiryIsFinal

-----------------------------------------------------------------------------
(* The reservations.                                                       *)

\* An id that was sealed has its rows filed, and no id that has none has any.
HoldingInv ==
  /\ \A d \in Decision : HasEntry(d) => SlotsOf[d] # {}
  /\ \A d \in Decision : IsSealed(d) /\ SlotsOf[d] # {} => HasEntry(d)
  /\ UnfitHoldsNothing

LEMMA HoldingStep ==
  ASSUME SharedLedger, CacheInv, CacheInv', HoldingInv, [Next]_vars
  PROVE  HoldingInv'
<1> USE DEF CacheInv, TypeOK, SealingTypeOK
\* Nothing is filed under an id that is unfit: it was sealed before.
<1>1. ASSUME UNCHANGED <<released, status>>,
             \A d \in Decision : HasEntry(d) => entry'[d] = entry[d],
             \A d \in Decision : HasEntry(d)' => SlotsOf[d] # {},
             \A d \in Decision : IsSealed(d)' /\ ~HasEntry(d) => IsSealed(d) \/ HasEntry(d)' \/ SlotsOf[d] = {}
      PROVE  HoldingInv'
  <2>1. ASSUME NEW d \in Decision, status[d] \in Unfit
        PROVE  ~HasActive(d)'
    <3>1. IsSealed(d)
      BY <2>1
    <3> QED BY <1>1, <2>1, <3>1 DEF HoldingInv, UnfitHoldsNothing, HasActive, HasEntry
  <2> QED BY <1>1, <2>1 DEF HoldingInv, UnfitHoldsNothing, HasEntry, IsSealed
<1>2. ASSUME UNCHANGED <<entry, sealedAt>>, released \subseteq released',
             \A d \in Decision : status'[d] \in Unfit => status[d] \in Unfit \/ ~HasActive(d)'
      PROVE  HoldingInv'
  BY <1>2 DEF HoldingInv, UnfitHoldsNothing, HasActive, HasEntry, IsSealed
<1>3. ASSUME NEW d \in Decision, NEW answer \in Answers, Apply(d, answer), UNCHANGED sealedAt
      PROVE  HoldingInv'
  <2>1. UNCHANGED entry /\ released \subseteq released'
    BY <1>3, ApplyType
  <2>2. \A e \in Decision : status'[e] \in Unfit => status[e] \in Unfit \/ ~HasActive(e)'
    BY <1>3, ApplyType
  <2> QED BY <1>2, <1>3, <2>1, <2>2
<1>4. CASE UNCHANGED <<entry, released, sealedAt, status>>
  BY <1>4 DEF HoldingInv, UnfitHoldsNothing, HasActive, HasEntry, IsSealed
<1>5. ASSUME NEW B \in Bundle, SealBundle(B)
      PROVE  HoldingInv'
  <2>1. UNCHANGED <<released, status>>
    BY <1>5, SealType DEF storeVars
  <2>2. \A d \in Decision : HasEntry(d) => entry'[d] = entry[d]
    BY <1>5, SealType DEF HasEntry
  <2>3. \A d \in Decision : HasEntry(d)' => SlotsOf[d] # {}
    BY <1>5, SealType DEF HasEntry, HoldingInv
  <2>4. \A d \in Decision : IsSealed(d)' /\ ~HasEntry(d) => IsSealed(d) \/ HasEntry(d)' \/ SlotsOf[d] = {}
    BY <1>5 DEF SealBundle, Seal, SealRefused, File, Unfiled, HasEntry, IsSealed
  <2> QED BY <1>1, <2>1, <2>2, <2>3, <2>4
<1>6. ASSUME NEW B \in Bundle, RecordBundle(B)
      PROVE  HoldingInv'
  <2>1. CASE RowsOf(B) = {}
    BY <1>4, <1>6, <2>1 DEF RecordBundle, ledgerVars
  <2>2. CASE RowsOf(B) # {}
    <3>1. LeadOf[B] \in B /\ LeadOf[B] \in Decision /\ SlotsOf[LeadOf[B]] # {}
      BY <2>2, RowsType
    <3>2. HasEntry(LeadOf[B])
      BY <1>6, <3>1 DEF RecordBundle, IsReturned, HoldingInv
    <3>3. UNCHANGED ledgerVars
      BY <1>6, <2>2, <3>2 DEF RecordBundle, Reserve, ReserveRefused
    <3> QED BY <1>4, <1>6, <3>3 DEF RecordBundle, ledgerVars
  <2> QED BY <2>1, <2>2
<1>7. ASSUME NEW B \in Bundle, RecordCollides(B)
      PROVE  HoldingInv'
  BY <1>4, <1>7 DEF RecordCollides, sealingVars, ledgerVars
<1>8. ASSUME NEW d \in Decision, NEW outOfDate \in BOOLEAN, Reconcile(d, outOfDate)
      PROVE  HoldingInv'
  BY <1>3, <1>4, <1>8, AnswerType DEF Reconcile, ledgerVars
<1>9. ASSUME NEW d \in Decision, NEW e \in Decision, Supersede(d, e)
      PROVE  HoldingInv'
  <2> DEFINE replaced == [status |-> "SUPERSEDED", at |-> sealedAt[e]]
  <2>1. replaced \in Answers
    BY <1>9, Replacement DEF Supersede
  <2>2. UNCHANGED sealedAt /\ (Apply(d, replaced) \/ UNCHANGED <<ledgerVars, status>>)
    BY <1>9 DEF Supersede
  <2> HIDE DEF replaced
  <2> QED BY <1>3, <1>4, <2>1, <2>2 DEF ledgerVars
<1>10. (Tick /\ UNCHANGED storeVars) \/ UNCHANGED vars => UNCHANGED <<entry, released, sealedAt, status>>
  BY DEF Tick, vars, sealingVars, ledgerVars, storeVars
<1> QED BY <1>4, <1>5, <1>6, <1>7, <1>8, <1>9, <1>10 DEF Next

(* When bundles are sealed into the ledger of the store, a decision whose  *)
(* last transition made it unfit for execution holds no reservation        *)
(* (decision/store.py:67-73).  With a ledger of its own for each bundle    *)
(* this is false: a decision that replaced another is in the store before  *)
(* its bundle is recorded, can become unfit there, and is given its rows   *)
(* when the bundle is.                                                     *)
THEOREM UnfitIsReleased ==
  ASSUME SharedLedger
  PROVE  Spec => []UnfitHoldsNothing
<1>1. Init => HoldingInv
  BY Statuses DEF Init, SealingInit, LedgerInit, HoldingInv, UnfitHoldsNothing, HasEntry, IsSealed
<1>2. CacheInv /\ CacheInv' /\ HoldingInv /\ [Next]_vars => HoldingInv'
  BY HoldingStep
<1>3. HoldingInv => UnfitHoldsNothing
  BY DEF HoldingInv
<1> QED BY <1>1, <1>2, <1>3, CacheIsKept, PTL DEF Spec
=============================================================================
