--------------------------- MODULE DecisionStore ---------------------------
(***************************************************************************)
(* The decision store, revive/decision/store.py, with the reconciliation   *)
(* of decision/reconcile.py and the ledger it releases reservations in.    *)
(*                                                                         *)
(* The caller seals an allocation into a bundle of decisions, records the  *)
(* bundle, asks now and then whether a decision may still be executed, and *)
(* replaces a decision by a newer one.  A bundle is sealed into the        *)
(* store's ledger or into one of its own (SharedLedger); in the second     *)
(* case record_bundle files all its rows in one call, and the ledger files *)
(* them under the id of the first.                                         *)
(*                                                                         *)
(* What reconciliation compares a decision with, besides the clock, is one *)
(* bit: the state it was sealed in is out of date, or not.                 *)
(***************************************************************************)
EXTENDS Sealing

CONSTANTS
  Selected,      \* the decisions with outcome SELECTED
  Bundle,        \* the bundles an allocation may be sealed into
  LeadOf,        \* the first decision of a bundle that has rows, if any has
  SharedLedger   \* bundles are sealed into the ledger of the store

ASSUME DecisionStoreAssumption ==
  /\ Selected \subseteq Decision
  /\ \A d \in Decision \ Selected : SlotsOf[d] = {}
  /\ Bundle \subseteq SUBSET Decision
  /\ LeadOf \in [Bundle -> Decision]
  /\ \A B \in Bundle : LeadOf[B] \in B
  /\ \A B \in Bundle : \A d \in B : SlotsOf[d] # {} => SlotsOf[LeadOf[B]] # {}
  /\ SharedLedger \in BOOLEAN

Unfit  == {"STALE", "EXPIRED", "SUPERSEDED"}
Status == Unfit \cup {"PROPOSED", "RESERVED", "VALID"}

VARIABLES
  stored,      \* the decisions in _decisions
  superseded,  \* those of them that were replaced by a SUPERSEDED copy
  recorded,    \* _bundles
  status,      \* to_status of the last transition of a decision
  passed,      \* its transitions: to_status and occurred_at
  cache        \* _reconciliation_cache: a status and its reconciled_at

storeVars == <<stored, superseded, recorded, status, passed, cache>>
vars      == <<sealingVars, storeVars>>

NoAnswer == [status |-> "PROPOSED", at |-> Never]

Sealed(d) == IF d \in Selected THEN "RESERVED" ELSE "PROPOSED"

\* lifecycle_status of the record in the store: transitions do not change it.
Lifecycle(d) == IF d \in superseded THEN "SUPERSEDED" ELSE Sealed(d)

TypeOK ==
  /\ SealingTypeOK
  /\ stored \in SUBSET Decision
  /\ superseded \in SUBSET stored
  /\ recorded \in SUBSET Bundle
  /\ status \in [Decision -> Status]
  /\ passed \in [Decision -> SUBSET [status : Status, at : Nat]]
  /\ cache \in [Decision -> [status : Status, at : Nat] \cup {NoAnswer}]

Init ==
  /\ SealingInit
  /\ stored = {}
  /\ superseded = {}
  /\ recorded = {}
  /\ status = [d \in Decision |-> Sealed(d)]
  /\ passed = [d \in Decision |-> {}]
  /\ cache  = [d \in Decision |-> NoAnswer]

-----------------------------------------------------------------------------
RowsOf(B) == UNION {SlotsOf[d] : d \in B}

\* seal_allocation.  A ledger of its own is empty, and an allocation asks for
\* no more than there is, so nothing is refused.
SealBundle(B) ==
  /\ IF SharedLedger THEN Seal(B) \/ SealRefused(B)
     ELSE /\ sealedAt' = [d \in Decision |-> IF d \in B /\ ~IsSealed(d) THEN now ELSE sealedAt[d]]
          /\ UNCHANGED <<ledgerVars, now>>
  /\ UNCHANGED storeVars

IsReturned(B) == \A d \in B : IsSealed(d)

\* record_bundle of a bundle none of whose decisions was replaced.  When the
\* ledger refuses the rows the call raises with the decisions stored.
RecordBundle(B) ==
  /\ IsReturned(B) /\ B \notin recorded
  /\ B \cap superseded = {}
  /\ recorded' = recorded \cup {B}
  /\ stored' = stored \cup B
  /\ IF RowsOf(B) = {} THEN UNCHANGED ledgerVars
     ELSE Reserve(LeadOf[B], RowsOf(B)) \/ ReserveRefused(LeadOf[B], RowsOf(B))
  /\ UNCHANGED <<now, sealedAt, superseded, status, passed, cache>>

\* record_bundle raises: a decision of it is stored as SUPERSEDED, which is
\* another decision under the same id.  Those before it are stored.
RecordCollides(B) ==
  /\ IsReturned(B) /\ B \notin recorded
  /\ B \cap superseded # {}
  /\ recorded' = recorded \cup {B}
  /\ \E P \in SUBSET (B \ superseded) : stored' = stored \cup P
  /\ UNCHANGED <<sealingVars, superseded, status, passed, cache>>

\* Mutants of Apply: the reservation of a replaced decision is forgotten; the
\* cached result is kept.
ApplyForgetsSuperseded(d, answer) ==
  /\ status' = [status EXCEPT ![d] = answer.status]
  /\ passed' = [passed EXCEPT ![d] = @ \cup {answer}]
  /\ cache'  = [cache EXCEPT ![d] = NoAnswer]
  /\ IF answer.status \in {"STALE", "EXPIRED"} THEN Release(d) ELSE UNCHANGED ledgerVars

ApplyKeepsCache(d, answer) ==
  /\ status' = [status EXCEPT ![d] = answer.status]
  /\ passed' = [passed EXCEPT ![d] = @ \cup {answer}]
  /\ cache'  = [cache EXCEPT ![d] = IF @ = NoAnswer THEN answer ELSE @]
  /\ IF answer.status \in Unfit THEN Release(d) ELSE UNCHANGED ledgerVars

\* apply_transition of one that is not on record.
Apply(d, answer) ==
  /\ status' = [status EXCEPT ![d] = answer.status]
  /\ passed' = [passed EXCEPT ![d] = @ \cup {answer}]
  /\ cache'  = [cache EXCEPT ![d] = NoAnswer]
  /\ IF answer.status \in Unfit THEN Release(d) ELSE UNCHANGED ledgerVars

\* Mutant of Assess: the state is compared before the clock.
AssessStateFirst(d, outOfDate) ==
  IF d \in superseded THEN "SUPERSEDED"
  ELSE IF outOfDate THEN "STALE"
  ELSE IF DecisionExpired(d) THEN "EXPIRED"
  ELSE IF d \in Selected THEN "VALID" ELSE Sealed(d)

\* reconcile_decision of a decision with no cached result.
Assess(d, outOfDate) ==
  CASE d \in superseded   -> "SUPERSEDED"
    [] d \notin superseded /\ DecisionExpired(d) -> "EXPIRED"
    [] d \notin superseded /\ ~DecisionExpired(d) /\ outOfDate -> "STALE"
    [] OTHER -> IF d \in Selected THEN "VALID" ELSE Sealed(d)

\* What reconcile returns.  Only the status VALID is execution_ready.
Answer(d, outOfDate) ==
  IF cache[d] # NoAnswer THEN cache[d]
  ELSE [status |-> Assess(d, outOfDate), at |-> now]

\* The result is cached before its transition is applied, and a transition
\* that is applied throws the cached result away.
Reconcile(d, outOfDate) ==
  /\ d \in stored
  /\ LET answer == Answer(d, outOfDate)
     IN  IF answer.status = Lifecycle(d) \/ answer \in passed[d]
         THEN /\ cache' = [cache EXCEPT ![d] = answer]
              /\ UNCHANGED <<ledgerVars, status, passed>>
         ELSE Apply(d, answer)
  /\ UNCHANGED <<now, sealedAt, stored, superseded, recorded>>

\* supersede(d, e): the transition is dated by the creation of e.
Supersede(d, e) ==
  /\ d \in stored /\ IsSealed(e) /\ d # e
  /\ superseded' = superseded \cup {d}
  /\ stored' = stored \cup {e}
  /\ LET replaced == [status |-> "SUPERSEDED", at |-> sealedAt[e]]
     IN  IF replaced \in passed[d] THEN UNCHANGED <<ledgerVars, status, passed, cache>>
         ELSE Apply(d, replaced)
  /\ UNCHANGED <<now, sealedAt, recorded>>

Next ==
  \/ Tick /\ UNCHANGED storeVars
  \/ \E B \in Bundle : SealBundle(B) \/ RecordBundle(B) \/ RecordCollides(B)
  \/ \E d \in Decision : \E outOfDate \in BOOLEAN : Reconcile(d, outOfDate)
  \/ \E d, e \in Decision : Supersede(d, e)

Spec == Init /\ [][Next]_vars

-----------------------------------------------------------------------------
(* A replaced decision is never again said to be ready, whatever was       *)
(* cached for it before it was replaced (decision/store.py:74, 124).       *)
SupersededIsNotReady ==
  \A d \in superseded, outOfDate \in BOOLEAN : Answer(d, outOfDate).status = "SUPERSEDED"

(* A decision whose last transition made it unfit for execution holds no   *)
(* reservation, though others may have been sealed, recorded and replaced  *)
(* since (decision/store.py:67-73).                                        *)
UnfitHoldsNothing ==
  \A d \in Decision : status[d] \in Unfit => ~HasActive(d)

(* A decision that has expired stays so until it is replaced: a result     *)
(* cached before does not bring it back (decision/store.py:74).            *)
ExpiryIsFinal ==
  [][\A d \in Decision :
       status[d] = "EXPIRED" => status'[d] \in {"EXPIRED", "SUPERSEDED"}]_vars

(* Past its expiry no decision is said to be ready for execution:          *)
(* implementation/checkpoints/M9-allocation-integrity.md, Expiry.  A       *)
(* decision reconciled twice at one instant has its VALID result cached    *)
(* for good.                                                               *)
ExpiredIsNotReady ==
  \A d \in stored, outOfDate \in BOOLEAN :
    DecisionExpired(d) => Answer(d, outOfDate).status # "VALID"
=============================================================================
