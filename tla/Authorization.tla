--------------------------- MODULE Authorization ---------------------------
(***************************************************************************)
(* Authorization of sealed decisions, revive/policy/authorize.py and       *)
(* revive/policy/store.py.                                                 *)
(*                                                                         *)
(* An authorization id is a hash of the decision id and the configuration  *)
(* the decision was sealed under, so a decision has one id and the store   *)
(* keeps at most one artifact for it.  The store also keeps the            *)
(* idempotency keys it has authorized; two decisions share a key when they *)
(* plan the same action on the same opportunity in the same cycle.         *)
(*                                                                         *)
(* What the stopping rules and the gates look at is left out here: they    *)
(* may make of a decision any state in Verdicts.                           *)
(***************************************************************************)
EXTENDS Sealing

CONSTANTS
  Key,      \* idempotency keys
  KeyOf,    \* the key of each decision, not injective
  AuthTTL,  \* authorization_ttl_micros
  Verdicts  \* what the stopping rules and the gates may make of a decision

AuthState == {"NONE", "AUTHORIZED", "BLOCKED", "REQUIRES_HUMAN_APPROVAL", "REPLAN_REQUIRED"}

ASSUME AuthorizationAssumption ==
  /\ KeyOf \in [Decision -> Key]
  /\ AuthTTL \in Nat
  /\ Verdicts \subseteq AuthState \ {"NONE"}

VARIABLES
  artifact,       \* _authorizations: per decision, its state and when it was made
  authorizedKeys  \* _idempotency_claimed

authStoreVars == <<artifact, authorizedKeys>>
authVars      == <<sealingVars, authStoreVars>>

AuthTypeOK ==
  /\ SealingTypeOK
  /\ artifact \in [Decision -> [state : AuthState, at : Nat]]
  /\ authorizedKeys \in SUBSET Key

AuthInit ==
  /\ SealingInit
  /\ artifact = [d \in Decision |-> [state |-> "NONE", at |-> 0]]
  /\ authorizedKeys = {}

IsAuthorized(d)         == artifact[d].state = "AUTHORIZED"
AuthorizationExpired(d) == now > artifact[d].at + AuthTTL

\* Mutants of Record: the key is not claimed; the newest artifact is kept.
RecordUnclaimed(d, state) ==
  IF artifact[d].state # "NONE" THEN UNCHANGED authStoreVars
  ELSE /\ artifact' = [artifact EXCEPT ![d] = [state |-> state, at |-> now]]
       /\ UNCHANGED authorizedKeys

RecordReplaces(d, state) ==
  /\ artifact' = [artifact EXCEPT ![d] = [state |-> state, at |-> now]]
  /\ authorizedKeys' = IF state = "AUTHORIZED"
                       THEN authorizedKeys \cup {KeyOf[d]} ELSE authorizedKeys

\* record(): the first artifact of an id is kept.  A second one is the same,
\* or is handed back unrecorded (a duplicate key), or raises as a collision:
\* in each case the store is as it was.
Record(d, state) ==
  IF artifact[d].state # "NONE" THEN UNCHANGED authStoreVars
  ELSE /\ artifact' = [artifact EXCEPT ![d] = [state |-> state, at |-> now]]
       /\ authorizedKeys' = IF state = "AUTHORIZED"
                            THEN authorizedKeys \cup {KeyOf[d]} ELSE authorizedKeys

\* authorize_execution of a decision that is current and has not expired, when
\* the stopping rules and the gates say verdict.  One that is not current gets
\* an artifact from a store of its own, which is thrown away: nothing changes.
Authorize(d, verdict) ==
  /\ IsSealed(d)
  /\ ~DecisionExpired(d)
  /\ Record(d, IF KeyOf[d] \in authorizedKeys THEN "BLOCKED" ELSE verdict)
  /\ UNCHANGED sealingVars

-----------------------------------------------------------------------------
(* Whatever decisions are authorized, in whatever order and however often, *)
(* an idempotency key has at most one decision whose authorization allows  *)
(* execution (the claim in AuthorizationStore.record, policy/store.py:27-30).*)
OneAuthorizationPerKey ==
  \A d, e \in Decision :
    IsAuthorized(d) /\ IsAuthorized(e) /\ KeyOf[d] = KeyOf[e] => d = e

(* An authorization, once recorded, is never replaced: not by a later and  *)
(* more favourable evaluation, not by an approval that arrives after it,   *)
(* and not by the rejection of a repeated request (policy/store.py:19-25). *)
AuthorizationIsFinal ==
  [][\A d \in Decision : artifact[d].state # "NONE" => artifact'[d] = artifact[d]]_authVars
=============================================================================
