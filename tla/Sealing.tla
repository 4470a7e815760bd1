------------------------------ MODULE Sealing ------------------------------
(***************************************************************************)
(* Sealing an allocation into decisions, revive/decision/seal.py.          *)
(*                                                                         *)
(* seal_allocation walks the assignments of one allocation, makes a        *)
(* decision of each and files the decision's reservation rows in the       *)
(* ledger.  It is one call, but not one transaction: when a reservation is *)
(* refused in the middle of the walk the call raises, no decision is       *)
(* returned, and the rows filed before it stay filed.                      *)
(*                                                                         *)
(* Time is the virtual clock, in ticks.  MaxTime bounds it.                *)
(***************************************************************************)
EXTENDS ReservationLedger, Integers

CONSTANTS
  SlotsOf,      \* the rows of each decision, {} for one that needs no resource
  DecisionTTL,  \* allocation_ttl_micros
  MaxTime       \* bound on the clock

Never == -1

ASSUME SealingAssumption ==
  /\ SlotsOf \in [Decision -> SUBSET Slot]
  /\ DecisionTTL \in Nat
  /\ MaxTime \in Nat

VARIABLES
  now,       \* the virtual clock
  sealedAt   \* created_at of a decision, Never for one that was not returned

sealingVars == <<ledgerVars, now, sealedAt>>

SealingTypeOK ==
  /\ LedgerTypeOK
  /\ now \in Nat
  /\ sealedAt \in [Decision -> Nat \cup {Never}]

SealingInit ==
  /\ LedgerInit
  /\ now = 0
  /\ sealedAt = [d \in Decision |-> Never]

IsSealed(d)        == sealedAt[d] # Never
DecisionExpired(d) == now > sealedAt[d] + DecisionTTL

\* The members of S that reserve() would file: the others have an entry.
Unfiled(S) == {d \in S : ~HasEntry(d)}

CanFile(S) ==
  \A d \in Unfiled(S) :
    /\ ~Conflicts(d, SlotsOf[d])
    /\ \A e \in Unfiled(S) \ {d} : SlotsOf[d] \cap SlotsOf[e] = {}

File(S) ==
  /\ entry' = [d \in Decision |-> IF d \in Unfiled(S) THEN SlotsOf[d] ELSE entry[d]]
  /\ UNCHANGED <<released, consumed>>

\* The decisions of allocation S are returned, all of them reserved.  Sealing
\* the same allocation again yields the same decisions.
Seal(S) ==
  /\ CanFile(S)
  /\ File(S)
  /\ sealedAt' = [d \in Decision |-> IF d \in S /\ ~IsSealed(d) THEN now ELSE sealedAt[d]]
  /\ UNCHANGED now

\* reserve() refuses d after the rows of the decisions in P were filed.
SealRefused(S) ==
  /\ \E P \in SUBSET S, d \in S :
       /\ d \notin P
       /\ CanFile(P)
       /\ ~CanFile(P \cup {d})
       /\ File(P)
  /\ UNCHANGED <<now, sealedAt>>

Tick ==
  /\ now < MaxTime
  /\ now' = now + 1
  /\ UNCHANGED <<ledgerVars, sealedAt>>
=============================================================================
