------------------------- MODULE ReservationLedger -------------------------
(***************************************************************************)
(* The reservation ledger of revive/decision/ledger.py.                    *)
(*                                                                         *)
(* A ledger row names a decision, a resource key, a quantity and, for the  *)
(* contact allowance, a customer.  Two rows exclude each other when they   *)
(* have the same resource key with a positive quantity, or are contact     *)
(* allowances of the same customer.  The model keeps what that test sees:  *)
(* a slot is a thing that at most one active entry may hold, and an entry  *)
(* is the set of slots filed under one decision id.                        *)
(***************************************************************************)
EXTENDS FiniteSets

CONSTANTS
  Decision,   \* decision ids
  Slot        \* resource keys, and one contact allowance per customer

VARIABLES
  entry,      \* _active: the slots filed under an id, {} when it has no entry
  released,   \* _released: the ids whose entry was given back
  consumed    \* _committed: the slots an id has consumed, {} when it has none

ledgerVars == <<entry, released, consumed>>

LedgerTypeOK ==
  /\ entry    \in [Decision -> SUBSET Slot]
  /\ released \in SUBSET Decision
  /\ consumed \in [Decision -> SUBSET Slot]

LedgerInit ==
  /\ entry    = [d \in Decision |-> {}]
  /\ released = {}
  /\ consumed = [d \in Decision |-> {}]

HasEntry(d)    == entry[d] # {}
HasActive(d)   == HasEntry(d) /\ d \notin released
IsCommitted(d) == consumed[d] # {}

\* Mutant of Conflicts: the test looks at what is consumed, not at what is held.
ConflictsWithConsumed(d, slots) ==
  \E e \in Decision \ {d} : consumed[e] \cap slots # {}

\* The test reserve() makes of every other unreleased entry before it files
\* a new one.
Conflicts(d, slots) ==
  \E e \in Decision \ {d} : HasActive(e) /\ entry[e] \cap slots # {}

\* reserve() of a non-empty tuple of rows whose first row carries id d.
\* An id that has an entry gets that entry back, released or not.
Reserve(d, slots) ==
  \/ /\ HasEntry(d)
     /\ UNCHANGED ledgerVars
  \/ /\ ~HasEntry(d)
     /\ ~Conflicts(d, slots)
     /\ entry' = [entry EXCEPT ![d] = slots]
     /\ UNCHANGED <<released, consumed>>

\* reserve() raises ValueError and files nothing.
ReserveRefused(d, slots) ==
  /\ ~HasEntry(d)
  /\ Conflicts(d, slots)
  /\ UNCHANGED ledgerVars

\* commit(): an entry already consumed, or no active entry, changes nothing.
Commit(d) ==
  \/ /\ IsCommitted(d) \/ ~HasActive(d)
     /\ UNCHANGED ledgerVars
  \/ /\ ~IsCommitted(d)
     /\ HasActive(d)
     /\ consumed' = [consumed EXCEPT ![d] = entry[d]]
     /\ entry'    = [entry EXCEPT ![d] = {}]
     /\ UNCHANGED released

\* release(): the entry stays filed, marked as released; once only.
Release(d) ==
  \/ /\ ~HasActive(d)
     /\ UNCHANGED ledgerVars
  \/ /\ HasActive(d)
     /\ released' = released \cup {d}
     /\ UNCHANGED <<entry, consumed>>

-----------------------------------------------------------------------------
(* Two active entries never share a slot, whatever the order in which      *)
(* allocations are sealed, settled and given back, and however often the   *)
(* calls are repeated (the conflict test of reserve,                       *)
(* decision/ledger.py:57-76).                                              *)
NoDoubleBooking ==
  \A d, e \in Decision :
    d # e /\ HasActive(d) /\ HasActive(e) => entry[d] \cap entry[e] = {}
=============================================================================
