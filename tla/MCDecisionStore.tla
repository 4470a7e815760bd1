-------------------------- MODULE MCDecisionStore --------------------------
(***************************************************************************)
(* Instances of DecisionStore for TLC: one cycle plans first, and either   *)
(* plans second beside it or waits with idle; a later cycle plans again,   *)
(* which may want the slot that first holds.                               *)
(***************************************************************************)
EXTENDS DecisionStore

CONSTANTS first, second, idle, again, slot1, slot2

MCSlotsOf == [d \in Decision |-> CASE d \in {first, again} -> {slot1}
                                   [] d = second           -> {slot2}
                                   [] OTHER                -> {}]
MCSelected == Decision \ {idle}
MCBundle   == {{first, d} : d \in Decision \ {first, again}} \cup {{again}}
MCLeadOf   == [B \in Bundle |-> IF first \in B THEN first ELSE again]

\* Bound: the first cycle has one of its two plans.
OnePlan == (HasEntry(second) \/ IsSealed(second)) => ~IsSealed(idle)
=============================================================================
