---------------------------- MODULE MCExecution ----------------------------
(***************************************************************************)
(* Instances of Execution for TLC.  The decisions retry1 and retry2 plan   *)
(* the same delayed retry in two allocations of one cycle, so they share a *)
(* key and compete for a retry slot; offer is a message.                   *)
(***************************************************************************)
EXTENDS Execution, TLC

CONSTANTS offer, retryKey, offerKey, customer, retrySlot, messageSlot

MCSlotsOf    == [d \in Decision |-> IF d = offer THEN {messageSlot}
                                    ELSE {retrySlot}]
MCKeyOf      == [d \in Decision |-> IF d = offer THEN offerKey ELSE retryKey]
MCCustomerOf == [d \in Decision |-> customer]
MCDelayed    == Decision \ {offer}

\* The retries are alike.
RetrySymmetry == Permutations(MCDelayed)
=============================================================================
