------------------------- MODULE AllocationPromise -------------------------
(***************************************************************************)
(* What an allocation promises, whichever allocator makes it (AL-1, AL-2,  *)
(* AL-3 of docs/10-recovery-allocation.md): every opportunity is decided   *)
(* once and for all; an action is selected only while its resources last,  *)
(* only if it is worth more than epsilon, and takes those resources; what  *)
(* is not selected is deferred if it had anything to offer, and left alone *)
(* otherwise.                                                              *)
(***************************************************************************)
EXTENDS AllocationResources

VARIABLES
  call,     \* the arguments: items, limits and the room there is at first
  room,     \* what was used so far
  outcome,  \* of each opportunity
  chosen    \* the candidate selected, or 0

Opportunity == DOMAIN call.items

Undecided == {o \in Opportunity : outcome[o] = "UNDECIDED"}

Init ==
  /\ room = call.room
  /\ outcome = [o \in Opportunity |-> "UNDECIDED"]
  /\ chosen = [o \in Opportunity |-> 0]

Select(o, i) ==
  /\ o \in Undecided
  /\ i \in Eligible(call.items[o])
  /\ CanReserve(call.limits, room, call.items[o].candidates[i].usage, call.items[o].customer)
  /\ room' = Reserve(room, call.items[o].candidates[i].usage, call.items[o].customer)
  /\ outcome' = [outcome EXCEPT ![o] = "SELECTED"]
  /\ chosen' = [chosen EXCEPT ![o] = i]
  /\ UNCHANGED call

\* Some are given up at once.
Decline(S) ==
  /\ S \subseteq Undecided
  /\ outcome' = [o \in Opportunity |->
                   IF o \notin S THEN outcome[o]
                   ELSE IF Eligible(call.items[o]) = {} THEN "NO_ACTION" ELSE "DEFERRED"]
  /\ UNCHANGED <<call, room, chosen>>

Next ==
  \/ \E o \in Opportunity : \E i \in DOMAIN call.items[o].candidates : Select(o, i)
  \/ \E S \in SUBSET Opportunity : Decline(S)

Spec == Init /\ [][Next]_<<call, room, outcome, chosen>>
=============================================================================
