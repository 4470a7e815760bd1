---------------------------- MODULE AtMostOnce -----------------------------
(***************************************************************************)
(* What the execution engine promises for each idempotency key: its action *)
(* may be put off, is then performed at most once or called off, and what  *)
(* became of it is known and never changes.  The promise is made on the    *)
(* condition that what is done can be recorded: from the moment something  *)
(* cannot, an action that is not yet known to be done may be performed     *)
(* without that being known, and so more than once.                        *)
(***************************************************************************)
EXTENDS Naturals

CONSTANT Key

VARIABLES
  phase,     \* what is known of the action
  count,     \* how often it was performed
  recording  \* everything done so far could be recorded

Init ==
  /\ phase = [k \in Key |-> "open"]
  /\ count = [k \in Key |-> 0]
  /\ recording = TRUE

PutOff(k) ==
  /\ phase[k] = "open"
  /\ phase' = [phase EXCEPT ![k] = "waiting"]
  /\ UNCHANGED <<count, recording>>

CallOff(k) ==
  /\ phase[k] \in {"open", "waiting"}
  /\ phase' = [phase EXCEPT ![k] = "called_off"]
  /\ UNCHANGED <<count, recording>>

Perform(k) ==
  /\ phase[k] \in {"open", "waiting"}
  /\ phase' = [phase EXCEPT ![k] = "performed"]
  /\ count' = [count EXCEPT ![k] = @ + 1]
  /\ UNCHANGED recording

StopRecording ==
  /\ recording' = FALSE
  /\ UNCHANGED <<phase, count>>

PerformUnrecorded(k) ==
  /\ ~recording
  /\ phase[k] \in {"open", "waiting"}
  /\ count' = [count EXCEPT ![k] = @ + 1]
  /\ UNCHANGED <<phase, recording>>

Next ==
  \/ StopRecording
  \/ \E k \in Key : PutOff(k) \/ CallOff(k) \/ Perform(k) \/ PerformUnrecorded(k)

Spec == Init /\ [][Next]_<<phase, count, recording>>
=============================================================================
