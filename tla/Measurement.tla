---------------------------- MODULE Measurement ----------------------------
(***************************************************************************)
(* The measurement of one execution (measurement/measure.py,               *)
(* attribution.py): the money that came back is put down under one class   *)
(* of attribution, and compared with its cost and with what doing nothing  *)
(* would have brought.                                                     *)
(*                                                                         *)
(* An execution is a record [stage, realized, cost]; realized is an        *)
(* outcome of module Oracle, or NoOutcome for one that was not performed.  *)
(***************************************************************************)
EXTENDS Integers

NoOutcome == [kind |-> "none"]

Split(gross, class) ==
  [gross      |-> gross,
   attributed |-> IF class = "ATTRIBUTED" THEN gross ELSE 0,
   natural    |-> IF class = "NATURAL" THEN gross ELSE 0,
   ambiguous  |-> IF class = "AMBIGUOUS" THEN gross ELSE 0]

EmptySplit == Split(0, "none")

\* A recovery that is late is worth nothing, and so is one of an opportunity
\* whose recovery was counted before.
SplitRecovery(execution, counted) ==
  LET realized == execution.realized
  IN  IF execution.stage \in {"cancelled", "scheduled"} \/ realized = NoOutcome THEN EmptySplit
      ELSE IF realized.amount <= 0 \/ ~realized.within \/ realized.late THEN EmptySplit
      ELSE IF counted THEN EmptySplit
      ELSE Split(realized.amount, realized.class)

AtLeastZero(x) == IF x < 0 THEN 0 ELSE x

\* measure_execution; noAction is what the oracle says of doing nothing.
Measure(execution, counted, value, noAction) ==
  LET split == SplitRecovery(execution, counted)
  IN  [split     |-> split,
       cost      |-> execution.cost,
       net       |-> split.attributed - execution.cost,
       beyond    |-> AtLeastZero(split.gross - noAction.amount),
       remaining |-> AtLeastZero(value - split.gross)]

Unmeasured == [split |-> EmptySplit, cost |-> 0, net |-> 0, beyond |-> 0, remaining |-> 0]
=============================================================================
