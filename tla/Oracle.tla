------------------------------- MODULE Oracle -------------------------------
(***************************************************************************)
(* What an action achieves in the synthetic world (simulation/oracle): a   *)
(* row, drawn when the world is generated, says of one opportunity whether *)
(* and when each action would recover it and whether it recovers of        *)
(* itself.  Policies never see it; the simulated adapters ask it.          *)
(*                                                                         *)
(* A row has the fields                                                    *)
(*   natural   when the opportunity recovers of itself, or Never           *)
(*   response  [recovers, at, amount, timeout] for each action             *)
(*   fatigue   per cent of the amount left after so many contacts          *)
(***************************************************************************)
EXTENDS Integers, FiniteSets, FiniteSetsExt

CONSTANTS
  Horizon,   \* horizon_minutes
  Slowdown,  \* by which a degraded issuer delays an immediate retry
  Never      \* no time: greater than all

ASSUME OracleAssumption ==
  /\ Horizon \in Nat
  /\ Slowdown \in Nat
  /\ Never \in Nat

\* What the generator draws.
IsRow(row) ==
  /\ DOMAIN row.fatigue \subseteq Nat /\ IsFiniteSet(DOMAIN row.fatigue)
  /\ \A n \in DOMAIN row.fatigue : row.fatigue[n] \in 0 .. 100
  /\ \A a \in DOMAIN row.response : row.response[a].amount \in Nat

\* A curve may stop before the number of contacts: its last point counts on.
FatigueOf(row, contacts) ==
  LET known == DOMAIN row.fatigue
  IN  IF known = {} THEN 100
      ELSE IF contacts \in known THEN row.fatigue[contacts]
      ELSE IF contacts <= Min(known) THEN row.fatigue[Min(known)]
      ELSE row.fatigue[Max(known)]

Outcome(kind, class, adapter) ==
  [kind |-> kind, amount |-> 0, at |-> Never, within |-> TRUE, late |-> FALSE,
   class |-> class, adapter |-> adapter]

\* The answer when nothing is done.
LeftAlone(row, t, value) ==
  IF row.natural = Never THEN Outcome("NOT_RECOVERED", "NATURAL", "SUCCESS")
  ELSE [Outcome("NATURAL_RECOVERY", "NATURAL", "SUCCESS") EXCEPT
          !.amount = IF row.natural <= t + Horizon THEN value ELSE 0,
          !.at     = row.natural,
          !.within = row.natural <= t + Horizon,
          !.late   = row.natural > t + Horizon]

\* When the recovery would come.
RecoversAt(row, action, degraded) ==
  row.response[action].at + IF degraded /\ action = "retry" THEN Slowdown ELSE 0

\* What a tired customer pays of what is owed.
AmountOf(row, action, contacts, value) ==
  (Min({row.response[action].amount, value}) * FatigueOf(row, contacts)) \div 100

\* Mutant of IsWithin: the delay of a degraded issuer is left out.
IsWithinUndelayed(row, action, t, degraded) == row.response[action].at <= t + Horizon

IsWithin(row, action, t, degraded) == RecoversAt(row, action, degraded) <= t + Horizon

\* Natural recovery is looked at only for a recovery that came too late to count.
ClassOfRecovery(row, action, t, degraded) ==
  IF row.natural <= RecoversAt(row, action, degraded) /\ ~IsWithin(row, action, t, degraded)
  THEN "NATURAL" ELSE "ATTRIBUTED"

Recovery(row, action, t, contacts, value, degraded) ==
  LET amount == AmountOf(row, action, contacts, value)
      within == IsWithin(row, action, t, degraded)
  IN  [kind    |-> IF 0 < amount /\ amount < value THEN "PARTIALLY_RECOVERED" ELSE "RECOVERED",
       amount  |-> IF within THEN amount ELSE 0,
       at      |-> RecoversAt(row, action, degraded),
       within  |-> within,
       late    |-> ~within,
       class   |-> ClassOfRecovery(row, action, t, degraded),
       adapter |-> "SUCCESS"]

\* The customer still responds after so many contacts.
Responds(row, action, contacts) ==
  row.response[action].recovers /\ FatigueOf(row, contacts) > 15

\* resolve_outcome of an action at time t.
Resolve(row, action, t, contacts, value, degraded) ==
  IF action \notin DOMAIN row.response THEN Outcome("ACTION_FAILED", "AMBIGUOUS", "FAILED_TERMINAL")
  ELSE IF row.response[action].timeout THEN Outcome("ACTION_FAILED", "AMBIGUOUS", "TIMEOUT_UNKNOWN")
  ELSE IF ~Responds(row, action, contacts) THEN Outcome("NOT_RECOVERED", "ATTRIBUTED", "FAILED_TERMINAL")
  ELSE Recovery(row, action, t, contacts, value, degraded)
=============================================================================
