--------------------------- MODULE RecoveryCycle ---------------------------
(***************************************************************************)
(* The REVIVE cycles: product/trace.py and product/session.py, the policy  *)
(* "SESSION", which keep the delayed retries and settle them in a later    *)
(* cycle, and benchmark/official/revive_pipeline.py, the policy "REVIVE",  *)
(* which does not.                                                         *)
(*                                                                         *)
(* A cycle detects, plans, and then seals, authorizes, executes and        *)
(* measures the selected assignments one after the other.  Nothing else    *)
(* runs on the same state; an exception gives the whole session up.        *)
(***************************************************************************)
EXTENDS PipelineWorld

CONSTANTS
  Delays,   \* delay_minutes of A02: usual, and when the issuer is down
  AuthTTL   \* authorization_ttl_micros

ASSUME CycleAssumption == Delays \subseteq Nat \ {0} /\ AuthTTL \in Nat

VARIABLES
  now,      \* virtual time of the last cycle, or of the end of the session
  due,      \* retries taken off the pending list to be settled
  pending,  \* pending_scheduled
  at,       \* scheduled_at_micros of each retry
  held      \* the decisions whose ledger still has the sealed rows RESERVED

retryVars == <<due, pending, at>>
vars      == <<worldVars, now, retryVars, held>>

\* The pipeline settles delayed retries.
Settles == policy = "SESSION"

Init ==
  /\ WorldInit
  /\ now = 0
  /\ due = {} /\ pending = {} /\ held = {}
  /\ at = [k \in Key |-> 0]

Current(o) == <<o, cycle>>

\* The authorization of k was given in its cycle.
AuthorizationExpired(k) == now > TimeOf(k[2]) + AuthTTL

\* The call that would complete the retry k rejects it.
Refused(k) == AuthorizationExpired(k) \/ k \notin held

-----------------------------------------------------------------------------
(* Settlement of the delayed retries.                                      *)

\* Mutant of TakeDue: what is due stays on the list.
TakeDueKeeps(t) ==
  /\ due' = {k \in pending : at[k] <= t}
  /\ pending' = pending

TakeDue(t) ==
  /\ due' = {k \in pending : at[k] <= t}
  /\ pending' = pending \ due'

\* execute_authorization of a due retry.  One whose authorization has expired
\* is cancelled, and its rows stay as they are.
SettleRetry(k) ==
  /\ due' = due \ {k}
  /\ \/ /\ AuthorizationExpired(k)
        /\ Record(k, Unperformed("cancelled", "later", now))
        /\ UNCHANGED <<held, counts, mark, touches>>
     \/ /\ ~Refused(k)
        /\ Perform(k, "later", now)
        /\ held' = held \ {k}

Settle ==
  /\ phase \in {"settling", "closing"}
  /\ \E k \in due : SettleRetry(k)
  /\ UNCHANGED <<policy, row, cycle, phase, plan, contacts, now, pending, at>>

-----------------------------------------------------------------------------
(* A cycle.                                                                *)

BeginCycle ==
  /\ phase = "waiting" /\ cycle < MaxCycles
  /\ cycle' = cycle + 1
  /\ now' = TimeOf(cycle')
  /\ TakeDue(now')
  /\ phase' = "settling"
  /\ UNCHANGED <<policy, row, plan, contacts, storeVars, at, held>>

\* The sentinel goes by payments, invoices and sessions, and detects an
\* opportunity whatever its mark says.
DetectAndPlan ==
  /\ phase = "settling" /\ due = {}
  /\ \E f \in Plan : Fits(f) /\ Adopt(f)
  /\ UNCHANGED <<policy, row, cycle, storeVars, now, retryVars, held>>

\* The decision is sealed into a ledger of its own, and is not authorized.
Blocked(o) ==
  /\ held' = held \cup {Current(o)}
  /\ UNCHANGED <<storeVars, retryVars>>

\* Mutant of Postpone: the rows of a retry that waits are given back.
PostponeReleases(o) ==
  /\ plan[o] = "later"
  /\ Record(Current(o), Unperformed("scheduled", "later", now))
  /\ \E d \in Delays : at' = [at EXCEPT ![Current(o)] = now + d]
  /\ pending' = IF Settles THEN pending \cup {Current(o)} ELSE pending
  /\ UNCHANGED <<held, counts, mark, touches, due>>

\* A delayed retry is scheduled, and kept by the pipeline that settles.
Postpone(o) ==
  /\ plan[o] = "later"
  /\ Record(Current(o), Unperformed("scheduled", "later", now))
  /\ \E d \in Delays : at' = [at EXCEPT ![Current(o)] = now + d]
  /\ pending' = IF Settles THEN pending \cup {Current(o)} ELSE pending
  /\ held' = held \cup {Current(o)}
  /\ UNCHANGED <<counts, mark, touches, due>>

Act(o) ==
  /\ plan[o] # "later"
  /\ Perform(Current(o), plan[o], now)
  /\ UNCHANGED <<retryVars, held>>

Pursue(o) ==
  /\ phase = "acting" /\ plan[o] # "none"
  /\ Blocked(o) \/ Postpone(o) \/ Act(o)
  /\ Pursued(o)
  /\ UNCHANGED <<policy, row, cycle, phase, contacts, now>>

-----------------------------------------------------------------------------
(* The end of the session: virtual time goes on to the last retry.         *)

Latest(S) == CHOOSE k \in S : \A j \in S : at[j] <= at[k]

\* Mutant of LastInstant: virtual time goes on to the first retry.
LastInstantFirst == at[CHOOSE k \in pending : \A j \in pending : at[k] <= at[j]]

LastInstant == at[Latest(pending)]

CloseSession ==
  /\ phase = "waiting" /\ cycle = MaxCycles
  /\ IF pending = {} THEN UNCHANGED <<now, due, pending>>
                     ELSE now' = LastInstant /\ TakeDue(now')
  /\ phase' = "closing"
  /\ UNCHANGED <<policy, row, cycle, plan, contacts, storeVars, at, held>>

Done ==
  /\ phase = "closing" /\ due = {}
  /\ phase' = "done"
  /\ UNCHANGED <<policy, row, cycle, plan, contacts, storeVars, now, retryVars, held>>

Next ==
  \/ BeginCycle \/ Settle \/ DetectAndPlan
  \/ \E o \in Opportunity : Pursue(o)
  \/ EndCycle /\ UNCHANGED <<now, retryVars, held>>
  \/ CloseSession \/ Done

Spec == Init /\ [][Next]_vars

-----------------------------------------------------------------------------
(* The pipeline that settles loses no delayed retry and settles none       *)
(* twice: it waits for exactly those whose stored result is still a        *)
(* schedule (trace.py:212-245, 525-528), and each of them has its rows     *)
(* reserved, so that the call that completes it is not rejected for want   *)
(* of a reservation.                                                       *)
PendingIsKept ==
  /\ Settles => pending \cup due = {k \in Key : StageOf(k) = "scheduled"}
  /\ pending \cup due \subseteq held

(* When the session is handed out no retry is left unsettled               *)
(* (session.py:148-153).                                                   *)
SessionIsSettled ==
  Settles /\ phase = "done" => \A k \in Key : StageOf(k) # "scheduled"

(* A delayed retry that is settled was performed: PendingScheduledExecution*)
(* (trace.py:97-102) and settle_scheduled_executions ("the settled outcome *)
(* instead of a permanently SCHEDULED intervention").                      *)
SettledIsPerformed ==
  [][\A k \in Key : StageOf(k) = "scheduled" => StageOf(k)' # "cancelled"]_vars
=============================================================================
