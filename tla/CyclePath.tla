------------------------------ MODULE CyclePath ------------------------------
(***************************************************************************)
(* What a cycle makes of a world: the rows are observed, the losses are    *)
(* detected, each gets its context and goes along the decision path, and   *)
(* what was authorized is carried to the row of the world it is about      *)
(* (benchmark/official/revive_pipeline.py and baseline_pipeline.py,        *)
(* product/trace.py).  One world lives through several cycles.             *)
(*                                                                         *)
(* The opportunities of module DecisionPath, which that module takes as    *)
(* given, are decided on too: they stand for contexts no small world has.  *)
(***************************************************************************)
EXTENDS DecisionPath, Context

CONSTANTS
  Worlds,    \* [losses, attempts, cycles]: rows, and the times of the cycles
  MaxCycles  \* of one world

NoWorld == [losses |-> {}, attempts |-> <<>>, cycles |-> {}]

\* Attempts are listed in the order they are made, those on an order by its one
\* customer, a failed one for a loss.
IsWorld(w) ==
  /\ IsFiniteSet(w.losses)
  /\ w.attempts \in Seq(Attempt)
  /\ w.cycles \subseteq Nat
  /\ \A l \in w.losses : IsLoss(l)
  /\ \A l, m \in w.losses : l.id = m.id => l = m
  /\ \A i, j \in DOMAIN w.attempts :
       /\ i < j => w.attempts[i].at <= w.attempts[j].at
       /\ w.attempts[i].order = w.attempts[j].order => w.attempts[i].customer = w.attempts[j].customer
  /\ \A i \in DOMAIN w.attempts : w.attempts[i].status = "FAILED" =>
       \E l \in w.losses : /\ l.class = "PAYMENT_FAILURE" /\ l.id = w.attempts[i].order
                           /\ l.customer = w.attempts[i].customer
  /\ \A t \in w.cycles : t % 15 = 0 /\ t > 0

ASSUME WorldsAssumption == \A w \in Worlds : IsWorld(w)

VARIABLES
  world,    \* the rows, all but those of the opportunities
  rows,     \* the rows of the opportunities, which executions change
  now,      \* the time of the cycle
  cycles,   \* how many there were
  view,     \* what the cycle observes
  cache,    \* the indexes over it
  found,    \* what was detected
  todo,     \* what of it is still to be decided on
  subject   \* what is being decided on

cycleVars == <<world, rows, now, cycles, view, cache, found, todo, subject>>

Nothing == [key |-> <<>>]

Locals == <<action, enrv, context, approval, answer, asked>>

\* An opportunity that is given, with no world around it.
Given ==
  /\ Init
  /\ world = NoWorld
  /\ rows = {}

\* A world of which nothing was detected yet.  What the path starts from until
\* then is not looked at.
Observed ==
  /\ world \in Worlds
  /\ rows = {OpportunityOf(l) : l \in world.losses}
  /\ opp = [class |-> "CHECKOUT_ABANDONMENT", evidence |-> "MISSING", signs |-> {"NOT_ADDRESSABLE"},
            value |-> "NONE", hours |-> 0]
  /\ by \in {"REVIVE", "BASELINE"}
  /\ stage = "ended" /\ action = "A00" /\ enrv = "ZERO" /\ context = {}
  /\ approval = "NONE" /\ answer = "NONE" /\ asked = FALSE

CycleInit ==
  /\ Given \/ Observed
  /\ now = 0 /\ cycles = 0
  /\ view = View({}, <<>>, {})
  /\ cache = CacheOf(view, 0)
  /\ found = {} /\ todo = {} /\ subject = Nothing

\* A cycle observes the world once, before it decides on anything.  A baseline
\* pursues rows of the world, and which of them is left to LeaveAlone.
BeginCycle ==
  /\ stage = "ended" /\ subject = Nothing /\ todo = {}
  /\ cycles < MaxCycles
  /\ cycles' = cycles + 1
  /\ now' \in {t \in world.cycles : t > now}
  /\ view' = View(world.losses, world.attempts, rows)
  /\ cache' = CacheOf(view', now')
  /\ found' = Detect(view', now')
  /\ todo' = IF by = "REVIVE" THEN found' ELSE PursuedByBaselines(found', view')
  /\ UNCHANGED <<world, rows, subject, vars>>

\* REVIVE hands the cache of its cycle to the assembly, the baselines none.
TakeUp ==
  /\ stage = "ended" /\ subject = Nothing
  /\ \E d \in todo :
       /\ subject' = d
       /\ todo' = todo \ {d}
       /\ opp' = Assembled(d, IF by = "REVIVE" THEN CachedReads(d, cache)
                              ELSE DirectReads(d, view, now), view, now)
  /\ stage' = "detected"
  /\ UNCHANGED <<world, rows, now, cycles, view, cache, found, by, Locals>>

Decide == Next /\ UNCHANGED cycleVars

\* The actions after which a row has one contact more: A03, a link, is not
\* among them.
Touches == {"A04", "A05", "A06", "A07", "A08", "A09", "A11"}

Touched(rs) ==
  {IF r \in rs /\ action \in Touches THEN [r EXCEPT !.contacts = @ + 1] ELSE r : r \in rows}

\* The subject is done with: what was authorized is executed on the row that
\* has its key in the view.  Where there is none nothing is done at all: REVIVE
\* looks for it before it authorizes, which is of no consequence here.
Carry ==
  /\ stage \in {"answered", "ended"} /\ subject # Nothing
  /\ rows' = IF answer = "AUTHORIZED"
             THEN Touched({r \in rows : \E o \in RowsOf(subject, view) : o.id = r.id})
             ELSE rows
  /\ subject' = Nothing
  /\ stage' = "ended" /\ action' = "A00" /\ enrv' = "ZERO" /\ context' = {}
  /\ approval' = "NONE" /\ answer' = "NONE" /\ asked' = FALSE
  /\ UNCHANGED <<world, now, cycles, view, cache, found, todo, opp, by>>

CycleNext == BeginCycle \/ TakeUp \/ Decide \/ Carry

CycleSpec == CycleInit /\ [][CycleNext]_<<vars, cycleVars>>

-----------------------------------------------------------------------------
JustTakenUp == stage = "detected" /\ subject # Nothing

\* What of a view has happened at a time.  Subscriptions and mandates are
\* standing arrangements, whose dates may lie ahead.
Past(v, t) ==
  [v EXCEPT !.transactions  = RestrictValues(v.transactions, LAMBDA x : x.at <= t),
            !.sessions      = {s \in v.sessions : s.abandoned <= t},
            !.invoices      = {i \in v.invoices : i.due <= t},
            !.opportunities = {o \in v.opportunities : o.first <= t}]

\* A view holds the rows of the whole simulation from the start, those that lie
\* ahead included.  What is detected, and the context it is decided by, is the
\* same as if they were not there: each of some fifteen readers must leave
\* them out for itself.
NoForesight ==
  JustTakenUp =>
    LET past == Past(view, now)
    IN  /\ subject \in Detect(past, now)
        /\ opp = Assembled(subject, DirectReads(subject, past, now), past, now)

\* The cache of the cycle, that REVIVE decides by in the benchmark and in the
\* product session, holds what the rows of the view say, that the pipeline of the
\* baselines decides by: both are given the same context for an opportunity.
CachedIsUncached ==
  JustTakenUp => CachedReads(subject, cache) = DirectReads(subject, view, now)

\* What is detected and what the world has a row for are two enumerations of
\* the same losses: whatever is handed to the decision path is of a kind it
\* takes, and is about exactly one row of its class and customer, so that what
\* is decided can be carried out and measured.  Only an anonymous checkout has
\* none, and that is never addressable.
HandedOnFaithfully ==
  JustTakenUp =>
    /\ IsOpportunity(opp)
    /\ \/ \E o \in view.opportunities :
            /\ RowsOf(subject, view) = {o}
            /\ o.class = subject.class /\ o.customer = subject.customer
       \/ /\ RowsOf(subject, view) = {}
          /\ subject.customer = Anonymous /\ subject.hindrance # "NONE"

\* An order that was paid after its last failed attempt is left alone: the
\* attempts are folded in the order of the list, and it is the value of what is
\* known so far that a settlement takes.
SettledIsLeftAlone ==
  by = "REVIVE" /\ stage \in {"selected", "reviewed", "answered"} /\ subject # Nothing =>
    LET tried == RestrictValues(view.transactions,
                                LAMBDA t : t.order = subject.ref /\ t.at <= now)
    IN  subject.class = "PAYMENT_FAILURE" => tried[Max(DOMAIN tried)].status \notin Settlements

\* Once the window of a loss is over it stays so: the first detection of a key,
\* which the window is counted from, is worked out anew in every cycle, and a
\* later attempt on the order must not move it.
ExpiredForGood ==
  [][\A d \in found, e \in found' :
       d.key = e.key /\ d.hindrance = "WINDOW_EXPIRED" => e.hindrance # "NONE"]_found
=============================================================================
