---------------------------- MODULE ControlRoom ----------------------------
(***************************************************************************)
(* The sandbox server, product/server.py: a ThreadingHTTPServer whose      *)
(* handlers share module globals without a lock.                           *)
(*                                                                         *)
(* A step of a thread goes up to the next call that takes long or may be   *)
(* switched away from: building a session, projecting it, asking for a     *)
(* diagnosis.  A world is known by its seed.  0 stands for DEMO_SEED, and  *)
(* n for the seed of the n-th run that gives none.  The opportunities of   *)
(* two worlds have different ids, so one opportunity for each world is     *)
(* enough, and it is named by its world.                                   *)
(***************************************************************************)
EXTENDS Intelligence, FiniteSets

CONSTANTS
  Thread,
  Given,      \* the seeds that requests give: worlds, or Invalid
  Invalid,
  NoWorld,
  EventCap,   \* _AI_EVENTS is cut to its last 50
  MaxRetries, \* of a call of the model
  TraceOf,    \* what the session of each world has of its opportunity
  Replies,    \* what a call of the model may come to
  MaxRuns     \* bound on the runs asked for

World == 0 .. MaxRuns

ASSUME ControlRoomAssumption ==
  /\ MaxRuns \in Nat
  /\ EventCap \in Nat \ {0}
  /\ NoWorld \notin Nat /\ Invalid \notin Nat /\ Invalid # NoWorld
  /\ Given \subseteq World \cup {Invalid}
  /\ MaxRetries \in Nat
  /\ \A w \in World : IsTrace(TraceOf[w]) /\ TraceOf[w].id = w
  /\ \A r \in Replies : IF r.kind = "answer" THEN IsPayload(r.payload)
                        ELSE r.kind \in {"failed", "refused", "broken"}

VARIABLES
  session,   \* _SESSION
  snapshot,  \* _SNAPSHOT
  runCount,  \* _RUN_COUNT
  keyed,     \* the model is configured
  cache,     \* _AI_CACHE: the diagnosis of each world's opportunity
  lastStatus,\* _LAST_AI_STATUS
  events,    \* length of _AI_EVENTS
  pc,        \* what each thread is at
  subject,   \* the world or seed its request is about; NoWorld if none
  tries,     \* the calls of the model that have failed
  overlapped \* history: two requests have been handled at the same time

overlay == <<cache, lastStatus, events>>
globals == <<session, snapshot, runCount, keyed, overlay>>
vars    == <<globals, pc, subject, tries, overlapped>>

NoDiagnosis == [status |-> "none"]

Running == {"rebuilding", "reprojecting", "replying"}
Step == Running \cup {"idle", "building", "projecting", "reading", "seeding",
                      "looking", "asking", "trimming"}

TypeOK ==
  /\ session \in World \cup {NoWorld}
  /\ snapshot \in World \cup {NoWorld}
  /\ runCount \in 0 .. MaxRuns
  /\ keyed \in BOOLEAN
  /\ \A w \in World : cache[w].status \in Statuses
  /\ lastStatus \in Statuses
  /\ events \in 0 .. (EventCap + Cardinality(Thread))
  /\ pc \in [Thread -> Step]
  /\ subject \in [Thread -> World \cup {NoWorld, Invalid}]
  /\ tries \in [Thread -> 0 .. MaxRetries]
  /\ overlapped \in BOOLEAN

Init ==
  /\ session = NoWorld /\ snapshot = NoWorld
  /\ runCount = 0
  /\ keyed \in BOOLEAN
  /\ cache = [w \in World |-> NoDiagnosis] /\ lastStatus = "none"
  /\ events = 0
  /\ pc = [t \in Thread |-> "idle"]
  /\ subject = [t \in Thread |-> NoWorld]
  /\ tries = [t \in Thread |-> 0]
  /\ overlapped = FALSE

Goto(t, s)  == pc' = [pc EXCEPT ![t] = s]
About(t, w) == subject' = [subject EXCEPT ![t] = w]
Finish(t)   == Goto(t, "idle") /\ About(t, NoWorld)

-----------------------------------------------------------------------------
(* _session and _snapshot, which every handler starts with: a GET, or the  *)
(* POST that asks for the diagnosis of an opportunity.                     *)

Request(t, w) ==
  /\ pc[t] = "idle"
  /\ Goto(t, IF session = NoWorld THEN "building" ELSE "reading")
  /\ About(t, w)
  /\ UNCHANGED <<globals, tries>>

Build(t) ==
  /\ pc[t] = "building"
  /\ session' = 0
  /\ Goto(t, "projecting")
  /\ UNCHANGED <<snapshot, runCount, keyed, overlay, subject, tries>>

Project(t) ==
  /\ pc[t] = "projecting"
  /\ snapshot' = 0
  /\ Goto(t, "reading")
  /\ UNCHANGED <<session, runCount, keyed, overlay, subject, tries>>

\* assert _SNAPSHOT is not None.  An opportunity of another world is unknown.
Read(t) ==
  /\ pc[t] = "reading"
  /\ IF snapshot # NoWorld /\ subject[t] = snapshot
     THEN Goto(t, "looking") /\ UNCHANGED subject
     ELSE Finish(t)
  /\ UNCHANGED <<globals, tries>>

-----------------------------------------------------------------------------
(* _recovery_run.                                                          *)

\* Mutant of Press: the diagnoses are kept until the world has changed.
PressKeeps(t, w) ==
  /\ pc[t] = "idle"
  /\ runCount < MaxRuns
  /\ runCount' = runCount + 1
  /\ Goto(t, "seeding") /\ About(t, w)
  /\ UNCHANGED <<session, snapshot, keyed, overlay, tries>>

ClearDiagnoses ==
  /\ cache' = [w \in World |-> NoDiagnosis] /\ lastStatus' = "none"
  /\ events' = 0

Press(t, w) ==
  /\ pc[t] = "idle"
  /\ runCount < MaxRuns
  /\ runCount' = runCount + 1
  /\ ClearDiagnoses
  /\ Goto(t, "seeding") /\ About(t, w)
  /\ UNCHANGED <<session, snapshot, keyed, tries>>

DefaultSeed == runCount

\* A seed that is no integer or out of range is answered with 400.
Seed(t) ==
  /\ pc[t] = "seeding"
  /\ IF subject[t] = Invalid THEN Finish(t)
     ELSE /\ Goto(t, "rebuilding")
          /\ About(t, IF subject[t] = NoWorld THEN DefaultSeed ELSE subject[t])
  /\ UNCHANGED <<globals, tries>>

Rebuild(t) ==
  /\ pc[t] = "rebuilding"
  /\ session' = subject[t]
  /\ Goto(t, "reprojecting")
  /\ UNCHANGED <<snapshot, runCount, keyed, overlay, subject, tries>>

\* Mutant of Reproject: the snapshot is taken only the first time.
ReprojectOnce(t) ==
  /\ pc[t] = "reprojecting"
  /\ snapshot' = IF snapshot = NoWorld THEN subject[t] ELSE snapshot
  /\ Goto(t, "replying")
  /\ UNCHANGED <<session, runCount, keyed, overlay, subject, tries>>

Reproject(t) ==
  /\ pc[t] = "reprojecting"
  /\ snapshot' = subject[t]
  /\ Goto(t, "replying")
  /\ UNCHANGED <<session, runCount, keyed, overlay, subject, tries>>

Reply(t) ==
  /\ pc[t] = "replying"
  /\ Finish(t)
  /\ UNCHANGED <<globals, tries>>

-----------------------------------------------------------------------------
(* _ai_diagnosis_for.                                                      *)

Diagnosed == {w \in World : cache[w].status # "none"}

\* A cached diagnosis is the answer.  The trace is looked for in the session.
Look(t) ==
  /\ pc[t] = "looking"
  /\ IF subject[t] \notin Diagnosed /\ session = subject[t]
     THEN Goto(t, "asking") /\ UNCHANGED subject
     ELSE Finish(t)
  /\ UNCHANGED <<globals, tries>>

Asks(t) == pc[t] = "asking" /\ keyed

\* The call fails, with a timeout or an answer that is no JSON object, and is
\* made again.
Retry(t) ==
  /\ Asks(t) /\ tries[t] < MaxRetries
  /\ \E r \in Replies : r.kind = "failed"
  /\ tries' = [tries EXCEPT ![t] = @ + 1]
  /\ UNCHANGED <<globals, pc, subject>>

\* The connection breaks in a way that nothing expects: the request ends.
BreakOff(t) ==
  /\ Asks(t)
  /\ \E r \in Replies : r.kind = "broken"
  /\ tries' = [tries EXCEPT ![t] = 0]
  /\ Finish(t)
  /\ UNCHANGED globals

\* What diagnose_opportunity may return now: without a model, after an answer,
\* after one that cannot be decoded, or after the last call has failed.
Concluded(t) ==
  LET trace == TraceOf[subject[t]]
  IN  IF ~keyed THEN {Fallback(trace, "DETERMINISTIC_FALLBACK")}
      ELSE {Judged(trace, r.payload) : r \in {x \in Replies : x.kind = "answer"}}
             \cup {Fallback(trace, "AI_UNAVAILABLE") :
                     r \in {x \in Replies : \/ x.kind = "refused"
                                            \/ x.kind = "failed" /\ tries[t] = MaxRetries}}

Conclude(t) ==
  /\ pc[t] = "asking"
  /\ \E diagnosis \in Concluded(t) :
       /\ cache' = [cache EXCEPT ![subject[t]] = diagnosis]
       /\ lastStatus' = diagnosis.status
  /\ events' = events + 1
  /\ tries' = [tries EXCEPT ![t] = 0]
  /\ Goto(t, "trimming")
  /\ UNCHANGED <<session, snapshot, runCount, keyed, subject>>

Trimmed == IF events > EventCap THEN EventCap ELSE events

Trim(t) ==
  /\ pc[t] = "trimming"
  /\ events' = Trimmed
  /\ Finish(t)
  /\ UNCHANGED <<session, snapshot, runCount, keyed, cache, lastStatus, tries>>

\* A thread takes up a request, beside the others or not.
Accepted(t) == overlapped' = (overlapped \/ \E u \in Thread \ {t} : pc[u] # "idle")

Next ==
  \E t \in Thread :
    \/ /\ \/ Build(t) \/ Project(t) \/ Read(t)
          \/ Seed(t) \/ Rebuild(t) \/ Reproject(t) \/ Reply(t)
          \/ Look(t) \/ Retry(t) \/ BreakOff(t) \/ Conclude(t) \/ Trim(t)
       /\ UNCHANGED overlapped
    \/ \E w \in World \cup {NoWorld} : Request(t, w) /\ Accepted(t)
    \/ \E w \in Given \cup {NoWorld} : Press(t, w) /\ Accepted(t)

Spec == Init /\ [][Next]_vars

-----------------------------------------------------------------------------
AloneAndQuiet == ~overlapped /\ \A t \in Thread : pc[t] = "idle"

(* As long as no two requests overlap, the snapshot that is served between *)
(* them is the projection of the session that diagnoses are made on:       *)
(* _recovery_run "rebuilds the deterministic world" and "re-projects the   *)
(* snapshot" (server.py:142-148).                                          *)
SnapshotIsOfSession == AloneAndQuiet => snapshot = session

(* A diagnosis that is cached is supported by what the engine knows of its *)
(* opportunity, however requests, retries and runs have overlapped.  And   *)
(* as long as no two requests overlap, the diagnoses are of the session,   *)
(* being "cleared on POST /api/recovery-run", and what is told of them is  *)
(* true (implementation/ai-substance/contract.md:12-30).                   *)
DiagnosesAreSupported ==
  /\ \A w \in Diagnosed : IsSupported(TraceOf[w], cache[w])
  /\ AloneAndQuiet => /\ Diagnosed \subseteq {session}
                      /\ events = Cardinality(Diagnosed)
                      /\ \A w \in Diagnosed : lastStatus = cache[w].status

(* assert _SNAPSHOT is not None (server.py:97), when a request that found  *)
(* the session built reads the snapshot.                                   *)
SnapshotExists == \A t \in Thread : pc[t] = "reading" => snapshot # NoWorld
=============================================================================
