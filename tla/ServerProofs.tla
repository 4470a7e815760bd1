---------------------------- MODULE ServerProofs ----------------------------
(***************************************************************************)
(* Theorems about EvidenceServer, the handlers of the session and those of *)
(* the evidence, for every value of its constants.                         *)
(***************************************************************************)
EXTENDS EvidenceServer, FiniteSetTheorems, TLAPS

USE ControlRoomAssumption

-----------------------------------------------------------------------------
(* A diagnosis is supported, whatever the model answers.                   *)

LEMMA TakeIsOf ==
  ASSUME NEW S, NEW s \in Seq(S), NEW n \in Nat
  PROVE  /\ DOMAIN Take(s, n) \subseteq DOMAIN s
         /\ \A i \in DOMAIN Take(s, n) : Take(s, n)[i] = s[i]
         /\ ToSet(Take(s, n)) \subseteq ToSet(s)
         /\ ToSet(s) \subseteq S
<1>1. PICK m \in 0 .. Len(s) : Take(s, n) = SubSeq(s, 1, m)
  BY DEF Take
<1>2. /\ DOMAIN Take(s, n) = 1 .. m
      /\ \A i \in 1 .. m : Take(s, n)[i] = s[i]
  BY <1>1
<1>3. DOMAIN s = 1 .. Len(s) /\ \A i \in DOMAIN s : s[i] \in S
  OBVIOUS
<1> QED BY <1>2, <1>3 DEF ToSet

LEMMA OwnIsSupported ==
  ASSUME NEW trace, IsTrace(trace), NEW status
  PROVE  IsSupported(trace, Fallback(trace, status))
<1> USE IntelligenceAssumption
<1> DEFINE p == OwnDiagnosis(trace)
<1>1. p.id = trace.id
  BY DEF OwnDiagnosis
<1>2. /\ p.cause \in Cause
      /\ trace.causes # <<>> => p.cause = trace.causes[1]
  BY DEF OwnDiagnosis, IsTrace
<1>3. ToSet(Take(trace.candidates, CandidatesShown)) \subseteq ToSet(trace.candidates)
      /\ ToSet(trace.candidates) \subseteq Action
  BY TakeIsOf DEF IsTrace
<1>4. p.candidates \subseteq Action /\ p.candidates \subseteq ToSet(trace.candidates) \ {NoAction}
  BY <1>3 DEF OwnDiagnosis
<1>5. ToSet(Take(trace.evidence, FactsShown)) \subseteq ToSet(trace.evidence)
  BY TakeIsOf DEF IsTrace
<1>6. \A c \in p.observed : \E f \in c : f \in ToSet(trace.evidence) \cup trace.context
  BY <1>5 DEF OwnDiagnosis
<1>7. Fallback(trace, status).proposal = p
  BY DEF Fallback
<1> HIDE DEF p
<1> QED BY <1>1, <1>2, <1>4, <1>6, <1>7 DEF IsSupported

LEMMA AcceptedIsSupported ==
  ASSUME NEW trace, IsTrace(trace), NEW said, IsPayload(said), IsAccepted(trace, said)
  PROVE  IsSupported(trace, [status |-> "AI_COMPLETED", proposal |-> Parsed(trace, said)])
<1> DEFINE p == Parsed(trace, said)
<1>1. p.id = trace.id /\ p.cause \in Cause
  BY DEF Parsed, IsAccepted
<1>2. p.candidates \subseteq Action
  BY DEF Parsed, IsAccepted
<1>3. \A c \in p.observed : IsGrounded(trace, c)
  BY DEF Parsed
<1>4. \A c \in p.observed : \E f \in c : f \in ToSet(trace.evidence) \cup trace.context
  BY <1>3 DEF IsGrounded
<1> DEFINE d == [status |-> "AI_COMPLETED", proposal |-> p]
<1>5. d.status = "AI_COMPLETED" /\ d.proposal = p
  OBVIOUS
<1> HIDE DEF p, d
<1>6. IsSupported(trace, d)
  BY <1>1, <1>2, <1>4, <1>5 DEF IsSupported
<1> QED BY <1>6 DEF p, d

LEMMA JudgedIsSupported ==
  ASSUME NEW trace, IsTrace(trace), NEW said, IsPayload(said)
  PROVE  IsSupported(trace, Judged(trace, said))
<1>1. CASE IsAccepted(trace, said)
  BY <1>1, AcceptedIsSupported DEF Judged
<1>2. CASE ~IsAccepted(trace, said)
  BY <1>2, OwnIsSupported DEF Judged, Fallback
<1> QED BY <1>1, <1>2

LEMMA ConclusionIsSupported ==
  ASSUME NEW t \in Thread, subject[t] \in World, NEW diagnosis \in Concluded(t)
  PROVE  /\ IsSupported(TraceOf[subject[t]], diagnosis)
         /\ diagnosis.status # "none"
<1>1. IsTrace(TraceOf[subject[t]])
  OBVIOUS
<1>2. PICK trace : trace = TraceOf[subject[t]]
  OBVIOUS
<1>3. \/ diagnosis = Fallback(trace, "DETERMINISTIC_FALLBACK")
      \/ diagnosis = Fallback(trace, "AI_UNAVAILABLE")
      \/ \E r \in Replies : r.kind = "answer" /\ diagnosis = Judged(trace, r.payload)
  BY <1>2 DEF Concluded
<1>4. IsSupported(trace, diagnosis)
  BY <1>1, <1>2, <1>3, OwnIsSupported, JudgedIsSupported
<1>5. diagnosis.status # "none"
  BY <1>3 DEF Fallback, Judged
<1> QED BY <1>2, <1>4, <1>5

-----------------------------------------------------------------------------
(* The session.                                                            *)

\* The types of what the handlers of the session share, and of what a request is
\* about at each of its steps.
SessionTypeOK ==
  /\ session \in World \cup {NoWorld} /\ snapshot \in World \cup {NoWorld}
  /\ runCount \in 0 .. MaxRuns /\ events \in Nat /\ overlapped \in BOOLEAN
  /\ cache = [w \in World |-> cache[w]]
  /\ pc \in [Thread -> Step]
  /\ subject \in [Thread -> World \cup {NoWorld, Invalid}]
  /\ \A t \in Thread :
       pc[t] \in {"rebuilding", "reprojecting", "looking", "asking", "trimming"} => subject[t] \in World

Supported == \A w \in Diagnosed : IsSupported(TraceOf[w], cache[w])

\* While no two requests have overlapped: the snapshot is of the session but
\* between the two assignments, and the diagnoses are of the session.
Shown == \/ \E t \in Thread : pc[t] \in {"projecting", "reprojecting"}
         \/ snapshot = session

Kept ==
  /\ Diagnosed \subseteq {session}
  /\ events = Cardinality(Diagnosed)
  /\ \A w \in Diagnosed : lastStatus = cache[w].status

IsAt(t) ==
  /\ pc[t] = "building" => session = NoWorld
  /\ pc[t] = "projecting" => session = 0
  /\ pc[t] \in {"reprojecting", "looking", "asking"} => session = subject[t]
  /\ pc[t] \in {"seeding", "rebuilding", "asking"} => Diagnosed = {}

Orderly ==
  /\ \A t, u \in Thread : pc[t] # "idle" /\ pc[u] # "idle" => t = u
  /\ Shown /\ Kept
  /\ \A t \in Thread : IsAt(t)

SessionInv == SessionTypeOK /\ Supported /\ (~overlapped => Orderly)

Quiet(t) == \A u \in Thread \ {t} : pc[u] = "idle"

LEMMA SessionInit == Init => SessionInv
<1> SUFFICES ASSUME Init
             PROVE  SessionInv
  OBVIOUS
<1>1. SessionTypeOK
  <2>1. 0 \in World /\ 0 \in 0 .. MaxRuns
    BY DEF World
  <2>2. cache = [w \in World |-> cache[w]]
    BY DEF Init
  <2>3. pc \in [Thread -> Step] /\ \A t \in Thread : pc[t] = "idle"
    BY DEF Init, Step
  <2>4. subject \in [Thread -> World \cup {NoWorld, Invalid}]
    BY DEF Init
  <2> QED BY <2>1, <2>2, <2>3, <2>4 DEF Init, SessionTypeOK
<1>2. Diagnosed = {}
  BY DEF Init, Diagnosed, NoDiagnosis
<1>3. Orderly
  BY <1>2, FS_EmptySet DEF Init, Orderly, Shown, Kept, IsAt
<1> QED BY <1>1, <1>2, <1>3 DEF SessionInv, Supported

\* What a step of t does to the steps and subjects of the others: nothing.
Steps(t, s, w) ==
  /\ pc' = [pc EXCEPT ![t] = s] /\ subject' = [subject EXCEPT ![t] = w]

LEMMA OrderlyStep ==
  ASSUME NEW t \in Thread, SessionTypeOK, Quiet(t), NEW s \in Step, NEW w,
         Steps(t, s, w), Kept', IsAt(t)', s \in {"projecting", "reprojecting"} \/ snapshot' = session'
  PROVE  Orderly'
<1>1. pc'[t] = s /\ \A u \in Thread \ {t} : pc'[u] = "idle"
  BY DEF Steps, SessionTypeOK, Quiet
<1>2. Shown'
  BY <1>1 DEF Shown
<1>3. \A u \in Thread \ {t} : IsAt(u)'
  BY <1>1 DEF IsAt
<1> QED BY <1>1, <1>2, <1>3 DEF Orderly

LEMMA SessionTypeStep ==
  ASSUME SessionTypeOK, NEW t \in Thread, NEW s \in Step, NEW w \in World \cup {NoWorld, Invalid},
         Steps(t, s, w), overlapped' \in BOOLEAN,
         s \in {"rebuilding", "reprojecting", "looking", "asking", "trimming"} => w \in World,
         session' \in World \cup {NoWorld}, snapshot' \in World \cup {NoWorld},
         runCount' \in 0 .. MaxRuns, events' \in Nat, cache' = [v \in World |-> cache'[v]]
  PROVE  SessionTypeOK'
BY DEF SessionTypeOK, Steps

LEMMA KeptIdle ==
  ASSUME UNCHANGED <<session, cache, events, lastStatus>>
  PROVE  /\ Diagnosed' = Diagnosed
         /\ Kept => Kept'
         /\ Supported => Supported'
BY DEF Diagnosed, Kept, Supported

\* The steps of a request that leave the globals alone.
LEMMA ControlStep ==
  ASSUME SessionInv, NEW t \in Thread, UNCHANGED globals,
         \/ /\ \/ Read(t) \/ Seed(t) \/ Reply(t) \/ Look(t) \/ Retry(t) \/ BreakOff(t)
            /\ UNCHANGED overlapped
         \/ \E w \in World \cup {NoWorld} : Request(t, w) /\ Accepted(t)
  PROVE  SessionInv'
<1> USE DEF SessionInv
<1>0. /\ UNCHANGED <<session, snapshot, runCount, cache, events, lastStatus>>
      /\ overlapped' \in BOOLEAN /\ (~overlapped' => ~overlapped)
      /\ pc[t] \in Step /\ subject[t] \in World \cup {NoWorld, Invalid}
      /\ SessionTypeOK
  BY DEF globals, overlay, Accepted, SessionTypeOK
<1>1. ~overlapped' => Quiet(t)
  BY <1>0 DEF Orderly, Quiet, Accepted, Read, Seed, Reply, Look, Retry, BreakOff, Asks
<1>2. PICK s \in Step, w \in World \cup {NoWorld, Invalid} :
        /\ Steps(t, s, w)
        /\ s \notin {"projecting", "reprojecting"}
        /\ s \in {"rebuilding", "looking", "asking", "trimming"} => w \in World
        /\ s = "building" => session = NoWorld
        /\ s = "looking" => w = snapshot
        /\ s = "rebuilding" => pc[t] = "seeding"
        /\ s = "seeding" => FALSE
        /\ s = "asking" => (w \notin Diagnosed /\ w = session) \/ (pc[t] = "asking" /\ w = subject[t])
  <2>1. CASE \E w \in World \cup {NoWorld} : Request(t, w)
    <3>1. PICK w \in World \cup {NoWorld} : Request(t, w)
      BY <2>1
    <3>2. CASE session = NoWorld
      <4>1. Steps(t, "building", w)
        BY <3>1, <3>2 DEF Request, Goto, About, Steps
      <4> QED BY <3>2, <4>1 DEF Step
    <3>3. CASE session # NoWorld
      <4>1. Steps(t, "reading", w)
        BY <3>1, <3>3 DEF Request, Goto, About, Steps
      <4> QED BY <4>1 DEF Step
    <3> QED BY <3>2, <3>3
  <2>2. CASE Steps(t, "idle", NoWorld)
    BY <2>2 DEF Step
  <2>3. CASE Steps(t, pc[t], subject[t]) /\ pc[t] = "asking"
    BY <1>0, <2>3 DEF SessionTypeOK
  <2>4. CASE Read(t)
    <3>1. CASE snapshot # NoWorld /\ subject[t] = snapshot
      <4>1. Steps(t, "looking", snapshot) /\ snapshot \in World
        BY <1>0, <2>4, <3>1 DEF Read, Goto, Steps, SessionTypeOK
      <4> QED BY <4>1 DEF Step
    <3>2. CASE ~(snapshot # NoWorld /\ subject[t] = snapshot)
      BY <2>2, <2>4, <3>2 DEF Read, Finish, Goto, About, Steps
    <3> QED BY <3>1, <3>2
  <2>5. CASE Seed(t)
    <3>1. CASE subject[t] = Invalid
      BY <2>2, <2>5, <3>1 DEF Seed, Finish, Goto, About, Steps
    <3>2. CASE subject[t] # Invalid
      <4>1. PICK w \in World : Steps(t, "rebuilding", w)
        BY <1>0, <2>5, <3>2 DEF Seed, Goto, About, Steps, DefaultSeed, SessionTypeOK, World
      <4> QED BY <2>5, <4>1 DEF Seed, Step, Running
    <3> QED BY <3>1, <3>2
  <2>6. CASE Look(t)
    <3>1. CASE subject[t] \notin Diagnosed /\ session = subject[t]
      <4>1. Steps(t, "asking", subject[t]) /\ subject[t] \in World
        BY <1>0, <2>6, <3>1 DEF Look, Goto, Steps, SessionTypeOK
      <4> QED BY <3>1, <4>1 DEF Step
    <3>2. CASE ~(subject[t] \notin Diagnosed /\ session = subject[t])
      BY <2>2, <2>6, <3>2 DEF Look, Finish, Goto, About, Steps
    <3> QED BY <3>1, <3>2
  <2>7. CASE Reply(t) \/ BreakOff(t)
    BY <2>2, <2>7 DEF Reply, BreakOff, Finish, Goto, About, Steps
  <2>8. CASE Retry(t)
    BY <1>0, <2>3, <2>8 DEF Retry, Asks, Steps, SessionTypeOK
  <2> QED BY <2>1, <2>4, <2>5, <2>6, <2>7, <2>8
<1>3. SessionTypeOK'
  <2>1. /\ session' \in World \cup {NoWorld} /\ snapshot' \in World \cup {NoWorld}
        /\ runCount' \in 0 .. MaxRuns /\ events' \in Nat /\ cache' = [v \in World |-> cache'[v]]
    BY <1>0 DEF SessionTypeOK
  <2> QED BY <1>0, <1>2, <2>1, SessionTypeStep
<1>4. Supported' /\ Diagnosed' = Diagnosed
  BY <1>0, KeptIdle
<1>5. ASSUME ~overlapped'
      PROVE  Orderly'
  <2>1. Orderly /\ Quiet(t)
    BY <1>0, <1>1, <1>5
  <2>2. Kept'
    BY <1>0, <2>1, KeptIdle DEF Orderly
  <2>3. pc'[t] = s /\ subject'[t] = w
    BY <1>0, <1>2 DEF Steps, SessionTypeOK
  <2>4. pc[t] \notin {"projecting", "reprojecting"}
    BY DEF Request, Read, Seed, Reply, Look, Retry, BreakOff, Asks
  <2>5. snapshot = session
    BY <2>1, <2>4 DEF Orderly, Shown, Quiet
  <2>6. s = "asking" => session = w /\ Diagnosed = {}
    BY <1>2, <2>1 DEF Orderly, Kept, IsAt
  <2>7. s = "rebuilding" => Diagnosed = {}
    BY <1>2, <2>1 DEF Orderly, IsAt
  <2>8. IsAt(t)'
    BY <1>0, <1>2, <1>4, <2>3, <2>5, <2>6, <2>7 DEF IsAt
  <2> QED BY <1>0, <1>2, <2>1, <2>2, <2>5, <2>8, OrderlyStep
<1> QED BY <1>3, <1>4, <1>5

\* The steps that build a session and project it.
LEMMA BuildStep ==
  ASSUME SessionInv, NEW t \in Thread, UNCHANGED overlapped,
         Build(t) \/ Project(t) \/ Rebuild(t) \/ Reproject(t)
  PROVE  SessionInv'
<1> USE DEF SessionInv
<1>0. /\ UNCHANGED <<runCount, cache, events, lastStatus, overlapped>>
      /\ 0 \in World /\ NoWorld \notin World
      /\ SessionTypeOK /\ pc[t] # "idle"
  BY DEF Build, Project, Rebuild, Reproject, overlay, World
<1>1. ~overlapped => Orderly /\ Quiet(t)
  BY <1>0 DEF Orderly, Quiet
<1>2. PICK s \in Step, w \in World \cup {NoWorld, Invalid}, v \in World :
        /\ Steps(t, s, w)
        /\ \/ pc[t] = "building" /\ s = "projecting" /\ session' = v /\ snapshot' = snapshot /\ v = 0
           \/ pc[t] = "projecting" /\ s = "reading" /\ session' = session /\ snapshot' = v /\ v = 0
           \/ pc[t] = "rebuilding" /\ s = "reprojecting" /\ session' = v /\ snapshot' = snapshot /\ w = v
           \/ pc[t] = "reprojecting" /\ s = "replying" /\ session' = session /\ snapshot' = v /\ v = subject[t]
  <2>1. subject[t] \in World \cup {NoWorld, Invalid} /\ subject' = [subject EXCEPT ![t] = subject[t]]
    BY DEF SessionTypeOK, Build, Project, Rebuild, Reproject
  <2>2. {"projecting", "reading", "reprojecting", "replying"} \subseteq Step
    BY DEF Step, Running
  <2>3. CASE Build(t)
    <3>1. Steps(t, "projecting", subject[t])
      BY <2>1, <2>3 DEF Build, Goto, Steps
    <3> QED BY <1>0, <2>1, <2>2, <2>3, <3>1 DEF Build
  <2>4. CASE Project(t)
    <3>1. Steps(t, "reading", subject[t])
      BY <2>1, <2>4 DEF Project, Goto, Steps
    <3> QED BY <1>0, <2>1, <2>2, <2>4, <3>1 DEF Project
  <2>5. CASE Rebuild(t)
    <3>1. Steps(t, "reprojecting", subject[t]) /\ subject[t] \in World
      BY <2>1, <2>5 DEF Rebuild, Goto, Steps, SessionTypeOK
    <3> QED BY <2>2, <2>5, <3>1 DEF Rebuild
  <2>6. CASE Reproject(t)
    <3>1. Steps(t, "replying", subject[t]) /\ subject[t] \in World
      BY <2>1, <2>6 DEF Reproject, Goto, Steps, SessionTypeOK
    <3> QED BY <2>2, <2>6, <3>1 DEF Reproject
  <2> QED BY <2>3, <2>4, <2>5, <2>6
<1>3. SessionTypeOK'
  <2>1. /\ session' \in World \cup {NoWorld} /\ snapshot' \in World \cup {NoWorld}
        /\ runCount' \in 0 .. MaxRuns /\ events' \in Nat /\ cache' = [x \in World |-> cache'[x]]
        /\ overlapped' \in BOOLEAN
    BY <1>0, <1>2 DEF SessionTypeOK
  <2> QED BY <1>0, <1>2, <2>1, SessionTypeStep
<1>4. Diagnosed' = Diagnosed /\ Supported'
  BY <1>0 DEF Diagnosed, Supported
<1>5. ASSUME ~overlapped'
      PROVE  Orderly'
  <2>1. Orderly /\ Quiet(t) /\ IsAt(t) /\ Kept
    BY <1>0, <1>1, <1>5 DEF Orderly
  <2>2. pc'[t] = s /\ subject'[t] = w
    BY <1>0, <1>2 DEF Steps, SessionTypeOK
  <2>3. Diagnosed \subseteq World
    BY DEF Diagnosed
  <2>4. pc[t] \in {"building", "rebuilding"} => Diagnosed = {}
    BY <1>0, <2>1, <2>3 DEF IsAt, Kept
  <2>5. Kept'
    BY <1>0, <1>2, <1>4, <2>1, <2>4 DEF Kept
  <2>6. IsAt(t)'
    BY <1>2, <2>2 DEF IsAt
  <2>7. s \in {"projecting", "reprojecting"} \/ snapshot' = session'
    BY <1>2, <2>1 DEF IsAt
  <2> QED BY <1>0, <1>2, <2>1, <2>5, <2>6, <2>7, OrderlyStep
<1> QED BY <1>3, <1>4, <1>5

\* The steps that clear the diagnoses, add one and cut the list of events.
LEMMA DiagnosisStep ==
  ASSUME SessionInv, NEW t \in Thread,
         \/ UNCHANGED overlapped /\ (Conclude(t) \/ Trim(t))
         \/ \E w \in Given \cup {NoWorld} : Press(t, w) /\ Accepted(t)
  PROVE  SessionInv'
<1> USE DEF SessionInv
<1>0. /\ UNCHANGED <<session, snapshot>>
      /\ overlapped' \in BOOLEAN /\ (~overlapped' => ~overlapped)
      /\ SessionTypeOK
  BY DEF Accepted, SessionTypeOK, Conclude, Trim, Press
<1>1. ASSUME ~overlapped'
      PROVE  Orderly /\ Quiet(t)
  BY <1>0, <1>1 DEF Orderly, Quiet, Accepted, Conclude, Trim
<1>2. ASSUME ~overlapped', pc[t] \in {"idle", "asking", "trimming"}
      PROVE  snapshot' = session'
  BY <1>0, <1>1, <1>2 DEF Orderly, Shown, Quiet
<1>3. CASE Conclude(t)
  <2>1. PICK w \in World : w = subject[t] /\ pc[t] = "asking"
    BY <1>3 DEF Conclude, SessionTypeOK
  <2>2. PICK diagnosis \in Concluded(t) :
          cache' = [cache EXCEPT ![w] = diagnosis] /\ lastStatus' = diagnosis.status
    BY <1>3, <2>1 DEF Conclude
  <2>3. IsSupported(TraceOf[w], diagnosis) /\ diagnosis.status # "none"
    BY <2>1, ConclusionIsSupported
  <2>4. /\ cache'[w] = diagnosis /\ \A x \in World \ {w} : cache'[x] = cache[x]
        /\ cache' = [x \in World |-> cache'[x]]
    BY <2>2 DEF SessionTypeOK
  <2>5. Diagnosed' = Diagnosed \cup {w}
    BY <2>3, <2>4 DEF Diagnosed
  <2>6. Supported'
    BY <2>3, <2>4, <2>5 DEF Supported, Diagnosed
  <2>7. Steps(t, "trimming", w) /\ "trimming" \in Step /\ events' = events + 1 /\ UNCHANGED runCount
    BY <1>3, <2>1 DEF Conclude, Goto, Steps, Step, SessionTypeOK
  <2>8. SessionTypeOK'
    <3>1. /\ session' \in World \cup {NoWorld} /\ snapshot' \in World \cup {NoWorld}
          /\ runCount' \in 0 .. MaxRuns /\ events' \in Nat
      BY <1>0, <2>7 DEF SessionTypeOK
    <3> QED BY <1>0, <2>4, <2>7, <3>1, SessionTypeStep
  <2>9. ASSUME ~overlapped'
        PROVE  Orderly'
    <3>1. Diagnosed = {} /\ session = w /\ events = Cardinality(Diagnosed) /\ Quiet(t)
      BY <1>0, <1>1, <2>1, <2>9 DEF Orderly, IsAt, Kept
    <3>2. Diagnosed' = {w} /\ events' = 1
      BY <2>5, <2>7, <3>1, FS_EmptySet
    <3>3. Kept'
      BY <1>0, <2>2, <2>4, <3>1, <3>2, FS_Singleton DEF Kept
    <3>4. IsAt(t)' /\ snapshot' = session'
      BY <1>2, <2>1, <2>7, <2>9 DEF IsAt, Steps, SessionTypeOK
    <3> QED BY <1>0, <2>7, <3>1, <3>3, <3>4, OrderlyStep
  <2> QED BY <2>6, <2>8, <2>9
<1>4. CASE Trim(t)
  <2>1. /\ Steps(t, "idle", NoWorld) /\ "idle" \in Step
        /\ UNCHANGED <<runCount, cache, lastStatus>> /\ events' = Trimmed /\ pc[t] = "trimming"
    BY <1>4 DEF Trim, Finish, Goto, About, Steps, Step
  <2>2. Diagnosed' = Diagnosed /\ Supported'
    BY <2>1 DEF Diagnosed, Supported
  <2>3. SessionTypeOK'
    <3>1. /\ session' \in World \cup {NoWorld} /\ snapshot' \in World \cup {NoWorld}
          /\ runCount' \in 0 .. MaxRuns /\ events' \in Nat /\ cache' = [x \in World |-> cache'[x]]
      BY <1>0, <2>1 DEF SessionTypeOK, Trimmed
    <3> QED BY <1>0, <2>1, <3>1, SessionTypeStep
  <2>4. ASSUME ~overlapped'
        PROVE  Orderly'
    <3>1. Orderly /\ Quiet(t) /\ Kept
      BY <1>1, <2>4 DEF Orderly
    <3>2. Cardinality(Diagnosed) <= 1
      <4>1. Cardinality({}) = 0 /\ Cardinality({session}) = 1
        BY FS_EmptySet, FS_Singleton
      <4>2. Diagnosed \subseteq {session}
        BY <3>1 DEF Kept
      <4>3. Diagnosed = {} \/ Diagnosed = {session}
        BY <4>2
      <4> HIDE DEF SessionInv
      <4> QED BY <4>1, <4>3
    <3>3. events' = events
      BY <2>1, <3>1, <3>2 DEF Trimmed, Kept, SessionTypeOK
    <3>4. Kept'
      BY <1>0, <2>1, <2>2, <3>1, <3>3 DEF Kept
    <3>5. IsAt(t)' /\ snapshot' = session'
      BY <1>2, <2>1, <2>4 DEF IsAt, Steps, SessionTypeOK
    <3> QED BY <1>0, <2>1, <3>1, <3>4, <3>5, OrderlyStep
  <2> QED BY <2>2, <2>3, <2>4
<1>5. CASE \E w \in Given \cup {NoWorld} : Press(t, w)
  <2>1. PICK w \in World \cup {NoWorld, Invalid} : Press(t, w)
    BY <1>5
  <2>2. /\ Steps(t, "seeding", w) /\ "seeding" \in Step /\ pc[t] = "idle"
        /\ cache' = [x \in World |-> NoDiagnosis] /\ events' = 0
        /\ runCount < MaxRuns /\ runCount' = runCount + 1
    BY <2>1 DEF Press, Goto, About, Steps, ClearDiagnoses, Step
  <2>3. Diagnosed' = {}
    BY <2>2 DEF Diagnosed, NoDiagnosis
  <2>4. SessionTypeOK'
    <3>1. /\ session' \in World \cup {NoWorld} /\ snapshot' \in World \cup {NoWorld}
          /\ runCount' \in 0 .. MaxRuns /\ events' \in Nat /\ cache' = [x \in World |-> cache'[x]]
      BY <1>0, <2>2 DEF SessionTypeOK
    <3> QED BY <1>0, <2>2, <3>1, SessionTypeStep
  <2>5. ASSUME ~overlapped'
        PROVE  Orderly'
    <3>1. Kept'
      BY <2>2, <2>3, FS_EmptySet DEF Kept
    <3>2. IsAt(t)' /\ snapshot' = session' /\ Quiet(t)
      BY <1>1, <1>2, <2>2, <2>3, <2>5 DEF IsAt, Steps, SessionTypeOK
    <3> QED BY <1>0, <2>2, <3>1, <3>2, OrderlyStep
  <2> QED BY <2>3, <2>4, <2>5 DEF Supported
<1> QED BY <1>3, <1>4, <1>5

LEMMA SessionStep == SessionInv /\ [Next]_vars => SessionInv'
<1> SUFFICES ASSUME SessionInv, [Next]_vars
             PROVE  SessionInv'
  OBVIOUS
<1>1. CASE UNCHANGED vars
  BY <1>1 DEF vars, globals, overlay, SessionInv, SessionTypeOK, Supported, Orderly, Shown, Kept, IsAt, Diagnosed
<1>2. ASSUME NEW t \in Thread, UNCHANGED overlapped,
             Read(t) \/ Seed(t) \/ Reply(t) \/ Look(t) \/ Retry(t) \/ BreakOff(t)
      PROVE  SessionInv'
  <2>1. UNCHANGED globals
    BY <1>2 DEF Read, Seed, Reply, Look, Retry, BreakOff
  <2> QED BY <1>2, <2>1, ControlStep
<1>3. ASSUME NEW t \in Thread, NEW w \in World \cup {NoWorld}, Request(t, w), Accepted(t)
      PROVE  SessionInv'
  <2>1. UNCHANGED globals
    BY <1>3 DEF Request
  <2> QED BY <1>3, <2>1, ControlStep
<1>4. ASSUME NEW t \in Thread, UNCHANGED overlapped, Build(t) \/ Project(t) \/ Rebuild(t) \/ Reproject(t)
      PROVE  SessionInv'
  BY <1>4, BuildStep
<1>5. ASSUME NEW t \in Thread,
             \/ UNCHANGED overlapped /\ (Conclude(t) \/ Trim(t))
             \/ \E w \in Given \cup {NoWorld} : Press(t, w) /\ Accepted(t)
      PROVE  SessionInv'
  BY <1>5, DiagnosisStep
<1> QED BY <1>1, <1>2, <1>3, <1>4, <1>5 DEF Next

LEMMA SessionIsKept == ServerSpec => []SessionInv
<1>1. ServerInit => SessionInv
  BY SessionInit DEF ServerInit
<1>2. SessionInv /\ [ServerNext]_<<vars, side, evidenceVars>> => SessionInv'
  BY SessionStep DEF ServerNext
<1> QED BY <1>1, <1>2, PTL DEF ServerSpec

(* SnapshotIsOfSession: as long as no two requests have overlapped, what   *)
(* is served between them is the projection of the session, for any        *)
(* threads, seeds and number of runs (server.py:142-163).                  *)
THEOREM SnapshotsAgree == ServerSpec => []SnapshotIsOfSession
<1>1. SessionInv => SnapshotIsOfSession
  BY DEF SessionInv, Orderly, Shown, SnapshotIsOfSession, AloneAndQuiet
<1> QED BY <1>1, SessionIsKept, PTL

(* DiagnosesAreSupported: whatever the model answers, however it fails and *)
(* whatever overlaps, a diagnosis that is cached is supported by the trace *)
(* of its opportunity; and while nothing overlaps, the diagnoses are of    *)
(* the session (server.py:116-136, intelligence/schemas.py:186-245).       *)
THEOREM DiagnosesHold == ServerSpec => []DiagnosesAreSupported
<1>1. SessionInv => DiagnosesAreSupported
  BY DEF SessionInv, Supported, Orderly, Kept, DiagnosesAreSupported, AloneAndQuiet
<1> QED BY <1>1, SessionIsKept, PTL

-----------------------------------------------------------------------------
(* The evidence.                                                           *)

Found == Tree \cup {NoTree}

Stage == {"idle", "classifying", "classified", "verifying", "publishing", "waiting", "indexing",
          "filling search", "filling behaviour", "returning", "reading", "reading on", "replied"}

Payloads == [verified : BOOLEAN, metadata : Found, matrix : Found, search : Found, behaviour : Found]

EvidenceTypeOK ==
  /\ tree \in Tree
  /\ payload \in [Thread -> Payloads]
  /\ current \in Thread \cup {Nobody}
  /\ at \in [Thread -> Stage]
  /\ asks \in [Thread -> Kinds \cup {"none"}]
  /\ fresh \in [Thread -> BOOLEAN]
  /\ held \in [Thread -> Thread \cup {Nobody}]
  /\ answer \in [Thread -> [verified : BOOLEAN, first : Found, second : Found]]
  /\ alone \in [Thread -> BOOLEAN]

\* Where a thread may be, by what there is to work on and by what it is asked.
Placed(t) ==
  /\ at[t] \in {"verifying", "publishing"} => current # t
  /\ at[t] \in {"waiting", "indexing", "filling search", "filling behaviour", "returning"} =>
       current \in Thread
  /\ at[t] \in {"reading", "reading on"} => held[t] \in Thread
  /\ at[t] \in {"classifying", "classified"} => asks[t] = "lab"
  /\ at[t] = "reading on" => asks[t] = "matrix"
  /\ alone[t] => \A u \in Thread \ {t} : at[u] = "idle"

\* Verified evidence is that of the directory: the directory is not exchanged, and what
\* a payload has of an index is of it.
Genuine ==
  \A t \in Thread :
    LET p == payload[t]
    IN  p.verified => /\ IsVerified(Contents[tree])
                      /\ p.metadata = tree
                      /\ p.matrix \in {tree, NoTree} /\ p.search \in {tree, NoTree}
                      /\ p.behaviour \in {tree, NoTree}

Indexed(p) == p.matrix # NoTree /\ p.search # NoTree /\ p.behaviour # NoTree

\* A payload that is made with its index is whole when it is published; one that is given
\* it later has its matrix first, and then somebody is at the other parts.
Whole(t) ==
  at[t] = "publishing" =>
    /\ payload[t].matrix # NoTree => Indexed(payload[t])
    /\ payload[t].verified /\ NeedsIndex(asks[t]) => Indexed(payload[t])

Completed ==
  current \in Thread /\ payload[current].matrix # NoTree =>
    /\ payload[current].search # NoTree \/ \E u \in Thread : at[u] = "filling search"
    /\ \/ payload[current].behaviour # NoTree
       \/ \E u \in Thread : at[u] \in {"filling search", "filling behaviour"}

\* What a request gets that no other is handled beside.
Served(t) ==
  /\ NeedsIndex(asks[t]) =>
       /\ at[t] \in {"filling search", "filling behaviour", "returning"} =>
            payload[current].matrix # NoTree
       /\ at[t] = "reading" /\ payload[held[t]].verified => Indexed(payload[held[t]])
  /\ at[t] \in {"reading on", "replied"} /\ payload[held[t]].verified =>
       /\ answer[t].verified /\ answer[t].first = tree
       /\ IsVerified(Contents[tree])
       /\ at[t] = "reading on" => payload[held[t]].behaviour # NoTree
       /\ at[t] = "replied" /\ asks[t] = "matrix" => answer[t].second = tree
  /\ asks[t] = "lab" /\ at[t] \notin {"idle", "classifying"} /\ IsVerified(Contents[tree]) =>
       fresh[t]

EvidenceInv ==
  /\ EvidenceTypeOK /\ Genuine /\ Completed
  /\ \A t \in Thread : Placed(t) /\ Whole(t) /\ (alone[t] => Served(t))

-----------------------------------------------------------------------------
(* The steps of a request for evidence.                                    *)

LEMMA PayloadIsTyped ==
  ASSUME NEW f \in Tree, NEW withIndex \in BOOLEAN
  PROVE  /\ PayloadOf(f, withIndex) \in Payloads
         /\ PayloadOf(f, withIndex).verified => IsVerified(Contents[f])
         /\ PayloadOf(f, withIndex).metadata \in {f, NoTree}
         /\ PayloadOf(f, withIndex).verified => PayloadOf(f, withIndex).metadata = f
         /\ PayloadOf(f, withIndex).matrix \in {f, NoTree}
         /\ PayloadOf(f, withIndex).search = PayloadOf(f, withIndex).matrix
         /\ PayloadOf(f, withIndex).behaviour = PayloadOf(f, withIndex).matrix
         /\ PayloadOf(f, withIndex).verified /\ withIndex => PayloadOf(f, withIndex).matrix = f
<1>1. CASE IsVerified(Contents[f])
  BY <1>1 DEF PayloadOf, Payloads, Found
<1>2. CASE ~IsVerified(Contents[f])
  BY <1>2 DEF PayloadOf, NoPayload, Payloads, Found
<1> QED BY <1>1, <1>2

LEMMA LookUpIsTyped ==
  ASSUME NEW kind
  PROVE  /\ LookUp(kind) \in {"verifying", "waiting", "returning"}
         /\ LookUp(kind) = "verifying" <=> current = Nobody
         /\ LookUp(kind) = "returning" /\ NeedsIndex(kind) => payload[current].matrix # NoTree
         /\ LookUp(kind) = "waiting" => NeedsIndex(kind)
BY DEF LookUp

\* A step of t is no step of another thread, and nobody else is alone then.
Local(t) ==
  /\ UNCHANGED tree
  /\ \A u \in Thread \ {t} : at'[u] = at[u] /\ asks'[u] = asks[u] /\ held'[u] = held[u] /\ ~alone'[u]
  /\ current' \in {current, t}
  /\ \A u \in Thread \ {t} : payload'[u] = payload[u] \/ u = current

Walks(t) ==
  \/ \E kind \in Kinds : Arrive(t, kind)
  \/ Classify(t) \/ Summarise(t) \/ Acquire(t) \/ Return(t)
  \/ ReadFirst(t) \/ ReadOn(t) \/ Replied(t)

Fills(t) == FillMatrix(t) \/ FillSearch(t) \/ FillBehaviour(t)

LEMMA WalkIsLocal ==
  ASSUME EvidenceTypeOK, \A u \in Thread : Placed(u), NEW t \in Thread, Walks(t)
  PROVE  /\ Local(t) /\ UNCHANGED <<payload, current>>
         /\ at[t] \notin {"publishing", "filling search", "filling behaviour"}
<1>1. UNCHANGED <<tree, payload, current>>
  BY DEF Walks, Arrive, Classify, Summarise, Acquire, Return, ReadFirst, ReadOn, Replied
<1>2. at[t] \notin {"publishing", "filling search", "filling behaviour"}
  BY DEF Walks, Arrive, Classify, Summarise, Acquire, Return, ReadFirst, ReadOn, Replied, Move
<1>3. ASSUME NEW u \in Thread \ {t}
      PROVE  at'[u] = at[u] /\ asks'[u] = asks[u] /\ held'[u] = held[u]
  <2>1. at'[u] = at[u]
    <3>1. \E s : at' = [at EXCEPT ![t] = s]
      BY DEF Walks, Arrive, Classify, Summarise, Acquire, Return, ReadFirst, ReadOn, Replied, Move
    <3> QED BY <3>1 DEF EvidenceTypeOK
  <2>2. asks'[u] = asks[u] /\ held'[u] = held[u]
    <3>1. CASE UNCHANGED <<asks, held>>
      BY <3>1
    <3>2. CASE \E kind \in Kinds : Arrive(t, kind)
      BY <3>2 DEF Arrive, EvidenceTypeOK
    <3>3. CASE Return(t) \/ Replied(t)
      BY <3>3 DEF Return, Replied, EvidenceTypeOK
    <3> QED BY <3>1, <3>2, <3>3 DEF Walks, Classify, Summarise, Acquire, ReadFirst, ReadOn, locals
  <2> QED BY <2>1, <2>2
<1>4. ASSUME NEW u \in Thread \ {t}
      PROVE  ~alone'[u]
  <2>1. CASE \E kind \in Kinds : Arrive(t, kind)
    BY <2>1 DEF Arrive
  <2>2. CASE at[t] # "idle"
    <3>1. ~alone[u]
      BY <2>2 DEF Placed
    <3>2. CASE alone' = alone
      BY <3>1, <3>2
    <3>3. CASE Replied(t)
      BY <3>1, <3>3 DEF Replied, EvidenceTypeOK
    <3>4. CASE Arrive(t, "summary") \/ Arrive(t, "lab") \/ Arrive(t, "matrix") \/ Arrive(t, "search")
      BY <2>2, <3>4 DEF Arrive, Move
    <3> QED BY <2>1, <2>2, <3>2, <3>3
              DEF Walks, Classify, Summarise, Acquire, Return, ReadFirst, ReadOn, Arrive, Move
  <2> QED BY <2>1, <2>2 DEF Walks, Classify, Summarise, Acquire, Return, ReadFirst, ReadOn, Replied, Move
<1> QED BY <1>1, <1>2, <1>3, <1>4 DEF Local

\* What a fill comes to.
LEMMA FillsAPart ==
  ASSUME EvidenceTypeOK, \A u \in Thread : Placed(u), NEW t \in Thread, Fills(t)
  PROVE  /\ current \in Thread /\ UNCHANGED <<tree, current, alone, locals>>
         /\ \A u \in Thread \ {current} : payload'[u] = payload[u]
         /\ payload[current] \in Payloads
         /\ \/ /\ at[t] = "indexing" /\ at' = [at EXCEPT ![t] = "filling search"]
               /\ payload' = [payload EXCEPT ![current] = [payload[current] EXCEPT !.matrix = tree]]
            \/ /\ at[t] = "filling search" /\ at' = [at EXCEPT ![t] = "filling behaviour"]
               /\ payload' = [payload EXCEPT ![current] = [payload[current] EXCEPT !.search = tree]]
            \/ /\ at[t] = "filling behaviour" /\ at' = [at EXCEPT ![t] = "returning"]
               /\ payload' = [payload EXCEPT ![current] = [payload[current] EXCEPT !.behaviour = tree]]
<1>1. at[t] \in {"indexing", "filling search", "filling behaviour"}
  BY DEF Fills, FillMatrix, FillSearch, FillBehaviour, Move
<1>2. current \in Thread
  BY <1>1 DEF Placed
<1>3. UNCHANGED <<tree, current, alone, locals>>
  BY DEF Fills, FillMatrix, FillSearch, FillBehaviour, Fill
<1>4. payload[current] \in Payloads
  BY <1>2 DEF EvidenceTypeOK
<1>5. CASE FillMatrix(t)
  BY <1>2, <1>3, <1>4, <1>5 DEF FillMatrix, Fill, Move, EvidenceTypeOK
<1>6. CASE FillSearch(t)
  BY <1>2, <1>3, <1>4, <1>6 DEF FillSearch, Fill, Move, EvidenceTypeOK
<1>7. CASE FillBehaviour(t)
  BY <1>2, <1>3, <1>4, <1>7 DEF FillBehaviour, Fill, Move, EvidenceTypeOK
<1> QED BY <1>5, <1>6, <1>7 DEF Fills

LEMMA EvidenceTypeStep ==
  ASSUME EvidenceTypeOK, \A u \in Thread : Placed(u), EvidenceNext
  PROVE  EvidenceTypeOK'
<1> USE DEF EvidenceTypeOK
<1>1. CASE Mount
  BY <1>1 DEF Mount, locals
<1>2. ASSUME NEW t \in Thread, Walks(t)
      PROVE  EvidenceTypeOK'
  <2>1. tree' \in Tree /\ payload' \in [Thread -> Payloads] /\ current' \in Thread \cup {Nobody}
    BY <1>2, WalkIsLocal DEF Local
  <2>2. PICK s \in Stage : at' = [at EXCEPT ![t] = s]
    <3>1. ASSUME NEW kind
          PROVE  LookUp(kind) \in Stage
      BY LookUpIsTyped DEF Stage
    <3>2. CASE \E kind \in Kinds : Arrive(t, kind)
      BY <3>1, <3>2 DEF Arrive, Move, Stage
    <3>3. CASE Summarise(t)
      BY <3>1, <3>3 DEF Summarise, Move
    <3>4. CASE Classify(t) \/ Acquire(t) \/ Return(t) \/ ReadOn(t) \/ Replied(t)
      BY <3>4 DEF Classify, Acquire, Return, ReadOn, Replied, Move, Stage
    <3>5. CASE ReadFirst(t)
      BY <3>5 DEF ReadFirst, Move, Stage
    <3> QED BY <1>2, <3>2, <3>3, <3>4, <3>5 DEF Walks
  <2>3. asks' \in [Thread -> Kinds \cup {"none"}] /\ held' \in [Thread -> Thread \cup {Nobody}]
    <3>1. CASE UNCHANGED <<asks, held>>
      BY <3>1
    <3>2. CASE \E kind \in Kinds : Arrive(t, kind)
      BY <3>2 DEF Arrive
    <3>3. CASE Return(t) \/ Replied(t)
      BY <3>3 DEF Return, Replied
    <3> QED BY <1>2, <3>1, <3>2, <3>3 DEF Walks, Classify, Summarise, Acquire, ReadFirst, ReadOn, locals
  <2>4. alone' \in [Thread -> BOOLEAN]
    <3>1. CASE \E kind \in Kinds : Arrive(t, kind)
      BY <3>1 DEF Arrive
    <3>2. CASE UNCHANGED alone \/ Replied(t)
      BY <3>2 DEF Replied
    <3> QED BY <1>2, <3>1, <3>2 DEF Walks, Classify, Summarise, Acquire, Return, ReadFirst, ReadOn
  <2>5. fresh' \in [Thread -> BOOLEAN]
    <3>1. IsVerified(Contents[tree]) \in BOOLEAN
      BY DEF IsVerified
    <3>2. CASE Classify(t)
      BY <3>1, <3>2 DEF Classify
    <3>3. CASE ~Classify(t)
      BY <1>2, <3>3 DEF Walks, Arrive, Summarise, Acquire, Return, ReadFirst, ReadOn, Replied, locals
    <3> QED BY <3>2, <3>3
  <2>6. answer' \in [Thread -> [verified : BOOLEAN, first : Found, second : Found]]
    <3>1. CASE ReadFirst(t)
      <4>1. held[t] \in Thread
        BY <3>1 DEF ReadFirst, Placed
      <4>2. payload[held[t]] \in Payloads
        BY <4>1
      <4>3. FirstPart(t) \in Found /\ SaidVerified(t) \in BOOLEAN /\ NoTree \in Found
        BY <4>2 DEF FirstPart, SaidVerified, Payloads, Found
      <4> QED BY <3>1, <4>3 DEF ReadFirst
    <3>2. CASE ReadOn(t)
      <4>1. held[t] \in Thread
        BY <3>2 DEF ReadOn, Move, Placed
      <4>2. PICK p \in Payloads : p = payload[held[t]]
        BY <4>1
      <4>3. p.behaviour \in Found
        BY DEF Payloads
      <4>4. PICK a \in [verified : BOOLEAN, first : Found, second : Found] : a = answer[t]
        OBVIOUS
      <4>5. [a EXCEPT !.second = p.behaviour] \in [verified : BOOLEAN, first : Found, second : Found]
        BY <4>3
      <4>6. answer' = [answer EXCEPT ![t] = [a EXCEPT !.second = p.behaviour]]
        BY <3>2, <4>2, <4>4 DEF ReadOn
      <4> QED BY <4>5, <4>6
    <3>3. CASE Replied(t)
      BY <3>3 DEF Replied, NoAnswer, Found
    <3>4. CASE UNCHANGED answer
      BY <3>4
    <3> QED BY <1>2, <3>1, <3>2, <3>3, <3>4 DEF Walks, Arrive, Classify, Summarise, Acquire, Return, locals
  <2> QED BY <2>1, <2>2, <2>3, <2>4, <2>5, <2>6
<1>3. ASSUME NEW t \in Thread, Verify(t)
      PROVE  EvidenceTypeOK'
  <2>1. PayloadOf(tree, NeedsIndex(asks[t])) \in Payloads
    <3>1. NeedsIndex(asks[t]) \in BOOLEAN
      BY DEF NeedsIndex
    <3> QED BY <3>1, PayloadIsTyped
  <2> QED BY <1>3, <2>1 DEF Verify, Move, Stage, locals
<1>4. ASSUME NEW t \in Thread, Publish(t)
      PROVE  EvidenceTypeOK'
  BY <1>4 DEF Publish, Move, Stage
<1>5. ASSUME NEW t \in Thread, Fills(t)
      PROVE  EvidenceTypeOK'
  <2>1. tree \in Found /\ {"filling search", "filling behaviour", "returning"} \subseteq Stage
    BY DEF Found, Stage
  <2>2. payload[current] \in Payloads /\ UNCHANGED <<tree, current, alone, locals>>
    BY <1>5, FillsAPart
  <2>3. PICK q \in Payloads : q = payload[current]
    BY <2>2
  <2>4. /\ [q EXCEPT !.matrix = tree] \in Payloads /\ [q EXCEPT !.search = tree] \in Payloads
        /\ [q EXCEPT !.behaviour = tree] \in Payloads
    BY <2>1 DEF Payloads
  <2>5. payload' \in [Thread -> Payloads] /\ at' \in [Thread -> Stage]
    <3>1. \/ /\ at' = [at EXCEPT ![t] = "filling search"]
             /\ payload' = [payload EXCEPT ![current] = [q EXCEPT !.matrix = tree]]
          \/ /\ at' = [at EXCEPT ![t] = "filling behaviour"]
             /\ payload' = [payload EXCEPT ![current] = [q EXCEPT !.search = tree]]
          \/ /\ at' = [at EXCEPT ![t] = "returning"]
             /\ payload' = [payload EXCEPT ![current] = [q EXCEPT !.behaviour = tree]]
      BY <1>5, <2>3, FillsAPart
    <3>2. \E p \in Payloads : payload' = [payload EXCEPT ![current] = p]
      BY <2>4, <3>1
    <3>3. \E s \in Stage : at' = [at EXCEPT ![t] = s]
      BY <2>1, <3>1
    <3> QED BY <3>2, <3>3
  <2> QED BY <2>2, <2>5 DEF locals
<1> QED BY <1>1, <1>2, <1>3, <1>4, <1>5 DEF EvidenceNext, Walks, Fills

\* Whatever a thread does, the others are where they were, and none of them is alone.
LEMMA OthersStep ==
  ASSUME EvidenceInv, NEW t \in Thread, Local(t)
  PROVE  \A u \in Thread \ {t} : Placed(u)' /\ Whole(u)' /\ ~alone'[u]
<1> SUFFICES ASSUME NEW u \in Thread \ {t}
             PROVE  Placed(u)' /\ Whole(u)' /\ ~alone'[u]
  OBVIOUS
<1>1. /\ at'[u] = at[u] /\ asks'[u] = asks[u] /\ held'[u] = held[u] /\ ~alone'[u]
      /\ current' \in {current, t} /\ (payload'[u] = payload[u] \/ u = current)
  BY DEF Local
<1>2. Placed(u) /\ Whole(u)
  BY DEF EvidenceInv
<1>3. Placed(u)'
  BY <1>1, <1>2 DEF Placed
<1>4. Whole(u)'
  BY <1>1, <1>2 DEF Placed, Whole, Indexed
<1> QED BY <1>1, <1>3, <1>4

\* So it is enough to look at the thread itself, and at what is shared.
LEMMA LocalStep ==
  ASSUME EvidenceInv, NEW t \in Thread, Local(t), EvidenceTypeOK', Genuine', Completed',
         Placed(t)', Whole(t)', alone'[t] => Served(t)'
  PROVE  EvidenceInv'
BY OthersStep DEF EvidenceInv

LEMMA MountStep ==
  ASSUME EvidenceInv, Mount, EvidenceTypeOK'
  PROVE  EvidenceInv'
<1>1. /\ \A t \in Thread : at[t] = "idle"
      /\ UNCHANGED <<payload, current, at, alone, asks, held, fresh, answer>>
  BY DEF Mount, locals
<1>2. ~IsVerified(Contents[tree])
  BY DEF Mount, IsVerified
<1>3. \A t \in Thread : ~payload[t].verified
  BY <1>2 DEF EvidenceInv, Genuine
<1>4. Genuine' /\ Completed'
  BY <1>1, <1>3 DEF EvidenceInv, Genuine, Completed
<1>5. ASSUME NEW t \in Thread
      PROVE  Placed(t)' /\ Whole(t)' /\ Served(t)'
  BY <1>1, <1>5 DEF EvidenceInv, Placed, Whole, Served
<1> QED BY <1>4, <1>5 DEF EvidenceInv

LEMMA LookUpIsPlaced ==
  ASSUME EvidenceTypeOK, NEW t \in Thread, NEW kind
  PROVE  /\ LookUp(kind) \in {"verifying", "waiting", "returning"}
         /\ LookUp(kind) = "verifying" => current # t
         /\ LookUp(kind) \in {"waiting", "returning"} => current \in Thread
<1>1. Nobody \notin Thread
  BY TreesAssumption
<1> QED BY <1>1, LookUpIsTyped DEF EvidenceTypeOK

LEMMA WalkStep ==
  ASSUME EvidenceInv, NEW t \in Thread, Walks(t), EvidenceTypeOK'
  PROVE  EvidenceInv'
<1>0. /\ EvidenceTypeOK /\ Genuine /\ Completed /\ Placed(t) /\ (alone[t] => Served(t))
      /\ \A u \in Thread : Placed(u)
  BY DEF EvidenceInv
<1>1. /\ Local(t) /\ UNCHANGED <<tree, payload, current>>
      /\ at[t] \notin {"publishing", "filling search", "filling behaviour"}
  BY <1>0, WalkIsLocal DEF Local
<1>2. Genuine'
  BY <1>0, <1>1 DEF Genuine
<1>3. Completed'
  BY <1>0, <1>1 DEF Completed, Local
<1>4. at'[t] # "publishing" /\ Whole(t)'
  <2>1. at'[t] # "publishing"
    <3>1. CASE \E kind \in Kinds : Arrive(t, kind)
      <4>1. PICK kind \in Kinds : Arrive(t, kind)
        BY <3>1
      <4>2. at'[t] = IF kind = "lab" THEN "classifying" ELSE LookUp(kind)
        BY <1>0, <4>1 DEF Arrive, Move, EvidenceTypeOK
      <4> QED BY <4>2, LookUpIsTyped
    <3>2. CASE Summarise(t)
      <4>1. at'[t] = LookUp("summary")
        BY <1>0, <3>2 DEF Summarise, Move, EvidenceTypeOK
      <4> QED BY <4>1, LookUpIsTyped
    <3>3. CASE Classify(t) \/ Acquire(t) \/ Return(t)
      BY <1>0, <3>3 DEF Classify, Acquire, Return, Move, EvidenceTypeOK
    <3>4. CASE ReadFirst(t) \/ ReadOn(t) \/ Replied(t)
      BY <1>0, <3>4 DEF ReadFirst, ReadOn, Replied, Move, EvidenceTypeOK
    <3> QED BY <3>1, <3>2, <3>3, <3>4 DEF Walks
  <2> QED BY <2>1 DEF Whole
<1>5. ASSUME at[t] # "idle", UNCHANGED alone
      PROVE  alone'[t] => \A u \in Thread \ {t} : at'[u] = "idle"
  <2>1. \A u \in Thread \ {t} : at'[u] = at[u]
    BY <1>1 DEF Local
  <2> QED BY <1>0, <1>5, <2>1 DEF Placed
<1>6. Placed(t)' /\ (alone'[t] => Served(t)')
  <2>0. \A u \in Thread \ {t} : at'[u] = at[u]
    BY <1>1 DEF Local
  <2>1. CASE \E kind \in Kinds : Arrive(t, kind)
    <3>1. PICK kind \in Kinds : Arrive(t, kind)
      BY <2>1
    <3>2. /\ asks'[t] = kind /\ at'[t] = IF kind = "lab" THEN "classifying" ELSE LookUp(kind)
          /\ alone'[t] => \A u \in Thread \ {t} : at[u] = "idle"
      BY <1>0, <3>1 DEF Arrive, Move, EvidenceTypeOK
    <3>3. Placed(t)'
      <4>1. alone'[t] => \A u \in Thread \ {t} : at'[u] = "idle"
        BY <2>0, <3>2
      <4>2. PICK s : s = LookUp(kind)
        OBVIOUS
      <4>3. /\ s \in {"verifying", "waiting", "returning"}
            /\ s = "verifying" => current # t
            /\ s \in {"waiting", "returning"} => current \in Thread
        BY <1>0, <4>2, LookUpIsPlaced
      <4>4. (at'[t] = "classifying" /\ asks'[t] = "lab") \/ at'[t] = s
        BY <3>2, <4>2
      <4> QED BY <1>1, <4>1, <4>3, <4>4 DEF Placed
    <3>4. Served(t)'
      BY <1>1, <3>2, LookUpIsTyped DEF Served
    <3> QED BY <3>3, <3>4
  <2>2. CASE Classify(t)
    <3>1. /\ at[t] = "classifying" /\ at'[t] = "classified" /\ UNCHANGED <<asks, alone>>
          /\ IsVerified(Contents[tree]) => fresh'[t]
      BY <1>0, <2>2 DEF Classify, Move, EvidenceTypeOK
    <3>2. Placed(t)'
      BY <1>0, <1>1, <1>5, <3>1 DEF Placed
    <3>3. Served(t)'
      BY <1>0, <1>1, <3>1 DEF Placed, Served, NeedsIndex
    <3> QED BY <3>2, <3>3
  <2>3. CASE Summarise(t)
    <3>1. /\ at[t] = "classified" /\ at'[t] = LookUp("summary") /\ asks[t] = "lab"
          /\ UNCHANGED <<asks, alone, fresh>>
      BY <1>0, <2>3 DEF Summarise, Move, EvidenceTypeOK, Placed, locals
    <3>2. Placed(t)'
      <4>1. alone'[t] => \A u \in Thread \ {t} : at'[u] = "idle"
        BY <1>5, <3>1
      <4>2. PICK s : s = LookUp("summary")
        OBVIOUS
      <4>3. /\ s \in {"verifying", "waiting", "returning"}
            /\ s = "verifying" => current # t
            /\ s \in {"waiting", "returning"} => current \in Thread
        BY <1>0, <4>2, LookUpIsPlaced
      <4> QED BY <1>1, <3>1, <4>1, <4>2, <4>3 DEF Placed
    <3>3. alone'[t] => Served(t)'
      BY <1>0, <1>1, <3>1, LookUpIsTyped DEF Served, NeedsIndex
    <3> QED BY <3>2, <3>3
  <2>4. CASE Acquire(t)
    <3>1. /\ at[t] = "waiting" /\ at'[t] \in {"indexing", "returning"}
          /\ at'[t] = "returning" => payload[current].matrix # NoTree
          /\ UNCHANGED <<asks, alone, fresh>>
      BY <1>0, <2>4 DEF Acquire, Move, EvidenceTypeOK, locals
    <3>2. Placed(t)'
      BY <1>0, <1>1, <1>5, <3>1 DEF Placed
    <3>3. alone'[t] => Served(t)'
      BY <1>0, <1>1, <3>1 DEF Served
    <3> QED BY <3>2, <3>3
  <2>5. CASE Return(t)
    <3>1. /\ at[t] = "returning" /\ at'[t] = "reading" /\ held'[t] = current /\ current \in Thread
          /\ UNCHANGED <<asks, alone, fresh>>
      <4>1. /\ at[t] = "returning" /\ at'[t] = "reading" /\ held'[t] = current
            /\ UNCHANGED <<asks, alone, fresh>>
        BY <1>0, <2>5 DEF Return, Move, EvidenceTypeOK
      <4> QED BY <1>0, <4>1 DEF Placed
    <3>2. Placed(t)'
      BY <1>0, <1>1, <1>5, <3>1 DEF Placed
    <3>3. ASSUME alone'[t], NeedsIndex(asks[t])
          PROVE  Indexed(payload[current])
      <4>1. payload[current].matrix # NoTree
        BY <1>0, <3>1, <3>3 DEF Served
      <4>2. \A u \in Thread : at[u] \notin {"filling search", "filling behaviour"}
        BY <1>0, <3>1, <3>3 DEF Placed
      <4> QED BY <1>0, <3>1, <4>1, <4>2 DEF Completed, Indexed
    <3>4. alone'[t] => Served(t)'
      BY <1>0, <1>1, <3>1, <3>3 DEF Served, Indexed
    <3> QED BY <3>2, <3>4
  <2>6. CASE ReadFirst(t)
    <3>1. PICK p \in Payloads : p = payload[held[t]] /\ held[t] \in Thread
      <4>1. at[t] = "reading" /\ held[t] \in Thread
        BY <1>0, <2>6 DEF ReadFirst, Placed
      <4> QED BY <1>0, <4>1 DEF EvidenceTypeOK
    <3>2. /\ at[t] = "reading" /\ at'[t] = IF asks[t] = "matrix" THEN "reading on" ELSE "replied"
          /\ UNCHANGED <<asks, alone, fresh, held>>
          /\ UNCHANGED payload
          /\ answer'[t].verified = SaidVerified(t)
          /\ SaidVerified(t) => answer'[t].first = FirstPart(t)
      BY <1>0, <2>6, <3>1 DEF ReadFirst, Move, EvidenceTypeOK
    <3>3. Placed(t)'
      BY <1>0, <1>1, <1>5, <3>1, <3>2 DEF Placed
    <3>4. ASSUME alone[t], p.verified
          PROVE  /\ SaidVerified(t)
                 /\ IsVerified(Contents[tree])
                 /\ FirstPart(t) = tree
                 /\ asks[t] = "matrix" => p.behaviour # NoTree
      <4>1. /\ IsVerified(Contents[tree]) /\ p.metadata = tree
            /\ p.matrix \in {tree, NoTree} /\ p.search \in {tree, NoTree}
        BY <1>0, <3>1, <3>4 DEF Genuine
      <4>2. NeedsIndex(asks[t]) => Indexed(p)
        BY <1>0, <3>1, <3>2, <3>4 DEF Served
      <4>3. SaidVerified(t)
        BY <1>0, <3>1, <3>2, <3>4, <4>1 DEF SaidVerified, Served
      <4> QED BY <3>1, <4>1, <4>2, <4>3 DEF FirstPart, NeedsIndex, Indexed
    <3>5. alone'[t] => Served(t)'
      BY <1>0, <1>1, <3>1, <3>2, <3>4 DEF Served
    <3> QED BY <3>3, <3>5
  <2>7. CASE ReadOn(t)
    <3>1. held[t] \in Thread /\ asks[t] = "matrix"
      BY <1>0, <2>7 DEF ReadOn, Move, Placed
    <3>2. /\ at[t] = "reading on" /\ at'[t] = "replied" /\ UNCHANGED <<asks, alone>>
          /\ answer'[t].verified = answer[t].verified /\ answer'[t].first = answer[t].first
          /\ answer'[t].second = payload[held[t]].behaviour
      <4>1. /\ at[t] = "reading on" /\ at'[t] = "replied" /\ UNCHANGED <<asks, alone>>
            /\ answer' = [answer EXCEPT ![t].second = payload[held[t]].behaviour]
        BY <1>0, <2>7 DEF ReadOn, Move, EvidenceTypeOK
      <4>2. PICK a \in [verified : BOOLEAN, first : Found, second : Found] : a = answer[t]
        BY <1>0 DEF EvidenceTypeOK
      <4>3. PICK part : part = payload[held[t]].behaviour
        OBVIOUS
      <4>4. answer' = [answer EXCEPT ![t] = [a EXCEPT !.second = part]]
        BY <4>1, <4>2, <4>3
      <4>5. [a EXCEPT !.second = part] = [verified |-> a.verified, first |-> a.first, second |-> part]
        OBVIOUS
      <4>6. answer'[t] = [verified |-> a.verified, first |-> a.first, second |-> part]
        BY <1>0, <4>4, <4>5 DEF EvidenceTypeOK
      <4>7. answer'[t].verified = a.verified /\ answer'[t].first = a.first /\ answer'[t].second = part
        BY <4>6
      <4> QED BY <4>1, <4>2, <4>3, <4>7
    <3>3. Placed(t)'
      BY <1>0, <1>1, <1>5, <3>2 DEF Placed
    <3>4. ASSUME alone[t], payload[held[t]].verified
          PROVE  payload[held[t]].behaviour = tree
      BY <1>0, <3>1, <3>2, <3>4 DEF Served, Genuine
    <3>5. held'[t] = held[t] /\ payload' = payload /\ tree' = tree /\ fresh' = fresh
      BY <1>0, <2>7 DEF ReadOn
    <3>6. alone'[t] => Served(t)'
      BY <1>0, <1>1, <3>1, <3>2, <3>4, <3>5 DEF Served, NeedsIndex
    <3> QED BY <3>3, <3>6
  <2>8. CASE Replied(t)
    <3>1. at'[t] = "idle" /\ ~alone'[t]
      BY <1>0, <2>8 DEF Replied, Move, EvidenceTypeOK
    <3> QED BY <3>1 DEF Placed
  <2> QED BY <2>1, <2>2, <2>3, <2>4, <2>5, <2>6, <2>7, <2>8 DEF Walks
<1> QED BY <1>1, <1>2, <1>3, <1>4, <1>6, LocalStep

LEMMA VerifyStep ==
  ASSUME EvidenceInv, NEW t \in Thread, Verify(t), EvidenceTypeOK'
  PROVE  EvidenceInv'
<1>0. /\ EvidenceTypeOK /\ Genuine /\ Completed /\ Placed(t) /\ (alone[t] => Served(t))
      /\ \A u \in Thread : alone[u] => at[t] = "idle" \/ u = t
  BY DEF EvidenceInv, Placed
<1>1. /\ at[t] = "verifying" /\ at'[t] = "publishing" /\ current # t
      /\ UNCHANGED <<tree, current, alone, asks, fresh, held, answer>>
      /\ \A u \in Thread \ {t} : at'[u] = at[u] /\ payload'[u] = payload[u]
  BY <1>0 DEF Verify, Move, locals, EvidenceTypeOK, Placed
<1>2. PICK p : p = PayloadOf(tree, NeedsIndex(asks[t])) /\ p = payload'[t]
  BY <1>0 DEF Verify, EvidenceTypeOK
<1>3. /\ p.verified => /\ IsVerified(Contents[tree])
                       /\ p.metadata = tree
                       /\ p.matrix \in {tree, NoTree}
      /\ p.search = p.matrix /\ p.behaviour = p.matrix
      /\ p.verified /\ NeedsIndex(asks[t]) => p.matrix = tree
      /\ tree # NoTree
  <2>0. NeedsIndex(asks[t]) \in BOOLEAN
    BY DEF NeedsIndex
  <2>1. PICK b \in BOOLEAN : b = NeedsIndex(asks[t])
    BY <2>0
  <2>2. tree \in Tree /\ tree # NoTree
    BY <1>0, TreesAssumption DEF EvidenceTypeOK
  <2>3. p = PayloadOf(tree, b)
    BY <1>2, <2>1
  <2>4. /\ p.verified => IsVerified(Contents[tree]) /\ p.metadata = tree
        /\ p.matrix \in {tree, NoTree} /\ p.search = p.matrix /\ p.behaviour = p.matrix
        /\ p.verified /\ b => p.matrix = tree
    BY <2>2, <2>3, PayloadIsTyped
  <2> QED BY <2>1, <2>2, <2>4
<1>4. Local(t)
  BY <1>0, <1>1 DEF Local
<1>5. Genuine'
  BY <1>0, <1>1, <1>2, <1>3 DEF Genuine
<1>6. Completed'
  <2>1. \A u \in Thread : at[u] \in {"filling search", "filling behaviour"} => at'[u] = at[u]
    BY <1>1
  <2>2. current' = current /\ (current \in Thread => payload'[current] = payload[current])
    BY <1>1
  <2> QED BY <1>0, <2>1, <2>2 DEF Completed
<1>7. Placed(t)'
  BY <1>0, <1>1 DEF Placed
<1>8. Whole(t)'
  BY <1>1, <1>2, <1>3 DEF Whole, Indexed
<1>9. alone'[t] => Served(t)'
  BY <1>0, <1>1 DEF Served
<1> QED BY <1>4, <1>5, <1>6, <1>7, <1>8, <1>9, LocalStep

LEMMA PublishStep ==
  ASSUME EvidenceInv, NEW t \in Thread, Publish(t), EvidenceTypeOK'
  PROVE  EvidenceInv'
<1>0. /\ EvidenceTypeOK /\ Genuine /\ Completed /\ Placed(t) /\ Whole(t) /\ (alone[t] => Served(t))
      /\ \A u \in Thread : alone[u] => at[t] = "idle" \/ u = t
  BY DEF EvidenceInv, Placed
<1>1. /\ at[t] = "publishing" /\ at'[t] = "reading" /\ current' = t /\ held'[t] = t
      /\ UNCHANGED <<tree, payload, alone, asks, fresh, answer>>
      /\ \A u \in Thread \ {t} : at'[u] = at[u] /\ held'[u] = held[u]
  BY <1>0 DEF Publish, Move, EvidenceTypeOK
<1>2. Local(t)
  BY <1>0, <1>1 DEF Local
<1>3. Genuine'
  BY <1>0, <1>1 DEF Genuine
<1>4. payload[t].matrix # NoTree => Indexed(payload[t])
  BY <1>0, <1>1 DEF Whole
<1>5. Completed'
  BY <1>1, <1>4 DEF Completed, Indexed
<1>6. Placed(t)'
  BY <1>0, <1>1 DEF Placed
<1>7. Whole(t)'
  BY <1>1 DEF Whole
<1>8. alone'[t] => Served(t)'
  BY <1>0, <1>1 DEF Served, Whole, Indexed
<1> QED BY <1>2, <1>3, <1>5, <1>6, <1>7, <1>8, LocalStep

LEMMA PartsOfPayload ==
  ASSUME NEW p \in Payloads, NEW f
  PROVE  /\ [p EXCEPT !.matrix = f] =
              [verified |-> p.verified, metadata |-> p.metadata, matrix |-> f, search |-> p.search,
               behaviour |-> p.behaviour]
         /\ [p EXCEPT !.search = f] =
              [verified |-> p.verified, metadata |-> p.metadata, matrix |-> p.matrix, search |-> f,
               behaviour |-> p.behaviour]
         /\ [p EXCEPT !.behaviour = f] =
              [verified |-> p.verified, metadata |-> p.metadata, matrix |-> p.matrix,
               search |-> p.search, behaviour |-> f]
BY DEF Payloads

LEMMA FillStep ==
  ASSUME EvidenceInv, NEW t \in Thread, Fills(t), EvidenceTypeOK'
  PROVE  EvidenceInv'
<1>0. /\ EvidenceTypeOK /\ Genuine /\ Completed /\ Placed(t) /\ (alone[t] => Served(t))
      /\ \A u \in Thread : Placed(u)
      /\ \A u \in Thread : alone[u] => at[t] = "idle" \/ u = t
  BY DEF EvidenceInv, Placed
<1>1. PICK c \in Thread : c = current
  BY <1>0, FillsAPart
<1>2. PICK p \in Payloads, q \in Payloads : p = payload[c] /\ q = payload'[c]
  BY <1>0, <1>1 DEF EvidenceTypeOK
<1>3. /\ UNCHANGED <<tree, current, alone, asks, fresh, held, answer>>
      /\ \A u \in Thread \ {c} : payload'[u] = payload[u]
  BY <1>0, <1>1, FillsAPart DEF locals
<1>4. \/ at[t] = "indexing" /\ at'[t] = "filling search" /\ q = [p EXCEPT !.matrix = tree]
      \/ at[t] = "filling search" /\ at'[t] = "filling behaviour" /\ q = [p EXCEPT !.search = tree]
      \/ at[t] = "filling behaviour" /\ at'[t] = "returning" /\ q = [p EXCEPT !.behaviour = tree]
  <2>1. \/ /\ at[t] = "indexing" /\ at' = [at EXCEPT ![t] = "filling search"]
           /\ payload' = [payload EXCEPT ![c] = [p EXCEPT !.matrix = tree]]
        \/ /\ at[t] = "filling search" /\ at' = [at EXCEPT ![t] = "filling behaviour"]
           /\ payload' = [payload EXCEPT ![c] = [p EXCEPT !.search = tree]]
        \/ /\ at[t] = "filling behaviour" /\ at' = [at EXCEPT ![t] = "returning"]
           /\ payload' = [payload EXCEPT ![c] = [p EXCEPT !.behaviour = tree]]
    BY <1>0, <1>1, <1>2, FillsAPart
  <2>2. at \in [Thread -> Stage] /\ payload \in [Thread -> Payloads]
    BY <1>0 DEF EvidenceTypeOK
  <2> QED BY <1>2, <2>1, <2>2
<1>5. \A u \in Thread \ {t} : at'[u] = at[u]
  <2>1. \E s : at' = [at EXCEPT ![t] = s]
    BY <1>0, FillsAPart
  <2>2. at \in [Thread -> Stage]
    BY <1>0 DEF EvidenceTypeOK
  <2> QED BY <2>1, <2>2
<1>6. tree # NoTree
  BY <1>0, TreesAssumption DEF EvidenceTypeOK
<1>7. /\ q.verified = p.verified /\ q.metadata = p.metadata
      /\ q.matrix \in {p.matrix, tree} /\ q.search \in {p.search, tree}
      /\ q.behaviour \in {p.behaviour, tree}
      /\ at[t] = "indexing" => q.matrix = tree
      /\ at[t] # "indexing" => q.matrix = p.matrix
      /\ at[t] = "filling search" => q.search = tree
      /\ at[t] = "filling behaviour" => q.behaviour = tree
  <2>1. CASE at[t] = "indexing"
    <3>1. q = [p EXCEPT !.matrix = tree]
      BY <1>4, <2>1
    <3>2. q = [verified |-> p.verified, metadata |-> p.metadata, matrix |-> tree,
               search |-> p.search, behaviour |-> p.behaviour]
      BY <3>1, PartsOfPayload
    <3> QED BY <2>1, <3>2
  <2>2. CASE at[t] = "filling search"
    <3>1. q = [p EXCEPT !.search = tree]
      BY <1>4, <2>2
    <3>2. q = [verified |-> p.verified, metadata |-> p.metadata, matrix |-> p.matrix,
               search |-> tree, behaviour |-> p.behaviour]
      BY <3>1, PartsOfPayload
    <3> QED BY <2>2, <3>2
  <2>3. CASE at[t] = "filling behaviour"
    <3>1. q = [p EXCEPT !.behaviour = tree]
      BY <1>4, <2>3
    <3>2. q = [verified |-> p.verified, metadata |-> p.metadata, matrix |-> p.matrix,
               search |-> p.search, behaviour |-> tree]
      BY <3>1, PartsOfPayload
    <3> QED BY <2>3, <3>2
  <2> QED BY <1>4, <2>1, <2>2, <2>3
<1>8. Local(t)
  BY <1>0, <1>1, <1>3, <1>4, <1>5 DEF Local
<1>9. Genuine'
  <2> SUFFICES ASSUME NEW u \in Thread, payload'[u].verified
               PROVE  /\ IsVerified(Contents[tree]) /\ payload'[u].metadata = tree
                      /\ payload'[u].matrix \in {tree, NoTree} /\ payload'[u].search \in {tree, NoTree}
                      /\ payload'[u].behaviour \in {tree, NoTree}
    BY <1>3 DEF Genuine
  <2>1. payload[u].verified
    BY <1>2, <1>3, <1>7
  <2>2. /\ IsVerified(Contents[tree]) /\ payload[u].metadata = tree
        /\ payload[u].matrix \in {tree, NoTree} /\ payload[u].search \in {tree, NoTree}
        /\ payload[u].behaviour \in {tree, NoTree}
    BY <1>0, <2>1 DEF Genuine
  <2> QED BY <1>2, <1>3, <1>7, <2>2
<1>10. Completed'
  <2>1. q.matrix # NoTree => q.search # NoTree \/ \E u \in Thread : at'[u] = "filling search"
    <3>1. CASE at[t] = "indexing"
      BY <1>4, <3>1
    <3>2. CASE at[t] = "filling search"
      BY <1>6, <1>7, <3>2
    <3>3. CASE at[t] = "filling behaviour"
      <4>1. p.matrix = q.matrix /\ q.search \in {p.search, tree}
        BY <1>7, <3>3
      <4>2. p.matrix # NoTree => p.search # NoTree \/ \E u \in Thread : at[u] = "filling search"
        BY <1>0, <1>1, <1>2, <4>1 DEF Completed
      <4>3. \A u \in Thread : at[u] = "filling search" => at'[u] = at[u]
        BY <1>5, <3>3
      <4> QED BY <1>6, <4>1, <4>2, <4>3
    <3> QED BY <1>4, <3>1, <3>2, <3>3
  <2>2. q.behaviour # NoTree \/ \E u \in Thread : at'[u] \in {"filling search", "filling behaviour"}
    BY <1>4, <1>6, <1>7
  <2> QED BY <1>1, <1>2, <1>3, <2>1, <2>2 DEF Completed
<1>11. Placed(t)'
  <2>1. alone'[t] => \A u \in Thread \ {t} : at'[u] = "idle"
    <3>1. alone[t] => \A u \in Thread \ {t} : at[u] = "idle"
      BY <1>0 DEF Placed
    <3> QED BY <1>3, <1>5, <3>1
  <2>2. current' \in Thread /\ at'[t] \in {"filling search", "filling behaviour", "returning"}
    BY <1>1, <1>3, <1>4
  <2> QED BY <2>1, <2>2 DEF Placed
<1>12. Whole(t)'
  BY <1>4 DEF Whole
<1>13. alone'[t] => Served(t)'
  BY <1>0, <1>1, <1>2, <1>3, <1>4, <1>6, <1>7 DEF Served
<1> QED BY <1>8, <1>9, <1>10, <1>11, <1>12, <1>13, LocalStep

LEMMA EvidenceStep == EvidenceInv /\ [EvidenceNext]_evidenceVars => EvidenceInv'
<1> SUFFICES ASSUME EvidenceInv, [EvidenceNext]_evidenceVars
             PROVE  EvidenceInv'
  OBVIOUS
<1>1. CASE UNCHANGED evidenceVars
  <2>1. /\ UNCHANGED <<tree, payload, current, at, asks, fresh, held, answer, alone>>
        /\ EvidenceTypeOK /\ Genuine /\ Completed
    BY <1>1 DEF evidenceVars, EvidenceInv
  <2>2. EvidenceTypeOK'
    BY <2>1 DEF EvidenceTypeOK
  <2>3. Genuine' /\ Completed'
    BY <2>1 DEF Genuine, Completed
  <2>4. ASSUME NEW t \in Thread
        PROVE  Placed(t)' /\ Whole(t)' /\ (alone'[t] => Served(t)')
    <3>1. Placed(t) /\ Whole(t) /\ (alone[t] => Served(t))
      BY DEF EvidenceInv
    <3>2. Placed(t)' /\ Whole(t)'
      BY <2>1, <3>1 DEF Placed, Whole, Indexed
    <3>3. alone'[t] => Served(t)'
      BY <2>1, <3>1 DEF Served, Indexed
    <3> QED BY <3>2, <3>3
  <2> QED BY <2>2, <2>3, <2>4 DEF EvidenceInv
<1>2. CASE EvidenceNext
  <2>1. EvidenceTypeOK'
    BY <1>2, EvidenceTypeStep DEF EvidenceInv
  <2>2. CASE Mount
    BY <2>1, <2>2, MountStep
  <2>3. ASSUME NEW t \in Thread, Walks(t) \/ Verify(t) \/ Publish(t) \/ Fills(t)
        PROVE  EvidenceInv'
    BY <2>1, <2>3, WalkStep, VerifyStep, PublishStep, FillStep
  <2> QED BY <1>2, <2>2, <2>3 DEF EvidenceNext, Walks, Fills
<1> QED BY <1>1, <1>2

LEMMA EvidenceStart == ServerInit => EvidenceInv
<1> SUFFICES ASSUME ServerInit
             PROVE  EvidenceInv
  OBVIOUS
<1>1. Nobody \notin Thread
  BY TreesAssumption
<1>2. NoPayload \in Payloads /\ NoAnswer \in [verified : BOOLEAN, first : Found, second : Found]
  BY DEF NoPayload, NoAnswer, Payloads, Found
<1>3. \A t \in Thread : payload[t] = NoPayload /\ at[t] = "idle" /\ ~alone[t]
  BY DEF ServerInit
<1>4. EvidenceTypeOK
  BY <1>2 DEF ServerInit, EvidenceTypeOK, Stage
<1>5. Genuine
  BY <1>3 DEF Genuine, NoPayload
<1>6. Completed
  BY <1>1 DEF ServerInit, Completed
<1>7. \A t \in Thread : Placed(t) /\ Whole(t)
  BY <1>3 DEF Placed, Whole
<1> QED BY <1>3, <1>4, <1>5, <1>6, <1>7 DEF EvidenceInv

LEMMA EvidenceIsKept == ServerSpec => []EvidenceInv
<1>1. EvidenceInv /\ [ServerNext]_<<vars, side, evidenceVars>> => EvidenceInv'
  BY EvidenceStep DEF ServerNext
<1> QED BY <1>1, EvidenceStart, PTL DEF ServerSpec

-----------------------------------------------------------------------------
(* What is worked out from a complete tree.                                *)

\* The cells of a tree that is verified are all there, and have the M-10 of their pair.
LEMMA VerifiedIsPaired ==
  ASSUME tree \in Tree, IsVerified(Contents[tree])
  PROVE  /\ DOMAIN Contents[tree].cells = Place
         /\ \A p \in Place : M10At(Contents[tree], p) = Paired(p)
<1>1. DOMAIN Contents[tree].cells = Place
  BY DEF IsVerified
<1>2. ASSUME NEW p \in Place
      PROVE  M10At(Contents[tree], p) = Paired(p)
  <2>1. <<p[1], p[2], Reference>> \in Place
    BY EvidenceAssumption DEF Place
  <2>2. ReferenceNet(Contents[tree], p) = Contents[tree].cells[<<p[1], p[2], Reference>>].net
    BY <1>1, <2>1 DEF ReferenceNet
  <2>3. Contents[tree].cells[p].stored # NotStored => Contents[tree].cells[p].stored = Paired(p)
    BY TreesAssumption DEF Paired
  <2> QED BY <2>2, <2>3 DEF M10At, M10, Paired
<1> QED BY <1>1, <1>2

LEMMA MatrixIsOfTree ==
  ASSUME tree \in Tree, IsVerified(Contents[tree])
  PROVE  MatrixAgrees(tree)
<1> SUFFICES ASSUME NEW p \in Profiles, NEW a \in Arms
             PROVE  Matrix(Contents[tree])[p][a].m10 = [s \in Seeds |-> Paired(<<s, p, a>>)]
  BY DEF MatrixAgrees
<1>1. \A s \in Seeds : <<s, p, a>> \in Place
  BY DEF Place
<1>2. {s \in Seeds : <<s, p, a>> \in DOMAIN Contents[tree].cells} = Seeds
  BY <1>1, VerifiedIsPaired
<1>3. Group(Contents[tree], p, a).m10 = [s \in Seeds |-> M10At(Contents[tree], <<s, p, a>>)]
  BY <1>2 DEF Group
<1>4. Matrix(Contents[tree])[p][a] = Group(Contents[tree], p, a)
  BY DEF Matrix
<1> QED BY <1>1, <1>3, <1>4, VerifiedIsPaired

LEMMA SearchIsOfTree ==
  ASSUME tree \in Tree, IsVerified(Contents[tree])
  PROVE  SearchAgrees(tree)
<1> SUFFICES ASSUME NEW q \in Queries \ {{}}
             PROVE  LET found == Search(SearchIndex(Contents[tree]), q).rows
                    IN  /\ \A r \in found : /\ r.m10 = Paired(r.place)
                                            /\ r.m10 = CellPage(Contents[tree], r.place).m10
                        /\ {r.place : r \in found} =
                             {p \in Place : \A k \in q :
                                Answers([place |-> p, cell |-> Contents[tree].cells[p].index], k)}
  BY DEF SearchAgrees
<1> DEFINE cells  == Contents[tree].cells
           row(p) == [place |-> p, cell |-> cells[p].index, m10 |-> M10At(Contents[tree], p),
                      valid |-> cells[p].valid, net |-> cells[p].net]
           found  == Search(SearchIndex(Contents[tree]), q).rows
           answers(p) == \A k \in q : Answers([place |-> p, cell |-> cells[p].index], k)
<1>1. found = {r \in SearchIndex(Contents[tree]) : \A k \in q : Answers(r, k)}
  BY DEF Search
<1>2. SearchIndex(Contents[tree]) = {row(p) : p \in Place}
  BY VerifiedIsPaired DEF SearchIndex
<1>3. \A p : row(p).place = p /\ row(p).cell = cells[p].index /\ row(p).m10 = M10At(Contents[tree], p)
  OBVIOUS
<1>4. \A p : (\A k \in q : Answers(row(p), k)) <=> answers(p)
  BY DEF Answers
<1> HIDE DEF row, answers, found
<1>5. \A r \in found : \E p \in Place : r = row(p) /\ answers(p)
  BY <1>1, <1>2, <1>4
<1>6. \A p \in Place : answers(p) => row(p) \in found
  BY <1>1, <1>2, <1>4
<1>7. {r.place : r \in found} = {p \in Place : answers(p)}
  BY <1>3, <1>5, <1>6
<1>8. ASSUME NEW r \in found
      PROVE  r.m10 = Paired(r.place) /\ r.m10 = CellPage(Contents[tree], r.place).m10
  <2>1. PICK p \in Place : r = row(p)
    BY <1>5
  <2>2. r.place = p /\ r.m10 = M10At(Contents[tree], p)
    BY <1>3, <2>1
  <2>3. CellPage(Contents[tree], p).m10 = M10At(Contents[tree], p)
    BY VerifiedIsPaired DEF CellPage
  <2> QED BY <2>2, <2>3, VerifiedIsPaired
<1> QED BY <1>7, <1>8 DEF answers, found

LEMMA BehaviourIsOfTree ==
  ASSUME tree \in Tree, IsVerified(Contents[tree])
  PROVE  BehaviourAgrees(tree)
<1>1. ASSUME NEW a \in Arms
      PROVE  CellsOf(Contents[tree], a) # {}
  <2>1. PICK s \in Seeds, p \in Profiles : TRUE
    BY EvidenceAssumption
  <2>2. <<s, p, a>> \in Place
    BY DEF Place
  <2> QED BY <2>2, VerifiedIsPaired DEF CellsOf
<1>2. \A a : BehaviourOf(Contents[tree], a).arm = a
  BY DEF BehaviourOf
<1>3. {a \in Arms : CellsOf(Contents[tree], a) # {}} = Arms
  BY <1>1
<1>4. Behaviour(Contents[tree]) = {BehaviourOf(Contents[tree], a) : a \in Arms}
  BY <1>3 DEF Behaviour
<1>5. {b.arm : b \in Behaviour(Contents[tree])} = Arms
  BY <1>2, <1>4
<1> QED BY <1>5 DEF BehaviourAgrees

(* AnswersAreWhole: whatever requests have raced before, a request that no *)
(* other is handled beside and that finds verified evidence in the cache   *)
(* gets the whole of it, each cell with its own difference to the          *)
(* reference, and the lab says the same of it as the cache, for any        *)
(* threads, trees and queries (official_evidence.py:286-397).              *)
THEOREM AnswersHold == ServerSpec => []AnswersAreWhole
<1>1. ASSUME EvidenceInv
      PROVE  AnswersAreWhole
  <2> SUFFICES ASSUME NEW t \in Thread, at[t] = "replied", alone[t], payload[held[t]].verified
               PROVE  /\ answer[t].verified /\ answer[t].first # NoTree
                      /\ asks[t] = "matrix" => /\ MatrixAgrees(answer[t].first)
                                               /\ answer[t].second # NoTree
                                               /\ BehaviourAgrees(answer[t].second)
                      /\ asks[t] = "search" => SearchAgrees(answer[t].first)
    BY DEF AnswersAreWhole
  <2>1. tree \in Tree /\ tree # NoTree
    BY <1>1, TreesAssumption DEF EvidenceInv, EvidenceTypeOK
  <2>2. /\ IsVerified(Contents[tree]) /\ answer[t].verified /\ answer[t].first = tree
        /\ asks[t] = "matrix" => answer[t].second = tree
    BY <1>1 DEF EvidenceInv, Served
  <2>3. MatrixAgrees(tree) /\ SearchAgrees(tree) /\ BehaviourAgrees(tree)
    BY <2>1, <2>2, MatrixIsOfTree, SearchIsOfTree, BehaviourIsOfTree
  <2> QED BY <2>1, <2>2, <2>3
<1> QED BY <1>1, EvidenceIsKept, PTL
=============================================================================
