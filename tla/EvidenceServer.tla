--------------------------- MODULE EvidenceServer ---------------------------
(***************************************************************************)
(* The handlers of /api/benchmark of the sandbox server (product/server.py *)
(* and benchmark_lab.py) and the cache of the evidence they share          *)
(* (product/official_evidence.py), together with the handlers of module    *)
(* ControlRoom.                                                            *)
(*                                                                         *)
(* Payloads are dictionaries that threads hold references to: each thread  *)
(* makes at most one, as there is a payload for ever once one is published *)
(* (nothing of the server calls invalidate_cache).  The index is made      *)
(* under a lock when it is first asked for, and put into whatever payload  *)
(* is current, part after part; payloads are published without the lock.   *)
(***************************************************************************)
EXTENDS ControlRoom, OfficialEvidence

CONSTANTS
  Tree,    \* what may be found at the directory of the evidence,
  Contents,\* and what it holds
  Queries, \* the tokens of queries
  NoTree

VARIABLES
  side,     \* which handlers are looked at: "session" or "evidence"
  tree,
  payload,  \* the payload each thread has made
  current,  \* _CACHE: the thread whose payload is published, or Nobody
  lock,     \* who holds _INDEX_LOCK, or Nobody
  at,       \* what each thread is at
  asks,     \* what its request is for
  fresh,    \* the verification that benchmark_lab makes for itself
  held,     \* whose payload it answers from
  answer,
  alone     \* history: no other request was handled beside it

evidenceVars == <<tree, payload, current, lock, at, asks, fresh, held, answer, alone>>
locals       == <<asks, fresh, held, answer>>

Nobody == "nobody"
Kinds  == {"summary", "lab", "matrix", "search"}

NoPayload == [verified |-> FALSE, metadata |-> NoTree, matrix |-> NoTree, search |-> NoTree,
              behaviour |-> NoTree]
NoAnswer  == [verified |-> FALSE, first |-> NoTree, second |-> NoTree]

\* Of a complete tree, an M-10 that is stored is the one that the benchmark works
\* out (benchmark/official/metrics.py:223).
ASSUME TreesAssumption ==
  /\ Nobody \notin Thread /\ NoTree \notin Tree
  /\ \A t \in Tree : DOMAIN Contents[t].cells \subseteq Place /\ Contents[t].papers \subseteq Papers
  /\ \A t \in Tree : IsVerified(Contents[t]) =>
       \A p \in Place :
         LET cells == Contents[t].cells
         IN  cells[p].stored # NotStored =>
               cells[p].stored = cells[p].net - cells[<<p[1], p[2], Reference>>].net

\* The two sides share no variable, so that a step of one never matters to the
\* other: the overview, which shows something of both, asks one after the other.
ServerInit ==
  /\ Init
  /\ side \in {"session", "evidence"}
  /\ side = "evidence" => keyed   \* which is nothing to it
  /\ tree \in Tree
  /\ payload = [t \in Thread |-> NoPayload]
  /\ current = Nobody /\ lock = Nobody
  /\ at = [t \in Thread |-> "idle"] /\ asks = [t \in Thread |-> "none"]
  /\ fresh = [t \in Thread |-> FALSE]
  /\ held = [t \in Thread |-> Nobody]
  /\ answer = [t \in Thread |-> NoAnswer]
  /\ alone = [t \in Thread |-> FALSE]

Move(t, from, to) == at[t] = from /\ at' = [at EXCEPT ![t] = to]

\* The evidence is supplied while the server runs, but not while it is being read:
\* an index of the empty directory could be put into a verified payload then.
Mount ==
  /\ ~Contents[tree].mounted /\ \A t \in Thread : at[t] = "idle"
  /\ tree' \in {u \in Tree : Contents[u].mounted}
  /\ UNCHANGED <<payload, current, lock, at, alone, locals>>

-----------------------------------------------------------------------------
(* _handle_official_get, and the GET of the lab.                           *)

NeedsIndex(kind) == kind \in {"matrix", "search"}

\* The first lines of _cache.
LookUp(kind) ==
  IF current = Nobody THEN "verifying"
  ELSE IF NeedsIndex(kind) /\ payload[current].matrix = NoTree THEN "waiting" ELSE "returning"

\* A request for a cell that exists asks for the index as a search does, and then
\* reads no more of the payload than whether it is verified.
Arrive(t, kind) ==
  /\ Move(t, "idle", IF kind = "lab" THEN "classifying" ELSE LookUp(kind))
  /\ asks' = [asks EXCEPT ![t] = kind]
  /\ alone' = [u \in Thread |-> u = t /\ \A v \in Thread \ {t} : at[v] = "idle"]
  /\ UNCHANGED <<tree, payload, current, lock, fresh, held, answer>>

\* benchmark_lab verifies the tree each time, before it asks for the summary.
Classify(t) ==
  /\ Move(t, "classifying", "classified")
  /\ fresh' = [fresh EXCEPT ![t] = IsVerified(Contents[tree])]
  /\ UNCHANGED <<tree, payload, current, lock, asks, held, answer, alone>>

Summarise(t) ==
  /\ Move(t, "classified", LookUp("summary"))
  /\ UNCHANGED <<tree, payload, current, lock, alone, locals>>

-----------------------------------------------------------------------------
(* The slow path: there is no payload yet.                                 *)

\* Mutant of PayloadOf: only the matrix of the index is put into it.
PayloadOfMatrix(f, withIndex) ==
  IF ~IsVerified(Contents[f]) THEN NoPayload
  ELSE [NoPayload EXCEPT !.verified = TRUE, !.metadata = f,
                         !.matrix = IF withIndex THEN f ELSE NoTree]

\* A tree that is not verified is not read any further.
PayloadOf(f, withIndex) ==
  LET index == IF withIndex THEN f ELSE NoTree
  IN  IF ~IsVerified(Contents[f]) THEN NoPayload
      ELSE [verified |-> TRUE, metadata |-> f, matrix |-> index, search |-> index, behaviour |-> index]

Verify(t) ==
  /\ Move(t, "verifying", "publishing")
  /\ payload' = [payload EXCEPT ![t] = PayloadOf(tree, NeedsIndex(asks[t]))]
  /\ UNCHANGED <<tree, current, lock, alone, locals>>

\* What another thread has published meanwhile is replaced.
Publish(t) ==
  /\ Move(t, "publishing", "reading")
  /\ current' = t
  /\ held' = [held EXCEPT ![t] = t]
  /\ UNCHANGED <<tree, payload, lock, asks, fresh, answer, alone>>

-----------------------------------------------------------------------------
(* The index is still to be made, also of a tree that is not verified.     *)

Acquire(t) ==
  /\ at[t] = "waiting" /\ lock = Nobody
  /\ IF payload[current].matrix = NoTree
     THEN Move(t, "waiting", "indexing") /\ lock' = t
     ELSE Move(t, "waiting", "returning") /\ UNCHANGED lock
  /\ UNCHANGED <<tree, payload, current, alone, locals>>

Fill(t, part) ==
  /\ payload' = [payload EXCEPT ![current][part] = tree]
  /\ UNCHANGED <<tree, current, alone, locals>>

FillMatrix(t) == Move(t, "indexing", "filling search") /\ Fill(t, "matrix") /\ UNCHANGED lock

FillSearch(t) ==
  Move(t, "filling search", "filling behaviour") /\ Fill(t, "search") /\ UNCHANGED lock

FillBehaviour(t) ==
  Move(t, "filling behaviour", "returning") /\ Fill(t, "behaviour") /\ lock' = Nobody

\* return _CACHE, which may be another payload by now.
Return(t) ==
  /\ Move(t, "returning", "reading")
  /\ held' = [held EXCEPT ![t] = current]
  /\ UNCHANGED <<tree, payload, current, lock, asks, fresh, answer, alone>>

-----------------------------------------------------------------------------
(* The answer is read from the payload.                                    *)

FirstPart(t) ==
  CASE asks[t] = "matrix" -> payload[held[t]].matrix
    [] asks[t] = "search" -> payload[held[t]].search
    [] OTHER              -> payload[held[t]].metadata

\* The lab goes by its own verification; the others by that of the payload.
SaidVerified(t) == IF asks[t] = "lab" THEN fresh[t] ELSE payload[held[t]].verified

\* Nothing is searched, and nothing shown by the lab, of evidence that is not
\* said to be verified.
ReadFirst(t) ==
  /\ at[t] = "reading"
  /\ Move(t, "reading", IF asks[t] = "matrix" THEN "reading on" ELSE "replied")
  /\ answer' = [answer EXCEPT ![t] =
                  [verified |-> SaidVerified(t), second |-> NoTree,
                   first |-> IF asks[t] \in {"search", "lab"} /\ ~SaidVerified(t) THEN NoTree
                             ELSE FirstPart(t)]]
  /\ UNCHANGED <<tree, payload, current, lock, asks, fresh, held, alone>>

\* official_matrix goes on to the behaviour of the arms.
ReadOn(t) ==
  /\ Move(t, "reading on", "replied")
  /\ answer' = [answer EXCEPT ![t].second = payload[held[t]].behaviour]
  /\ UNCHANGED <<tree, payload, current, lock, asks, fresh, held, alone>>

Replied(t) ==
  /\ Move(t, "replied", "idle")
  /\ asks' = [asks EXCEPT ![t] = "none"] /\ fresh' = [fresh EXCEPT ![t] = FALSE]
  /\ held' = [held EXCEPT ![t] = Nobody] /\ answer' = [answer EXCEPT ![t] = NoAnswer]
  /\ alone' = [alone EXCEPT ![t] = FALSE]
  /\ UNCHANGED <<tree, payload, current, lock>>

EvidenceNext ==
  \/ Mount
  \/ \E t \in Thread :
       \/ \E kind \in Kinds : Arrive(t, kind)
       \/ Classify(t) \/ Summarise(t)
       \/ Verify(t) \/ Publish(t)
       \/ Acquire(t) \/ FillMatrix(t) \/ FillSearch(t) \/ FillBehaviour(t)
       \/ Return(t) \/ ReadFirst(t) \/ ReadOn(t) \/ Replied(t)

ServerNext ==
  \/ side = "session"  /\ Next         /\ UNCHANGED <<side, evidenceVars>>
  \/ side = "evidence" /\ EvidenceNext /\ UNCHANGED <<side, vars>>

ServerSpec == ServerInit /\ [][ServerNext]_<<vars, side, evidenceVars>>

-----------------------------------------------------------------------------
\* M-10: what the cell recovered above doing nothing with the same seed and profile.
Paired(place) ==
  LET cells == Contents[tree].cells
  IN  cells[place].net - cells[<<place[1], place[2], Reference>>].net

\* Every cell has its place in the matrix.
MatrixAgrees(f) ==
  \A p \in Profiles, a \in Arms :
    Matrix(Contents[f])[p][a].m10 = [s \in Seeds |-> Paired(<<s, p, a>>)]

\* A query finds every cell that it describes, and the figure of its page.
SearchAgrees(f) ==
  \A q \in Queries \ {{}} :
    LET found == Search(SearchIndex(Contents[f]), q).rows
    IN  /\ \A r \in found : r.m10 = Paired(r.place) /\ r.m10 = CellPage(Contents[tree], r.place).m10
        /\ {r.place : r \in found} =
             {p \in Place : \A k \in q : Answers([place |-> p, cell |-> Contents[tree].cells[p].index], k)}

\* Every arm is accounted for, and the arms have the net of their cells.
BehaviourAgrees(f) ==
  {b.arm : b \in Behaviour(Contents[f])} = Arms

(* Whatever requests have raced before, a request that no other is handled *)
(* beside, and that finds verified evidence in the cache, says so and gets *)
(* the whole of it: the matrix with every cell and with the behaviour of   *)
(* every arm, and a search of all cells, each with the difference to the   *)
(* reference of its own seed and profile ("M-10 = NetRecovered(policy) -   *)
(* NetRecovered(B0)", official_evidence.py:34-37).  The lab, which says    *)
(* what it has verified for itself (benchmark_lab.py:131-133), agrees.     *)
AnswersAreWhole ==
  \A t \in Thread :
    at[t] = "replied" /\ alone[t] /\ payload[held[t]].verified =>
      /\ answer[t].verified /\ answer[t].first # NoTree
      /\ asks[t] = "matrix" => /\ MatrixAgrees(answer[t].first)
                               /\ answer[t].second # NoTree
                               /\ BehaviourAgrees(answer[t].second)
      /\ asks[t] = "search" => SearchAgrees(answer[t].first)
=============================================================================
