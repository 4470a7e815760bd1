---------------------------- MODULE Intelligence ----------------------------
(***************************************************************************)
(* The diagnosis that the sandbox asks an external model for,              *)
(* product/intelligence: what of an answer is accepted (schemas.py), and   *)
(* what the engine's own diagnosis gives instead (diagnosis.py).           *)
(*                                                                         *)
(* A fact is a key with its value, or a value long enough to be told from  *)
(* others; a claim is known by the facts that its text names, or that it   *)
(* is a piece of.  Confidences are left out but for being in range.        *)
(* Lists are sequences as far as their order decides what is kept of them, *)
(* and sets in a proposal, of which nothing reads the order.               *)
(***************************************************************************)
EXTENDS Integers, FiniteSets, SequencesExt

CONSTANTS
  Cause, Unclassified,   \* CauseCode
  Action, NoAction,      \* ActionCode; NoAction is A00
  Fact,
  ClaimCap,      \* claims of a kind that are kept (12)
  CandidateCap,  \* candidates of an answer that are looked at (6)
  FactsShown,    \* facts that the engine's own diagnosis shows (8)
  CandidatesShown \* candidates it looks at (4)

ASSUME IntelligenceAssumption ==
  /\ Unclassified \in Cause /\ NoAction \in Action
  /\ {ClaimCap, CandidateCap, FactsShown, CandidatesShown} \subseteq Nat

Claim == SUBSET Fact

\* Of a trace: the ranked causes, candidates and evidence, each in its order.
IsTrace(t) ==
  /\ t.causes \in Seq(Cause)
  /\ t.candidates \in Seq(Action)
  /\ t.evidence \in Seq(Fact)
  /\ t.context \subseteq Fact

\* A JSON object that may be a proposal.  What is no object among its
\* candidates has object FALSE; reasoned is a reason that is not empty.
IsPayload(p) ==
  /\ p.inRange \in BOOLEAN
  /\ \A c \in ToSet(p.candidates) : c.object \in BOOLEAN /\ c.reasoned \in BOOLEAN
  /\ p.observed \in Seq(Claim)
  /\ p.notes \in Seq(Claim)

Statuses == {"none", "AI_COMPLETED", "AI_UNAVAILABLE", "DETERMINISTIC_FALLBACK"}

Take(s, n) == SubSeq(s, 1, IF n < Len(s) THEN n ELSE Len(s))

-----------------------------------------------------------------------------
(* parse_proposal.                                                         *)

IsGrounded(trace, claim) == claim \cap (ToSet(trace.evidence) \cup trace.context) # {}

\* Of the candidates, those past the first few are not looked at.
Listed(payload) == {c \in ToSet(Take(payload.candidates, CandidateCap)) : c.object}

\* Mutant of IsAccepted: whose opportunity the answer is about is not compared.
IsAcceptedForAny(trace, payload) ==
  /\ payload.cause \in Cause
  /\ payload.inRange
  /\ \A c \in Listed(payload) : c.action \in Action /\ c.reasoned

IsAccepted(trace, payload) ==
  /\ payload.id = trace.id
  /\ payload.cause \in Cause
  /\ payload.inRange
  /\ \A c \in Listed(payload) : c.action \in Action /\ c.reasoned

\* What is claimed to be observed and is not in the trace becomes a note, after
\* the notes of the answer and as long as there is room.
Parsed(trace, payload) ==
  LET claims == Take(payload.observed, ClaimCap)
      notes  == Take(payload.notes, ClaimCap)
      unheld == {i \in DOMAIN claims : ~IsGrounded(trace, claims[i])}
      noted  == {i \in unheld : Len(notes) + Cardinality({j \in unheld : j <= i}) <= ClaimCap}
  IN  [id         |-> payload.id,
       cause      |-> payload.cause,
       candidates |-> {c.action : c \in Listed(payload)},
       observed   |-> {claims[i] : i \in DOMAIN claims \ unheld},
       notes      |-> ToSet(notes) \cup {claims[i] : i \in noted}]

\* deterministic_fallback.
OwnDiagnosis(trace) ==
  [id         |-> trace.id,
   cause      |-> IF trace.causes = <<>> THEN Unclassified ELSE Head(trace.causes),
   candidates |-> ToSet(Take(trace.candidates, CandidatesShown)) \ {NoAction},
   observed   |-> {{fact} : fact \in ToSet(Take(trace.evidence, FactsShown))},
   notes      |-> {}]

\* diagnose_opportunity, given the answer of the model.
Judged(trace, payload) ==
  IF IsAccepted(trace, payload)
  THEN [status |-> "AI_COMPLETED", proposal |-> Parsed(trace, payload)]
  ELSE [status |-> "AI_UNAVAILABLE", proposal |-> OwnDiagnosis(trace)]

Fallback(trace, status) == [status |-> status, proposal |-> OwnDiagnosis(trace)]

-----------------------------------------------------------------------------
\* A diagnosis names its opportunity, a cause and actions of the closed lists,
\* and observes what is in the trace; without a model it is the engine's own.
IsSupported(trace, diagnosis) ==
  LET p == diagnosis.proposal
  IN  /\ p.id = trace.id
      /\ p.cause \in Cause
      /\ p.candidates \subseteq Action
      /\ \A c \in p.observed : \E f \in c : f \in ToSet(trace.evidence) \cup trace.context
      /\ diagnosis.status # "AI_COMPLETED" =>
           /\ trace.causes # <<>> => p.cause = trace.causes[1]
           /\ p.candidates \subseteq ToSet(trace.candidates) \ {NoAction}
=============================================================================
