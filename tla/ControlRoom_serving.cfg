SPECIFICATION ServerSpec
CONSTANTS
  Thread = {t1, t2, t3}
  Given = {Invalid}
  Invalid = Invalid
  NoWorld = NoWorld
  EventCap = 1
  Cause = {expired, offline, UNCLASSIFIED}
  Unclassified = UNCLASSIFIED
  expired = expired
  unheard = unheard
  offline = offline
  Action = {"A00", "A03", "A08"}
  NoAction = "A00"
  Fact = {fact1, fact2}
  fact1 = fact1
  fact2 = fact2
  ClaimCap = 3
  CandidateCap = 2
  FactsShown = 1
  CandidatesShown = 2
  MaxRetries = 1
  TraceOf <- MCTraceOf
  Replies <- MCReplies
  MaxRuns = 2
  Seeds = {0, 1}
  Profiles = {"SCARCE", "BALANCED"}
  Arms = {"B0", "REVIVE"}
  Reference = "B0"
  NotStored = NotStored
  Mentions <- MCMentions
  ResultCap = 2
  Tree = {complete, partial, missing}
  complete = complete
  partial = partial
  missing = missing
  Contents <- MCContents
  Queries <- MCQueries
  NoTree = NoTree
INVARIANTS SnapshotIsOfSession DiagnosesAreSupported AnswersAreWhole
SYMMETRY Threads
