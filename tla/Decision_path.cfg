CONSTANTS
  Opportunities <- MCOpportunities
  CallerContexts <- MCCallerContexts
  ann = ann
  bob = bob
  nobody = nobody
  l1 = l1
  l2 = l2
  l3 = l3
  paid = paid
  Loss = {l1, l2, l3}
  Order = {l1, l2, l3, paid}
  Customer = {ann, bob}
  Anonymous = nobody
  InstrumentOf <- MCInstrumentOf
  ContactCap = 2
  WeeklyCap = 8
  MaxAttempts = 5
  Worlds <- MCWorlds
  MaxCycles = 3
SPECIFICATION CycleSpec
INVARIANTS
  CycleLeavesNothingPending
  MessagesRespectTheCustomer
  ApprovalIsWorthAsking
  NoForesight
  CachedIsUncached
  HandedOnFaithfully
  SettledIsLeftAlone
PROPERTY ExpiredForGood
\* The cycles of a world, and the decisions on an opportunity, end.
CHECK_DEADLOCK FALSE
