SPECIFICATION RunSpec
CONSTANTS
  ann = ann
  o1 = o1
  o2 = o2
  Policy = {"REVIVE"}
  Action = {"retry", "later", "link", "notice", "message", "offer"}
  Opportunity = {o1, o2}
  Customer = {ann}
  CustomerOf <- OfAnn
  Row <- Rows
  Value = 10
  Cost <- Costs
  Incentive <- Incentives
  Horizon = 2
  Slowdown = 1
  Never = 99
  MaxCycles = 2
  CycleLength = 1
  RetrySlots = 1
  MessageCapacity = 1
  ContactAllowance = 1
  Delays = {1, 2}
  AuthTTL = 1
  Ids <- IdsOf
  Scheduled <- Steps
  StartOf <- Starts
CHECK_DEADLOCK FALSE
INVARIANT CountedOnce
