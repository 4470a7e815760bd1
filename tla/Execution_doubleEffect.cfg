SPECIFICATION Spec
CONSTANTS
  offer = offer
  retryKey = retryKey
  offerKey = offerKey
  customer = customer
  retrySlot = retrySlot
  messageSlot = messageSlot
  NoDecision = NoDecision
  Decision = {retry1}
  Slot = {retrySlot}
  SlotsOf <- MCSlotsOf
  DecisionTTL = 0
  MaxTime = 1
  Key = {retryKey}
  KeyOf <- MCKeyOf
  AuthTTL = 1
  Verdicts = {"AUTHORIZED"}
  Journal = {j1}
  Delayed <- MCDelayed
  Contacting = {}
  Customer = {customer}
  CustomerOf <- MCCustomerOf
  Delay = 1
  Answers = {"SUCCESS"}
  Faults = {"halt"}
  Skips = {FALSE}
  MaxCalls = 2
  MaxIntents = 1
CHECK_DEADLOCK FALSE
INVARIANT NoDoubleEffect
