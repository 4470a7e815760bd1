SPECIFICATION Spec
CONSTANTS
  offer = offer
  retryKey = retryKey
  offerKey = offerKey
  customer = customer
  retrySlot = retrySlot
  messageSlot = messageSlot
  NoDecision = NoDecision
  Decision = {retry1, retry2, offer}
  Slot = {retrySlot, messageSlot}
  SlotsOf <- MCSlotsOf
  DecisionTTL = 1
  MaxTime = 2
  Key = {retryKey, offerKey}
  KeyOf <- MCKeyOf
  AuthTTL = 1
  Verdicts = {"AUTHORIZED"}
  Journal = {j1}
  Delayed <- MCDelayed
  Contacting = {offer}
  Customer = {customer}
  CustomerOf <- MCCustomerOf
  Delay = 1
  Answers = {"FAILED_RETRYABLE", "REJECTED_BY_PROVIDER"}
  Faults = {"halt", "raise"}
  Skips = {TRUE, FALSE}
  MaxCalls = 2
  MaxIntents = 1
SYMMETRY RetrySymmetry
CHECK_DEADLOCK FALSE
INVARIANTS
  NoDoubleBooking
  OneAuthorizationPerKey
  ResultTellsEffect
  SettlementAgrees
  IntentBeforeOutcome
  ContactsAgree
  OneDecisionActs
PROPERTIES
  AuthorizationIsFinal
  ResultIsFinal
  KeepsPromise
