SPECIFICATION Spec
CONSTANTS
  first = first
  second = second
  idle = idle
  again = again
  slot1 = slot1
  slot2 = slot2
  Decision = {first, second, idle, again}
  Slot = {slot1, slot2}
  SlotsOf <- MCSlotsOf
  DecisionTTL = 0
  MaxTime = 1
  Selected <- MCSelected
  Bundle <- MCBundle
  LeadOf <- MCLeadOf
  SharedLedger = TRUE
CONSTRAINT OnePlan
CHECK_DEADLOCK FALSE
INVARIANTS
  UnfitHoldsNothing
  SupersededIsNotReady
PROPERTY ExpiryIsFinal
