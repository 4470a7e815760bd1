SPECIFICATION Spec
CONSTANTS
  first = first
  second = second
  idle = idle
  again = again
  slot1 = slot1
  slot2 = slot2
  Decision = {first, idle, again}
  Slot = {slot1, slot2}
  SlotsOf <- MCSlotsOf
  DecisionTTL = 1
  MaxTime = 2
  Selected <- MCSelected
  Bundle <- MCBundle
  LeadOf <- MCLeadOf
  SharedLedger = FALSE
CHECK_DEADLOCK FALSE
INVARIANT ExpiredIsNotReady
