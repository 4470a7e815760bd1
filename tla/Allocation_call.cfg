CONSTANTS
  ann = ann
  bob = bob
  Customer = {ann, bob}
  NoCustomer = NoCustomer
  Shared <- MCShared
  SharedOrder <- MCOrder
  Epsilon = 1
  Step <- MCStep
  ToleranceInverse = 4
  Calls <- MCCalls
SPECIFICATION Spec
INVARIANTS
  NeverOverAllocated
  UsageIsOfSelected
  RefusalsStand
  AgreesWithReference
PROPERTY KeepsPromise
