SPECIFICATION Spec
CONSTANTS
  cell1 = cell1
  cell2 = cell2
  cell3 = cell3
  world1 = world1
  world2 = world2
  Cell = {cell1, cell2, cell3}
  Proc = {main, w1, w2}
  Main = main
  PlanOrder <- MCPlanOrder
  Limits <- MCLimits
  MaxInterruptions = 2
  Group = {world1, world2}
  NoGroup = NoGroup
  GroupOf <- MCGroupOf
CHECK_DEADLOCK FALSE
INVARIANTS
  ResultsAreComplete
  ManifestNotAhead
  ReturnIsPersisted
PROPERTY KeepsPromise
