SPECIFICATION Spec
CONSTANTS
  d1 = d1
  d2 = d2
  Devices <- TwoDevices
  Inventories <- TwoOrders
  Runs = {r1}
  PerCycle = 1
  EnableLocation = TRUE
INVARIANT LocationScopeOptional
