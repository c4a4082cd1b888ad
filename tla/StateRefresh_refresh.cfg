SPECIFICATION FairSpec
CONSTANTS
  d1 = d1
  d2 = d2
  Devices <- TwoDevices
  Inventories <- TwoOrders
  Runs = {r1, r2}
  PerCycle = 1
  EnableLocation = TRUE
PROPERTIES FallbackIsSticky SliceProgress WholeListing BillBounded RunsEnd
