SPECIFICATION Spec
CONSTANTS
  NoPath = NoPath
  Segments <- AllSegments
  Placeholders = {"id", "device_id", "company"}
  DeviceWords = {"devices"}
  MonthSeconds = 86400
  MaxMonthly = 3333
  HeadroomPercent = 80
  PortInterval = 21600
  PageSize = 30
  DefaultOptions <- Default
  Choices <- MonthChoices
  SpecFiles <- Files
  Fleets = {0, 20, 30, 40}
  MaxChanges = 1
CHECK_DEADLOCK FALSE
INVARIANTS IInv KeysAreFrozen PathsConcrete NoWarningAfterGate WithinQuota
