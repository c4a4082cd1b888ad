SPECIFICATION Spec
CONSTANTS
  NoPath = NoPath
  Segments <- AllSegments
  Placeholders = {"id", "device_id", "company"}
  DeviceWords = {"devices"}
  MonthSeconds = 2592000
  MaxMonthly = 100000
  HeadroomPercent = 80
  PortInterval = 21600
  PageSize = 50
  DefaultOptions <- Default
  Choices <- QuotaChoices
  SpecFiles <- Files
  Fleets = {20}
  MaxChanges = 0
CHECK_DEADLOCK FALSE
INVARIANT QuotaRespected
