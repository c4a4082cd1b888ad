\* One device: devices do not share entities or rows
CONSTANTS
  Devices = {d1}
  Names = {n1}
  Factory = {n1}
  Facts = {"diagnostic"}
  PLATFORMS = {"binary_sensor", "sensor", "button", "switch"}
SPECIFICATION Spec
INVARIANTS IInv Discovered SwitchesReported
PROPERTIES PowerSensorsFollow
