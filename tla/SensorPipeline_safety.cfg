CONSTANTS
  Clients = {c1}
  Readings = 1
  Temperature <- SomeTemperatures
  UintModulus = 65536
  MonitorMax = 1
  BackendMax = 1
  Environment = {"dump", "store", "edit", "full", "stall"}
SPECIFICATION Spec
INVARIANTS
  TypeOK
  CurrentWhenQuiet
  HubWritesOpenSockets
PROPERTIES
  ImplementsTelemetry
CHECK_DEADLOCK FALSE
