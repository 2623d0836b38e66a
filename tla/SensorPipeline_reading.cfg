CONSTANTS
  Clients = {c1}
  Readings = 1
  Temperature <- SomeTemperatures
  UintModulus = 65536
  MonitorMax = 1
  BackendMax = 1
  Environment = {"dump"}
SPECIFICATION FairSpec
PROPERTIES
  ReadingReachesClients
