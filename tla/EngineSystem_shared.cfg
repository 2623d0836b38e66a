CONSTANTS
  Motors <- LeftMotorOnly
  Speeds <- OneSpeed
  Callers = {t_engine, t_command}
  EngineThread = t_engine
  QueueMax = 1
  Reload = TRUE
SPECIFICATION Spec
INVARIANTS
  DriverTypeOK
  DarkWhenStopped
  UninitOnlyWhileLoading
PROPERTIES
  ImplementsMachines
CHECK_DEADLOCK FALSE
