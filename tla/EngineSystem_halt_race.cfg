CONSTANTS
  Motors <- LeftMotorOnly
  Speeds <- OneSpeed
  Callers = {t_engine}
  EngineThread = t_engine
  QueueMax = 1
  Reload = FALSE
SPECIFICATION Spec
INVARIANTS
  HaltStopsMotor
