CONSTANTS
  Motors <- LeftMotorOnly
  Speeds <- TwoSpeeds
  Callers = {t_engine}
  EngineThread = t_engine
  QueueMax = 1
  Reload = FALSE
SPECIFICATION FairSpec
PROPERTIES
  SpeedMessageMovesMotor
