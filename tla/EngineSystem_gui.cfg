CONSTANTS
  Motors <- LeftMotorOnly
  Speeds <- TwoSpeeds
  Callers = {t_engine}
  EngineThread = t_engine
  QueueMax = 2
  Reload = FALSE
SPECIFICATION FairSpec
INVARIANTS
  TypeOK
  LastCommandWins
PROPERTIES
  FullQueueDrains
