CONSTANTS
  Motors <- BothMotors
  Speeds <- NoSpeeds
  Callers = {t_engine}
SPECIFICATION FairDriverSpec
INVARIANTS
  QuietWhenUnloaded
  OneCallerNeverReinits
PROPERTIES
  UnloadTerminates
CHECK_DEADLOCK FALSE
