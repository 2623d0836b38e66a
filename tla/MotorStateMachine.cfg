CONSTANTS
  Motors <- BothMotors
  Speeds <- SomeSpeeds
SPECIFICATION FairMachineSpec
INVARIANTS
  MachineTypeOK
  NeverFaults
  EventDataFreed
PROPERTIES
  ImplementsMotorControl
  EventsEnd
