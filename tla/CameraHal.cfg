CONSTANTS
  MaxOpens = 2
  MaxPictures = 4
SPECIFICATION Spec
INVARIANTS
  TypeOK
  SleepersHaveNothing
PROPERTIES
  ImplementsPictureService
  PicturesAreAnswered
CHECK_DEADLOCK FALSE
