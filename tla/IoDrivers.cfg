SPECIFICATION Spec
CONSTANT LeftLeds <- TwoLeds
INVARIANTS
  TypeOK
  CallbackFindsClicks
  RightLedsShowState
  OneSideLit
PROPERTIES
  ClickCountClears
  NextObeyed
  ExitObeyed
CHECK_DEADLOCK FALSE
