--------------------------- MODULE MCEngineSystem ---------------------------
(***************************************************************************)
(* Small instances of EngineSystem.  The GUI reaches the left motor only,  *)
(* and the motors share nothing but the interrupt handler, so the runs     *)
(* that ask about messages use the left motor.                             *)
(***************************************************************************)
EXTENDS EngineSystem

LeftMotorOnly == {LEFT}
TwoSpeeds == {30, 90}
OneSpeed == {30}

=============================================================================
