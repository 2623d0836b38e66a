--------------------------- MODULE MCEngineDriver ---------------------------
(***************************************************************************)
(* A small instance of EngineDriver.                                       *)
(***************************************************************************)
EXTENDS EngineDriver

BothMotors == {LEFT, RIGHT}
NoSpeeds == {}

=============================================================================
