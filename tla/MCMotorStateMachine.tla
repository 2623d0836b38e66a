------------------------- MODULE MCMotorStateMachine -------------------------
(***************************************************************************)
(* Both machines, three speeds.                                            *)
(***************************************************************************)
EXTENDS MotorStateMachine

BothMotors == {LEFT, RIGHT}
SomeSpeeds == {1, 50, 100}

=============================================================================
