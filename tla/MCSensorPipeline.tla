-------------------------- MODULE MCSensorPipeline --------------------------
(***************************************************************************)
(* Small instances of SensorPipeline.  The runs take one reading after the *)
(* initial value; it is below zero, so that the unsigned temperature of    *)
(* the message wraps around.                                               *)
(***************************************************************************)
EXTENDS SensorPipeline

SomeTemperatures == [n \in 0..Readings |-> -312 * n]

=============================================================================
