---------------------------- MODULE MotorControl ----------------------------
(***************************************************************************)
(* What the motor state machines of engine/ promise their clients (the     *)
(* comments of LeftMotor.h and engine/Engine.h): SetSpeed sets a motor     *)
(* going at a speed or changes the speed of a moving motor, Halt brings a  *)
(* moving motor to rest.  The driver is told START only for a motor at     *)
(* rest, SET only for a moving one, and a motor at rest was told HALT      *)
(* last, if it was told anything.                                          *)
(***************************************************************************)
EXTENDS EngineParams

VARIABLES
  mode,     (* "idle" or "running", per motor                *)
  speed,    (* the speed of a running motor, 0 at rest       *)
  told      (* the last command given to the driver          *)

vars == <<mode, speed, told>>

Init ==
  /\ mode = [m \in Motors |-> "idle"]
  /\ speed = [m \in Motors |-> 0]
  /\ told = [m \in Motors |-> "nothing"]

SetSpeed(m, s) ==
  /\ mode' = [mode EXCEPT ![m] = "running"]
  /\ speed' = [speed EXCEPT ![m] = s]
  /\ told' = [told EXCEPT ![m] = IF mode[m] = "idle" THEN "START" ELSE "SET"]

Halt(m) ==
  /\ mode[m] = "running"
  /\ mode' = [mode EXCEPT ![m] = "idle"]
  /\ speed' = [speed EXCEPT ![m] = 0]
  /\ told' = [told EXCEPT ![m] = "HALT"]

Next == \E m \in Motors : Halt(m) \/ \E s \in Speeds : SetSpeed(m, s)

Spec == Init /\ [][Next]_vars

=============================================================================
