---------------------------- MODULE EngineParams ----------------------------
(***************************************************************************)
(* What the engine driver (drivers/engine), the motor state machines       *)
(* (engine/) and the engine thread (system/) agree on: the motors and the  *)
(* speeds.                                                                 *)
(***************************************************************************)
EXTENDS Integers

CONSTANTS
  Motors,   (* motors by the driver's number: 1 is left, 2 is right      *)
  Speeds    (* the non-zero speeds that callers ask for; 0 is halt       *)

LEFT == 1
RIGHT == 2

ASSUME MotorsAssumption == Motors \subseteq {LEFT, RIGHT}

(* A C int.                                                                *)
INT_MAX == 2147483647
INT_MIN == -INT_MAX - 1

(* A speed is a 32-bit int all the way from the request to the ioctl, and  *)
(* nobody checks it.                                                       *)
ASSUME SpeedsAssumption ==
  /\ Speeds \subseteq Int \ {0}
  /\ \A s \in Speeds : INT_MIN <= s /\ s <= INT_MAX

=============================================================================
