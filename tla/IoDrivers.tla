----------------------------- MODULE IoDrivers -----------------------------
(***************************************************************************)
(* The drivers simple_io and state_machine on one board: they share the    *)
(* lines, the LEDs, the button and the name of their device class, and     *)
(* each can be loaded and unloaded while the other is.                     *)
(***************************************************************************)
EXTENDS ClickDriver, SimpleIo

vars == <<gpioVars, clickVars, ioVars>>

Init == GpioInit /\ ClickInit /\ IoInit

(* The button, when no interrupt is requested for it.                      *)
press ==
  /\ button = 1
  /\ clickMod = "out"
  /\ button' = 0
  /\ UNCHANGED <<lit, pins, fault, clickVars, ioVars>>

release ==
  /\ button = 0
  /\ button' = 1
  /\ UNCHANGED <<lit, pins, fault, clickVars, ioVars>>

Next ==
  /\ kernelUp
  /\ \/ clickNext /\ UNCHANGED ioVars
     \/ ioNext /\ UNCHANGED clickVars
     \/ press
     \/ release

Spec == Init /\ [][Next]_vars /\ clickFairness /\ ioFairness

-----------------------------------------------------------------------------
TypeOK == GpioTypeOK /\ ClickTypeOK /\ IoTypeOK

=============================================================================
