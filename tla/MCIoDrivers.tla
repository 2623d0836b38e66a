---------------------------- MODULE MCIoDrivers ----------------------------
(* Two left LEDs are enough for a sequence that is half done.              *)
EXTENDS IoDrivers

TwoLeds == {"left1", "left2"}

=============================================================================
