----------------------------- MODULE Telemetry -----------------------------
(***************************************************************************)
(* What the web GUI may show of the sensor: every client sees some reading *)
(* that was taken, at first none, and never an older one than before.      *)
(* Readings may be skipped.                                                *)
(***************************************************************************)
EXTENDS Integers

CONSTANTS
  Clients,   (* web socket connections                                     *)
  Readings   (* number of readings taken, a bound                          *)

VARIABLES
  latest,    (* number of the last reading taken; 0 is the driver's        *)
             (* initial value                                              *)
  display    (* number of the reading each client shows, -1 for none       *)

vars == <<latest, display>>

Init ==
  /\ latest = 0
  /\ display = [c \in Clients |-> -1]

Measure ==
  /\ latest < Readings
  /\ latest' = latest + 1
  /\ UNCHANGED display

Show(c, n) ==
  /\ display[c] <= n
  /\ n <= latest
  /\ display' = [display EXCEPT ![c] = n]
  /\ UNCHANGED latest

(* The connection is closed; a later one starts empty.                     *)
Leave(c) ==
  /\ display' = [display EXCEPT ![c] = -1]
  /\ UNCHANGED latest

Next ==
  \/ Measure
  \/ \E c \in Clients : Leave(c) \/ \E n \in 0..Readings : Show(c, n)

Spec == Init /\ [][Next]_vars

=============================================================================
