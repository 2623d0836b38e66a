---------------------------- MODULE MCProcesses ----------------------------
(* Two starts of the program and a queue of one message.                   *)
EXTENDS Processes

=============================================================================
