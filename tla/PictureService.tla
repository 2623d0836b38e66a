--------------------------- MODULE PictureService ---------------------------
(***************************************************************************)
(* What the toy camera HAL promises: a picture that was asked for is       *)
(* answered at most once, and the pictures of one camera in the order in   *)
(* which they were asked for.                                              *)
(***************************************************************************)
EXTENDS Naturals

CONSTANT Cameras

VARIABLES
  asked,     (* pictures asked for so far; they are numbered               *)
  answered,  (* answers so far                                             *)
  pending    (* the pictures that are not answered yet, with their camera  *)

serviceVars == <<asked, answered, pending>>

ServiceInit == asked = 0 /\ answered = 0 /\ pending = {}

Ask(c) ==
  /\ asked' = asked + 1
  /\ pending' = pending \cup {[camera |-> c, picture |-> asked + 1]}
  /\ UNCHANGED answered

(* m is the oldest of its camera.                                          *)
Answer(m) ==
  /\ \A n \in pending : n.camera = m.camera => n.picture >= m.picture
  /\ answered' = answered + 1
  /\ pending' = pending \ {m}
  /\ UNCHANGED asked

ServiceNext ==
  \/ \E c \in Cameras : Ask(c)
  \/ \E m \in pending : Answer(m)

ServiceSpec == ServiceInit /\ [][ServiceNext]_serviceVars

=============================================================================
