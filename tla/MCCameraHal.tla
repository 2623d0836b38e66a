---------------------------- MODULE MCCameraHal ----------------------------
(* Two opens and four pictures: a queue behind a running thread on each   *)
(* side of a second open.                                                  *)
EXTENDS CameraHal

=============================================================================
