--------------------------- MODULE MCSystemServer ---------------------------
(* Three ticks overlap in every way.  ./fs/ holds a file and a directory   *)
(* with a file of its own; with three descriptors a second scan runs out   *)
(* half-way and a third at once.                                           *)
EXTENDS SystemServer

CONSTANTS fs, f, d, g

MCEntries == {f, d, g}
MCWithin == f :> fs @@ d :> fs @@ g :> d

=============================================================================
