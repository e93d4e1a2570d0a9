--------------------------- MODULE MCRefResolver ---------------------------
(* A device that writes, with its clock a second ahead, and one that reads. *)
EXTENDS RefResolver

CONSTANTS w, r

MCDevices == {w, r}
MCSkew == [d \in {w, r} |-> IF d = w THEN 1 ELSE 0]
=============================================================================
