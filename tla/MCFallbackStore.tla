-------------------------- MODULE MCFallbackStore ---------------------------
(* Two gets of one hash: the second joins the load of the first, or starts one
   while late fetches of the first are still out. *)
EXTENDS FallbackStore

CONSTANTS c1, c2, h1, f1, f2

MCHashOf == [c \in Calls |-> h1]
=============================================================================
