--------------------------- MODULE MCBlossomStore ---------------------------
(* Two servers that take writes and serve reads, three puts and a get of one
   large blob. *)
EXTENDS BlossomStore

CONSTANTS s1, s2, p1, p2, p3, g1, h1

MCHashOf == [c \in Puts \cup Gets |-> h1]
=============================================================================
