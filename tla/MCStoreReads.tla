---------------------------- MODULE MCStoreReads ----------------------------
(* Small instances of StoreReads for TLC. *)
EXTENDS StoreReads

CONSTANTS c1, c2, k1, h1, p1, p2

(* The callers pass one and the same Uint8Array. *)
MCKeyOf == [c \in Calls |-> k1]
MCHashOf == [k \in Keys |-> h1]

=============================================================================
