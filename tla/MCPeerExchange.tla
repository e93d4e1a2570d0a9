--------------------------- MODULE MCPeerExchange ---------------------------
(* Small instances of PeerExchange for TLC. *)
EXTENDS PeerExchange

CONSTANTS small, large, c1, c2

(* A response of `large' takes two messages. *)
MCFragmentsOf == [h \in Hashes |-> IF h = large THEN 2 ELSE 1]

=============================================================================
