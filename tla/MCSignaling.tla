---------------------------- MODULE MCSignaling ----------------------------
(* Small instances of Signaling for TLC. *)
EXTENDS Signaling

CONSTANTS a, b, c

(* Followed peers get no place (the legacy default), strangers one, which
   satisfies a store.  Stores a and b are strangers to each other; c is a
   stranger to a and competes with b for the place in a, but b and c follow
   each other and c follows a, so c greets and answers nobody. *)
MCPools == {"follows", "other"}
MCPoolOf == [n \in Node |-> [p \in Node |-> IF n = c \/ <<n, p>> = <<b, c>> THEN "follows" ELSE "other"]]
MCLimit == [k \in MCPools |-> IF k = "other" THEN 1 ELSE 0]
MCSatisfied == MCLimit

=============================================================================
