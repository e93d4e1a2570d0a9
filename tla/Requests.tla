------------------------------ MODULE Requests ------------------------------
(***************************************************************************)
(* What asking for a block promises, whoever is asked: Peer.request() of   *)
(* one data channel, WebRTCStore.get() of the whole store.  A call that    *)
(* was made is answered at most once, with the block or with null, never   *)
(* before it was made, and one event may answer several calls (those that  *)
(* joined a request in flight) only with the same answer.                  *)
(***************************************************************************)
CONSTANT Calls

VARIABLE answer \* "idle", "asked", "data" or "null"

Init == answer = [c \in Calls |-> "idle"]

Ask(c) ==
    /\ answer[c] = "idle"
    /\ answer' = [answer EXCEPT ![c] = "asked"]

(* A call that is refused or served at once is asked and answered in one step. *)
AskAnswered(c, v) ==
    /\ answer[c] = "idle"
    /\ answer' = [answer EXCEPT ![c] = v]

Answer(S, v) ==
    /\ \A c \in S : answer[c] = "asked"
    /\ answer' = [c \in Calls |-> IF c \in S THEN v ELSE answer[c]]

Next ==
    \/ \E c \in Calls : Ask(c)
    \/ \E v \in {"data", "null"} :
          (\E c \in Calls : AskAnswered(c, v)) \/ (\E S \in SUBSET Calls : Answer(S, v))

Spec == Init /\ [][Next]_answer
=============================================================================
