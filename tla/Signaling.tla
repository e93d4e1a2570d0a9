----------------------------- MODULE Signaling -----------------------------
(***************************************************************************)
(* How stores find each other and negotiate WebRTC connections: the        *)
(* signaling half of WebRTCStore and the negotiation of class Peer         *)
(* (packages/hashtree-nostr/src/webrtc/store.ts and peer.ts).              *)
(*                                                                         *)
(* A store greets everybody with a hello, answers a hello with an offer    *)
(* and an offer with an answer; offers and answers are gift-wrapped (an    *)
(* await when sent and another when received) and travel over relays that  *)
(* lose, delay, reorder and replay them.  A Peer object is a number, its   *)
(* place in `conns'; an offer or an answer is named after the object that  *)
(* made it.  ICE candidates are left out: a negotiated connection may      *)
(* start connecting at any moment, or never.                               *)
(***************************************************************************)
EXTENDS Naturals, Sequences, FiniteSets

CONSTANTS
    Node,       \* stores, named by their public keys
    Pools,      \* "follows", "other"
    PoolOf,     \* [Node -> [Node -> Pools]]: peerClassifier of each store
    Limit,      \* [Pools -> Nat]: maxConnections
    Satisfied,  \* [Pools -> Nat]: satisfiedConnections
    Faulty,     \* bound: stores that stop, change relays, block, fail to describe or get replays
    MaxConns,   \* bound: Peer objects ever created
    MaxFaults   \* bound: restarts, relay changes, blocks and replayed messages

ASSUME SignalingAssumption ==
    /\ IsFiniteSet(Node)
    /\ "other" \in Pools
    /\ PoolOf \in [Node -> [Node -> Pools]]
    /\ Limit \in [Pools -> Nat] /\ Satisfied \in [Pools -> Nat]
    /\ MaxConns \in Nat /\ MaxFaults \in Nat

VARIABLES
    store,      \* "idle" (never started), "running" or "stopped"
    blocked,    \* the public keys isPeerBlocked refuses
    peers,      \* peers: the Peer object a store keeps for a node, or 0
    pending,    \* pendingOtherPubkeys
    conns,      \* the Peer objects, oldest first
    wrapping,   \* objects whose offer or answer is being gift-wrapped
    hellos,     \* stores whose hello the relays hold and deliver to anybody
    relayed,    \* offers and answers the relays hold
    unwrapping, \* directed messages a store has received and is unwrapping
    faults

vars == <<store, blocked, peers, pending, conns, wrapping, hellos, relayed, unwrapping, faults>>

-----------------------------------------------------------------------------
Objects == 1..MaxConns

(* `sdp' is where the negotiation of an object stands; `remote' the object
   whose description it has set; `link' the connection. *)
Conn == [owner: Node, to: Node, outbound: BOOLEAN,
         sdp: {"offering", "offered", "answering", "stable", "failed"},
         remote: 0..MaxConns, link: {"new", "connecting", "connected", "closed"}]

Message == [type: {"offer", "answer"}, from: Node, to: Node, object: Objects]

TypeOK ==
    /\ store \in [Node -> {"idle", "running", "stopped"}]
    /\ blocked \in [Node -> SUBSET Node]
    /\ peers \in [Node -> [Node -> 0..MaxConns]]
    /\ pending \in [Node -> SUBSET Node]
    /\ conns \in Seq(Conn) /\ Len(conns) <= MaxConns
    /\ wrapping \subseteq Objects
    /\ hellos \subseteq Node
    /\ relayed \subseteq Message
    /\ unwrapping \subseteq Message
    /\ faults \in 0..MaxFaults

Init ==
    /\ store = [n \in Node |-> "idle"]
    /\ blocked = [n \in Node |-> {}]
    /\ peers = [n \in Node |-> [p \in Node |-> 0]]
    /\ pending = [n \in Node |-> {}]
    /\ conns = <<>> /\ wrapping = {}
    /\ hellos = {} /\ relayed = {} /\ unwrapping = {} /\ faults = 0

-----------------------------------------------------------------------------
Live == {o \in DOMAIN conns : conns[o].link # "closed"}

InPool(n, k) == {p \in Node : peers[n][p] # 0 /\ PoolOf[n][p] = k}

CanAcceptPeer(n, p) == Cardinality(InPool(n, PoolOf[n][p])) < Limit[PoolOf[n][p]]

PoolSatisfied(n, k, cs) ==
    Cardinality({p \in InPool(n, k) : cs[peers[n][p]].link = "connected"}) >= Satisfied[k]

HasOtherPoolPubkey(n, p) == p \in pending[n] \/ (PoolOf[n][p] = "other" /\ peers[n][p] # 0)

(* maybeSendHello of store n, when the objects are `cs'. *)
MaybeHello(n, cs) ==
    IF store[n] = "running" /\ \E k \in Pools : ~PoolSatisfied(n, k, cs)
    THEN {n} ELSE {}

(* Mutant: close() leaves the connection as it lost the other end. *)
ClosedLeavesState(S) == [o \in DOMAIN conns |-> IF o \in S THEN [conns[o] EXCEPT !.link = "disconnected"]
                                                           ELSE conns[o]]

(* Peer.close(): its handlers are detached and no later event reaches it. *)
Closed(S) == [o \in DOMAIN conns |-> IF o \in S THEN [conns[o] EXCEPT !.link = "closed"]
                                                ELSE conns[o]]

(* The objects of store n for the nodes in S. *)
EntriesOf(n, S) == {peers[n][p] : p \in S} \ {0}

Emptied(n, S) == [peers EXCEPT ![n] = [p \in Node |-> IF p \in S THEN 0 ELSE @[p]]]

NewConn(n, p, out, remote) ==
    [owner |-> n, to |-> p, outbound |-> out, remote |-> remote, link |-> "new",
     sdp |-> IF out THEN "offering" ELSE "answering"]

-----------------------------------------------------------------------------
(***************************** The store's life ****************************)

Start(n) ==
    /\ store[n] # "running"
    /\ store' = [store EXCEPT ![n] = "running"]
    /\ hellos' = IF \E k \in Pools : ~PoolSatisfied(n, k, conns) THEN hellos \cup {n} ELSE hellos
    /\ UNCHANGED <<blocked, peers, pending, conns, wrapping, relayed, unwrapping, faults>>

(* stop() closes the directed subscription and every peer, but leaves the
   hello subscription open. *)
Stop(n) ==
    /\ faults < MaxFaults /\ n \in Faulty /\ store[n] = "running"
    /\ store' = [store EXCEPT ![n] = "stopped"]
    /\ conns' = Closed(EntriesOf(n, Node))
    /\ peers' = Emptied(n, Node)
    /\ pending' = [pending EXCEPT ![n] = {}]
    /\ faults' = faults + 1
    /\ UNCHANGED <<hellos, blocked, wrapping, relayed, unwrapping>>

(* setRelays() closes the peers and keeps the pending marks. *)
SetRelays(n) ==
    /\ faults < MaxFaults /\ n \in Faulty /\ store[n] = "running"
    /\ conns' = Closed(EntriesOf(n, Node))
    /\ peers' = Emptied(n, Node)
    /\ faults' = faults + 1
    /\ UNCHANGED <<hellos, store, blocked, pending, wrapping, relayed, unwrapping>>

(* A peer is blocked and disconnectPeerByPubkey() called. *)
Block(n, p) ==
    /\ faults < MaxFaults /\ n \in Faulty /\ p \notin blocked[n]
    /\ blocked' = [blocked EXCEPT ![n] = @ \cup {p}]
    /\ conns' = Closed(EntriesOf(n, {p}))
    /\ peers' = Emptied(n, {p})
    /\ faults' = faults + 1
    /\ UNCHANGED <<hellos, store, pending, wrapping, relayed, unwrapping>>

(* The hello timer. *)
SendHello(n) ==
    /\ store[n] = "running"
    /\ hellos' = hellos \cup MaybeHello(n, conns)
    /\ UNCHANGED <<store, blocked, peers, pending, conns, wrapping, relayed, unwrapping, faults>>

(* The relays let go of the hello of store n. *)
HelloExpires(n) ==
    /\ n \in hellos \cap Faulty
    /\ hellos' = hellos \ {n}
    /\ UNCHANGED <<store, blocked, peers, pending, conns, wrapping, relayed, unwrapping, faults>>

(* Mutant: the cleanup only looks at the connections the store began. *)
CleanupOutbound(n) ==
    /\ store[n] = "running"
    /\ \E p \in Node :
          /\ peers[n][p] # 0 /\ conns[peers[n][p]].link = "new" /\ conns[peers[n][p]].outbound
          /\ conns' = Closed(EntriesOf(n, {p}))
          /\ peers' = Emptied(n, {p})
    /\ UNCHANGED <<hellos, store, blocked, pending, wrapping, relayed, unwrapping, faults>>

(* The cleanup timer closes every entry that is still new after 15 s: any
   number of those that are new may have reached that age. *)
Cleanup(n) ==
    /\ store[n] = "running"
    /\ \E stale \in (SUBSET {p \in Node : peers[n][p] # 0 /\ conns[peers[n][p]].link = "new"}) \ {{}} :
          /\ conns' = Closed(EntriesOf(n, stale))
          /\ peers' = Emptied(n, stale)
    /\ UNCHANGED <<hellos, store, blocked, pending, wrapping, relayed, unwrapping, faults>>

-----------------------------------------------------------------------------
(********************************* Messages ********************************)

(* The relays deliver the directed message m; a replay (a resubscription, a
   copy that came over the mesh) leaves it to be delivered again. *)
Deliver(m) ==
    \/ relayed' = relayed \ {m} /\ UNCHANGED faults
    \/ relayed' = relayed /\ m.to \in Faulty /\ faults < MaxFaults /\ faults' = faults + 1

AcceptsHello(n, p) ==
    /\ p \notin blocked[n]
    /\ peers[n][p] = 0
    /\ CanAcceptPeer(n, p)
    /\ PoolOf[n][p] = "other" => ~HasOtherPoolPubkey(n, p)

(* handleHello and the synchronous part of connectToPeer. *)
ReceiveHello(n, p) ==
    /\ p \in hellos \ {n} /\ store[n] # "idle"
    /\ AcceptsHello(n, p)
    /\ Len(conns) < MaxConns
    /\ conns' = Append(conns, NewConn(n, p, TRUE, 0))
    /\ peers' = [peers EXCEPT ![n][p] = Len(conns')]
    /\ pending' = IF PoolOf[n][p] = "other" THEN [pending EXCEPT ![n] = @ \cup {p}] ELSE pending
    /\ UNCHANGED <<store, blocked, wrapping, hellos, relayed, unwrapping, faults>>

(* A directed message arrives and is unwrapped: handleSignalingEvent. *)
ReceiveDirected(n, m) ==
    /\ m \in relayed /\ m.to = n
    /\ store[n] = "running"
    /\ Deliver(m)
    /\ unwrapping' = unwrapping \cup {m}
    /\ UNCHANGED <<hellos, store, blocked, peers, pending, conns, wrapping>>

(* Mutant: an offer is accepted whatever the pool holds. *)
AcceptsAnyOffer(n, p) == p \notin blocked[n]

(* Mutant: only hellos of blocked peers are refused. *)
AcceptsBlockedOffer(n, p) ==
    peers[n][p] = 0 => /\ CanAcceptPeer(n, p)
                       /\ PoolOf[n][p] = "other" => ~HasOtherPoolPubkey(n, p)

AcceptsOffer(n, p) ==
    /\ p \notin blocked[n]
    /\ peers[n][p] = 0 => /\ CanAcceptPeer(n, p)
                          /\ PoolOf[n][p] = "other" => ~HasOtherPoolPubkey(n, p)

(* Mutant: the object there is is replaced and not closed. *)
HandleOfferReplaces(n, m) ==
    /\ m \in unwrapping /\ m.type = "offer" /\ m.to = n
    /\ unwrapping' = unwrapping \ {m}
    /\ AcceptsOffer(n, m.from) /\ Len(conns) < MaxConns
    /\ conns' = Append(conns, NewConn(n, m.from, FALSE, m.object))
    /\ peers' = [peers EXCEPT ![n][m.from] = Len(conns')]
    /\ pending' = [pending EXCEPT ![n] = @ \ {m.from}]
    /\ UNCHANGED <<hellos, store, blocked, wrapping, relayed, faults>>

(* handleOffer closes the object there is and answers with a new one; it
   does not ask whether the store still runs. *)
HandleOffer(n, m) ==
    /\ m \in unwrapping /\ m.type = "offer" /\ m.to = n
    /\ unwrapping' = unwrapping \ {m}
    /\ IF AcceptsOffer(n, m.from)
       THEN /\ Len(conns) < MaxConns
            /\ conns' = Append(Closed(EntriesOf(n, {m.from})), NewConn(n, m.from, FALSE, m.object))
            /\ peers' = [peers EXCEPT ![n][m.from] = Len(conns')]
            /\ pending' = [pending EXCEPT ![n] = @ \ {m.from}]
       ELSE UNCHANGED <<conns, peers, pending>>
    /\ UNCHANGED <<hellos, store, blocked, wrapping, relayed, faults>>

(* An answer goes to whatever object the store has for its sender, which
   takes it if it has a local offer and throws or ignores it otherwise. *)
HandleAnswer(n, m) ==
    /\ m \in unwrapping /\ m.type = "answer" /\ m.to = n
    /\ unwrapping' = unwrapping \ {m}
    /\ LET o == peers[n][m.from]
       IN  conns' = IF o # 0 /\ conns[o].sdp = "offered"
                    THEN [conns EXCEPT ![o].sdp = "stable", ![o].remote = m.object]
                    ELSE conns
    /\ UNCHANGED <<hellos, store, blocked, peers, pending, wrapping, relayed, faults>>

-----------------------------------------------------------------------------
(******************************** Peer objects *****************************)

(* createOffer and setLocalDescription, or setRemoteDescription, createAnswer
   and setLocalDescription, settle.  On a closed connection they never do. *)
Describe(o) ==
    /\ o \in Live /\ conns[o].sdp \in {"offering", "answering"}
    /\ conns' = [conns EXCEPT ![o].sdp = IF @ = "offering" THEN "offered" ELSE "stable"]
    /\ wrapping' = wrapping \cup {o}
    /\ UNCHANGED <<hellos, store, blocked, peers, pending, relayed, unwrapping, faults>>

(* Mutant: the mark is not cleared when the attempt settles. *)
UnmarkedNever(o) == pending

(* connectToPeer settles, and handleHello's finally clears the mark. *)
Unmarked(o) == IF conns[o].outbound THEN [pending EXCEPT ![conns[o].owner] = @ \ {conns[o].to}]
                                    ELSE pending

(* The offer or answer is wrapped and published, even if the object was
   closed in the meantime. *)
Publish(o) ==
    /\ o \in wrapping
    /\ wrapping' = wrapping \ {o}
    /\ relayed' = relayed \cup {[type |-> IF conns[o].outbound THEN "offer" ELSE "answer",
                                 from |-> conns[o].owner, to |-> conns[o].to, object |-> o]}
    /\ pending' = Unmarked(o)
    /\ UNCHANGED <<hellos, store, blocked, peers, conns, unwrapping, faults>>

(* A description or the gift wrap is refused: nothing is published. *)
DescribeFails(o) ==
    /\ conns[o].owner \in Faulty
    /\ o \in wrapping \/ conns[o].sdp \in {"offering", "answering"}
    /\ wrapping' = wrapping \ {o}
    /\ conns' = IF conns[o].sdp \in {"offering", "answering"}
                THEN [conns EXCEPT ![o].sdp = "failed"] ELSE conns
    /\ pending' = Unmarked(o)
    /\ UNCHANGED <<hellos, store, blocked, peers, relayed, unwrapping, faults>>

(* ICE begins: candidates of the remote description arrived. *)
Checking(o) ==
    /\ o \in Live /\ conns[o].sdp = "stable" /\ conns[o].link = "new"
    /\ conns' = [conns EXCEPT ![o].link = "connecting"]
    /\ UNCHANGED <<hellos, store, blocked, peers, pending, wrapping, relayed, unwrapping, faults>>

Paired(o, q) == conns[o].remote = q /\ conns[q].remote = o

(* The connection and its channel are up: onConnected. *)
Connect(o) ==
    /\ o \in Live /\ conns[o].link = "connecting" /\ conns[o].sdp = "stable"
    /\ \E q \in Live : conns[q].sdp = "stable" /\ Paired(o, q)
    /\ conns' = [conns EXCEPT ![o].link = "connected"]
    /\ hellos' = hellos \cup MaybeHello(conns[o].owner, conns')
    /\ UNCHANGED <<store, blocked, peers, pending, wrapping, relayed, unwrapping, faults>>

(* failed, disconnected, or the channel closes: close() and handlePeerClose. *)
LinkFails(o) ==
    /\ o \in Live /\ conns[o].link \in {"connecting", "connected"}
    /\ conns' = Closed({o})
    /\ peers' = Emptied(conns[o].owner, {conns[o].to})
    /\ UNCHANGED <<hellos, store, blocked, pending, wrapping, relayed, unwrapping, faults>>

-----------------------------------------------------------------------------
NodeNext(n) ==
    \/ Start(n) \/ Stop(n) \/ SetRelays(n) \/ SendHello(n) \/ HelloExpires(n)
    \/ Cleanup(n)
    \/ \E p \in Node \ {n} : Block(n, p) \/ ReceiveHello(n, p)
    \/ \E m \in relayed : ReceiveDirected(n, m)
    \/ \E m \in unwrapping : HandleOffer(n, m) \/ HandleAnswer(n, m)

ObjectNext(o) ==
    Describe(o) \/ Publish(o) \/ DescribeFails(o) \/ Checking(o) \/ Connect(o) \/ LinkFails(o)

Next == (\E n \in Node : NodeNext(n)) \/ (\E o \in DOMAIN conns : ObjectNext(o))

Spec == Init /\ [][Next]_vars

(* The cleanup interval keeps firing, and ICE settles: a connection that is
   being tried is made or fails. *)
Settle(o) == o \in DOMAIN conns /\ conns[o].link = "connecting" /\ (Connect(o) \/ LinkFails(o))

Fairness == /\ \A n \in Node : WF_vars(Cleanup(n))
            /\ \A o \in Objects : WF_vars(Settle(o))

FairSpec == Spec /\ Fairness
-----------------------------------------------------------------------------
(* The pools stay within their limits: no order of hellos, offers, awaits
   and closings makes a store keep more peers of a pool than maxConnections
   (canAcceptPeer is asked before the peer is in the map). *)
PoolsBounded == \A n \in Node, k \in Pools : Cardinality(InPool(n, k)) <= Limit[k]

(* No RTCPeerConnection is lost: every object that is not closed is the one
   its store has in its map, so stop(), setRelays() and the cleanup reach it. *)
LiveObjectsAreKept == \A o \in Live : peers[conns[o].owner][conns[o].to] = o

(* A mark in pendingOtherPubkeys stands for a connection attempt that has not
   settled: a settled, refused or finished attempt never leaves one behind,
   which would lock the public key out for good. *)
MarksAreAttempts ==
    \A n \in Node : \A p \in pending[n] :
        \E o \in DOMAIN conns : /\ conns[o].owner = n /\ conns[o].to = p /\ conns[o].outbound
                                /\ conns[o].sdp = "offering" \/ o \in wrapping

(* A blocked peer is out and stays out, whatever messages of it are still
   being unwrapped. *)
BlockedStayOut == \A n \in Node : \A p \in blocked[n] : peers[n][p] = 0

(* A connection a running store keeps does not hang for ever: it gets
   connected, or it is closed and makes room (or the store is stopped). *)
ConnectionsSettle ==
    \A o \in Objects : o \in Live ~> \/ o \notin Live
                                     \/ conns[o].link = "connected"
                                     \/ store[conns[o].owner] = "stopped"

(* What store.ts:607-608 says: both ends may initiate, and the polite one
   rolls back.  So once each end has initiated at most once and every message
   has been delivered and handled, two stores that negotiated with each other
   are the two ends of one connection. *)
Quiet == relayed = {} /\ unwrapping = {} /\ wrapping = {}

OneAttemptEach ==
    \A o, q \in DOMAIN conns :
        (conns[o].outbound /\ conns[q].outbound /\ conns[o].owner = conns[q].owner) => o = q

CollisionsResolve ==
    Quiet /\ OneAttemptEach => \A n, p \in Node :
        LET o == peers[n][p]
            q == peers[p][n]
        IN  (o # 0 /\ q # 0 /\ conns[o].sdp = "stable" /\ conns[q].sdp = "stable") => Paired(o, q)

(* What store.ts:302 and 323 say of stop(): it closes all peer connections,
   so a store that is stopped has none. *)
StoppedHasNoPeers == \A n, p \in Node : store[n] = "stopped" => peers[n][p] = 0

=============================================================================
