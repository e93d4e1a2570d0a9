-------------------------- MODULE SignalingProofs --------------------------
(***************************************************************************)
(* Proofs about Signaling, for any finite set of stores, any pools and     *)
(* limits, and any bounds.                                                 *)
(***************************************************************************)
EXTENDS Signaling, FiniteSetTheorems, TLAPS

(* What a store has in its map is a Peer object of its own for that node. *)
PeersOK ==
    \A n, p \in Node : peers[n][p] # 0 =>
        /\ peers[n][p] \in DOMAIN conns
        /\ conns[peers[n][p]].owner = n /\ conns[peers[n][p]].to = p

SignalingInv ==
    /\ TypeOK /\ wrapping \subseteq DOMAIN conns
    /\ PeersOK /\ LiveObjectsAreKept
    /\ PoolsBounded /\ BlockedStayOut /\ MarksAreAttempts

-----------------------------------------------------------------------------
(* Sequences of Peer objects. *)

(* A Peer object has a number from 1 to MaxConns. *)
LEMMA ObjectNumbers ==
    ASSUME TypeOK
    PROVE  /\ DOMAIN conns = 1..Len(conns) /\ Len(conns) \in Nat
           /\ DOMAIN conns \subseteq Objects
           /\ \A o \in DOMAIN conns : conns[o] \in Conn
  BY SignalingAssumption DEF TypeOK, Objects

(* close() changes the link of the objects it closes, and nothing else. *)
LEMMA ClosedFacts ==
    ASSUME TypeOK, NEW S
    PROVE  /\ Closed(S) \in Seq(Conn) /\ Len(Closed(S)) = Len(conns)
           /\ DOMAIN Closed(S) = DOMAIN conns
           /\ \A o \in DOMAIN conns :
                /\ Closed(S)[o] \in Conn
                /\ Closed(S)[o].owner = conns[o].owner /\ Closed(S)[o].to = conns[o].to
                /\ Closed(S)[o].outbound = conns[o].outbound
                /\ Closed(S)[o].sdp = conns[o].sdp
                /\ Closed(S)[o].link = IF o \in S THEN "closed" ELSE conns[o].link
<1>1. /\ DOMAIN conns = 1..Len(conns) /\ Len(conns) \in Nat
      /\ \A o \in DOMAIN conns : conns[o] \in Conn
  BY ObjectNumbers
<1>2. ASSUME NEW o \in DOMAIN conns
      PROVE  /\ Closed(S)[o] \in Conn
             /\ Closed(S)[o].owner = conns[o].owner /\ Closed(S)[o].to = conns[o].to
             /\ Closed(S)[o].outbound = conns[o].outbound
             /\ Closed(S)[o].sdp = conns[o].sdp
             /\ Closed(S)[o].link = IF o \in S THEN "closed" ELSE conns[o].link
  <2>1. Closed(S)[o] = IF o \in S THEN [conns[o] EXCEPT !.link = "closed"] ELSE conns[o]
    BY DEF Closed
  <2>2. conns[o] \in Conn
    BY <1>1
  <2> QED  BY <2>1, <2>2 DEF Conn
<1>3. Closed(S) = [o \in 1..Len(conns) |-> Closed(S)[o]]
  BY <1>1 DEF Closed
<1>4. DOMAIN Closed(S) = 1..Len(conns)
  BY <1>1 DEF Closed
<1>5. Closed(S) \in Seq(Conn)
  <2>1. Closed(S) \in [1..Len(conns) -> Conn]
    BY <1>1, <1>2, <1>3
  <2> QED  BY <1>1, <2>1
<1>6. Len(Closed(S)) = Len(conns)
  BY <1>1, <1>4, <1>5
<1> QED  BY <1>1, <1>2, <1>4, <1>5, <1>6

(* Entries of store n are taken out of its map; others stay. *)
LEMMA EmptiedFacts ==
    ASSUME TypeOK, NEW n \in Node, NEW S
    PROVE  /\ Emptied(n, S) \in [Node -> [Node -> 0..MaxConns]]
           /\ \A m, p \in Node :
                 Emptied(n, S)[m][p] = IF m = n /\ p \in S THEN 0 ELSE peers[m][p]
<1>1. peers \in [Node -> [Node -> 0..MaxConns]] /\ 0 \in 0..MaxConns
  BY SignalingAssumption DEF TypeOK
<1>2. Emptied(n, S) = [peers EXCEPT ![n] = [p \in Node |-> IF p \in S THEN 0 ELSE peers[n][p]]]
  BY DEF Emptied
<1> QED  BY <1>1, <1>2

(* A pool of a store is finite, and no larger when its map has fewer entries. *)
LEMMA PoolFinite ==
    ASSUME NEW S \in SUBSET Node
    PROVE  /\ IsFiniteSet(S) /\ Cardinality(S) \in Nat
           /\ \A T \in SUBSET S : Cardinality(T) <= Cardinality(S)
           /\ \A p \in Node : Cardinality(S \cup {p}) <= Cardinality(S) + 1
<1>1. IsFiniteSet(S)
  BY FS_Subset, SignalingAssumption
<1>2. Cardinality(S) \in Nat
  BY <1>1, FS_CardinalityType
<1>3. \A T \in SUBSET S : Cardinality(T) <= Cardinality(S)
  BY <1>1, FS_Subset
<1>4. ASSUME NEW p \in Node  PROVE Cardinality(S \cup {p}) <= Cardinality(S) + 1
  <2>1. Cardinality(S \cup {p}) = IF p \in S THEN Cardinality(S) ELSE Cardinality(S) + 1
    BY <1>1, FS_AddElement
  <2> QED  BY <1>2, <2>1
<1> QED  BY <1>1, <1>2, <1>3, <1>4

-----------------------------------------------------------------------------
(* Closing and creating Peer objects. *)

(***************************************************************************)
(* Stop, SetRelays, Block, Cleanup and LinkFails: a store closes the       *)
(* objects it has for the nodes in S and takes them out of its map.        *)
(***************************************************************************)
LEMMA CloseStep ==
    ASSUME SignalingInv, TypeOK', NEW n \in Node, NEW S \in SUBSET Node,
           conns' = Closed(EntriesOf(n, S)), peers' = Emptied(n, S),
           UNCHANGED wrapping,
           \A m \in Node : pending'[m] \subseteq pending[m],
           \A m, p \in Node : p \in blocked'[m] => p \in blocked[m] \/ (m = n /\ p \in S)
    PROVE  SignalingInv'
<1> DEFINE E == EntriesOf(n, S)
<1>0. TypeOK /\ PeersOK
  BY DEF SignalingInv
<1>1. /\ DOMAIN conns' = DOMAIN conns
      /\ \A o \in DOMAIN conns :
           /\ conns'[o].owner = conns[o].owner /\ conns'[o].to = conns[o].to
           /\ conns'[o].outbound = conns[o].outbound /\ conns'[o].sdp = conns[o].sdp
           /\ conns'[o].link = IF o \in E THEN "closed" ELSE conns[o].link
  BY <1>0, ClosedFacts
<1>2. \A m, p \in Node : peers'[m][p] = IF m = n /\ p \in S THEN 0 ELSE peers[m][p]
  BY <1>0, EmptiedFacts
<1>3. PeersOK'
  BY <1>0, <1>1, <1>2 DEF PeersOK
<1>4. LiveObjectsAreKept'
  <2> SUFFICES ASSUME NEW o \in Live'
               PROVE  peers'[conns'[o].owner][conns'[o].to] = o
    BY DEF LiveObjectsAreKept
  <2>1. o \in Live /\ o \notin E /\ conns'[o].owner = conns[o].owner /\ conns'[o].to = conns[o].to
    BY <1>1 DEF Live
  <2>2. conns[o].owner \in Node /\ conns[o].to \in Node
    BY <1>0, <2>1, ObjectNumbers DEF Live, Conn
  <2>3. peers[conns[o].owner][conns[o].to] = o /\ o # 0
    BY <1>0, <2>1, ObjectNumbers DEF SignalingInv, LiveObjectsAreKept, Live
  <2>4. ~(conns[o].owner = n /\ conns[o].to \in S)
    BY <2>1, <2>3 DEF EntriesOf
  <2> QED  BY <1>2, <2>1, <2>2, <2>3, <2>4
<1>5. PoolsBounded'
  <2> SUFFICES ASSUME NEW m \in Node, NEW k \in Pools
               PROVE  Cardinality(InPool(m, k)') <= Limit[k]
    BY DEF PoolsBounded
  <2>1. InPool(m, k)' \subseteq InPool(m, k) /\ InPool(m, k) \in SUBSET Node
    BY <1>2 DEF InPool
  <2>2. Cardinality(InPool(m, k)') <= Cardinality(InPool(m, k))
    BY <2>1, PoolFinite
  <2>3. Cardinality(InPool(m, k)) <= Limit[k] /\ Limit[k] \in Nat
    BY SignalingAssumption DEF SignalingInv, PoolsBounded
  <2>4. Cardinality(InPool(m, k)) \in Nat /\ Cardinality(InPool(m, k)') \in Nat
    BY <2>1, PoolFinite
  <2> QED  BY <2>2, <2>3, <2>4
<1>6. BlockedStayOut'
  BY <1>2 DEF SignalingInv, TypeOK, BlockedStayOut
<1>7. MarksAreAttempts'
  BY <1>1 DEF SignalingInv, MarksAreAttempts
<1>8. wrapping' \subseteq DOMAIN conns'
  BY <1>1 DEF SignalingInv
<1> QED  BY <1>3, <1>4, <1>5, <1>6, <1>7, <1>8 DEF SignalingInv

(***************************************************************************)
(* ReceiveHello and HandleOffer: a store closes the object it has for p,   *)
(* if any, and puts a new one in its place.                                *)
(***************************************************************************)
LEMMA CreateStep ==
    ASSUME SignalingInv, TypeOK', NEW n \in Node, NEW p \in Node, NEW c \in Conn,
           c.owner = n, c.to = p, p \notin blocked[n],
           peers[n][p] = 0 => CanAcceptPeer(n, p),
           conns' = Append(Closed(EntriesOf(n, {p})), c),
           peers' = [peers EXCEPT ![n][p] = Len(conns')],
           UNCHANGED <<wrapping, blocked>>,
           \A m \in Node : \A q \in pending'[m] :
              q \in pending[m] \/ (m = n /\ q = p /\ c.outbound /\ c.sdp = "offering")
    PROVE  SignalingInv'
<1> DEFINE E == EntriesOf(n, {p})
           new == Len(conns) + 1
<1>0. TypeOK /\ PeersOK
  BY DEF SignalingInv
<1>a. DOMAIN conns = 1..Len(conns) /\ Len(conns) \in Nat
  BY <1>0, ObjectNumbers
<1>1. /\ Closed(E) \in Seq(Conn) /\ Len(Closed(E)) = Len(conns)
      /\ \A o \in DOMAIN conns :
           /\ Closed(E)[o].owner = conns[o].owner /\ Closed(E)[o].to = conns[o].to
           /\ Closed(E)[o].outbound = conns[o].outbound /\ Closed(E)[o].sdp = conns[o].sdp
           /\ Closed(E)[o].link = IF o \in E THEN "closed" ELSE conns[o].link
  BY <1>0, ClosedFacts
<1>2. Len(conns') = new /\ DOMAIN conns' = 1..new /\ conns'[new] = c
  BY <1>a, <1>1
<1>3. \A o \in DOMAIN conns :
         /\ conns'[o].owner = conns[o].owner /\ conns'[o].to = conns[o].to
         /\ conns'[o].outbound = conns[o].outbound /\ conns'[o].sdp = conns[o].sdp
         /\ conns'[o].link = IF o \in E THEN "closed" ELSE conns[o].link
  <2> SUFFICES ASSUME NEW o \in DOMAIN conns
               PROVE  /\ conns'[o].owner = conns[o].owner /\ conns'[o].to = conns[o].to
                      /\ conns'[o].outbound = conns[o].outbound /\ conns'[o].sdp = conns[o].sdp
                      /\ conns'[o].link = IF o \in E THEN "closed" ELSE conns[o].link
    OBVIOUS
  <2>1. conns'[o] = Closed(E)[o]
    BY <1>a, <1>1
  <2> QED  BY ONLY <1>1, <2>1, o \in DOMAIN conns
<1>4. \A m, q \in Node : peers'[m][q] = IF m = n /\ q = p THEN new ELSE peers[m][q]
  BY <1>0, <1>2, SMTT(30) DEF TypeOK
<1>5. DOMAIN conns \subseteq DOMAIN conns' /\ new \in DOMAIN conns' /\ new # 0
  BY <1>a, <1>2
<1>6. PeersOK'
  <2> SUFFICES ASSUME NEW m \in Node, NEW q \in Node, peers'[m][q] # 0
               PROVE  /\ peers'[m][q] \in DOMAIN conns'
                      /\ conns'[peers'[m][q]].owner = m /\ conns'[peers'[m][q]].to = q
    BY DEF PeersOK
  <2>1. CASE m = n /\ q = p
    BY <1>2, <1>4, <1>5, <2>1
  <2>2. CASE ~(m = n /\ q = p)
    <3>1. peers'[m][q] = peers[m][q]
      BY <1>4, <2>2
    <3>2. /\ peers[m][q] \in DOMAIN conns
          /\ conns[peers[m][q]].owner = m /\ conns[peers[m][q]].to = q
      BY <1>0, <3>1 DEF PeersOK
    <3>3. conns'[peers[m][q]].owner = m /\ conns'[peers[m][q]].to = q
      BY <1>3, <3>2
    <3> QED  BY <1>5, <3>1, <3>2, <3>3
  <2> QED  BY <2>1, <2>2
<1>7. LiveObjectsAreKept'
  <2> SUFFICES ASSUME NEW o \in Live'
               PROVE  peers'[conns'[o].owner][conns'[o].to] = o
    BY DEF LiveObjectsAreKept
  <2>1. CASE o = new
    BY <1>2, <1>4, <2>1
  <2>2. CASE o # new
    <3>1. o \in DOMAIN conns
      BY <1>a, <1>2, <2>2 DEF Live
    <3>2. o \in Live /\ o \notin E /\ conns'[o].owner = conns[o].owner /\ conns'[o].to = conns[o].to
      BY <1>3, <3>1 DEF Live
    <3>3. conns[o].owner \in Node /\ conns[o].to \in Node
      BY <1>0, <3>1, ObjectNumbers DEF Conn
    <3>4. peers[conns[o].owner][conns[o].to] = o /\ o # 0
      BY <1>a, <3>1, <3>2 DEF SignalingInv, LiveObjectsAreKept
    <3>5. ~(conns[o].owner = n /\ conns[o].to = p)
      BY <3>2, <3>4 DEF EntriesOf
    <3>6. peers'[conns[o].owner][conns[o].to] = peers[conns[o].owner][conns[o].to]
      BY <1>4, <3>3, <3>5
    <3> QED  BY <3>2, <3>4, <3>6
  <2> QED  BY <2>1, <2>2
<1>8. PoolsBounded'
  <2> SUFFICES ASSUME NEW m \in Node, NEW k \in Pools
               PROVE  Cardinality(InPool(m, k)') <= Limit[k]
    BY DEF PoolsBounded
  <2> DEFINE old == InPool(m, k)
  <2>1. /\ old \in SUBSET Node /\ Cardinality(old) \in Nat
        /\ Cardinality(old) <= Limit[k] /\ Limit[k] \in Nat
    BY PoolFinite, SignalingAssumption DEF SignalingInv, PoolsBounded, InPool
  <2>2. CASE m = n /\ k = PoolOf[n][p] /\ peers[n][p] = 0
    <3>1. InPool(m, k)' = old \cup {p}
      BY <1>4, <1>5, <2>2 DEF InPool
    <3>2. Cardinality(old) < Limit[k]
      BY <2>2 DEF CanAcceptPeer
    <3>3. Cardinality(old \cup {p}) <= Cardinality(old) + 1
      BY <2>1, PoolFinite
    <3>4. Cardinality(old \cup {p}) \in Nat
      <4>1. old \cup {p} \in SUBSET Node
        BY <2>1
      <4> QED  BY <4>1, PoolFinite
    <3> HIDE DEF old
    <3> QED  BY <2>1, <3>1, <3>2, <3>3, <3>4
  <2>3. CASE ~(m = n /\ k = PoolOf[n][p] /\ peers[n][p] = 0)
    <3>1. InPool(m, k)' = old
      BY <1>4, <1>5, <2>3 DEF InPool
    <3> QED  BY <2>1, <3>1
  <2> QED  BY <2>2, <2>3
<1>9. BlockedStayOut'
  BY <1>4 DEF SignalingInv, TypeOK, BlockedStayOut
<1>10. MarksAreAttempts'
  <2> SUFFICES ASSUME NEW m \in Node, NEW q \in pending'[m]
               PROVE  \E o \in DOMAIN conns' :
                         /\ conns'[o].owner = m /\ conns'[o].to = q /\ conns'[o].outbound
                         /\ conns'[o].sdp = "offering" \/ o \in wrapping'
    BY DEF MarksAreAttempts
  <2>1. CASE q \in pending[m]
    <3>1. PICK o \in DOMAIN conns :
             /\ conns[o].owner = m /\ conns[o].to = q /\ conns[o].outbound
             /\ conns[o].sdp = "offering" \/ o \in wrapping
      BY <2>1 DEF SignalingInv, MarksAreAttempts
    <3> QED  BY <1>3, <1>5, <3>1, ZenonT(30)
  <2>2. CASE q \notin pending[m]
    BY <1>2, <1>5, <2>2
  <2> QED  BY <2>1, <2>2
<1>11. wrapping' \subseteq DOMAIN conns'
  BY <1>5 DEF SignalingInv
<1> QED  BY <1>6, <1>7, <1>8, <1>9, <1>10, <1>11 DEF SignalingInv

(***************************************************************************)
(* Negotiation: object o changes, but not whose it is, nor does a closed   *)
(* object come back; the marks keep their attempts.                        *)
(***************************************************************************)
LEMMA NegotiateStep ==
    ASSUME SignalingInv, TypeOK', UNCHANGED <<peers, blocked>>,
           DOMAIN conns' = DOMAIN conns,
           \A o \in DOMAIN conns :
             /\ conns'[o].owner = conns[o].owner /\ conns'[o].to = conns[o].to
             /\ conns'[o].link # "closed" => conns[o].link # "closed",
           wrapping' \subseteq DOMAIN conns, MarksAreAttempts'
    PROVE  SignalingInv'
<1>1. PeersOK'
  BY DEF SignalingInv, PeersOK
<1>2. LiveObjectsAreKept'
  BY DEF SignalingInv, LiveObjectsAreKept, Live
<1>3. PoolsBounded'
  BY DEF SignalingInv, PoolsBounded, InPool
<1>4. BlockedStayOut'
  BY DEF SignalingInv, BlockedStayOut
<1> QED  BY <1>1, <1>2, <1>3, <1>4 DEF SignalingInv

-----------------------------------------------------------------------------
(* The steps of a store and of a Peer object, one by one. *)

(* What the steps have in common that close objects: the types stay. *)
LEMMA CloseTyped ==
    ASSUME TypeOK, NEW n \in Node, NEW S \in SUBSET Node,
           conns' = Closed(EntriesOf(n, S)), peers' = Emptied(n, S)
    PROVE  /\ conns' \in Seq(Conn) /\ Len(conns') <= MaxConns
           /\ peers' \in [Node -> [Node -> 0..MaxConns]]
<1>1. Len(conns) <= MaxConns
  BY DEF TypeOK
<1> QED  BY <1>1, ClosedFacts, EmptiedFacts

(* Closing steps keep the invariant. *)
LEMMA ClosingSteps ==
    ASSUME SignalingInv, NEW n \in Node,
           \/ Stop(n) \/ SetRelays(n) \/ Cleanup(n)
           \/ \E p \in Node : Block(n, p)
    PROVE  SignalingInv'
<1>0. TypeOK
  BY DEF SignalingInv
<1>f. faults < MaxFaults => faults + 1 \in 0..MaxFaults
  BY <1>0, SignalingAssumption DEF TypeOK
<1>1. CASE Stop(n)
  <2>1. TypeOK'
    BY <1>0, <1>1, <1>f, CloseTyped DEF Stop, TypeOK
  <2>2. \A m \in Node : pending'[m] \subseteq pending[m]
    BY <1>0, <1>1 DEF Stop, TypeOK
  <2> QED  BY <1>1, <2>1, <2>2, CloseStep DEF Stop
<1>2. CASE SetRelays(n)
  <2>1. TypeOK'
    BY <1>0, <1>2, <1>f, CloseTyped DEF SetRelays, TypeOK
  <2> QED  BY <1>2, <2>1, CloseStep DEF SetRelays
<1>3. CASE Cleanup(n)
  <2>1. PICK S \in SUBSET Node :
           conns' = Closed(EntriesOf(n, S)) /\ peers' = Emptied(n, S)
    BY <1>3 DEF Cleanup
  <2>2. TypeOK'
    BY <1>0, <1>3, <2>1, CloseTyped DEF Cleanup, TypeOK
  <2> QED  BY <1>3, <2>1, <2>2, CloseStep DEF Cleanup
<1>4. ASSUME NEW p \in Node, Block(n, p)  PROVE SignalingInv'
  <2>0. {p} \in SUBSET Node /\ blocked' \in [Node -> SUBSET Node]
    BY <1>0, <1>4 DEF Block, TypeOK
  <2>1. TypeOK'
    <3>1. conns' = Closed(EntriesOf(n, {p})) /\ peers' = Emptied(n, {p})
      BY <1>4 DEF Block
    <3>2. /\ conns' \in Seq(Conn) /\ Len(conns') <= MaxConns
          /\ peers' \in [Node -> [Node -> 0..MaxConns]]
      BY <1>0, <2>0, <3>1, CloseTyped
    <3> QED  BY <1>0, <1>4, <1>f, <2>0, <3>2 DEF Block, TypeOK
  <2>2. \A m, q \in Node : q \in blocked'[m] => q \in blocked[m] \/ (m = n /\ q \in {p})
    BY <1>0, <1>4 DEF Block, TypeOK
  <2> QED  BY <1>4, <2>0, <2>1, <2>2, CloseStep DEF Block
<1> QED  BY <1>1, <1>2, <1>3, <1>4

(* A link fails: what its store has for the other end is this very object. *)
LEMMA LinkFailsStep ==
    ASSUME SignalingInv, NEW o \in DOMAIN conns, LinkFails(o)
    PROVE  SignalingInv'
<1> DEFINE n == conns[o].owner
           S == {conns[o].to}
<1>1. TypeOK /\ o \in Live /\ o # 0 /\ n \in Node /\ conns[o].to \in Node
  BY ObjectNumbers DEF SignalingInv, LinkFails, Conn
<1>2. peers[n][conns[o].to] = o
  BY <1>1 DEF SignalingInv, LiveObjectsAreKept
<1>3. EntriesOf(n, S) = {o}
  BY <1>1, <1>2 DEF EntriesOf
<1>4. conns' = Closed(EntriesOf(n, S)) /\ peers' = Emptied(n, S)
  BY <1>3 DEF LinkFails
<1>5. S \in SUBSET Node
  BY <1>1
<1> HIDE DEF n, S
<1>6. TypeOK'
  BY <1>1, <1>4, <1>5, CloseTyped DEF LinkFails, TypeOK
<1> QED  BY <1>1, <1>4, <1>5, <1>6, CloseStep DEF LinkFails

(* Types after a new object. *)
LEMMA CreateTyped ==
    ASSUME TypeOK, NEW n \in Node, NEW p \in Node, NEW S, NEW c \in Conn,
           Len(conns) < MaxConns,
           conns' = Append(Closed(S), c), peers' = [peers EXCEPT ![n][p] = Len(conns')]
    PROVE  /\ conns' \in Seq(Conn) /\ Len(conns') <= MaxConns
           /\ peers' \in [Node -> [Node -> 0..MaxConns]]
<1>1. Closed(S) \in Seq(Conn) /\ Len(Closed(S)) = Len(conns) /\ Len(conns) \in Nat
  BY ClosedFacts, ObjectNumbers
<1>2. Len(conns') = Len(conns) + 1 /\ conns' \in Seq(Conn)
  BY <1>1
<1>3. Len(conns') \in 0..MaxConns
  BY <1>1, <1>2, SignalingAssumption
<1> QED  BY <1>2, <1>3 DEF TypeOK

(* A hello is answered with a new object. *)
LEMMA ReceiveHelloStep ==
    ASSUME SignalingInv, NEW n \in Node, NEW p \in Node, ReceiveHello(n, p)
    PROVE  SignalingInv'
<1> DEFINE c == NewConn(n, p, TRUE, 0)
<1>0. TypeOK
  BY DEF SignalingInv
<1>1. c \in Conn /\ c.owner = n /\ c.to = p /\ c.outbound /\ c.sdp = "offering"
  BY SignalingAssumption DEF NewConn, Conn
<1>2. EntriesOf(n, {p}) = {}
  BY DEF ReceiveHello, AcceptsHello, EntriesOf
<1>3. Closed({}) = conns
  <2>1. conns = [o \in DOMAIN conns |-> conns[o]]
    BY <1>0, ObjectNumbers DEF TypeOK
  <2> QED  BY <2>1 DEF Closed
<1>4. /\ conns' = Append(Closed(EntriesOf(n, {p})), c)
      /\ peers' = [peers EXCEPT ![n][p] = Len(conns')]
      /\ Len(conns) < MaxConns /\ p \notin blocked[n] /\ CanAcceptPeer(n, p)
      /\ UNCHANGED <<wrapping, blocked, store, hellos, relayed, unwrapping, faults>>
  BY <1>2, <1>3 DEF ReceiveHello, AcceptsHello
<1>5. /\ pending' \in [Node -> SUBSET Node]
      /\ \A m \in Node : \A q \in pending'[m] : q \in pending[m] \/ (m = n /\ q = p)
  BY <1>0 DEF ReceiveHello, TypeOK
<1> HIDE DEF c
<1>6. TypeOK'
  BY <1>0, <1>1, <1>4, <1>5, CreateTyped DEF TypeOK
<1>7. /\ \A m \in Node : \A q \in pending'[m] :
            q \in pending[m] \/ (m = n /\ q = p /\ c.outbound /\ c.sdp = "offering")
      /\ peers[n][p] = 0 => CanAcceptPeer(n, p)
      /\ UNCHANGED <<wrapping, blocked>>
  BY <1>1, <1>4, <1>5
<1> QED  BY <1>1, <1>4, <1>6, <1>7, CreateStep

(* An offer is refused or answered with a new object. *)
LEMMA HandleOfferStep ==
    ASSUME SignalingInv, NEW n \in Node, NEW m \in unwrapping, HandleOffer(n, m)
    PROVE  SignalingInv'
<1> DEFINE p == m.from
           c == NewConn(n, p, FALSE, m.object)
<1>0. TypeOK /\ m \in Message /\ p \in Node
  BY DEF SignalingInv, TypeOK, Message
<1>1. CASE AcceptsOffer(n, p)
  <2>1. c \in Conn /\ c.owner = n /\ c.to = p
    BY <1>0, SignalingAssumption DEF NewConn, Conn, Message, Objects
  <2>2. /\ conns' = Append(Closed(EntriesOf(n, {p})), c)
        /\ peers' = [peers EXCEPT ![n][p] = Len(conns')]
        /\ pending' = [pending EXCEPT ![n] = @ \ {p}]
        /\ Len(conns) < MaxConns /\ p \notin blocked[n]
        /\ peers[n][p] = 0 => CanAcceptPeer(n, p)
        /\ unwrapping' \subseteq unwrapping
        /\ UNCHANGED <<wrapping, blocked, store, hellos, relayed, faults>>
    BY <1>1 DEF HandleOffer, AcceptsOffer
  <2>3. /\ pending' \in [Node -> SUBSET Node]
        /\ \A x \in Node : \A q \in pending'[x] : q \in pending[x]
    BY <1>0, <2>2 DEF TypeOK
  <2> HIDE DEF c, p
  <2>4. TypeOK'
    BY <1>0, <2>1, <2>2, <2>3, CreateTyped DEF TypeOK
  <2> QED  BY <1>0, <2>1, <2>2, <2>3, <2>4, CreateStep
<1>2. CASE ~AcceptsOffer(n, p)
  <2>1. /\ UNCHANGED <<conns, peers, pending, hellos, store, blocked, wrapping, relayed, faults>>
        /\ unwrapping' \subseteq unwrapping
    BY <1>2 DEF HandleOffer
  <2>2. TypeOK'
    BY <1>0, <2>1 DEF TypeOK
  <2>3. MarksAreAttempts'
    BY <2>1 DEF SignalingInv, MarksAreAttempts
  <2> QED  BY <2>1, <2>2, <2>3, NegotiateStep DEF SignalingInv
<1> QED  BY <1>1, <1>2

(* Steps that change neither objects nor maps nor marks. *)
LEMMA OtherSteps ==
    ASSUME SignalingInv, TypeOK', UNCHANGED <<blocked, peers, pending, conns, wrapping>>
    PROVE  SignalingInv'
<1>1. MarksAreAttempts'
  BY DEF SignalingInv, MarksAreAttempts
<1> QED  BY <1>1, NegotiateStep DEF SignalingInv

(* One object changes its description or its link: types and domain stay. *)
LEMMA ChangeFacts ==
    ASSUME TypeOK, NEW o \in DOMAIN conns, NEW c \in Conn, conns' = [conns EXCEPT ![o] = c]
    PROVE  /\ conns' \in Seq(Conn) /\ Len(conns') = Len(conns) /\ Len(conns') <= MaxConns
           /\ DOMAIN conns' = DOMAIN conns
           /\ \A q \in DOMAIN conns : conns'[q] = IF q = o THEN c ELSE conns[q]
<1>1. conns \in Seq(Conn) /\ Len(conns) <= MaxConns
  BY DEF TypeOK
<1> QED  BY <1>1

(* A mark keeps its attempt when the attempt goes on to be wrapped. *)
LEMMA DescribeStep ==
    ASSUME SignalingInv, NEW o \in DOMAIN conns, Describe(o)
    PROVE  SignalingInv'
<1> DEFINE c == [conns[o] EXCEPT !.sdp = IF @ = "offering" THEN "offered" ELSE "stable"]
<1>0. TypeOK /\ conns[o] \in Conn /\ o \in Objects
  BY ObjectNumbers DEF SignalingInv
<1>1. /\ c \in Conn /\ c.owner = conns[o].owner /\ c.to = conns[o].to
      /\ c.outbound = conns[o].outbound /\ c.link = conns[o].link
  BY <1>0 DEF Conn
<1>2. conns' = [conns EXCEPT ![o] = c] /\ wrapping' = wrapping \cup {o}
  BY <1>0 DEF Describe, TypeOK
<1> HIDE DEF c
<1>3. /\ conns' \in Seq(Conn) /\ Len(conns') <= MaxConns /\ DOMAIN conns' = DOMAIN conns
      /\ \A q \in DOMAIN conns : conns'[q] = IF q = o THEN c ELSE conns[q]
  BY <1>0, <1>1, <1>2, ChangeFacts
<1>4. TypeOK'
  BY <1>0, <1>2, <1>3 DEF Describe, TypeOK
<1>5. MarksAreAttempts'
  BY <1>1, <1>2, <1>3 DEF Describe, SignalingInv, MarksAreAttempts
<1> QED  BY <1>1, <1>2, <1>3, <1>4, <1>5, NegotiateStep DEF Describe, SignalingInv

(* When an attempt settles, its mark goes; every other mark keeps its own. *)
LEMMA UnmarkedFacts ==
    ASSUME SignalingInv, NEW o \in DOMAIN conns, pending' = Unmarked(o)
    PROVE  /\ pending' \in [Node -> SUBSET Node]
           /\ \A n \in Node : \A p \in pending'[n] :
                /\ p \in pending[n]
                /\ ~(conns[o].outbound /\ conns[o].owner = n /\ conns[o].to = p)
  BY ObjectNumbers DEF SignalingInv, TypeOK, Unmarked, Conn

(* The marks that are left after an attempt settled have other attempts. *)
LEMMA SettledMarks ==
    ASSUME SignalingInv, NEW o \in DOMAIN conns, pending' = Unmarked(o),
           wrapping' = wrapping \ {o}, DOMAIN conns' = DOMAIN conns,
           \A q \in DOMAIN conns : q # o => conns'[q] = conns[q]
    PROVE  MarksAreAttempts'
<1> SUFFICES ASSUME NEW n \in Node, NEW p \in pending'[n]
             PROVE  \E q \in DOMAIN conns' :
                       /\ conns'[q].owner = n /\ conns'[q].to = p /\ conns'[q].outbound
                       /\ conns'[q].sdp = "offering" \/ q \in wrapping'
  BY DEF MarksAreAttempts
<1>1. p \in pending[n] /\ ~(conns[o].outbound /\ conns[o].owner = n /\ conns[o].to = p)
  BY UnmarkedFacts
<1>2. PICK q \in DOMAIN conns :
         /\ conns[q].owner = n /\ conns[q].to = p /\ conns[q].outbound
         /\ conns[q].sdp = "offering" \/ q \in wrapping
  BY <1>1 DEF SignalingInv, MarksAreAttempts
<1>3. q # o
  BY <1>1, <1>2
<1> QED  BY <1>2, <1>3

(* Publishing ends an attempt, and so does a failure. *)
LEMMA PublishStep ==
    ASSUME SignalingInv, NEW o \in DOMAIN conns, Publish(o)
    PROVE  SignalingInv'
<1>0. TypeOK /\ conns[o] \in Conn /\ o \in Objects
  BY ObjectNumbers DEF SignalingInv
<1>1. /\ pending' = Unmarked(o) /\ wrapping' = wrapping \ {o}
      /\ UNCHANGED <<hellos, store, blocked, peers, conns, unwrapping, faults>>
  BY DEF Publish
<1>2. relayed' \subseteq Message
  <2> DEFINE m == [type |-> IF conns[o].outbound THEN "offer" ELSE "answer",
                   from |-> conns[o].owner, to |-> conns[o].to, object |-> o]
  <2>1. m \in Message
    BY <1>0 DEF Message, Conn
  <2>2. relayed' = relayed \cup {m}
    BY DEF Publish
  <2> HIDE DEF m
  <2> QED  BY <1>0, <2>1, <2>2 DEF TypeOK
<1>3. pending' \in [Node -> SUBSET Node]
  BY <1>1, UnmarkedFacts
<1>4. TypeOK'
  BY <1>0, <1>1, <1>2, <1>3 DEF TypeOK
<1>5. MarksAreAttempts'
  BY <1>1, SettledMarks
<1> QED  BY <1>1, <1>4, <1>5, NegotiateStep DEF SignalingInv

(* A description or its wrapping fails. *)
LEMMA DescribeFailsStep ==
    ASSUME SignalingInv, NEW o \in DOMAIN conns, DescribeFails(o)
    PROVE  SignalingInv'
<1>0. TypeOK /\ conns[o] \in Conn
  BY ObjectNumbers DEF SignalingInv
<1>1. /\ pending' = Unmarked(o) /\ wrapping' = wrapping \ {o}
      /\ UNCHANGED <<hellos, store, blocked, peers, relayed, unwrapping, faults>>
  BY DEF DescribeFails
<1>2. \E c \in Conn : /\ conns' = [conns EXCEPT ![o] = c]
                      /\ c.owner = conns[o].owner /\ c.to = conns[o].to /\ c.link = conns[o].link
  <2>1. CASE conns[o].sdp \in {"offering", "answering"}
    <3> DEFINE c == [conns[o] EXCEPT !.sdp = "failed"]
    <3>1. /\ c \in Conn
          /\ c.owner = conns[o].owner /\ c.to = conns[o].to /\ c.link = conns[o].link
      BY <1>0 DEF Conn
    <3>2. conns' = [conns EXCEPT ![o] = c]
      BY <1>0, <2>1 DEF DescribeFails, TypeOK
    <3> HIDE DEF c
    <3> QED  BY <3>1, <3>2
  <2>2. CASE conns[o].sdp \notin {"offering", "answering"}
    <3>1. conns' = conns
      BY <2>2 DEF DescribeFails
    <3>2. conns = [conns EXCEPT ![o] = conns[o]]
      BY <1>0 DEF TypeOK
    <3> QED  BY <1>0, <3>1, <3>2
  <2> QED  BY <2>1, <2>2
<1>3. PICK c \in Conn :
         /\ conns' = [conns EXCEPT ![o] = c]
         /\ c.owner = conns[o].owner /\ c.to = conns[o].to /\ c.link = conns[o].link
  BY <1>2
<1>4. /\ conns' \in Seq(Conn) /\ Len(conns') <= MaxConns /\ DOMAIN conns' = DOMAIN conns
      /\ \A q \in DOMAIN conns : conns'[q] = IF q = o THEN c ELSE conns[q]
  BY <1>0, <1>3, ChangeFacts
<1>5. TypeOK'
  BY <1>0, <1>1, <1>4, UnmarkedFacts DEF TypeOK
<1>6. MarksAreAttempts'
  BY <1>1, <1>4, SettledMarks
<1> QED  BY <1>1, <1>3, <1>4, <1>5, <1>6, NegotiateStep DEF SignalingInv

(* ICE changes the link of an object that is not closed. *)
LEMMA LinkStep ==
    ASSUME SignalingInv, NEW o \in DOMAIN conns, Checking(o) \/ Connect(o)
    PROVE  SignalingInv'
<1>0. TypeOK /\ conns[o] \in Conn
  BY ObjectNumbers DEF SignalingInv
<1>1. PICK v \in {"connecting", "connected"} :
         /\ conns' = [conns EXCEPT ![o].link = v]
         /\ conns[o].link # "closed"
         /\ hellos' \in SUBSET Node
         /\ UNCHANGED <<store, blocked, peers, pending, wrapping, relayed, unwrapping, faults>>
  <2>1. CASE Checking(o)
    BY <1>0, <2>1 DEF Checking, TypeOK
  <2>2. CASE Connect(o)
    BY <1>0, <2>2 DEF Connect, TypeOK, MaybeHello, Conn
  <2> QED  BY <2>1, <2>2
<1> DEFINE c == [conns[o] EXCEPT !.link = v]
<1>2. /\ c \in Conn /\ c.owner = conns[o].owner /\ c.to = conns[o].to
      /\ c.outbound = conns[o].outbound /\ c.sdp = conns[o].sdp
  BY <1>0 DEF Conn
<1>3. conns' = [conns EXCEPT ![o] = c]
  BY <1>0, <1>1 DEF TypeOK
<1> HIDE DEF c
<1>4. /\ conns' \in Seq(Conn) /\ Len(conns') <= MaxConns /\ DOMAIN conns' = DOMAIN conns
      /\ \A q \in DOMAIN conns : conns'[q] = IF q = o THEN c ELSE conns[q]
  BY <1>0, <1>2, <1>3, ChangeFacts
<1>5. TypeOK'
  BY <1>0, <1>1, <1>4 DEF TypeOK
<1>6. MarksAreAttempts'
  BY <1>1, <1>2, <1>4 DEF SignalingInv, MarksAreAttempts
<1> QED  BY <1>1, <1>2, <1>4, <1>5, <1>6, NegotiateStep DEF SignalingInv

(* An answer makes an object stable that had a local offer, which is no mark's attempt
   unless it is still being wrapped. *)
LEMMA HandleAnswerStep ==
    ASSUME SignalingInv, NEW n \in Node, NEW m \in unwrapping, HandleAnswer(n, m)
    PROVE  SignalingInv'
<1> DEFINE o == peers[n][m.from]
<1>a. TypeOK /\ m \in Message
  BY DEF SignalingInv, TypeOK
<1>b. m.from \in Node /\ m.object \in Objects
  BY <1>a DEF Message
<1>0. TypeOK /\ m \in Message /\ m.from \in Node /\ m.object \in 0..MaxConns
  BY <1>a, <1>b, SignalingAssumption DEF Objects
<1>1. /\ UNCHANGED <<hellos, store, blocked, peers, pending, wrapping, relayed, faults>>
      /\ unwrapping' \subseteq unwrapping
  BY DEF HandleAnswer
<1>2. CASE o # 0 /\ conns[o].sdp = "offered"
  <2> DEFINE c == [conns[o] EXCEPT !.sdp = "stable", !.remote = m.object]
  <2>1. o \in DOMAIN conns /\ conns[o] \in Conn
    BY <1>0, <1>2, ObjectNumbers DEF SignalingInv, PeersOK
  <2>2. /\ c \in Conn /\ c.owner = conns[o].owner /\ c.to = conns[o].to
        /\ c.outbound = conns[o].outbound /\ c.link = conns[o].link
    BY <1>0, <2>1 DEF Conn
  <2>3. conns' = [conns EXCEPT ![o] = c]
    BY <1>0, <1>2, <2>1 DEF HandleAnswer, TypeOK
  <2> HIDE DEF c, o
  <2>4. /\ conns' \in Seq(Conn) /\ Len(conns') <= MaxConns /\ DOMAIN conns' = DOMAIN conns
        /\ \A q \in DOMAIN conns : conns'[q] = IF q = o THEN c ELSE conns[q]
    BY <1>0, <2>1, <2>2, <2>3, ChangeFacts
  <2>5. TypeOK'
    BY <1>0, <1>1, <2>4 DEF TypeOK
  <2>6. MarksAreAttempts'
    BY <1>1, <1>2, <2>2, <2>4 DEF SignalingInv, MarksAreAttempts
  <2> QED  BY <1>1, <2>2, <2>4, <2>5, <2>6, NegotiateStep DEF SignalingInv
<1>3. CASE ~(o # 0 /\ conns[o].sdp = "offered")
  <2>1. UNCHANGED conns
    BY <1>3 DEF HandleAnswer
  <2>2. TypeOK'
    BY <1>0, <1>1, <2>1 DEF TypeOK
  <2> QED  BY <1>1, <2>1, <2>2, OtherSteps
<1> QED  BY <1>2, <1>3

-----------------------------------------------------------------------------
(* Initially there are no objects, marks or messages. *)
LEMMA SignalingInit == Init => SignalingInv
<1> SUFFICES ASSUME Init  PROVE SignalingInv
  OBVIOUS
<1>1. TypeOK
  BY SignalingAssumption DEF Init, TypeOK
<1>2. \A n, p \in Node : peers[n][p] = 0 /\ blocked[n] = {} /\ pending[n] = {}
  BY DEF Init
<1>3. DOMAIN conns = {}
  BY DEF Init
<1>4. PoolsBounded
  <2> SUFFICES ASSUME NEW n \in Node, NEW k \in Pools  PROVE Cardinality(InPool(n, k)) <= Limit[k]
    BY DEF PoolsBounded
  <2>1. InPool(n, k) = {}
    BY <1>2 DEF InPool
  <2> QED  BY <2>1, FS_EmptySet, SignalingAssumption
<1>5. wrapping = {}
  BY DEF Init
<1> QED  BY <1>1, <1>2, <1>3, <1>4, <1>5
     DEF SignalingInv, PeersOK, LiveObjectsAreKept, Live, BlockedStayOut, MarksAreAttempts

(* Every step of a store or of a Peer object keeps the invariant. *)
LEMMA SignalingStep == SignalingInv /\ [Next]_vars => SignalingInv'
<1> SUFFICES ASSUME SignalingInv, [Next]_vars  PROVE SignalingInv'
  OBVIOUS
<1>0. TypeOK
  BY DEF SignalingInv
<1>1. ASSUME NEW n \in Node, NodeNext(n)  PROVE SignalingInv'
  <2>1. CASE Start(n) \/ SendHello(n) \/ HelloExpires(n)
    <3>1. /\ hellos' \subseteq Node /\ store' \in [Node -> {"idle", "running", "stopped"}]
          /\ UNCHANGED <<blocked, peers, pending, conns, wrapping, relayed, unwrapping, faults>>
      BY <1>0, <2>1 DEF Start, SendHello, HelloExpires, MaybeHello, TypeOK
    <3>2. TypeOK'
      BY <1>0, <3>1 DEF TypeOK
    <3> QED  BY <3>1, <3>2, OtherSteps
  <2>2. CASE Stop(n) \/ SetRelays(n) \/ Cleanup(n) \/ \E p \in Node : Block(n, p)
    BY <2>2, ClosingSteps
  <2>3. ASSUME NEW p \in Node, ReceiveHello(n, p)  PROVE SignalingInv'
    BY <2>3, ReceiveHelloStep
  <2>4. ASSUME NEW m \in relayed, ReceiveDirected(n, m)  PROVE SignalingInv'
    <3>1. /\ relayed' \subseteq Message /\ unwrapping' \subseteq Message /\ faults' \in 0..MaxFaults
          /\ UNCHANGED <<hellos, store, blocked, peers, pending, conns, wrapping>>
      BY <1>0, <2>4, SignalingAssumption DEF ReceiveDirected, Deliver, TypeOK
    <3>2. TypeOK'
      BY <1>0, <3>1 DEF TypeOK
    <3> QED  BY <3>1, <3>2, OtherSteps
  <2>5. ASSUME NEW m \in unwrapping, HandleOffer(n, m) \/ HandleAnswer(n, m)
        PROVE  SignalingInv'
    BY <2>5, HandleOfferStep, HandleAnswerStep
  <2> QED  BY <1>1, <2>1, <2>2, <2>3, <2>4, <2>5 DEF NodeNext
<1>2. ASSUME NEW o \in DOMAIN conns, ObjectNext(o)  PROVE SignalingInv'
  BY <1>2, DescribeStep, PublishStep, DescribeFailsStep, LinkStep, LinkFailsStep DEF ObjectNext
<1>3. CASE UNCHANGED vars
  <2>1. TypeOK'
    BY <1>0, <1>3 DEF vars, TypeOK
  <2> QED  BY <1>3, <2>1, OtherSteps DEF vars
<1> QED  BY <1>1, <1>2, <1>3 DEF Next

(* The inductive invariant of the signaling. *)
THEOREM Invariance == Spec => []SignalingInv
  BY SignalingInit, SignalingStep, PTL DEF Spec

(* Every variable keeps its type: in particular a map holds object numbers only. *)
THEOREM TypeCorrect == Spec => []TypeOK
<1>1. SignalingInv => TypeOK
  BY DEF SignalingInv
<1> QED  BY <1>1, Invariance, PTL

(* No order of hellos, offers, awaits and closings makes a store keep more
   peers of a pool than maxConnections. *)
THEOREM PoolsStayBounded == Spec => []PoolsBounded
<1>1. SignalingInv => PoolsBounded
  BY DEF SignalingInv
<1> QED  BY <1>1, Invariance, PTL

(* Every Peer object that is not closed is the one its store can reach. *)
THEOREM NoConnectionIsLost == Spec => []LiveObjectsAreKept
<1>1. SignalingInv => LiveObjectsAreKept
  BY DEF SignalingInv
<1> QED  BY <1>1, Invariance, PTL

(* No message of a blocked peer, however late it is unwrapped, brings it back. *)
THEOREM BlockedPeersStayOut == Spec => []BlockedStayOut
<1>1. SignalingInv => BlockedStayOut
  BY DEF SignalingInv
<1> QED  BY <1>1, Invariance, PTL

(* A mark in pendingOtherPubkeys never outlives the attempt it stands for. *)
THEOREM MarksAreCleared == Spec => []MarksAreAttempts
<1>1. SignalingInv => MarksAreAttempts
  BY DEF SignalingInv
<1> QED  BY <1>1, Invariance, PTL
=============================================================================
