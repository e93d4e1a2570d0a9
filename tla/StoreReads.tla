----------------------------- MODULE StoreReads -----------------------------
(***************************************************************************)
(* How WebRTCStore answers get() (packages/hashtree-nostr/src/webrtc/      *)
(* store.ts): from its local store, from the peers that are connected,     *)
(* asked in waves, from the fallback stores, and in the end by waiting     *)
(* until a peer connects that has the block.  Equal hashes share one       *)
(* fetch; fetches that wait are listed in pendingReqs, which is keyed by   *)
(* the identity of the Uint8Array the caller passed, and are served by     *)
(* loops that await one peer after another.                                *)
(*                                                                         *)
(* A damaged block is refused and counts as no answer.  Time is left out:  *)
(* timers may run out at any moment.                                       *)
(***************************************************************************)
EXTENDS Naturals, FiniteSets

CONSTANTS
    Calls,      \* calls of get()
    Keys,       \* Uint8Array objects that hold hashes
    KeyOf,      \* [Calls -> Keys]: the object a call passes
    HashOf,     \* [Keys -> Hashes]: the hash an object holds
    Hashes,
    Peers,
    Fanout,     \* peers asked in a wave
    Satisfied,  \* satisfiedConnections
    None

ASSUME ReadsAssumption ==
    /\ KeyOf \in [Calls -> Keys]
    /\ HashOf \in [Keys -> Hashes]
    /\ Fanout \in Nat \ {0} /\ Satisfied \in Nat
    /\ None \notin Calls

VARIABLES
    running,
    connected,  \* peers with an open channel
    local,      \* hashes of the blocks in the local store
    call,       \* where a call stands
    leader,     \* the call whose fetch a joined call waits for
    gets,       \* pendingGets: the call that fetches a hash
    left,       \* peers the query of a fetch has not asked yet
    asked,      \* peers the query of a fetch has asked and not heard from
    tried,      \* triedPeers of a fetch
    entry,      \* pendingReqs: the array of a key, named after the call that made it
    members,    \* the requests in an array, named after their calls
    loops       \* loops of tryConnectedPeersForHash and tryPendingReqs that await a peer

fetch == <<left, asked, tried>>
vars == <<running, connected, local, call, leader, gets, fetch, entry, members, loops>>

-----------------------------------------------------------------------------
Fetching == {"querying", "fallback", "waiting"}

(* A loop over connected peers has its key and the peers still to come; one
   for a peer that arrived goes over all keys. *)
Loop == [kind: {"connected", "arrived"}, key: Keys, array: Calls, peer: Peers, rest: SUBSET Peers]

TypeOK ==
    /\ running \in BOOLEAN
    /\ connected \subseteq Peers
    /\ local \subseteq Hashes
    /\ call \in [Calls -> {"idle", "local", "missed", "joined", "data", "null"} \cup Fetching]
    /\ leader \in [Calls -> Calls \cup {None}]
    /\ gets \in [Hashes -> Calls \cup {None}]
    /\ left \in [Calls -> SUBSET Peers]
    /\ asked \in [Calls -> SUBSET Peers]
    /\ tried \in [Calls -> SUBSET Peers]
    /\ entry \in [Keys -> Calls \cup {None}]
    /\ members \in [Calls -> SUBSET Calls]
    /\ loops \subseteq Loop

Init ==
    /\ running = TRUE /\ connected = {} /\ local = {}
    /\ call = [c \in Calls |-> "idle"]
    /\ leader = [c \in Calls |-> None]
    /\ gets = [h \in Hashes |-> None]
    /\ left = [c \in Calls |-> {}] /\ asked = [c \in Calls |-> {}] /\ tried = [c \in Calls |-> {}]
    /\ entry = [k \in Keys |-> None]
    /\ members = [c \in Calls |-> {}]
    /\ loops = {}

-----------------------------------------------------------------------------
Hash(c) == HashOf[KeyOf[c]]

Settled(S, v) == [c \in Calls |-> IF c \in S THEN v ELSE call[c]]

(* Mutant: the calls that joined are not told. *)
FinishAlone(S, v) ==
    /\ call' = Settled(S, v)
    /\ gets' = [h \in Hashes |-> IF \E c \in S : Hash(c) = h THEN None ELSE gets[h]]

(* The fetches in S end with v: the calls that joined them get v too, and
   get()'s finally removes the fetches from pendingGets. *)
Finish(S, v) ==
    /\ call' = Settled(S \cup {c \in Calls : call[c] = "joined" /\ leader[c] \in S}, v)
    /\ gets' = [h \in Hashes |-> IF \E c \in S : Hash(c) = h THEN None ELSE gets[h]]

(* The requests of array a that have not tried peer p, and what marking them does. *)
Untried(a, p) == {r \in members[a] : p \notin tried[r]}

(* Mutant: a request is marked after the await. *)
MarkedLate(a, p) == tried

Marked(a, p) == [r \in Calls |-> IF r \in Untried(a, p) THEN tried[r] \cup {p} ELSE tried[r]]

-----------------------------------------------------------------------------
(**************************** get() and its fetch **************************)

Get(c) ==
    /\ call[c] = "idle"
    /\ call' = [call EXCEPT ![c] = "local"]
    /\ UNCHANGED <<running, connected, local, leader, gets, fetch, entry, members, loops>>

LocalHit(c) ==
    /\ call[c] = "local" /\ Hash(c) \in local
    /\ call' = [call EXCEPT ![c] = "data"]
    /\ UNCHANGED <<running, connected, local, leader, gets, fetch, entry, members, loops>>

(* The local store has read that the block is not there; the call resumes later. *)
LocalMiss(c) ==
    /\ call[c] = "local" /\ Hash(c) \notin local
    /\ call' = [call EXCEPT ![c] = "missed"]
    /\ UNCHANGED <<running, connected, local, leader, gets, fetch, entry, members, loops>>

Join(c) ==
    /\ call[c] = "missed" /\ gets[Hash(c)] # None
    /\ call' = [call EXCEPT ![c] = "joined"]
    /\ leader' = [leader EXCEPT ![c] = gets[Hash(c)]]
    /\ UNCHANGED <<running, connected, local, gets, fetch, entry, members, loops>>

(* The peers of the next wave of c, when `ps' have not been asked. *)
Waves(ps) == {w \in SUBSET ps : Cardinality(w) = IF Cardinality(ps) < Fanout
                                                 THEN Cardinality(ps) ELSE Fanout}

AskWave(c, ps) ==
    \E w \in Waves(ps) :
        /\ left' = [left EXCEPT ![c] = ps \ w]
        /\ asked' = [asked EXCEPT ![c] = @ \cup w]
        /\ tried' = [tried EXCEPT ![c] = @ \cup w]

(* Mutant: pendingGets is looked up before the local store is read. *)
StartFetchStale(c) ==
    /\ call[c] = "missed"
    /\ gets' = [gets EXCEPT ![Hash(c)] = c]
    /\ call' = [call EXCEPT ![c] = IF connected = {} THEN "fallback" ELSE "querying"]
    /\ AskWave(c, connected)
    /\ UNCHANGED <<running, connected, local, leader, entry, members, loops>>

(* fetchFromPeers up to its first await. *)
StartFetch(c) ==
    /\ call[c] = "missed" /\ gets[Hash(c)] = None
    /\ gets' = [gets EXCEPT ![Hash(c)] = c]
    /\ call' = [call EXCEPT ![c] = IF connected = {} THEN "fallback" ELSE "querying"]
    /\ AskWave(c, connected)
    /\ UNCHANGED <<running, connected, local, leader, entry, members, loops>>

(* The hedge interval is over, or nobody asked is left to answer. *)
NextWave(c) ==
    /\ call[c] = "querying" /\ left[c] # {}
    /\ AskWave(c, left[c])
    /\ UNCHANGED <<running, connected, local, call, leader, gets, entry, members, loops>>

QueryHit(c, p) ==
    /\ call[c] = "querying" /\ p \in asked[c] \cap connected
    /\ local' = local \cup {Hash(c)}
    /\ Finish({c}, "data")
    /\ UNCHANGED <<running, connected, leader, fetch, entry, members, loops>>

QueryMiss(c, p) ==
    /\ call[c] = "querying" /\ p \in asked[c]
    /\ asked' = [asked EXCEPT ![c] = @ \ {p}]
    /\ UNCHANGED <<running, connected, local, call, leader, gets, left, tried, entry, members, loops>>

(* The deadline of the query, or nobody is left. *)
QueryEnds(c) ==
    /\ call[c] = "querying"
    /\ call' = [call EXCEPT ![c] = "fallback"]
    /\ UNCHANGED <<running, connected, local, leader, gets, fetch, entry, members, loops>>

FallbackHit(c) ==
    /\ call[c] = "fallback"
    /\ local' = local \cup {Hash(c)}
    /\ Finish({c}, "data")
    /\ UNCHANGED <<running, connected, leader, fetch, entry, members, loops>>

MayWait(c) == running /\ (Cardinality(connected) < Satisfied \/ tried[c] = {})

(* Mutant: a fetch that may not wait falls off the end of the function. *)
FallbackMissUndefined(c) ==
    /\ call[c] = "fallback" /\ ~MayWait(c)
    /\ Finish({c}, "undefined")
    /\ UNCHANGED <<running, connected, local, leader, fetch, entry, members, loops>>

FallbackMiss(c) ==
    /\ call[c] = "fallback" /\ ~MayWait(c)
    /\ Finish({c}, "null")
    /\ UNCHANGED <<running, connected, local, leader, fetch, entry, members, loops>>

-----------------------------------------------------------------------------
(********************* Waiting requests and their loops ********************)

(* waitForHash lists the request, and tryConnectedPeersForHash begins with
   the first connected peer that is untried. *)
Wait(c) ==
    LET k == KeyOf[c]
        a == IF entry[k] = None THEN c ELSE entry[k]
        ms == members[a] \cup {c}
        first == {p \in connected : \E r \in ms : p \notin tried[r]}
    IN  /\ call[c] = "fallback" /\ MayWait(c)
        /\ call' = [call EXCEPT ![c] = "waiting"]
        /\ entry' = [entry EXCEPT ![k] = a]
        /\ members' = [members EXCEPT ![a] = ms]
        /\ \/ first = {} /\ UNCHANGED <<tried, loops>>
           \/ \E p \in first :
                 /\ tried' = [r \in Calls |-> IF r \in ms THEN tried[r] \cup {p} ELSE tried[r]]
                 /\ loops' = loops \cup {[kind |-> "connected", key |-> k, array |-> a,
                                          peer |-> p, rest |-> connected \ {p}]}
        /\ UNCHANGED <<running, connected, local, leader, gets, left, asked>>

(* The timer of a waiting request: removePendingReq looks for it in the
   array that is listed now. *)
Unlisted(c) ==
    LET k == KeyOf[c]
        a == entry[k]
    IN  IF a = None \/ c \notin members[a] THEN UNCHANGED <<entry, members>>
        ELSE /\ members' = [members EXCEPT ![a] = @ \ {c}]
             /\ entry' = IF members[a] = {c} THEN [entry EXCEPT ![k] = None] ELSE entry

(* Mutant: removePendingReq answers the request, if it finds it. *)
WaitTimeoutListed(c) ==
    /\ call[c] = "waiting"
    /\ entry[KeyOf[c]] # None /\ c \in members[entry[KeyOf[c]]]
    /\ Unlisted(c)
    /\ Finish({c}, "null")
    /\ UNCHANGED <<running, connected, local, leader, fetch, loops>>

WaitTimeout(c) ==
    /\ call[c] = "waiting"
    /\ Unlisted(c)
    /\ Finish({c}, "null")
    /\ UNCHANGED <<running, connected, local, leader, fetch, loops>>

(* The awaits that loop l may go on to, when `es' is pendingReqs: the next
   peer for its array, or the next array for its peer. *)
NextAwaits(l, es) ==
    IF l.kind = "connected"
    THEN {[l EXCEPT !.peer = p, !.rest = @ \ {p}] : p \in {q \in l.rest : Untried(l.array, q) # {}}}
    ELSE {[l EXCEPT !.key = k, !.array = es[k]] :
             k \in {j \in Keys : es[j] # None /\ Untried(es[j], l.peer) # {}}}

GoOn(l, nexts) ==
    IF nexts = {} THEN loops' = loops \ {l} /\ UNCHANGED tried
    ELSE \E n \in nexts : /\ loops' = (loops \ {l}) \cup {n}
                          /\ tried' = Marked(n.array, n.peer)

(* Null, a damaged block, or a peer that is gone. *)
LoopMiss(l) ==
    /\ l \in loops
    /\ GoOn(l, NextAwaits(l, entry))
    /\ UNCHANGED <<running, connected, local, call, leader, gets, left, asked, entry, members>>

(* The requests a loop answers: tryConnectedPeersForHash those listed now,
   tryPendingReqs those of the array it read before the await.  Both remove
   what is listed now. *)
Served(l) == IF l.kind = "arrived" THEN members[l.array]
             ELSE IF entry[l.key] = None THEN {} ELSE members[entry[l.key]]

(* Mutant: a request is answered again after its timer ran out. *)
LoopHitAgain(l) ==
    /\ l \in loops /\ l.peer \in connected
    /\ local' = local \cup {HashOf[l.key]}
    /\ Finish(Served(l), "data")
    /\ entry' = [entry EXCEPT ![l.key] = None]
    /\ IF l.kind = "connected" THEN loops' = loops \ {l} /\ UNCHANGED tried
                               ELSE GoOn(l, NextAwaits(l, entry'))
    /\ UNCHANGED <<running, connected, leader, left, asked, members>>

LoopHit(l) ==
    /\ l \in loops /\ l.peer \in connected
    /\ local' = local \cup {HashOf[l.key]}
    /\ Finish({c \in Served(l) : call[c] = "waiting"}, "data")
    /\ entry' = [entry EXCEPT ![l.key] = None]
    /\ IF l.kind = "connected" THEN loops' = loops \ {l} /\ UNCHANGED tried
                               ELSE GoOn(l, NextAwaits(l, entry'))
    /\ UNCHANGED <<running, connected, leader, left, asked, members>>

-----------------------------------------------------------------------------
(****************************** The surroundings ***************************)

(* A channel opens: onConnected runs tryPendingReqs. *)
Arrive(p) ==
    /\ running /\ p \notin connected
    /\ connected' = connected \cup {p}
    /\ LET ks == {k \in Keys : entry[k] # None /\ Untried(entry[k], p) # {}}
       IN  IF ks = {} THEN UNCHANGED <<tried, loops>>
           ELSE \E k \in ks :
                   /\ tried' = Marked(entry[k], p)
                   /\ loops' = loops \cup {[kind |-> "arrived", key |-> k, array |-> entry[k],
                                            peer |-> p, rest |-> {}]}
    /\ UNCHANGED <<running, local, call, leader, gets, left, asked, entry, members>>

Depart(p) ==
    /\ p \in connected
    /\ connected' = connected \ {p}
    /\ UNCHANGED <<running, local, call, leader, gets, fetch, entry, members, loops>>

(* stop() closes the peers and leaves the waiting requests to their timers. *)
Stop ==
    /\ running
    /\ running' = FALSE /\ connected' = {}
    /\ UNCHANGED <<local, call, leader, gets, fetch, entry, members, loops>>

Start ==
    /\ ~running
    /\ running' = TRUE
    /\ UNCHANGED <<connected, local, call, leader, gets, fetch, entry, members, loops>>

(* put() stores the block; it does not look at pendingReqs. *)
Put(h) ==
    /\ h \notin local
    /\ local' = local \cup {h}
    /\ UNCHANGED <<running, connected, call, leader, gets, fetch, entry, members, loops>>

Delete(h) ==
    /\ h \in local
    /\ local' = local \ {h}
    /\ UNCHANGED <<running, connected, call, leader, gets, fetch, entry, members, loops>>

CallNext(c) ==
    \/ Get(c) \/ LocalHit(c) \/ LocalMiss(c) \/ Join(c) \/ StartFetch(c)
    \/ NextWave(c) \/ QueryEnds(c) \/ \E p \in Peers : QueryHit(c, p) \/ QueryMiss(c, p)
    \/ FallbackHit(c) \/ FallbackMiss(c) \/ Wait(c) \/ WaitTimeout(c)

Next ==
    \/ \E c \in Calls : CallNext(c)
    \/ \E l \in loops : LoopMiss(l) \/ LoopHit(l)
    \/ \E p \in Peers : Arrive(p) \/ Depart(p)
    \/ Stop \/ Start
    \/ \E h \in Hashes : Put(h) \/ Delete(h)

Spec == Init /\ [][Next]_vars

(* The local store and the fallback stores answer, and timers run out.  No
   peer has to answer. *)
Progress(c) ==
    \/ LocalHit(c) \/ LocalMiss(c) \/ Join(c) \/ StartFetch(c) \/ QueryEnds(c)
    \/ FallbackHit(c) \/ FallbackMiss(c) \/ Wait(c) \/ WaitTimeout(c)

FairSpec == Spec /\ \A c \in Calls : WF_vars(Progress(c))

-----------------------------------------------------------------------------
(* pendingGets keeps equal reads together: however local reads, fetches and
   timeouts interleave, a hash is fetched by one call at a time. *)
OneFetchPerHash ==
    \A c, d \in Calls : (c # d /\ call[c] \in Fetching /\ call[d] \in Fetching) => Hash(c) # Hash(d)

(* A call that joined waits for a fetch that is still going on, so it is
   answered with it; a fetch never leaves pendingGets before it ends. *)
JoinersHaveLeader ==
    \A c \in Calls : call[c] = "joined" => /\ call[leader[c]] \in Fetching
                                           /\ gets[Hash(c)] = leader[c]

(* A waiting fetch never has two requests with one peer: the loop that began
   when it was listed and the one of a peer that connects do not ask twice. *)
AskedOnce ==
    \A l, m \in loops : (l.array = m.array /\ l.peer = m.peer) => l = m

(* Every get() is answered, even if no peer ever answers and the store is
   stopped meanwhile: the timers see to it. *)
GetsSettle == \A c \in Calls : call[c] = "local" ~> call[c] \in {"data", "null"}

(* get() keeps the promise of Requests. *)
Asking == INSTANCE Requests WITH
    answer <- [c \in Calls |-> IF call[c] \in {"idle", "data", "null"} THEN call[c] ELSE "asked"]

KeepsPromise == Asking!Spec

(* What store.ts:1537 says of a block that arrives: "Resolve all waiting
   requests"; until then a request that waits is listed, so that the next
   peer that connects is asked for it. *)
WaitingIsListed ==
    \A c \in Calls : call[c] = "waiting" =>
        entry[KeyOf[c]] # None /\ c \in members[entry[KeyOf[c]]]

=============================================================================
