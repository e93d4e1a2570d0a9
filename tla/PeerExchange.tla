---------------------------- MODULE PeerExchange ----------------------------
(***************************************************************************)
(* Block exchange over one WebRTC data channel (class Peer in              *)
(* packages/hashtree-nostr/src/webrtc/peer.ts): one end requests blocks by *)
(* hash, the other answers from its store, forwards the request to its own *)
(* peers, or remembers it and pushes the block when it gets it.            *)
(*                                                                         *)
(* The channel is reliable and unordered (ordered: false) until it closes. *)
(* A call of request() is a constant, and so is a request object: it is    *)
(* named after the call that made it.  Time is left out: an armed timer    *)
(* may run out at any moment.                                              *)
(***************************************************************************)
EXTENDS Naturals, FiniteSets, SequencesExt

CONSTANTS
    Hashes,                 \* hashes of blocks
    Calls,                  \* calls of request()
    FragmentsOf,            \* [Hashes -> Nat]: messages a response takes (1: unfragmented)
    TheirRequestsSize,      \* THEIR_REQUESTS_SIZE
    MaxPendingReassemblies, \* MAX_PENDING_REASSEMBLIES
    MaxStored,              \* bound: blocks the responder's store gains by itself
    None                    \* an absent hash, call or block

ASSUME ExchangeAssumption ==
    /\ FragmentsOf \in [Hashes -> Nat \ {0}]
    /\ TheirRequestsSize \in Nat \ {0}
    /\ MaxPendingReassemblies \in Nat
    /\ MaxStored \in Nat
    /\ None \notin Hashes \cup Calls

VARIABLES
    open,       \* is the data channel open?
    (* the requester *)
    call,       \* what became of a call
    ours,       \* ourRequests: the request object of a hash
    timers,     \* armed timers of request objects
    reassembly, \* pendingReassemblies: the fragments received
    verifying,  \* complete responses whose hash is being computed
    (* the channel *)
    requests,   \* requests on their way
    responses,  \* [Response -> Nat]: response messages on their way
    (* the responder *)
    blocks,     \* its store: "good", "damaged" or None
    tasks,      \* handleRequest calls that are waiting
    theirs,     \* theirRequests, least recently used first
    pushes,     \* blocks put in the store and not yet offered to the requester
    stored      \* number of blocks the store gained by itself

requester == <<call, ours, timers, reassembly, verifying>>
responder == <<blocks, tasks, theirs, pushes, stored>>
vars == <<open, requester, requests, responses, responder>>

-----------------------------------------------------------------------------
Blocks == {"good", "damaged"}

(* `of' is the request object that a call waits for: its own or one it joined. *)
CallRecord == [state: {"idle", "waiting", "data", "null"},
               hash: Hashes \cup {None}, of: Calls \cup {None}]

Timers == [request: Calls, kind: {"request", "stall"}]

Response == UNION {[hash: {h}, i: 0..(FragmentsOf[h] - 1), block: Blocks] : h \in Hashes}

Request == [request: Calls, hash: Hashes, forward: BOOLEAN]

Task == [request: Calls, hash: Hashes, forward: BOOLEAN,
         stage: {"lookup", "forwarding"}, found: Blocks \cup {None}]

TypeOK ==
    /\ open \in BOOLEAN
    /\ call \in [Calls -> CallRecord]
    /\ ours \in [Hashes -> Calls \cup {None}]
    /\ timers \subseteq Timers
    /\ reassembly \in [Hashes -> SUBSET Response]
    /\ verifying \subseteq [request: Calls, block: Blocks]
    /\ requests \subseteq Request
    /\ responses \in [Response -> Nat]
    /\ blocks \in [Hashes -> Blocks \cup {None}]
    /\ tasks \subseteq Task
    /\ theirs \in Seq(Hashes)
    /\ pushes \subseteq Hashes
    /\ stored \in Nat

Init ==
    /\ open = TRUE
    /\ call = [c \in Calls |-> [state |-> "idle", hash |-> None, of |-> None]]
    /\ ours = [h \in Hashes |-> None]
    /\ timers = {} /\ verifying = {}
    /\ reassembly = [h \in Hashes |-> {}]
    /\ requests = {} /\ responses = [m \in Response |-> 0]
    /\ blocks \in [Hashes -> Blocks \cup {None}]
    /\ tasks = {} /\ theirs = <<>> /\ pushes = {} /\ stored = 0

-----------------------------------------------------------------------------
(* The requester: request(). *)

TimersOf(o) == {t \in timers : t.request = o}

(* The promises that resolving a request object settles: its own and those chained to it. *)
Chain(o) == {c \in Calls : call[c].of = o}

Settle(cs, result) ==
    call' = [c \in Calls |-> IF c \in cs THEN [call[c] EXCEPT !.state = result] ELSE call[c]]

(* Mutant: the promise is chained to the key. *)
WaitForKey(c, h, o) == call' = [call EXCEPT ![c] = [state |-> "waiting", hash |-> h, of |-> h]]

Wait(c, h, o) == call' = [call EXCEPT ![c] = [state |-> "waiting", hash |-> h, of |-> o]]

RequestWhenClosed(c, h) ==
    /\ call[c].state = "idle" /\ ~open
    /\ call' = [call EXCEPT ![c] = [state |-> "null", hash |-> h, of |-> None]]
    /\ UNCHANGED <<open, ours, timers, reassembly, verifying, requests, responses, responder>>

(* A second caller chains its promise to the pending request. *)
JoinRequest(c, h) ==
    /\ call[c].state = "idle" /\ open
    /\ ours[h] # None
    /\ Wait(c, h, ours[h])
    /\ UNCHANGED <<open, ours, timers, reassembly, verifying, requests, responses, responder>>

(* `forward': is the hop limit that is sent, decremented at random, above zero? *)
SendRequest(c, h, forward) ==
    /\ call[c].state = "idle" /\ open
    /\ ours[h] = None
    /\ Wait(c, h, c)
    /\ ours' = [ours EXCEPT ![h] = c]
    /\ timers' = timers \cup {[request |-> c, kind |-> "request"]}
    /\ requests' = requests \cup {[request |-> c, hash |-> h, forward |-> forward]}
    /\ UNCHANGED <<open, reassembly, verifying, responses, responder>>

(* Mutant: the request stays pending when its first timer runs out. *)
RequestTimeoutPending(o) ==
    LET t == [request |-> o, kind |-> "request"]
    IN  /\ t \in timers
        /\ timers' = timers \ {t}
        /\ Settle({o}, "null")
        /\ UNCHANGED <<open, ours, reassembly, verifying, requests, responses, responder>>

(* The first timer forgets the request and resolves the promise of its own call only. *)
RequestTimeout(o) ==
    LET t == [request |-> o, kind |-> "request"]
    IN  /\ t \in timers
        /\ timers' = timers \ {t}
        /\ ours' = [ours EXCEPT ![call[o].hash] = None]
        /\ Settle({o}, "null")
        /\ UNCHANGED <<open, reassembly, verifying, requests, responses, responder>>

(* The timer armed by a fragment resolves the whole chain and drops the fragments. *)
StallTimeout(o) ==
    LET t == [request |-> o, kind |-> "stall"]
    IN  /\ t \in timers
        /\ timers' = timers \ {t}
        /\ ours' = [ours EXCEPT ![call[o].hash] = None]
        /\ reassembly' = [reassembly EXCEPT ![call[o].hash] = {}]
        /\ Settle(Chain(o), "null")
        /\ UNCHANGED <<open, verifying, requests, responses, responder>>

-----------------------------------------------------------------------------
(* The requester: responses. *)

(* Mutant: a pending request is dropped unanswered when the block is damaged. *)
CompleteGood(h, block) ==
    LET o == ours[h]
    IN  IF o = None THEN UNCHANGED <<ours, timers, verifying>>
        ELSE /\ timers' = timers \ TimersOf(o)
             /\ ours' = [ours EXCEPT ![h] = None]
             /\ verifying' = verifying \cup
                  (IF block = "good" THEN {[request |-> o, block |-> block]} ELSE {})

(* A complete response takes the pending request away before its hash is computed. *)
Complete(h, block) ==
    LET o == ours[h]
    IN  IF o = None THEN UNCHANGED <<ours, timers, verifying>>
        ELSE /\ timers' = timers \ TimersOf(o)
             /\ ours' = [ours EXCEPT ![h] = None]
             /\ verifying' = verifying \cup {[request |-> o, block |-> block]}

Assembled(fragments) ==
    IF \A m \in fragments : m.block = "good" THEN "good" ELSE "damaged"

(* Mutants: the old timer is not cleared; no new timer is set. *)
RestartTimerUncleared(h) ==
    timers' = timers \cup (IF ours[h] = None THEN {} ELSE {[request |-> ours[h], kind |-> "stall"]})

RestartTimerUnset(h) ==
    timers' = IF ours[h] = None THEN timers ELSE timers \ TimersOf(ours[h])

(* A fragment restarts the timer of the pending request, duplicate or not. *)
RestartTimer(h) ==
    LET o == ours[h]
    IN  timers' = IF o = None THEN timers
                  ELSE (timers \ TimersOf(o)) \cup {[request |-> o, kind |-> "stall"]}

ReceiveResponse(m) ==
    LET h == m.hash
        fragments == reassembly[h] \cup
                     (IF \E f \in reassembly[h] : f.i = m.i THEN {} ELSE {m})
    IN  /\ open /\ responses[m] > 0
        /\ responses' = [responses EXCEPT ![m] = @ - 1]
        /\ \/ /\ FragmentsOf[h] = 1
              /\ Complete(h, m.block)
              /\ UNCHANGED reassembly
           \/ /\ FragmentsOf[h] > 1
              /\ Cardinality(fragments) = FragmentsOf[h]
              /\ reassembly' = [reassembly EXCEPT ![h] = {}]
              /\ Complete(h, Assembled(fragments))
           \/ /\ FragmentsOf[h] > 1
              /\ Cardinality(fragments) # FragmentsOf[h]
              /\ reassembly' = [reassembly EXCEPT ![h] = fragments]
              /\ RestartTimer(h)
              /\ UNCHANGED <<ours, verifying>>
        /\ UNCHANGED <<open, call, requests, responder>>

(* Mutant: only the promise of the call that made the request is resolved. *)
VerifiedForOwner(v) ==
    /\ v \in verifying
    /\ verifying' = verifying \ {v}
    /\ Settle({v.request}, IF v.block = "good" THEN "data" ELSE "null")
    /\ UNCHANGED <<open, ours, timers, reassembly, requests, responses, responder>>

Verified(v) ==
    /\ v \in verifying
    /\ verifying' = verifying \ {v}
    /\ Settle(Chain(v.request), IF v.block = "good" THEN "data" ELSE "null")
    /\ UNCHANGED <<open, ours, timers, reassembly, requests, responses, responder>>

(* The interval drops stale reassemblies, and one more when too many are left. *)
CleanupStaleReassemblies ==
    \E stale \in SUBSET Hashes :
        LET left == {h \in Hashes : reassembly[h] # {}} \ stale
        IN  \E evicted \in (IF Cardinality(left) > MaxPendingReassemblies THEN left ELSE {None}) :
              /\ open
              /\ reassembly' = [h \in Hashes |->
                                  IF h \in stale \cup {evicted} THEN {} ELSE reassembly[h]]
              /\ UNCHANGED <<open, call, ours, timers, verifying, requests, responses, responder>>

(* close(), called by either end or by a failure of the connection. *)
Close ==
    /\ open /\ open' = FALSE
    /\ Settle({c \in Calls : \E h \in Hashes : ours[h] # None /\ call[c].of = ours[h]}, "null")
    /\ timers' = {t \in timers : \A h \in Hashes : ours[h] # t.request}
    /\ ours' = [h \in Hashes |-> None]
    /\ reassembly' = [h \in Hashes |-> {}]
    /\ requests' = {} /\ responses' = [m \in Response |-> 0]
    /\ UNCHANGED <<verifying, responder>>

-----------------------------------------------------------------------------
(* The responder. *)

(* LRUCache: delete. *)
LRUDelete(keys, h) ==
    IF h \in Range(keys) THEN RemoveAt(keys, CHOOSE i \in DOMAIN keys : keys[i] = h) ELSE keys

(* Mutant of LRUSet: evicts one too late. *)
LRUSetLate(keys, h) ==
    LET others == LRUDelete(keys, h)
    IN  Append(IF Len(others) > TheirRequestsSize THEN Tail(others) ELSE others, h)

(* LRUCache: set moves a key to the end and may evict the first. *)
LRUSet(keys, h) ==
    LET others == LRUDelete(keys, h)
    IN  Append(IF Len(others) >= TheirRequestsSize THEN Tail(others) ELSE others, h)

(* sendResponse: all fragments at once, nothing when the channel is closed. *)
SendResponse(h, block) ==
    responses' = [m \in Response |-> responses[m] +
                    (IF open /\ m.hash = h /\ m.block = block THEN 1 ELSE 0)]

(* handleRequest up to its first await, the read of the local store. *)
ReceiveRequest(r) ==
    /\ open /\ r \in requests
    /\ requests' = requests \ {r}
    /\ tasks' = tasks \cup {[request |-> r.request, hash |-> r.hash, forward |-> r.forward,
                             stage |-> "lookup", found |-> blocks[r.hash]]}
    /\ UNCHANGED <<open, requester, responses, blocks, theirs, pushes, stored>>

LookupHit(t) ==
    /\ t \in tasks /\ t.stage = "lookup" /\ t.found # None
    /\ tasks' = tasks \ {t}
    /\ SendResponse(t.hash, t.found)
    /\ UNCHANGED <<open, requester, requests, blocks, theirs, pushes, stored>>

(* The request is remembered before it is forwarded, and not at all at the last hop. *)
LookupMiss(t) ==
    /\ t \in tasks /\ t.stage = "lookup" /\ t.found = None
    /\ \/ /\ t.forward
          /\ theirs' = LRUSet(theirs, t.hash)
          /\ tasks' = (tasks \ {t}) \cup {[t EXCEPT !.stage = "forwarding"]}
       \/ /\ ~t.forward
          /\ tasks' = tasks \ {t}
          /\ UNCHANGED theirs
    /\ UNCHANGED <<open, requester, requests, responses, blocks, pushes, stored>>

(* onForwardRequest puts what another peer had in the local store. *)
ForwardFound(t) ==
    /\ t \in tasks /\ t.stage = "forwarding"
    /\ tasks' = tasks \ {t}
    /\ blocks' = [blocks EXCEPT ![t.hash] = "good"]
    /\ theirs' = LRUDelete(theirs, t.hash)
    /\ SendResponse(t.hash, "good")
    /\ UNCHANGED <<open, requester, requests, pushes, stored>>

(* Mutant: the request is forgotten although it was not answered. *)
ForwardFailsForgetting(t) ==
    /\ t \in tasks /\ t.stage = "forwarding"
    /\ tasks' = tasks \ {t}
    /\ theirs' = LRUDelete(theirs, t.hash)
    /\ UNCHANGED <<open, requester, requests, responses, blocks, pushes, stored>>

ForwardFails(t) ==
    /\ t \in tasks /\ t.stage = "forwarding"
    /\ tasks' = tasks \ {t}
    /\ UNCHANGED <<open, requester, requests, responses, blocks, theirs, pushes, stored>>

(* WebRTCStore.put stores a block, and then offers it to peers that have asked for it. *)
Put(h) ==
    /\ stored < MaxStored /\ stored' = stored + 1
    /\ blocks' = [blocks EXCEPT ![h] = "good"]
    /\ pushes' = pushes \cup {h}
    /\ UNCHANGED <<open, requester, requests, responses, tasks, theirs>>

(* sendToInterestedPeers and sendData. *)
SendData(h) ==
    /\ h \in pushes
    /\ pushes' = pushes \ {h}
    /\ \/ /\ open /\ h \in Range(theirs)
          /\ theirs' = LRUDelete(theirs, h)
          /\ SendResponse(h, "good")
       \/ /\ ~(open /\ h \in Range(theirs))
          /\ UNCHANGED <<theirs, responses>>
    /\ UNCHANGED <<open, requester, requests, blocks, tasks, stored>>

Requester ==
    \/ \E c \in Calls, h \in Hashes :
         \/ RequestWhenClosed(c, h)
         \/ JoinRequest(c, h)
         \/ \E forward \in BOOLEAN : SendRequest(c, h, forward)
    \/ \E o \in Calls : RequestTimeout(o) \/ StallTimeout(o)
    \/ \E m \in Response : ReceiveResponse(m)
    \/ \E v \in verifying : Verified(v)
    \/ CleanupStaleReassemblies
    \/ Close

Responder ==
    \/ \E r \in requests : ReceiveRequest(r)
    \/ \E t \in tasks : LookupHit(t) \/ LookupMiss(t) \/ ForwardFound(t) \/ ForwardFails(t)
    \/ \E h \in Hashes : Put(h) \/ SendData(h)

Next == Requester \/ Responder

Spec == Init /\ [][Next]_vars

(* Timers of the page run out and digests are computed, nothing else is sure to happen. *)
Fairness ==
    /\ \A o \in Calls : WF_vars(RequestTimeout(o)) /\ WF_vars(StallTimeout(o))
    /\ \A o \in Calls, b \in Blocks : WF_vars(Verified([request |-> o, block |-> b]))

FairSpec == Spec /\ Fairness

-----------------------------------------------------------------------------
(* Properties. *)

(***************************************************************************)
(* Every pending request has exactly one armed timer and no other timer is *)
(* armed: none is left behind that would end a later request of the hash.  *)
(***************************************************************************)
TimerPerRequest ==
    /\ \A h \in Hashes : ours[h] # None => \E t \in timers : TimersOf(ours[h]) = {t}
    /\ \A t \in timers : \E h \in Hashes : ours[h] = t.request

(* A call that made a request waits only while that request is pending or verified. *)
OwnCallKnown ==
    \A c \in Calls : call[c].state = "waiting" /\ call[c].of = c =>
        \/ ours[call[c].hash] = c
        \/ \E v \in verifying : v.request = c

(* A call that joined a request gets the data when that request does. *)
JoinedCallGetsData ==
    \A c \in Calls : call[c].of # None /\ call[call[c].of].state = "data" =>
        call[c].state = "data"

(* The responder remembers a bounded number of requests, each hash once. *)
TheirRequestsBounded ==
    /\ Len(theirs) <= TheirRequestsSize
    /\ \A i, j \in 1..Len(theirs) : theirs[i] = theirs[j] => i = j

(***************************************************************************)
(* A remembered request is forgotten only by answering it, after the       *)
(* channel has closed, or when it is the least recently used of a full     *)
(* cache that takes another.                                               *)
(***************************************************************************)
RememberedUntilAnswered ==
    [][\A h \in Range(theirs) \ Range(theirs') :
         \/ \A i \in 0..(FragmentsOf[h] - 1) : \E b \in Blocks :
              LET m == [hash |-> h, i |-> i, block |-> b] IN responses'[m] > responses[m]
         \/ ~open
         \/ Len(theirs) = TheirRequestsSize /\ Len(theirs') = TheirRequestsSize
            /\ h = theirs[1]]_vars

(* A call that made a request is answered in the end. *)
OwnCallSettles ==
    \A c \in Calls : (call[c].state = "waiting" /\ call[c].of = c) ~> call[c].state # "waiting"

(* request() keeps the promise of Requests: a call is answered at most once,
   whichever of its timers, responses and the close of the channel come. *)
Asking == INSTANCE Requests WITH
    answer <- [c \in Calls |-> IF call[c].state = "waiting" THEN "asked" ELSE call[c].state]

KeepsPromise == Asking!Spec

(***************************************************************************)
(* The inductive invariant behind the requester's properties: a pending    *)
(* request and a request being verified belong to a call that waits for    *)
(* itself, and a joined call waits for such a call and the same hash.      *)
(***************************************************************************)
Owns(c) == call[c].state = "waiting" /\ call[c].of = c

PendingOK ==
    \A h \in Hashes : ours[h] # None => Owns(ours[h]) /\ call[ours[h]].hash = h

VerifyingOK ==
    \A v \in verifying :
        /\ Owns(v.request)
        /\ \A h \in Hashes : ours[h] # v.request
        /\ \A w \in verifying : w.request = v.request => w = v

ChainOK ==
    \A c \in Calls :
        /\ call[c].state = "idle" => call[c].of = None
        /\ call[c].state = "waiting" => call[c].hash # None
        /\ call[c].of # None => call[call[c].of].of = call[c].of

ExchangeInv ==
    /\ TypeOK /\ TheirRequestsBounded
    /\ PendingOK /\ VerifyingOK /\ ChainOK
    /\ TimerPerRequest /\ OwnCallKnown /\ JoinedCallGetsData

(***************************************************************************)
(* "Return a new promise that resolves when the existing one does".        *)
(***************************************************************************)
JoinedCallSettles ==
    \A c \in Calls : call[c].of # None /\ call[call[c].of].state # "waiting" =>
        call[c].state # "waiting"
=============================================================================
