------------------------- MODULE PeerExchangeProofs -------------------------
(***************************************************************************)
(* Proofs about PeerExchange, for every set of hashes and of calls, every  *)
(* number of fragments and every size of the responder's cache.            *)
(***************************************************************************)
EXTENDS PeerExchange, TLAPS

-----------------------------------------------------------------------------
(* The LRU cache. *)

Distinct(keys) == \A i, j \in 1..Len(keys) : keys[i] = keys[j] => i = j

(* The range of a sequence is what it holds at its places. *)
LEMMA InRange ==
    ASSUME NEW keys \in Seq(Hashes)
    PROVE  /\ \A j \in 1..Len(keys) : keys[j] \in Range(keys)
           /\ \A k \in Range(keys) : \E j \in 1..Len(keys) : keys[j] = k
<1>1. DOMAIN keys = 1..Len(keys)
  OBVIOUS
<1> QED  BY <1>1, Zenon DEF Range

(* Concatenation keeps the type and adds the lengths. *)
LEMMA ConcatTyped ==
    ASSUME NEW a \in Seq(Hashes), NEW b \in Seq(Hashes)
    PROVE  a \o b \in Seq(Hashes) /\ Len(a \o b) = Len(a) + Len(b)
  OBVIOUS

(* What is left of a sequence without one of its places. *)
LEMMA RemoveAtFacts ==
    ASSUME NEW keys \in Seq(Hashes), NEW i \in 1..Len(keys)
    PROVE  LET d == RemoveAt(keys, i)
           IN  /\ d \in Seq(Hashes)
               /\ Len(d) = Len(keys) - 1
               /\ \A j \in 1..Len(d) : d[j] = IF j < i THEN keys[j] ELSE keys[j + 1]
<1> DEFINE a == SubSeq(keys, 1, i - 1)
           b == SubSeq(keys, i + 1, Len(keys))
<1>1. /\ a \in Seq(Hashes) /\ Len(a) = i - 1
      /\ \A j \in 1..(i - 1) : a[j] = keys[j]
  OBVIOUS
<1>2. /\ b \in Seq(Hashes) /\ Len(b) = Len(keys) - i
      /\ \A j \in 1..(Len(keys) - i) : b[j] = keys[i + j]
  OBVIOUS
<1>3. RemoveAt(keys, i) = a \o b
  BY DEF RemoveAt
<1> HIDE DEF a, b
<1>4. a \o b \in Seq(Hashes) /\ Len(a \o b) = Len(keys) - 1
  <2>1. a \o b \in Seq(Hashes) /\ Len(a \o b) = Len(a) + Len(b)
    BY <1>1, <1>2, ConcatTyped, Zenon
  <2> QED  BY <1>1, <1>2, <2>1
<1>5. ASSUME NEW j \in 1..(Len(keys) - 1)
      PROVE  (a \o b)[j] = IF j < i THEN keys[j] ELSE keys[j + 1]
  <2>1. CASE j < i
    BY <1>1, <1>2, <2>1
  <2>2. CASE ~(j < i)
    <3>1. (a \o b)[j] = b[j - (i - 1)]
      BY <1>1, <1>2, <2>2
    <3>2. b[j - (i - 1)] = keys[j + 1]
      BY <1>2, <2>2
    <3> QED  BY <2>2, <3>1, <3>2
  <2> QED  BY <2>1, <2>2
<1> QED  BY <1>3, <1>4, <1>5

(* delete takes away its key, and only that, from a cache that holds it once. *)
LEMMA LRUDeleteFacts ==
    ASSUME NEW keys \in Seq(Hashes), Distinct(keys), NEW h \in Hashes
    PROVE  LET d == LRUDelete(keys, h)
           IN  /\ d \in Seq(Hashes) /\ Distinct(d)
               /\ Len(d) <= Len(keys)
               /\ Range(d) = Range(keys) \ {h}
<1> DEFINE i == CHOOSE i \in DOMAIN keys : keys[i] = h
           d == RemoveAt(keys, i)
<1>1. CASE h \notin Range(keys)
  BY <1>1 DEF LRUDelete
<1>2. CASE h \in Range(keys)
  <2>1. i \in 1..Len(keys) /\ keys[i] = h
    BY <1>2 DEF Range
  <2>2. LRUDelete(keys, h) = d
    BY <1>2 DEF LRUDelete
  <2> HIDE DEF i
  <2>3. /\ d \in Seq(Hashes)
        /\ Len(d) = Len(keys) - 1
        /\ \A j \in 1..Len(d) : d[j] = IF j < i THEN keys[j] ELSE keys[j + 1]
    BY <2>1, RemoveAtFacts
  <2> HIDE DEF d
  <2>4. Distinct(d)
    BY <2>1, <2>3 DEF Distinct
  <2>5. ASSUME NEW j \in 1..Len(d)  PROVE d[j] \in Range(keys) \ {h}
    BY <2>1, <2>3 DEF Range, Distinct
  <2>6. ASSUME NEW j \in 1..Len(keys), keys[j] # h  PROVE keys[j] \in Range(d)
    <3>1. CASE j < i
      <4>1. j \in 1..Len(d) /\ d[j] = keys[j]
        BY <2>1, <2>3, <3>1
      <4> QED  BY <2>3, <4>1 DEF Range
    <3>2. CASE ~(j < i)
      <4>1. j - 1 \in 1..Len(d) /\ d[j - 1] = keys[j]
        BY <2>1, <2>3, <2>6, <3>2
      <4> QED  BY <2>3, <4>1 DEF Range
    <3> QED  BY <3>1, <3>2
  <2>7. Range(d) = Range(keys) \ {h}
    <3>1. \A k \in Range(d) : k \in Range(keys) \ {h}
      <4>1. d \in Seq(Hashes)
        BY <2>3
      <4>2. \A j \in 1..Len(d) : d[j] \in Range(keys) \ {h}
        BY <2>5
      <4>3. TAKE k \in Range(d)
      <4>4. PICK j \in 1..Len(d) : d[j] = k
        BY <4>1, InRange, Zenon
      <4> QED  BY <4>2, <4>4
    <3>2. \A k \in Range(keys) \ {h} : k \in Range(d)
      BY <2>6, InRange, Zenon
    <3> QED  BY <3>1, <3>2
  <2> QED  BY <2>2, <2>3, <2>4, <2>7
<1> QED  BY <1>1, <1>2

(* set keeps the cache within its size and evicts only the first key of a full cache. *)
LEMMA LRUSetFacts ==
    ASSUME NEW keys \in Seq(Hashes), Distinct(keys), Len(keys) <= TheirRequestsSize,
           NEW h \in Hashes
    PROVE  LET s == LRUSet(keys, h)
           IN  /\ s \in Seq(Hashes) /\ Distinct(s)
               /\ Len(s) <= TheirRequestsSize
               /\ \A k \in Range(keys) \ Range(s) :
                    /\ Len(keys) = TheirRequestsSize /\ Len(s) = TheirRequestsSize
                    /\ k = keys[1]
<1> DEFINE d == LRUDelete(keys, h)
           t == IF Len(d) >= TheirRequestsSize THEN Tail(d) ELSE d
           s == Append(t, h)
<1>0. TheirRequestsSize \in Nat \ {0}
  BY ExchangeAssumption
<1>1. /\ d \in Seq(Hashes) /\ Distinct(d)
      /\ Len(d) <= Len(keys)
      /\ Range(d) = Range(keys) \ {h}
  BY LRUDeleteFacts
<1>2. LRUSet(keys, h) = s
  BY DEF LRUSet
<1>3. h \notin Range(keys) => d = keys
  BY DEF LRUDelete
<1>4. h \in Range(keys) => Len(d) < Len(keys)
  <2> SUFFICES ASSUME h \in Range(keys)  PROVE Len(d) < Len(keys)
    OBVIOUS
  <2>1. PICK i \in 1..Len(keys) : d = RemoveAt(keys, i)
    <3> DEFINE i == CHOOSE i \in DOMAIN keys : keys[i] = h
    <3>1. i \in 1..Len(keys)
      BY DEF Range
    <3>2. d = RemoveAt(keys, i)
      BY DEF LRUDelete
    <3> QED  BY <3>1, <3>2
  <2> QED  BY <2>1, RemoveAtFacts
<1> HIDE DEF d
<1>5. CASE Len(d) >= TheirRequestsSize
  <2>1. t = Tail(d) /\ Len(d) = TheirRequestsSize /\ Len(keys) = TheirRequestsSize
    BY <1>0, <1>1, <1>5
  <2>2. h \notin Range(keys) /\ d = keys
    BY <1>1, <1>3, <1>4, <2>1
  <2>3. /\ t \in Seq(Hashes) /\ Len(t) = TheirRequestsSize - 1
        /\ \A j \in 1..Len(t) : t[j] = keys[j + 1]
    BY <1>0, <1>1, <2>1, <2>2
  <2> HIDE DEF t
  <2>4. /\ s \in Seq(Hashes) /\ Len(s) = TheirRequestsSize
        /\ \A j \in 1..Len(t) : s[j] = keys[j + 1]
        /\ s[Len(s)] = h
    BY <1>0, <2>3
  <2> HIDE DEF s
  <2>5. Distinct(s)
    <3>1. \A j \in 1..Len(keys) : keys[j] # h
      BY <2>2, InRange, Zenon
    <3>2. ASSUME NEW i \in 1..Len(s), NEW j \in 1..Len(s), s[i] = s[j], i < j  PROVE FALSE
      <4>1. i \in 1..Len(t) /\ s[i] = keys[i + 1] /\ i + 1 \in 1..Len(keys)
        BY <1>0, <2>1, <2>3, <2>4, <3>2
      <4>2. CASE j = Len(s)
        BY <2>4, <3>1, <3>2, <4>1, <4>2
      <4>3. CASE j # Len(s)
        <5>1. s[j] = keys[j + 1] /\ j + 1 \in 1..Len(keys)
          BY <1>0, <2>1, <2>3, <2>4, <4>3
        <5>2. keys[i + 1] = keys[j + 1]
          BY <3>2, <4>1, <5>1
        <5>3. i + 1 = j + 1
          BY <4>1, <5>1, <5>2 DEF Distinct
        <5> QED  BY <2>4, <3>2, <5>3
      <4> QED  BY <4>2, <4>3
    <3> QED  BY <1>0, <2>4, <3>2 DEF Distinct
  <2>6. ASSUME NEW j \in 2..Len(keys)  PROVE keys[j] \in Range(s)
    <3>1. j - 1 \in 1..Len(s) /\ s[j - 1] = keys[j]
      BY <1>0, <2>1, <2>3, <2>4
    <3> QED  BY <2>4, <3>1 DEF Range
  <2>7. \A k \in Range(keys) \ Range(s) : k = keys[1]
    BY <2>6 DEF Range
  <2> QED  BY <1>0, <1>2, <2>1, <2>4, <2>5, <2>7
<1>6. CASE ~(Len(d) >= TheirRequestsSize)
  <2>1. t = d /\ Len(d) < TheirRequestsSize
    BY <1>0, <1>1, <1>6
  <2>2. /\ s \in Seq(Hashes) /\ Len(s) = Len(d) + 1
        /\ \A j \in 1..Len(d) : s[j] = d[j]
        /\ s[Len(s)] = h
    <3>1. /\ Append(d, h) \in Seq(Hashes) /\ Len(Append(d, h)) = Len(d) + 1
          /\ \A j \in 1..Len(d) : Append(d, h)[j] = d[j]
          /\ Append(d, h)[Len(d) + 1] = h
      BY <1>1
    <3> QED  BY <2>1, <3>1
  <2> HIDE DEF s, t
  <2>3. Distinct(s)
    <3>1. \A j \in 1..Len(d) : d[j] # h
      BY <1>1, InRange, Zenon
    <3> QED  BY <1>1, <2>2, <3>1 DEF Distinct
  <2>4. ASSUME NEW k \in Range(keys)  PROVE k \in Range(s)
    <3>1. CASE k = h
      BY <1>1, <2>2, <3>1 DEF Range
    <3>2. CASE k # h
      <4>1. PICK j \in 1..Len(d) : d[j] = k
        BY <1>1, <3>2, InRange, Zenon
      <4>2. j \in 1..Len(s) /\ s[j] = k
        BY <1>1, <2>2, <4>1
      <4> QED  BY <2>2, <4>2, InRange, Zenon
    <3> QED  BY <3>1, <3>2
  <2> QED  BY <1>0, <1>1, <1>2, <2>1, <2>2, <2>3, <2>4
<1> QED  BY <1>5, <1>6

-----------------------------------------------------------------------------
(* Type correctness. *)

(* What settling calls and sending responses change. *)
LEMMA SettleFacts ==
    ASSUME TypeOK, NEW cs, NEW result \in {"data", "null"}, Settle(cs, result)
    PROVE  /\ call' \in [Calls -> CallRecord]
           /\ \A c \in Calls :
                /\ call'[c].hash = call[c].hash /\ call'[c].of = call[c].of
                /\ call'[c].state = IF c \in cs THEN result ELSE call[c].state
  BY DEF TypeOK, Settle, CallRecord

(* Waiting gives one call a record of its own and leaves the others alone. *)
LEMMA WaitFacts ==
    ASSUME TypeOK, NEW c \in Calls, NEW h \in Hashes, NEW o \in Calls, Wait(c, h, o)
    PROVE  /\ call' \in [Calls -> CallRecord]
           /\ call'[c].state = "waiting" /\ call'[c].hash = h /\ call'[c].of = o
           /\ \A d \in Calls \ {c} : call'[d] = call[d]
  BY DEF TypeOK, Wait, CallRecord

(* Sending fragments only adds to what is on its way. *)
LEMMA SendResponseTyped ==
    ASSUME TypeOK, NEW h, NEW block, SendResponse(h, block)
    PROVE  responses' \in [Response -> Nat]
  BY DEF TypeOK, SendResponse

(* A complete response keeps the types of what it changes. *)
LEMMA CompleteTyped ==
    ASSUME TypeOK, NEW h \in Hashes, NEW block \in Blocks, Complete(h, block)
    PROVE  /\ ours' \in [Hashes -> Calls \cup {None}]
           /\ timers' \subseteq Timers
           /\ verifying' \subseteq [request: Calls, block: Blocks]
  BY DEF TypeOK, Complete

(* A restarted timer is a timer of a call. *)
LEMMA RestartTimerTyped ==
    ASSUME TypeOK, NEW h \in Hashes, RestartTimer(h)
    PROVE  timers' \subseteq Timers
  BY DEF TypeOK, RestartTimer, Timers

(* A pending request is a call, and the hash of a call that waits for itself is a hash. *)
LEMMA RequesterTyped ==
    ASSUME TypeOK, Requester
    PROVE  TypeOK'
<1> USE DEF TypeOK
<1>1. ASSUME NEW c \in Calls, NEW h \in Hashes, RequestWhenClosed(c, h)  PROVE TypeOK'
  BY <1>1, ExchangeAssumption DEF RequestWhenClosed, CallRecord, responder
<1>2. ASSUME NEW c \in Calls, NEW h \in Hashes, JoinRequest(c, h)  PROVE TypeOK'
  <2>1. call' \in [Calls -> CallRecord]
    BY <1>2, WaitFacts DEF JoinRequest
  <2> QED  BY <1>2, <2>1 DEF JoinRequest, responder
<1>3. ASSUME NEW c \in Calls, NEW h \in Hashes, NEW f \in BOOLEAN, SendRequest(c, h, f)
      PROVE  TypeOK'
  <2>1. call' \in [Calls -> CallRecord]
    BY <1>3, WaitFacts DEF SendRequest
  <2>2. [request |-> c, kind |-> "request"] \in Timers
    BY DEF Timers
  <2>3. [request |-> c, hash |-> h, forward |-> f] \in Request
    BY DEF Request
  <2> QED  BY <1>3, <2>1, <2>2, <2>3 DEF SendRequest, responder
<1>4. ASSUME NEW o \in Calls, RequestTimeout(o)  PROVE TypeOK'
  <2>1. call' \in [Calls -> CallRecord]
    BY <1>4, SettleFacts DEF RequestTimeout
  <2>2. ours' \in [Hashes -> Calls \cup {None}] /\ timers' \subseteq Timers
    BY <1>4 DEF RequestTimeout
  <2> QED  BY <1>4, <2>1, <2>2 DEF RequestTimeout, responder
<1>5. ASSUME NEW o \in Calls, StallTimeout(o)  PROVE TypeOK'
  <2>1. call' \in [Calls -> CallRecord]
    BY <1>5, SettleFacts DEF StallTimeout
  <2>2. /\ ours' \in [Hashes -> Calls \cup {None}] /\ timers' \subseteq Timers
        /\ reassembly' \in [Hashes -> SUBSET Response]
    BY <1>5 DEF StallTimeout
  <2> QED  BY <1>5, <2>1, <2>2 DEF StallTimeout, responder
<1>6. ASSUME NEW m \in Response, ReceiveResponse(m)  PROVE TypeOK'
  <2> DEFINE fragments == reassembly[m.hash] \cup
                (IF \E f \in reassembly[m.hash] : f.i = m.i THEN {} ELSE {m})
  <2>1. m.hash \in Hashes /\ m.block \in Blocks
    BY DEF Response
  <2>2. fragments \in SUBSET Response /\ Assembled(fragments) \in Blocks
    BY <2>1 DEF Assembled, Blocks
  <2>3. responses' \in [Response -> Nat]
    <3>1. responses[m] \in Nat /\ responses[m] > 0
      BY <1>6 DEF ReceiveResponse
    <3>2. responses' = [responses EXCEPT ![m] = responses[m] - 1]
      BY <1>6 DEF ReceiveResponse
    <3> QED  BY <3>1, <3>2
  <2>4. /\ ours' \in [Hashes -> Calls \cup {None}]
        /\ timers' \subseteq Timers
        /\ verifying' \subseteq [request: Calls, block: Blocks]
        /\ reassembly' \in [Hashes -> SUBSET Response]
    <3>1. \/ Complete(m.hash, m.block) /\ UNCHANGED reassembly
          \/ /\ Complete(m.hash, Assembled(fragments))
             /\ reassembly' = [reassembly EXCEPT ![m.hash] = {}]
          \/ /\ RestartTimer(m.hash) /\ UNCHANGED <<ours, verifying>>
             /\ reassembly' = [reassembly EXCEPT ![m.hash] = fragments]
      BY <1>6 DEF ReceiveResponse
    <3> HIDE DEF fragments
    <3>2. CASE Complete(m.hash, m.block) /\ UNCHANGED reassembly
      BY <2>1, <3>2, CompleteTyped
    <3>3. CASE /\ Complete(m.hash, Assembled(fragments))
               /\ reassembly' = [reassembly EXCEPT ![m.hash] = {}]
      BY <2>1, <2>2, <3>3, CompleteTyped
    <3>4. CASE /\ RestartTimer(m.hash) /\ UNCHANGED <<ours, verifying>>
               /\ reassembly' = [reassembly EXCEPT ![m.hash] = fragments]
      BY <2>1, <2>2, <3>4, RestartTimerTyped
    <3> QED  BY <3>1, <3>2, <3>3, <3>4
  <2> QED  BY <1>6, <2>3, <2>4 DEF ReceiveResponse, responder
<1>7. ASSUME NEW v \in verifying, Verified(v)  PROVE TypeOK'
  <2>1. call' \in [Calls -> CallRecord]
    BY <1>7, SettleFacts DEF Verified
  <2> QED  BY <1>7, <2>1 DEF Verified, responder
<1>8. ASSUME CleanupStaleReassemblies  PROVE TypeOK'
  BY <1>8 DEF CleanupStaleReassemblies, responder
<1>9. ASSUME Close  PROVE TypeOK'
  <2>1. call' \in [Calls -> CallRecord]
    BY <1>9, SettleFacts DEF Close
  <2> QED  BY <1>9, <2>1 DEF Close, responder
<1> QED  BY <1>1, <1>2, <1>3, <1>4, <1>5, <1>6, <1>7, <1>8, <1>9 DEF Requester

(* The cache is a sequence of distinct keys within its size, so its operations are as above. *)
LEMMA TheirsFacts ==
    ASSUME TypeOK, TheirRequestsBounded, NEW h \in Hashes
    PROVE  /\ LRUDelete(theirs, h) \in Seq(Hashes)
           /\ Distinct(LRUDelete(theirs, h))
           /\ Len(LRUDelete(theirs, h)) <= TheirRequestsSize
           /\ Range(LRUDelete(theirs, h)) = Range(theirs) \ {h}
           /\ LRUSet(theirs, h) \in Seq(Hashes)
           /\ Distinct(LRUSet(theirs, h))
           /\ Len(LRUSet(theirs, h)) <= TheirRequestsSize
           /\ \A k \in Range(theirs) \ Range(LRUSet(theirs, h)) :
                /\ Len(theirs) = TheirRequestsSize
                /\ Len(LRUSet(theirs, h)) = TheirRequestsSize
                /\ k = theirs[1]
<1>1. theirs \in Seq(Hashes) /\ Distinct(theirs) /\ Len(theirs) <= TheirRequestsSize
  BY DEF TypeOK, TheirRequestsBounded, Distinct
<1>2. /\ LRUDelete(theirs, h) \in Seq(Hashes) /\ Distinct(LRUDelete(theirs, h))
      /\ Len(LRUDelete(theirs, h)) <= Len(theirs)
      /\ Range(LRUDelete(theirs, h)) = Range(theirs) \ {h}
  BY <1>1, LRUDeleteFacts
<1>3. TheirRequestsSize \in Nat
  BY ExchangeAssumption
<1>4. Len(LRUDelete(theirs, h)) <= TheirRequestsSize
  BY <1>1, <1>2, <1>3
<1> QED  BY <1>1, <1>2, <1>4, LRUSetFacts

(* What the responder leaves in its cache: it forgets a request when it answers it. *)
LEMMA ResponderTheirs ==
    ASSUME TypeOK, Responder
    PROVE  \/ theirs' = theirs
           \/ \E h \in Hashes : theirs' = LRUSet(theirs, h)
           \/ \E h \in Hashes : theirs' = LRUDelete(theirs, h) /\ SendResponse(h, "good")
<1>1. ASSUME NEW r \in requests, ReceiveRequest(r)  PROVE theirs' = theirs
  BY <1>1 DEF ReceiveRequest
<1>2. ASSUME NEW t \in tasks, \/ LookupHit(t) \/ LookupMiss(t) \/ ForwardFound(t) \/ ForwardFails(t)
      PROVE  \/ theirs' = theirs
             \/ theirs' = LRUSet(theirs, t.hash)
             \/ theirs' = LRUDelete(theirs, t.hash) /\ SendResponse(t.hash, "good")
  BY <1>2 DEF LookupHit, LookupMiss, ForwardFound, ForwardFails
<1>3. ASSUME NEW h \in Hashes, Put(h) \/ SendData(h)
      PROVE  \/ theirs' = theirs
             \/ theirs' = LRUDelete(theirs, h) /\ SendResponse(h, "good")
  BY <1>3 DEF Put, SendData
<1>4. \A t \in tasks : t.hash \in Hashes
  BY DEF TypeOK, Task
<1> QED  BY <1>1, <1>2, <1>3, <1>4 DEF Responder

(* Every step of the responder keeps the types and the bound of its cache. *)
LEMMA ResponderTyped ==
    ASSUME TypeOK, TheirRequestsBounded, Responder
    PROVE  TypeOK' /\ TheirRequestsBounded'
<1>1. theirs' \in Seq(Hashes) /\ TheirRequestsBounded'
  <2>1. CASE theirs' = theirs
    BY <2>1 DEF TypeOK, TheirRequestsBounded
  <2>2. ASSUME NEW h \in Hashes, theirs' = LRUSet(theirs, h)
        PROVE  theirs' \in Seq(Hashes) /\ TheirRequestsBounded'
    BY <2>2, TheirsFacts DEF TheirRequestsBounded, Distinct
  <2>3. ASSUME NEW h \in Hashes, theirs' = LRUDelete(theirs, h)
        PROVE  theirs' \in Seq(Hashes) /\ TheirRequestsBounded'
    BY <2>3, TheirsFacts DEF TheirRequestsBounded, Distinct
  <2> QED  BY <2>1, <2>2, <2>3, ResponderTheirs
<1>2. UNCHANGED requester
  BY DEF Responder, ReceiveRequest, LookupHit, LookupMiss, ForwardFound, ForwardFails, Put,
         SendData
<1>3. /\ open' \in BOOLEAN /\ requests' \subseteq Request
      /\ responses' \in [Response -> Nat]
      /\ blocks' \in [Hashes -> Blocks \cup {None}]
      /\ tasks' \subseteq Task /\ pushes' \subseteq Hashes /\ stored' \in Nat
  <2>1. ASSUME NEW r \in requests, ReceiveRequest(r)  PROVE <1>3!:
    <3>1. [request |-> r.request, hash |-> r.hash, forward |-> r.forward,
           stage |-> "lookup", found |-> blocks[r.hash]] \in Task
      BY DEF TypeOK, Request, Task
    <3> QED  BY <2>1, <3>1 DEF TypeOK, ReceiveRequest
  <2>2. ASSUME NEW t \in tasks, LookupHit(t)  PROVE <1>3!:
    BY <2>2, SendResponseTyped DEF TypeOK, LookupHit
  <2>3. ASSUME NEW t \in tasks, LookupMiss(t)  PROVE <1>3!:
    <3>1. [t EXCEPT !.stage = "forwarding"] \in Task
      BY DEF TypeOK, Task
    <3> QED  BY <2>3, <3>1 DEF TypeOK, LookupMiss
  <2>4. ASSUME NEW t \in tasks, ForwardFound(t)  PROVE <1>3!:
    BY <2>4, SendResponseTyped DEF TypeOK, ForwardFound, Blocks
  <2>5. ASSUME NEW t \in tasks, ForwardFails(t)  PROVE <1>3!:
    BY <2>5 DEF TypeOK, ForwardFails
  <2>6. ASSUME NEW h \in Hashes, Put(h)  PROVE <1>3!:
    BY <2>6 DEF TypeOK, Put, Blocks
  <2>7. ASSUME NEW h \in Hashes, SendData(h)  PROVE <1>3!:
    BY <2>7, SendResponseTyped DEF TypeOK, SendData
  <2> QED  BY <2>1, <2>2, <2>3, <2>4, <2>5, <2>6, <2>7 DEF Responder
<1> QED  BY <1>1, <1>2, <1>3 DEF TypeOK, requester

-----------------------------------------------------------------------------
(* The requester's invariant, one lemma for each of its actions. *)

RequesterInv ==
    /\ PendingOK /\ VerifyingOK /\ ChainOK
    /\ TimerPerRequest /\ OwnCallKnown /\ JoinedCallGetsData

(* A call is not None, so a pending request and a joined call are told from an absent one. *)
LEMMA CallsAreNotNone == \A c \in Calls : c # None
  BY ExchangeAssumption

(* An idle call made no request: none is pending, verified or timed for it, none joined it. *)
LEMMA IdleCall ==
    ASSUME TypeOK, RequesterInv, NEW c \in Calls, call[c].state = "idle"
    PROVE  /\ \A h \in Hashes : ours[h] # c
           /\ \A v \in verifying : v.request # c
           /\ \A d \in Calls : call[d].of # c
           /\ TimersOf(c) = {}
<1>1. /\ \A h \in Hashes : ours[h] # c
      /\ \A v \in verifying : v.request # c
  BY CallsAreNotNone DEF RequesterInv, PendingOK, VerifyingOK, Owns
<1>2. \A d \in Calls : call[d].of # c
  BY CallsAreNotNone DEF RequesterInv, ChainOK
<1>3. TimersOf(c) = {}
  BY <1>1 DEF RequesterInv, TimerPerRequest, TimersOf
<1> QED  BY <1>1, <1>2, <1>3

(* The timer of a request, when it is armed, is its only one, and the request is pending. *)
LEMMA TimedRequest ==
    ASSUME TypeOK, RequesterInv, NEW t \in timers
    PROVE  /\ call[t.request].hash \in Hashes
           /\ ours[call[t.request].hash] = t.request
           /\ TimersOf(t.request) = {t}
           /\ Owns(t.request)
           /\ \A h \in Hashes : ours[h] = t.request => h = call[t.request].hash
<1>1. t.request \in Calls
  BY DEF TypeOK, Timers
<1>2. PICK h \in Hashes : ours[h] = t.request
  BY DEF RequesterInv, TimerPerRequest
<1>3. Owns(t.request) /\ call[t.request].hash = h
  BY <1>1, <1>2, CallsAreNotNone DEF RequesterInv, PendingOK
<1>4. TimersOf(t.request) = {t}
  BY <1>1, <1>2, CallsAreNotNone DEF RequesterInv, TimerPerRequest, TimersOf
<1>5. \A k \in Hashes : ours[k] = t.request => k = call[t.request].hash
  BY <1>1, CallsAreNotNone DEF RequesterInv, PendingOK
<1> QED  BY <1>2, <1>3, <1>4, <1>5

(* A call on a closed channel is answered at once and concerns no other call. *)
LEMMA RequestWhenClosedInv ==
    ASSUME TypeOK, RequesterInv, NEW c \in Calls, NEW h \in Hashes, RequestWhenClosed(c, h)
    PROVE  RequesterInv'
<1>1. /\ call[c].state = "idle"
      /\ UNCHANGED <<ours, timers, verifying>>
  BY DEF RequestWhenClosed
<1>2. /\ call'[c].state = "null" /\ call'[c].of = None
      /\ \A d \in Calls \ {c} : call'[d] = call[d]
  BY DEF RequestWhenClosed, TypeOK
<1>3. /\ \A k \in Hashes : ours[k] # c
      /\ \A v \in verifying : v.request # c
      /\ \A d \in Calls : call[d].of # c
  BY <1>1, IdleCall
<1>4. /\ ours \in [Hashes -> Calls \cup {None}]
      /\ \A v \in verifying : v.request \in Calls
      /\ \A d \in Calls : call[d].of \in Calls \cup {None}
  BY DEF TypeOK, CallRecord
<1>5. PendingOK'
  BY <1>1, <1>2, <1>3, <1>4 DEF RequesterInv, PendingOK, Owns
<1>6. VerifyingOK'
  BY <1>1, <1>2, <1>3, <1>4 DEF RequesterInv, VerifyingOK, Owns
<1>7. ChainOK'
  BY <1>1, <1>2, <1>3, <1>4, CallsAreNotNone DEF RequesterInv, ChainOK
<1>8. TimerPerRequest'
  BY <1>1 DEF RequesterInv, TimerPerRequest, TimersOf
<1>9. OwnCallKnown'
  BY <1>1, <1>2, <1>3 DEF RequesterInv, OwnCallKnown
<1>10. JoinedCallGetsData'
  BY <1>1, <1>2, <1>3, <1>4 DEF RequesterInv, JoinedCallGetsData
<1> QED  BY <1>5, <1>6, <1>7, <1>8, <1>9, <1>10 DEF RequesterInv

(* A call that joins waits for the call that owns the pending request. *)
LEMMA JoinRequestInv ==
    ASSUME TypeOK, RequesterInv, NEW c \in Calls, NEW h \in Hashes, JoinRequest(c, h)
    PROVE  RequesterInv'
<1> DEFINE o == ours[h]
<1>1. /\ call[c].state = "idle"
      /\ UNCHANGED <<ours, timers, verifying>>
      /\ o \in Calls
  BY DEF JoinRequest, TypeOK
<1>2. /\ call'[c].state = "waiting" /\ call'[c].of = o /\ call'[c].hash = h
      /\ \A d \in Calls \ {c} : call'[d] = call[d]
  BY <1>1, WaitFacts DEF JoinRequest
<1>3. /\ \A k \in Hashes : ours[k] # c
      /\ \A v \in verifying : v.request # c
      /\ \A d \in Calls : call[d].of # c
  BY <1>1, IdleCall
<1>4. /\ ours \in [Hashes -> Calls \cup {None}]
      /\ \A v \in verifying : v.request \in Calls
      /\ \A d \in Calls : call[d].of \in Calls \cup {None}
  BY DEF TypeOK, CallRecord
<1>5. o # c /\ call[o].of = o /\ call[o].state = "waiting"
  BY <1>1, <1>3, CallsAreNotNone DEF RequesterInv, PendingOK, Owns
<1> HIDE DEF o
<1>6. PendingOK'
  BY <1>1, <1>2, <1>3, <1>4 DEF RequesterInv, PendingOK, Owns
<1>7. VerifyingOK'
  BY <1>1, <1>2, <1>3, <1>4 DEF RequesterInv, VerifyingOK, Owns
<1>8. ChainOK'
  BY <1>1, <1>2, <1>3, <1>4, <1>5, ExchangeAssumption DEF RequesterInv, ChainOK
<1>9. TimerPerRequest'
  BY <1>1 DEF RequesterInv, TimerPerRequest, TimersOf
<1>10. OwnCallKnown'
  BY <1>1, <1>2, <1>5 DEF RequesterInv, OwnCallKnown
<1>11. JoinedCallGetsData'
  BY <1>1, <1>2, <1>3, <1>4, <1>5 DEF RequesterInv, JoinedCallGetsData
<1> QED  BY <1>6, <1>7, <1>8, <1>9, <1>10, <1>11 DEF RequesterInv

(* A request is pending for an idle call, with the only timer of that call. *)
LEMMA SendRequestInv ==
    ASSUME TypeOK, RequesterInv, NEW c \in Calls, NEW h \in Hashes, NEW f \in BOOLEAN,
           SendRequest(c, h, f)
    PROVE  RequesterInv'
<1> DEFINE t == [request |-> c, kind |-> "request"]
<1>1. /\ call[c].state = "idle" /\ ours[h] = None
      /\ ours' = [ours EXCEPT ![h] = c]
      /\ timers' = timers \cup {t}
      /\ UNCHANGED verifying
      /\ t.request = c
  BY DEF SendRequest
<1>2. /\ call'[c].state = "waiting" /\ call'[c].of = c /\ call'[c].hash = h
      /\ \A d \in Calls \ {c} : call'[d] = call[d]
  BY WaitFacts DEF SendRequest
<1>3. /\ \A k \in Hashes : ours[k] # c
      /\ \A v \in verifying : v.request # c
      /\ \A d \in Calls : call[d].of # c
      /\ TimersOf(c) = {}
  BY <1>1, IdleCall
<1>4. /\ ours \in [Hashes -> Calls \cup {None}]
      /\ \A v \in verifying : v.request \in Calls
      /\ \A d \in Calls : call[d].of \in Calls \cup {None}
  BY DEF TypeOK, CallRecord
<1>5. ours'[h] = c /\ \A k \in Hashes \ {h} : ours'[k] = ours[k]
  BY <1>1, <1>4
<1> HIDE DEF t
<1>6. PendingOK'
  BY <1>2, <1>3, <1>4, <1>5 DEF RequesterInv, PendingOK, Owns
<1>7. VerifyingOK'
  BY <1>1, <1>2, <1>3, <1>4, <1>5 DEF RequesterInv, VerifyingOK, Owns
<1>8. ChainOK'
  BY <1>2, <1>3, <1>4, ExchangeAssumption DEF RequesterInv, ChainOK
<1>9. TimerPerRequest'
  <2>1. TimersOf(c)' = {t}
    BY <1>1, <1>3 DEF TimersOf
  <2>2. \A d \in Calls \ {c} : TimersOf(d)' = TimersOf(d)
    BY <1>1 DEF TimersOf
  <2>3. ASSUME NEW k \in Hashes, ours'[k] # None
        PROVE  \E s \in timers' : TimersOf(ours[k])' = {s}
    <3>1. CASE k = h
      BY <1>1, <1>5, <2>1, <3>1 DEF TimersOf
    <3>2. CASE k # h
      <4>1. ours'[k] = ours[k] /\ ours[k] \in Calls \ {c}
        BY <1>3, <1>4, <1>5, <2>3, <3>2
      <4>2. PICK s \in timers : TimersOf(ours[k]) = {s}
        BY <2>3, <4>1, CallsAreNotNone DEF RequesterInv, TimerPerRequest
      <4> QED  BY <1>1, <2>2, <4>1, <4>2 DEF TimersOf
    <3> QED  BY <3>1, <3>2
  <2>4. \A s \in timers' : \E k \in Hashes : ours'[k] = s.request
    BY <1>1, <1>5, CallsAreNotNone DEF RequesterInv, TimerPerRequest, TypeOK, Timers
  <2> QED  BY <2>3, <2>4 DEF TimerPerRequest
<1>10. OwnCallKnown'
  <2> SUFFICES ASSUME NEW d \in Calls, call'[d].state = "waiting", call'[d].of = d
               PROVE  \/ ours'[call'[d].hash] = d
                      \/ \E v \in verifying : v.request = d
    BY <1>1 DEF OwnCallKnown
  <2>1. CASE d = c
    BY <1>2, <1>5, <2>1
  <2>2. CASE d # c
    <3>1. call'[d] = call[d] /\ call[d].hash \in Hashes
      BY <1>2, <2>2 DEF RequesterInv, ChainOK, TypeOK, CallRecord
    <3>2. ours[call[d].hash] = d => call[d].hash # h
      BY <1>1, CallsAreNotNone
    <3> QED  BY <1>5, <2>2, <3>1, <3>2 DEF RequesterInv, OwnCallKnown
  <2> QED  BY <2>1, <2>2
<1>11. JoinedCallGetsData'
  BY <1>2, <1>3, <1>4 DEF RequesterInv, JoinedCallGetsData
<1> QED  BY <1>6, <1>7, <1>8, <1>9, <1>10, <1>11 DEF RequesterInv

(* A timer ends its own request and settles calls of its chain, the first one always. *)
LEMMA TimeoutInv ==
    ASSUME TypeOK, RequesterInv, NEW t \in timers, NEW cs \in SUBSET Chain(t.request),
           t.request \in cs,
           timers' = timers \ {t},
           ours' = [ours EXCEPT ![call[t.request].hash] = None],
           Settle(cs, "null"),
           UNCHANGED verifying
    PROVE  RequesterInv'
<1> DEFINE o == t.request
           h == call[o].hash
<1>1. /\ h \in Hashes /\ ours[h] = o /\ o \in Calls
      /\ TimersOf(o) = {t} /\ Owns(o)
      /\ \A k \in Hashes : ours[k] = o => k = h
  BY TimedRequest DEF TypeOK, Timers
<1>2. /\ ours \in [Hashes -> Calls \cup {None}]
      /\ \A v \in verifying : v.request \in Calls
      /\ \A d \in Calls : call[d].of \in Calls \cup {None}
  BY DEF TypeOK, CallRecord
<1>3. ours'[h] = None /\ \A k \in Hashes \ {h} : ours'[k] = ours[k] /\ ours[k] # o
  BY <1>1, <1>2
<1>4. \A c \in Calls :
        /\ call'[c].hash = call[c].hash /\ call'[c].of = call[c].of
        /\ call'[c].state = IF c \in cs THEN "null" ELSE call[c].state
  BY SettleFacts
<1>5. o \in cs /\ \A c \in cs : c \in Calls /\ call[c].of = o
  BY DEF Chain
<1>6. \A v \in verifying : v.request # o
  BY <1>1 DEF RequesterInv, VerifyingOK
<1> HIDE DEF h, o
<1>7. PendingOK'
  BY <1>2, <1>3, <1>4, <1>5, CallsAreNotNone DEF RequesterInv, PendingOK, Owns
<1>8. VerifyingOK'
  <2>1. \A v \in verifying : Owns(v.request)'
    BY <1>2, <1>4, <1>5, <1>6 DEF RequesterInv, VerifyingOK, Owns
  <2>2. \A v \in verifying, k \in Hashes : ours'[k] # v.request
    BY <1>2, <1>3, CallsAreNotNone DEF RequesterInv, VerifyingOK
  <2> QED  BY <2>1, <2>2 DEF RequesterInv, VerifyingOK
<1>9. ChainOK'
  <2> SUFFICES ASSUME NEW c \in Calls
               PROVE  /\ call'[c].state = "idle" => call'[c].of = None
                      /\ call'[c].state = "waiting" => call'[c].hash # None
                      /\ call'[c].of # None => call'[call'[c].of].of = call'[c].of
    BY DEF ChainOK
  <2> QED  BY <1>2, <1>4 DEF RequesterInv, ChainOK
<1>10. TimerPerRequest'
  <2>1. \A d \in Calls \ {o} : TimersOf(d)' = TimersOf(d)
    BY DEF TimersOf, o
  <2>2. ASSUME NEW k \in Hashes, ours'[k] # None
        PROVE  \E s \in timers' : TimersOf(ours[k])' = {s}
    <3>1. k # h /\ ours'[k] = ours[k] /\ ours[k] \in Calls \ {o}
      BY <1>2, <1>3, <2>2
    <3>2. PICK s \in timers : TimersOf(ours[k]) = {s}
      BY <2>2, <3>1 DEF RequesterInv, TimerPerRequest
    <3>3. s # t
      BY <3>1, <3>2 DEF TimersOf, o
    <3> QED  BY <2>1, <3>1, <3>2, <3>3
  <2>3. \A s \in timers' : s.request # o
    BY <1>1 DEF TimersOf
  <2>4. \A s \in timers' : \E k \in Hashes : ours'[k] = s.request
    BY <1>1, <1>3, <2>3 DEF RequesterInv, TimerPerRequest
  <2> QED  BY <2>2, <2>4 DEF TimerPerRequest
<1>11. OwnCallKnown'
  <2> SUFFICES ASSUME NEW d \in Calls, call'[d].state = "waiting", call'[d].of = d
               PROVE  \/ ours'[call'[d].hash] = d
                      \/ \E v \in verifying : v.request = d
    BY DEF OwnCallKnown
  <2>1. d \notin cs /\ call[d].state = "waiting" /\ call[d].of = d /\ d # o
    BY <1>4, <1>5
  <2>2. call[d].hash \in Hashes
    BY <2>1 DEF RequesterInv, ChainOK, TypeOK, CallRecord
  <2> QED  BY <1>1, <1>3, <1>4, <2>1, <2>2 DEF RequesterInv, OwnCallKnown
<1>12. JoinedCallGetsData'
  <2> SUFFICES ASSUME NEW c \in Calls, call'[c].of # None, call'[call'[c].of].state = "data"
               PROVE  call'[c].state = "data"
    BY DEF JoinedCallGetsData
  <2> QED  BY <1>2, <1>4, <1>5 DEF RequesterInv, JoinedCallGetsData
<1> QED  BY <1>7, <1>8, <1>9, <1>10, <1>11, <1>12 DEF RequesterInv

(* Both timers are such timers: the first settles its own call, the second the chain. *)
LEMMA TimersInv ==
    ASSUME TypeOK, RequesterInv, NEW o \in Calls, RequestTimeout(o) \/ StallTimeout(o)
    PROVE  RequesterInv'
<1>1. ASSUME NEW kind, [request |-> o, kind |-> kind] \in timers  PROVE o \in Chain(o)
  <2> DEFINE t == [request |-> o, kind |-> kind]
  <2>1. t \in timers /\ t.request = o
    BY <1>1
  <2> HIDE DEF t
  <2>2. Owns(o)
    BY <2>1, TimedRequest
  <2> QED  BY <2>2 DEF Owns, Chain
<1>2. CASE RequestTimeout(o)
  <2> DEFINE t == [request |-> o, kind |-> "request"]
  <2>1. /\ t \in timers /\ t.request = o
        /\ timers' = timers \ {t}
        /\ ours' = [ours EXCEPT ![call[o].hash] = None]
        /\ Settle({o}, "null") /\ UNCHANGED verifying
    BY <1>2 DEF RequestTimeout
  <2>2. {o} \in SUBSET Chain(o)
    BY <1>1, <2>1
  <2> HIDE DEF t
  <2> QED  BY <2>1, <2>2, TimeoutInv
<1>3. CASE StallTimeout(o)
  <2> DEFINE t == [request |-> o, kind |-> "stall"]
  <2>1. /\ t \in timers /\ t.request = o
        /\ timers' = timers \ {t}
        /\ ours' = [ours EXCEPT ![call[o].hash] = None]
        /\ Settle(Chain(o), "null") /\ UNCHANGED verifying
    BY <1>3 DEF StallTimeout
  <2>2. o \in Chain(o)
    BY <1>1, <2>1
  <2> HIDE DEF t
  <2> QED  BY <2>1, <2>2, TimeoutInv
<1> QED  BY <1>2, <1>3

(* The invariant is about the requester's calls, requests and timers only. *)
LEMMA UnchangedInv ==
    ASSUME RequesterInv, UNCHANGED <<call, ours, timers, verifying>>
    PROVE  RequesterInv'
  BY DEF RequesterInv, PendingOK, VerifyingOK, ChainOK, TimerPerRequest, TimersOf, OwnCallKnown,
     JoinedCallGetsData, Owns

(* A complete response moves the pending request, with its timer cleared, to verification. *)
LEMMA CompleteInv ==
    ASSUME TypeOK, RequesterInv, NEW h \in Hashes, NEW block \in Blocks, Complete(h, block),
           UNCHANGED call
    PROVE  RequesterInv'
<1>1. CASE ours[h] = None
  BY <1>1, UnchangedInv DEF Complete
<1>2. CASE ours[h] # None
  <2> DEFINE o == ours[h]
             v == [request |-> o, block |-> block]
  <2>1. /\ timers' = timers \ TimersOf(o)
        /\ ours' = [ours EXCEPT ![h] = None]
        /\ verifying' = verifying \cup {v}
        /\ v.request = o
    BY <1>2 DEF Complete
  <2>2. /\ ours \in [Hashes -> Calls \cup {None}]
        /\ \A w \in verifying : w.request \in Calls
        /\ o \in Calls
    BY <1>2 DEF TypeOK
  <2>3. Owns(o) /\ call[o].hash = h /\ \A w \in verifying : w.request # o
    BY <1>2 DEF RequesterInv, PendingOK, VerifyingOK
  <2>4. ours'[h] = None /\ \A k \in Hashes \ {h} : ours'[k] = ours[k] /\ ours[k] # o
    BY <2>1, <2>2, <2>3, CallsAreNotNone DEF RequesterInv, PendingOK
  <2> HIDE DEF o, v
  <2>5. PendingOK'
    BY <2>4 DEF RequesterInv, PendingOK, Owns
  <2>6. VerifyingOK'
    <3>1. \A w \in verifying' : Owns(w.request)'
      BY <2>1, <2>3 DEF RequesterInv, VerifyingOK, Owns
    <3>2. \A w \in verifying', k \in Hashes : ours'[k] # w.request
      BY <2>1, <2>2, <2>4, CallsAreNotNone DEF RequesterInv, VerifyingOK
    <3>3. \A w, x \in verifying' : x.request = w.request => x = w
      BY <2>1, <2>3 DEF RequesterInv, VerifyingOK
    <3> QED  BY <3>1, <3>2, <3>3 DEF VerifyingOK
  <2>7. ChainOK' /\ JoinedCallGetsData'
    BY DEF RequesterInv, ChainOK, JoinedCallGetsData
  <2>8. TimerPerRequest'
    <3>1. \A d \in Calls \ {o} : TimersOf(d)' = TimersOf(d)
      BY <2>1 DEF TimersOf
    <3>2. ASSUME NEW k \in Hashes, ours'[k] # None
          PROVE  \E s \in timers' : TimersOf(ours[k])' = {s}
      <4>1. ours'[k] = ours[k] /\ ours[k] \in Calls \ {o}
        BY <2>2, <2>4, <3>2
      <4>2. PICK s \in timers : TimersOf(ours[k]) = {s}
        BY <3>2, <4>1 DEF RequesterInv, TimerPerRequest
      <4> QED  BY <3>1, <4>1, <4>2 DEF TimersOf
    <3>3. \A s \in timers' : s \in timers /\ s.request # o
      BY <2>1 DEF TimersOf
    <3>4. \A s \in timers' : \E k \in Hashes : ours'[k] = s.request
      BY <2>4, <3>3 DEF RequesterInv, TimerPerRequest, o
    <3> QED  BY <3>2, <3>4 DEF TimerPerRequest
  <2>9. OwnCallKnown'
    <3> SUFFICES ASSUME NEW d \in Calls, call[d].state = "waiting", call[d].of = d
                 PROVE  \/ ours'[call[d].hash] = d
                        \/ \E w \in verifying' : w.request = d
      BY DEF OwnCallKnown
    <3>1. call[d].hash \in Hashes
      BY DEF RequesterInv, ChainOK, TypeOK, CallRecord
    <3> QED  BY <2>1, <2>4, <3>1 DEF RequesterInv, OwnCallKnown, o
  <2> QED  BY <2>5, <2>6, <2>7, <2>8, <2>9 DEF RequesterInv
<1> QED  BY <1>1, <1>2

(* An incomplete response replaces the timer of the pending request. *)
LEMMA RestartTimerInv ==
    ASSUME TypeOK, RequesterInv, NEW h \in Hashes, RestartTimer(h),
           UNCHANGED <<call, ours, verifying>>
    PROVE  RequesterInv'
<1>1. CASE ours[h] = None
  BY <1>1, UnchangedInv DEF RestartTimer
<1>2. CASE ours[h] # None
  <2> DEFINE o == ours[h]
             t == [request |-> o, kind |-> "stall"]
  <2>1. timers' = (timers \ TimersOf(o)) \cup {t} /\ t.request = o
    BY <1>2 DEF RestartTimer
  <2> HIDE DEF t
  <2>2. TimersOf(o)' = {t}
    BY <2>1 DEF TimersOf
  <2>3. ASSUME NEW d, d # o  PROVE TimersOf(d)' = TimersOf(d)
    BY <2>1, <2>3 DEF TimersOf
  <2>4. ASSUME NEW k \in Hashes, ours[k] # None
        PROVE  \E s \in timers' : TimersOf(ours[k])' = {s}
    <3>1. CASE ours[k] = o
      BY <2>1, <2>2, <3>1
    <3>2. CASE ours[k] # o
      <4>1. PICK s \in timers : TimersOf(ours[k]) = {s}
        BY <2>4 DEF RequesterInv, TimerPerRequest
      <4>2. s \in timers'
        BY <2>1, <3>2, <4>1 DEF TimersOf
      <4> QED  BY <2>3, <3>2, <4>1, <4>2
    <3> QED  BY <3>1, <3>2
  <2>5. \A s \in timers' : \E k \in Hashes : ours[k] = s.request
    BY <2>1 DEF RequesterInv, TimerPerRequest
  <2>6. TimerPerRequest'
    BY <2>4, <2>5 DEF TimerPerRequest
  <2> QED  BY <2>6 DEF RequesterInv, PendingOK, VerifyingOK, ChainOK, OwnCallKnown,
              JoinedCallGetsData, Owns
<1> QED  BY <1>1, <1>2

(* A response completes a request, or restarts its timer, or changes neither. *)
LEMMA ReceiveResponseInv ==
    ASSUME TypeOK, RequesterInv, NEW m \in Response, ReceiveResponse(m)
    PROVE  RequesterInv'
<1> DEFINE fragments == reassembly[m.hash] \cup
              (IF \E f \in reassembly[m.hash] : f.i = m.i THEN {} ELSE {m})
<1>1. m.hash \in Hashes /\ m.block \in Blocks
  BY DEF Response
<1>2. Assembled(fragments) \in Blocks
  BY DEF Assembled, Blocks
<1>3. /\ UNCHANGED call
      /\ \/ Complete(m.hash, m.block)
         \/ Complete(m.hash, Assembled(fragments))
         \/ RestartTimer(m.hash) /\ UNCHANGED <<ours, verifying>>
  BY DEF ReceiveResponse
<1> HIDE DEF fragments
<1> QED  BY <1>1, <1>2, <1>3, CompleteInv, RestartTimerInv

(* A verified response settles the whole chain of a request that is no longer pending. *)
LEMMA VerifiedInv ==
    ASSUME TypeOK, RequesterInv, NEW v \in verifying, Verified(v)
    PROVE  RequesterInv'
<1> DEFINE o == v.request
           result == IF v.block = "good" THEN "data" ELSE "null"
<1>1. /\ verifying' = verifying \ {v}
      /\ Settle(Chain(o), result) /\ result \in {"data", "null"}
      /\ UNCHANGED <<ours, timers>>
  BY DEF Verified
<1>2. /\ ours \in [Hashes -> Calls \cup {None}]
      /\ \A w \in verifying : w.request \in Calls
      /\ \A d \in Calls : call[d].of \in Calls \cup {None}
      /\ o \in Calls
  BY DEF TypeOK, CallRecord
<1> HIDE DEF result
<1>3. \A c \in Calls :
        /\ call'[c].hash = call[c].hash /\ call'[c].of = call[c].of
        /\ call'[c].state = IF call[c].of = o THEN result ELSE call[c].state
  BY <1>1, SettleFacts DEF Chain
<1>4. /\ Owns(o)
      /\ \A h \in Hashes : ours[h] # o
      /\ \A w \in verifying' : w \in verifying /\ w.request # o
  BY <1>1 DEF RequesterInv, VerifyingOK
<1> HIDE DEF o
<1>5. PendingOK'
  BY <1>1, <1>2, <1>3, <1>4, CallsAreNotNone DEF RequesterInv, PendingOK, Owns
<1>6. VerifyingOK'
  BY <1>1, <1>2, <1>3, <1>4, CallsAreNotNone DEF RequesterInv, VerifyingOK, Owns
<1>7. ChainOK'
  <2> SUFFICES ASSUME NEW c \in Calls
               PROVE  /\ call'[c].state = "idle" => call'[c].of = None
                      /\ call'[c].state = "waiting" => call'[c].hash # None
                      /\ call'[c].of # None => call'[call'[c].of].of = call'[c].of
    BY DEF ChainOK
  <2>1. result # "idle" /\ result # "waiting"
    BY <1>1
  <2> QED  BY <1>2, <1>3, <2>1 DEF RequesterInv, ChainOK
<1>8. TimerPerRequest'
  BY <1>1 DEF RequesterInv, TimerPerRequest, TimersOf
<1>9. OwnCallKnown'
  <2> SUFFICES ASSUME NEW d \in Calls, call'[d].state = "waiting", call'[d].of = d
               PROVE  \/ ours[call[d].hash] = d
                      \/ \E w \in verifying' : w.request = d
    BY <1>1, <1>3 DEF OwnCallKnown
  <2>1. d # o /\ call[d].state = "waiting" /\ call[d].of = d
    BY <1>1, <1>3, <1>4 DEF Owns
  <2> QED  BY <1>1, <2>1 DEF RequesterInv, OwnCallKnown, o
<1>10. JoinedCallGetsData'
  <2> SUFFICES ASSUME NEW c \in Calls, call'[c].of # None, call'[call'[c].of].state = "data"
               PROVE  call'[c].state = "data"
    BY DEF JoinedCallGetsData
  <2>1. call[c].of \in Calls /\ call[call[c].of].of = call[c].of
    BY <1>2, <1>3 DEF RequesterInv, ChainOK
  <2> QED  BY <1>3, <2>1 DEF RequesterInv, JoinedCallGetsData
<1> QED  BY <1>5, <1>6, <1>7, <1>8, <1>9, <1>10 DEF RequesterInv

(* Closing settles the chain of every pending request and clears their timers. *)
LEMMA CloseInv ==
    ASSUME TypeOK, RequesterInv, Close
    PROVE  RequesterInv'
<1> DEFINE cs == {c \in Calls : \E h \in Hashes : ours[h] # None /\ call[c].of = ours[h]}
<1>1. /\ Settle(cs, "null")
      /\ ours' = [h \in Hashes |-> None]
      /\ UNCHANGED verifying
  BY DEF Close
<1>2. /\ ours \in [Hashes -> Calls \cup {None}]
      /\ \A w \in verifying : w.request \in Calls
      /\ \A d \in Calls : call[d].of \in Calls \cup {None}
  BY DEF TypeOK, CallRecord
<1>3. timers' = {}
  BY DEF Close, RequesterInv, TimerPerRequest
<1>4. \A c \in Calls :
        c \in cs <=> \E h \in Hashes : ours[h] # None /\ call[c].of = ours[h]
  OBVIOUS
<1> HIDE DEF cs
<1>5. \A c \in Calls :
        /\ call'[c].hash = call[c].hash /\ call'[c].of = call[c].of
        /\ call'[c].state = IF c \in cs THEN "null" ELSE call[c].state
  BY <1>1, SettleFacts
<1>6. PendingOK'
  BY <1>1 DEF PendingOK
<1>7. VerifyingOK'
  <2>1. \A v \in verifying : v.request \notin cs
    BY <1>2, <1>4 DEF RequesterInv, VerifyingOK, Owns
  <2>2. \A v \in verifying, h \in Hashes : ours'[h] # v.request
    BY <1>1, <1>2, CallsAreNotNone
  <2> QED  BY <1>1, <1>2, <1>5, <2>1, <2>2 DEF RequesterInv, VerifyingOK, Owns
<1>8. ChainOK'
  <2> SUFFICES ASSUME NEW c \in Calls
               PROVE  /\ call'[c].state = "idle" => call'[c].of = None
                      /\ call'[c].state = "waiting" => call'[c].hash # None
                      /\ call'[c].of # None => call'[call'[c].of].of = call'[c].of
    BY DEF ChainOK
  <2> QED  BY <1>2, <1>5 DEF RequesterInv, ChainOK
<1>9. TimerPerRequest'
  BY <1>1, <1>3 DEF TimerPerRequest
<1>10. OwnCallKnown'
  <2> SUFFICES ASSUME NEW d \in Calls, call'[d].state = "waiting", call'[d].of = d
               PROVE  \E v \in verifying : v.request = d
    BY <1>1 DEF OwnCallKnown
  <2>1. d \notin cs /\ call[d].state = "waiting" /\ call[d].of = d /\ call[d].hash \in Hashes
    BY <1>5 DEF RequesterInv, ChainOK, TypeOK, CallRecord
  <2>2. ours[call[d].hash] # d
    BY <1>4, <2>1, CallsAreNotNone
  <2> QED  BY <2>1, <2>2 DEF RequesterInv, OwnCallKnown
<1>11. JoinedCallGetsData'
  <2> SUFFICES ASSUME NEW c \in Calls, call'[c].of # None, call'[call'[c].of].state = "data"
               PROVE  call'[c].state = "data"
    BY DEF JoinedCallGetsData
  <2>1. call[c].of \in Calls \ cs /\ call[call[c].of].of = call[c].of
    BY <1>2, <1>5 DEF RequesterInv, ChainOK
  <2>2. c \notin cs
    BY <1>4, <2>1
  <2> QED  BY <1>5, <2>1, <2>2 DEF RequesterInv, JoinedCallGetsData
<1> QED  BY <1>6, <1>7, <1>8, <1>9, <1>10, <1>11 DEF RequesterInv

-----------------------------------------------------------------------------
(* The theorems. *)

(* Nothing is pending at first. *)
LEMMA InitInv == Init => ExchangeInv
<1> SUFFICES ASSUME Init  PROVE ExchangeInv
  OBVIOUS
<1>1. TypeOK
  BY DEF Init, TypeOK, CallRecord
<1>2. TheirRequestsBounded
  BY ExchangeAssumption DEF Init, TheirRequestsBounded
<1>3. PendingOK /\ VerifyingOK /\ ChainOK
  BY DEF Init, PendingOK, VerifyingOK, ChainOK
<1>4. TimerPerRequest /\ OwnCallKnown /\ JoinedCallGetsData
  BY DEF Init, TimerPerRequest, OwnCallKnown, JoinedCallGetsData
<1> QED  BY <1>1, <1>2, <1>3, <1>4 DEF ExchangeInv

(* Every step keeps the invariant: the requester's by its lemmas, the responder's by the types. *)
LEMMA StepInv == ExchangeInv /\ [Next]_vars => ExchangeInv'
<1> SUFFICES ASSUME ExchangeInv, [Next]_vars  PROVE ExchangeInv'
  OBVIOUS
<1>1. TypeOK /\ TheirRequestsBounded /\ RequesterInv
  BY DEF ExchangeInv, RequesterInv
<1>2. CASE Requester
  <2>1. TypeOK'
    BY <1>1, <1>2, RequesterTyped
  <2>2. TheirRequestsBounded'
    <3>1. UNCHANGED responder
      BY <1>2 DEF Requester, RequestWhenClosed, JoinRequest, SendRequest, RequestTimeout,
         StallTimeout, ReceiveResponse, Verified, CleanupStaleReassemblies, Close
    <3> QED  BY <1>1, <3>1 DEF TheirRequestsBounded, responder
  <2>3. RequesterInv'
    <3>1. ASSUME NEW c \in Calls, NEW h \in Hashes,
                 \/ RequestWhenClosed(c, h)
                 \/ JoinRequest(c, h)
                 \/ \E forward \in BOOLEAN : SendRequest(c, h, forward)
          PROVE  RequesterInv'
      BY <1>1, <3>1, RequestWhenClosedInv, JoinRequestInv, SendRequestInv
    <3>2. ASSUME NEW o \in Calls, RequestTimeout(o) \/ StallTimeout(o)  PROVE RequesterInv'
      BY <1>1, <3>2, TimersInv
    <3>3. ASSUME NEW m \in Response, ReceiveResponse(m)  PROVE RequesterInv'
      BY <1>1, <3>3, ReceiveResponseInv
    <3>4. ASSUME NEW v \in verifying, Verified(v)  PROVE RequesterInv'
      BY <1>1, <3>4, VerifiedInv
    <3>5. CASE CleanupStaleReassemblies
      BY <1>1, <3>5, UnchangedInv DEF CleanupStaleReassemblies
    <3>6. CASE Close
      BY <1>1, <3>6, CloseInv
    <3> QED  BY <1>2, <3>1, <3>2, <3>3, <3>4, <3>5, <3>6 DEF Requester
  <2> QED  BY <2>1, <2>2, <2>3 DEF ExchangeInv, RequesterInv
<1>3. CASE Responder
  <2>1. TypeOK' /\ TheirRequestsBounded'
    BY <1>1, <1>3, ResponderTyped
  <2>2. UNCHANGED <<call, ours, timers, verifying>>
    BY <1>3 DEF Responder, ReceiveRequest, LookupHit, LookupMiss, ForwardFound, ForwardFails,
       Put, SendData, requester
  <2>3. RequesterInv'
    BY <1>1, <2>2, UnchangedInv
  <2> QED  BY <2>1, <2>3 DEF ExchangeInv, RequesterInv
<1>4. CASE UNCHANGED vars
  <2>1. TypeOK' /\ TheirRequestsBounded'
    BY <1>1, <1>4 DEF vars, requester, responder, TypeOK, TheirRequestsBounded
  <2>2. RequesterInv'
    BY <1>1, <1>4, UnchangedInv DEF vars, requester
  <2> QED  BY <2>1, <2>2 DEF ExchangeInv, RequesterInv
<1> QED  BY <1>2, <1>3, <1>4 DEF Next

(* The invariant holds for every number of hashes, calls and fragments. *)
THEOREM Invariance == Spec => []ExchangeInv
  BY InitInv, StepInv, PTL DEF Spec

(* Every variable keeps its type. *)
THEOREM TypeCorrect == Spec => []TypeOK
<1>1. ExchangeInv => TypeOK
  BY DEF ExchangeInv
<1> QED  BY <1>1, Invariance, PTL

(* A pending request has exactly one armed timer, and no other timer is armed (peer.ts 434-445). *)
THEOREM OneTimerPerRequest == Spec => []TimerPerRequest
<1>1. ExchangeInv => TimerPerRequest
  BY DEF ExchangeInv
<1> QED  BY <1>1, Invariance, PTL

(* No call of request() waits for a request that the peer has forgotten (peer.ts 312-330). *)
THEOREM OwnCallsAreKnown == Spec => []OwnCallKnown
<1>1. ExchangeInv => OwnCallKnown
  BY DEF ExchangeInv
<1> QED  BY <1>1, Invariance, PTL

(* A call that joined a request gets its data when the request does (peer.ts 519-528). *)
THEOREM JoinedCallsGetData == Spec => []JoinedCallGetsData
<1>1. ExchangeInv => JoinedCallGetsData
  BY DEF ExchangeInv
<1> QED  BY <1>1, Invariance, PTL

(* The responder's cache of requests never outgrows its size (lruCache.ts 22-35). *)
THEOREM CacheBounded == Spec => []TheirRequestsBounded
<1>1. ExchangeInv => TheirRequestsBounded
  BY DEF ExchangeInv
<1> QED  BY <1>1, Invariance, PTL

(* A request is forgotten only when it is answered, after a close, or evicted by a newer one. *)
THEOREM ForgottenOnlyWhenAnswered == Spec => RememberedUntilAnswered
<1> DEFINE Kept(h) ==
      \/ \A i \in 0..(FragmentsOf[h] - 1) : \E b \in Blocks :
           LET m == [hash |-> h, i |-> i, block |-> b] IN responses'[m] > responses[m]
      \/ ~open
      \/ Len(theirs) = TheirRequestsSize /\ Len(theirs') = TheirRequestsSize /\ h = theirs[1]
<1>1. ASSUME TypeOK, TheirRequestsBounded, Next, NEW h \in Range(theirs) \ Range(theirs')
      PROVE  Kept(h)
  <2>1. CASE UNCHANGED theirs
    BY <1>1, <2>1
  <2>2. ASSUME NEW k \in Hashes, theirs' = LRUSet(theirs, k)  PROVE Kept(h)
    <3>1. /\ Len(theirs) = TheirRequestsSize
          /\ Len(LRUSet(theirs, k)) = TheirRequestsSize
          /\ h = theirs[1]
      BY <1>1, <2>2, TheirsFacts
    <3> QED  BY <2>2, <3>1
  <2>3. ASSUME NEW k \in Hashes, theirs' = LRUDelete(theirs, k), SendResponse(k, "good")
        PROVE  Kept(h)
    <3>1. h = k
      BY <1>1, <2>3, TheirsFacts
    <3>2. ASSUME open, NEW i \in 0..(FragmentsOf[h] - 1)
          PROVE  \E b \in Blocks :
                   LET m == [hash |-> h, i |-> i, block |-> b] IN responses'[m] > responses[m]
      <4> DEFINE m == [hash |-> h, i |-> i, block |-> "good"]
      <4>1. m \in Response
        BY <3>1 DEF Response, Blocks
      <4>2. responses[m] \in Nat /\ m.hash = h /\ m.block = "good"
        BY <1>1, <4>1 DEF TypeOK
      <4> HIDE DEF m
      <4>3. responses'[m] = responses[m] + 1
        BY <2>3, <3>1, <3>2, <4>1, <4>2 DEF SendResponse
      <4>4. responses'[m] > responses[m]
        BY <4>2, <4>3
      <4> QED  BY <4>4 DEF m, Blocks
    <3> QED  BY <3>2
  <2>4. Requester => UNCHANGED theirs
    BY DEF Requester, RequestWhenClosed, JoinRequest, SendRequest, RequestTimeout, StallTimeout,
       ReceiveResponse, Verified, CleanupStaleReassemblies, Close, responder
  <2> QED  BY <1>1, <2>1, <2>2, <2>3, <2>4, ResponderTheirs DEF Next
<1>2. TypeOK /\ TheirRequestsBounded /\ [Next]_vars =>
        [\A h \in Range(theirs) \ Range(theirs') : Kept(h)]_vars
  BY <1>1
<1>3. ExchangeInv => TypeOK /\ TheirRequestsBounded
  BY DEF ExchangeInv
<1> QED  BY <1>2, <1>3, Invariance, PTL DEF Spec, RememberedUntilAnswered

-----------------------------------------------------------------------------
(* Refinement of Requests. *)

(* As long as a call waits for its own request, those that joined it wait. *)
ChainWaits ==
    \A c \in Calls : call[c].of # None /\ Owns(call[c].of) => call[c].state = "waiting"

(* What a pending request or one under verification settles is waiting. *)
LEMMA ChainIsWaiting ==
    ASSUME ExchangeInv, ChainWaits
    PROVE  /\ \A t \in timers : \A c \in Chain(t.request) : call[c].state = "waiting"
           /\ \A t \in timers : t.request \in Chain(t.request)
           /\ \A v \in verifying : \A c \in Chain(v.request) : call[c].state = "waiting"
           /\ \A h \in Hashes : ours[h] # None =>
                \A c \in Chain(ours[h]) : call[c].state = "waiting"
<1>1. TypeOK /\ RequesterInv
  BY DEF ExchangeInv, RequesterInv
<1>2. ASSUME NEW o \in Calls, Owns(o), NEW c \in Chain(o)
      PROVE  call[c].state = "waiting"
  BY <1>2, CallsAreNotNone DEF Chain, ChainWaits
<1>3. ASSUME NEW t \in timers  PROVE t.request \in Calls /\ Owns(t.request)
  BY <1>1, TimedRequest DEF TypeOK, Timers
<1>4. \A t \in timers : t.request \in Chain(t.request)
  BY <1>3 DEF Owns, Chain
<1>5. ASSUME NEW v \in verifying  PROVE v.request \in Calls /\ Owns(v.request)
  BY <1>1 DEF TypeOK, RequesterInv, VerifyingOK
<1>6. ASSUME NEW h \in Hashes, ours[h] # None  PROVE ours[h] \in Calls /\ Owns(ours[h])
  BY <1>1, <1>6 DEF TypeOK, RequesterInv, PendingOK
<1> QED  BY <1>2, <1>3, <1>4, <1>5, <1>6

(* Settling waiting calls keeps the chains of the others, when the owner of a
   settled call is settled too or does not wait. *)
LEMMA SettleChains ==
    ASSUME ExchangeInv, ChainWaits, NEW cs \in SUBSET Calls, NEW result \in {"data", "null"},
           Settle(cs, result),
           \A c \in cs : call[c].of \in cs
    PROVE  ChainWaits'
<1>1. \A c \in Calls :
        /\ call'[c].of = call[c].of
        /\ call'[c].state = IF c \in cs THEN result ELSE call[c].state
  BY SettleFacts DEF ExchangeInv
<1>2. \A c \in Calls : call[c].of \in Calls \cup {None}
  BY DEF ExchangeInv, TypeOK, CallRecord
<1>3. result # "waiting"
  OBVIOUS
<1> QED  BY <1>1, <1>2, <1>3 DEF ChainWaits, Owns

(* A request that begins or is refused leaves the chains alone or begins one. *)
LEMMA BeginChains ==
    ASSUME ExchangeInv, ChainWaits, NEW c \in Calls, NEW h \in Hashes, NEW forward \in BOOLEAN,
           RequestWhenClosed(c, h) \/ JoinRequest(c, h) \/ SendRequest(c, h, forward)
    PROVE  ChainWaits'
<1>1. TypeOK /\ RequesterInv /\ call[c].state = "idle"
  BY DEF ExchangeInv, RequesterInv, RequestWhenClosed, JoinRequest, SendRequest
<1>2. \A d \in Calls : call[d].of # c /\ call[d].of \in Calls \cup {None}
  BY <1>1, IdleCall DEF TypeOK, CallRecord
<1>3. \A d \in Calls \ {c} : call'[d] = call[d]
  BY <1>1, WaitFacts DEF RequestWhenClosed, JoinRequest, SendRequest, TypeOK
<1>4. call'[c].of = None \/ call'[c].state = "waiting"
  <2>1. CASE RequestWhenClosed(c, h)
    BY <1>1, <2>1 DEF RequestWhenClosed, TypeOK
  <2>2. CASE JoinRequest(c, h)
    BY <1>1, <2>2, WaitFacts DEF JoinRequest, TypeOK
  <2>3. CASE SendRequest(c, h, forward)
    BY <1>1, <2>3, WaitFacts DEF SendRequest
  <2> QED  BY <2>1, <2>2, <2>3
<1> QED  BY <1>2, <1>3, <1>4 DEF ChainWaits, Owns

(* Where a call stands, as Requests sees it. *)
Answer == [c \in Calls |-> IF call[c].state = "waiting" THEN "asked" ELSE call[c].state]

(* Calls that wait are answered. *)
LEMMA SettlePromise ==
    ASSUME TypeOK, NEW cs \in SUBSET Calls, NEW result \in {"data", "null"},
           Settle(cs, result),
           \A c \in cs : call[c].state = "waiting"
    PROVE  Asking!Next
<1>1. \A c \in Calls : call'[c].state = IF c \in cs THEN result ELSE call[c].state
  BY SettleFacts
<1>2. ASSUME NEW c \in Calls
      PROVE  (IF call'[c].state = "waiting" THEN "asked" ELSE call'[c].state)
             = IF c \in cs THEN result
               ELSE (IF call[c].state = "waiting" THEN "asked" ELSE call[c].state)
  BY <1>1
<1>3. Asking!Answer(cs, result)
  BY <1>2 DEF Asking!Answer
<1> QED  BY <1>3 DEF Asking!Next

(* A call is asked, or asked and answered at once. *)
LEMMA BeginPromise ==
    ASSUME TypeOK, NEW c \in Calls, NEW h \in Hashes, NEW forward \in BOOLEAN,
           RequestWhenClosed(c, h) \/ JoinRequest(c, h) \/ SendRequest(c, h, forward)
    PROVE  Asking!Next
<1>1. CASE RequestWhenClosed(c, h)
  <2>1. /\ call[c].state = "idle" /\ call'[c].state = "null"
        /\ \A d \in Calls \ {c} : call'[d] = call[d]
    BY <1>1 DEF RequestWhenClosed, TypeOK
  <2>2. Asking!AskAnswered(c, "null")
    BY <2>1 DEF Asking!AskAnswered
  <2> QED  BY <2>2 DEF Asking!Next
<1>2. CASE JoinRequest(c, h) \/ \E f \in BOOLEAN : SendRequest(c, h, f)
  <2>1. PICK o \in Calls : Wait(c, h, o)
    BY <1>2 DEF JoinRequest, SendRequest, TypeOK
  <2>2. /\ call[c].state = "idle" /\ call'[c].state = "waiting"
        /\ \A d \in Calls \ {c} : call'[d] = call[d]
    BY <1>2, <2>1, WaitFacts DEF JoinRequest, SendRequest
  <2>3. Asking!Ask(c)
    BY <2>2 DEF Asking!Ask
  <2> QED  BY <2>3 DEF Asking!Next
<1> QED  BY <1>1, <1>2

(* Every step keeps the chains, and is a step of Requests or changes no answer. *)
LEMMA StepPromise ==
    ASSUME ExchangeInv, ChainWaits, [Next]_vars
    PROVE  ChainWaits' /\ (Asking!Next \/ UNCHANGED Answer)
<1>1. TypeOK
  BY DEF ExchangeInv
<1>2. ASSUME NEW cs \in SUBSET Calls, NEW result \in {"data", "null"}, Settle(cs, result),
             \A c \in cs : call[c].of \in cs /\ call[c].state = "waiting"
      PROVE  ChainWaits' /\ Asking!Next
  BY <1>1, <1>2, SettleChains, SettlePromise
<1>3. CASE UNCHANGED call
  BY <1>3 DEF ChainWaits, Owns, Answer
<1>4. ASSUME NEW c \in Calls, NEW h \in Hashes, NEW forward \in BOOLEAN,
             RequestWhenClosed(c, h) \/ JoinRequest(c, h) \/ SendRequest(c, h, forward)
      PROVE  ChainWaits' /\ Asking!Next
  BY <1>1, <1>4, BeginChains, BeginPromise
<1>5. ASSUME NEW o \in Calls, RequestTimeout(o) \/ StallTimeout(o)
      PROVE  ChainWaits' /\ Asking!Next
  <2>1. PICK kind \in {"request", "stall"} : [request |-> o, kind |-> kind] \in timers
    BY <1>5 DEF RequestTimeout, StallTimeout
  <2> DEFINE t == [request |-> o, kind |-> kind]
  <2>2. t \in timers /\ t.request = o
    BY <2>1
  <2> HIDE DEF t
  <2>3. o \in Chain(o) /\ \A c \in Chain(o) : call[c].state = "waiting"
    BY <2>2, ChainIsWaiting
  <2>4. Settle({o}, "null") \/ Settle(Chain(o), "null")
    BY <1>5 DEF RequestTimeout, StallTimeout
  <2>5. \A cs \in {{o}, Chain(o)} :
          cs \in SUBSET Calls /\ \A c \in cs : call[c].of \in cs /\ call[c].state = "waiting"
    BY <2>3 DEF Chain
  <2> HIDE DEF Chain
  <2> QED  BY <1>2, <2>4, <2>5
<1>6. ASSUME NEW v \in verifying, Verified(v)  PROVE ChainWaits' /\ Asking!Next
  <2>1. v.request \in Calls /\ Owns(v.request)
    BY DEF ExchangeInv, TypeOK, VerifyingOK
  <2>2. \A c \in Chain(v.request) :
          call[c].of \in Chain(v.request) /\ call[c].state = "waiting"
    BY <2>1, ChainIsWaiting DEF Chain, Owns
  <2>3. Chain(v.request) \in SUBSET Calls
    BY DEF Chain
  <2>4. PICK result \in {"data", "null"} : Settle(Chain(v.request), result)
    BY <1>6 DEF Verified
  <2> QED  BY <1>2, <2>2, <2>3, <2>4
<1>7. CASE Close
  <2> DEFINE cs == {c \in Calls : \E h \in Hashes : ours[h] # None /\ call[c].of = ours[h]}
  <2>1. Settle(cs, "null") /\ cs \in SUBSET Calls
    BY <1>7 DEF Close
  <2>2. ASSUME NEW c \in cs  PROVE call[c].of \in cs /\ call[c].state = "waiting"
    <3>1. PICK h \in Hashes : ours[h] # None /\ call[c].of = ours[h]
      OBVIOUS
    <3>2. ours[h] \in Calls /\ call[ours[h]].of = ours[h]
      BY <3>1 DEF ExchangeInv, TypeOK, PendingOK, Owns
    <3>3. call[c].state = "waiting"
      BY <3>1, ChainIsWaiting DEF Chain
    <3> QED  BY <3>1, <3>2, <3>3
  <2> HIDE DEF cs
  <2> QED  BY <1>2, <2>1, <2>2
<1>8. CASE Responder \/ CleanupStaleReassemblies \/ \E m \in Response : ReceiveResponse(m)
  BY <1>3, <1>8 DEF Responder, ReceiveRequest, LookupHit, LookupMiss, ForwardFound,
     ForwardFails, Put, SendData, requester, CleanupStaleReassemblies, ReceiveResponse
<1>9. CASE UNCHANGED vars
  BY <1>3, <1>9 DEF vars, requester
<1> QED  BY <1>4, <1>5, <1>6, <1>7, <1>8, <1>9 DEF Next, Requester

(* request() keeps the promise of Requests (peer.ts 513-560): whatever timers,
   responses and closings do, a call is answered at most once. *)
THEOREM PromiseKept == Spec => KeepsPromise
<1>1. Init => ChainWaits /\ Asking!Init
  BY DEF Init, ChainWaits, Asking!Init
<1>2. ExchangeInv /\ ChainWaits /\ [Next]_vars => ChainWaits' /\ [Asking!Next]_Answer
  BY StepPromise
<1> QED  BY <1>1, <1>2, Invariance, PTL DEF Spec, KeepsPromise, Asking!Spec, Answer

=============================================================================
