-------------------------- MODULE StoreReadsProofs --------------------------
(***************************************************************************)
(* Proofs about StoreReads, for every set of calls, keys, hashes and peers *)
(* and every size of the waves.                                            *)
(***************************************************************************)
EXTENDS StoreReads, TLAPS

-----------------------------------------------------------------------------
(* The inductive invariant.  pendingGets names exactly the calls that fetch,
   and a call that joined waits for the one it names; *)
GetsOK ==
    /\ \A c \in Calls : call[c] \in Fetching => gets[Hash(c)] = c
    /\ \A h \in Hashes : gets[h] # None => call[gets[h]] \in Fetching /\ Hash(gets[h]) = h
    /\ \A c \in Calls : call[c] = "joined" => leader[c] # None /\ gets[Hash(c)] = leader[c]

(* an array never has another request than that of the call that made it, and
   is listed only while it has this one and the call waits; *)
EntriesOK ==
    /\ \A a \in Calls : members[a] \subseteq {a}
    /\ \A k \in Keys : entry[k] # None => /\ call[entry[k]] = "waiting" /\ KeyOf[entry[k]] = k
                                          /\ entry[k] \in members[entry[k]]

(* and a loop awaits a peer that its request is marked with. *)
LoopsOK == \A l \in loops : l.peer \in tried[l.array] /\ KeyOf[l.array] = l.key

ReadsInv == TypeOK /\ GetsOK /\ EntriesOK /\ LoopsOK /\ AskedOnce

-----------------------------------------------------------------------------
(* Every key holds a hash and every call passes one. *)
LEMMA HashTyped == \A c \in Calls : KeyOf[c] \in Keys /\ Hash(c) \in Hashes /\ c # None
  BY ReadsAssumption DEF Hash

(* What answering some calls does to the types. *)
LEMMA FinishTyped ==
    ASSUME TypeOK, NEW S \in SUBSET Calls, NEW v \in {"data", "null"}, Finish(S, v)
    PROVE  /\ call' \in [Calls -> {"idle", "local", "missed", "joined", "data", "null"} \cup Fetching]
           /\ gets' \in [Hashes -> Calls \cup {None}]
  BY DEF TypeOK, Finish, Settled

(* Answering calls that fetch keeps pendingGets and the joined calls in order. *)
LEMMA FinishGets ==
    ASSUME TypeOK, GetsOK, NEW S \in SUBSET Calls, \A c \in S : call[c] \in Fetching,
           NEW v \in {"data", "null"}, Finish(S, v), UNCHANGED leader
    PROVE  GetsOK'
<1>1. \A c \in Calls : call'[c] = IF c \in S \/ (call[c] = "joined" /\ leader[c] \in S)
                                  THEN v ELSE call[c]
  BY DEF Finish, Settled
<1>2. \A h \in Hashes : gets'[h] = IF \E c \in S : Hash(c) = h THEN None ELSE gets[h]
  BY DEF Finish
<1>3. v \notin Fetching /\ v # "joined" /\ "joined" \notin Fetching
  BY DEF Fetching
<1>4. ASSUME NEW c \in Calls, call'[c] \in Fetching  PROVE gets'[Hash(c)] = c
  <2>1. c \notin S /\ call[c] \in Fetching
    BY <1>1, <1>3, <1>4
  <2>2. gets[Hash(c)] = c
    BY <2>1 DEF GetsOK
  <2>3. \A d \in S : Hash(d) # Hash(c)
    BY <2>1, <2>2 DEF GetsOK
  <2> QED  BY <1>2, <2>2, <2>3, HashTyped
<1>5. ASSUME NEW h \in Hashes, gets'[h] # None
      PROVE  call'[gets'[h]] \in Fetching /\ Hash(gets'[h]) = h
  <2>1. gets'[h] = gets[h] /\ gets[h] # None /\ (\A c \in S : Hash(c) # h)
    BY <1>2, <1>5
  <2>2. gets[h] \in Calls /\ call[gets[h]] \in Fetching /\ Hash(gets[h]) = h
    BY <2>1 DEF TypeOK, GetsOK
  <2> QED  BY <1>1, <1>3, <2>1, <2>2
<1>6. ASSUME NEW c \in Calls, call'[c] = "joined"
      PROVE  leader'[c] # None /\ gets'[Hash(c)] = leader'[c]
  <2>1. call[c] = "joined" /\ leader[c] \notin S
    BY <1>1, <1>3, <1>6
  <2>2. leader[c] # None /\ gets[Hash(c)] = leader[c]
    BY <2>1 DEF GetsOK
  <2>3. \A d \in S : Hash(d) # Hash(c)
    BY <2>1, <2>2 DEF GetsOK
  <2> QED  BY <1>2, <2>2, <2>3, HashTyped
<1> QED  BY <1>4, <1>5, <1>6 DEF GetsOK, Hash

(* A request that waits is the only fetch of its hash. *)
LEMMA FetchIsAlone ==
    ASSUME TypeOK, GetsOK, NEW c \in Calls, NEW d \in Calls,
           call[c] \in Fetching, call[d] \in Fetching, Hash(c) = Hash(d)
    PROVE  c = d
  BY DEF GetsOK

(* Answers leave the listed requests alone that are not among the answered. *)
LEMMA FinishEntries ==
    ASSUME TypeOK, EntriesOK, NEW S \in SUBSET Calls, NEW v \in {"data", "null"}, Finish(S, v),
           UNCHANGED members,
           \A k \in Keys : entry'[k] # None => entry'[k] = entry[k] /\ entry[k] \notin S
    PROVE  EntriesOK'
<1>1. \A c \in Calls : c \notin S /\ call[c] = "waiting" => call'[c] = "waiting"
  BY DEF Finish, Settled
<1>2. \A k \in Keys : entry[k] \in Calls \cup {None}
  BY DEF TypeOK
<1> QED  BY <1>1, <1>2 DEF EntriesOK

(* Asking a wave of peers only adds to the peers that were tried. *)
LEMMA AskWaveFacts ==
    ASSUME TypeOK, NEW c \in Calls, NEW ps \in SUBSET Peers, AskWave(c, ps)
    PROVE  /\ left' \in [Calls -> SUBSET Peers] /\ asked' \in [Calls -> SUBSET Peers]
           /\ tried' \in [Calls -> SUBSET Peers]
           /\ \A a \in Calls : tried[a] \subseteq tried'[a]
<1>1. PICK w \in SUBSET ps :
        /\ left' = [left EXCEPT ![c] = ps \ w]
        /\ asked' = [asked EXCEPT ![c] = @ \cup w]
        /\ tried' = [tried EXCEPT ![c] = @ \cup w]
  BY DEF AskWave, Waves
<1> QED  BY <1>1 DEF TypeOK

(* Loops stay marked when marks are only added. *)
LEMMA LoopsKept ==
    ASSUME TypeOK, LoopsOK, AskedOnce, UNCHANGED loops,
           \A a \in Calls : tried[a] \subseteq tried'[a]
    PROVE  LoopsOK' /\ AskedOnce'
<1>1. \A l \in loops : l.array \in Calls
  BY DEF TypeOK, Loop
<1> QED  BY <1>1 DEF LoopsOK, AskedOnce

(* Steps of a call that neither starts nor ends a fetch. *)
LEMMA CallInv ==
    ASSUME ReadsInv, NEW c \in Calls, Get(c) \/ LocalHit(c) \/ LocalMiss(c) \/ Join(c) \/ QueryEnds(c)
    PROVE  ReadsInv'
<1> USE DEF ReadsInv
<1>1. UNCHANGED <<running, connected, local, gets, fetch, entry, members, loops>>
  BY DEF Get, LocalHit, LocalMiss, Join, QueryEnds
<1>2. PICK v \in {"local", "data", "missed", "joined", "fallback"} :
        /\ call' = [call EXCEPT ![c] = v]
        /\ v = "fallback" => call[c] = "querying"
        /\ v # "fallback" => call[c] \notin Fetching
        /\ v = "joined" => gets[Hash(c)] # None /\ leader' = [leader EXCEPT ![c] = gets[Hash(c)]]
        /\ v # "joined" => UNCHANGED leader
  BY DEF Get, LocalHit, LocalMiss, Join, QueryEnds, Fetching
<1>3. call[c] # "waiting"
  BY DEF Get, LocalHit, LocalMiss, Join, QueryEnds
<1>4. \A d \in Calls : call'[d] = IF d = c THEN v ELSE call[d]
  BY <1>2 DEF TypeOK
<1>5. \A d \in Calls : call'[d] \in Fetching <=> call[d] \in Fetching
  BY <1>2, <1>4 DEF Fetching
<1>6. \A d \in Calls : leader'[d] = IF d = c /\ v = "joined" THEN gets[Hash(c)] ELSE leader[d]
  BY <1>2 DEF TypeOK
<1>7. TypeOK'
  <2>1. call' \in [Calls -> {"idle", "local", "missed", "joined", "data", "null"} \cup Fetching]
    BY <1>2 DEF TypeOK, Fetching
  <2>2. leader' \in [Calls -> Calls \cup {None}]
    BY <1>2, HashTyped DEF TypeOK
  <2> QED  BY <1>1, <2>1, <2>2 DEF TypeOK, fetch
<1>8. GetsOK'
  <2>1. \A d \in Calls : call'[d] \in Fetching => gets'[Hash(d)] = d
    BY <1>1, <1>5 DEF GetsOK
  <2>2. \A h \in Hashes : gets[h] # None => gets[h] \in Calls
    BY DEF TypeOK
  <2>3. \A h \in Hashes : gets'[h] # None => call'[gets'[h]] \in Fetching /\ Hash(gets'[h]) = h
    BY <1>1, <1>5, <2>2 DEF GetsOK
  <2>4. ASSUME NEW d \in Calls, call'[d] = "joined"
        PROVE  leader'[d] # None /\ gets'[Hash(d)] = leader'[d]
    <3>1. CASE d = c
      BY <1>1, <1>2, <1>4, <1>6, <2>4, <3>1
    <3>2. CASE d # c
      BY <1>1, <1>4, <1>6, <2>4, <3>2 DEF GetsOK
    <3> QED  BY <3>1, <3>2
  <2> QED  BY <2>1, <2>3, <2>4 DEF GetsOK, Hash
<1>9. EntriesOK'
  <2>1. \A k \in Keys : entry[k] # None => entry[k] \in Calls
    BY DEF TypeOK
  <2> QED  BY <1>1, <1>3, <1>4, <2>1 DEF EntriesOK
<1>10. LoopsOK' /\ AskedOnce'
  BY <1>1, LoopsKept DEF fetch
<1> QED  BY <1>7, <1>8, <1>9, <1>10

(* A fetch that starts finds its hash free, and takes it. *)
LEMMA StartFetchInv ==
    ASSUME ReadsInv, NEW c \in Calls, StartFetch(c)
    PROVE  ReadsInv'
<1> USE DEF ReadsInv
<1>1. /\ call[c] = "missed" /\ gets[Hash(c)] = None
      /\ gets' = [gets EXCEPT ![Hash(c)] = c]
      /\ AskWave(c, connected)
      /\ UNCHANGED <<running, connected, local, leader, entry, members, loops>>
  BY DEF StartFetch
<1>2. PICK v \in {"fallback", "querying"} : call' = [call EXCEPT ![c] = v]
  BY DEF StartFetch
<1>3. \A d \in Calls : call'[d] = IF d = c THEN v ELSE call[d]
  BY <1>2 DEF TypeOK
<1>4. \A h \in Hashes : gets'[h] = IF h = Hash(c) THEN c ELSE gets[h]
  BY <1>1, HashTyped DEF TypeOK
<1>5. AskWave(c, connected) /\ connected \in SUBSET Peers
  BY <1>1 DEF TypeOK
<1>6. TypeOK'
  <2>1. call' \in [Calls -> {"idle", "local", "missed", "joined", "data", "null"} \cup Fetching]
    BY <1>2 DEF TypeOK, Fetching
  <2>2. gets' \in [Hashes -> Calls \cup {None}]
    BY <1>1 DEF TypeOK
  <2> QED  BY <1>1, <1>5, <2>1, <2>2, AskWaveFacts DEF TypeOK
<1>7. GetsOK'
  <2>1. ASSUME NEW d \in Calls, call'[d] \in Fetching  PROVE gets'[Hash(d)] = d
    <3>1. CASE d = c
      BY <1>4, <3>1, HashTyped
    <3>2. CASE d # c
      <4>1. gets[Hash(d)] = d
        BY <1>3, <2>1, <3>2 DEF GetsOK
      <4> QED  BY <1>1, <1>4, <4>1, HashTyped
    <3> QED  BY <3>1, <3>2
  <2>2. ASSUME NEW h \in Hashes, gets'[h] # None
        PROVE  call'[gets'[h]] \in Fetching /\ Hash(gets'[h]) = h
    <3>1. CASE h = Hash(c)
      BY <1>2, <1>3, <1>4, <3>1 DEF Fetching
    <3>2. CASE h # Hash(c)
      <4>1. gets[h] \in Calls /\ call[gets[h]] \in Fetching /\ Hash(gets[h]) = h
        BY <1>4, <2>2, <3>2 DEF TypeOK, GetsOK
      <4> QED  BY <1>3, <1>4, <3>2, <4>1
    <3> QED  BY <3>1, <3>2
  <2>3. ASSUME NEW d \in Calls, call'[d] = "joined"
        PROVE  leader'[d] # None /\ gets'[Hash(d)] = leader'[d]
    <3>1. call[d] = "joined"
      BY <1>2, <1>3, <2>3
    <3>2. leader[d] # None /\ gets[Hash(d)] = leader[d]
      BY <3>1 DEF GetsOK
    <3> QED  BY <1>1, <1>4, <3>2, HashTyped
  <2> QED  BY <2>1, <2>2, <2>3 DEF GetsOK, Hash
<1>8. EntriesOK'
  <2>1. \A k \in Keys : entry[k] # None => entry[k] \in Calls /\ entry[k] # c
    BY <1>1 DEF TypeOK, EntriesOK
  <2> QED  BY <1>1, <1>3, <2>1 DEF EntriesOK
<1>9. LoopsOK' /\ AskedOnce'
  BY <1>1, <1>5, AskWaveFacts, LoopsKept
<1> QED  BY <1>6, <1>7, <1>8, <1>9

(* The query of a fetch goes on. *)
LEMMA QueryInv ==
    ASSUME ReadsInv, NEW c \in Calls, NextWave(c) \/ \E p \in Peers : QueryMiss(c, p)
    PROVE  ReadsInv'
<1> USE DEF ReadsInv
<1>1. UNCHANGED <<running, connected, local, call, leader, gets, entry, members, loops>>
  BY DEF NextWave, QueryMiss
<1>2. /\ left' \in [Calls -> SUBSET Peers] /\ asked' \in [Calls -> SUBSET Peers]
      /\ tried' \in [Calls -> SUBSET Peers]
      /\ \A a \in Calls : tried[a] \subseteq tried'[a]
  <2>1. CASE NextWave(c)
    <3>1. AskWave(c, left[c]) /\ left[c] \in SUBSET Peers
      BY <2>1 DEF NextWave, TypeOK
    <3> QED  BY <3>1, AskWaveFacts
  <2>2. CASE \E p \in Peers : QueryMiss(c, p)
    BY <2>2 DEF QueryMiss, TypeOK
  <2> QED  BY <2>1, <2>2
<1>3. TypeOK'
  BY <1>1, <1>2 DEF TypeOK
<1>4. GetsOK' /\ EntriesOK'
  BY <1>1 DEF GetsOK, EntriesOK, Hash
<1>5. LoopsOK' /\ AskedOnce'
  BY <1>1, <1>2, LoopsKept
<1> QED  BY <1>3, <1>4, <1>5

(* A fetch ends without having waited. *)
LEMMA EndsInv ==
    ASSUME ReadsInv, NEW c \in Calls,
           FallbackHit(c) \/ FallbackMiss(c) \/ \E p \in Peers : QueryHit(c, p)
    PROVE  ReadsInv'
<1> USE DEF ReadsInv
<1>1. /\ call[c] \in Fetching /\ call[c] # "waiting" /\ local' \subseteq Hashes
      /\ UNCHANGED <<running, connected, leader, fetch, entry, members, loops>>
  BY HashTyped DEF FallbackHit, FallbackMiss, QueryHit, Fetching, TypeOK
<1>2. PICK v \in {"data", "null"} : Finish({c}, v)
  BY DEF FallbackHit, FallbackMiss, QueryHit
<1>3. TypeOK'
  BY <1>1, <1>2, FinishTyped DEF TypeOK, fetch
<1>4. GetsOK'
  BY <1>1, <1>2, FinishGets
<1>5. EntriesOK'
  <2>1. \A k \in Keys : entry'[k] # None => entry'[k] = entry[k] /\ entry[k] \notin {c}
    BY <1>1 DEF EntriesOK
  <2> QED  BY <1>1, <1>2, <2>1, FinishEntries
<1>6. LoopsOK' /\ AskedOnce'
  BY <1>1, LoopsKept DEF fetch
<1> QED  BY <1>3, <1>4, <1>5, <1>6

-----------------------------------------------------------------------------
(* A loop that goes on to a peer its request is not marked with, and marks it,
   is the only one with that peer. *)
LEMMA NewLoop ==
    ASSUME TypeOK, LoopsOK, AskedOnce, NEW L \in SUBSET loops, NEW n \in Loop,
           \A a \in Calls : tried[a] \subseteq tried'[a],
           n.peer \notin tried[n.array], n.peer \in tried'[n.array], KeyOf[n.array] = n.key,
           loops' = L \cup {n}
    PROVE  loops' \subseteq Loop /\ LoopsOK' /\ AskedOnce'
<1>1. \A l \in loops : l \in Loop /\ l.array \in Calls /\ l.peer \in tried[l.array]
  BY DEF TypeOK, Loop, LoopsOK
<1>2. loops' \subseteq Loop
  BY <1>1
<1>3. LoopsOK'
  BY <1>1 DEF LoopsOK
<1>4. AskedOnce'
  BY <1>1 DEF AskedOnce
<1> QED  BY <1>2, <1>3, <1>4

(* An array with an unmarked request has that of the call it is named after. *)
LEMMA UntriedSelf ==
    ASSUME EntriesOK, NEW a \in Calls, NEW p \in Peers, Untried(a, p) # {}
    PROVE  a \in Untried(a, p) /\ p \notin tried[a]
  BY DEF EntriesOK, Untried

(* Marking the requests of an array only adds marks, and marks its own request. *)
LEMMA MarkedFacts ==
    ASSUME TypeOK, EntriesOK, NEW a \in Calls, NEW p \in Peers, Untried(a, p) # {},
           tried' = Marked(a, p)
    PROVE  /\ tried' \in [Calls -> SUBSET Peers]
           /\ \A b \in Calls : tried[b] \subseteq tried'[b]
           /\ p \in tried'[a]
<1>1. a \in Untried(a, p)
  BY UntriedSelf
<1> QED  BY <1>1 DEF TypeOK, Marked

(* The turn of a loop. *)
LEMMA GoOnFacts ==
    ASSUME TypeOK, EntriesOK, LoopsOK, AskedOnce, NEW l \in loops,
           NEW es \in [Keys -> Calls \cup {None}],
           \A k \in Keys : es[k] # None => KeyOf[es[k]] = k,
           GoOn(l, NextAwaits(l, es))
    PROVE  /\ tried' \in [Calls -> SUBSET Peers] /\ loops' \subseteq Loop
           /\ LoopsOK' /\ AskedOnce'
<1>1. CASE loops' = loops \ {l} /\ UNCHANGED tried
  BY <1>1 DEF TypeOK, LoopsOK, AskedOnce
<1>2. CASE \E n \in NextAwaits(l, es) :
             loops' = (loops \ {l}) \cup {n} /\ tried' = Marked(n.array, n.peer)
  <2>1. PICK n \in NextAwaits(l, es) :
             loops' = (loops \ {l}) \cup {n} /\ tried' = Marked(n.array, n.peer)
    BY <1>2
  <2>2. l \in Loop
    BY DEF TypeOK
  <2>3. n \in Loop /\ Untried(n.array, n.peer) # {} /\ KeyOf[n.array] = n.key
    <3>1. CASE l.kind = "connected"
      <4>1. PICK p \in l.rest : /\ Untried(l.array, p) # {}
                                /\ n = [l EXCEPT !.peer = p, !.rest = @ \ {p}]
        BY <3>1 DEF NextAwaits
      <4> QED  BY <2>2, <4>1 DEF Loop, LoopsOK
    <3>2. CASE l.kind # "connected"
      <4>1. PICK k \in Keys : /\ es[k] # None /\ Untried(es[k], l.peer) # {}
                              /\ n = [l EXCEPT !.key = k, !.array = es[k]]
        BY <3>2 DEF NextAwaits
      <4> QED  BY <2>2, <4>1 DEF Loop
    <3> QED  BY <3>1, <3>2
  <2>4. n.array \in Calls /\ n.peer \in Peers
    BY <2>3 DEF Loop
  <2>5. n.peer \notin tried[n.array]
    BY <2>3, <2>4, UntriedSelf
  <2>6. /\ tried' \in [Calls -> SUBSET Peers] /\ n.peer \in tried'[n.array]
        /\ \A b \in Calls : tried[b] \subseteq tried'[b]
    BY <2>1, <2>3, <2>4, MarkedFacts
  <2>7. loops \ {l} \in SUBSET loops
    OBVIOUS
  <2> QED  BY <2>1, <2>3, <2>5, <2>6, <2>7, NewLoop
<1> QED  BY <1>1, <1>2 DEF GoOn

(* A request that begins to wait is the first of its array. *)
LEMMA WaitInv ==
    ASSUME ReadsInv, NEW c \in Calls, Wait(c)
    PROVE  ReadsInv'
<1> USE DEF ReadsInv
<1> DEFINE k == KeyOf[c]
           first == {p \in connected : p \notin tried[c]}
<1>0. k \in Keys
  BY HashTyped
<1>1. entry[k] = None
  <2>1. SUFFICES ASSUME entry[k] # None  PROVE FALSE
    OBVIOUS
  <2>2. entry[k] \in Calls /\ call[entry[k]] = "waiting" /\ Hash(entry[k]) = Hash(c)
    BY <1>0, <2>1 DEF TypeOK, EntriesOK, Hash
  <2>3. call[c] = "fallback"
    BY DEF Wait
  <2>4. entry[k] = c
    BY <2>2, <2>3, FetchIsAlone DEF Fetching
  <2> QED  BY <2>2, <2>3, <2>4
<1>2. members[c] \cup {c} = {c}
  BY DEF EntriesOK
<1>3. {p \in connected : \E r \in members[c] \cup {c} : p \notin tried[r]} = first
  BY <1>2
<1>4. /\ call[c] = "fallback" /\ call' = [call EXCEPT ![c] = "waiting"]
      /\ entry' = [entry EXCEPT ![k] = c]
      /\ members' = [members EXCEPT ![c] = {c}]
      /\ UNCHANGED <<running, connected, local, leader, gets, left, asked>>
  BY <1>1, <1>2 DEF Wait
<1>5. \/ UNCHANGED <<tried, loops>>
      \/ \E p \in first :
            /\ tried' = [r \in Calls |-> IF r \in {c} THEN tried[r] \cup {p} ELSE tried[r]]
            /\ loops' = loops \cup {[kind |-> "connected", key |-> k, array |-> c,
                                     peer |-> p, rest |-> connected \ {p}]}
  BY <1>1, <1>2, <1>3 DEF Wait
<1>6. /\ tried' \in [Calls -> SUBSET Peers] /\ loops' \subseteq Loop
      /\ LoopsOK' /\ AskedOnce'
  <2>1. CASE UNCHANGED <<tried, loops>>
    BY <2>1 DEF TypeOK, LoopsOK, AskedOnce
  <2>2. ASSUME NEW p \in first,
               tried' = [r \in Calls |-> IF r \in {c} THEN tried[r] \cup {p} ELSE tried[r]],
               loops' = loops \cup {[kind |-> "connected", key |-> k, array |-> c,
                                     peer |-> p, rest |-> connected \ {p}]}
        PROVE  <1>6!:
    <3> DEFINE n == [kind |-> "connected", key |-> k, array |-> c, peer |-> p,
                     rest |-> connected \ {p}]
    <3>1. p \in Peers /\ p \notin tried[c]
      BY DEF TypeOK
    <3>2. n \in Loop /\ n.peer = p /\ n.array = c /\ KeyOf[n.array] = n.key
      BY <1>0, <3>1 DEF TypeOK, Loop
    <3>3. /\ tried' \in [Calls -> SUBSET Peers] /\ p \in tried'[c]
          /\ \A a \in Calls : tried[a] \subseteq tried'[a]
      BY <2>2, <3>1 DEF TypeOK
    <3>4. loops' = loops \cup {n} /\ loops \in SUBSET loops
      BY <2>2
    <3> HIDE DEF n
    <3> QED  BY <3>1, <3>2, <3>3, <3>4, NewLoop
  <2> QED  BY <1>5, <2>1, <2>2
<1>7. TypeOK'
  <2>1. call' \in [Calls -> {"idle", "local", "missed", "joined", "data", "null"} \cup Fetching]
    BY <1>4 DEF TypeOK, Fetching
  <2>2. entry' \in [Keys -> Calls \cup {None}] /\ members' \in [Calls -> SUBSET Calls]
    BY <1>4 DEF TypeOK
  <2> QED  BY <1>4, <1>6, <2>1, <2>2 DEF TypeOK
<1>8. \A d \in Calls : call'[d] = IF d = c THEN "waiting" ELSE call[d]
  BY <1>4 DEF TypeOK
<1>9. GetsOK'
  <2>1. \A d \in Calls : call'[d] \in Fetching <=> call[d] \in Fetching
    BY <1>4, <1>8 DEF Fetching
  <2>2. \A d \in Calls : call'[d] = "joined" => call[d] = "joined"
    BY <1>8
  <2>3. \A h \in Hashes : gets[h] # None => gets[h] \in Calls
    BY DEF TypeOK
  <2> QED  BY <1>4, <2>1, <2>2, <2>3 DEF GetsOK, Hash
<1>10. EntriesOK'
  <2>1. /\ \A a \in Calls : members'[a] \subseteq {a}
        /\ \A a \in Calls : members[a] \subseteq members'[a]
        /\ c \in members'[c]
    BY <1>4 DEF TypeOK, EntriesOK
  <2>2. \A j \in Keys : entry'[j] = IF j = k THEN c ELSE entry[j]
    BY <1>4 DEF TypeOK
  <2>3. \A j \in Keys : entry[j] # None => entry[j] \in Calls
    BY DEF TypeOK
  <2> QED  BY <1>8, <2>1, <2>2, <2>3 DEF EntriesOK
<1> QED  BY <1>6, <1>7, <1>9, <1>10

(* The timer of a request takes it from the list when it is listed. *)
LEMMA WaitTimeoutInv ==
    ASSUME ReadsInv, NEW c \in Calls, WaitTimeout(c)
    PROVE  ReadsInv'
<1> USE DEF ReadsInv
<1>1. /\ call[c] = "waiting" /\ Unlisted(c) /\ Finish({c}, "null")
      /\ UNCHANGED <<running, connected, local, leader, fetch, loops>>
  BY DEF WaitTimeout
<1>2. call[c] \in Fetching
  BY <1>1 DEF Fetching
<1>3. /\ entry' \in [Keys -> Calls \cup {None}] /\ members' \in [Calls -> SUBSET Calls]
      /\ \A a \in Calls : members'[a] \subseteq {a}
  BY <1>1, HashTyped DEF Unlisted, TypeOK, EntriesOK
<1>4. ASSUME NEW j \in Keys, entry'[j] # None
      PROVE  entry'[j] = entry[j] /\ entry[j] \in Calls
  BY <1>1, <1>4 DEF Unlisted, TypeOK
<1>5. EntriesOK'
  <2>1. ASSUME NEW j \in Keys, entry'[j] # None
        PROVE  /\ call'[entry'[j]] = "waiting" /\ KeyOf[entry'[j]] = j
               /\ entry'[j] \in members'[entry'[j]]
    <3>1. /\ entry'[j] = entry[j] /\ entry[j] \in Calls /\ call[entry[j]] = "waiting"
          /\ KeyOf[entry[j]] = j /\ entry[j] \in members[entry[j]]
      BY <1>4, <2>1 DEF EntriesOK
    <3>2. entry[j] # c
      <4>1. SUFFICES ASSUME entry[j] = c  PROVE FALSE
        OBVIOUS
      <4>2. j = KeyOf[c] /\ members[c] = {c} /\ entry[KeyOf[c]] = c
        BY <3>1, <4>1 DEF EntriesOK
      <4>3. entry' = [entry EXCEPT ![KeyOf[c]] = None]
        BY <1>1, <4>2, HashTyped DEF Unlisted
      <4> QED  BY <2>1, <4>2, <4>3, HashTyped DEF TypeOK
    <3>3. call'[entry[j]] = call[entry[j]]
      BY <1>1, <3>1, <3>2 DEF Finish, Settled, Fetching
    <3>4. entry[j] \in members'[entry[j]]
      BY <1>1, <3>1, <3>2 DEF Unlisted, TypeOK
    <3> QED  BY <3>1, <3>3, <3>4
  <2> QED  BY <1>3, <2>1 DEF EntriesOK
<1>6. TypeOK'
  BY <1>1, <1>3, FinishTyped DEF TypeOK, fetch
<1>7. GetsOK'
  BY <1>1, <1>2, FinishGets
<1>8. LoopsOK' /\ AskedOnce'
  BY <1>1, LoopsKept DEF fetch
<1> QED  BY <1>5, <1>6, <1>7, <1>8

-----------------------------------------------------------------------------
(* A loop whose peer had nothing goes on. *)
LEMMA LoopMissInv ==
    ASSUME ReadsInv, NEW l \in loops, LoopMiss(l)
    PROVE  ReadsInv'
<1> USE DEF ReadsInv
<1>1. /\ GoOn(l, NextAwaits(l, entry))
      /\ UNCHANGED <<running, connected, local, call, leader, gets, left, asked, entry, members>>
  BY DEF LoopMiss
<1>2. /\ entry \in [Keys -> Calls \cup {None}]
      /\ \A k \in Keys : entry[k] # None => KeyOf[entry[k]] = k
  BY DEF TypeOK, EntriesOK
<1>3. /\ tried' \in [Calls -> SUBSET Peers] /\ loops' \subseteq Loop
      /\ LoopsOK' /\ AskedOnce'
  BY <1>1, <1>2, GoOnFacts
<1>4. TypeOK'
  BY <1>1, <1>3 DEF TypeOK
<1>5. GetsOK' /\ EntriesOK'
  BY <1>1 DEF GetsOK, EntriesOK, Hash
<1> QED  BY <1>3, <1>4, <1>5

(* A loop whose peer had the block answers requests of one key, which is not
   listed any more. *)
LEMMA LoopHitInv ==
    ASSUME ReadsInv, NEW l \in loops, LoopHit(l)
    PROVE  ReadsInv'
<1> USE DEF ReadsInv
<1> DEFINE S == {c \in Served(l) : call[c] = "waiting"}
<1>1. /\ local' = local \cup {HashOf[l.key]}
      /\ Finish(S, "data")
      /\ entry' = [entry EXCEPT ![l.key] = None]
      /\ IF l.kind = "connected" THEN loops' = loops \ {l} /\ UNCHANGED tried
                                 ELSE GoOn(l, NextAwaits(l, entry'))
      /\ UNCHANGED <<running, connected, leader, left, asked, members>>
  BY DEF LoopHit
<1>2. l \in Loop /\ l.key \in Keys /\ l.array \in Calls /\ KeyOf[l.array] = l.key
  BY DEF TypeOK, Loop, LoopsOK
<1>3. \A c \in Served(l) : c \in Calls /\ KeyOf[c] = l.key
  <2>1. CASE l.kind = "arrived"
    BY <1>2, <2>1 DEF Served, EntriesOK
  <2>2. CASE l.kind # "arrived" /\ entry[l.key] = None
    BY <2>2 DEF Served
  <2>3. CASE l.kind # "arrived" /\ entry[l.key] # None
    BY <1>2, <2>3 DEF Served, EntriesOK, TypeOK
  <2> QED  BY <2>1, <2>2, <2>3
<1>4. S \in SUBSET Calls /\ \A c \in S : call[c] \in Fetching /\ KeyOf[c] = l.key
  BY <1>3 DEF Fetching
<1> HIDE DEF S
<1>5. /\ entry' \in [Keys -> Calls \cup {None}]
      /\ \A k \in Keys : entry'[k] # None => k # l.key /\ entry'[k] = entry[k]
      /\ \A k \in Keys : entry'[k] # None => KeyOf[entry'[k]] = k
  BY <1>1, <1>2 DEF TypeOK, EntriesOK
<1>6. /\ tried' \in [Calls -> SUBSET Peers] /\ loops' \subseteq Loop
      /\ LoopsOK' /\ AskedOnce'
  <2>1. CASE l.kind = "connected"
    BY <1>1, <2>1 DEF TypeOK, LoopsOK, AskedOnce
  <2>2. CASE l.kind # "connected"
    BY <1>1, <1>5, <2>2, GoOnFacts
  <2> QED  BY <2>1, <2>2
<1>7. TypeOK'
  <2>1. local' \subseteq Hashes
    BY <1>1, <1>2, ReadsAssumption DEF TypeOK
  <2> QED  BY <1>1, <1>4, <1>5, <1>6, <2>1, FinishTyped DEF TypeOK
<1>8. GetsOK'
  BY <1>1, <1>4, FinishGets
<1>9. EntriesOK'
  <2>1. \A k \in Keys : entry'[k] # None => entry'[k] = entry[k] /\ entry[k] \notin S
    BY <1>4, <1>5 DEF EntriesOK
  <2> QED  BY <1>1, <1>4, <2>1, FinishEntries
<1> QED  BY <1>6, <1>7, <1>8, <1>9

(* A peer that connects is asked for the block of a listed array. *)
LEMMA ArriveInv ==
    ASSUME ReadsInv, NEW p \in Peers, Arrive(p)
    PROVE  ReadsInv'
<1> USE DEF ReadsInv
<1>1. /\ connected' = connected \cup {p}
      /\ UNCHANGED <<running, local, call, leader, gets, left, asked, entry, members>>
  BY DEF Arrive
<1>2. \/ UNCHANGED <<tried, loops>>
      \/ \E k \in Keys :
            /\ entry[k] # None /\ Untried(entry[k], p) # {}
            /\ tried' = Marked(entry[k], p)
            /\ loops' = loops \cup {[kind |-> "arrived", key |-> k, array |-> entry[k],
                                     peer |-> p, rest |-> {}]}
  BY DEF Arrive
<1>3. /\ tried' \in [Calls -> SUBSET Peers] /\ loops' \subseteq Loop
      /\ LoopsOK' /\ AskedOnce'
  <2>1. CASE UNCHANGED <<tried, loops>>
    BY <2>1 DEF TypeOK, LoopsOK, AskedOnce
  <2>2. ASSUME NEW k \in Keys, entry[k] # None, Untried(entry[k], p) # {},
               tried' = Marked(entry[k], p),
               loops' = loops \cup {[kind |-> "arrived", key |-> k, array |-> entry[k],
                                     peer |-> p, rest |-> {}]}
        PROVE  <1>3!:
    <3> DEFINE n == [kind |-> "arrived", key |-> k, array |-> entry[k], peer |-> p, rest |-> {}]
    <3>1. entry[k] \in Calls /\ KeyOf[entry[k]] = k
      BY <2>2 DEF TypeOK, EntriesOK
    <3>2. p \notin tried[entry[k]]
      BY <2>2, <3>1, UntriedSelf
    <3>3. /\ tried' \in [Calls -> SUBSET Peers] /\ p \in tried'[entry[k]]
          /\ \A b \in Calls : tried[b] \subseteq tried'[b]
      BY <2>2, <3>1, MarkedFacts
    <3>4. n \in Loop /\ n.peer = p /\ n.array = entry[k] /\ KeyOf[n.array] = n.key
      BY <3>1 DEF Loop
    <3>5. loops' = loops \cup {n} /\ loops \in SUBSET loops
      BY <2>2
    <3> HIDE DEF n
    <3> QED  BY <3>2, <3>3, <3>4, <3>5, NewLoop
  <2> QED  BY <1>2, <2>1, <2>2
<1>4. TypeOK'
  BY <1>1, <1>3 DEF TypeOK
<1>5. GetsOK' /\ EntriesOK'
  BY <1>1 DEF GetsOK, EntriesOK, Hash
<1> QED  BY <1>3, <1>4, <1>5

(* What else happens around the store leaves its reads alone. *)
LEMMA SurroundingsInv ==
    ASSUME ReadsInv,
           \/ \E p \in Peers : Depart(p)
           \/ Stop \/ Start
           \/ \E h \in Hashes : Put(h) \/ Delete(h)
    PROVE  ReadsInv'
<1> USE DEF ReadsInv
<1>1. UNCHANGED <<call, leader, gets, fetch, entry, members, loops>>
  BY DEF Depart, Stop, Start, Put, Delete
<1>2. running' \in BOOLEAN /\ connected' \subseteq Peers /\ local' \subseteq Hashes
  BY DEF Depart, Stop, Start, Put, Delete, TypeOK
<1> QED  BY <1>1, <1>2 DEF TypeOK, GetsOK, EntriesOK, LoopsOK, AskedOnce, fetch, Hash

-----------------------------------------------------------------------------
(* The first state keeps the invariant. *)
LEMMA InitInv == Init => ReadsInv
  BY DEF Init, ReadsInv, TypeOK, GetsOK, EntriesOK, LoopsOK, AskedOnce, Fetching

(* Every step keeps the invariant. *)
LEMMA StepInv == ReadsInv /\ [Next]_vars => ReadsInv'
<1> SUFFICES ASSUME ReadsInv, [Next]_vars  PROVE ReadsInv'
  OBVIOUS
<1>1. ASSUME NEW c \in Calls, CallNext(c)  PROVE ReadsInv'
  BY <1>1, CallInv, StartFetchInv, QueryInv, EndsInv, WaitInv, WaitTimeoutInv DEF CallNext
<1>2. ASSUME NEW l \in loops, LoopMiss(l) \/ LoopHit(l)  PROVE ReadsInv'
  BY <1>2, LoopMissInv, LoopHitInv
<1>3. ASSUME NEW p \in Peers, Arrive(p)  PROVE ReadsInv'
  BY <1>3, ArriveInv
<1>4. CASE UNCHANGED vars
  BY <1>4 DEF vars, fetch, ReadsInv, TypeOK, GetsOK, EntriesOK, LoopsOK, AskedOnce, Hash
<1> QED  BY <1>1, <1>2, <1>3, <1>4, SurroundingsInv DEF Next

(* The invariant holds throughout every behaviour of the store. *)
THEOREM Invariance == Spec => []ReadsInv
  BY InitInv, StepInv, PTL DEF Spec

(* The state of the reads is always of its type. *)
THEOREM TypeCorrect == Spec => []TypeOK
<1>1. ReadsInv => TypeOK
  BY DEF ReadsInv
<1> QED  BY <1>1, Invariance, PTL

(* However local reads, fetches and timeouts interleave, pendingGets lets one
   call at a time fetch a hash. *)
THEOREM OneFetchAtATime == Spec => []OneFetchPerHash
<1>1. ReadsInv => OneFetchPerHash
  BY FetchIsAlone DEF ReadsInv, OneFetchPerHash
<1> QED  BY <1>1, Invariance, PTL

(* A call that joined a fetch waits for one that is still going on. *)
THEOREM JoinersWait == Spec => []JoinersHaveLeader
<1>1. ReadsInv => JoinersHaveLeader
  BY HashTyped DEF ReadsInv, GetsOK, JoinersHaveLeader
<1> QED  BY <1>1, Invariance, PTL

(* The two kinds of loops never await one peer for one array at the same time. *)
THEOREM NeverAskedTwice == Spec => []AskedOnce
<1>1. ReadsInv => AskedOnce
  BY DEF ReadsInv
<1> QED  BY <1>1, Invariance, PTL

-----------------------------------------------------------------------------
(* Where a call stands, as Requests sees it. *)
Answer == [c \in Calls |-> IF call[c] \in {"idle", "data", "null"} THEN call[c] ELSE "asked"]

(* The steps of a call that answer nobody else. *)
LEMMA CallPromise ==
    ASSUME TypeOK, NEW c \in Calls,
           \/ Get(c) \/ LocalHit(c) \/ LocalMiss(c) \/ Join(c) \/ StartFetch(c)
           \/ NextWave(c) \/ QueryEnds(c) \/ Wait(c) \/ \E p \in Peers : QueryMiss(c, p)
    PROVE  Asking!Next \/ UNCHANGED Answer
<1>1. CASE Get(c)
  <2>1. Asking!Ask(c)
    BY <1>1 DEF Get, Asking!Ask, TypeOK
  <2> QED  BY <2>1 DEF Asking!Next
<1>2. CASE LocalHit(c)
  <2>1. Asking!Answer({c}, "data")
    BY <1>2 DEF LocalHit, Asking!Answer, TypeOK
  <2> QED  BY <2>1 DEF Asking!Next
<1>3. CASE LocalMiss(c) \/ Join(c) \/ StartFetch(c) \/ QueryEnds(c) \/ Wait(c)
  <2>1. PICK v \in {"missed", "joined", "fallback", "querying", "waiting"} :
          call' = [call EXCEPT ![c] = v] /\ call[c] \in {"local", "missed", "querying", "fallback"}
    BY <1>3 DEF LocalMiss, Join, StartFetch, QueryEnds, Wait
  <2>2. \A d \in Calls : call'[d] = IF d = c THEN v ELSE call[d]
    BY <2>1 DEF TypeOK
  <2>3. ASSUME NEW d \in Calls
        PROVE  (IF call'[d] \in {"idle", "data", "null"} THEN call'[d] ELSE "asked")
               = (IF call[d] \in {"idle", "data", "null"} THEN call[d] ELSE "asked")
    BY <2>1, <2>2
  <2> QED  BY <2>3 DEF Answer
<1>4. CASE NextWave(c) \/ \E p \in Peers : QueryMiss(c, p)
  BY <1>4 DEF NextWave, QueryMiss, Answer
<1> QED  BY <1>1, <1>2, <1>3, <1>4

(* The calls whose fetches end, and those that joined them, are answered alike. *)
LEMMA FinishPromise ==
    ASSUME TypeOK, NEW S \in SUBSET Calls, \A c \in S : call[c] \in Fetching,
           NEW v \in {"data", "null"}, Finish(S, v)
    PROVE  Asking!Next
<1> DEFINE T == S \cup {c \in Calls : call[c] = "joined" /\ leader[c] \in S}
<1>1. T \in SUBSET Calls /\ \A c \in T : call[c] \notin {"idle", "data", "null"}
  BY DEF Fetching
<1>2. call' = [c \in Calls |-> IF c \in T THEN v ELSE call[c]]
  BY DEF Finish, Settled
<1> HIDE DEF T
<1>3. Asking!Answer(T, v)
  <2>1. ASSUME NEW c \in Calls
        PROVE  (IF call'[c] \in {"idle", "data", "null"} THEN call'[c] ELSE "asked")
               = IF c \in T THEN v
                 ELSE (IF call[c] \in {"idle", "data", "null"} THEN call[c] ELSE "asked")
    BY <1>1, <1>2
  <2> QED  BY <1>1, <2>1 DEF Asking!Answer
<1> QED  BY <1>1, <1>3 DEF Asking!Next

(* Every step of the store is a step of Requests or changes no answer. *)
LEMMA StepPromise == ReadsInv /\ [Next]_vars => Asking!Next \/ UNCHANGED Answer
<1> SUFFICES ASSUME ReadsInv, [Next]_vars  PROVE Asking!Next \/ UNCHANGED Answer
  OBVIOUS
<1> USE DEF ReadsInv
<1>1. ASSUME NEW c \in Calls, CallNext(c)  PROVE Asking!Next \/ UNCHANGED Answer
  <2>1. CASE FallbackHit(c) \/ FallbackMiss(c) \/ WaitTimeout(c) \/ \E p \in Peers : QueryHit(c, p)
    <3>1. /\ call[c] \in Fetching
          /\ Finish({c}, "data") \/ Finish({c}, "null")
      BY <2>1 DEF FallbackHit, FallbackMiss, WaitTimeout, QueryHit, Fetching
    <3> QED  BY <3>1, FinishPromise
  <2> QED  BY <1>1, <2>1, CallPromise DEF CallNext
<1>2. ASSUME NEW l \in loops, LoopHit(l)  PROVE Asking!Next
  <2> DEFINE S == {c \in Served(l) : call[c] = "waiting"}
  <2>1. Served(l) \subseteq Calls
    BY DEF Served, TypeOK, Loop
  <2>2. S \in SUBSET Calls /\ \A c \in S : call[c] \in Fetching
    BY <2>1 DEF Fetching
  <2>3. Finish(S, "data")
    BY <1>2 DEF LoopHit
  <2> QED  BY <2>2, <2>3, FinishPromise
<1>3. CASE \/ \E l \in loops : LoopMiss(l)
           \/ \E p \in Peers : Arrive(p) \/ Depart(p)
           \/ Stop \/ Start
           \/ \E h \in Hashes : Put(h) \/ Delete(h)
  BY <1>3 DEF LoopMiss, Arrive, Depart, Stop, Start, Put, Delete, Answer
<1>4. CASE UNCHANGED vars
  BY <1>4 DEF vars, Answer
<1> QED  BY <1>1, <1>2, <1>3, <1>4 DEF Next

(* get() keeps the promise of Requests: every call is answered at most once,
   never before it is made, and calls that share a fetch get one answer. *)
THEOREM PromiseKept == Spec => KeepsPromise
<1>1. Init => Asking!Init
  BY DEF Init, Asking!Init
<1>2. ReadsInv /\ [Next]_vars => [Asking!Next]_Answer
  BY StepPromise
<1> QED  BY <1>1, <1>2, Invariance, PTL DEF Spec, KeepsPromise, Asking!Spec, Answer

=============================================================================
