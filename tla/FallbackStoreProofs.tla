------------------------- MODULE FallbackStoreProofs -------------------------
(***************************************************************************)
(* Proofs about FallbackStore, for any sets of calls, hashes and           *)
(* fallbacks.                                                              *)
(***************************************************************************)
EXTENDS FallbackStore, TLAPS

(* What is in flight for a hash is a load of that hash. *)
InflightOK == \A h \in Hashes : inflight[h] # None => HashOf[inflight[h]] = h

FallbackInv == TypeOK /\ InflightOK

-----------------------------------------------------------------------------
(* The load in flight for a hash was started by a call that waits for itself. *)
LEMMA LoadsWait ==
    ASSUME FallbackInv, NEW h \in Hashes, inflight[h] # None
    PROVE  /\ inflight[h] \in Calls
           /\ HashOf[inflight[h]] = h
           /\ call[inflight[h]] = "waiting"
           /\ load[inflight[h]] = inflight[h]
<1>1. inflight[h] \in Calls /\ HashOf[inflight[h]] = h /\ call[inflight[h]] = "waiting"
  BY DEF FallbackInv, TypeOK, InflightOK
<1>2. inflight[HashOf[inflight[h]]] = load[inflight[h]]
  BY <1>1 DEF FallbackInv, TypeOK
<1> QED  BY <1>1, <1>2

(* Ending a load answers exactly the calls that wait for it. *)
LEMMA FinishInv ==
    ASSUME FallbackInv, NEW l \in Calls, NEW v \in Answered, Finish(l, v),
           fetch' \in [Calls \X Fallbacks -> {"none", "pending", "null", "writing", "kept"}],
           late' \subseteq Calls \X Fallbacks,
           UNCHANGED <<primary, fallbacks, load, failed>>
    PROVE  FallbackInv'
<1>1. /\ call' \in [Calls -> {"idle", "primary", "missed", "waiting"} \cup Answered]
      /\ inflight' \in [Hashes -> Calls \cup {None}]
  BY DEF Finish, FallbackInv, TypeOK
<1>2. \A c \in Calls : call'[c] = IF call[c] = "waiting" /\ load[c] = l THEN v ELSE call[c]
  BY DEF Finish
<1>3. \A h \in Hashes : inflight'[h] = IF inflight[h] = l THEN None ELSE inflight[h]
  BY DEF Finish
<1>4. ASSUME NEW c \in Calls, call'[c] = "waiting"
      PROVE  /\ load'[c] # None /\ inflight'[HashOf[c]] = load'[c]
             /\ HashOf[load'[c]] = HashOf[c]
  <2>1. call[c] = "waiting" /\ load[c] # l
    BY <1>2, <1>4 DEF Answered
  <2>2. HashOf[c] \in Hashes
    BY FallbackAssumption
  <2> QED  BY <1>3, <2>1, <2>2 DEF FallbackInv, TypeOK
<1>5. ASSUME NEW h \in Hashes, inflight'[h] # None
      PROVE  call'[inflight'[h]] = "waiting" /\ HashOf[inflight'[h]] = h
  <2>1. inflight[h] # None /\ inflight[h] # l /\ inflight'[h] = inflight[h]
    BY <1>3, <1>5
  <2> QED  BY <1>2, <2>1, LoadsWait
<1> QED  BY <1>1, <1>4, <1>5 DEF FallbackInv, TypeOK, InflightOK

(* Steps of a call: it waits only for the load in flight for its hash. *)
LEMMA CallInv ==
    ASSUME FallbackInv, NEW c \in Calls, Get(c) \/ Resume(c)
    PROVE  FallbackInv'
<1>1. HashOf[c] \in Hashes /\ c # None
  BY FallbackAssumption
<1>2. \A d \in Calls : HashOf[d] \in Hashes
  BY FallbackAssumption
<1>3. call[c] # "waiting"
  BY DEF Get, Resume, PrimaryHit, PrimaryMiss, NoFallbacks, Load, Join
<1>4. \A h \in Hashes : inflight[h] # None => inflight[h] # c
  BY <1>3, LoadsWait
<1>5. ASSUME NEW s \in {"primary", "missed", "data", "null"}, call' = [call EXCEPT ![c] = s],
             UNCHANGED <<primary, fallbacks, load, inflight, fetch, late, failed>>
      PROVE  FallbackInv'
  <2>1. \A d \in Calls : call'[d] = IF d = c THEN s ELSE call[d]
    BY <1>5 DEF FallbackInv, TypeOK
  <2>2. call' \in [Calls -> {"idle", "primary", "missed", "waiting"} \cup Answered]
    BY <1>5 DEF FallbackInv, TypeOK, Answered
  <2> QED  BY <1>4, <1>5, <2>1, <2>2 DEF FallbackInv, TypeOK, InflightOK
<1>6. CASE Get(c) \/ PrimaryHit(c) \/ PrimaryMiss(c) \/ NoFallbacks(c)
  BY <1>5, <1>6 DEF Get, PrimaryHit, PrimaryMiss, NoFallbacks
<1>7. CASE Load(c)
  <2>1. /\ \A d \in Calls : call'[d] = IF d = c THEN "waiting" ELSE call[d]
        /\ \A d \in Calls : load'[d] = IF d = c THEN c ELSE load[d]
        /\ \A h \in Hashes : inflight'[h] = IF h = HashOf[c] THEN c ELSE inflight[h]
        /\ inflight[HashOf[c]] = None
    BY <1>1, <1>7 DEF Load, FallbackInv, TypeOK
  <2>2. /\ call' \in [Calls -> {"idle", "primary", "missed", "waiting"} \cup Answered]
        /\ load' \in [Calls -> Calls \cup {None}]
        /\ inflight' \in [Hashes -> Calls \cup {None}]
        /\ fetch' \in [Calls \X Fallbacks -> {"none", "pending", "null", "writing", "kept"}]
        /\ UNCHANGED <<primary, fallbacks, late, failed>>
    BY <1>1, <1>7 DEF Load, FallbackInv, TypeOK
  <2>3. \A d \in Calls : call'[d] = "waiting" =>
          /\ load'[d] # None /\ inflight'[HashOf[d]] = load'[d]
          /\ HashOf[load'[d]] = HashOf[d]
    BY <1>1, <1>2, <2>1 DEF FallbackInv, TypeOK
  <2>4. \A h \in Hashes : inflight'[h] # None =>
          call'[inflight'[h]] = "waiting" /\ HashOf[inflight'[h]] = h
    BY <1>1, <1>4, <2>1, LoadsWait
  <2> QED  BY <2>2, <2>3, <2>4 DEF FallbackInv, TypeOK, InflightOK
<1>8. CASE Join(c)
  <2>1. /\ \A d \in Calls : call'[d] = IF d = c THEN "waiting" ELSE call[d]
        /\ \A d \in Calls : load'[d] = IF d = c THEN inflight[HashOf[c]] ELSE load[d]
        /\ inflight[HashOf[c]] # None
        /\ UNCHANGED <<primary, fallbacks, inflight, fetch, late, failed>>
    BY <1>8 DEF Join, FallbackInv, TypeOK
  <2>2. /\ call' \in [Calls -> {"idle", "primary", "missed", "waiting"} \cup Answered]
        /\ load' \in [Calls -> Calls \cup {None}]
    BY <1>1, <1>8 DEF Join, FallbackInv, TypeOK
  <2>3. HashOf[inflight[HashOf[c]]] = HashOf[c]
    BY <1>1, <2>1, LoadsWait
  <2>4. \A d \in Calls : call'[d] = "waiting" =>
          /\ load'[d] # None /\ inflight'[HashOf[d]] = load'[d]
          /\ HashOf[load'[d]] = HashOf[d]
    BY <2>1, <2>3 DEF FallbackInv, TypeOK
  <2>5. \A h \in Hashes : inflight'[h] # None =>
          call'[inflight'[h]] = "waiting" /\ HashOf[inflight'[h]] = h
    BY <1>4, <2>1, LoadsWait
  <2> QED  BY <2>1, <2>2, <2>4, <2>5 DEF FallbackInv, TypeOK, InflightOK
<1> QED  BY <1>6, <1>7, <1>8 DEF Resume

(* Steps of a fallback: an answer or a timeout ends a load or none. *)
LEMMA FetchInv ==
    ASSUME FallbackInv, NEW l \in Calls, NEW s \in Fallbacks,
           FetchNull(l, s) \/ FetchData(l, s) \/ Timeout(l, s)
    PROVE  FallbackInv'
<1>1. <<l, s>> \in Calls \X Fallbacks
  OBVIOUS
<1>2. /\ fetch' \in [Calls \X Fallbacks -> {"none", "pending", "null", "writing", "kept"}]
      /\ late' \subseteq Calls \X Fallbacks
      /\ UNCHANGED <<primary, fallbacks, load, failed>>
  BY <1>1 DEF FetchNull, FetchData, Timeout, FallbackInv, TypeOK
<1>3. \/ UNCHANGED <<call, inflight>>
      \/ \E v \in Answered : Finish(l, v)
  BY DEF FetchNull, FetchData, Timeout, LastNull, Answered
<1>4. CASE UNCHANGED <<call, inflight>>
  BY <1>2, <1>4 DEF FallbackInv, TypeOK, InflightOK
<1> QED  BY <1>2, <1>3, <1>4, FinishInv

(* Every step keeps the invariant. *)
LEMMA StepInv == FallbackInv /\ [Next]_vars => FallbackInv'
<1> SUFFICES ASSUME FallbackInv, [Next]_vars  PROVE FallbackInv'
  OBVIOUS
<1>1. ASSUME NEW l \in Calls, NEW s \in Fallbacks, Write(l, s)  PROVE FallbackInv'
  <2>1. <<l, s>> \in Calls \X Fallbacks /\ HashOf[l] \in Hashes
    BY FallbackAssumption
  <2> QED  BY <1>1, <2>1 DEF Write, Written, WriteFails, FallbackInv, TypeOK, InflightOK
<1>2. CASE \/ \E h \in Hashes : Put(h) \/ Delete(h)
           \/ \E s \in Fallbacks : AddFallback(s) \/ RemoveFallback(s)
  BY <1>2 DEF Put, Delete, AddFallback, RemoveFallback, FallbackInv, TypeOK, InflightOK
<1>3. CASE UNCHANGED vars
  BY <1>3 DEF vars, FallbackInv, TypeOK, InflightOK
<1> QED  BY <1>1, <1>2, <1>3, CallInv, FetchInv DEF Next

(* Nothing is in flight at first. *)
LEMMA InitInv == Init => FallbackInv
  BY DEF Init, FallbackInv, TypeOK, InflightOK

(* However loads, timeouts and late answers interleave, a call that waits has
   the load in flight for its hash, and no hash has two (fallback.ts 68-81). *)
THEOREM TypeCorrect == Spec => []TypeOK
<1>1. FallbackInv => TypeOK
  BY DEF FallbackInv
<1> QED  BY <1>1, InitInv, StepInv, PTL DEF Spec

=============================================================================
