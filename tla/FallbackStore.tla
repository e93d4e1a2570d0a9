--------------------------- MODULE FallbackStore ----------------------------
(***************************************************************************)
(* The store with fallbacks (packages/hashtree/src/store/fallback.ts): a   *)
(* get reads the primary store and, on a miss, all fallbacks at once, each *)
(* against a timeout.  Equal hashes share one load.  Whatever a fallback   *)
(* returns is written to the primary, also when it comes after the timeout *)
(* and nobody waits for it.                                                *)
(*                                                                         *)
(* A load is named after the call that started it.  Errors of a fallback   *)
(* count as null.                                                          *)
(***************************************************************************)
EXTENDS Naturals, FiniteSets

CONSTANTS
    Calls,      \* calls of get()
    Hashes,
    HashOf,     \* [Calls -> Hashes]
    Fallbacks,
    None

ASSUME FallbackAssumption ==
    /\ HashOf \in [Calls -> Hashes]
    /\ None \notin Calls

VARIABLES
    primary,    \* hashes in the primary store
    fallbacks,  \* the fallbacks configured now
    call,       \* where a call stands
    load,       \* the load a call waits for
    inflight,   \* inflightReads
    fetch,      \* what became of the read of a fallback for a load
    late,       \* fetches whose timeout has run out
    failed      \* writes to the primary that were refused

vars == <<primary, fallbacks, call, load, inflight, fetch, late, failed>>

-----------------------------------------------------------------------------
Answered == {"data", "null"}

(* A call that waits has a load, which is the one in flight for its hash
   until it is answered; a hash has at most one load in flight. *)
TypeOK ==
    /\ primary \subseteq Hashes /\ fallbacks \subseteq Fallbacks
    /\ call \in [Calls -> {"idle", "primary", "missed", "waiting"} \cup Answered]
    /\ load \in [Calls -> Calls \cup {None}]
    /\ inflight \in [Hashes -> Calls \cup {None}]
    /\ fetch \in [Calls \X Fallbacks -> {"none", "pending", "null", "writing", "kept"}]
    /\ late \subseteq Calls \X Fallbacks /\ failed \subseteq Calls \X Fallbacks
    /\ \A c \in Calls : call[c] = "waiting" =>
          load[c] # None /\ inflight[HashOf[c]] = load[c] /\ HashOf[load[c]] = HashOf[c]
    /\ \A h \in Hashes : inflight[h] # None => call[inflight[h]] = "waiting"

Init ==
    /\ primary = {} /\ fallbacks = Fallbacks
    /\ call = [c \in Calls |-> "idle"]
    /\ load = [c \in Calls |-> None]
    /\ inflight = [h \in Hashes |-> None]
    /\ fetch = [f \in Calls \X Fallbacks |-> "none"]
    /\ late = {} /\ failed = {}

-----------------------------------------------------------------------------
Get(c) ==
    /\ call[c] = "idle"
    /\ call' = [call EXCEPT ![c] = "primary"]
    /\ UNCHANGED <<primary, fallbacks, load, inflight, fetch, late, failed>>

PrimaryHit(c) ==
    /\ call[c] = "primary" /\ HashOf[c] \in primary
    /\ call' = [call EXCEPT ![c] = "data"]
    /\ UNCHANGED <<primary, fallbacks, load, inflight, fetch, late, failed>>

(* The primary has read that the block is not there; the call resumes later. *)
PrimaryMiss(c) ==
    /\ call[c] = "primary" /\ HashOf[c] \notin primary
    /\ call' = [call EXCEPT ![c] = "missed"]
    /\ UNCHANGED <<primary, fallbacks, load, inflight, fetch, late, failed>>

NoFallbacks(c) ==
    /\ call[c] = "missed" /\ fallbacks = {}
    /\ call' = [call EXCEPT ![c] = "null"]
    /\ UNCHANGED <<primary, fallbacks, load, inflight, fetch, late, failed>>

(* Mutant: the load is not entered in inflightReads. *)
LoadUnlisted(c) ==
    /\ call[c] = "missed" /\ fallbacks # {}
    /\ call' = [call EXCEPT ![c] = "waiting"]
    /\ load' = [load EXCEPT ![c] = c]
    /\ fetch' = [f \in Calls \X Fallbacks |->
                    IF f[1] = c /\ f[2] \in fallbacks THEN "pending" ELSE fetch[f]]
    /\ UNCHANGED <<primary, fallbacks, inflight, late, failed>>

(* loadFromFallbacks() reads the fallbacks that are configured now. *)
Load(c) ==
    /\ call[c] = "missed" /\ fallbacks # {}
    /\ inflight[HashOf[c]] = None
    /\ call' = [call EXCEPT ![c] = "waiting"]
    /\ load' = [load EXCEPT ![c] = c]
    /\ inflight' = [inflight EXCEPT ![HashOf[c]] = c]
    /\ fetch' = [f \in Calls \X Fallbacks |->
                    IF f[1] = c /\ f[2] \in fallbacks THEN "pending" ELSE fetch[f]]
    /\ UNCHANGED <<primary, fallbacks, late, failed>>

Join(c) ==
    /\ call[c] = "missed" /\ fallbacks # {}
    /\ inflight[HashOf[c]] # None
    /\ call' = [call EXCEPT ![c] = "waiting"]
    /\ load' = [load EXCEPT ![c] = inflight[HashOf[c]]]
    /\ UNCHANGED <<primary, fallbacks, inflight, fetch, late, failed>>

-----------------------------------------------------------------------------
(* Load l, if it is still in flight, answers its calls with v. *)
Finish(l, v) ==
    /\ call' = [c \in Calls |-> IF call[c] = "waiting" /\ load[c] = l THEN v ELSE call[c]]
    /\ inflight' = [h \in Hashes |-> IF inflight[h] = l THEN None ELSE inflight[h]]

Running(l) == inflight[HashOf[l]] = l

(* The reads of load l that are still raced against their timeout. *)
Racing(l) == {s \in Fallbacks : fetch[<<l, s>>] = "pending" /\ <<l, s>> \notin late}

(* A fallback returns null, or its timeout runs out; null needs all of them. *)
LastNull(l, s) ==
    IF Running(l) /\ Racing(l) \subseteq {s} THEN Finish(l, "null")
    ELSE UNCHANGED <<call, inflight>>

FetchNull(l, s) ==
    /\ fetch[<<l, s>>] = "pending"
    /\ fetch' = [fetch EXCEPT ![<<l, s>>] = "null"]
    /\ IF <<l, s>> \in late THEN UNCHANGED <<call, inflight>> ELSE LastNull(l, s)
    /\ UNCHANGED <<primary, fallbacks, load, late, failed>>

(* Mutant: a timeout does not end the wait for a fallback that hangs. *)
TimeoutIgnored(l, s) ==
    /\ s \in Racing(l)
    /\ late' = late \cup {<<l, s>>}
    /\ UNCHANGED <<primary, fallbacks, call, load, inflight, fetch, failed>>

Timeout(l, s) ==
    /\ s \in Racing(l)
    /\ late' = late \cup {<<l, s>>}
    /\ LastNull(l, s)
    /\ UNCHANGED <<primary, fallbacks, load, fetch, failed>>

(* Data answers at once when it is in time, and is written to the primary in
   any case; nobody waits for the write. *)
FetchData(l, s) ==
    /\ fetch[<<l, s>>] = "pending"
    /\ fetch' = [fetch EXCEPT ![<<l, s>>] = "writing"]
    /\ IF Running(l) /\ <<l, s>> \notin late THEN Finish(l, "data")
       ELSE UNCHANGED <<call, inflight>>
    /\ UNCHANGED <<primary, fallbacks, load, late, failed>>

(* Mutant: only the data that wins the race is kept. *)
WrittenInTime(l, s) ==
    /\ fetch[<<l, s>>] = "writing"
    /\ fetch' = [fetch EXCEPT ![<<l, s>>] = "kept"]
    /\ primary' = IF <<l, s>> \in late THEN primary ELSE primary \cup {HashOf[l]}
    /\ UNCHANGED <<fallbacks, call, load, inflight, late, failed>>

Written(l, s) ==
    /\ fetch[<<l, s>>] = "writing"
    /\ fetch' = [fetch EXCEPT ![<<l, s>>] = "kept"]
    /\ primary' = primary \cup {HashOf[l]}
    /\ UNCHANGED <<fallbacks, call, load, inflight, late, failed>>

WriteFails(l, s) ==
    /\ fetch[<<l, s>>] = "writing"
    /\ fetch' = [fetch EXCEPT ![<<l, s>>] = "kept"]
    /\ failed' = failed \cup {<<l, s>>}
    /\ UNCHANGED <<primary, fallbacks, call, load, inflight, late>>

-----------------------------------------------------------------------------
Put(h) ==
    /\ h \notin primary
    /\ primary' = primary \cup {h}
    /\ UNCHANGED <<fallbacks, call, load, inflight, fetch, late, failed>>

Delete(h) ==
    /\ h \in primary
    /\ primary' = primary \ {h}
    /\ UNCHANGED <<fallbacks, call, load, inflight, fetch, late, failed>>

AddFallback(s) ==
    /\ s \notin fallbacks
    /\ fallbacks' = fallbacks \cup {s}
    /\ UNCHANGED <<primary, call, load, inflight, fetch, late, failed>>

RemoveFallback(s) ==
    /\ s \in fallbacks
    /\ fallbacks' = fallbacks \ {s}
    /\ UNCHANGED <<primary, call, load, inflight, fetch, late, failed>>

-----------------------------------------------------------------------------
Resume(c) == PrimaryHit(c) \/ PrimaryMiss(c) \/ NoFallbacks(c) \/ Load(c) \/ Join(c)
Write(l, s) == Written(l, s) \/ WriteFails(l, s)

Next ==
    \/ \E c \in Calls : Get(c) \/ Resume(c)
    \/ \E l \in Calls, s \in Fallbacks :
          FetchNull(l, s) \/ FetchData(l, s) \/ Timeout(l, s) \/ Write(l, s)
    \/ \E h \in Hashes : Put(h) \/ Delete(h)
    \/ \E s \in Fallbacks : AddFallback(s) \/ RemoveFallback(s)

Spec == Init /\ [][Next]_vars

(* The primary store answers and timers run out; a fallback may hang. *)
FairSpec ==
    /\ Spec
    /\ \A c \in Calls : WF_vars(Resume(c))
    /\ \A l \in Calls, s \in Fallbacks : WF_vars(Timeout(l, s)) /\ WF_vars(Write(l, s))

-----------------------------------------------------------------------------
(****************************** Properties *********************************)

(* Every get is answered, though fallbacks hang, are removed or added
   meanwhile, and though the load it joined was started by another call. *)
GetsSettle == \A c \in Calls : call[c] = "primary" ~> call[c] \in Answered

(* Whatever a fallback returned, in time or late, comes to be in the primary,
   unless the primary refused it: also when it is deleted meanwhile. *)
LateDataIsCached ==
    \A l \in Calls, s \in Fallbacks :
       fetch[<<l, s>>] = "writing" ~> HashOf[l] \in primary \/ <<l, s>> \in failed

=============================================================================
