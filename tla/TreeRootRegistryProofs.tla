----------------------- MODULE TreeRootRegistryProofs -----------------------
(***************************************************************************)
(* Proofs about TreeRootRegistry and, at the end, TreeRootSubscribers, for *)
(* any sets of trees, roots, keys, labels, listeners and callers and every *)
(* bound.                                                                  *)
(***************************************************************************)
EXTENDS TreeRootSubscribers, TLAPS

-----------------------------------------------------------------------------
(* What the rules of TreeRootRecords return. *)

Maybe(S) == S \cup {None}

(* An accepted event leaves a clean record of its own root that no publish holds. *)
LEMMA EventRecordFacts ==
    ASSUME NEW e \in Maybe(Record), NEW h \in Hashes, NEW ts \in Nat, NEW src \in Sources,
           NEW o \in Option, NEW v \in Visibilities
    PROVE  LET r == EventRecord(e, h, ts, src, o, v)
           IN  /\ r \in Record
               /\ r.hash = h /\ r.obj = 0 /\ ~r.dirty /\ r.source = src
  BY RecordsAssumption DEF EventRecord, Record, Option, OrElse, SameHash, KeptLabels, Maybe

(* A local write leaves a dirty record of its own root, numbered by the write. *)
LEMMA LocalRecordFacts ==
    ASSUME NEW e \in Maybe(Record), NEW h \in Hashes, NEW ts \in Nat, NEW o \in Option,
           NEW n \in Nat
    PROVE  LET r == LocalRecord(e, h, ts, o, n)
           IN  /\ r \in Record
               /\ r.hash = h /\ r.obj = n /\ r.dirty
  BY RecordsAssumption DEF LocalRecord, Record, Option, OrElse, SameHash, KeptLabels, Maybe,
     Sources, Visibilities

(* Merging metadata changes neither the root, nor the object, nor who wrote it when. *)
LEMMA MergeFacts ==
    ASSUME NEW e \in Maybe(Record), NEW h \in Hashes, NEW o \in Option
    PROVE  LET m == MergeSameHashMetadata(e, h, o)
           IN  /\ m \in Maybe(Record)
               /\ m # e => /\ e \in Record /\ m \in Record /\ ~e.dirty /\ e.hash = h
                           /\ m.hash = e.hash /\ m.obj = e.obj /\ m.dirty = e.dirty
                           /\ m.source = e.source /\ m.updatedAt = e.updatedAt
  BY RecordsAssumption, ZenonT(30) DEF MergeSameHashMetadata, Record, Option, OrElse, SameHash, Maybe,
     Visibilities

(* A publish in flight keeps its identity when a record is mutated in place. *)
LEMMA SeenByFacts ==
    ASSUME NEW tree \in [Slots -> Maybe(Call)], NEW r \in Record
    PROVE  /\ SeenBy(tree, r) \in [Slots -> Maybe(Call)]
           /\ \A s \in Slots :
                /\ SeenBy(tree, r)[s] = None <=> tree[s] = None
                /\ tree[s] # None =>
                     /\ SeenBy(tree, r)[s].sent = tree[s].sent
                     /\ SeenBy(tree, r)[s].rec.obj = tree[s].rec.obj
                     /\ \/ SeenBy(tree, r)[s].rec = tree[s].rec
                        \/ /\ SeenBy(tree, r)[s].rec = r /\ tree[s].rec.obj = r.obj
                           /\ ~tree[s].sent
<1>1. ASSUME NEW s \in Slots
      PROVE  /\ SeenBy(tree, r)[s] \in Maybe(Call)
             /\ SeenBy(tree, r)[s] = None <=> tree[s] = None
             /\ tree[s] # None =>
                  /\ SeenBy(tree, r)[s].sent = tree[s].sent
                  /\ SeenBy(tree, r)[s].rec.obj = tree[s].rec.obj
                  /\ \/ SeenBy(tree, r)[s].rec = tree[s].rec
                     \/ /\ SeenBy(tree, r)[s].rec = r /\ tree[s].rec.obj = r.obj
                        /\ ~tree[s].sent
  <2>1. CASE tree[s] # None /\ ~tree[s].sent /\ tree[s].rec.obj = r.obj
    <3>1. SeenBy(tree, r)[s] = [tree[s] EXCEPT !.rec = r]
      BY <2>1 DEF SeenBy
    <3>2. tree[s] \in Call
      BY <2>1 DEF Maybe
    <3>3. /\ SeenBy(tree, r)[s] \in Call
          /\ SeenBy(tree, r)[s].rec = r
          /\ SeenBy(tree, r)[s].sent = tree[s].sent
      BY <3>1, <3>2 DEF Call
    <3> QED  BY <2>1, <3>3, RegistryAssumption DEF Maybe
  <2>2. CASE ~(tree[s] # None /\ ~tree[s].sent /\ tree[s].rec.obj = r.obj)
    <3>1. SeenBy(tree, r)[s] = tree[s]
      BY <2>2 DEF SeenBy
    <3> QED  BY <3>1
  <2> QED  BY <2>1, <2>2
<1>2. SeenBy(tree, r) \in [Slots -> Maybe(Call)]
  BY <1>1 DEF SeenBy
<1> QED  BY <1>1, <1>2

-----------------------------------------------------------------------------
(* Type correctness. *)

(* An update of h carries options, and KeysFor has keys only. *)
LEMMA OptionsTyped ==
    \A h \in Hashes : Options(h) \subseteq Option /\ KeysFor[h] \subseteq ContentKeys
  BY RecordsAssumption DEF Options

(* Learn replaces or merges: what both alternatives have in common. *)
LEMMA LearnFacts ==
    ASSUME TypeOK, NEW k \in TreeKeys, NEW h \in Hashes, NEW ts \in Nat, NEW src \in Sources,
           NEW o \in Option, NEW v \in Visibilities, Learn(k, h, ts, src, o, v)
    PROVE  \E r \in Record :
             /\ records' = [records EXCEPT ![k] = r]
             /\ r.hash = h /\ ~r.dirty
             /\ Save(records')
             /\ records[k] # None => ~records[k].dirty
             /\ \/ r.obj = 0 /\ r.source = src /\ UNCHANGED calls
                \/ /\ records[k] # None /\ records[k].hash = h
                   /\ r.obj = records[k].obj /\ r.source = records[k].source
                   /\ calls' = [calls EXCEPT ![k] = SeenBy(@, r)]
<1> DEFINE e == records[k]
           m == MergeSameHashMetadata(e, h, o)
           r == EventRecord(e, h, ts, src, o, v)
<1>1. e \in Maybe(Record)
  BY DEF TypeOK, Maybe
<1>2. CASE ShouldAcceptUpdate(e, h, o.key, ts)
  <2>1. /\ r \in Record
        /\ r.hash = h /\ r.obj = 0 /\ ~r.dirty /\ r.source = src
    BY <1>1, EventRecordFacts
  <2>2. /\ records' = [records EXCEPT ![k] = r]
        /\ UNCHANGED calls
        /\ Save(records')
    BY <1>2 DEF Learn
  <2>3. e # None => ~e.dirty
    BY <1>2 DEF ShouldAcceptUpdate
  <2> HIDE DEF r
  <2> QED  BY <2>1, <2>2, <2>3
<1>3. CASE ~ShouldAcceptUpdate(e, h, o.key, ts)
  <2>1. m # e /\ Mutate(k, m) /\ Save(records')
    BY <1>3 DEF Learn
  <2>2. /\ e \in Record /\ m \in Record /\ ~e.dirty /\ e.hash = h
        /\ m.hash = e.hash /\ m.obj = e.obj /\ m.dirty = e.dirty /\ m.source = e.source
    BY <1>1, <2>1, MergeFacts
  <2>3. e # None
    BY <2>2, RecordsAssumption
  <2> HIDE DEF m
  <2> QED  BY <2>1, <2>2, <2>3 DEF Mutate
<1> QED  BY <1>2, <1>3

(* What saving the map of records leaves in localStorage. *)
LEMMA SaveTyped ==
    ASSUME Save(records')
    PROVE  storage' \in {records', storage} /\ (~QuotaErrors => storage' = records')
  BY DEF Save

(* The actions of Update, with what the parameters of a learnt root may be. *)
LEMMA UpdateCases ==
    ASSUME Update
    PROVE  \E k \in TreeKeys, h \in Hashes :
             \/ \E key \in ContentKeys : MergeKey(k, h, key) /\ key \in KeysFor[h]
             \/ \E o \in Options(h) : SetLocal(k, h, o)
             \/ \E o \in Options(h), ts \in Nat :
                  \/ SetFromResolver(k, h, ts, o)
                  \/ SetFromWorker(k, h, ts, o)
                  \/ SetFromExternal(k, h, ts, o)
<1>1. 0..MaxTime \subseteq Nat
  BY RegistryAssumption
<1> QED  BY <1>1, OptionsTyped DEF Update

(* The three setters for roots learnt from elsewhere are instances of Learn. *)
LEMMA SettersLearn ==
    ASSUME TypeOK, NEW k \in TreeKeys, NEW h \in Hashes, NEW ts \in Nat, NEW o \in Option,
           \/ SetFromResolver(k, h, ts, o)
           \/ SetFromWorker(k, h, ts, o)
           \/ SetFromExternal(k, h, ts, o)
    PROVE  \E src \in Sources \ {"local-write"}, v \in Visibilities : Learn(k, h, ts, src, o, v)
<1>1. (IF records[k] # None THEN records[k].visibility ELSE "public") \in Visibilities
  BY DEF TypeOK, Record, Visibilities
<1>2. {"nostr", "worker", "prefetch"} \subseteq Sources \ {"local-write"}
  BY DEF Sources
<1>3. "public" \in Visibilities
  BY DEF Visibilities
<1> QED  BY <1>1, <1>2, <1>3 DEF SetFromResolver, SetFromWorker, SetFromExternal

(* A call of publishFn is filed under the tree it was made for. *)
LEMMA StartTyped ==
    ASSUME TypeOK, NEW due \in SUBSET TreeKeys, StartPublish(due),
           \A k \in due : records[k] \in Record
    PROVE  calls' \in [TreeKeys -> [Slots -> Maybe(Call)]]
<1>1. PICK slot \in [TreeKeys -> Slots] :
        calls' = [k \in TreeKeys |->
             IF k \in due
             THEN [calls[k] EXCEPT ![slot[k]] = [rec |-> records[k], sent |-> FALSE]]
             ELSE calls[k]]
  BY DEF StartPublish
<1>2. ASSUME NEW k \in due
      PROVE  [rec |-> records[k], sent |-> FALSE] \in Call
  BY <1>2 DEF Call
<1>3. ASSUME NEW k \in TreeKeys  PROVE  calls[k] \in [Slots -> Maybe(Call)]
  BY <1>3 DEF TypeOK, Maybe
<1> QED  BY <1>1, <1>2, <1>3 DEF Maybe

(* An event that is sent has the format of the relays: it goes to a tree of the account. *)
LEMMA EventTyped ==
    ASSUME NEW k \in TreeKeys, NEW r \in Record, account \in Accounts
    PROVE  EventOf(k, r) \in Event
<1>1. k \in Accounts \X TreeNames
  BY RegistryAssumption
<1>2. <<account, k[2]>> \in Accounts \X TreeNames
  BY <1>1
<1> QED  BY <1>2 DEF EventOf, Event, Record

LEMMA NoCallsTyped == NoCalls \in [TreeKeys -> [Slots -> Call \cup {None}]]
<1>1. [s \in Slots |-> None] \in [Slots -> Call \cup {None}]
  OBVIOUS
<1> QED  BY <1>1 DEF NoCalls

LEMMA InitTyped == Init => TypeOK
<1>1. NoRecords \in [TreeKeys -> Record \cup {None}]
  BY DEF NoRecords
<1>2. Init => calls \in [TreeKeys -> [Slots -> Call \cup {None}]]
  BY NoCallsTyped DEF Init
<1>3. Init => /\ records \in [TreeKeys -> Record \cup {None}]
              /\ storage \in [TreeKeys -> Record \cup {None}]
              /\ timers \subseteq TreeKeys /\ published \subseteq Event
              /\ now \in Nat /\ writes \in Nat /\ reloads \in Nat
              /\ users \subseteq Accounts /\ account \in users \cup {None}
  BY <1>1 DEF Init
<1>4. Init => publishFn \in BOOLEAN
  BY DEF Init
<1> QED  BY <1>2, <1>3, <1>4 DEF TypeOK

(* Every step of the registry preserves the types. *)
LEMMA StepTyped == TypeOK /\ [Next]_vars => TypeOK'
<1> SUFFICES ASSUME TypeOK, [Next]_vars  PROVE TypeOK'
  OBVIOUS
<1> USE DEF TypeOK
<1>0. \A k \in TreeKeys, s \in Slots : calls[k][s] # None => calls[k][s] \in Call
  OBVIOUS
<1>1. CASE Update
  <2>1. PICK k \in TreeKeys, h \in Hashes :
          \/ \E key \in ContentKeys : MergeKey(k, h, key) /\ key \in KeysFor[h]
          \/ \E o \in Options(h) : SetLocal(k, h, o)
          \/ \E o \in Options(h), ts \in Nat :
                  \/ SetFromResolver(k, h, ts, o)
                  \/ SetFromWorker(k, h, ts, o)
                  \/ SetFromExternal(k, h, ts, o)
    BY <1>1, UpdateCases
  <2>2. ASSUME NEW key \in ContentKeys, MergeKey(k, h, key)  PROVE TypeOK'
    <3> DEFINE r == [records[k] EXCEPT !.key = key]
    <3>1. records[k] \in Record
      BY <2>2 DEF MergeKey, SameHash
    <3>2. r \in Record
      BY <3>1 DEF Record
    <3>3. SeenBy(calls[k], r) \in [Slots -> Maybe(Call)]
      BY <3>2, SeenByFacts DEF Maybe
    <3>4. records' = [records EXCEPT ![k] = r] /\ calls' = [calls EXCEPT ![k] = SeenBy(@, r)]
      BY <2>2 DEF MergeKey, Mutate
    <3> HIDE DEF r
    <3> QED  BY <2>2, <3>2, <3>3, <3>4, SaveTyped DEF MergeKey, Maybe
  <2>3. ASSUME NEW o \in Options(h), SetLocal(k, h, o)  PROVE TypeOK'
    <3> DEFINE r == LocalRecord(records[k], h, now, o, writes')
    <3>1. o \in Option /\ writes' \in Nat /\ records[k] \in Maybe(Record)
      BY <2>3, OptionsTyped DEF SetLocal, Maybe
    <3>2. r \in Record
      BY <3>1, LocalRecordFacts
    <3>3. records' = [records EXCEPT ![k] = r]
      BY <2>3 DEF SetLocal
    <3> HIDE DEF r
    <3> QED  BY <2>3, <3>1, <3>2, <3>3, SaveTyped DEF SetLocal
  <2>4. ASSUME NEW o \in Options(h), NEW ts \in Nat,
               \/ SetFromResolver(k, h, ts, o)
               \/ SetFromWorker(k, h, ts, o)
               \/ SetFromExternal(k, h, ts, o)
        PROVE  TypeOK'
    <3>1. o \in Option
      BY OptionsTyped
    <3>2. PICK src \in Sources, v \in Visibilities : Learn(k, h, ts, src, o, v)
      BY <2>4, <3>1, SettersLearn
    <3>3. PICK r \in Record :
             /\ records' = [records EXCEPT ![k] = r]
             /\ Save(records')
             /\ UNCHANGED calls \/ calls' = [calls EXCEPT ![k] = SeenBy(@, r)]
      BY <3>1, <3>2, LearnFacts
    <3>4. SeenBy(calls[k], r) \in [Slots -> Maybe(Call)]
      BY SeenByFacts DEF Maybe
    <3>5. UNCHANGED <<timers, publishFn, published, now, writes, reloads, account, users>>
      BY <3>2 DEF Learn
    <3> QED  BY <3>3, <3>4, <3>5, SaveTyped DEF Maybe
  <2> QED  BY <2>1, <2>2, <2>3, <2>4
<1>2. ASSUME NEW k \in TreeKeys, Delete(k)  PROVE TypeOK'
  BY <1>2, SaveTyped DEF Delete
<1>3. CASE SetPublishFn
  BY <1>3 DEF SetPublishFn
<1>4. CASE FlushPendingPublishes
  <2>1. {k \in timers : Publishable(k)} \in SUBSET TreeKeys
    OBVIOUS
  <2>2. \A k \in {t \in timers : Publishable(t)} : records[k] \in Record
    BY DEF Publishable, Dirty
  <2>3. calls' \in [TreeKeys -> [Slots -> Maybe(Call)]]
    BY <1>4, <2>1, <2>2, StartTyped DEF FlushPendingPublishes
  <2> QED  BY <1>4, <2>3 DEF FlushPendingPublishes, Maybe
<1>5. ASSUME NEW k \in TreeKeys, TimerFires(k)  PROVE TypeOK'
  <2> DEFINE due == IF Publishable(k) THEN {k} ELSE {}
  <2>1. due \in SUBSET TreeKeys /\ \A t \in due : records[t] \in Record
    BY DEF Publishable, Dirty
  <2>2. StartPublish(due)
    BY <1>5 DEF TimerFires
  <2> HIDE DEF due
  <2>3. calls' \in [TreeKeys -> [Slots -> Maybe(Call)]]
    BY <2>1, <2>2, StartTyped
  <2> QED  BY <1>5, <2>3 DEF TimerFires, Maybe
<1>6. ASSUME NEW k \in TreeKeys, NEW s \in Slots, EventSent(k, s)  PROVE TypeOK'
  <2>1. calls[k][s] \in Call
    BY <1>0, <1>6 DEF EventSent
  <2>2. /\ EventOf(k, calls[k][s].rec) \in Event
        /\ [calls[k][s] EXCEPT !.sent = TRUE] \in Call
    <3>1. account \in Accounts
      BY <1>6 DEF EventSent
    <3> QED  BY <2>1, <3>1, EventTyped DEF Call
  <2> QED  BY <1>6, <2>2 DEF EventSent
<1>7. ASSUME NEW k \in TreeKeys, NEW s \in Slots, PublishSucceeds(k, s)  PROVE TypeOK'
  <2> DEFINE rest == [calls EXCEPT ![k][s] = None]
             clean == [records[k] EXCEPT !.dirty = FALSE]
  <2>1. rest \in [TreeKeys -> [Slots -> Maybe(Call)]]
    BY DEF Maybe
  <2>2. CASE SameHash(records[k], calls[k][s].rec.hash)
    <3>1. clean \in Record
      BY <2>2 DEF SameHash, Record
    <3>2. SeenBy(rest[k], clean) \in [Slots -> Maybe(Call)]
      BY <2>1, <3>1, SeenByFacts
    <3>3. /\ records' = [records EXCEPT ![k] = clean]
          /\ calls' = [rest EXCEPT ![k] = SeenBy(@, clean)]
          /\ Save(records')
      BY <1>7, <2>2 DEF PublishSucceeds
    <3>4. UNCHANGED <<timers, publishFn, published, now, writes, reloads, account, users>>
      BY <1>7 DEF PublishSucceeds
    <3> HIDE DEF rest, clean
    <3> QED  BY <2>1, <3>1, <3>2, <3>3, <3>4, SaveTyped DEF Maybe
  <2>3. CASE ~SameHash(records[k], calls[k][s].rec.hash)
    BY <1>7, <2>1, <2>3 DEF PublishSucceeds, Maybe
  <2> QED  BY <2>2, <2>3
<1>8. ASSUME NEW k \in TreeKeys, NEW s \in Slots, PublishFails(k, s)  PROVE TypeOK'
  BY <1>8 DEF PublishFails
<1>9. CASE Tick
  BY <1>9 DEF Tick
<1>10. CASE Reload
  <2>1. timers' \subseteq TreeKeys
    BY <1>10 DEF Reload
  <2>2. /\ records' = storage /\ storage' = storage
        /\ published' = published /\ now' = now
        /\ writes' = writes /\ reloads' \in Nat
        /\ users' = users /\ account' = None
    BY <1>10 DEF Reload
  <2>3. calls' \in [TreeKeys -> [Slots -> Call \cup {None}]]
    BY <1>10, NoCallsTyped DEF Reload
  <2>4. publishFn' \in BOOLEAN
    BY <1>10 DEF Reload
  <2> QED  BY <2>1, <2>2, <2>3, <2>4
<1>11. CASE UNCHANGED vars
  BY <1>11 DEF vars
<1>12. CASE ChangeAccount
  <2>1. users' \subseteq Accounts /\ account' \in users' \cup {None}
    BY <1>12 DEF ChangeAccount, Login, Logout
  <2>2. UNCHANGED <<records, storage, timers, publishFn, calls, published, now, writes, reloads>>
    BY <1>12 DEF ChangeAccount, Login, Logout
  <2> QED  BY <2>1, <2>2
<1> QED
  BY <1>1, <1>2, <1>3, <1>4, <1>5, <1>6, <1>7, <1>8, <1>9, <1>10, <1>11, <1>12 DEF Next, Publish

(* The variables keep their types (the declarations of TreeRootRecord and of the maps). *)
THEOREM TypeCorrect == Spec => []TypeOK
  BY InitTyped, StepTyped, PTL DEF Spec

-----------------------------------------------------------------------------
(* The inductive invariant. *)

(* The accounts that have been logged in: none is forgotten. *)
LEMMA UsersGrow == [Next]_vars => users \subseteq users'
<1> SUFFICES ASSUME [Next]_vars  PROVE users \subseteq users'
  OBVIOUS
<1>1. CASE Update
  <2>1. ASSUME NEW k, NEW h, NEW ts, NEW src, NEW o, NEW v, Learn(k, h, ts, src, o, v)
        PROVE  users' = users
    BY <2>1 DEF Learn
  <2>2. ASSUME NEW k, NEW h, NEW ts, NEW o,
               \/ SetFromResolver(k, h, ts, o)
               \/ SetFromWorker(k, h, ts, o)
               \/ SetFromExternal(k, h, ts, o)
        PROVE  users' = users
    BY <2>1, <2>2 DEF SetFromResolver, SetFromWorker, SetFromExternal
  <2>3. ASSUME NEW k, NEW h, NEW key, MergeKey(k, h, key)  PROVE users' = users
    BY <2>3 DEF MergeKey
  <2>4. ASSUME NEW k, NEW h, NEW o, SetLocal(k, h, o)  PROVE users' = users
    BY <2>4 DEF SetLocal
  <2> QED  BY <1>1, <2>2, <2>3, <2>4 DEF Update
<1>2. CASE Publish
  <2>1. CASE SetPublishFn \/ FlushPendingPublishes
    BY <2>1 DEF SetPublishFn, FlushPendingPublishes
  <2>2. ASSUME NEW k, NEW s, EventSent(k, s) \/ PublishSucceeds(k, s) \/ PublishFails(k, s)
        PROVE  users' = users
    BY <2>2 DEF EventSent, PublishSucceeds, PublishFails
  <2> QED  BY <1>2, <2>1, <2>2 DEF Publish
<1>3. CASE ChangeAccount
  BY <1>3 DEF ChangeAccount, Login, Logout
<1>4. ASSUME NEW k, Delete(k) \/ TimerFires(k)  PROVE users' = users
  BY <1>4 DEF Delete, TimerFires
<1>5. CASE Tick \/ Reload \/ UNCHANGED vars
  BY <1>5 DEF Tick, Reload, vars
<1> QED  BY <1>1, <1>2, <1>3, <1>4, <1>5 DEF Next

(* An event on the relays stays there, and who has been logged in has been. *)
LEMMA HasEventStays ==
    ASSUME NEW k, NEW h, published \subseteq published', users \subseteq users', HasEvent(k, h)
    PROVE  HasEvent(k, h)'
  BY DEF HasEvent, Destinations

(* So what is said of a record stays true. *)
LEMMA OKMonotone ==
    ASSUME NEW k, NEW r, TypeOK, TypeOK', published \subseteq published',
           users \subseteq users', writes <= writes', r \in Record, RecordOK(k, r)
    PROVE  RecordOK(k, r)'
<1>1. HasEvent(k, r.hash) => HasEvent(k, r.hash)'
  BY HasEventStays
<1>2. r.obj <= writes /\ r.obj \in Nat /\ writes \in Nat /\ writes' \in Nat
  BY DEF RecordOK, TypeOK, Record
<1>3. r.obj <= writes'
  BY <1>2
<1> QED  BY <1>1, <1>3 DEF RecordOK

(***************************************************************************)
(* The record of tree k becomes r, in place or anew, and is saved: the     *)
(* common part of every step that changes records.                         *)
(***************************************************************************)
LEMMA RecordStep ==
    ASSUME TypeOK, TypeOK', RecordsOK, CallsOK,
           NEW k \in TreeKeys, NEW r \in Maybe(Record),
           records' = [records EXCEPT ![k] = r],
           Save(records'),
           published' = published, users \subseteq users', writes <= writes',
           r # None => RecordOK(k, r)',
           \A t \in TreeKeys, s \in Slots : calls'[t][s] # None =>
               /\ calls[t][s] # None
               /\ calls'[t][s].sent = calls[t][s].sent
               /\ calls'[t][s].rec.obj = calls[t][s].rec.obj
               /\ calls'[t][s].rec.hash = calls[t][s].rec.hash,
           \A s \in Slots : calls[k][s] # None /\ r # None /\ calls[k][s].rec.obj = r.obj =>
               calls[k][s].rec.hash = r.hash
    PROVE  RecordsOK' /\ CallsOK'
<1>1. ASSUME NEW t \in TreeKeys
      PROVE  /\ records'[t] # None => RecordOK(t, records[t])'
             /\ storage'[t] # None => RecordOK(t, storage[t])'
  <2>1. \A q \in Record : RecordOK(t, q) => RecordOK(t, q)'
    BY OKMonotone
  <2>2. /\ records[t] # None => records[t] \in Record /\ RecordOK(t, records[t])
        /\ storage[t] # None => storage[t] \in Record /\ RecordOK(t, storage[t])
    BY DEF TypeOK, RecordsOK
  <2>3. /\ records'[t] = IF t = k THEN r ELSE records[t]
        /\ storage'[t] \in {records'[t], storage[t]}
    BY SaveTyped DEF TypeOK
  <2>4. records'[t] # None => RecordOK(t, records[t])'
    BY <2>1, <2>2, <2>3 DEF RecordOK, HasEvent, Destinations
  <2>5. storage'[t] # None => RecordOK(t, storage[t])'
    BY <2>1, <2>2, <2>3, <2>4 DEF RecordOK, HasEvent, Destinations
  <2> QED  BY <2>4, <2>5
<1>2. ASSUME NEW t \in TreeKeys, NEW s \in Slots, calls'[t][s] # None
      PROVE  CallOK(t, calls[t][s])'
  <2>1. CallOK(t, calls[t][s]) /\ calls[t][s] \in Call
    BY <1>2 DEF CallsOK, TypeOK
  <2>2. records'[t] = IF t = k THEN r ELSE records[t]
    BY DEF TypeOK
  <2>3. \A h : HasEvent(t, h) => HasEvent(t, h)'
    BY HasEventStays
  <2>4. calls'[t][s].sent => HasEvent(t, calls[t][s].rec.hash)'
    BY <1>2, <2>1, <2>3 DEF CallOK
  <2>5. calls'[t][s].rec.obj <= writes' /\ calls'[t][s].rec.obj > 0
    BY <1>2, <2>1 DEF CallOK, TypeOK, Call, Record
  <2>6. /\ records'[t] # None /\ records'[t].obj = calls'[t][s].rec.obj
           => records'[t].hash = calls'[t][s].rec.hash
    BY <1>2, <2>1, <2>2 DEF CallOK
  <2> QED  BY <1>2, <2>4, <2>5, <2>6 DEF CallOK
<1> QED  BY <1>1, <1>2 DEF RecordsOK, CallsOK

(***************************************************************************)
(* No record changes: a call in flight is an earlier one that may have     *)
(* sent its event, or was just made for the current record of its tree.    *)
(***************************************************************************)
LEMMA CallStep ==
    ASSUME TypeOK, TypeOK', RecordsOK, CallsOK,
           UNCHANGED <<records, storage, writes>>,
           published \subseteq published', users \subseteq users',
           \A t \in TreeKeys, s \in Slots : calls'[t][s] # None =>
               \/ /\ calls[t][s] # None
                  /\ calls'[t][s].rec = calls[t][s].rec
                  /\ calls'[t][s].sent => calls[t][s].sent \/ HasEvent(t, calls[t][s].rec.hash)'
               \/ Dirty(t) /\ calls'[t][s] = [rec |-> records[t], sent |-> FALSE]
    PROVE  RecordsOK' /\ CallsOK'
<1>1. ASSUME NEW t \in TreeKeys
      PROVE  /\ records'[t] # None => RecordOK(t, records[t])'
             /\ storage'[t] # None => RecordOK(t, storage[t])'
  <2>1. ASSUME NEW q \in Record, RecordOK(t, q)  PROVE RecordOK(t, q)'
    BY <2>1, OKMonotone DEF TypeOK
  <2>2. /\ records[t] # None => records[t] \in Record /\ RecordOK(t, records[t])
        /\ storage[t] # None => storage[t] \in Record /\ RecordOK(t, storage[t])
    BY DEF TypeOK, RecordsOK
  <2> QED  BY <2>1, <2>2 DEF RecordOK, HasEvent, Destinations
<1>2. ASSUME NEW t \in TreeKeys, NEW s \in Slots, calls'[t][s] # None
      PROVE  CallOK(t, calls[t][s])'
  <2>1. CASE /\ calls[t][s] # None
             /\ calls'[t][s].rec = calls[t][s].rec
             /\ calls'[t][s].sent => calls[t][s].sent \/ HasEvent(t, calls[t][s].rec.hash)'
    <3>1. CallOK(t, calls[t][s])
      BY <2>1 DEF CallsOK
    <3>2. \A h : HasEvent(t, h) => HasEvent(t, h)'
      BY HasEventStays
    <3> QED  BY <2>1, <3>1, <3>2 DEF CallOK
  <2>2. CASE Dirty(t) /\ calls'[t][s] = [rec |-> records[t], sent |-> FALSE]
    <3>1. RecordOK(t, records[t])
      BY <2>2 DEF Dirty, RecordsOK
    <3> QED  BY <2>2, <3>1 DEF CallOK, RecordOK, Dirty
  <2> QED  BY <1>2, <2>1, <2>2
<1> QED  BY <1>1, <1>2 DEF RecordsOK, CallsOK

(* What publishFn is called with: the dirty record of its tree, in a slot of its own. *)
LEMMA StartFacts ==
    ASSUME TypeOK, NEW due \in SUBSET TreeKeys, StartPublish(due)
    PROVE  /\ \A t \in TreeKeys, s \in Slots :
                \/ calls'[t][s] = calls[t][s]
                \/ t \in due /\ calls'[t][s] = [rec |-> records[t], sent |-> FALSE]
           /\ \A t \in TreeKeys, s \in Slots : calls[t][s] # None => calls'[t][s] = calls[t][s]
           /\ \A t \in due : \E s \in Slots :
                calls'[t][s] = [rec |-> records[t], sent |-> FALSE]
<1>1. PICK slot \in [TreeKeys -> Slots] :
        /\ \A k \in due : calls[k][slot[k]] = None
        /\ calls' = [k \in TreeKeys |->
             IF k \in due
             THEN [calls[k] EXCEPT ![slot[k]] = [rec |-> records[k], sent |-> FALSE]]
             ELSE calls[k]]
  BY DEF StartPublish
<1>2. ASSUME NEW t \in TreeKeys, NEW s \in Slots
      PROVE  calls'[t][s] = IF t \in due /\ s = slot[t]
                            THEN [rec |-> records[t], sent |-> FALSE] ELSE calls[t][s]
  BY <1>1 DEF TypeOK
<1> QED  BY <1>1, <1>2

(* In place mutation keeps what CallsOK is about. *)
LEMMA SeenByKeeps ==
    ASSUME NEW tree \in [Slots -> Maybe(Call)], NEW r \in Record, NEW s \in Slots,
           tree[s] # None, tree[s].rec.obj = r.obj => tree[s].rec.hash = r.hash
    PROVE  /\ SeenBy(tree, r)[s].sent = tree[s].sent
           /\ SeenBy(tree, r)[s].rec.obj = tree[s].rec.obj
           /\ SeenBy(tree, r)[s].rec.hash = tree[s].rec.hash
  BY SeenByFacts

(***************************************************************************)
(* A record is mutated in place to r, which keeps its object and its root. *)
(* `rest' are the calls in flight, without the one that has just ended.    *)
(***************************************************************************)
LEMMA MutateStep ==
    ASSUME TypeOK, TypeOK', RecordsOK, CallsOK,
           NEW k \in TreeKeys, NEW r \in Record, records[k] # None,
           r.obj = records[k].obj, r.hash = records[k].hash,
           NEW rest \in [TreeKeys -> [Slots -> Maybe(Call)]],
           \A t \in TreeKeys, s \in Slots : rest[t][s] \in {None, calls[t][s]},
           records' = [records EXCEPT ![k] = r],
           calls' = [rest EXCEPT ![k] = SeenBy(@, r)],
           Save(records'), UNCHANGED <<published, writes>>, users \subseteq users',
           RecordOK(k, r)'
    PROVE  RecordsOK' /\ CallsOK'
<1>1. \A s \in Slots : calls[k][s] # None /\ calls[k][s].rec.obj = r.obj =>
         calls[k][s].rec.hash = r.hash
  BY DEF CallsOK, CallOK
<1>2. ASSUME NEW t \in TreeKeys, NEW s \in Slots, calls'[t][s] # None
      PROVE  /\ calls[t][s] # None
             /\ calls'[t][s].sent = calls[t][s].sent
             /\ calls'[t][s].rec.obj = calls[t][s].rec.obj
             /\ calls'[t][s].rec.hash = calls[t][s].rec.hash
  <2>1. CASE t = k
    <3>1. calls'[k][s] = SeenBy(rest[k], r)[s]
      BY <2>1
    <3>2. rest[k][s] # None /\ rest[k][s] = calls[k][s]
      BY <1>2, <2>1, <3>1, SeenByFacts
    <3> QED  BY <1>1, <2>1, <3>1, <3>2, SeenByKeeps
  <2>2. CASE t # k
    BY <1>2, <2>2
  <2> QED  BY <2>1, <2>2
<1>3. writes <= writes' /\ r \in Maybe(Record)
  BY DEF TypeOK, Maybe
<1> QED  BY <1>1, <1>2, <1>3, RecordStep

(* Updates of a record leave sound records and calls. *)
LEMMA UpdateSafe ==
    ASSUME TypeOK, TypeOK', RecordsOK, CallsOK, Update, users \subseteq users'
    PROVE  RecordsOK' /\ CallsOK'
<1>1. PICK k \in TreeKeys, h \in Hashes :
          \/ \E key \in ContentKeys : MergeKey(k, h, key) /\ key \in KeysFor[h]
          \/ \E o \in Options(h) : SetLocal(k, h, o)
          \/ \E o \in Options(h), ts \in Nat :
                  \/ SetFromResolver(k, h, ts, o)
                  \/ SetFromWorker(k, h, ts, o)
                  \/ SetFromExternal(k, h, ts, o)
  BY UpdateCases
<1>2. /\ records[k] # None => records[k] \in Record /\ RecordOK(k, records[k])
      /\ calls \in [TreeKeys -> [Slots -> Maybe(Call)]]
  BY DEF TypeOK, RecordsOK, Maybe
<1>3. ASSUME NEW key \in ContentKeys, MergeKey(k, h, key)
      PROVE  RecordsOK' /\ CallsOK'
  <2>1. records[k] # None /\ records[k] \in Record /\ RecordOK(k, records[k])
    BY <1>2, <1>3 DEF MergeKey, SameHash
  <2>2. PICK r \in Record :
           /\ r = [records[k] EXCEPT !.key = key]
           /\ r.obj = records[k].obj /\ r.hash = records[k].hash
           /\ r.dirty = records[k].dirty /\ r.source = records[k].source
    <3> DEFINE q == [records[k] EXCEPT !.key = key]
    <3>1. /\ q \in Record /\ q.obj = records[k].obj /\ q.hash = records[k].hash
          /\ q.dirty = records[k].dirty /\ q.source = records[k].source
      BY <2>1 DEF Record
    <3> HIDE DEF q
    <3>2. q = [records[k] EXCEPT !.key = key]
      BY DEF q
    <3> QED  BY <3>1, <3>2
  <2>3. /\ records' = [records EXCEPT ![k] = r] /\ calls' = [calls EXCEPT ![k] = SeenBy(@, r)]
        /\ Save(records') /\ UNCHANGED <<published, writes>>
    BY <1>3, <2>2 DEF MergeKey, Mutate
  <2>4. RecordOK(k, r)'
    BY <2>1, <2>2, <2>3, HasEventStays DEF RecordOK
  <2> QED  BY <1>2, <2>1, <2>2, <2>3, <2>4, MutateStep
<1>4. ASSUME NEW o \in Options(h), SetLocal(k, h, o)
      PROVE  RecordsOK' /\ CallsOK'
  <2>1. /\ o \in Option /\ now \in Nat /\ records[k] \in Maybe(Record)
        /\ writes \in Nat /\ writes' = writes + 1
    BY <1>4, OptionsTyped DEF SetLocal, TypeOK, Maybe
  <2>2. writes' \in Nat /\ writes' > 0 /\ writes < writes'
    BY <2>1
  <2>3. PICK r \in Record : /\ r = LocalRecord(records[k], h, now, o, writes')
                             /\ r.hash = h /\ r.obj = writes' /\ r.dirty
    BY <2>1, <2>2, LocalRecordFacts
  <2>4. /\ records' = [records EXCEPT ![k] = r] /\ Save(records')
        /\ UNCHANGED <<published, calls>>
    BY <1>4, <2>3 DEF SetLocal
  <2>5. RecordOK(k, r)'
    BY <2>2, <2>3 DEF RecordOK
  <2>6. \A s \in Slots : calls[k][s] # None => calls[k][s].rec.obj # r.obj
    <3> SUFFICES ASSUME NEW s \in Slots, calls[k][s] # None  PROVE calls[k][s].rec.obj # r.obj
      OBVIOUS
    <3>1. calls[k][s].rec.obj <= writes /\ calls[k][s].rec.obj \in Nat
      BY DEF CallsOK, CallOK, TypeOK, Call, Record
    <3> QED  BY <2>1, <2>3, <3>1
  <2>7. r \in Maybe(Record) /\ writes <= writes'
    BY <2>1, <2>3 DEF Maybe
  <2> QED  BY <2>4, <2>5, <2>6, <2>7, RecordStep
<1>5. ASSUME NEW o \in Options(h), NEW ts \in Nat,
             \/ SetFromResolver(k, h, ts, o)
             \/ SetFromWorker(k, h, ts, o)
             \/ SetFromExternal(k, h, ts, o)
      PROVE  RecordsOK' /\ CallsOK'
  <2>1. o \in Option
    BY OptionsTyped
  <2>2. PICK src \in Sources \ {"local-write"}, v \in Visibilities : Learn(k, h, ts, src, o, v)
    BY <1>5, <2>1, SettersLearn
  <2>3. PICK r \in Record :
           /\ records' = [records EXCEPT ![k] = r]
           /\ r.hash = h /\ ~r.dirty
           /\ Save(records')
           /\ records[k] # None => ~records[k].dirty
           /\ \/ r.obj = 0 /\ r.source = src /\ UNCHANGED calls
              \/ /\ records[k] # None /\ records[k].hash = h
                 /\ r.obj = records[k].obj /\ r.source = records[k].source
                 /\ calls' = [calls EXCEPT ![k] = SeenBy(@, r)]
    BY <2>1, <2>2, LearnFacts
  <2>4. UNCHANGED <<published, writes>>
    BY <2>2 DEF Learn
  <2>5. CASE r.obj = 0 /\ r.source = src /\ UNCHANGED calls
    <3>1. RecordOK(k, r)'
      BY <2>3, <2>4, <2>5 DEF RecordOK, TypeOK
    <3>2. \A s \in Slots : calls[k][s] # None => calls[k][s].rec.obj # r.obj
      BY <2>5 DEF CallsOK, CallOK
    <3>3. r \in Maybe(Record) /\ writes <= writes'
      BY <2>4 DEF Maybe, TypeOK
    <3> QED  BY <2>3, <2>4, <2>5, <3>1, <3>2, <3>3, RecordStep, ZenonT(30)
  <2>6. CASE /\ records[k] # None /\ records[k].hash = h
             /\ r.obj = records[k].obj /\ r.source = records[k].source
             /\ calls' = [calls EXCEPT ![k] = SeenBy(@, r)]
    <3>1. RecordOK(k, r)'
      BY <1>2, <2>3, <2>4, <2>6, HasEventStays DEF RecordOK
    <3> QED  BY <1>2, <2>3, <2>4, <2>6, <3>1, MutateStep
  <2> QED  BY <2>3, <2>5, <2>6
<1> QED  BY <1>1, <1>3, <1>4, <1>5

(* Every step leaves sound records and calls. *)
LEMMA StepSafe ==
    ASSUME TypeOK, TypeOK', RecordsOK, CallsOK, [Next]_vars
    PROVE  RecordsOK' /\ CallsOK'
<1>0. calls \in [TreeKeys -> [Slots -> Maybe(Call)]] /\ users \subseteq users'
  BY UsersGrow DEF TypeOK, Maybe
<1>1. ASSUME NEW k \in TreeKeys, Delete(k)  PROVE RecordsOK' /\ CallsOK'
  <2>1. /\ None \in Maybe(Record) /\ writes <= writes'
        /\ records' = [records EXCEPT ![k] = None] /\ Save(records')
        /\ UNCHANGED <<published, calls>>
    BY <1>1 DEF Delete, Maybe, TypeOK
  <2> QED  BY <2>1, <1>0, RecordStep
<1>2. CASE FlushPendingPublishes
  <2>1. {k \in timers : Publishable(k)} \in SUBSET TreeKeys
    BY DEF TypeOK
  <2>2. \A t \in TreeKeys, s \in Slots :
           \/ calls'[t][s] = calls[t][s]
           \/ Dirty(t) /\ calls'[t][s] = [rec |-> records[t], sent |-> FALSE]
    BY <1>2, <2>1, StartFacts DEF FlushPendingPublishes, Publishable
  <2>3. UNCHANGED <<records, storage, published, writes>>
    BY <1>2 DEF FlushPendingPublishes
  <2> QED  BY <2>2, <2>3, <1>0, CallStep
<1>3. ASSUME NEW k \in TreeKeys, TimerFires(k)  PROVE RecordsOK' /\ CallsOK'
  <2>1. \A t \in TreeKeys, s \in Slots :
           \/ calls'[t][s] = calls[t][s]
           \/ Dirty(t) /\ calls'[t][s] = [rec |-> records[t], sent |-> FALSE]
    <3>1. CASE Publishable(k)
      BY <1>3, <3>1, StartFacts DEF TimerFires, Publishable
    <3>2. CASE ~Publishable(k)
      BY <1>3, <3>2, StartFacts DEF TimerFires
    <3> QED  BY <3>1, <3>2
  <2>2. UNCHANGED <<records, storage, published, writes>>
    BY <1>3 DEF TimerFires
  <2> QED  BY <2>1, <2>2, <1>0, CallStep
<1>4. ASSUME NEW k \in TreeKeys, NEW s \in Slots, EventSent(k, s)
      PROVE  RecordsOK' /\ CallsOK'
  <2>1. /\ calls[k][s] \in Call /\ calls[k][s] # None
        /\ calls' = [calls EXCEPT ![k][s].sent = TRUE]
        /\ published' = published \cup {EventOf(k, calls[k][s].rec)}
        /\ UNCHANGED <<records, storage, writes, users>> /\ account \in users
    BY <1>4 DEF EventSent, TypeOK
  <2>2. HasEvent(k, calls[k][s].rec.hash)'
    <3>1. calls'[k][s].rec = calls[k][s].rec
      BY <2>1 DEF TypeOK, Call
    <3>2. /\ EventOf(k, calls[k][s].rec) \in published'
          /\ EventOf(k, calls[k][s].rec).tree = <<account, k[2]>>
          /\ EventOf(k, calls[k][s].rec).hash = calls'[k][s].rec.hash
      BY <2>1, <3>1 DEF EventOf
    <3>3. <<account, k[2]>> \in Destinations(k)'
      BY <2>1 DEF Destinations
    <3> QED  BY <3>1, <3>2, <3>3 DEF HasEvent
  <2>3. ASSUME NEW t \in TreeKeys, NEW q \in Slots, calls'[t][q] # None
        PROVE  /\ calls[t][q] # None
               /\ calls'[t][q].rec = calls[t][q].rec
               /\ calls'[t][q].sent => calls[t][q].sent \/ HasEvent(t, calls[t][q].rec.hash)'
    <3>1. CASE t = k /\ q = s
      BY <2>1, <2>2, <3>1 DEF TypeOK, Call
    <3>2. CASE ~(t = k /\ q = s)
      BY <2>1, <2>3, <3>2 DEF TypeOK
    <3> QED  BY <3>1, <3>2
  <2> QED  BY <2>1, <2>3, <1>0, CallStep
<1>5. ASSUME NEW k \in TreeKeys, NEW s \in Slots, PublishSucceeds(k, s)
      PROVE  RecordsOK' /\ CallsOK'
  <2>1. PICK rest \in [TreeKeys -> [Slots -> Maybe(Call)]] :
           /\ rest = [calls EXCEPT ![k][s] = None]
           /\ \A t \in TreeKeys, q \in Slots : rest[t][q] \in {None, calls[t][q]}
    <3>1. [calls EXCEPT ![k][s] = None] \in [TreeKeys -> [Slots -> Maybe(Call)]]
      BY <1>0 DEF Maybe
    <3>2. \A t \in TreeKeys, q \in Slots :
             [calls EXCEPT ![k][s] = None][t][q] \in {None, calls[t][q]}
      BY <1>0
    <3> QED  BY <3>1, <3>2
  <2>2. CASE SameHash(records[k], calls[k][s].rec.hash)
    <3>1. records[k] # None /\ records[k] \in Record
      BY <2>2 DEF SameHash, TypeOK
    <3>2. PICK r \in Record :
             /\ r = [records[k] EXCEPT !.dirty = FALSE]
             /\ r.obj = records[k].obj /\ r.hash = records[k].hash
      <4> DEFINE q == [records[k] EXCEPT !.dirty = FALSE]
      <4>1. q \in Record /\ q.obj = records[k].obj /\ q.hash = records[k].hash
        BY <3>1 DEF Record
      <4> HIDE DEF q
      <4>2. q = [records[k] EXCEPT !.dirty = FALSE]
        BY DEF q
      <4> QED  BY <4>1, <4>2
    <3>3. /\ records' = [records EXCEPT ![k] = r]
          /\ calls' = [rest EXCEPT ![k] = SeenBy(@, r)]
          /\ Save(records') /\ UNCHANGED <<published, writes>>
      BY <1>5, <2>1, <2>2, <3>2 DEF PublishSucceeds
    <3>4. HasEvent(k, records[k].hash)
      <4>1. calls[k][s] # None /\ calls[k][s].sent
        BY <1>5 DEF PublishSucceeds
      <4> QED  BY <2>2, <4>1 DEF CallsOK, CallOK, SameHash
    <3>5. RecordOK(k, r)'
      <4>1. r.obj <= writes /\ ~r.dirty
        BY <3>1, <3>2 DEF RecordsOK, RecordOK, Record
      <4>2. HasEvent(k, r.hash)'
        BY <1>0, <3>2, <3>3, <3>4, HasEventStays
      <4> QED  BY <3>3, <4>1, <4>2 DEF RecordOK
    <3> QED  BY <2>1, <3>1, <3>2, <3>3, <3>5, <1>0, MutateStep
  <2>3. CASE ~SameHash(records[k], calls[k][s].rec.hash)
    <3>1. calls' = rest /\ UNCHANGED <<records, storage, published, writes>>
      BY <1>5, <2>1, <2>3 DEF PublishSucceeds
    <3>2. \A t \in TreeKeys, q \in Slots :
             calls'[t][q] # None => calls[t][q] # None /\ calls'[t][q] = calls[t][q]
      BY <2>1, <3>1
    <3> QED  BY <3>1, <3>2, <1>0, CallStep
  <2> QED  BY <2>2, <2>3
<1>6. ASSUME NEW k \in TreeKeys, NEW s \in Slots, PublishFails(k, s)
      PROVE  RecordsOK' /\ CallsOK'
  <2>1. calls' = [calls EXCEPT ![k][s] = None] /\ UNCHANGED <<records, storage, published, writes>>
    BY <1>6 DEF PublishFails
  <2>2. \A t \in TreeKeys, q \in Slots : calls'[t][q] # None => calls'[t][q] = calls[t][q]
    BY <1>0, <2>1
  <2> QED  BY <2>1, <2>2, <1>0, CallStep
<1>7. CASE Reload
  <2>1. /\ records' = storage /\ calls' = NoCalls
        /\ UNCHANGED <<storage, published, writes, users>>
    BY <1>7 DEF Reload
  <2>2. \A t \in TreeKeys, s \in Slots : calls'[t][s] = None
    BY <2>1 DEF NoCalls
  <2> QED  BY <2>1, <2>2 DEF RecordsOK, CallsOK, RecordOK, HasEvent, Destinations
<1>8. CASE SetPublishFn \/ Tick \/ UNCHANGED vars
  <2>1. UNCHANGED <<records, storage, calls, published, writes, users>>
    BY <1>8 DEF SetPublishFn, Tick, vars
  <2> QED  BY <2>1 DEF RecordsOK, CallsOK, RecordOK, CallOK, HasEvent, Destinations
<1>9. CASE ChangeAccount
  <2>1. UNCHANGED <<records, storage, calls, published, writes>>
    BY <1>9 DEF ChangeAccount, Login, Logout
  <2>2. \A t \in TreeKeys, s \in Slots : calls'[t][s] # None =>
           calls[t][s] # None /\ calls'[t][s] = calls[t][s]
    BY <2>1
  <2> QED  BY <1>0, <2>1, <2>2, CallStep
<1> QED
  BY <1>1, <1>2, <1>3, <1>4, <1>5, <1>6, <1>7, <1>8, <1>9, <1>0, UpdateSafe DEF Next, Publish

(***************************************************************************)
(* Every step keeps a publisher for each dirty record: the tree of the     *)
(* record that is dirty after the step is looked at alone.                 *)
(***************************************************************************)
HasPublisher(k) ==
    \/ k \in timers
    \/ \E s \in Slots : calls[k][s] # None /\ calls[k][s].rec.obj = records[k].obj

LEMMA StepPublisher ==
    ASSUME RegistryInv, TypeOK', [Next]_vars  PROVE DirtyHasPublisher'
<1> SUFFICES ASSUME ~SlowStart, NEW k \in TreeKeys, Dirty(k)'  PROVE HasPublisher(k)'
  BY DEF DirtyHasPublisher, HasPublisher
<1>0. /\ TypeOK /\ CallsOK
      /\ Dirty(k) => HasPublisher(k)
      /\ calls \in [TreeKeys -> [Slots -> Maybe(Call)]]
  BY DEF RegistryInv, DirtyHasPublisher, HasPublisher, TypeOK, Maybe
(* A step that leaves the record, its timer and its calls alone. *)
<1>1. ASSUME records'[k] = records[k], k \in timers => k \in timers',
             \A s \in Slots : calls[k][s] # None =>
                calls'[k][s] # None /\ calls'[k][s].rec.obj = calls[k][s].rec.obj
      PROVE  HasPublisher(k)'
  BY <1>0, <1>1 DEF Dirty, HasPublisher
<1>2. CASE Update
  <2>1. PICK t \in TreeKeys, h \in Hashes :
          \/ \E key \in ContentKeys : MergeKey(t, h, key) /\ key \in KeysFor[h]
          \/ \E o \in Options(h) : SetLocal(t, h, o)
          \/ \E o \in Options(h), ts \in Nat :
                  \/ SetFromResolver(t, h, ts, o)
                  \/ SetFromWorker(t, h, ts, o)
                  \/ SetFromExternal(t, h, ts, o)
    BY <1>2, UpdateCases
  <2>2. ASSUME NEW key \in ContentKeys, MergeKey(t, h, key)  PROVE HasPublisher(k)'
    <3>1. PICK r \in Record : /\ r = [records[t] EXCEPT !.key = key]
                              /\ r.obj = records[t].obj /\ r.dirty = records[t].dirty
      <4>1. records[t] \in Record
        BY <1>0, <2>2 DEF MergeKey, SameHash, TypeOK
      <4> DEFINE q == [records[t] EXCEPT !.key = key]
      <4>2. q \in Record /\ q.obj = records[t].obj /\ q.dirty = records[t].dirty
        BY <4>1 DEF Record
      <4> HIDE DEF q
      <4>3. q = [records[t] EXCEPT !.key = key]
        BY DEF q
      <4> QED  BY <4>2, <4>3
    <3>2. /\ records' = [records EXCEPT ![t] = r] /\ records[t] # None
          /\ calls' = [calls EXCEPT ![t] = SeenBy(@, r)] /\ timers' = timers
      BY <2>2, <3>1 DEF MergeKey, Mutate, SameHash
    <3>3. CASE t = k
      <4>1. records'[k] = r /\ Dirty(k)
        BY <1>0, <3>1, <3>2, <3>3 DEF Dirty, TypeOK
      <4>2. \A s \in Slots : calls[k][s] # None =>
               calls'[k][s] # None /\ calls'[k][s].rec.obj = calls[k][s].rec.obj
        BY <1>0, <3>2, <3>3, SeenByFacts
      <4> QED  BY <1>0, <3>1, <3>2, <3>3, <4>1, <4>2 DEF HasPublisher
    <3>4. CASE t # k
      BY <1>0, <1>1, <3>2, <3>4 DEF TypeOK
    <3> QED  BY <3>3, <3>4
  <2>3. ASSUME NEW o \in Options(h), SetLocal(t, h, o)  PROVE HasPublisher(k)'
    <3>1. CASE t = k
      BY <2>3, <3>1 DEF SetLocal, HasPublisher
    <3>2. CASE t # k
      BY <1>0, <1>1, <2>3, <3>2 DEF SetLocal, TypeOK
    <3> QED  BY <3>1, <3>2
  <2>4. ASSUME NEW o \in Options(h), NEW ts \in Nat,
               \/ SetFromResolver(t, h, ts, o)
               \/ SetFromWorker(t, h, ts, o)
               \/ SetFromExternal(t, h, ts, o)
        PROVE  HasPublisher(k)'
    <3>1. o \in Option
      BY OptionsTyped
    <3>2. PICK src \in Sources \ {"local-write"}, v \in Visibilities : Learn(t, h, ts, src, o, v)
      BY <1>0, <2>4, <3>1, SettersLearn
    <3>3. PICK r \in Record :
             /\ records' = [records EXCEPT ![t] = r] /\ ~r.dirty
             /\ UNCHANGED calls \/ calls' = [calls EXCEPT ![t] = SeenBy(@, r)]
      BY <1>0, <3>1, <3>2, LearnFacts
    <3>4. t # k
      BY <1>0, <3>3 DEF Dirty, TypeOK
    <3>5. timers' = timers
      BY <3>2 DEF Learn
    <3> QED  BY <1>0, <1>1, <3>3, <3>4, <3>5 DEF TypeOK
  <2> QED  BY <2>1, <2>2, <2>3, <2>4
<1>3. ASSUME NEW t \in TreeKeys, Delete(t)  PROVE HasPublisher(k)'
  <2>1. t # k
    BY <1>0, <1>3 DEF Delete, Dirty, TypeOK
  <2> QED  BY <1>0, <1>1, <1>3, <2>1 DEF Delete, TypeOK
<1>4. CASE FlushPendingPublishes
  <2> DEFINE due == {t \in timers : Publishable(t)}
  <2>1. due \in SUBSET TreeKeys /\ StartPublish(due) /\ UNCHANGED records
    BY <1>0, <1>4 DEF FlushPendingPublishes, TypeOK
  <2>2. Dirty(k) /\ (k \in timers => k \in due)
    BY <1>4 DEF FlushPendingPublishes, Dirty, Publishable
  <2> HIDE DEF due
  <2>3. CASE k \in timers
    <3>1. PICK s \in Slots : calls'[k][s] = [rec |-> records[k], sent |-> FALSE]
      BY <1>0, <2>1, <2>2, <2>3, StartFacts
    <3>2. records[k] \in Record /\ records'[k] = records[k]
      BY <1>0, <2>1, <2>2 DEF TypeOK, Dirty
    <3>3. calls'[k][s] \in Call /\ calls'[k][s].rec = records[k]
      BY <3>1, <3>2 DEF Call
    <3> QED  BY <3>2, <3>3, RegistryAssumption DEF HasPublisher
  <2>4. CASE k \notin timers
    <3>1. \A s \in Slots : calls[k][s] # None => calls'[k][s] = calls[k][s]
      BY <1>0, <2>1, StartFacts
    <3> QED  BY <1>1, <2>1, <2>4, <3>1
  <2> QED  BY <2>3, <2>4
<1>5. ASSUME NEW t \in TreeKeys, TimerFires(t)  PROVE HasPublisher(k)'
  <2> DEFINE due == IF Publishable(t) THEN {t} ELSE {}
  <2>1. due \in SUBSET TreeKeys /\ StartPublish(due) /\ UNCHANGED records /\ publishFn
    BY <1>5 DEF TimerFires
  <2>2. Dirty(k) /\ (t = k => k \in due)
    BY <2>1 DEF Dirty, Publishable
  <2> HIDE DEF due
  <2>3. CASE t = k
    <3>1. PICK s \in Slots : calls'[k][s] = [rec |-> records[k], sent |-> FALSE]
      BY <1>0, <2>1, <2>2, <2>3, StartFacts
    <3>2. records[k] \in Record /\ records'[k] = records[k]
      BY <1>0, <2>1, <2>2 DEF TypeOK, Dirty
    <3>3. calls'[k][s] \in Call /\ calls'[k][s].rec = records[k]
      BY <3>1, <3>2 DEF Call
    <3> QED  BY <3>2, <3>3, RegistryAssumption DEF HasPublisher
  <2>4. CASE t # k
    <3>1. \A s \in Slots : calls[k][s] # None => calls'[k][s] = calls[k][s]
      BY <1>0, <2>1, StartFacts
    <3>2. k \in timers => k \in timers'
      BY <1>5, <2>4 DEF TimerFires
    <3> QED  BY <1>1, <2>1, <3>1, <3>2
  <2> QED  BY <2>3, <2>4
<1>6. ASSUME NEW t \in TreeKeys, NEW s \in Slots, EventSent(t, s)  PROVE HasPublisher(k)'
  <2>1. /\ calls[t][s] \in Call
        /\ calls' = [calls EXCEPT ![t][s].sent = TRUE] /\ UNCHANGED <<records, timers>>
    BY <1>0, <1>6 DEF EventSent, TypeOK
  <2>2. [calls[t][s] EXCEPT !.sent = TRUE] \in Call
    BY <2>1 DEF Call
  <2>3. ASSUME NEW q \in Slots, calls[k][q] # None
        PROVE  calls'[k][q] # None /\ calls'[k][q].rec.obj = calls[k][q].rec.obj
    <3>1. CASE t = k /\ q = s
      BY <1>0, <2>1, <2>2, <3>1, RegistryAssumption DEF Call
    <3>2. CASE ~(t = k /\ q = s)
      BY <1>0, <2>1, <2>3, <3>2
    <3> QED  BY <3>1, <3>2
  <2> QED  BY <1>1, <2>1, <2>3
<1>7. ASSUME NEW t \in TreeKeys, NEW s \in Slots, PublishSucceeds(t, s)  PROVE HasPublisher(k)'
  <2>1. CASE t = k
    (* Its own publish would have made the record clean. *)
    <3>1. ~SameHash(records[k], calls[k][s].rec.hash)
      BY <1>0, <1>7, <2>1 DEF PublishSucceeds, Dirty, SameHash, TypeOK, Record
    <3>2. calls' = [calls EXCEPT ![k][s] = None] /\ UNCHANGED <<records, timers>>
      BY <1>7, <2>1, <3>1 DEF PublishSucceeds
    <3>3. Dirty(k) /\ calls[k][s] # None
      BY <1>7, <2>1, <3>2 DEF Dirty, PublishSucceeds
    <3>4. calls[k][s].rec.obj # records[k].obj
      BY <1>0, <3>1, <3>3 DEF CallsOK, CallOK, SameHash, Dirty
    <3> QED  BY <1>0, <3>2, <3>3, <3>4 DEF HasPublisher
  <2>2. CASE t # k
    <3>1. /\ records'[k] = records[k] /\ timers' = timers
          /\ \A q \in Slots : calls'[k][q] = calls[k][q]
      BY <1>0, <1>7, <2>2 DEF PublishSucceeds, TypeOK
    <3> QED  BY <1>1, <3>1
  <2> QED  BY <2>1, <2>2
<1>8. ASSUME NEW t \in TreeKeys, NEW s \in Slots, PublishFails(t, s)  PROVE HasPublisher(k)'
  <2>1. CASE t = k
    BY <1>8, <2>1 DEF PublishFails, HasPublisher
  <2>2. CASE t # k
    BY <1>0, <1>1, <1>8, <2>2 DEF PublishFails
  <2> QED  BY <2>1, <2>2
<1>9. CASE Reload
  BY <1>9 DEF Reload, Dirty, HasPublisher
<1>10. CASE SetPublishFn \/ Tick \/ ChangeAccount \/ UNCHANGED vars
  <2>1. UNCHANGED <<records, timers, calls>>
    BY <1>10 DEF SetPublishFn, Tick, ChangeAccount, Login, Logout, vars
  <2> QED  BY <1>1, <2>1
<1> QED
  BY <1>2, <1>3, <1>4, <1>5, <1>6, <1>7, <1>8, <1>9, <1>10 DEF Next, Publish

(* The invariant holds at the start: nothing is stored and nothing is in flight. *)
LEMMA InitInv == Init => RegistryInv
<1> SUFFICES ASSUME Init  PROVE RegistryInv
  OBVIOUS
<1>1. \A k \in TreeKeys : records[k] = None /\ storage[k] = None /\ \A s \in Slots : calls[k][s] = None
  BY DEF Init, NoRecords, NoCalls
<1> QED  BY <1>1, InitTyped DEF RegistryInv, RecordsOK, CallsOK, DirtyHasPublisher, Dirty

LEMMA StepInv == RegistryInv /\ [Next]_vars => RegistryInv'
  BY StepTyped, StepSafe, StepPublisher DEF RegistryInv

THEOREM Invariance == Spec => []RegistryInv
  BY InitInv, StepInv, PTL DEF Spec

(***************************************************************************)
(* A write waiting to be published never gets stuck (schedulePublish,      *)
(* doPublish and hydrate).                                                 *)
(***************************************************************************)
THEOREM NeverStuck == Spec => []DirtyHasPublisher
<1>1. RegistryInv => DirtyHasPublisher
  BY DEF RegistryInv
<1> QED  BY <1>1, Invariance, PTL

(***************************************************************************)
(* A local write is taken for published only once its root was (doPublish):*)
(* under the name of its tree and an account that has been logged in,      *)
(* which is all that publishFn lets the registry know.                     *)
(***************************************************************************)
THEOREM CleanIsPublished == Spec => []CleanWriteWasPublished
<1>1. RegistryInv => CleanWriteWasPublished
  BY DEF RegistryInv, RecordsOK, RecordOK, HasEvent, CleanWriteWasPublished
<1> QED  BY <1>1, Invariance, PTL

(* Nobody has been logged in but the owner of the trees. *)
OnlyTheOwner == \A k \in TreeKeys : users \subseteq {k[1]}

(***************************************************************************)
(* While nobody but the owner of the trees has been logged in, a local     *)
(* write is only taken for published once its root was put on the relays   *)
(* for that very tree.                                                     *)
(***************************************************************************)
THEOREM CleanIsInItsOwnTree == Spec => [](OnlyTheOwner => CleanInItsOwnTree)
<1>1. ASSUME RegistryInv, OnlyTheOwner  PROVE CleanInItsOwnTree
  <2> SUFFICES ASSUME NEW k \in TreeKeys, records[k] # None,
                      records[k].source = "local-write", ~records[k].dirty
               PROVE  \E e \in published : e.tree = k /\ e.hash = records[k].hash
    BY DEF CleanInItsOwnTree
  <2>1. PICK e \in published : e.tree \in Destinations(k) /\ e.hash = records[k].hash
    BY <1>1 DEF RegistryInv, RecordsOK, RecordOK, HasEvent
  <2>2. PICK a \in users : e.tree = <<a, k[2]>>
    BY <2>1 DEF Destinations
  <2>3. a = k[1] /\ k \in Accounts \X TreeNames
    BY <1>1, RegistryAssumption DEF OnlyTheOwner
  <2>4. e.tree = k
    BY <2>2, <2>3
  <2> QED  BY <2>1, <2>4
<1>2. RegistryInv => (OnlyTheOwner => CleanInItsOwnTree)
  BY <1>1
<1> QED  BY <1>2, Invariance, PTL

-----------------------------------------------------------------------------
(* Durability. *)

LEMMA StorageInit == Init => StorageIsCurrent
  BY DEF Init, StorageIsCurrent

(* Every step that changes a record writes the map of records back. *)
LEMMA StorageStep == TypeOK /\ StorageIsCurrent /\ [Next]_vars => StorageIsCurrent'
<1> SUFFICES ASSUME TypeOK, [Next]_vars, ~QuotaErrors, storage = records
             PROVE  storage' = records'
  BY DEF StorageIsCurrent
<1>1. CASE Save(records')
  BY <1>1, SaveTyped
<1>2. CASE UNCHANGED <<records, storage>>
  BY <1>2
<1>3. CASE Update
  <2>1. ASSUME NEW k, NEW h, NEW key, MergeKey(k, h, key)  PROVE Save(records')
    BY <2>1 DEF MergeKey
  <2>2. ASSUME NEW k, NEW h, NEW o, SetLocal(k, h, o)  PROVE Save(records')
    BY <2>2 DEF SetLocal
  <2>3. ASSUME NEW k, NEW h, NEW ts, NEW src, NEW o, NEW v, Learn(k, h, ts, src, o, v)
        PROVE  Save(records')
    BY <2>3 DEF Learn
  <2>4. ASSUME NEW k, NEW h, NEW ts, NEW o,
               \/ SetFromResolver(k, h, ts, o)
               \/ SetFromWorker(k, h, ts, o)
               \/ SetFromExternal(k, h, ts, o)
        PROVE  \E src, v : Learn(k, h, ts, src, o, v)
    BY <2>4 DEF SetFromResolver, SetFromWorker, SetFromExternal
  <2> QED  BY <1>1, <1>3, <2>1, <2>2, <2>3, <2>4 DEF Update
<1>4. ASSUME NEW k \in TreeKeys, Delete(k)  PROVE Save(records')
  BY <1>4 DEF Delete
<1>5. CASE Publish
  <2>1. ASSUME NEW k \in TreeKeys, NEW s \in Slots, PublishSucceeds(k, s)
        PROVE  Save(records') \/ UNCHANGED <<records, storage>>
    BY <2>1 DEF PublishSucceeds
  <2>2. CASE SetPublishFn \/ FlushPendingPublishes
    BY <1>2, <2>2 DEF SetPublishFn, FlushPendingPublishes
  <2>3. ASSUME NEW k \in TreeKeys, NEW s \in Slots, EventSent(k, s) \/ PublishFails(k, s)
        PROVE  UNCHANGED <<records, storage>>
    BY <2>3 DEF EventSent, PublishFails
  <2> QED  BY <1>1, <1>2, <1>5, <2>1, <2>2, <2>3 DEF Publish
<1>6. ASSUME NEW k \in TreeKeys, TimerFires(k)  PROVE UNCHANGED <<records, storage>>
  BY <1>6 DEF TimerFires
<1>7. CASE Tick \/ ChangeAccount \/ UNCHANGED vars
  BY <1>2, <1>7 DEF Tick, ChangeAccount, Login, Logout, vars
<1>8. CASE Reload
  BY <1>8 DEF Reload
<1> QED  BY <1>1, <1>2, <1>3, <1>4, <1>5, <1>6, <1>7, <1>8 DEF Next

(* A reload at any moment loses nothing (LocalStoragePersistence). *)
THEOREM Durable == Spec => []StorageIsCurrent
  BY StorageInit, StorageStep, TypeCorrect, PTL DEF Spec

-----------------------------------------------------------------------------
(* What may happen to an unpublished write. *)

LEMMA StepYields ==
    ASSUME RegistryInv, [Next]_vars, NEW k \in TreeKeys
    PROVE  YieldsToWrites(k)
<1> SUFFICES ASSUME Dirty(k), records'[k] # None, reloads' = reloads
             PROVE  \/ records'[k].obj > records[k].obj
                    \/ /\ records'[k].hash = records[k].hash
                       /\ records'[k].visibility = records[k].visibility
                       /\ records'[k].labels = records[k].labels
  BY DEF YieldsToWrites
<1>0. /\ TypeOK /\ records[k] \in Record /\ records[k].obj <= writes
      /\ writes \in Nat /\ records[k].obj \in Nat
  BY DEF RegistryInv, RecordsOK, RecordOK, Dirty, TypeOK, Record
<1>1. CASE records'[k] = records[k]
  BY <1>1
<1>2. CASE Update
  <2>1. PICK t \in TreeKeys, h \in Hashes :
          \/ \E key \in ContentKeys : MergeKey(t, h, key) /\ key \in KeysFor[h]
          \/ \E o \in Options(h) : SetLocal(t, h, o)
          \/ \E o \in Options(h), ts \in Nat :
                  \/ SetFromResolver(t, h, ts, o)
                  \/ SetFromWorker(t, h, ts, o)
                  \/ SetFromExternal(t, h, ts, o)
    BY <1>2, UpdateCases
  <2>2. CASE t # k
    <3>1. records'[k] = records[k]
      BY <1>0, <2>1, <2>2 DEF MergeKey, Mutate, SetLocal, SetFromResolver, SetFromWorker,
         SetFromExternal, Learn, TypeOK
    <3> QED  BY <1>1, <3>1
  <2>3. ASSUME t = k, NEW key \in ContentKeys, MergeKey(k, h, key)
        PROVE  /\ records'[k].hash = records[k].hash
               /\ records'[k].visibility = records[k].visibility
               /\ records'[k].labels = records[k].labels
    <3>1. records'[k] = [records[k] EXCEPT !.key = key]
      BY <1>0, <2>3 DEF MergeKey, Mutate, TypeOK
    <3> QED  BY <1>0, <3>1 DEF Record
  <2>4. ASSUME t = k, NEW o \in Options(h), SetLocal(k, h, o)
        PROVE  records'[k].obj > records[k].obj
    <3>1. /\ o \in Option /\ now \in Nat /\ records[k] \in Maybe(Record)
          /\ writes' = writes + 1 /\ writes' \in Nat
      BY <1>0, <2>4, OptionsTyped DEF SetLocal, TypeOK, Maybe
    <3>2. records'[k] = LocalRecord(records[k], h, now, o, writes')
      BY <1>0, <2>4 DEF SetLocal, TypeOK
    <3>3. records'[k].obj = writes'
      BY <3>1, <3>2, LocalRecordFacts
    <3> QED  BY <1>0, <3>1, <3>3
  <2>5. ASSUME t = k, NEW o \in Options(h), NEW ts \in Nat,
               \/ SetFromResolver(t, h, ts, o)
               \/ SetFromWorker(t, h, ts, o)
               \/ SetFromExternal(t, h, ts, o)
        PROVE  FALSE
    <3>1. o \in Option
      BY OptionsTyped
    <3>2. PICK src \in Sources \ {"local-write"}, v \in Visibilities : Learn(t, h, ts, src, o, v)
      BY <1>0, <2>5, <3>1, SettersLearn
    <3>3. ~records[k].dirty
      BY <1>0, <2>5, <3>1, <3>2, LearnFacts DEF Dirty
    <3> QED  BY <3>3 DEF Dirty
  <2> QED  BY <2>1, <2>2, <2>3, <2>4, <2>5
<1>3. ASSUME NEW t \in TreeKeys, Delete(t)  PROVE records'[k] = records[k]
  BY <1>0, <1>3 DEF Delete, TypeOK
<1>4. CASE Publish
  <2>1. ASSUME NEW t \in TreeKeys, NEW s \in Slots, PublishSucceeds(t, s),
               records'[k] # records[k]
        PROVE  records'[k] = [records[k] EXCEPT !.dirty = FALSE]
    BY <1>0, <2>1, ZenonT(30) DEF PublishSucceeds, TypeOK
  <2>2. ASSUME NEW t \in TreeKeys, NEW s \in Slots, EventSent(t, s) \/ PublishFails(t, s)
        PROVE  records'[k] = records[k]
    BY <2>2 DEF EventSent, PublishFails
  <2>3. CASE SetPublishFn \/ FlushPendingPublishes
    BY <1>1, <2>3 DEF SetPublishFn, FlushPendingPublishes
  <2>4. LET r == [records[k] EXCEPT !.dirty = FALSE]
        IN  r.hash = records[k].hash /\ r.visibility = records[k].visibility
            /\ r.labels = records[k].labels
    BY <1>0 DEF Record
  <2> QED  BY <1>1, <1>4, <2>1, <2>2, <2>3, <2>4 DEF Publish
<1>5. CASE Tick \/ ChangeAccount \/ UNCHANGED vars \/ \E t \in TreeKeys : TimerFires(t)
  BY <1>1, <1>5 DEF Tick, ChangeAccount, Login, Logout, vars, TimerFires
<1>6. CASE Reload
  BY <1>0, <1>6 DEF Reload, TypeOK
<1> QED  BY <1>1, <1>2, <1>3, <1>4, <1>5, <1>6 DEF Next

(* Nothing but a newer write or a delete replaces an unpublished write (shouldAcceptUpdate). *)
THEOREM WritesSurvive == Spec => DirtyYieldsOnlyToWrites
<1>1. RegistryInv /\ [Next]_vars => [\A k \in TreeKeys : YieldsToWrites(k)]_vars
  BY StepYields
<1> QED  BY <1>1, Invariance, PTL DEF Spec, DirtyYieldsOnlyToWrites

-----------------------------------------------------------------------------
(***************************************************************************)
(* Keys and roots.  A publish in flight may send a record that has been    *)
(* replaced since, so the invariant speaks of its record as well.          *)
(***************************************************************************)
KeyFits(r) == r.key \in KeysFor[r.hash] \cup {None}

KeysFit(recs) == \A k \in TreeKeys : recs[k] # None => KeyFits(recs[k])

KeysInv ==
    /\ KeysFit(records) /\ KeysFit(storage)
    /\ \A e \in published : KeyFits(e)
    /\ \A k \in TreeKeys, s \in Slots : calls[k][s] # None => KeyFits(calls[k][s].rec)

(* An accepted event keeps the known key for the same root only. *)
LEMMA EventRecordFits ==
    ASSUME NEW e, NEW h, NEW ts, NEW src, NEW o \in Options(h), NEW v,
           e # None => KeyFits(e)
    PROVE  KeyFits(EventRecord(e, h, ts, src, o, v))
  BY DEF KeyFits, EventRecord, OrElse, SameHash, Options

(* Merging fills in the key of an update of the same root. *)
LEMMA MergeFits ==
    ASSUME NEW e \in Maybe(Record), NEW h \in Hashes, NEW o \in Options(h),
           e # None => KeyFits(e), MergeSameHashMetadata(e, h, o) # e
    PROVE  KeyFits(MergeSameHashMetadata(e, h, o))
<1>1. e \in Record /\ e.hash = h /\ ~e.dirty /\ SameHash(e, h) /\ KeyFits(e)
  BY RecordsAssumption DEF MergeSameHashMetadata, Maybe, SameHash
<1> DEFINE m == MergeSameHashMetadata(e, h, o)
<1>2. m.hash = h /\ m.key = OrElse(e.key, o.key)
  BY <1>1 DEF MergeSameHashMetadata, Record
<1>3. o.key \in KeysFor[h] \cup {None}
  BY DEF Options
<1> HIDE DEF m
<1>4. KeyFits(m)
  BY <1>1, <1>2, <1>3 DEF KeyFits, OrElse
<1> QED  BY <1>4 DEF m

(* A step that leaves one record changed, and lets publishes see it, keeps KeysInv. *)
LEMMA RecordFits ==
    ASSUME TypeOK, KeysInv, NEW k \in TreeKeys, NEW r \in Record, KeyFits(r),
           records' = [records EXCEPT ![k] = r],
           storage' \in {records', storage}, UNCHANGED published,
           NEW rest \in [TreeKeys -> [Slots -> Maybe(Call)]],
           \A t \in TreeKeys, s \in Slots : rest[t][s] \in {None, calls[t][s]},
           calls' \in {rest, [rest EXCEPT ![k] = SeenBy(@, r)]}
    PROVE  KeysInv'
<1>1. KeysFit(records')
  BY DEF KeysInv, KeysFit, TypeOK
<1>2. KeysFit(storage')
  BY <1>1 DEF KeysInv
<1>3. ASSUME NEW t \in TreeKeys, NEW s \in Slots, calls'[t][s] # None
      PROVE  KeyFits(calls'[t][s].rec)
  <2>1. rest[t][s] # None => KeyFits(rest[t][s].rec)
    BY DEF KeysInv
  <2>2. CASE calls'[t][s] = rest[t][s]
    BY <1>3, <2>1, <2>2
  <2>3. CASE calls'[t][s] = SeenBy(rest[t], r)[s]
    <3>1. rest[t][s] # None
      BY <1>3, <2>3, SeenByFacts
    <3>2. calls'[t][s].rec \in {rest[t][s].rec, r}
      BY <2>3, <3>1, SeenByFacts
    <3> QED  BY <2>1, <3>1, <3>2
  <2> QED  BY <2>2, <2>3
<1> QED  BY <1>1, <1>2, <1>3 DEF KeysInv, KeysFit, KeyFits

(* A learnt root leaves a record whose key fits. *)
LEMMA LearnFits ==
    ASSUME TypeOK, KeysInv, NEW k \in TreeKeys, NEW h \in Hashes, NEW ts \in Nat,
           NEW src \in Sources, NEW o \in Options(h), NEW v \in Visibilities,
           Learn(k, h, ts, src, o, v)
    PROVE  KeysInv'
<1> DEFINE e == records[k]
           m == MergeSameHashMetadata(e, h, o)
           r == EventRecord(e, h, ts, src, o, v)
<1>1. /\ e \in Maybe(Record) /\ (e # None => KeyFits(e)) /\ o \in Option
      /\ calls \in [TreeKeys -> [Slots -> Maybe(Call)]]
  BY OptionsTyped DEF TypeOK, Maybe, KeysInv, KeysFit
<1>2. Save(records') /\ UNCHANGED published
  BY DEF Learn
<1>3. CASE ShouldAcceptUpdate(e, h, o.key, ts)
  <2>1. r \in Record /\ KeyFits(r)
    BY <1>1, EventRecordFacts, EventRecordFits
  <2>2. records' = [records EXCEPT ![k] = r] /\ UNCHANGED calls
    BY <1>3 DEF Learn
  <2> HIDE DEF r
  <2> QED  BY <1>1, <1>2, <2>1, <2>2, SaveTyped, RecordFits
<1>4. CASE ~ShouldAcceptUpdate(e, h, o.key, ts)
  <2>1. m # e /\ Mutate(k, m)
    BY <1>4 DEF Learn
  <2>2. m \in Record /\ KeyFits(m)
    BY <1>1, <2>1, MergeFacts, MergeFits
  <2> HIDE DEF m
  <2>3. records' = [records EXCEPT ![k] = m] /\ calls' = [calls EXCEPT ![k] = SeenBy(@, m)]
    BY <2>1 DEF Mutate
  <2> QED  BY <1>1, <1>2, <2>2, <2>3, SaveTyped, RecordFits
<1> QED  BY <1>3, <1>4

(* Every update keeps keys with their roots. *)
LEMMA UpdateFits ==
    ASSUME TypeOK, KeysInv, Update
    PROVE  KeysInv'
<1>1. PICK k \in TreeKeys, h \in Hashes :
          \/ \E key \in ContentKeys : MergeKey(k, h, key) /\ key \in KeysFor[h]
          \/ \E o \in Options(h) : SetLocal(k, h, o)
          \/ \E o \in Options(h), ts \in Nat :
                  \/ SetFromResolver(k, h, ts, o)
                  \/ SetFromWorker(k, h, ts, o)
                  \/ SetFromExternal(k, h, ts, o)
  BY UpdateCases
<1>2. calls \in [TreeKeys -> [Slots -> Maybe(Call)]]
  BY DEF TypeOK, Maybe
<1>3. ASSUME NEW key \in ContentKeys, MergeKey(k, h, key), key \in KeysFor[h]
      PROVE  KeysInv'
  <2> DEFINE q == [records[k] EXCEPT !.key = key]
  <2>1. records[k] # None /\ records[k] \in Record /\ records[k].hash = h
    BY <1>3 DEF MergeKey, SameHash, TypeOK
  <2>2. q \in Record /\ KeyFits(q)
    BY <1>3, <2>1 DEF Record, KeyFits
  <2>3. /\ records' = [records EXCEPT ![k] = q] /\ calls' = [calls EXCEPT ![k] = SeenBy(@, q)]
        /\ Save(records') /\ UNCHANGED published
    BY <1>3 DEF MergeKey, Mutate
  <2> HIDE DEF q
  <2> QED  BY <1>2, <2>2, <2>3, SaveTyped, RecordFits
<1>4. ASSUME NEW o \in Options(h), SetLocal(k, h, o)
      PROVE  KeysInv'
  <2> DEFINE q == LocalRecord(records[k], h, now, o, writes')
  <2>1. /\ o \in Option /\ now \in Nat /\ records[k] \in Maybe(Record) /\ writes' \in Nat
    BY <1>4, OptionsTyped DEF SetLocal, TypeOK, Maybe
  <2>2. q \in Record
    BY <2>1, LocalRecordFacts
  <2>3. KeyFits(q)
    BY DEF LocalRecord, KeyFits, Options
  <2>4. /\ records' = [records EXCEPT ![k] = q] /\ Save(records')
        /\ UNCHANGED <<published, calls>>
    BY <1>4 DEF SetLocal
  <2> HIDE DEF q
  <2> QED  BY <1>2, <2>2, <2>3, <2>4, SaveTyped, RecordFits
<1>5. ASSUME NEW o \in Options(h), NEW ts \in Nat,
             \/ SetFromResolver(k, h, ts, o)
             \/ SetFromWorker(k, h, ts, o)
             \/ SetFromExternal(k, h, ts, o)
      PROVE  KeysInv'
  <2>1. PICK src \in Sources \ {"local-write"}, v \in Visibilities : Learn(k, h, ts, src, o, v)
    BY <1>5, OptionsTyped, SettersLearn
  <2> QED  BY <2>1, LearnFits
<1> QED  BY <1>1, <1>3, <1>4, <1>5

(* Every other step keeps keys with their roots. *)
LEMMA StepFits ==
    ASSUME TypeOK, KeysInv, [Next]_vars
    PROVE  KeysInv'
<1>0. calls \in [TreeKeys -> [Slots -> Maybe(Call)]]
  BY DEF TypeOK, Maybe
<1>1. CASE Update
  BY <1>1, UpdateFits
<1>2. ASSUME NEW k \in TreeKeys, Delete(k)  PROVE KeysInv'
  <2>1. records' = [records EXCEPT ![k] = None] /\ storage' \in {records', storage}
    BY <1>2, SaveTyped DEF Delete
  <2>2. KeysFit(records')
    BY <2>1 DEF KeysInv, KeysFit, TypeOK
  <2> QED  BY <1>2, <2>1, <2>2 DEF Delete, KeysInv, KeysFit
<1>3. ASSUME NEW due \in SUBSET TreeKeys, StartPublish(due), \A k \in due : Dirty(k),
             UNCHANGED <<records, storage, published>>
      PROVE  KeysInv'
  <2>1. \A t \in TreeKeys, s \in Slots :
           calls'[t][s] = calls[t][s] \/ (t \in due /\ calls'[t][s] = [rec |-> records[t], sent |-> FALSE])
    BY <1>3, StartFacts
  <2>2. ASSUME NEW t \in TreeKeys, NEW s \in Slots, calls'[t][s] # None
        PROVE  KeyFits(calls'[t][s].rec)
    <3>1. CASE calls'[t][s] = calls[t][s]
      BY <2>2, <3>1 DEF KeysInv
    <3>2. CASE t \in due /\ calls'[t][s] = [rec |-> records[t], sent |-> FALSE]
      <4>1. KeyFits(records[t]) /\ calls'[t][s].rec = records[t]
        BY <1>3, <3>2 DEF KeysInv, KeysFit, Dirty
      <4> QED  BY <4>1
    <3> QED  BY <2>1, <3>1, <3>2
  <2> QED  BY <1>3, <2>2 DEF KeysInv, KeysFit, KeyFits
<1>4. CASE SetPublishFn \/ Tick \/ ChangeAccount \/ UNCHANGED vars
  BY <1>4 DEF SetPublishFn, Tick, ChangeAccount, Login, Logout, vars, KeysInv, KeysFit, KeyFits
<1>5. CASE FlushPendingPublishes
  <2> DEFINE due == {k \in timers : Publishable(k)}
  <2>1. due \in SUBSET TreeKeys /\ \A k \in due : Dirty(k)
    BY DEF TypeOK, Publishable
  <2>2. StartPublish(due) /\ UNCHANGED <<records, storage, published>>
    BY <1>5 DEF FlushPendingPublishes
  <2> HIDE DEF due
  <2> QED  BY <1>3, <2>1, <2>2
<1>6. ASSUME NEW k \in TreeKeys, TimerFires(k)  PROVE KeysInv'
  <2>1. \A t \in (IF Publishable(k) THEN {k} ELSE {}) : Dirty(t)
    BY DEF Publishable
  <2> QED  BY <1>3, <1>6, <2>1 DEF TimerFires
<1>7. ASSUME NEW k \in TreeKeys, NEW s \in Slots, EventSent(k, s)  PROVE KeysInv'
  <2>1. calls[k][s] # None /\ calls[k][s] \in Call /\ KeyFits(calls[k][s].rec)
    BY <1>7 DEF EventSent, TypeOK, KeysInv
  <2>2. \A e \in published' : KeyFits(e)
    BY <1>7, <2>1 DEF EventSent, EventOf, KeyFits, KeysInv
  <2>3. ASSUME NEW t \in TreeKeys, NEW i \in Slots, calls'[t][i] # None
        PROVE  KeyFits(calls'[t][i].rec)
    <3>1. calls[t][i] # None /\ calls'[t][i].rec = calls[t][i].rec
      BY <1>0, <1>7, <2>1, <2>3 DEF EventSent, Call
    <3> QED  BY <3>1 DEF KeysInv
  <2> QED  BY <1>7, <2>2, <2>3 DEF EventSent, KeysInv, KeysFit, KeyFits
<1>8. ASSUME NEW k \in TreeKeys, NEW s \in Slots, PublishFails(k, s)  PROVE KeysInv'
  <2>1. \A t \in TreeKeys, i \in Slots : calls'[t][i] \in {None, calls[t][i]}
    BY <1>0, <1>8 DEF PublishFails
  <2> QED  BY <1>8, <2>1 DEF PublishFails, KeysInv, KeysFit, KeyFits
<1>9. ASSUME NEW k \in TreeKeys, NEW s \in Slots, PublishSucceeds(k, s)  PROVE KeysInv'
  <2> DEFINE rest == [calls EXCEPT ![k][s] = None]
             clean == [records[k] EXCEPT !.dirty = FALSE]
  <2>1. rest \in [TreeKeys -> [Slots -> Maybe(Call)]]
    BY <1>0 DEF Maybe
  <2>2. \A t \in TreeKeys, i \in Slots : rest[t][i] \in {None, calls[t][i]}
    BY <1>0
  <2>3. CASE SameHash(records[k], calls[k][s].rec.hash)
    <3>1. records[k] # None /\ records[k] \in Record /\ KeyFits(records[k])
      BY <2>3 DEF SameHash, TypeOK, KeysInv, KeysFit
    <3>2. clean \in Record /\ KeyFits(clean)
      BY <3>1 DEF Record, KeyFits
    <3>3. /\ records' = [records EXCEPT ![k] = clean]
          /\ calls' = [rest EXCEPT ![k] = SeenBy(@, clean)]
          /\ Save(records') /\ UNCHANGED published
      BY <1>9, <2>3 DEF PublishSucceeds
    <3> HIDE DEF rest, clean
    <3> QED  BY <2>1, <2>2, <3>2, <3>3, SaveTyped, RecordFits
  <2>4. CASE ~SameHash(records[k], calls[k][s].rec.hash)
    <3>1. calls' = rest /\ UNCHANGED <<records, storage, published>>
      BY <1>9, <2>4 DEF PublishSucceeds
    <3> HIDE DEF rest
    <3> QED  BY <2>2, <3>1 DEF KeysInv, KeysFit, KeyFits
  <2> QED  BY <2>3, <2>4
<1>10. CASE Reload
  <2>1. \A t \in TreeKeys, i \in Slots : calls'[t][i] = None
    BY <1>10 DEF Reload, NoCalls
  <2> QED  BY <1>10, <2>1 DEF Reload, KeysInv, KeysFit, KeyFits
<1> QED  BY <1>1, <1>2, <1>4, <1>5, <1>6, <1>7, <1>8, <1>9, <1>10 DEF Next, Publish

(* Initially there is no record. *)
LEMMA InitFits == Init => KeysInv
  BY DEF Init, KeysInv, KeysFit, NoRecords, NoCalls

(***************************************************************************)
(* A root is never paired with the key of another root, in memory, in      *)
(* localStorage or on the relays, also when a record is mutated while a    *)
(* publish that holds it is in flight.                                     *)
(***************************************************************************)
THEOREM KeysStayWithRoots == Spec => []KeyMatchesHash
<1>1. TypeOK /\ KeysInv /\ [Next]_vars => KeysInv'
  BY StepFits
<1>2. KeysInv => KeyMatchesHash
  BY DEF KeysInv, KeysFit, KeyFits, KeyMatchesHash
<1> QED  BY <1>1, <1>2, InitFits, TypeCorrect, PTL DEF Spec

-----------------------------------------------------------------------------
(* The registry with those who listen to it: a waiting call. *)

WaitersTyped == waiting \in [Callers -> TreeKeys \cup {None}]

SubscribersInv == TypeOK /\ WaitersTyped /\ WaitsOnlyForAbsent

-----------------------------------------------------------------------------
(* Every step of the whole is a step of the registry or leaves it alone. *)
LEMMA StepsOfRegistry == [SubscribersNext]_allVars => [Next]_vars
  BY DEF SubscribersNext, Next, allVars, vars

(* Nothing but an update or a reload makes the record of a tree appear. *)
LEMMA RecordsAppear ==
    ASSUME TypeOK, NEW t \in TreeKeys, records[t] = None,
           \/ Publish
           \/ Tick \/ ChangeAccount
           \/ \E k \in TreeKeys : Delete(k) \/ TimerFires(k)
    PROVE  records'[t] = None
<1>0. records \in [TreeKeys -> Record \cup {None}]
  BY DEF TypeOK
<1>1. CASE Publish
  <2>1. CASE SetPublishFn \/ FlushPendingPublishes
    BY <2>1 DEF SetPublishFn, FlushPendingPublishes
  <2>2. ASSUME NEW k \in TreeKeys, NEW s \in Slots,
               EventSent(k, s) \/ PublishSucceeds(k, s) \/ PublishFails(k, s)
        PROVE  records'[t] = None
    <3>1. CASE EventSent(k, s) \/ PublishFails(k, s)
      BY <3>1 DEF EventSent, PublishFails
    <3>2. CASE PublishSucceeds(k, s)
      <4>1. CASE SameHash(records[k], calls[k][s].rec.hash)
        <5>1. records[k] # None
          BY <4>1 DEF SameHash
        <5> QED  BY <1>0, <3>2, <4>1, <5>1 DEF PublishSucceeds
      <4>2. CASE ~SameHash(records[k], calls[k][s].rec.hash)
        BY <3>2, <4>2 DEF PublishSucceeds
      <4> QED  BY <4>1, <4>2
    <3> QED  BY <2>2, <3>1, <3>2
  <2> QED  BY <1>1, <2>1, <2>2 DEF Publish
<1>2. CASE Tick \/ ChangeAccount
  BY <1>2 DEF Tick, ChangeAccount, Login, Logout
<1>3. ASSUME NEW k \in TreeKeys, Delete(k) \/ TimerFires(k)
      PROVE  records'[t] = None
  BY <1>0, <1>3 DEF Delete, TimerFires
<1> QED  BY <1>1, <1>2, <1>3

(* notify() leaves a call waiting only if the tree it waits for did not get a record. *)
LEMMA NotifyFacts ==
    ASSUME NEW changed, Notify(changed), NEW c \in Callers
    PROVE  /\ waiting'[c] \in {waiting[c], None}
           /\ waiting'[c] # None /\ waiting[c] \in changed => records'[waiting[c]] = None
  BY DEF Notify

(* Notify and the steps of a caller keep what waits a tree or nothing. *)
LEMMA WaitersStep ==
    ASSUME WaitersTyped, [SubscribersNext]_allVars
    PROVE  WaitersTyped'
<1>1. ASSUME NEW changed, Notify(changed)  PROVE WaitersTyped'
  BY <1>1 DEF Notify, WaitersTyped
<1>2. CASE SubscriberStep
  <2>1. ASSUME NEW l \in Listeners,
               \/ \E k \in TreeKeys : Subscribe(l, k)
               \/ DeliverSnapshot(l) \/ Unsubscribe(l)
        PROVE  WaitersTyped'
    BY <2>1 DEF Subscribe, DeliverSnapshot, Unsubscribe, WaitersTyped
  <2>2. ASSUME NEW c \in Callers,
               (\E k \in TreeKeys : Resolve(c, k)) \/ ResolveTimeout(c)
        PROVE  WaitersTyped'
    BY <2>2 DEF Resolve, ResolveTimeout, WaitersTyped
  <2> QED  BY <1>2, <2>1, <2>2 DEF SubscriberStep
<1>3. CASE UNCHANGED subVars
  BY <1>3 DEF subVars, WaitersTyped
<1>4. CASE waiting' = [c \in Callers |-> None]
  BY <1>4 DEF WaitersTyped
<1> QED  BY <1>1, <1>2, <1>3, <1>4 DEF SubscribersNext, allVars, subVars

-----------------------------------------------------------------------------
(* No step leaves a call waiting for a tree that has a record. *)
LEMMA AbsentStep ==
    ASSUME SubscribersInv, [SubscribersNext]_allVars
    PROVE  WaitsOnlyForAbsent'
<1> SUFFICES ASSUME NEW c \in Callers, waiting'[c] # None
             PROVE  records'[waiting'[c]] = None
  BY DEF WaitsOnlyForAbsent
<1>0. /\ TypeOK
      /\ waiting[c] # None => waiting[c] \in TreeKeys /\ records[waiting[c]] = None
  BY DEF SubscribersInv, WaitersTyped, WaitsOnlyForAbsent
<1>1. CASE Update /\ Notify(Changed)
  <2>1. waiting'[c] = waiting[c] /\ waiting[c] \in TreeKeys
    BY <1>0, <1>1, NotifyFacts
  <2>2. waiting[c] \in Changed => records'[waiting[c]] = None
    BY <1>1, <2>1, NotifyFacts
  <2> QED  BY <1>0, <2>1, <2>2 DEF Changed
<1>2. ASSUME NEW k \in TreeKeys, Delete(k), Notify({k})
      PROVE  records'[waiting'[c]] = None
  <2>1. waiting'[c] = waiting[c] /\ waiting[c] \in TreeKeys
    BY <1>0, <1>2, NotifyFacts
  <2> QED  BY <1>0, <1>2, <2>1, RecordsAppear
<1>3. CASE /\ Publish \/ Tick \/ ChangeAccount \/ \E k \in TreeKeys : TimerFires(k)
           /\ UNCHANGED subVars
  <2>1. waiting'[c] = waiting[c]
    BY <1>3 DEF subVars
  <2> QED  BY <1>0, <1>3, <2>1, RecordsAppear
<1>4. CASE waiting' = [d \in Callers |-> None]
  BY <1>4
<1>5. CASE SubscriberStep /\ UNCHANGED vars
  <2>1. records' = records
    BY <1>5 DEF vars
  <2>2. CASE waiting'[c] = waiting[c]
    BY <1>0, <2>1, <2>2
  <2>3. CASE waiting'[c] # waiting[c]
    <3>1. PICK d \in Callers : (\E k \in TreeKeys : Resolve(d, k)) \/ ResolveTimeout(d)
      BY <1>5, <2>3 DEF SubscriberStep, Subscribe, DeliverSnapshot, Unsubscribe
    <3>2. ~ResolveTimeout(d)
      BY <2>3 DEF ResolveTimeout, SubscribersInv, WaitersTyped
    <3>3. PICK k \in TreeKeys : Resolve(d, k)
      BY <3>1, <3>2
    <3>4. waiting'[c] = k /\ records[k] = None
      BY <2>3, <3>3 DEF Resolve, SubscribersInv, WaitersTyped
    <3> QED  BY <2>1, <3>4
  <2> QED  BY <2>2, <2>3
<1>6. CASE UNCHANGED allVars
  BY <1>0, <1>6 DEF allVars, vars, subVars
<1> QED  BY <1>1, <1>2, <1>3, <1>4, <1>5, <1>6 DEF SubscribersNext

(* Initially nothing waits. *)
LEMMA SubscribersInitInv == SubscribersInit => SubscribersInv
<1>1. Init => TypeOK
  BY InitTyped
<1> QED  BY <1>1 DEF SubscribersInit, SubscribersInv, WaitersTyped, WaitsOnlyForAbsent

(* The invariant is kept by every step of the registry and of its listeners. *)
LEMMA SubscribersStepInv == SubscribersInv /\ [SubscribersNext]_allVars => SubscribersInv'
<1> SUFFICES ASSUME SubscribersInv, [SubscribersNext]_allVars  PROVE SubscribersInv'
  OBVIOUS
<1>1. TypeOK'
  BY StepsOfRegistry, StepTyped DEF SubscribersInv
<1>2. WaitersTyped'
  BY WaitersStep DEF SubscribersInv
<1> QED  BY <1>1, <1>2, AbsentStep DEF SubscribersInv

(***************************************************************************)
(* None of the ways a record can appear (a local write, an event, the      *)
(* worker, a prefetch, a reload) leaves a call of resolve() waiting for    *)
(* its timeout.                                                            *)
(***************************************************************************)
THEOREM WaitersAreAnswered == SubscribersSpec => []WaitsOnlyForAbsent
<1>1. SubscribersInv => WaitsOnlyForAbsent
  BY DEF SubscribersInv
<1> QED  BY <1>1, SubscribersInitInv, SubscribersStepInv, PTL DEF SubscribersSpec
=============================================================================
