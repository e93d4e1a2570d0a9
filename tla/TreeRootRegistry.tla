-------------------------- MODULE TreeRootRegistry --------------------------
(***************************************************************************)
(* The tree root registry of one page (TreeRootRegistryImpl and            *)
(* LocalStoragePersistence in packages/hashtree-tree-root/src/index.ts).   *)
(* It holds the newest root of every tree, accepts local writes at once,   *)
(* publishes them later through a function it is given, and keeps a copy   *)
(* of everything in localStorage so that a reload loses nothing.           *)
(*                                                                         *)
(* Every method runs to completion in the page's event loop; only a        *)
(* publish in flight is concurrent with the rest.  publishFn reads the     *)
(* record some time after it is called, puts an event on the relays at     *)
(* most once, and reports success only if it did.  It signs with the       *)
(* account that is logged in at that time, whose trees need not be the     *)
(* ones of the record: accounts are changed in the page, and the registry  *)
(* is not told (apps/iris-files/src/treeRootCache.ts, nostr/auth.ts).      *)
(***************************************************************************)
EXTENDS TreeRootRecords

CONSTANTS
    Accounts,     \* npubs a user of this page may log in with
    TreeNames,    \* tree names
    TreeKeys,     \* "npub/treeName" keys of the trees: pairs of the two
    Slots,        \* bound: concurrent publishes of one tree
    MaxTime,      \* bound: the clock, in seconds
    MaxWrites,    \* bound: local writes
    MaxReloads,   \* bound: page reloads
    SlowStart,    \* may a throttle timer run out before setPublishFn is called?
    QuotaErrors   \* may localStorage.setItem throw?

VARIABLES
    records,    \* Map key -> record, in memory (None: no entry)
    storage,    \* the copy of that map in localStorage
    timers,     \* keys with a throttle or retry timer (publishTimers)
    publishFn,  \* has setPublishFn been called since the page was loaded?
    calls,      \* publishes in flight, per tree
    published,  \* history: what has been put on the relays
    account,    \* the account that is logged in (None: nobody is)
    users,      \* history: the accounts that have been logged in
    now,        \* Date.now() in seconds
    writes,     \* number of local writes so far
    reloads     \* number of page reloads so far

vars == <<records, storage, timers, publishFn, calls, published, now, writes, reloads,
          account, users>>

Call == [rec: Record, sent: BOOLEAN]

ASSUME RegistryAssumption ==
    /\ MaxTime \in Nat /\ MaxWrites \in Nat /\ MaxReloads \in Nat
    /\ SlowStart \in BOOLEAN /\ QuotaErrors \in BOOLEAN
    /\ TreeKeys \subseteq Accounts \X TreeNames
    /\ None \notin Call /\ None \notin Accounts

Event == [tree: Accounts \X TreeNames, hash: Hashes, key: ContentKeys \cup {None},
          visibility: Visibilities, labels: SUBSET Labels]

(* The event of a record of tree k: its author is the account, not the npub of k. *)
EventOf(k, r) == [tree |-> <<account, k[2]>>, hash |-> r.hash, key |-> r.key,
                  visibility |-> r.visibility, labels |-> r.labels]

Dirty(k) == records[k] # None /\ records[k].dirty

TypeOK ==
    /\ records \in [TreeKeys -> Record \cup {None}]
    /\ storage \in [TreeKeys -> Record \cup {None}]
    /\ timers \subseteq TreeKeys
    /\ publishFn \in BOOLEAN
    /\ calls \in [TreeKeys -> [Slots -> Call \cup {None}]]
    /\ published \subseteq Event
    /\ now \in Nat /\ writes \in Nat /\ reloads \in Nat
    /\ users \subseteq Accounts /\ account \in users \cup {None}

-----------------------------------------------------------------------------

NoRecords == [k \in TreeKeys |-> None]
NoCalls == [k \in TreeKeys |-> [s \in Slots |-> None]]

Init ==
    /\ records = NoRecords /\ storage = NoRecords
    /\ timers = {} /\ publishFn = FALSE
    /\ calls = NoCalls /\ published = {}
    /\ account = None /\ users = {}
    /\ now = 0 /\ writes = 0 /\ reloads = 0

(* save() and delete() write the whole map; an exception of setItem is swallowed. *)
Save(recs) == storage' \in {recs} \cup (IF QuotaErrors THEN {storage} ELSE {})

(***************************************************************************)
(* Some methods mutate the record object in place, and a publish that has  *)
(* not read its record yet sees the change if it holds the same object.    *)
(***************************************************************************)
SeenBy(tree, r) ==
    [s \in Slots |-> IF tree[s] # None /\ ~tree[s].sent /\ tree[s].rec.obj = r.obj
                     THEN [tree[s] EXCEPT !.rec = r] ELSE tree[s]]

Mutate(k, r) ==
    /\ records' = [records EXCEPT ![k] = r]
    /\ calls' = [calls EXCEPT ![k] = SeenBy(@, r)]

(* setLocal: overwrite, mark dirty, save, schedule a publish. *)
SetLocal(k, h, o) ==
    /\ writes < MaxWrites
    /\ writes' = writes + 1
    /\ records' = [records EXCEPT ![k] = LocalRecord(@, h, now, o, writes')]
    /\ Save(records')
    /\ timers' = timers \cup {k}
    /\ UNCHANGED <<publishFn, calls, published, now, reloads, account, users>>

(* The common part of the three setters for roots learnt from elsewhere. *)
Learn(k, h, ts, src, o, visibility) ==
    LET e == records[k]
        merged == MergeSameHashMetadata(e, h, o)
    IN  /\ \/ /\ ShouldAcceptUpdate(e, h, o.key, ts)
              /\ records' = [records EXCEPT ![k] = EventRecord(e, h, ts, src, o, visibility)]
              /\ UNCHANGED calls
           \/ /\ ~ShouldAcceptUpdate(e, h, o.key, ts)
              /\ merged # e
              /\ Mutate(k, merged)
        /\ Save(records')
        /\ UNCHANGED <<timers, publishFn, published, now, writes, reloads, account, users>>

SetFromResolver(k, h, ts, o) == Learn(k, h, ts, "nostr", o, "public")

SetFromWorker(k, h, ts, o) == Learn(k, h, ts, "worker", o, "public")

(* A prefetched root keeps the known visibility when it carries none. *)
SetFromExternal(k, h, ts, o) ==
    Learn(k, h, ts, "prefetch", o, IF records[k] # None THEN records[k].visibility ELSE "public")

(* Mutant: the merged key is not saved. *)
MergeKeyUnsaved(k, h, key) ==
    /\ SameHash(records[k], h)
    /\ records[k].key = None
    /\ Mutate(k, [records[k] EXCEPT !.key = key])
    /\ UNCHANGED <<storage, timers, publishFn, published, now, writes, reloads, account, users>>

(* mergeKey: the one remote change a dirty record admits. *)
MergeKey(k, h, key) ==
    /\ SameHash(records[k], h)
    /\ records[k].key = None
    /\ Mutate(k, [records[k] EXCEPT !.key = key])
    /\ Save(records')
    /\ UNCHANGED <<timers, publishFn, published, now, writes, reloads, account, users>>

(* delete().  The app's cancelPendingPublish() clears the timer and then calls it. *)
Delete(k) ==
    /\ records' = [records EXCEPT ![k] = None]
    /\ timers' = timers \ {k}
    /\ Save(records')
    /\ UNCHANGED <<publishFn, calls, published, now, writes, reloads, account, users>>

SetPublishFn ==
    /\ publishFn' = TRUE
    /\ UNCHANGED <<records, storage, timers, calls, published, now, writes, reloads, account, users>>

-----------------------------------------------------------------------------
(* Publishing. *)

(* doPublish returns early for a missing or clean record or without publishFn. *)
Publishable(k) == Dirty(k) /\ publishFn

(* Call publishFn for every tree of `due', each in a slot that is free. *)
StartPublish(due) ==
    \E slot \in [TreeKeys -> Slots] :
        /\ \A k \in due : calls[k][slot[k]] = None
        /\ calls' = [k \in TreeKeys |->
             IF k \in due
             THEN [calls[k] EXCEPT ![slot[k]] = [rec |-> records[k], sent |-> FALSE]]
             ELSE calls[k]]

(***************************************************************************)
(* A timer runs out.  The page calls setPublishFn while it starts; without *)
(* SlowStart it does so before the first timer runs out.                   *)
(***************************************************************************)
TimerFires(k) ==
    /\ k \in timers
    /\ publishFn \/ SlowStart
    /\ timers' = timers \ {k}
    /\ StartPublish(IF Publishable(k) THEN {k} ELSE {})
    /\ UNCHANGED <<records, storage, publishFn, published, now, writes, reloads, account, users>>

FlushPendingPublishes ==
    /\ publishFn
    /\ timers' = {}
    /\ StartPublish({k \in timers : Publishable(k)})
    /\ UNCHANGED <<records, storage, publishFn, published, now, writes, reloads, account, users>>

(***************************************************************************)
(* publishFn reads the record it was called with and sends its event.      *)
(* With nobody logged in it returns false.                                 *)
(***************************************************************************)
EventSent(k, s) ==
    /\ account # None
    /\ calls[k][s] # None /\ ~calls[k][s].sent
    /\ calls' = [calls EXCEPT ![k][s].sent = TRUE]
    /\ published' = published \cup {EventOf(k, calls[k][s].rec)}
    /\ UNCHANGED <<records, storage, timers, publishFn, now, writes, reloads, account, users>>

(* Mutant: whatever record is current when the publish succeeds is marked clean. *)
PublishSucceedsUnchecked(k, s) ==
    LET clean == [records[k] EXCEPT !.dirty = FALSE]
    IN  /\ calls[k][s] # None /\ calls[k][s].sent
        /\ records' = [records EXCEPT ![k] = IF @ = None THEN @ ELSE clean]
        /\ calls' = [calls EXCEPT ![k][s] = None]
        /\ Save(records')
        /\ UNCHANGED <<timers, publishFn, published, now, writes, reloads, account, users>>

(* publishFn resolves to true: a current record of the same hash is marked clean. *)
PublishSucceeds(k, s) ==
    LET call == calls[k][s]
        rest == [calls EXCEPT ![k][s] = None]
        clean == [records[k] EXCEPT !.dirty = FALSE]
    IN  /\ call # None /\ call.sent
        /\ IF SameHash(records[k], call.rec.hash)
           THEN /\ records' = [records EXCEPT ![k] = clean]
                /\ calls' = [rest EXCEPT ![k] = SeenBy(@, clean)]
                /\ Save(records')
           ELSE /\ calls' = rest
                /\ UNCHANGED <<records, storage>>
        /\ UNCHANGED <<timers, publishFn, published, now, writes, reloads, account, users>>

(* Mutant: no retry is scheduled. *)
PublishFailsNoRetry(k, s) ==
    /\ calls[k][s] # None
    /\ calls' = [calls EXCEPT ![k][s] = None]
    /\ UNCHANGED <<records, storage, timers, publishFn, published, now, writes, reloads, account, users>>

(* publishFn resolves to false or rejects: retry, unless a timer is already set. *)
PublishFails(k, s) ==
    /\ calls[k][s] # None
    /\ calls' = [calls EXCEPT ![k][s] = None]
    /\ timers' = timers \cup {k}
    /\ UNCHANGED <<records, storage, publishFn, published, now, writes, reloads, account, users>>

-----------------------------------------------------------------------------
(* The environment. *)

(* restoreSession at the start of a page, or a user who changes accounts. *)
Login(a) ==
    /\ account' = a
    /\ users' = users \cup {a}
    /\ UNCHANGED <<records, storage, timers, publishFn, calls, published, now, writes, reloads>>

Logout ==
    /\ account' = None
    /\ UNCHANGED <<records, storage, timers, publishFn, calls, published, now, writes, reloads,
                   users>>

Tick ==
    /\ now < MaxTime
    /\ now' = now + 1
    /\ UNCHANGED <<records, storage, timers, publishFn, calls, published, writes, reloads, account, users>>

(* The page is reloaded or crashes; hydrate() reads localStorage back. *)
Reload ==
    /\ reloads < MaxReloads
    /\ reloads' = reloads + 1
    /\ records' = storage
    /\ timers' = {k \in TreeKeys : storage[k] # None /\ storage[k].dirty}
    /\ publishFn' = FALSE
    /\ calls' = NoCalls
    /\ account' = None
    /\ UNCHANGED <<storage, published, now, writes, users>>

Update ==
    \E k \in TreeKeys, h \in Hashes :
        \/ \E key \in KeysFor[h] : MergeKey(k, h, key)
        \/ \E o \in Options(h) :
             \/ SetLocal(k, h, o)
             \/ \E ts \in 0..MaxTime :
                  \/ SetFromResolver(k, h, ts, o)
                  \/ SetFromWorker(k, h, ts, o)
                  \/ SetFromExternal(k, h, ts, o)

Publish ==
    \/ SetPublishFn
    \/ FlushPendingPublishes
    \/ \E k \in TreeKeys, s \in Slots :
         EventSent(k, s) \/ PublishSucceeds(k, s) \/ PublishFails(k, s)

ChangeAccount == Logout \/ \E a \in Accounts : Login(a)

Next ==
    \/ Update
    \/ \E k \in TreeKeys : Delete(k)
    \/ Publish
    \/ ChangeAccount
    \/ \E k \in TreeKeys : TimerFires(k)
    \/ Tick
    \/ Reload

Spec == Init /\ [][Next]_vars

(***************************************************************************)
(* A page that stays open calls setPublishFn and runs its timers; a        *)
(* network that is not down for good answers some retry, and a tree that   *)
(* needs a link key has one (EventSent; the page may not know it).         *)
(***************************************************************************)
Fairness ==
    /\ WF_vars(SetPublishFn)
    /\ \A k \in TreeKeys : WF_vars(TimerFires(k))
    /\ \A k \in TreeKeys, s \in Slots :
         SF_vars(EventSent(k, s)) /\ SF_vars(PublishSucceeds(k, s))

FairSpec == Spec /\ Fairness
-----------------------------------------------------------------------------
(* Properties. *)

(***************************************************************************)
(* A write waiting to be published never gets stuck: a timer will pick it  *)
(* up or a publish of that very write is in flight (schedulePublish,       *)
(* doPublish and hydrate together), provided setPublishFn comes before the *)
(* first timer runs out.                                                   *)
(***************************************************************************)
DirtyHasPublisher ==
    SlowStart \/ \A k \in TreeKeys : Dirty(k) =>
        \/ k \in timers
        \/ \E s \in Slots : /\ calls[k][s] # None
                             /\ calls[k][s].rec.obj = records[k].obj

(***************************************************************************)
(* A reload at any moment loses nothing: the copy in localStorage is the   *)
(* map in memory, in place mutations included, as long as writing it does  *)
(* not throw.                                                              *)
(***************************************************************************)
StorageIsCurrent == ~QuotaErrors => storage = records

(***************************************************************************)
(* A root is never paired with the key of another root, in memory, in      *)
(* localStorage or on the relays, whatever order updates with and without  *)
(* keys come in.                                                           *)
(***************************************************************************)
KeyMatchesHash ==
    /\ \A k \in TreeKeys : \A r \in {records[k], storage[k]} \ {None} :
         r.key \in KeysFor[r.hash] \cup {None}
    /\ \A e \in published : e.key \in KeysFor[e.hash] \cup {None}

(***************************************************************************)
(* The trees an event of tree k may go to: its name, under an account that *)
(* has been logged in.  That is k alone while nobody but its owner has.    *)
(***************************************************************************)
Destinations(k) == {<<a, k[2]>> : a \in users}

(***************************************************************************)
(* A local write is only taken for published once its root has been put on *)
(* the relays, for its tree or, where accounts were changed, for the tree  *)
(* of that name of an account that has been logged in: although writes,    *)
(* deletes and other publishes of the tree go on while its publish is in   *)
(* flight (the re-check in doPublish), and although the dirty flag goes    *)
(* through localStorage.                                                   *)
(***************************************************************************)
CleanWriteWasPublished ==
    \A k \in TreeKeys : \A r \in {records[k], storage[k]} \ {None} :
        r.source = "local-write" /\ ~r.dirty =>
            \E e \in published : e.tree \in Destinations(k) /\ e.hash = r.hash

(***************************************************************************)
(* Until it is published a local write gives way to a newer local write or *)
(* a delete only: no event, prefetch or late publish result changes what   *)
(* it says.                                                                *)
(***************************************************************************)
YieldsToWrites(k) ==
    Dirty(k) /\ records'[k] # None /\ reloads' = reloads =>
        \/ records'[k].obj > records[k].obj
        \/ /\ records'[k].hash = records[k].hash
           /\ records'[k].visibility = records[k].visibility
           /\ records'[k].labels = records[k].labels

DirtyYieldsOnlyToWrites == [][\A k \in TreeKeys : YieldsToWrites(k)]_vars

(***************************************************************************)
(* If somebody stays logged in, a local write is eventually published,     *)
(* overwritten by an event after that, or deleted.                         *)
(***************************************************************************)
DirtyEventuallyPublished ==
    <>[](account # None) => \A k \in TreeKeys : Dirty(k) ~> ~Dirty(k)

(***************************************************************************)
(* The inductive invariant behind the properties: object numbers tell the  *)
(* write a record and a publish in flight come from, and a publish that    *)
(* has sent its event has left it on the relays.                           *)
(***************************************************************************)
HasEvent(k, h) == \E e \in published : e.tree \in Destinations(k) /\ e.hash = h

RecordOK(k, r) ==
    /\ r.obj <= writes
    /\ r.dirty => r.obj > 0
    /\ r.source = "local-write" /\ ~r.dirty => HasEvent(k, r.hash)

RecordsOK ==
    \A k \in TreeKeys : /\ records[k] # None => RecordOK(k, records[k])
                        /\ storage[k] # None => RecordOK(k, storage[k])

CallOK(k, c) ==
    /\ c.rec.obj > 0 /\ c.rec.obj <= writes
    /\ c.sent => HasEvent(k, c.rec.hash)
    /\ records[k] # None /\ records[k].obj = c.rec.obj => records[k].hash = c.rec.hash

CallsOK == \A k \in TreeKeys, s \in Slots : calls[k][s] # None => CallOK(k, calls[k][s])

RegistryInv == TypeOK /\ RecordsOK /\ CallsOK /\ DirtyHasPublisher

(***************************************************************************)
(* What the source says and does not do.                                   *)
(***************************************************************************)

(* "Mark as clean (published)": the visibility of the write was published too. *)
CleanVisibilityWasPublished ==
    [][\A k \in TreeKeys :
         /\ Dirty(k) /\ records'[k] # None
         /\ records'[k].obj = records[k].obj /\ ~records'[k].dirty
         => \E e \in published : /\ e.tree \in Destinations(k) /\ e.hash = records[k].hash
                                 /\ e.visibility = records[k].visibility]_vars

(* "call before delete to prevent undelete": no event is sent for a deleted tree. *)
NoUndelete ==
    [][\A e \in published' \ published : \A k \in TreeKeys :
         k = e.tree => records[k] # None]_vars

(* "Mark as clean (published)": a clean local write is on the relays for its own tree. *)
CleanInItsOwnTree ==
    \A k \in TreeKeys :
        records[k] # None /\ records[k].source = "local-write" /\ ~records[k].dirty =>
            \E e \in published : e.tree = k /\ e.hash = records[k].hash

(* "XOR(contentKey, linkKey)": the encrypted key of a record is that of its content. *)
EncryptedKeyMatchesHash ==
    \A k \in TreeKeys : records[k] # None =>
        records[k].encryptedKey \in KeysFor[records[k].hash] \cup {None}
=============================================================================
