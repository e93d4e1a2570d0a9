# Verification of Iris apps: roots, peers and stores

TLA+ models of the stateful core of this repository, model-checked with TLC and
proved about with TLAPS. The repository is a monorepo: three apps
(`apps/iris-files`, `apps/iris-audio`, `apps/iris-sites`) over content-addressed
storage (`packages/hashtree`), mutable names and peer-to-peer exchange over Nostr
and WebRTC (`packages/hashtree-nostr`), a cache of tree roots
(`packages/hashtree-tree-root`), indexes (`packages/hashtree-index`) and a vendored
fork of a Nostr library (`packages/ndk`, `packages/ndk-cache`).

## Inventory

Paths are relative to `src/packages` unless they start with `apps`.

| Component | Source | State | Operations | What is hard | What makes it correct |
|---|---|---|---|---|---|
| Tree root registry | `hashtree-tree-root/src/index.ts`, `apps/iris-files/src/treeRootCache.ts` | map tree -> record (root, key, visibility, labels, time, dirty), copy in localStorage, publish timers, listeners | `setLocal`, `setFromResolver/Worker/External`, `mergeKey`, `delete`, `doPublish`, `flushPendingPublishes`, `hydrate`, `subscribe`, `resolve` | publishes in flight race with writes, deletes, events and changes of account; in-place mutation; reload at any moment | a local write is published in the end, never overwritten by an event before that, never taken for published when it is not, survives a reload; keys stay with their roots |
| Peer request engine | `hashtree-nostr/src/webrtc/peer.ts` | own requests with timers, peers' requests (LRU), fragments being reassembled | `request`, `sendResponse`, `handleResponse`, timeouts, `close` | late, duplicate and fragmented answers; joined callers; eviction | every caller gets an answer, only data that hashes to what was asked for is handed out |
| WebRTC signaling and pools | `hashtree-nostr/src/webrtc/store.ts` | peers by id, pools, pending offers, relays | hello, offer, answer, candidates, retry, `setRelays`, `stop` | both ends offer at once, messages are lost or late | two peers that want to connect do; pool limits hold |
| WebRTC store read path | `hashtree-nostr/src/webrtc/store.ts` | `pendingReqs`, waves | `get`, `tryPendingReqs`, late joins, `stop` | waiters are replaced while a peer is asked | no waiter is lost |
| Peer selector | `hashtree-nostr/src/webrtc/peerSelector.ts` | statistics, backoff | order of peers, timeouts | numeric edges | nobody starves |
| Mesh frames | `hashtree-nostr/src/webrtc/protocol.ts`, `store.ts` | seen ids, hop limits | forward, deliver | loops and duplicates | each frame is handled at most once and dies out |
| Nostr ref resolver | `hashtree-nostr/src/resolver/nostr.ts` | subscriptions, optimistic list caches | `publish`, `delete`, `subscribe`, `list` | replaceable events with equal times, answers of relays after local writes | a reader ends with the newest root |
| Fallback and Blossom stores | `hashtree/src/store/fallback.ts`, `blossom.ts` | reads in flight, write queue, server health | `get`, `put`, `has`, `delete` | timeouts race late answers, one server of several fails | a read answers when some store has the data |
| Merkle trees, encryption | `hashtree/src/*.ts` | none between calls | build, read, range read, `writeAt` | offsets at chunk boundaries | what is read is what was written |
| B-tree, search | `hashtree-index/src/*.ts` | persistent nodes | insert, delete, range | splits at the limit | equal to a finite map |
| Event helpers | `hashtree-nostr/src/events.ts`, `snapshot.ts` | none | parse, order, snapshot | equal timestamps | total order |
| App stores, adapters, service workers, UI | `apps/*` | Svelte stores, pending requests by id | routes, bridges to worker or native | answers of an earlier route | the newest route wins |
| NDK and cache | `ndk`, `ndk-cache` | relays, subscriptions, caches | publish, subscribe | third-party code | environment of the models |

The components talk to each other as follows. The app calls `setLocal` on the
registry for every edit; the registry calls `publishFn`, which the app binds to
`resolver.publish`; the resolver puts an event on relays through NDK and feeds
events it receives back through `setFromResolver` or `setFromWorker`. Content is
read through a fallback store over a local store, WebRTC peers and Blossom servers;
signaling between peers goes through relays and through already connected peers.

`PROJECT.json` lists the components with their status and every hazard at its line.

## Modules

| Module | Models |
|---|---|
| `TreeRootRecords` | the record and the pure rules of an update: is it accepted, does it only fill gaps, which record results |
| `TreeRootRegistry` | the registry of one page as a state machine, its properties and its inductive invariant |
| `TreeRootSubscribers` | the registry together with `notify`, `subscribe` and `resolve` |
| `TreeRootRegistryProofs` | theorems about `TreeRootRegistry` and `TreeRootSubscribers` |
| `PeerExchange` | block exchange over one data channel: a requester, the channel and a responder |
| `PeerExchangeProofs` | theorems about `PeerExchange` |
| `Requests` | what a caller of any `get` or `request` is promised: asked once, answered at most once |
| `Signaling` | how stores find each other, negotiate, keep their pools and let go of connections |
| `StoreReads` | how a WebRTC store answers `get`, with its shared fetches and waiting requests |
| `RefResolver` | the devices of one account that publish, delete, subscribe to and list a tree |
| `BlossomStore` | the client of Blossom servers: queue, uploads, backoff, giving up |
| `FallbackStore` | reads shared between callers and raced between fallbacks and timeouts |
| `BTree` | the B-tree of an index as immutable directories, and the holders of its roots |
| `Dictionaries` | what an index promises: finite maps that are changed, taken over and merged |
| `StoreReadsProofs`, `FallbackStoreProofs`, `BlossomStoreProofs`, `SignalingProofs`, `RefResolverProofs`, `BTreeProofs` | theorems about the module each is named after |
| `MC...` | constants of the instances TLC checks, one module per component |

### Tree root registry: model and code

State: `records` is the `records` map, `storage` what localStorage holds, `timers`
the keys of `publishTimers`, `publishFn` whether `setPublishFn` was called. `calls`
holds the publishes in flight, each with the record object it was called with and
whether the event has left; `published` is a history of events on the relays. `account`
is the npub in `nostrStore` (`nostr/auth.ts`), and `users` a history of those there have been.

Every method of the class is one action, because it runs to completion in the event
loop. `doPublish` is cut at its only `await`: `TimerFires` or
`FlushPendingPublishes` call `publishFn`, and `PublishSucceeds` or `PublishFails` is
the code after the `await`. What `publishFn` does in between
(`initializePublishFn`, which awaits before it reads parts of the record) is
external: `EventSent` reads the record as it is then and sends the event. The tree of the
event is that of the account that is logged in then, whatever the record belongs to
(`treeRootCache.ts:31-34,66`), and with nobody logged in nothing is sent (`:34`). `Login` and
`Logout` change the account at any moment and touch nothing of the registry, as in
`auth.ts`. The wait for a link key is not a step of its own; that there is none is among the
reasons for which `PublishFails`.

Some methods mutate the record object that a publish in flight holds. A record
carries `obj`, the number of the local write that made the object, and `Mutate`
changes the record of a call that has not read it yet when it holds the same object.
A reload makes new objects, and no publish survives it.

Abstracted: roots, keys and labels are model values; `encryptedKey` stands for
itself and `selfEncryptedKey`, by the content key it decrypts to; `keyId` and
`selfEncryptedLinkKey` follow the rules of `encryptedKey` and are left out; the
order of labels, delays of timers and wording are left out. The clock counts seconds.
A timestamp of an event is any value up to `MaxTime`, whatever the clock says, so
events may come from the future.

### What is said about it

* `DirtyHasPublisher`: a write that waits to be published has a timer or a publish
  of its own in flight.
* `StorageIsCurrent`: localStorage is the map in memory after every step.
* `KeyMatchesHash`: a root is never paired with the key of another root.
* `CleanWriteWasPublished`: a write is taken for published only if its root was
  put on the relays for its tree or, where accounts were changed, for the tree of that name
  of an account that has been logged in.
* `CleanInItsOwnTree`, for its own tree in any case, is stated, and no run checks it: TLC
  refutes it with two accounts. What is left of it is proved: it holds as long as only the owner of a
  tree has been logged in.
* `DirtyYieldsOnlyToWrites`: until then it gives way to local writes, deletes and
  reloads only.
* `DirtyEventuallyPublished`: while somebody stays logged in it is published in the end (or
  replaced or deleted).
* `WaitsOnlyForAbsent`: `resolve` waits only while there is no record.

### Peer exchange: model and code

Both ends of a channel run the same class; a block request uses one half of each, so
the model has a requester and a responder with the state each half keeps: `ours`
(`ourRequests`), `timers`, `reassembly` (`pendingReassemblies`) and `verifying` (the
continuations after `await verifyHash`) on one side; `blocks` (the local store),
`tasks` (the calls of `handleRequest` that wait), `theirs` (`theirRequests`, an
`LRUCache`) and `pushes` (the continuations of `WebRTCStore.put`) on the other. The
channel is created with `ordered: false` and is reliable: `requests` is a set and
`responses` a bag, and nothing is lost before the channel closes. `Close` is a close
by either end.

A call of `request()` is a constant, and the request object it makes has its name.
`call[c].of` is the request object whose `resolve` settles the promise of `c`: its own,
or the one it joined, because a joining call replaces `existing.resolve` by a function
that resolves both (`Chain`). The two timers differ there: the one `request()` sets
resolves the promise of its own call, the one a fragment sets resolves the chain.

`handleMessage` is cut at `verifyHash`: `ReceiveResponse` removes the pending request
and `Verified` settles it. `handleRequest` is cut at the read of the store
(`ReceiveRequest`, then `LookupHit` or `LookupMiss`) and at `onForwardRequest`
(`ForwardFound` or `ForwardFails`). Two handlers may interleave at each cut.

Abstracted: a block is good or damaged (its digest is or is not what was asked for),
a fragment is its index; delays are left out, so a timer may run out at any moment;
which reassemblies are stale, and which of too many is the oldest, is any choice; the
hop limit is what the responder reads from it, may it forward or not; the peers that
are asked on its behalf either have the block or not.

* `TimerPerRequest`: a pending request has one armed timer, and none is armed
  without a pending request.
* `OwnCallKnown`, `OwnCallSettles`: a call that made a request is pending or being
  verified as long as it waits, and is answered in the end.
* `JoinedCallGetsData`: a joined call gets the data with the call it joined.
* `TheirRequestsBounded`, `RememberedUntilAnswered`: the responder remembers at most
  so many requests, and forgets one only by answering it, after a close, or when a
  full cache takes another.
* `JoinedCallSettles` (violated): a joined call is answered when the other is.

* `KeepsPromise`: the exchange implements `Requests` (below).

### Requests: the abstract specification

A caller asks once and is answered at most once, with data or null, in any order and
several callers at a time. `PeerExchange` and `StoreReads` instantiate it with the
refinement mapping `Asking`, which forgets everything but where each call stands, and
check `Asking!Spec` as `KeepsPromise`: timers, joins, waves, loops and closings never
answer a call twice, unasked, or with two different things. That an answer comes at all
is liveness (`OwnCallSettles`, `GetsSettle`).

### Signaling: model and code

Each store of `Node` has `peers` (the `Peer` it keeps for a public key),
`pending` (`pendingOtherPubkeys`), `blocked` and whether it runs. `Peer` objects are
numbered in `conns` and never reused, so an object that was closed and replaced is told
from its successor. `hellos`, `relayed` and `unwrapping` are messages on the relays and
messages whose decryption is awaited.

`handleHello` is one action up to its await (`ReceiveHello`, which includes
`connectToPeer`), and the `finally` that clears the mark is part of whatever settles the
await (`Publish`, `DescribeFails`). `handleSignalingEvent` is cut at `giftUnwrap`:
`ReceiveDirected`, then `HandleOffer` or `HandleAnswer`, which do not ask whether the
store still runs. `createOffer`, `createAnswer` and the descriptions are one step
(`Describe`), the gift wrap and the relay another (`Publish`). `Cleanup` closes any
number of connections that are still new, since ages are left out; a directed message
may be delivered again (`Deliver`). ICE is `Checking`, then `Connect` or `LinkFails`.

Left out: candidates (a negotiated connection may start connecting at any time, or
never), signaling over the mesh, and settings changed while running
(`setPoolConfig`, `setPeerClassifier`: both let existing peers exceed a limit on purpose).

* `PoolsBounded`, `MarksAreAttempts`: the limits hold and a public key is marked only
  while an attempt has not settled, whatever happens between an await and its end. The attempt may
  be that of an object which was closed meanwhile: the mark stays until its `createOffer` ends.
* `LiveObjectsAreKept`: a connection that is open can be reached by its store.
* `BlockedStayOut`: also when an offer was being unwrapped when its peer was blocked.
* `ConnectionsSettle`: a connection is made, or closed and its place freed.
* `CollisionsResolve` is stated, and no run checks it: offers that cross should end in one
  connection ("Collision is handled by Peer class", `store.ts:607-608`). TLC refutes it with two stores
  and four objects: `handleOffer` closes the object whose own offer is pending before `Peer` sees
  the collision, both ends drop their own offer, and each ignores the answer to it.
* `StoppedHasNoPeers` is stated, and no run checks it: TLC refutes it, because an offer
  that was being unwrapped, or a hello, makes a peer after `stop()`.

### Store reads: model and code

`call` says where each `get` stands, `gets` is `pendingGets`, `entry` and `members` are
`pendingReqs`: a map from the `Uint8Array` object (by identity) to an array, which is
named after the call that made it, because a loop may hold an array that is no longer
listed. `loops` are the executions of `tryConnectedPeersForHash` and `tryPendingReqs`
that await a peer. Every await is a cut: the local read, each answer of a query, the
fallback stores, each turn of a loop.

Abstracted: a fetch tries its fallback stores in one step; the order of peers is any
order; the plan of waves is a wave of `Fanout` at a time; damaged data counts as none.

* `OneFetchPerHash`, `JoinersHaveLeader`: equal reads share one fetch, and who joined
  waits for a fetch that is going on.
* `AskedOnce`: no request is with one peer twice at a time.
* `GetsSettle`, `KeepsPromise`: every `get` is answered, once.
* `WaitingIsListed` is stated, and no run checks it: TLC refutes it, because a loop
  deletes an entry with requests that were added while it awaited its peer. These are
  asked for nowhere else and end with their timer.

### Resolver: model and code

One tree of one account. Per device, `cache` is its entry in `localListCache`, `sub`
and `list` the entries of its subscriptions, `stray` a list that `stop()` has
forgotten without closing its relay subscription. An entry has a root (or none), a time in seconds
and an id, which is 0 for what the device wrote itself. `publish` is one action when it
awaits nothing before it updates the caches (`Publish`), and two when the key of a
private or link-visible tree is encrypted (`BeginPublish`, `EndPublish`). `Send` signs an
event, with any id, and puts it on a relay. An open subscription is told of any event at
any time and repeatedly: relays differ, and each replays its events.

* `ViewsNeverGoBack`: no view shows an older root after a newer one, also across local
  writes, whose time is later than everything known. The end of an encryption is excepted:
  its time was chosen before the await.
* `SubscribersCatchUp`, `ListsCatchUpOrDelete`: a reading device that stays subscribed
  comes to show the newest root, whatever its cache held; a list may instead show the
  tree as deleted.
* `ListsCatchUp`, without that exception, is stated, and no run checks it: TLC refutes it.
  A tree written again within 30 s of its deletion is not listed, because the list drops the event for good.

### Blossom store: model and code

`queue` is the chain `writeQueue`, whose head is being served; `put[p]` is where a put
stands (looking up a large blob, signing, uploading), with the servers chosen when it
began and those that have not answered. `backoff` is `serverHealth`, `attempts` is
`hashAttempts`. `stored` and `accepted` belong to the servers: what they hold and what
any has ever taken. `UploadFails` covers a refusal and an answer lost after the blob was stored.

* `AnswersAreTrue`: `true` and `false` stand for a blob some server has taken, unless the
  hash was given up.
* `PutsSettle`: a put that throws, is refused or given up does not stop the queue. One whose
  signer or upload never ends does, and the property names it (`Hangs`): neither
  `blossom.ts:188` nor `:258` has a timeout, and every later put waits behind it.
* `RetriesFind`: a reader that asks again finds a blob that stays on a server.
* `FalseMeansExisted`, without the exception, is what the `Store` interface says of
  `false` (`hashtree/src/types.ts:124`). It is stated, and no run checks it: TLC refutes it with a
  hash that was given up.

### Fallback store: model and code

A load is named after the call that started it. `inflight` is `inflightReads`; `fetch`
and `late` say for each load and fallback what became of the read and whether its timeout
ran out. `Promise.race` and the counter of `loadFromFallbacks` are `Racing` and
`LastNull`. The write of late data is awaited by nobody (`Written`, `WriteFails`).

* `GetsSettle`: every `get` is answered though fallbacks hang, are added or removed.
* `LateDataIsCached`: data reaches the primary, also when it comes after its timeout.
* `TypeOK` here includes that a call that waits has the load in flight for its hash.

### B-tree: model and code

A node is a directory. Nothing empty is kept, so a tree is the set of its entries, each with
its `path`, the names of the directories on the way to it and its key last. A directory is
the sequence of names that leads to it, and `Names` lists what is in it. `Child` is
`findChild`, `LeadsTo` the descent of a lookup, `Get` what it finds. `Put`, `Split`, `Delete`
and `RangeTraverse` say which paths an operation makes of the ones there are, and have no
recursion. The root becomes the halves of a split below a new root, any other
directory is replaced by its halves and by what else had their names, as `setEntry` does.
`insertLink` and its helpers repeat `insert` for links, and are the same operators.

`tree` is what each holder of an index has as its root (`indexRoot` of `searchIndex.ts`, or
the root of another account). An insertion or a merge is a `job`: it works on the root there
was when it began, its entries come in order, and it is cut at every directory it writes
(`WriteLeaf`, then `WriteParent` up to the root). It ends with `Finish`, which sets the
root, or with `Fail`, when the store throws. Other holders go on meanwhile. A deletion is one
step, of any key: it makes nothing a later step of it could meet changed.

Keys are numbers in the order of `<`; the order of `localeCompare`, by which entries are
sorted, is the constant `Collate`, and may be any order. Names stand for unescaped keys: `escapeKey`
and `unescapeKey` are inverse to each other, and every comparison in the code unescapes first.

Two things make the names of a tree mislead, and the code prevents neither. A deletion may take
the key that a directory off the left edge is named after while other keys are left in it
(`LosesName`). And two names may be ordered differently by `<` and `localeCompare`: nodes are
split by one order and searched by the other (`Alike` is that this does not happen). `worn` is the
history of this: a holder is in it from the moment its root is made in one of these ways, or from one
that was, until it has a root that was not. The properties say what holds of every other root,
while operations on worn ones go on beside it; a worn root must not spoil what is not made from it.

* `KeepsDictionary`: what `get` finds implements `Dictionaries`, the abstract specification
  in which a holder has a finite map, and an operation that is awaited will leave a map that
  is settled when it begins. The abstraction gives up its promise for a root at any moment, and
  then for all that is made of it; the refinement mapping does so where the root is worn and
  looks every key up in every other tree, so a key that a split, a deletion or a merge leaves
  where a lookup does not go would have changed on its own.
* `NodesOK`: no directory is too full; it is named after the least key in it unless it is on the
  left edge, and its keys are before the name of its next sibling.
* `RangesFind`: a range yields keys of the range only, in order and once, and every entry that
  is in the range together with the names on the way to it. It asks for no key to be missed.
* `NamedEntriesAreFound`, which is proved: every entry of a root that is not worn is found by a lookup.
* `EntriesAreFound`: so is every entry of every root. `btree_lost_key` violates it.
  `delete` leaves the name of a directory when it takes the key of that name. When the
  directory is the first child of a parent that is not on the left edge, or a later split makes it
  one, its own next split renames it after a greater key, a key between the two names is
  still inserted below it, and the next split of the parent names its half after the child and not
  after what is in it. With nodes of two: insert 1, 2, 8, 9, 10, 4, delete 2, insert
  5, 6, 3, 7, and `get` of 3 is null.
* `RangesAreComplete` is what a test says (`btree.test.ts:137`, "Range is inclusive of start,
  exclusive of end"). It is stated, and no run checks it: TLC refutes it in nine states. The first child
  keeps its name when a smaller key is inserted, and `rangeTraverse` skips it when the name is at
  or after the end of the range: with nodes of two entries, insert 2, 3, 4 and then 1, and the
  range from 1 to 2 is empty.

## Runs

| Run | Shows | Bounds |
|---|---|---|
| `registry_safety` | the invariants above and `DirtyYieldsOnlyToWrites` | one tree, two accounts, two roots of which one has a key, two writes, two concurrent publishes, two instants, one reload |
| `registry_live` | `DirtyEventuallyPublished`, `WaitsOnlyForAbsent` | one account with two trees, one public root, two writes, one reload, one listener, one `resolve` call |
| `registry_lost_visibility` | violated: a write is marked clean by the publish of an earlier write of the same root with another visibility | as `registry_safety`, with other inputs |
| `peer_exchange` | the properties of `PeerExchange` above that hold | two calls, one block of one message and one of two, a cache of one request, no reassembly beyond the limit of zero, one block stored by the responder |
| `peer_joined_call` | violated: a joined call waits for ever when the first timer runs out | as `peer_exchange` |
| `signaling` | the properties of `Signaling` that hold | three stores, an "other" pool of one place, three `Peer` objects, one store that fails and one fault |
| `store_reads` | the properties of `StoreReads` that hold | two calls for one hash with one key object, two peers that come and go, waves of one |
| `resolver` | the properties of `RefResolver` that hold | a writer whose clock is a second ahead and a reader, one root and its deletion, two events, four instants, a window of two seconds, the reader calls `stop` |
| `blossom` | the properties of `BlossomStore` that hold | two servers for reading and writing, three puts and a get of one large blob, two attempts, two errors |
| `fallback` | the properties of `FallbackStore` | two calls for one hash, two fallbacks |
| `btree` | the properties of `BTree` that hold | two holders, one with five keys and one with two, one key that the two orders sort differently, nodes of two entries, three levels, one operation awaited at a time |
| `btree_lost_key` | violated: a key that was inserted and never deleted is not found | one holder, ten keys inserted in one order and one of them deleted, two orders that agree, nodes of two entries, five levels |

Two writes and two roots are enough for every race the code distinguishes: a publish
in flight and the record it meets have the same object, another object with the same
root, or another root. Trees share nothing but the storage entry and the flush, so
one tree suffices for safety and two for flushing and waiting. Two instants give an
older, an equal and a newer event. Slots are the publishes of one tree in flight: the
second is reached by a flush or a timer while the first has not answered.
Two accounts are the owner of a tree and another user of its page. One of the two roots is encrypted:
a key that stays behind when its root is replaced would be seen with the other.
`registry_safety` uses symmetry of the slots; no
liveness property is checked with symmetry. `CHECK_DEADLOCK FALSE` everywhere: with its
writes and reloads used up a page with nothing to publish is quiet, and so is a channel
with all calls answered.

In `PeerExchange` two calls are one that makes a request and one that joins it, makes
another of the same hash after it, or of another hash at the same time. Two hashes fill
a cache of one and force the eviction. A block of two messages has a first and a last
fragment; a damaged block that the responder holds makes the requester's check fail.

In `Signaling` two stores negotiate and the third competes for the one place of a
pool; three objects are an attempt, the one that replaces it and one of the competitor.
In `StoreReads` the second call joins the first, comes after it, or shares its
entry of `pendingReqs`; with two peers a loop has a turn to go on to while the other peer
connects. In `RefResolver` two events give every order of writing and delivery, with
equal and different seconds; `Window` is inside `MaxTime`, so both a stale and a late
re-creation happen. In `BlossomStore` three puts are one that is served and two behind
it; two errors are enough to back off both servers or to give up a hash. In `BTree` five keys in nodes
of two split the root twice, rename directories and leave some to be lifted; the second holder's
two keys make merges that insert into, overwrite and split the tree of the first. A sixth key
is last by `<` and in the middle by `localeCompare`. `Room` keeps the sets of keys few: the first
holder fills its tree in a few orders and may then take out any of the five keys, also one that a
directory is named after, and put it back; the second may put the sixth key beside another, and
pass its root on. `MaxJobs` is one, because trees are
values: what two jobs do to the roots they began with does not touch the other.
In all of
these a system with its calls answered and its bounds used up may stop, so
`CHECK_DEADLOCK` is `FALSE` too.

### Fairness

`SubscribersFairSpec` assumes that the page stays open long enough to call
`setPublishFn` (`workerInit.ts` does so when it starts) and to run its timers (weak
fairness per tree, `setTimeout`), that a queued microtask runs, and that a network
which is not down for good lets some attempt through (strong fairness of `EventSent`
and `PublishSucceeds` per tree and slot, as each failure schedules a retry). `publishFn`
answers `false` for ever where nobody is logged in and for a link-visible tree whose link key
this page does not know (`treeRootCache.ts:34,55-62`). The first is a condition of the property
itself, the second an assumption that the strong fairness of `EventSent` makes: the run
has public roots only. Nothing is assumed of logins, writes, events, deletes or reloads.

`PeerExchange` assumes that armed timers run out (`setTimeout` of a page that stays
open) and that a digest is computed in the end (`crypto.subtle`). Nothing is assumed of
the channel or of the responder, so `OwnCallSettles` holds with a peer that never
answers.

`Signaling` assumes that the cleanup interval of a running store keeps firing and that
ICE, once it checks, is connected or fails (a browser's ICE agent times out); nothing is
assumed of relays or of the other end. `StoreReads` assumes that the local store and the
fallback stores answer and that the timers of queries and waiting requests run out; no
peer has to answer and no loop has to go on. `RefResolver` assumes only for reading
devices that relays deliver the news they hold. `BlossomStore` assumes that a put
begins when the one ahead of it has settled, that lookups and gets are answered or time out
(`AbortSignal.timeout`), that pauses end (at most a minute) and that a reader asks again; nothing
is assumed of the signer and of uploads, which have no timeout. Errors are bounded by
`MaxFaults`. `FallbackStore` assumes that the primary store answers and timeouts run
out, and nothing of a fallback.

### Assumptions on the environment

`SlowStart = FALSE`: a throttle timer (1 s) does not run out before `setPublishFn` is
called. With `SlowStart = TRUE` a timer that runs out early is dropped by the early
return of `doPublish`, and the write stays dirty until the next write, flush or
reload. `QuotaErrors = FALSE`: `localStorage.setItem` does not throw;
`StorageIsCurrent` is stated for that case.

## Proofs

`TreeRootRegistryProofs` proves, for every value of the constants that satisfies
`RecordsAssumption` and `RegistryAssumption`:

| Theorem | Statement |
|---|---|
| `TypeCorrect` | `Spec => []TypeOK` |
| `Invariance` | `Spec => []RegistryInv` |
| `NeverStuck` | `Spec => []DirtyHasPublisher` |
| `CleanIsPublished` | `Spec => []CleanWriteWasPublished` |
| `CleanIsInItsOwnTree` | `Spec => [](OnlyTheOwner => CleanInItsOwnTree)` |
| `Durable` | `Spec => []StorageIsCurrent` |
| `WritesSurvive` | `Spec => DirtyYieldsOnlyToWrites` |
| `KeysStayWithRoots` | `Spec => []KeyMatchesHash` |

`CleanWriteWasPublished` is not inductive: the step that marks a record clean needs
to know that the publish it answers has left its event, and that an event sent from a
record that was mutated in flight still carries the root the record has now.
`RegistryInv` therefore adds: object numbers are at most the number of writes and are
positive in dirty records and in calls; a call that has sent its event has left one
with its root under some account of `users` (`Destinations`), a set that only grows; and a call and a record with the same object number have the same root
(in-place mutation never changes the root, so a matching number means a matching root).
Where the owner of a tree is the only account there has been (`OnlyTheOwner`), that set has one
member, and `CleanIsInItsOwnTree` follows.
`DirtyHasPublisher` needs the same numbers: a failing publish sets a timer, and a
succeeding one of the same object has the same root and so cleans the record.
The proof has one lemma per action for types and for the invariant, and the temporal
theorems combine them with PTL. The action property follows from the step alone,
with the type invariant and the bound on object numbers. `KeyMatchesHash` has an
invariant of its own: a publish may send a record that has been replaced meanwhile, so
`KeysInv` says of the records of the calls in flight what the property says of the
others.

`WaitersAreAnswered` is `SubscribersSpec => []WaitsOnlyForAbsent`, for any sets of trees,
listeners and callers. Every step is one of the
registry or leaves it alone (`StepsOfRegistry`), so the registry's types carry over; outside
updates and reloads no record appears (`RecordsAppear`), and `notify` leaves a call
waiting only for a tree that got none (`NotifyFacts`).

`PeerExchangeProofs` proves, for every value of the constants that satisfies
`ExchangeAssumption` (any sets of hashes and calls, any number of fragments, any size
of the cache above zero):

| Theorem | Statement |
|---|---|
| `TypeCorrect` | `Spec => []TypeOK` |
| `Invariance` | `Spec => []ExchangeInv` |
| `OneTimerPerRequest` | `Spec => []TimerPerRequest` |
| `OwnCallsAreKnown` | `Spec => []OwnCallKnown` |
| `JoinedCallsGetData` | `Spec => []JoinedCallGetsData` |
| `CacheBounded` | `Spec => []TheirRequestsBounded` |
| `ForgottenOnlyWhenAnswered` | `Spec => RememberedUntilAnswered` |
| `PromiseKept` | `Spec => KeepsPromise` |

None of the three properties of the requester is inductive alone. `ExchangeInv` adds
that a pending request and a request under verification belong to a call that waits
for itself and are never both at once (`PendingOK`, `VerifyingOK`), and that whatever
a joined call waits for waits for itself (`ChainOK`). With these an idle call has no
timer, no request and nobody joined to it (`IdleCall`), and an armed timer names the
hash it may forget (`TimedRequest`). The responder's part rests on lemmas about the
LRU cache: `delete` takes away one key and keeps the others distinct, `set` evicts the
first key of a full cache only. The refinement of `Requests` needs that calls answered
together were waiting: as long as a call waits for its own request, those that joined it
wait as well (`ChainWaits`).

`StoreReadsProofs` proves, for any sets of peers, hashes, key objects and calls and any
size of a wave, under `ReadsAssumption`:

| Theorem | Statement |
|---|---|
| `TypeCorrect` | `Spec => []TypeOK` |
| `Invariance` | `Spec => []ReadsInv` |
| `OneFetchAtATime` | `Spec => []OneFetchPerHash` |
| `JoinersWait` | `Spec => []JoinersHaveLeader` |
| `NeverAskedTwice` | `Spec => []AskedOnce` |
| `PromiseKept` | `Spec => KeepsPromise` |

A call that waits stands in the array of its own name, and nothing but an answer, the
timer or `stop()` takes it out. `ReadsInv` adds what makes this stable while loops run
over arrays that are no longer listed: a leader is registered in `pendingGets` exactly as
long as its fetch goes on (`GetsOK`), an array holds only the request of its call and is
listed only while it has it (`EntriesOK`), and the peer a loop asks is marked in the
request's `tried` (`LoopsOK`). The refinement follows: an initial state maps to no
caller asked, `Get` maps to `Ask`, a step that settles calls maps to `Answer` of calls
that were waiting, and any other step leaves every call where it is.

`FallbackStoreProofs` proves `TypeCorrect`, `Spec => []TypeOK`, for any calls, hashes and
fallbacks. `TypeOK` relates calls and loads and is not inductive: ending a load must not
leave another hash pointing to it, so `FallbackInv` adds that what is in flight for
a hash is a load of that hash (`InflightOK`).

`BlossomStoreProofs` proves `PutsAnswerTruly`, `Spec => []AnswersAreTrue`, for any servers,
puts and hashes and any `MaxAttempts`. "false" may stand for a hash that was given up, so a
failure must not be counted twice past the limit: `BlossomInv` adds that only the head
of the queue is served, for a hash that is not given up (`ServedOK`), and that what a server
holds, or has said it took, was taken (`TakenOK`).

`SignalingProofs` proves, for any finite set of stores, any pools and limits and any bounds:

| Theorem | Statement |
|---|---|
| `TypeCorrect` | `Spec => []TypeOK` |
| `Invariance` | `Spec => []SignalingInv` |
| `PoolsStayBounded` | `Spec => []PoolsBounded` |
| `NoConnectionIsLost` | `Spec => []LiveObjectsAreKept` |
| `BlockedPeersStayOut` | `Spec => []BlockedStayOut` |
| `MarksAreCleared` | `Spec => []MarksAreAttempts` |

`LiveObjectsAreKept` depends on its converse, `PeersOK`: what a store has in its map is an
object of its own for that node. With it a failing link takes out exactly the entry of
its object, and closing a set of nodes closes their objects and no others. The proof reduces
the steps to three: a store closes objects (`CloseStep`), creates one in the place of
another (`CreateStep`), or an object negotiates (`NegotiateStep`).

`RefResolverProofs` proves `ViewsKeepUp`, `Spec => ViewsNeverGoBack`, for any devices, clocks
and bounds. Besides types it needs that an absent entry has the least time stamp and id
(a list takes anything in its place). What a writer shows is stamped later than the cache,
the subscription and the list (`StampedLater`).

`BTreeProofs` proves, for any holders, keys and values, any order of keys in the place of
`localeCompare`, nodes of any size of two or more, trees of any depth and any number of jobs at once:

| Theorem | Statement |
|---|---|
| `Invariance` | `Spec => []TreesOK` |
| `NodesAreOK` | `Spec => []NodesOK` |
| `RangesFindTheirs` | `Spec => []RangesFind` |
| `NoEntryIsLost` | `Spec => []NamedEntriesAreFound` |
| `DictionaryKept` | `Spec => KeepsDictionary` |

None has a hypothesis on keys or deletions. What they leave open is what the code does with a
worn root, and TLC shows that it cannot be closed: `EntriesAreFound` is refuted after a deletion that
takes a name, and with two names that are not `Alike`.

`NodesOK` is not inductive: it says nothing of how two names on different paths compare, of
the trees that are worked on, or of the one directory an insertion has made too full.
`TreesOK` says of every root that is held or worked on and is not worn that it is `Ordered` and
`Fits`, and that its names are `Alike`, together with the keys that are still to be inserted
(`TreeOK`, `JobOK`). An operation only makes names of keys it was given or of names there were
(`StillAlike`), so a tree that begins so stays so. `Ordered` is
stated on pairs of paths, so that a step which changes some paths needs to look at two of them only:
where two paths part, all keys of one are before the name in the other (`Apart`), paths that share
their directories are of one length (`Level`), a directory off the left edge has the key of its
name and nothing smaller (`Named`), and the entries are finitely many and have different paths. `Fits` lets
only the directory last written hold one name more than `MaxKeys`.

The proof has four layers.

1. What a lookup does in an ordered tree: the descent goes to the entry of the key (`LookupFinds`, `GetIs`),
   to exactly one leaf otherwise, and a range takes what `RangesFind` asks for (`RangeIs`, `InOrder`).
2. What each operator does to the paths: a split turns the name at one level into that of its half or
   adds one on top (`SplitBelow`, `SplitRoot`), and the names of the halves are either the old
   name or a key that lies below, so it takes nobody else's name; a put adds one path (`PutKept`); a
   deletion removes one and may shorten those through one directory (`LiftedOrdered`, `DeleteKept`). Each
   keeps `Ordered`, and each but the put and the deletion keeps the pairs of keys and values.
3. The steps: `WriteLeaf` may overfill one leaf, `WriteParent` splits what is too full, which may
   overfill its parent, and at the root nothing is left to be written.
4. The refinement: what a job will come to (`Due`) is the same before and after each of its
   steps (`SkipDue`, `LeafDue`, `ParentDue`), because entries come with different keys, so that a
   key put from `todo` is not put again; `Finish` therefore sets what was settled when it began.

Only model-checked: the liveness properties of the passing runs (`DirtyEventuallyPublished`,
`OwnCallSettles`, `ConnectionsSettle`, `PutsSettle`, `RetriesFind`, `SubscribersCatchUp`,
`ListsCatchUpOrDelete`, `LateDataIsCached` and `GetsSettle` of `StoreReads` and `FallbackStore`), because
liveness and `ENABLED` are out of the reach of the prover. Every other property of a passing run,
invariant, action property or refinement, is stated by a theorem above. What the violated
runs and the refuted statements say is TLC's counterexample.

## Plan

1. Proofs of the types of `RefResolver` and `BlossomStore`, of what makes views converge in
   `RefResolver` short of liveness, and of `FallbackStore` as an implementation of `Requests`.
2. The registry composed with the resolver in place of the external `publishFn`;
   registries that receive the same events in any order; two tabs over one localStorage.
3. Signaling with candidates and settings changed while running; mesh frames.
4. The flushes of the search index over one shared root; the chunk arithmetic of range reads.
5. The request correlation of the worker and native adapters.

`SubscriberIsCurrent` of `TreeRootSubscribers` (a listener is never taken back to an older
root) is stated, and no run checks it: TLC refutes it, because the queued snapshot of `subscribe` is
delivered after an update of the same task. `NoUndelete` of `TreeRootRegistry` (no event is
sent for a deleted tree, `treeRootCache.ts:192-195`) is stated too and refuted: a publish that
is in flight when its tree is deleted cannot be withdrawn. `CleanInItsOwnTree` is the third.

## Not modelled

User interfaces, service workers and the NDK fork: they hold no protocol state that
the repository's own code defines, or belong to third parties. The Merkle tree and
encryption code is sequential; of it the arithmetic of chunk boundaries is the part
worth modelling. `PROJECT.json` names the reason per component.
