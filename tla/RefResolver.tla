---------------------------- MODULE RefResolver ----------------------------
(***************************************************************************)
(* How the devices of one account agree on the root of a tree over relays: *)
(* createNostrRefResolver (packages/hashtree-nostr/src/resolver/nostr.ts). *)
(* A root is published as a replaceable event; a device shows it through   *)
(* subscribe() (one tree) and list() (all trees of an account), and keeps  *)
(* localListCache, which both fill and from which both begin.              *)
(*                                                                         *)
(* One tree is modelled.  The relays are several and lag behind each       *)
(* other: an open subscription is sent any published event at any time, in *)
(* any order, any number of times.  Ids of events are unique and their     *)
(* order says nothing about age; id 0 is a local write, whose id is not    *)
(* known.  Keys, labels and visibility travel with the root.               *)
(***************************************************************************)
EXTENDS Naturals, FiniteSets

CONSTANTS
    Devices,
    Writers,    \* the devices that publish, delete and inject
    Skew,       \* [Devices -> Nat]: how far the clock of a device is ahead
    Roots,
    Stoppers,   \* bound: the devices that call stop()
    Window,     \* seconds in which a deleted entry is not undeleted (30)
    MaxTime,    \* bound on the time
    MaxEvents   \* bound on the writes, and on the ids of events

ASSUME ResolverAssumption ==
    /\ Writers \subseteq Devices /\ Stoppers \subseteq Devices
    /\ Skew \in [Devices -> Nat]
    /\ Window \in Nat /\ MaxTime \in Nat /\ MaxEvents \in Nat
    /\ {"absent", "deleted", "closed"} \cap Roots = {}

VARIABLES
    now,
    cache,      \* localListCache: the entry of the tree
    sub,        \* the entry of the subscription of a device, or Closed
    list,       \* the entry of its list subscription, or Closed
    stray,      \* the entry of a list subscription that stop() has forgotten, or Closed
    encrypting, \* publishes that await encryption
    sending,    \* events handed to the network and not yet on a relay
    published,  \* events on some relay
    writes      \* number of writes so far

views == <<cache, sub, list, stray>>
vars == <<now, views, encrypting, sending, published, writes>>

-----------------------------------------------------------------------------
Closed == [root |-> "closed", t |-> 0, id |-> 0]
Absent == [root |-> "absent", t |-> 0, id |-> 0]

IsEntry(e) ==
    /\ DOMAIN e = {"root", "t", "id"}
    /\ e.root \in Roots \cup {"absent", "deleted"}
    /\ e.t \in Nat /\ e.id \in 0..MaxEvents

IsEvent(e) == IsEntry(e) /\ e.root # "absent"

(* Every view holds an entry or is closed, what is sent has no id yet and
   what is published has one. *)
TypeOK ==
    /\ now \in 0..MaxTime
    /\ \A d \in Devices :
          /\ IsEntry(cache[d])
          /\ sub[d] = Closed \/ IsEntry(sub[d])
          /\ list[d] = Closed \/ IsEntry(list[d])
          /\ stray[d] = Closed \/ IsEntry(stray[d])
          /\ \A p \in encrypting[d] : p.root \in Roots /\ p.t \in Nat /\ p.begun \in Nat
          /\ \A s \in sending[d] : IsEvent(s) /\ s.id = 0
    /\ \A e \in published : IsEvent(e) /\ e.id # 0
    /\ writes \in 0..MaxEvents

Init ==
    /\ now = 0 /\ published = {} /\ writes = 0
    /\ cache = [d \in Devices |-> Absent]
    /\ sub = [d \in Devices |-> Closed]
    /\ list = [d \in Devices |-> Closed]
    /\ stray = [d \in Devices |-> Closed]
    /\ encrypting = [d \in Devices |-> {}]
    /\ sending = [d \in Devices |-> {}]

-----------------------------------------------------------------------------
(* compareReplaceableEventOrder(e, f) > 0. *)
Newer(e, f) == e.t > f.t \/ (e.t = f.t /\ e.id > f.id)

Clock(d) == now + Skew[d]

(* Mutant: the clock alone. *)
NextCreatedAtClock(d, minimum) == minimum

(* nextReplaceableCreatedAt: later than everything the device knows. *)
NextCreatedAt(d, minimum) ==
    LET known == {cache[d].t, sub[d].t, list[d].t}
        latest == CHOOSE t \in known : \A u \in known : u <= t
    IN  IF latest >= minimum THEN latest + 1 ELSE minimum

(* Would a root at time t undelete entry e too soon? *)
Undeletes(t, e) == e.root = "deleted" /\ t < e.t + Window

(* A write of the owner replaces what the device shows; the list refuses
   one that would undelete the tree too soon. *)
Show(d, e, begun) ==
    /\ cache' = [cache EXCEPT ![d] = e]
    /\ sub' = IF sub[d] = Closed THEN sub ELSE [sub EXCEPT ![d] = e]
    /\ list' = IF list[d] = Closed \/ (e.root # "deleted" /\ Undeletes(begun, list[d]))
               THEN list ELSE [list EXCEPT ![d] = e]

-----------------------------------------------------------------------------
(******************************** Reading **********************************)

Subscribe(d) ==
    /\ sub[d] = Closed
    /\ sub' = [sub EXCEPT ![d] = cache[d]]
    /\ UNCHANGED <<now, cache, list, stray, encrypting, sending, published, writes>>

(* The last callback is removed. *)
Unsubscribe(d) ==
    /\ sub[d] # Closed
    /\ sub' = [sub EXCEPT ![d] = Closed]
    /\ UNCHANGED <<now, cache, list, stray, encrypting, sending, published, writes>>

(* Mutant: compares with the cache instead of the subscription. *)
ReceiveSubCached(d, e) ==
    /\ sub[d] # Closed /\ e \in published
    /\ e.root # "deleted" /\ Newer(e, cache[d])
    /\ sub' = [sub EXCEPT ![d] = e]
    /\ cache' = [cache EXCEPT ![d] = e]
    /\ UNCHANGED <<now, list, stray, encrypting, sending, published, writes>>

(* An event without a hash (a deletion) is not for subscribers. *)
ReceiveSub(d, e) ==
    /\ sub[d] # Closed /\ e \in published
    /\ IF e.root # "deleted" /\ Newer(e, sub[d])
       THEN /\ sub' = [sub EXCEPT ![d] = e]
            /\ cache' = [cache EXCEPT ![d] = e]
       ELSE UNCHANGED <<sub, cache>>
    /\ UNCHANGED <<now, list, stray, encrypting, sending, published, writes>>

List(d) ==
    /\ list[d] = Closed
    /\ list' = [list EXCEPT ![d] = cache[d]]
    /\ UNCHANGED <<now, cache, sub, stray, encrypting, sending, published, writes>>

Unlist(d) ==
    /\ list[d] # Closed
    /\ list' = [list EXCEPT ![d] = Closed]
    /\ UNCHANGED <<now, cache, sub, stray, encrypting, sending, published, writes>>

(* Mutant: every entry is kept for the window, deleted or not. *)
ListTakesLater(have, e) == have.root = "absent" \/ e.t >= have.t + Window

(* Does a list whose entry is `have' take event e? *)
ListTakes(have, e) ==
    \/ have.root = "absent"
    \/ /\ ~(e.root # "deleted" /\ Undeletes(e.t, have))
       /\ Newer(e, have)

(* What the list takes replaces the cached entry, whatever that holds. *)
ReceiveList(d, e) ==
    /\ list[d] # Closed /\ e \in published
    /\ IF ListTakes(list[d], e)
       THEN /\ list' = [list EXCEPT ![d] = e]
            /\ cache' = [cache EXCEPT ![d] = e]
       ELSE UNCHANGED <<list, cache>>
    /\ UNCHANGED <<now, sub, stray, encrypting, sending, published, writes>>

(* stop() closes the tree subscription; of the list it forgets the entry and
   leaves the relay subscription open.  Bound: one such list per device. *)
Stop(d) ==
    /\ d \in Stoppers /\ (stray[d] = Closed \/ list[d] = Closed)
    /\ sub[d] # Closed \/ list[d] # Closed
    /\ sub' = [sub EXCEPT ![d] = Closed]
    /\ list' = [list EXCEPT ![d] = Closed]
    /\ stray' = IF list[d] = Closed THEN stray ELSE [stray EXCEPT ![d] = list[d]]
    /\ UNCHANGED <<now, cache, encrypting, sending, published, writes>>

(* The forgotten list is still told of events, and fills the cache, *)
ReceiveStray(d, e) ==
    /\ stray[d] # Closed /\ e \in published
    /\ ListTakes(stray[d], e)
    /\ stray' = [stray EXCEPT ![d] = e]
    /\ cache' = [cache EXCEPT ![d] = e]
    /\ UNCHANGED <<now, sub, list, encrypting, sending, published, writes>>

(* until its last callback is removed, which makes the resolver forget the
   list it has now. *)
UnlistStray(d) ==
    /\ stray[d] # Closed
    /\ stray' = [stray EXCEPT ![d] = list[d]]
    /\ list' = [list EXCEPT ![d] = Closed]
    /\ UNCHANGED <<now, cache, sub, encrypting, sending, published, writes>>

-----------------------------------------------------------------------------
(******************************** Writing **********************************)

MayWrite(d) == d \in Writers /\ writes < MaxEvents

Hand(d, e) == sending' = [sending EXCEPT ![d] = @ \cup {e}]

(* publish() of a tree whose key needs no encryption: nothing is awaited
   before the local state is updated. *)
Publish(d, r) ==
    LET e == [root |-> r, t |-> NextCreatedAt(d, Clock(d)), id |-> 0]
    IN  /\ MayWrite(d)
        /\ Show(d, e, Clock(d))
        /\ Hand(d, e)
        /\ writes' = writes + 1
        /\ UNCHANGED <<now, stray, encrypting, published>>

(* publish() of a private or link-visible tree: the time stamp is chosen
   before the key is encrypted, *)
BeginPublish(d, r) ==
    /\ MayWrite(d)
    /\ encrypting' = [encrypting EXCEPT ![d] = @ \cup
           {[root |-> r, t |-> NextCreatedAt(d, Clock(d)), begun |-> Clock(d)]}]
    /\ writes' = writes + 1
    /\ UNCHANGED <<now, views, sending, published>>

(* and the local state is updated after it, whatever came in between.  If the
   encryption fails, this never happens. *)
EndPublish(d, p) ==
    LET e == [root |-> p.root, t |-> p.t, id |-> 0]
    IN  /\ p \in encrypting[d]
        /\ encrypting' = [encrypting EXCEPT ![d] = @ \ {p}]
        /\ Show(d, e, p.begun)
        /\ Hand(d, e)
        /\ UNCHANGED <<now, stray, published, writes>>

(* delete(): an event without a hash, a second ahead. *)
Delete(d) ==
    LET e == [root |-> "deleted", t |-> NextCreatedAt(d, Clock(d) + 1), id |-> 0]
    IN  /\ MayWrite(d)
        /\ Show(d, e, Clock(d))
        /\ Hand(d, e)
        /\ writes' = writes + 1
        /\ UNCHANGED <<now, stray, encrypting, published>>

(* injectListEntry(): local only, and subscribers are not told. *)
InjectListEntry(d, r) ==
    LET e == [root |-> r, t |-> NextCreatedAt(d, Clock(d)), id |-> 0]
    IN  /\ MayWrite(d)
        /\ ~Undeletes(Clock(d), cache[d])
        /\ cache' = [cache EXCEPT ![d] = e]
        /\ list' = IF list[d] = Closed \/ Undeletes(Clock(d), list[d])
                   THEN list ELSE [list EXCEPT ![d] = e]
        /\ writes' = writes + 1
        /\ UNCHANGED <<now, sub, stray, encrypting, sending, published>>

(* The event is signed, which gives it an id, and some relay takes it.  When
   no relay does, publish() says so and undoes nothing. *)
Send(d, s) ==
    /\ s \in sending[d]
    /\ sending' = [sending EXCEPT ![d] = @ \ {s}]
    /\ \E i \in (1..MaxEvents) \ {e.id : e \in published} :
          published' = published \cup {[s EXCEPT !.id = i]}
    /\ UNCHANGED <<now, views, encrypting, writes>>

Tick ==
    /\ now < MaxTime
    /\ now' = now + 1
    /\ UNCHANGED <<views, encrypting, sending, published, writes>>

Next ==
    \/ Tick
    \/ \E d \in Devices :
          \/ Subscribe(d) \/ Unsubscribe(d) \/ List(d) \/ Unlist(d)
          \/ Stop(d) \/ UnlistStray(d)
          \/ \E e \in published : ReceiveSub(d, e) \/ ReceiveList(d, e) \/ ReceiveStray(d, e)
          \/ \E r \in Roots : Publish(d, r) \/ BeginPublish(d, r) \/ InjectListEntry(d, r)
          \/ \E p \in encrypting[d] : EndPublish(d, p)
          \/ Delete(d)
          \/ \E s \in sending[d] : Send(d, s)

Spec == Init /\ [][Next]_vars

Readers == Devices \ Writers

(* As long as the relays hold an event that is news to an open subscription
   of a reading device, they deliver such events. *)
Delivery ==
    \A d \in Readers :
       /\ WF_vars(\E e \in published : ReceiveSub(d, e))
       /\ WF_vars(\E e \in published : ReceiveList(d, e))

FairSpec == Spec /\ Delivery

-----------------------------------------------------------------------------
(****************************** Properties *********************************)

(* What is on screen never goes back, on devices that write as well: a local
   write is stamped later than everything shown.  The exception is a publish
   that ends its encryption after a newer event came in. *)
ViewsNeverGoBack ==
    [][\A d \in Devices : encrypting'[d] = encrypting[d] =>
          /\ sub[d] # Closed /\ sub'[d] # Closed => ~Newer(sub[d], sub'[d])
          /\ list[d] # Closed /\ list'[d] # Closed => ~Newer(list[d], list'[d])]_vars

(* No root on the relays is newer than e. *)
UpToDate(e) == \A f \in published : f.root # "deleted" => ~Newer(f, e)

(* A reading device that stays subscribed catches up with the newest root on
   the relays, whatever order and however often events are delivered in, and
   whatever the cache held when it subscribed. *)
SubscribersCatchUp ==
    \A d \in Readers : []<>(sub[d] = Closed \/ UpToDate(sub[d]))

(* So does a list, unless it shows the tree as deleted. *)
ListsCatchUpOrDelete ==
    \A d \in Readers :
       []<>(list[d] = Closed \/ list[d].root = "deleted" \/ UpToDate(list[d]))

(* The guard of the list is for "stale events", so a tree made anew after it
   was deleted should be listed as well. *)
ListsCatchUp ==
    \A d \in Readers : []<>(list[d] = Closed \/ UpToDate(list[d]))

=============================================================================
