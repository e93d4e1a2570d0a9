------------------------- MODULE RefResolverProofs -------------------------
(***************************************************************************)
(* Proofs about RefResolver, for any sets of devices and roots, any clocks *)
(* and any bounds.                                                         *)
(***************************************************************************)
EXTENDS RefResolver, TLAPS

(* An absent entry is as old as can be. *)
Entries ==
    {e \in [root : Roots \cup {"absent", "deleted"}, t : Nat, id : 0..MaxEvents] :
        e.root = "absent" => e.t = 0 /\ e.id = 0}

Views == [Devices -> Entries \cup {Closed}]

ResolverInv ==
    /\ now \in Nat
    /\ cache \in [Devices -> Entries]
    /\ sub \in Views /\ list \in Views /\ stray \in Views
    /\ encrypting \in [Devices -> SUBSET [root : Roots, t : Nat, begun : Nat]]
    /\ sending \in [Devices -> SUBSET {e \in Entries : e.root # "absent"}]
    /\ published \subseteq {e \in Entries : e.root # "absent"}

-----------------------------------------------------------------------------
(* Entries and their order. *)

(* The fields of an entry, and of a view that is closed. *)
LEMMA EntryFacts ==
    ASSUME NEW e \in Entries \cup {Closed}
    PROVE  /\ e.t \in Nat /\ e.id \in Nat
           /\ e.root = "absent" => e.t = 0 /\ e.id = 0
  BY ResolverAssumption DEF Entries, Closed

(* No entry is newer than one that is newer than it. *)
LEMMA NewerIsStrict ==
    ASSUME NEW e \in Entries \cup {Closed}, NEW f \in Entries \cup {Closed}, Newer(e, f)
    PROVE  ~Newer(f, e)
  BY EntryFacts DEF Newer

(* A write is stamped later than the cache, the subscription and the list show. *)
LEMMA StampedLater ==
    ASSUME ResolverInv, NEW d \in Devices, NEW minimum \in Nat
    PROVE  /\ NextCreatedAt(d, minimum) \in Nat
           /\ sub[d].t < NextCreatedAt(d, minimum)
           /\ list[d].t < NextCreatedAt(d, minimum)
<1>1. cache[d].t \in Nat /\ sub[d].t \in Nat /\ list[d].t \in Nat
  BY EntryFacts DEF ResolverInv, Views
<1> DEFINE known == {cache[d].t, sub[d].t, list[d].t}
           latest == CHOOSE t \in known : \A u \in known : u <= t
<1>2. latest \in Nat /\ sub[d].t <= latest /\ list[d].t <= latest
  <2> DEFINE P(t) == \A u \in known : u <= t
  <2>1. \E t \in known : P(t)
    BY <1>1
  <2>2. latest \in known /\ P(latest)
    <3> HIDE DEF known
    <3> QED  BY <2>1
  <2> HIDE DEF latest
  <2> QED  BY <1>1, <2>2
<1>3. NextCreatedAt(d, minimum) = IF latest >= minimum THEN latest + 1 ELSE minimum
  BY DEF NextCreatedAt
<1> HIDE DEF latest
<1> QED  BY <1>1, <1>2, <1>3

(* The clock of a device. *)
LEMMA ClockTyped ==
    ASSUME ResolverInv, NEW d \in Devices  PROVE Clock(d) \in Nat /\ Clock(d) + 1 \in Nat
  BY ResolverAssumption DEF ResolverInv, Clock

(* What a write shows is an entry, later than the view it replaces. *)
LEMMA WriteFacts ==
    ASSUME ResolverInv, NEW d \in Devices, NEW minimum \in Nat,
           NEW r \in Roots \cup {"deleted"}, r # "absent"
    PROVE  LET e == [root |-> r, t |-> NextCreatedAt(d, minimum), id |-> 0]
           IN  /\ e \in Entries /\ e.root # "absent"
               /\ ~Newer(sub[d], e) /\ ~Newer(list[d], e)
<1> DEFINE e == [root |-> r, t |-> NextCreatedAt(d, minimum), id |-> 0]
<1>1. e \in Entries /\ e.root # "absent"
  BY StampedLater, ResolverAssumption DEF Entries
<1>2. sub[d].t \in Nat /\ list[d].t \in Nat
  BY EntryFacts DEF ResolverInv, Views
<1>3. ~Newer(sub[d], e) /\ ~Newer(list[d], e)
  BY <1>2, StampedLater DEF Newer
<1> QED  BY <1>1, <1>3

-----------------------------------------------------------------------------
(* The types of a step, by what it does to the views. *)

(* Showing an entry keeps every view an entry or closed. *)
LEMMA ShowTyped ==
    ASSUME ResolverInv, NEW d \in Devices, NEW e \in Entries, NEW begun, Show(d, e, begun)
    PROVE  cache' \in [Devices -> Entries] /\ sub' \in Views /\ list' \in Views
  BY DEF Show, ResolverInv, Views

(* An event that is handed to the network is one that may be published. *)
LEMMA HandTyped ==
    ASSUME ResolverInv, NEW d \in Devices, NEW e \in Entries, e.root # "absent", Hand(d, e)
    PROVE  sending' \in [Devices -> SUBSET {f \in Entries : f.root # "absent"}]
  BY DEF Hand, ResolverInv

(* Every step keeps the types. *)
LEMMA ResolverStep == ResolverInv /\ [Next]_vars => ResolverInv'
<1> SUFFICES ASSUME ResolverInv, [Next]_vars  PROVE ResolverInv'
  OBVIOUS
<1>1. CASE Tick
  BY <1>1 DEF Tick, ResolverInv, views
<1>2. ASSUME NEW d \in Devices,
             Subscribe(d) \/ Unsubscribe(d) \/ List(d) \/ Unlist(d) \/ Stop(d) \/ UnlistStray(d)
      PROVE  ResolverInv'
  <2>1. /\ UNCHANGED <<now, cache, encrypting, sending, published>>
        /\ sub' \in Views /\ list' \in Views /\ stray' \in Views
    BY <1>2 DEF Subscribe, Unsubscribe, List, Unlist, Stop, UnlistStray, ResolverInv, Views
  <2> QED  BY <2>1 DEF ResolverInv
<1>3. ASSUME NEW d \in Devices, NEW e \in published,
             ReceiveSub(d, e) \/ ReceiveList(d, e) \/ ReceiveStray(d, e)
      PROVE  ResolverInv'
  <2>1. e \in Entries
    BY DEF ResolverInv
  <2>2. /\ UNCHANGED <<now, encrypting, sending, published>>
        /\ cache' \in [Devices -> Entries]
        /\ sub' \in Views /\ list' \in Views /\ stray' \in Views
    BY <1>3, <2>1 DEF ReceiveSub, ReceiveList, ReceiveStray, ResolverInv, Views
  <2> QED  BY <2>2 DEF ResolverInv
<1>4. ASSUME NEW d \in Devices, NEW r \in Roots, Publish(d, r)  PROVE ResolverInv'
  <2> DEFINE e == [root |-> r, t |-> NextCreatedAt(d, Clock(d)), id |-> 0]
  <2>1. e \in Entries /\ e.root # "absent"
    BY ClockTyped, WriteFacts, ResolverAssumption
  <2>2. Show(d, e, Clock(d)) /\ Hand(d, e) /\ UNCHANGED <<now, stray, encrypting, published>>
    BY <1>4 DEF Publish
  <2> HIDE DEF e
  <2> QED  BY <2>1, <2>2, ShowTyped, HandTyped DEF ResolverInv
<1>5. ASSUME NEW d \in Devices, NEW r \in Roots, BeginPublish(d, r)  PROVE ResolverInv'
  <2>1. NextCreatedAt(d, Clock(d)) \in Nat /\ Clock(d) \in Nat
    BY ClockTyped, StampedLater
  <2> QED  BY <1>5, <2>1 DEF BeginPublish, ResolverInv, views
<1>6. ASSUME NEW d \in Devices, NEW p \in encrypting[d], EndPublish(d, p)  PROVE ResolverInv'
  <2> DEFINE e == [root |-> p.root, t |-> p.t, id |-> 0]
  <2>1. p \in [root : Roots, t : Nat, begun : Nat]
    BY DEF ResolverInv
  <2>2. e \in Entries /\ e.root # "absent"
    BY <2>1, ResolverAssumption DEF Entries
  <2>3. /\ Show(d, e, p.begun) /\ Hand(d, e) /\ UNCHANGED <<now, stray, published>>
        /\ encrypting' = [encrypting EXCEPT ![d] = @ \ {p}]
    BY <1>6 DEF EndPublish
  <2> HIDE DEF e
  <2> QED  BY <2>2, <2>3, ShowTyped, HandTyped DEF ResolverInv
<1>7. ASSUME NEW d \in Devices, Delete(d)  PROVE ResolverInv'
  <2> DEFINE e == [root |-> "deleted", t |-> NextCreatedAt(d, Clock(d) + 1), id |-> 0]
  <2>1. e \in Entries /\ e.root # "absent"
    BY ClockTyped, WriteFacts
  <2>2. Show(d, e, Clock(d)) /\ Hand(d, e) /\ UNCHANGED <<now, stray, encrypting, published>>
    BY <1>7 DEF Delete
  <2> HIDE DEF e
  <2> QED  BY <2>1, <2>2, ShowTyped, HandTyped DEF ResolverInv
<1>8. ASSUME NEW d \in Devices, NEW r \in Roots, InjectListEntry(d, r)  PROVE ResolverInv'
  <2> DEFINE e == [root |-> r, t |-> NextCreatedAt(d, Clock(d)), id |-> 0]
  <2>1. e \in Entries
    BY ClockTyped, WriteFacts, ResolverAssumption
  <2>2. /\ cache' = [cache EXCEPT ![d] = e]
        /\ list' \in {list, [list EXCEPT ![d] = e]}
        /\ UNCHANGED <<now, sub, stray, encrypting, sending, published>>
    BY <1>8 DEF InjectListEntry
  <2> HIDE DEF e
  <2> QED  BY <2>1, <2>2 DEF ResolverInv, Views
<1>9. ASSUME NEW d \in Devices, NEW s \in sending[d], Send(d, s)  PROVE ResolverInv'
  <2>1. PICK i \in 1..MaxEvents : published' = published \cup {[s EXCEPT !.id = i]}
    BY <1>9 DEF Send
  <2>2. s \in Entries /\ s.root # "absent"
    BY DEF ResolverInv
  <2>3. [s EXCEPT !.id = i] \in Entries /\ [s EXCEPT !.id = i].root # "absent"
    BY <2>2, ResolverAssumption DEF Entries
  <2>4. sending' \in [Devices -> SUBSET {f \in Entries : f.root # "absent"}]
    BY <1>9 DEF Send, ResolverInv
  <2> QED  BY <1>9, <2>1, <2>3, <2>4 DEF Send, ResolverInv, views
<1>10. CASE UNCHANGED vars
  BY <1>10 DEF vars, views, ResolverInv
<1> QED  BY <1>1, <1>2, <1>3, <1>4, <1>5, <1>6, <1>7, <1>8, <1>9, <1>10 DEF Next

(* Initially every view is closed and every cache empty. *)
LEMMA ResolverInit == Init => ResolverInv
<1>1. Absent \in Entries
  BY ResolverAssumption DEF Absent, Entries
<1> QED  BY <1>1 DEF Init, ResolverInv, Views

-----------------------------------------------------------------------------
(* Views. *)

KeepsUp(d) ==
    encrypting'[d] = encrypting[d] =>
        /\ sub[d] # Closed /\ sub'[d] # Closed => ~Newer(sub[d], sub'[d])
        /\ list[d] # Closed /\ list'[d] # Closed => ~Newer(list[d], list'[d])

(* A view that stays, closes or opens does not go back. *)
LEMMA StaysOrOpens ==
    ASSUME ResolverInv, NEW d \in Devices,
           sub'[d] = sub[d] \/ sub[d] = Closed \/ sub'[d] = Closed,
           list'[d] = list[d] \/ list[d] = Closed \/ list'[d] = Closed
    PROVE  KeepsUp(d)
<1>1. sub[d] \in Entries \cup {Closed} /\ list[d] \in Entries \cup {Closed}
  BY DEF ResolverInv, Views
<1>2. ~Newer(sub[d], sub[d]) /\ ~Newer(list[d], list[d])
  BY <1>1, NewerIsStrict
<1> QED  BY <1>2 DEF KeepsUp

(* A view that is replaced by an entry that is not older does not go back. *)
LEMMA Replaced ==
    ASSUME ResolverInv, NEW d \in Devices, NEW e, ~Newer(sub[d], e), ~Newer(list[d], e),
           sub'[d] \in {sub[d], e}, list'[d] \in {list[d], e}
    PROVE  KeepsUp(d)
<1>1. sub[d] \in Entries \cup {Closed} /\ list[d] \in Entries \cup {Closed}
  BY DEF ResolverInv, Views
<1>2. ~Newer(sub[d], sub[d]) /\ ~Newer(list[d], list[d])
  BY <1>1, NewerIsStrict
<1> QED  BY <1>2 DEF KeepsUp

(* An event is taken by a subscription that it is newer than, and by a list
   that it is newer than or that shows nothing yet. *)
LEMMA ReceivedIsNewer ==
    ASSUME ResolverInv, NEW d \in Devices, NEW c \in Devices, NEW e \in published,
           ReceiveSub(c, e) \/ ReceiveList(c, e) \/ ReceiveStray(c, e)
    PROVE  KeepsUp(d)
<1>0. /\ e \in Entries /\ sub[d] \in Entries \cup {Closed} /\ list[d] \in Entries \cup {Closed}
      /\ ~Newer(sub[d], sub[d]) /\ ~Newer(list[d], list[d])
  BY NewerIsStrict DEF ResolverInv, Views
<1>1. sub'[d] = sub[d] \/ (sub'[d] = e /\ Newer(e, sub[d]))
  BY DEF ReceiveSub, ReceiveList, ReceiveStray, ResolverInv, Views
<1>2. list'[d] = list[d] \/ (list'[d] = e /\ ListTakes(list[d], e))
  BY DEF ReceiveSub, ReceiveList, ReceiveStray, ResolverInv, Views
<1>3. ListTakes(list[d], e) => ~Newer(list[d], e)
  <2>1. CASE list[d].root = "absent"
    BY <1>0, <2>1, EntryFacts DEF Newer
  <2>2. CASE Newer(e, list[d])
    BY <1>0, <2>2, NewerIsStrict
  <2> QED  BY <2>1, <2>2 DEF ListTakes
<1>4. Newer(e, sub[d]) => ~Newer(sub[d], e)
  BY <1>0, NewerIsStrict
<1> QED  BY <1>0, <1>1, <1>2, <1>3, <1>4 DEF KeepsUp

(* What a writer shows is stamped later than what it replaces. *)
LEMMA ShownIsLater ==
    ASSUME ResolverInv, NEW d \in Devices, NEW c \in Devices, NEW e, NEW begun,
           ~Newer(sub[c], e), ~Newer(list[c], e), Show(c, e, begun)
    PROVE  KeepsUp(d)
<1>1. CASE d = c
  <2>1. sub'[d] \in {sub[d], e} /\ list'[d] \in {list[d], e}
    BY <1>1 DEF Show, ResolverInv, Views
  <2> QED  BY <1>1, <2>1, Replaced
<1>2. CASE d # c
  <2>1. sub'[d] = sub[d] /\ list'[d] = list[d]
    BY <1>2 DEF Show, ResolverInv, Views
  <2> QED  BY <2>1, StaysOrOpens
<1> QED  BY <1>1, <1>2

(* No step takes an open view back. *)
LEMMA StepKeepsUp ==
    ASSUME ResolverInv, [Next]_vars, NEW d \in Devices
    PROVE  KeepsUp(d)
<1>1. CASE Tick \/ UNCHANGED vars
  BY <1>1, StaysOrOpens DEF Tick, vars, views
<1>2. ASSUME NEW c \in Devices,
             Subscribe(c) \/ Unsubscribe(c) \/ List(c) \/ Unlist(c) \/ Stop(c) \/ UnlistStray(c)
      PROVE  KeepsUp(d)
  <2>1. /\ sub'[d] = sub[d] \/ sub[d] = Closed \/ sub'[d] = Closed
        /\ list'[d] = list[d] \/ list[d] = Closed \/ list'[d] = Closed
    BY <1>2 DEF Subscribe, Unsubscribe, List, Unlist, Stop, UnlistStray, ResolverInv, Views
  <2> QED  BY <2>1, StaysOrOpens
<1>3. ASSUME NEW c \in Devices, NEW e \in published,
             ReceiveSub(c, e) \/ ReceiveList(c, e) \/ ReceiveStray(c, e)
      PROVE  KeepsUp(d)
  BY <1>3, ReceivedIsNewer
<1>4. ASSUME NEW c \in Devices, NEW r \in Roots, Publish(c, r)  PROVE KeepsUp(d)
  <2> DEFINE e == [root |-> r, t |-> NextCreatedAt(c, Clock(c)), id |-> 0]
  <2>1. ~Newer(sub[c], e) /\ ~Newer(list[c], e)
    BY ClockTyped, WriteFacts, ResolverAssumption
  <2>2. Show(c, e, Clock(c))
    BY <1>4 DEF Publish
  <2> HIDE DEF e
  <2> QED  BY <2>1, <2>2, ShownIsLater
<1>5. ASSUME NEW c \in Devices, NEW r \in Roots, BeginPublish(c, r)  PROVE KeepsUp(d)
  BY <1>5, StaysOrOpens DEF BeginPublish, views
<1>6. ASSUME NEW c \in Devices, NEW p \in encrypting[c], EndPublish(c, p)  PROVE KeepsUp(d)
  <2>1. CASE d = c
    <3>1. encrypting'[d] # encrypting[d]
      BY <1>6, <2>1 DEF EndPublish, ResolverInv
    <3> QED  BY <3>1 DEF KeepsUp
  <2>2. CASE d # c
    <3>1. sub'[d] = sub[d] /\ list'[d] = list[d]
      BY <1>6, <2>2 DEF EndPublish, Show, ResolverInv, Views
    <3> QED  BY <3>1, StaysOrOpens
  <2> QED  BY <2>1, <2>2
<1>7. ASSUME NEW c \in Devices, Delete(c)  PROVE KeepsUp(d)
  <2> DEFINE e == [root |-> "deleted", t |-> NextCreatedAt(c, Clock(c) + 1), id |-> 0]
  <2>1. ~Newer(sub[c], e) /\ ~Newer(list[c], e)
    BY ClockTyped, WriteFacts
  <2>2. Show(c, e, Clock(c))
    BY <1>7 DEF Delete
  <2> HIDE DEF e
  <2> QED  BY <2>1, <2>2, ShownIsLater
<1>8. ASSUME NEW c \in Devices, NEW r \in Roots, InjectListEntry(c, r)  PROVE KeepsUp(d)
  <2> DEFINE e == [root |-> r, t |-> NextCreatedAt(c, Clock(c)), id |-> 0]
  <2>1. ~Newer(sub[c], e) /\ ~Newer(list[c], e)
    BY ClockTyped, WriteFacts, ResolverAssumption
  <2>2. UNCHANGED sub /\ list' \in {list, [list EXCEPT ![c] = e]}
    BY <1>8 DEF InjectListEntry
  <2> HIDE DEF e
  <2>3. CASE d = c
    BY <2>1, <2>2, <2>3, Replaced DEF ResolverInv, Views
  <2>4. CASE d # c
    BY <2>2, <2>4, StaysOrOpens DEF ResolverInv, Views
  <2> QED  BY <2>3, <2>4
<1>9. ASSUME NEW c \in Devices, NEW s \in sending[c], Send(c, s)  PROVE KeepsUp(d)
  BY <1>9, StaysOrOpens DEF Send, views
<1> QED  BY <1>1, <1>2, <1>3, <1>4, <1>5, <1>6, <1>7, <1>8, <1>9 DEF Next

(* The types hold always. *)
THEOREM Invariance == Spec => []ResolverInv
  BY ResolverInit, ResolverStep, PTL DEF Spec

(***************************************************************************)
(* What a device shows never goes back to an older root, whatever order    *)
(* events are delivered in and however clocks differ, but for a publish    *)
(* that ends its encryption late.                                          *)
(***************************************************************************)
THEOREM ViewsKeepUp == Spec => ViewsNeverGoBack
<1>1. ResolverInv /\ [Next]_vars => [\A d \in Devices : KeepsUp(d)]_vars
  BY StepKeepsUp
<1> QED  BY <1>1, Invariance, PTL DEF Spec, ViewsNeverGoBack, KeepsUp
=============================================================================
