------------------------ MODULE TreeRootSubscribers ------------------------
(***************************************************************************)
(* The registry together with the code that listens to it: subscribe(),    *)
(* resolve() and the notify() of every method.  A subscriber is reduced to *)
(* the root it was last told of.                                           *)
(*                                                                         *)
(* notify() calls the listeners before the method returns.  The snapshot a *)
(* new subscriber gets is queued as a microtask: other code of the same    *)
(* task and microtasks queued before it still run first, a timer or a      *)
(* reload does not.                                                        *)
(***************************************************************************)
EXTENDS TreeRootRegistry

CONSTANTS
    Listeners,  \* callbacks given to subscribe
    Callers     \* calls of resolve

VARIABLES
    subscribed, \* the tree a listener is registered for
    snapshot,   \* the root its queued snapshot carries
    view,       \* the root it was last told of
    waiting     \* the tree a resolve call waits for

subVars == <<subscribed, snapshot, view, waiting>>
allVars == <<vars, subVars>>

HashOf(r) == IF r = None THEN None ELSE r.hash

SubscribersTypeOK ==
    /\ subscribed \in [Listeners -> TreeKeys \cup {None}]
    /\ snapshot \in [Listeners -> Hashes \cup {None}]
    /\ view \in [Listeners -> Hashes \cup {None}]
    /\ waiting \in [Callers -> TreeKeys \cup {None}]

NoListeners == [l \in Listeners |-> None]

SubscribersInit ==
    /\ Init
    /\ subscribed = NoListeners /\ snapshot = NoListeners /\ view = NoListeners
    /\ waiting = [c \in Callers |-> None]

(* Mutant: a resolve call takes no record that still waits to be published. *)
NotifyClean(changed) ==
    /\ view' = [l \in Listeners |-> IF subscribed[l] \in changed
                                    THEN HashOf(records'[subscribed[l]]) ELSE view[l]]
    /\ waiting' = [c \in Callers |-> IF /\ waiting[c] \in changed
                                        /\ records'[waiting[c]] # None
                                        /\ ~records'[waiting[c]].dirty
                                     THEN None ELSE waiting[c]]
    /\ UNCHANGED <<subscribed, snapshot>>

(* notify(k, record) for the trees of `changed'; a resolve call takes the first record. *)
Notify(changed) ==
    /\ view' = [l \in Listeners |-> IF subscribed[l] \in changed
                                    THEN HashOf(records'[subscribed[l]]) ELSE view[l]]
    /\ waiting' = [c \in Callers |-> IF /\ waiting[c] \in changed
                                        /\ records'[waiting[c]] # None
                                     THEN None ELSE waiting[c]]
    /\ UNCHANGED <<subscribed, snapshot>>

Changed == {k \in TreeKeys : records'[k] # records[k]}

NoMicrotask == snapshot = NoListeners

Subscribe(l, k) ==
    /\ subscribed[l] = None /\ snapshot[l] = None
    /\ subscribed' = [subscribed EXCEPT ![l] = k]
    /\ snapshot' = [snapshot EXCEPT ![l] = HashOf(records[k])]
    /\ view' = [view EXCEPT ![l] = None]
    /\ UNCHANGED waiting

DeliverSnapshot(l) ==
    /\ snapshot[l] # None
    /\ view' = [view EXCEPT ![l] = snapshot[l]]
    /\ snapshot' = [snapshot EXCEPT ![l] = None]
    /\ UNCHANGED <<subscribed, waiting>>

(* The queued snapshot is not withdrawn. *)
Unsubscribe(l) ==
    /\ subscribed[l] # None
    /\ subscribed' = [subscribed EXCEPT ![l] = None]
    /\ UNCHANGED <<snapshot, view, waiting>>

(* resolve() answers at once when there is a record. *)
Resolve(c, k) ==
    /\ waiting[c] = None /\ records[k] = None
    /\ waiting' = [waiting EXCEPT ![c] = k]
    /\ UNCHANGED <<subscribed, snapshot, view>>

ResolveTimeout(c) ==
    /\ waiting[c] # None
    /\ waiting' = [waiting EXCEPT ![c] = None]
    /\ UNCHANGED <<subscribed, snapshot, view>>

SubscriberStep ==
    \/ \E l \in Listeners :
         \/ \E k \in TreeKeys : Subscribe(l, k)
         \/ DeliverSnapshot(l)
         \/ Unsubscribe(l)
    \/ \E c \in Callers :
         \/ \E k \in TreeKeys : Resolve(c, k)
         \/ NoMicrotask /\ ResolveTimeout(c)

SubscribersNext ==
    \/ Update /\ Notify(Changed)
    \/ \E k \in TreeKeys : Delete(k) /\ Notify({k})
    \/ (Publish \/ ChangeAccount) /\ UNCHANGED subVars
    \/ NoMicrotask /\ (Tick \/ \E k \in TreeKeys : TimerFires(k)) /\ UNCHANGED subVars
    \/ /\ NoMicrotask /\ Reload
       /\ subscribed' = NoListeners /\ snapshot' = NoListeners /\ view' = NoListeners
       /\ waiting' = [c \in Callers |-> None]
    \/ SubscriberStep /\ UNCHANGED vars

SubscribersSpec == SubscribersInit /\ [][SubscribersNext]_allVars

SubscribersFairSpec ==
    /\ SubscribersSpec
    /\ Fairness
    /\ \A l \in Listeners : WF_allVars(DeliverSnapshot(l) /\ UNCHANGED vars)

(***************************************************************************)
(* A resolve call waits only for a tree that has no record: none of the    *)
(* ways a record can appear leaves a caller waiting for its timeout.       *)
(***************************************************************************)
WaitsOnlyForAbsent ==
    \A c \in Callers : waiting[c] # None => records[waiting[c]] = None

(***************************************************************************)
(* "Emits current snapshot immediately if available, then future updates": *)
(* once its snapshot has come, a subscriber knows the current root.        *)
(***************************************************************************)
SubscriberIsCurrent ==
    \A l \in Listeners : subscribed[l] # None /\ snapshot[l] = None =>
        view[l] = HashOf(records[subscribed[l]])
=============================================================================
