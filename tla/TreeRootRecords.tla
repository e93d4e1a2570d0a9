-------------------------- MODULE TreeRootRecords --------------------------
(***************************************************************************)
(* The record format of the tree root registry                             *)
(* (packages/hashtree-tree-root/src/index.ts) and the pure rules that      *)
(* decide what an update does to a record: whether it replaces the record, *)
(* whether it only fills gaps in it, and what the resulting record is.     *)
(*                                                                         *)
(* Data are abstracted to what the rules tell apart.  A hash, a content    *)
(* key and a label are model values.  `encryptedKey' stands for the two    *)
(* fields that carry the content key in encrypted form (encryptedKey and   *)
(* selfEncryptedKey) and holds the content key they decrypt to; keyId and  *)
(* selfEncryptedLinkKey follow the same rules and are left out.  The order *)
(* of labels is left out, so {} is an absent list.                         *)
(***************************************************************************)
EXTENDS Naturals

CONSTANTS
    Hashes,       \* root hashes
    ContentKeys,  \* content encryption keys
    KeysFor,      \* [Hashes -> SUBSET ContentKeys]: the keys that open a hash
    Labels,       \* tree labels
    Offered,      \* the option records an update may carry
    None          \* a field, a record or a call that is absent

Visibilities == {"public", "link-visible", "private"}
Sources == {"local-write", "nostr", "prefetch", "worker"}

(* The optional metadata of an update. *)
Option == [key: ContentKeys \cup {None}, visibility: Visibilities \cup {None},
           labels: SUBSET Labels, encryptedKey: ContentKeys \cup {None}]

(***************************************************************************)
(* `obj' is the identity of the record object.  A publish in flight holds  *)
(* a reference to the record it was called with, and an object made by     *)
(* setLocal is the only kind a publish is ever called with: it is numbered *)
(* by the write that made it, and objects made from events share number 0. *)
(***************************************************************************)
Record == [hash: Hashes, key: ContentKeys \cup {None}, visibility: Visibilities,
           labels: SUBSET Labels, updatedAt: Nat, source: Sources, dirty: BOOLEAN,
           encryptedKey: ContentKeys \cup {None}, obj: Nat]

ASSUME RecordsAssumption ==
    /\ KeysFor \in [Hashes -> SUBSET ContentKeys]
    /\ Offered \subseteq Option
    /\ None \notin Record
    /\ None \notin ContentKeys \cup Visibilities \cup Hashes

(* What an update of content h may carry: a key opens the content it comes with. *)
Options(h) == {o \in Offered : /\ o.key \in KeysFor[h] \cup {None}
                               /\ o.encryptedKey \in KeysFor[h] \cup {None}}

(* The source's `a ?? b'. *)
OrElse(a, b) == IF a # None THEN a ELSE b

SameHash(e, h) == e # None /\ e.hash = h

(* Mutant: a waiting local write is replaced as well. *)
ShouldAcceptUpdateWhenDirty(e, h, key, ts) ==
    e # None =>
        /\ e.updatedAt <= ts
        /\ (e.updatedAt = ts /\ e.hash = h) => key \notin {None, e.key}

(***************************************************************************)
(* An update replaces a clean record unless it is older, or is as old and  *)
(* carries the same hash with no other key.                                *)
(***************************************************************************)
ShouldAcceptUpdate(e, h, key, ts) ==
    e # None =>
        /\ ~e.dirty
        /\ e.updatedAt <= ts
        /\ (e.updatedAt = ts /\ e.hash = h) => key \notin {None, e.key}

(* An update of the same hash that is not accepted fills the gaps of a clean record. *)
MergeSameHashMetadata(e, h, o) ==
    IF ~SameHash(e, h) \/ e.dirty THEN e
    ELSE [e EXCEPT !.key = OrElse(@, o.key),
                   !.visibility = IF @ = "public" THEN OrElse(o.visibility, @) ELSE @,
                   !.labels = @ \cup o.labels,
                   !.encryptedKey = OrElse(@, o.encryptedKey)]

KeptLabels(e, o) == IF o.labels = {} /\ e # None THEN e.labels ELSE o.labels

(* Mutants: the old key is kept for a new hash; the visibility has no default. *)
EventRecordKeepingKey(e, h, ts, src, o, visibility) ==
    [hash |-> h,
     key |-> OrElse(o.key, IF e # None THEN e.key ELSE None),
     visibility |-> OrElse(o.visibility, visibility),
     labels |-> KeptLabels(e, o),
     updatedAt |-> ts, source |-> src, dirty |-> FALSE,
     encryptedKey |-> OrElse(o.encryptedKey, IF SameHash(e, h) THEN e.encryptedKey ELSE None),
     obj |-> 0]

EventRecordNoDefault(e, h, ts, src, o, visibility) ==
    [EventRecordKeepingKey(e, h, ts, src, o, visibility) EXCEPT !.visibility = o.visibility]

(* The record an accepted event leaves: what is known of the same hash is kept. *)
EventRecord(e, h, ts, src, o, visibility) ==
    [hash |-> h,
     key |-> OrElse(o.key, IF SameHash(e, h) THEN e.key ELSE None),
     visibility |-> OrElse(o.visibility, visibility),
     labels |-> KeptLabels(e, o),
     updatedAt |-> ts, source |-> src, dirty |-> FALSE,
     encryptedKey |-> OrElse(o.encryptedKey, IF SameHash(e, h) THEN e.encryptedKey ELSE None),
     obj |-> 0]

(* The record a local write leaves, whatever was there. *)
LocalRecord(e, h, ts, o, n) ==
    [hash |-> h,
     key |-> o.key,
     visibility |-> OrElse(o.visibility, IF e # None THEN e.visibility ELSE "public"),
     labels |-> KeptLabels(e, o),
     updatedAt |-> ts, source |-> "local-write", dirty |-> TRUE,
     encryptedKey |-> OrElse(o.encryptedKey, IF e # None THEN e.encryptedKey ELSE None),
     obj |-> n]
=============================================================================
