------------------------ MODULE MCTreeRootRegistry ------------------------
(* Small instances of TreeRootRegistry for TLC. *)
EXTENDS TreeRootRegistry, TLC

CONSTANTS h1, h2, c1, s1, s2

MCTreeKeys == {<<"alice", "docs">>}

(* An encrypted root and a plain one. *)
MCKeysFor == (h1 :> {c1}) @@ (h2 :> {})

Opt(key, visibility, labels, encryptedKey) ==
    [key |-> key, visibility |-> visibility, labels |-> labels, encryptedKey |-> encryptedKey]

(* A bare root, or a root with its key. *)
KeyOffered == {Opt(None, None, {}, None)} \cup {Opt(c, None, {}, None) : c \in ContentKeys}

(* A public root, or a private root. *)
VisibilityOffered == {Opt(None, v, {}, None) : v \in {"public", "private"}}

(* Slots are interchangeable. *)
Symmetry == Permutations(Slots)
=============================================================================
