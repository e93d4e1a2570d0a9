-------------------------------- MODULE BTree --------------------------------
(***************************************************************************)
(* The B-tree of packages/hashtree-index/src/btree.ts.  A node is a        *)
(* directory; the entries of a leaf are named after keys and hold values   *)
(* or links, and every other directory is named, when it is split off,     *)
(* after the least name in it.  No directory that is empty is kept, so a   *)
(* tree is the set of its entries, each with the names on the way to it,   *)
(* its key last; the root is the directory <<>>, and no root is no entry.  *)
(*                                                                         *)
(* Directories never change: an operation takes a root and returns another *)
(* one.  Every user of an index holds a root, works on it, and may take    *)
(* over or merge the root of another                                       *)
(* (apps/iris-files/src/stores/searchIndex.ts).                            *)
(*                                                                         *)
(* Keys are numbers, in the order of the operator < on strings; the order  *)
(* of localeCompare, by which entries are sorted, is Collate.              *)
(***************************************************************************)
EXTENDS Naturals, FiniteSets, SequencesExt

CONSTANTS
    Holders,
    Keys,
    Values,
    Collate,      \* [Keys -> Nat]: the rank of a key by localeCompare
    MaxKeys,      \* maxKeys: entries a directory may have (order - 1)
    MaxJobs,      \* bound: the operations awaited at once
    MaxDepth,     \* bound: levels of a tree
    Offers,       \* bound: [Holders -> SUBSET Values], the values a holder inserts
    Room,         \* bound: [Holders -> SUBSET SUBSET Keys], the sets of keys a holder may have
    None

ASSUME BTreeAssumption ==
    /\ Keys \subseteq Nat /\ Collate \in [Keys -> Nat]
    /\ \A k, j \in Keys : Collate[k] = Collate[j] => k = j
    /\ MaxKeys \in Nat /\ MaxKeys >= 2 /\ MaxDepth \in Nat /\ MaxJobs \in Nat /\ None \notin Values
    /\ Offers \in [Holders -> SUBSET Values] /\ Room \in [Holders -> SUBSET SUBSET Keys]

VARIABLES
    tree, \* the root each holder has
    job,  \* the insertion or merge each holder awaits, or Idle
    worn  \* history: the holders of a root that came from one whose names mislead

vars == <<tree, job, worn>>

-----------------------------------------------------------------------------
(******************************* Directories *******************************)

Key(e) == Last(e.path)

KeysOf(t) == {Key(e) : e \in t}

(* What is below directory p, and the names in it. *)
In(t, p) == {e \in t : Len(e.path) > Len(p) /\ SubSeq(e.path, 1, Len(p)) = p}

Names(t, p) == {e.path[Len(p) + 1] : e \in In(t, p)}

(* The directory that the i-th name of a path is in. *)
Dir(path, i) == SubSeq(path, 1, i - 1)

(* sortEntries *)
Before(j, k) == Collate[j] < Collate[k]

(* The two orders agree on S, the names of a tree, say. *)
Alike(S) == \A j, k \in S : Before(j, k) <=> j < k

NamesIn(t) == UNION {ToSet(e.path) : e \in t}

(* Mutant: a key goes to the left of the child that is named after it. *)
ChildLeft(ns, k) ==
    LET greater == {j \in ns : k <= j /\ \E i \in ns : Before(i, j)}
        left == {c \in ns : \A j \in greater : Before(c, j)}
    IN  CHOOSE c \in left : \A d \in left : ~Before(c, d)

(* findChild: the last child before all but the first that are named after greater keys. *)
Child(ns, k) ==
    LET greater == {j \in ns : k < j /\ \E i \in ns : Before(i, j)}
        left == {c \in ns : \A j \in greater : Before(c, j)}
    IN  CHOOSE c \in left : \A d \in left : ~Before(c, d)

(* A lookup of k comes to directory p, *)
LeadsTo(t, k, p) ==
    \A i \in 1..Len(p) : \A ns \in {Names(t, Dir(p, i))} : p[i] = Child(ns, k)

(* and to the entry for k, if there is one. *)
At(t, k) == {e \in t : Key(e) = k /\ LeadsTo(t, k, Front(e.path))}

(* get, getLink *)
Get(t, k) ==
    LET found == At(t, k)
    IN  IF found = {} THEN None ELSE (CHOOSE e \in found : TRUE).value

-----------------------------------------------------------------------------
(******************************** Insertion ********************************)

(* The leaf in which a lookup of k ends. *)
LeafFor(t, k) ==
    IF t = {} THEN <<>> ELSE CHOOSE p \in {Front(e.path) : e \in t} : LeadsTo(t, k, p)

(* insertIntoLeaf *)
Put(t, k, v) == (t \ At(t, k)) \cup {[path |-> Append(LeafFor(t, k), k), value |-> v]}

Full(t, p) == Cardinality(Names(t, p)) > MaxKeys

(* splitLeaf and splitInternal: the half of the names ns that k is in, *)
Half(ns, k) ==
    LET Rank(j) == Cardinality({i \in ns : Before(i, j)})
        left == {j \in ns : Rank(j) < Cardinality(ns) \div 2}
    IN  IF k \in left THEN left ELSE ns \ left

(* which is named after its first. *)
First(ns) == CHOOSE k \in ns : \A j \in ns : ~Before(j, k)

NewName(ns, k) == First(Half(ns, k))

(* The directory p becomes its halves: in insert() below a new root, in
   insertIntoInternal in place of p and of what else had their names. *)
Split(t, p) ==
    LET ns == Names(t, p)
        new == {NewName(ns, k) : k \in ns}
        Moved(q) == IF p = <<>> THEN <<NewName(ns, q[1])>> \o q
                    ELSE [q EXCEPT ![Len(p)] = NewName(ns, q[Len(p) + 1])]
        gone == In(t, p) \cup IF p = <<>> THEN {} ELSE UNION {In(t, Append(Front(p), n)) : n \in new}
    IN  (t \ gone) \cup {[e EXCEPT !.path = Moved(@)] : e \in In(t, p)}

(* Mutant: a directory is split when it is too full by two. *)
WrittenLate(t, p) == IF Cardinality(Names(t, p)) > MaxKeys + 1 THEN Split(t, p) ELSE t

(* After directory p was written. *)
Written(t, p) == IF Full(t, p) THEN Split(t, p) ELSE t

-----------------------------------------------------------------------------
(********************************* Deletion ********************************)

(* The only child of p takes its place. *)
Lifted(t, p) ==
    {IF e \in In(t, p) THEN [e EXCEPT !.path = RemoveAt(@, Len(p) + 1)] ELSE e : e \in t}

(* What is left of the tree when key k is removed from leaf q: of the
   directories on the way the emptied ones are gone, and the last one that
   is left gives way to its only child. *)
Delete(t, k) ==
    LET q == LeafFor(t, k)
        rest == t \ At(t, k)
        left == {i \in 0..Len(q) : In(rest, SubSeq(q, 1, i)) # {}}
        p == SubSeq(q, 1, CHOOSE i \in left : \A j \in left : j <= i)
    IN  IF rest = {} THEN {}
        ELSE IF p = q \/ Cardinality(Names(rest, p)) > 1 THEN rest ELSE Lifted(rest, p)

-----------------------------------------------------------------------------
(******************************** Iteration ********************************)

(* Entry e comes before f. *)
Precedes(e, f) ==
    \E i \in (DOMAIN e.path) \cap DOMAIN f.path :
       /\ \A j \in 1..(i - 1) : e.path[j] = f.path[j]
       /\ Before(e.path[i], f.path[i])

(* What comes before the first of the names ns at or after `end'. *)
Until(ns, end) == {k \in ns : \A j \in ns : j = k \/ Before(j, k) => j < end}

(* Mutant: a child is skipped when the range begins after its name. *)
EnteredLate(ns, start, end) == Until({k \in ns : k >= start}, end)

(* The children a range descends into: not those whose next sibling is named
   at or before its start, nor any from the first that is named at or after its end. *)
Entered(ns, start, end) ==
    LET Next(k, j) == Before(k, j) /\ ~\E i \in ns : Before(k, i) /\ Before(i, j)
    IN  Until({k \in ns : \A j \in ns : Next(k, j) => j > start}, end)

(* What range() yields, and prefix() and their variants for links. *)
RangeTraverse(t, start, end) ==
    {e \in t : \A i \in DOMAIN e.path :
        LET ns == Names(t, Dir(e.path, i))
        IN  e.path[i] \in IF i = Len(e.path) THEN Until({k \in ns : k >= start}, end)
                          ELSE Entered(ns, start, end)}

-----------------------------------------------------------------------------
(****************************** Users of an index **************************)

Idle == [work |-> {}, todo |-> {}, prefer |-> FALSE, written |-> {}, worn |-> FALSE]

Init ==
    /\ tree = [h \in Holders |-> {}]
    /\ job = [h \in Holders |-> Idle]
    /\ worn = {}

HasRoom(h, t) == KeysOf(t) \in Room[h] /\ \A e \in t : Len(e.path) <= MaxDepth

Becomes(h, t, isWorn) ==
    /\ HasRoom(h, t)
    /\ tree' = [tree EXCEPT ![h] = t]
    /\ worn' = (worn \ {h}) \cup IF isWorn THEN {h} ELSE {}

(* An operation that awaits a store for every directory it reads or writes. *)
Begin(h, todo, prefer, isWorn) ==
    /\ job[h] = Idle /\ Cardinality({g \in Holders : job[g] # Idle}) < MaxJobs
    /\ KeysOf(tree[h]) \cup KeysOf(todo) \in Room[h]
    /\ job' = [job EXCEPT ![h] =
                 [work |-> tree[h], todo |-> todo, prefer |-> prefer, written |-> {},
                  worn |-> \/ isWorn \/ h \in worn
                           \/ ~Alike(NamesIn(tree[h]) \cup KeysOf(todo))]]
    /\ UNCHANGED <<tree, worn>>

(* insert, insertLink *)
InsertKey(h, k, v) == Begin(h, {[path |-> <<k>>, value |-> v]}, TRUE, FALSE)

(* merge, mergeLinks of two roots that are not null. *)
MergeRoot(h, g, preferOther) ==
    tree[h] # {} /\ tree[g] # {} /\ Begin(h, tree[g], preferOther, g \in worn)

(* The next entry to be inserted, when no directory is left to be written. *)
IsNext(h, e) ==
    /\ e \in job[h].todo /\ job[h].written = {}
    /\ \A f \in job[h].todo : ~Precedes(f, e)

Wanted(h, e) ==
    LET have == Get(job[h].work, Key(e))
    IN  have = None \/ (job[h].prefer /\ have # e.value)

Skip(h, e) ==
    /\ IsNext(h, e) /\ ~Wanted(h, e)
    /\ job' = [job EXCEPT ![h].todo = @ \ {e}]
    /\ UNCHANGED <<tree, worn>>

WriteLeaf(h, e) ==
    /\ IsNext(h, e) /\ Wanted(h, e)
    /\ job' = [job EXCEPT ![h] =
                 [job[h] EXCEPT !.todo = @ \ {e},
                                !.work = Put(@, Key(e), e.value),
                                !.written = {LeafFor(job[h].work, Key(e))}]]
    /\ UNCHANGED <<tree, worn>>

(* The recursion returns: the directory that was written is split if it must
   be, and then its parent is written. *)
WriteParent(h, p) ==
    /\ p \in job[h].written
    /\ job' = [job EXCEPT ![h] =
                 [job[h] EXCEPT !.work = Written(@, p),
                                !.written = IF p = <<>> THEN {} ELSE {Front(p)}]]
    /\ UNCHANGED <<tree, worn>>

Finish(h) ==
    /\ job[h] # Idle /\ job[h].todo = {} /\ job[h].written = {}
    /\ Becomes(h, job[h].work, job[h].worn)
    /\ job' = [job EXCEPT ![h] = Idle]

(* The store throws, and the holder keeps the root it had. *)
Fail(h) ==
    /\ job[h] # Idle
    /\ job' = [job EXCEPT ![h] = Idle]
    /\ UNCHANGED <<tree, worn>>

(* Some directory on the way has a sibling that is named before it. *)
HasLeft(t, e, i) == \E h \in 1..i : \E n \in Names(t, Dir(e.path, h)) : n < e.path[h]

(* Without k, would a directory have other keys but not the one it is named
   after, and not be on the left edge of the tree? *)
LosesName(t, k) ==
    \E e \in t : Key(e) # k /\ \E i \in 1..(Len(e.path) - 1) : e.path[i] = k /\ HasLeft(t, e, i)

DeleteKey(h, k) ==
    /\ job[h] = Idle /\ tree[h] # {}
    /\ LET left == Delete(tree[h], k)
       IN  Becomes(h, left, left # {} /\ (h \in worn \/ LosesName(tree[h], k)))
    /\ UNCHANGED job

(* A flush begins with the root of the store, and sets it when it is done; a
   merge with a root that is null returns the other. *)
TakeRoot(h, g) == job[h] = Idle /\ Becomes(h, tree[g], g \in worn) /\ UNCHANGED job

Next ==
    \E h \in Holders :
       \/ \E k \in Keys : DeleteKey(h, k) \/ \E v \in Offers[h] : InsertKey(h, k, v)
       \/ \E g \in Holders \ {h} : TakeRoot(h, g) \/ \E p \in BOOLEAN : MergeRoot(h, g, p)
       \/ \E e \in job[h].todo : Skip(h, e) \/ WriteLeaf(h, e)
       \/ \E p \in job[h].written : WriteParent(h, p)
       \/ Finish(h) \/ Fail(h)

Spec == Init /\ [][Next]_vars

-----------------------------------------------------------------------------
(****************************** Properties *********************************)

NodeOK(t, e, i) ==
    LET ns == Names(t, Dir(e.path, i))
        below == KeysOf(In(t, Dir(e.path, i + 1)))
    IN  /\ Cardinality(ns) <= MaxKeys
        /\ \A n \in ns : n > e.path[i] => n > Key(e)
        /\ i < Len(e.path) /\ HasLeft(t, e, i) => e.path[i] \in below /\ \A k \in below : k >= e.path[i]

(***************************************************************************)
(* The names of a tree mislead once a directory that is not on the left    *)
(* edge has lost the key it is named after, or < and localeCompare         *)
(* disagree on names in it (see btree_lost_key for what comes of it).      *)
(* Splits, merges and all other deletions, in any order, leave no          *)
(* directory too full, and none with a key that belongs into its sibling:  *)
(* it is named after the least key in it, unless it is on the left edge of *)
(* the tree, and its keys are before the name of its next sibling.  All    *)
(* entries of a directory are keys or all are directories.                 *)
(***************************************************************************)
NodesOK ==
    \A h \in Holders \ worn : \A e \in tree[h] :
       /\ e.path \in Seq(Keys) /\ e.value \in Values
       /\ \A i \in 1..Len(e.path) : NodeOK(tree[h], e, i)
       /\ \A f \in In(tree[h], Front(e.path)) : Len(f.path) = Len(e.path)

(***************************************************************************)
(* In such a tree a range or prefix query yields keys of the range, in     *)
(* order and without duplicates, and misses no entry that is in the range  *)
(* together with the names on the way to it.                               *)
(***************************************************************************)
RangesFind ==
    \A h \in Holders \ worn : \A start \in Keys, end \in Keys \cup {k + 1 : k \in Keys} :
       LET found == RangeTraverse(tree[h], start, end)
       IN  /\ {e \in tree[h] : Key(e) >= start /\ \A i \in DOMAIN e.path : e.path[i] < end}
              \subseteq found
           /\ \A e \in found : Key(e) >= start /\ Key(e) < end
           /\ \A e, f \in found : \/ e = f
                                  \/ Precedes(e, f) /\ Key(e) < Key(f)
                                  \/ Precedes(f, e) /\ Key(f) < Key(e)

(* Every entry is found by a lookup of its key. *)
AllFound(t) == \A e \in t : Get(t, Key(e)) = e.value

(* "All keys should still be retrievable after splits", and after deletions. *)
EntriesAreFound == \A h \in Holders : AllFound(tree[h])

(* The entries of a tree whose names do not mislead are found. *)
NamedEntriesAreFound == \A h \in Holders \ worn : AllFound(tree[h])

(* What lookups find, *)
Map(t) == {[key |-> Key(e), value |-> e.value] : e \in {e \in t : LeadsTo(t, Key(e), Front(e.path))}}

(* and what they will find when the job is done. *)
Due(j) ==
    LET new == {[key |-> Key(e), value |-> e.value] : e \in j.todo}
        have == Map(j.work)
        keys == {x.key : x \in IF j.prefer THEN new ELSE have}
    IN  IF j.prefer THEN new \cup {x \in have : x.key \notin keys}
        ELSE have \cup {x \in new : x.key \notin keys}

(* Both for every holder, who is promised nothing if the names mislead. *)
Dicts == [h \in Holders |-> IF h \in worn THEN {} ELSE {Map(tree[h])}]

Dues ==
    [h \in Holders |->
        IF job[h] = Idle THEN {} ELSE {IF job[h].worn THEN {} ELSE {Due(job[h])}}]

(***************************************************************************)
(* An index is a dictionary: lookups after any sequence of insertions,     *)
(* splits, merges and deletions find what was put last, and an operation   *)
(* comes to what it was asked for, whatever other holders do meanwhile.    *)
(* The promise ends with the first deletion of a name that misleads, or    *)
(* the first two names that are not Alike, for the root it leaves and for  *)
(* all that is made from that root.                                        *)
(***************************************************************************)
Dictionary ==
    INSTANCE Dictionaries WITH dict <- Dicts, due <- Dues

KeepsDictionary == Dictionary!Spec

(* What README.md:33 of hashtree-index promises, range queries, without the
   exception of RangesFind. *)
RangesAreComplete ==
    \A h \in Holders : \A start, end \in Keys :
       RangeTraverse(tree[h], start, end) = {e \in tree[h] : Key(e) >= start /\ Key(e) < end}

=============================================================================
