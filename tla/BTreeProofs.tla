----------------------------- MODULE BTreeProofs -----------------------------
(***************************************************************************)
(* Proofs about BTree, for any sets of holders, keys and values, any order *)
(* Collate and every bound.  What they say of a root they say while its    *)
(* holder is not in worn: every name is one of a key that is there, unless *)
(* it is on the left edge, and < and localeCompare agree on the names.     *)
(***************************************************************************)
EXTENDS BTree, TLAPS, FiniteSetTheorems, SequenceTheorems

(* What an entry may be. *)
Entries == [path : Seq(Keys), value : Values]

-----------------------------------------------------------------------------
(* Numbers and sequences. *)

(* A set of numbers has a least one. *)
LEMMA Least ==
    ASSUME NEW S \in SUBSET Nat, S # {}
    PROVE  \E m \in S : \A n \in S : m <= n
<1> DEFINE Down(a) == {n \in S : n <= a}
           T == {Down(a) : a \in S}
<1>1. T \subseteq FiniteSubsetsOf(S)
  <2> SUFFICES ASSUME NEW a \in S
               PROVE  IsFiniteSet(Down(a)) /\ Down(a) \subseteq S
    BY DEF FiniteSubsetsOf
  <2> QED  BY FS_BoundedSetOfNaturals
<1>2. T # {}
  OBVIOUS
<1>3. PICK d \in T : \A u \in T : ~(<<u, d>> \in StrictSubsetOrdering(S))
  <2> HIDE DEF T
  <2> QED  BY <1>1, <1>2, FS_StrictSubsetOrderingWellFounded, WFMin
<1>4. PICK m \in S : d = Down(m)
  OBVIOUS
<1>5. ASSUME NEW n \in S, n < m
      PROVE  FALSE
  <2>0. m \in d /\ m \notin Down(n)
    BY <1>4, <1>5
  <2>1. Down(n) \subseteq d
    <3> SUFFICES ASSUME NEW x \in Down(n)
                 PROVE  x \in Down(m)
      BY <1>4
    <3> QED  BY <1>5
  <2>2. <<Down(n), d>> \in StrictSubsetOrdering(S)
    BY <2>0, <2>1, <1>4 DEF StrictSubsetOrdering
  <2> QED  BY <2>2, <1>3
<1> QED  BY <1>5

(* A finite one has a greatest. *)
LEMMA Greatest ==
    ASSUME NEW S \in SUBSET Nat, S # {}, IsFiniteSet(S)
    PROVE  \E m \in S : \A n \in S : n <= m
<1> DEFINE Up(a) == {b \in S : a <= b}
           T == {Up(a) : a \in S}
<1>1. T \subseteq FiniteSubsetsOf(S)
  BY FS_FiniteSubsetsOfFinite
<1>2. T # {}
  OBVIOUS
<1>3. PICK d \in T : \A u \in T : ~(<<u, d>> \in StrictSubsetOrdering(S))
  <2> HIDE DEF T
  <2> QED  BY <1>1, <1>2, FS_StrictSubsetOrderingWellFounded, WFMin
<1>4. PICK m \in S : d = Up(m)
  OBVIOUS
<1>5. ASSUME NEW n \in S, m < n
      PROVE  FALSE
  <2>0. m \in d /\ m \notin Up(n)
    <3>1. m \in Nat /\ n \in Nat /\ m <= m /\ ~(n <= m)
      BY <1>5
    <3> QED  BY <1>4, <3>1
  <2>1. Up(n) \subseteq d
    <3> SUFFICES ASSUME NEW x \in Up(n)
                 PROVE  x \in Up(m)
      BY <1>4
    <3> QED  BY <1>5
  <2>2. <<Up(n), d>> \in StrictSubsetOrdering(S)
    BY <2>0, <2>1, <1>4 DEF StrictSubsetOrdering
  <2> QED  BY <2>2, <1>3
<1> QED  BY <1>5

(* So has one that is bounded. *)
LEMMA Bounded ==
    ASSUME NEW S \in SUBSET Nat, S # {}, NEW b \in Nat, \A n \in S : n <= b
    PROVE  \E m \in S : \A n \in S : n <= m
  BY Greatest, FS_BoundedSetOfNaturals

(* The paths x and y agree on what comes before their i-th names. *)
Meet(x, y, i) == i \in 1..Len(x) /\ i <= Len(y) /\ \A j \in 1..(i - 1) : x[j] = y[j]

(* Paths that differ differ first somewhere, or one goes on where the other ends. *)
LEMMA Fork ==
    ASSUME NEW x \in Seq(Keys), NEW y \in Seq(Keys), Len(x) >= 1, Len(y) >= 1, x # y
    PROVE  \/ \E i \in 1..Len(x) : Meet(x, y, i) /\ x[i] # y[i]
           \/ Len(x) < Len(y) /\ Meet(x, y, Len(x)) /\ x[Len(x)] = y[Len(x)]
           \/ Len(y) < Len(x) /\ Meet(y, x, Len(y)) /\ x[Len(y)] = y[Len(y)]
<1> DEFINE S == {i \in 1..Len(x) : i <= Len(y) /\ x[i] # y[i]}
<1>0. Len(x) \in Nat /\ Len(y) \in Nat
  OBVIOUS
<1>1. CASE S # {}
  <2>0. S \in SUBSET Nat
    BY <1>0
  <2>1. PICK i \in S : \A j \in S : i <= j
    <3> HIDE DEF S
    <3> QED  BY <1>1, <2>0, Least
  <2> QED  BY <1>0, <2>1 DEF Meet
<1>2. CASE S = {}
  <2>1. Len(x) # Len(y)
    BY <1>0, <1>2, SeqEqual
  <2> QED  BY <1>0, <1>2, <2>1, SMTT(30) DEF Meet
<1> QED  BY <1>1, <1>2

(* What the operators on sequences return. *)
LEMMA DirIs ==
    ASSUME NEW x \in Seq(Keys), NEW i \in 1..Len(x)
    PROVE  /\ Dir(x, i) \in Seq(Keys) /\ Len(Dir(x, i)) = i - 1
           /\ \A j \in 1..(i - 1) : Dir(x, i)[j] = x[j]
  BY SubSeqProperties, ElementOfSeq, LenProperties DEF Dir

(* The leaf a path ends in is the last directory on it. *)
LEMMA FrontIs ==
    ASSUME NEW x \in Seq(Keys), Len(x) >= 1
    PROVE  /\ Front(x) = Dir(x, Len(x)) /\ Front(x) \in Seq(Keys)
           /\ Len(Front(x)) = Len(x) - 1
           /\ \A j \in 1..(Len(x) - 1) : Front(x)[j] = x[j]
<1>1. Len(x) \in 1..Len(x)
  BY LenProperties
<1>2. Front(x) = Dir(x, Len(x))
  BY DEF Front, Dir
<1> QED  BY <1>1, <1>2, DirIs

-----------------------------------------------------------------------------
(* Trees. *)

(* A finite set of entries, with a bound on their depth. *)
Finite(t) ==
    /\ t \subseteq Entries /\ IsFiniteSet(t)
    /\ \E d \in Nat : \A e \in t : Len(e.path) \in 1..d

(* The names of the directory in which the i-th name of path x is. *)
Siblings(t, x, i) == {f.path[i] : f \in {f \in t : Meet(x, f.path, i)}}

(* On the way to the i-th name of x something is named before it. *)
NotLeftmost(t, x, i) ==
    \E h \in 1..i : \E f \in t : Meet(x, f.path, h) /\ f.path[h] < x[h]

(* What is in a directory is before the name of its next sibling. *)
Apart(t) ==
    \A e, f \in t : \A i \in 1..Len(e.path) :
       Meet(e.path, f.path, i) /\ e.path[i] < f.path[i]
          => \A j \in i..Len(e.path) : e.path[j] < f.path[i]

(* A directory has keys or it has directories. *)
Level(t) == \A e, f \in t : Meet(e.path, f.path, Len(e.path)) => Len(f.path) = Len(e.path)

(* A directory that is not on the left edge is named after the least in it,
   and so is the directory in it where that is, down to the key itself. *)
Named(t) ==
    \A e \in t : \A i \in 1..(Len(e.path) - 1) : NotLeftmost(t, e.path, i) =>
       /\ \A j \in i..Len(e.path) : e.path[i] <= e.path[j]
       /\ \E g \in t : /\ Meet(e.path, g.path, i + 1)
                       /\ \A j \in i..Len(g.path) : g.path[j] = e.path[i]

(* No two entries are in one place. *)
Unique(t) == \A e, f \in t : e.path = f.path => e = f

(* A tree in which lookups find their way. *)
Ordered(t) == Finite(t) /\ Apart(t) /\ Level(t) /\ Named(t) /\ Unique(t)

(* No directory is too full, but one of ps may be by one. *)
Fits(t, ps) ==
    \A e \in t : \A i \in 1..Len(e.path) :
       Cardinality(Siblings(t, e.path, i)) <= IF Dir(e.path, i) \in ps THEN MaxKeys + 1 ELSE MaxKeys

(* Keys are compared as numbers. *)
LEMMA KeysAreNumbers == Keys \subseteq Nat
  BY BTreeAssumption

(* The names on a path are numbers. *)
LEMMA PathFacts ==
    ASSUME NEW t, Finite(t), NEW e \in t
    PROVE  /\ e.path \in Seq(Keys) /\ e.value \in Values
           /\ Len(e.path) \in Nat /\ Len(e.path) >= 1
           /\ \A i \in 1..Len(e.path) : e.path[i] \in Keys /\ e.path[i] \in Nat
           /\ Key(e) = e.path[Len(e.path)] /\ Key(e) \in Keys /\ Key(e) \in Nat
<1>1. e.path \in Seq(Keys) /\ e.value \in Values /\ Len(e.path) >= 1
  BY DEF Finite, Entries
<1>2. Len(e.path) \in Nat
  BY <1>1, LenProperties
<1>3. \A i \in 1..Len(e.path) : e.path[i] \in Keys
  BY <1>1, ElementOfSeq
<1>4. Key(e) = e.path[Len(e.path)]
  BY DEF Key, Last
<1>5. Len(e.path) \in 1..Len(e.path)
  BY <1>1, <1>2
<1>6. \A k \in Keys : k \in Nat
  BY KeysAreNumbers
<1>7. Key(e) \in Keys
  BY <1>3, <1>4, <1>5
<1> QED  BY <1>1, <1>2, <1>3, <1>4, <1>6, <1>7

(* What is below a directory has its path to begin with. *)
LEMMA InIs ==
    ASSUME NEW t, Finite(t), NEW p \in Seq(Keys)
    PROVE  In(t, p) = {f \in t : Len(f.path) > Len(p) /\ \A j \in 1..Len(p) : f.path[j] = p[j]}
<1> SUFFICES ASSUME NEW f \in t, Len(f.path) > Len(p)
             PROVE  SubSeq(f.path, 1, Len(p)) = p <=> \A j \in 1..Len(p) : f.path[j] = p[j]
  BY DEF In
<1>1. f.path \in Seq(Keys) /\ Len(f.path) \in Nat /\ Len(p) \in Nat
  BY PathFacts, LenProperties
<1> DEFINE s == SubSeq(f.path, 1, Len(p))
<1>2. s \in Seq(Keys) /\ Len(s) = Len(p) /\ \A j \in 1..Len(p) : s[j] = f.path[j]
  <2>1. \A j \in 1..Len(p) : f.path[j] \in Keys
    BY <1>1, ElementOfSeq
  <2> QED  BY <1>1, <2>1, SubSeqProperties
<1> HIDE DEF s
<1>3. s = p <=> \A j \in 1..Len(p) : s[j] = p[j]
  BY <1>1, <1>2, SeqEqual
<1> QED  BY <1>2, <1>3 DEF s

(* For the directory of a name on a path, In and Names are told by the paths that
   meet it there. *)
LEMMA DirectoryIs ==
    ASSUME NEW t, Finite(t), NEW x \in Seq(Keys), NEW i \in 1..Len(x)
    PROVE  /\ In(t, Dir(x, i)) = {f \in t : Meet(x, f.path, i)}
           /\ Names(t, Dir(x, i)) = Siblings(t, x, i)
<1>1. Dir(x, i) \in Seq(Keys) /\ Len(Dir(x, i)) = i - 1 /\ \A j \in 1..(i - 1) : Dir(x, i)[j] = x[j]
  BY DirIs
<1>2. Len(x) \in Nat /\ i \in Nat /\ \A f \in t : Len(f.path) \in Nat
  BY LenProperties, PathFacts
<1>3. In(t, Dir(x, i)) = {f \in t : Meet(x, f.path, i)}
  BY <1>1, <1>2, InIs DEF Meet
<1> QED  BY <1>1, <1>2, <1>3 DEF Names, Siblings

(* The names in a directory are finitely many keys. *)
LEMMA SiblingsFacts ==
    ASSUME NEW t, Finite(t), NEW x, NEW i \in Nat
    PROVE  /\ Siblings(t, x, i) \in SUBSET Keys /\ Siblings(t, x, i) \in SUBSET Nat
           /\ IsFiniteSet(Siblings(t, x, i))
<1> DEFINE S == {f \in t : Meet(x, f.path, i)}
           F == [f \in S |-> f.path[i]]
<1>1. Siblings(t, x, i) \in SUBSET Keys
  <2> SUFFICES ASSUME NEW f \in t, Meet(x, f.path, i)
               PROVE  f.path[i] \in Keys
    BY DEF Siblings
  <2> QED  BY PathFacts DEF Meet
<1>2. IsFiniteSet(S)
  BY FS_Subset DEF Finite
<1>3. F \in Surjection(S, Siblings(t, x, i))
  BY DEF Surjection, Siblings
<1>4. IsFiniteSet(Siblings(t, x, i))
  <2> HIDE DEF S, F
  <2> QED  BY <1>2, <1>3, FS_Surjection
<1> QED  BY <1>1, <1>4, KeysAreNumbers

(* The orders agree on the names of the tree. *)
Agreed(t) == Alike(NamesIn(t))

(* Those are the names on its paths. *)
LEMMA NamesAre ==
    ASSUME NEW t, Finite(t)
    PROVE  /\ \A e \in t : \A i \in 1..Len(e.path) : e.path[i] \in NamesIn(t)
           /\ \A n \in NamesIn(t) : \E e \in t : \E i \in 1..Len(e.path) : n = e.path[i]
<1>1. \A e \in t : DOMAIN e.path = 1..Len(e.path)
  BY PathFacts, LenProperties
<1>2. \A e \in t : ToSet(e.path) = {e.path[i] : i \in 1..Len(e.path)}
  BY <1>1 DEF ToSet
<1>3. ASSUME NEW n
      PROVE  n \in NamesIn(t) <=> \E e \in t : n \in ToSet(e.path)
  BY DEF NamesIn
<1>4. ASSUME NEW e \in t, NEW i \in 1..Len(e.path)
      PROVE  e.path[i] \in NamesIn(t)
  BY <1>2, <1>3
<1>5. ASSUME NEW n \in NamesIn(t)
      PROVE  \E e \in t : \E i \in 1..Len(e.path) : n = e.path[i]
  <2>1. PICK e \in t : n \in ToSet(e.path)
    BY <1>3
  <2>2. n \in {e.path[i] : i \in 1..Len(e.path)}
    BY <1>2, <2>1
  <2> QED  BY <2>2
<1> QED  BY <1>4, <1>5

(* They agree on the names of every directory. *)
LEMMA SiblingsAlike ==
    ASSUME NEW t, Finite(t), Agreed(t), NEW x, NEW i \in Nat
    PROVE  Alike(Siblings(t, x, i))
<1>1. ASSUME NEW f \in t, Meet(x, f.path, i)
      PROVE  f.path[i] \in NamesIn(t)
  <2>1. i \in 1..Len(f.path)
    BY <1>1, PathFacts DEF Meet
  <2> QED  BY <2>1, NamesAre
<1>2. Siblings(t, x, i) \subseteq NamesIn(t)
  BY <1>1 DEF Siblings
<1> QED  BY <1>2 DEF Agreed, Alike

(* Meeting goes both ways. *)
LEMMA MeetsBack ==
    ASSUME NEW x, NEW y, NEW i, Meet(x, y, i), Len(x) \in Nat
    PROVE  Meet(y, x, i)
  BY DEF Meet

(* Two entries part somewhere, *)
LEMMA Part ==
    ASSUME NEW t, Ordered(t), NEW e \in t, NEW f \in t, e # f
    PROVE  \E i \in 1..Len(e.path) : Meet(e.path, f.path, i) /\ e.path[i] # f.path[i]
<1>1. /\ e.path \in Seq(Keys) /\ f.path \in Seq(Keys) /\ Len(e.path) >= 1 /\ Len(f.path) >= 1
      /\ Len(e.path) \in Nat /\ Len(f.path) \in Nat
  BY PathFacts DEF Ordered
<1>2. e.path # f.path
  BY DEF Ordered, Unique
<1>3. ~(Len(e.path) < Len(f.path) /\ Meet(e.path, f.path, Len(e.path)))
  BY <1>1 DEF Ordered, Level
<1>4. ~(Len(f.path) < Len(e.path) /\ Meet(f.path, e.path, Len(f.path)))
  BY <1>1 DEF Ordered, Level
<1> QED  BY <1>1, <1>2, <1>3, <1>4, Fork

(* and there the order of their keys is decided. *)
LEMMA KeysIncrease ==
    ASSUME NEW t, Ordered(t), NEW e \in t, NEW f \in t, NEW i \in 1..Len(e.path),
           Meet(e.path, f.path, i), e.path[i] < f.path[i]
    PROVE  Key(e) < Key(f)
<1>1. /\ Len(e.path) \in Nat /\ Len(f.path) \in Nat /\ Len(e.path) >= 1 /\ Len(f.path) >= 1
      /\ \A j \in 1..Len(e.path) : e.path[j] \in Nat
      /\ \A j \in 1..Len(f.path) : f.path[j] \in Nat
      /\ Key(e) = e.path[Len(e.path)] /\ Key(f) = f.path[Len(f.path)]
  BY PathFacts DEF Ordered
<1>2. Len(e.path) \in i..Len(e.path) /\ i \in 1..Len(f.path)
  BY <1>1 DEF Meet
<1>3. Key(e) < f.path[i]
  BY <1>1, <1>2 DEF Ordered, Apart
<1>4. f.path[i] <= Key(f)
  <2>1. CASE i = Len(f.path)
    BY <1>1, <1>2, <2>1
  <2>2. CASE i # Len(f.path)
    <3>1. i \in 1..(Len(f.path) - 1) /\ Len(f.path) \in i..Len(f.path)
      BY <1>1, <1>2, <2>2
    <3>2. Meet(f.path, e.path, i)
      BY <1>1, MeetsBack
    <3>3. NotLeftmost(t, f.path, i)
      BY <3>1, <3>2 DEF NotLeftmost
    <3> QED  BY <1>1, <3>1, <3>3 DEF Ordered, Named
  <2> QED  BY <2>1, <2>2
<1> QED  BY <1>1, <1>2, <1>3, <1>4, SMTT(30)

(* No key has two entries: what splits and merges leave has no duplicates. *)
LEMMA KeysDiffer ==
    ASSUME NEW t, Ordered(t), NEW e \in t, NEW f \in t, Key(e) = Key(f)
    PROVE  e = f
<1> SUFFICES ASSUME e # f
             PROVE  FALSE
  OBVIOUS
<1>1. PICK i \in 1..Len(e.path) : Meet(e.path, f.path, i) /\ e.path[i] # f.path[i]
  BY Part
<1>2. /\ e.path[i] \in Nat /\ f.path[i] \in Nat /\ Key(e) \in Nat /\ Key(f) \in Nat
      /\ Len(e.path) \in Nat /\ Len(f.path) \in Nat /\ i \in 1..Len(f.path)
  BY <1>1, PathFacts DEF Ordered, Meet
<1>3. CASE e.path[i] < f.path[i]
  BY <1>1, <1>2, <1>3, KeysIncrease
<1>4. CASE f.path[i] < e.path[i]
  BY <1>1, <1>2, <1>4, KeysIncrease, MeetsBack
<1> QED  BY <1>1, <1>2, <1>3, <1>4

-----------------------------------------------------------------------------
(* Lookups. *)

(* The child a lookup of k goes on in is the one whose next sibling is named
   after k, and which is not named after k itself unless it is the first. *)
LEMMA ChildIs ==
    ASSUME NEW ns \in SUBSET Keys, Alike(ns), NEW k \in Keys, NEW c \in ns,
           \A j \in ns : c < j => k < j,
           c <= k \/ \A j \in ns : c <= j
    PROVE  Child(ns, k) = c
<1> DEFINE greater == {j \in ns : k < j /\ \E i \in ns : Before(i, j)}
           left == {d \in ns : \A j \in greater : Before(d, j)}
<1>0. \A i, j \in ns : i \in Nat /\ (Before(i, j) <=> i < j)
  BY KeysAreNumbers DEF Alike
<1>1. k \in Nat
  BY KeysAreNumbers
<1>2. greater = {j \in ns : c < j}
  <2>1. ASSUME NEW j \in greater
        PROVE  c < j
    BY <1>0, <1>1, <2>1
  <2>2. ASSUME NEW j \in ns, c < j
        PROVE  j \in greater
    BY <1>0, <2>2
  <2> QED  BY <2>1, <2>2
<1>3. left = {d \in ns : d <= c}
  <2>1. ASSUME NEW d \in left
        PROVE  d <= c
    BY <1>0, <1>2, <2>1
  <2>2. ASSUME NEW d \in ns, d <= c
        PROVE  d \in left
    BY <1>0, <1>2, <2>2
  <2> QED  BY <2>1, <2>2
<1>4. Child(ns, k) = CHOOSE d \in left : \A b \in left : ~Before(d, b)
  BY DEF Child
<1>5. c \in left /\ \A b \in left : ~Before(c, b)
  BY <1>0, <1>3
<1>6. ASSUME NEW d \in left, \A b \in left : ~Before(d, b)
      PROVE  d = c
  BY <1>0, <1>3, <1>5, <1>6
<1> HIDE DEF left
<1> QED  BY <1>4, <1>5, <1>6

(* findChild returns a name of the directory, the greatest one that is not after
   the key, or the first. *)
LEMMA ChildFacts ==
    ASSUME NEW ns \in SUBSET Keys, Alike(ns), NEW k \in Keys, ns # {}
    PROVE  /\ Child(ns, k) \in ns
           /\ \A j \in ns : Child(ns, k) < j => k < j
           /\ Child(ns, k) <= k \/ \A j \in ns : Child(ns, k) <= j
<1>0. k \in Nat /\ ns \in SUBSET Nat
  BY KeysAreNumbers
<1>1. CASE \E j \in ns : j <= k
  <2> DEFINE S == {j \in ns : j <= k}
  <2>1. S \in SUBSET Nat /\ S # {} /\ \A j \in S : j <= k
    BY <1>0, <1>1
  <2>2. PICK c \in S : \A j \in S : j <= c
    <3> HIDE DEF S
    <3> QED  BY <1>0, <2>1, Bounded
  <2>3. c \in ns /\ c <= k /\ \A j \in ns : c < j => k < j
    BY <1>0, <2>2
  <2> HIDE DEF S
  <2>4. Child(ns, k) = c
    BY <2>3, ChildIs
  <2> QED  BY <2>3, <2>4
<1>2. CASE ~\E j \in ns : j <= k
  <2>1. PICK c \in ns : \A j \in ns : c <= j
    BY <1>0, Least
  <2>2. \A j \in ns : c < j => k < j
    BY <1>0, <1>2
  <2>3. Child(ns, k) = c
    BY <2>1, <2>2, ChildIs
  <2> QED  BY <2>1, <2>2, <2>3
<1> QED  BY <1>1, <1>2

(* A lookup comes to directory p of entry e if it takes every turn to it. *)
LEMMA LeadsToIs ==
    ASSUME NEW t, Finite(t), NEW e \in t, NEW k
    PROVE  LeadsTo(t, k, Front(e.path))
             <=> \A i \in 1..(Len(e.path) - 1) : e.path[i] = Child(Siblings(t, e.path, i), k)
<1>1. e.path \in Seq(Keys) /\ Len(e.path) \in Nat /\ Len(e.path) >= 1
  BY PathFacts
<1> DEFINE p == Front(e.path)
<1>2. p \in Seq(Keys) /\ Len(p) = Len(e.path) - 1 /\ \A j \in 1..(Len(e.path) - 1) : p[j] = e.path[j]
  BY <1>1, FrontIs
<1>3. ASSUME NEW i \in 1..(Len(e.path) - 1)
      PROVE  Names(t, Dir(p, i)) = Siblings(t, e.path, i)
  <2>1. i \in 1..Len(p) /\ i \in 1..Len(e.path)
    BY <1>1, <1>2, <1>3
  <2>2. /\ Dir(p, i) \in Seq(Keys) /\ Len(Dir(p, i)) = i - 1 /\ \A j \in 1..(i - 1) : Dir(p, i)[j] = p[j]
        /\ Dir(e.path, i) \in Seq(Keys) /\ Len(Dir(e.path, i)) = i - 1
        /\ \A j \in 1..(i - 1) : Dir(e.path, i)[j] = e.path[j]
    <3> HIDE DEF p
    <3> QED  BY <1>1, <1>2, <2>1, DirIs
  <2>3. Dir(p, i) = Dir(e.path, i)
    <3>0. \A j \in 1..(i - 1) : j \in 1..(Len(e.path) - 1)
      BY <1>1, <1>3
    <3>1. \A j \in 1..(i - 1) : Dir(p, i)[j] = Dir(e.path, i)[j]
      <4> HIDE DEF p
      <4> QED  BY <1>2, <2>2, <3>0
    <3> QED  BY <2>2, <3>1, SeqEqual
  <2> QED  BY <1>1, <2>1, <2>3, DirectoryIs
<1> HIDE DEF p
<1>4. LeadsTo(t, k, p) <=> \A i \in 1..(Len(e.path) - 1) : p[i] = Child(Names(t, Dir(p, i)), k)
  BY <1>2 DEF LeadsTo
<1> QED  BY <1>2, <1>3, <1>4 DEF p

(* Every entry is where a lookup of its key goes. *)
LEMMA LookupFinds ==
    ASSUME NEW t, Ordered(t), Agreed(t), NEW e \in t
    PROVE  LeadsTo(t, Key(e), Front(e.path))
<1>0. Finite(t)
  BY DEF Ordered
<1>1. /\ e.path \in Seq(Keys) /\ Len(e.path) \in Nat /\ Len(e.path) >= 1
      /\ Key(e) = e.path[Len(e.path)] /\ Key(e) \in Keys /\ Key(e) \in Nat
      /\ \A i \in 1..Len(e.path) : e.path[i] \in Nat
  BY <1>0, PathFacts
<1> SUFFICES ASSUME NEW i \in 1..(Len(e.path) - 1)
             PROVE  e.path[i] = Child(Siblings(t, e.path, i), Key(e))
  BY <1>0, LeadsToIs
<1> DEFINE ns == Siblings(t, e.path, i)
<1>2. i \in Nat /\ i \in 1..Len(e.path) /\ Len(e.path) \in i..Len(e.path)
  BY <1>1
<1>3. ns \in SUBSET Keys
  BY <1>0, <1>2, SiblingsFacts
<1>4. e.path[i] \in ns
  BY <1>1, <1>2 DEF Siblings, Meet
<1>5. \A j \in ns : e.path[i] < j => Key(e) < j
  BY <1>1, <1>2 DEF Siblings, Ordered, Apart
<1>6. ASSUME NEW j \in ns, ~(e.path[i] <= j)
      PROVE  e.path[i] <= Key(e)
  <2>1. j \in Nat
    BY <1>3, KeysAreNumbers
  <2>2. NotLeftmost(t, e.path, i)
    BY <1>1, <1>2, <1>6, <2>1 DEF NotLeftmost, Siblings
  <2> QED  BY <1>1, <1>2, <2>2 DEF Ordered, Named
<1> HIDE DEF ns
<1>7. Child(ns, Key(e)) = e.path[i]
  <2>1. Alike(ns)
    BY <1>0, <1>2, SiblingsAlike DEF ns
  <2> QED  BY <1>1, <1>3, <1>4, <1>5, <1>6, <2>1, ChildIs
<1> QED  BY <1>7 DEF ns

(* What a lookup comes to is every entry for the key. *)
LEMMA AtIs ==
    ASSUME NEW t, Ordered(t), Agreed(t), NEW k
    PROVE  At(t, k) = {e \in t : Key(e) = k}
  BY LookupFinds DEF At

(* A lookup finds every entry and nothing else. *)
LEMMA GetIs ==
    ASSUME NEW t, Ordered(t), Agreed(t)
    PROVE  /\ \A e \in t : Get(t, Key(e)) = e.value
           /\ \A k : k \notin KeysOf(t) => Get(t, k) = None
<1>1. ASSUME NEW e \in t
      PROVE  Get(t, Key(e)) = e.value
  <2>1. At(t, Key(e)) = {e}
    BY AtIs, KeysDiffer
  <2> QED  BY <2>1 DEF Get
<1>2. ASSUME NEW k, k \notin KeysOf(t)
      PROVE  Get(t, k) = None
  <2>1. At(t, k) = {}
    BY <1>2, AtIs DEF KeysOf
  <2> QED  BY <2>1 DEF Get
<1> QED  BY <1>1, <1>2

(* The directory where the i-th name of an entry's path is holds that entry. *)
LEMMA OwnDirectory ==
    ASSUME NEW t, Finite(t), NEW e \in t, NEW i \in 1..Len(e.path)
    PROVE  /\ Names(t, Dir(e.path, i)) = Siblings(t, e.path, i)
           /\ In(t, Dir(e.path, i)) = {f \in t : Meet(e.path, f.path, i)}
           /\ e.path[i] \in Siblings(t, e.path, i)
           /\ Siblings(t, e.path, i) \in SUBSET Keys
           /\ Siblings(t, e.path, i) \in SUBSET Nat
           /\ IsFiniteSet(Siblings(t, e.path, i))
<1>1. e.path \in Seq(Keys) /\ Len(e.path) \in Nat /\ i \in Nat /\ i <= Len(e.path)
  BY PathFacts
<1>2. Meet(e.path, e.path, i)
  BY <1>1 DEF Meet
<1>3. e.path[i] \in Siblings(t, e.path, i)
  BY <1>2 DEF Siblings
<1>4. Siblings(t, e.path, i) \in SUBSET Keys /\ IsFiniteSet(Siblings(t, e.path, i))
  BY <1>1, SiblingsFacts
<1> QED  BY <1>1, <1>3, <1>4, DirectoryIs, KeysAreNumbers

(* Who is before x on the way to a directory is before everything in it. *)
LEMMA SameWay ==
    ASSUME NEW t, NEW x, NEW y, NEW i \in Nat, Meet(x, y, i + 1), NotLeftmost(t, x, i),
           Len(x) \in Nat, Len(y) \in Nat
    PROVE  NotLeftmost(t, y, i)
<1>1. PICK h \in 1..i : \E f \in t : Meet(x, f.path, h) /\ f.path[h] < x[h]
  BY DEF NotLeftmost
<1>2. \A j \in 1..h : x[j] = y[j]
  BY <1>1 DEF Meet
<1>3. h \in 1..Len(y) /\ \A j \in 1..(h - 1) : j \in 1..h
  BY <1>1 DEF Meet
<1>4. PICK f \in t : Meet(x, f.path, h) /\ f.path[h] < x[h]
  BY <1>1
<1>5. Meet(y, f.path, h)
  BY <1>2, <1>3, <1>4 DEF Meet
<1>6. x[h] = y[h]
  BY <1>1, <1>2
<1> QED  BY <1>1, <1>4, <1>5, <1>6 DEF NotLeftmost

(* The tree is as NodesOK wants it. *)
LEMMA OrderedIsOK ==
    ASSUME NEW t, Ordered(t), Fits(t, {}), NEW e \in t
    PROVE  /\ e.path \in Seq(Keys) /\ e.value \in Values
           /\ \A i \in 1..Len(e.path) : NodeOK(t, e, i)
           /\ \A f \in In(t, Front(e.path)) : Len(f.path) = Len(e.path)
<1>0. Finite(t)
  BY DEF Ordered
<1>1. /\ e.path \in Seq(Keys) /\ e.value \in Values /\ Len(e.path) \in Nat /\ Len(e.path) >= 1
      /\ Key(e) = e.path[Len(e.path)] /\ Len(e.path) \in 1..Len(e.path)
  BY <1>0, PathFacts
<1>2. ASSUME NEW f \in In(t, Front(e.path))
      PROVE  Len(f.path) = Len(e.path)
  <2>1. f \in t /\ Meet(e.path, f.path, Len(e.path))
    BY <1>0, <1>1, <1>2, OwnDirectory, FrontIs
  <2> QED  BY <2>1 DEF Ordered, Level
<1>3. ASSUME NEW i \in 1..Len(e.path)
      PROVE  NodeOK(t, e, i)
  <2> DEFINE ns == Names(t, Dir(e.path, i))
             below == KeysOf(In(t, Dir(e.path, i + 1)))
  <2>1. ns = Siblings(t, e.path, i)
    BY <1>0, OwnDirectory
  <2>2. Cardinality(ns) <= MaxKeys
    BY <2>1 DEF Fits
  <2>3. ASSUME NEW n \in ns, n > e.path[i]
        PROVE  n > Key(e)
    <3>1. PICK f \in t : Meet(e.path, f.path, i) /\ n = f.path[i]
      BY <2>1 DEF Siblings
    <3>2. n \in Nat /\ e.path[i] \in Nat /\ Key(e) \in Nat
      BY <1>0, <3>1, PathFacts DEF Meet
    <3> QED  BY <1>1, <2>3, <3>1, <3>2 DEF Ordered, Apart
  <2>4. ASSUME i < Len(e.path), HasLeft(t, e, i)
        PROVE  e.path[i] \in below /\ \A k \in below : k >= e.path[i]
    <3>1. i \in 1..(Len(e.path) - 1) /\ i + 1 \in 1..Len(e.path)
      BY <1>1, <2>4
    <3>2. PICK h \in 1..i : \E n \in Names(t, Dir(e.path, h)) : n < e.path[h]
      BY <2>4 DEF HasLeft
    <3>3. h \in 1..Len(e.path)
      BY <1>1, <3>1, <3>2
    <3>4. NotLeftmost(t, e.path, i)
      <4>1. Names(t, Dir(e.path, h)) = Siblings(t, e.path, h)
        BY <1>0, <3>3, OwnDirectory
      <4> QED  BY <3>2, <4>1 DEF NotLeftmost, Siblings
    <3>5. In(t, Dir(e.path, i + 1)) = {f \in t : Meet(e.path, f.path, i + 1)}
      BY <1>0, <3>1, OwnDirectory
    <3>6. PICK g \in t : /\ Meet(e.path, g.path, i + 1)
                         /\ \A j \in i..Len(g.path) : g.path[j] = e.path[i]
      BY <3>1, <3>4 DEF Ordered, Named
    <3>7. Len(g.path) \in Nat /\ Key(g) = g.path[Len(g.path)] /\ Len(g.path) \in i..Len(g.path)
      BY <1>0, <3>6, PathFacts DEF Meet
    <3>8. Key(g) = e.path[i]
      BY <3>6, <3>7
    <3>9. ASSUME NEW f \in t, Meet(e.path, f.path, i + 1)
          PROVE  Key(f) >= e.path[i]
      <4>1. Len(f.path) \in Nat /\ Key(f) = f.path[Len(f.path)]
        BY <1>0, PathFacts
      <4>2. i \in 1..(Len(f.path) - 1) /\ Len(f.path) \in i..Len(f.path) /\ f.path[i] = e.path[i]
        BY <1>1, <3>9, <4>1 DEF Meet
      <4>4. NotLeftmost(t, f.path, i)
        BY <1>1, <3>1, <3>4, <3>9, <4>1, SameWay
      <4>5. f.path[i] <= Key(f)
        BY <4>1, <4>2, <4>4 DEF Ordered, Named
      <4>6. f.path[i] \in Nat /\ Key(f) \in Nat
        BY <1>0, <4>1, <4>2, PathFacts
      <4> QED  BY <4>2, <4>5, <4>6
    <3> QED  BY <3>5, <3>6, <3>8, <3>9 DEF KeysOf
  <2> QED  BY <2>2, <2>3, <2>4 DEF NodeOK
<1> QED  BY <1>1, <1>2, <1>3

-----------------------------------------------------------------------------
(* Ranges. *)

(* The children that come before the first one at or after the end are those before
   the end. *)
LEMMA UntilIs ==
    ASSUME NEW ns \in SUBSET Keys, Alike(ns), NEW end \in Nat
    PROVE  Until(ns, end) = {k \in ns : k < end}
<1>1. \A j, k \in ns : j \in Nat /\ (Before(j, k) <=> j < k)
  BY KeysAreNumbers DEF Alike
<1>2. ASSUME NEW k \in ns
      PROVE  k \in Until(ns, end) <=> k < end
  BY <1>1 DEF Until
<1> QED  BY <1>2 DEF Until

(* A range misses what has a name at or after its end on the way to it. *)
LEMMA RangeIs ==
    ASSUME NEW t, Ordered(t), Agreed(t), NEW start \in Keys, NEW end \in Nat
    PROVE  RangeTraverse(t, start, end)
             = {e \in t : Key(e) >= start /\ \A i \in DOMAIN e.path : e.path[i] < end}
<1>0. Finite(t) /\ start \in Nat
  BY KeysAreNumbers DEF Ordered
<1> SUFFICES ASSUME NEW e \in t
             PROVE  e \in RangeTraverse(t, start, end)
                      <=> Key(e) >= start /\ \A i \in DOMAIN e.path : e.path[i] < end
  BY DEF RangeTraverse
<1>1. /\ e.path \in Seq(Keys) /\ Len(e.path) \in Nat /\ Len(e.path) >= 1
      /\ DOMAIN e.path = 1..Len(e.path) /\ Len(e.path) \in 1..Len(e.path)
      /\ Key(e) = e.path[Len(e.path)] /\ Key(e) \in Nat
  BY <1>0, PathFacts, LenProperties
<1> DEFINE Sib(i) == Siblings(t, e.path, i)
           Passed(i) == e.path[i] \in IF i = Len(e.path) THEN Until({k \in Sib(i) : k >= start}, end)
                                      ELSE Entered(Sib(i), start, end)
<1>2. \A i \in 1..Len(e.path) : Names(t, Dir(e.path, i)) = Sib(i)
  BY <1>0, OwnDirectory
<1>3. e \in RangeTraverse(t, start, end) <=> \A i \in 1..Len(e.path) : Passed(i)
  BY <1>1, <1>2 DEF RangeTraverse
<1>4. Passed(Len(e.path)) <=> Key(e) >= start /\ e.path[Len(e.path)] < end
  <2> DEFINE i == Len(e.path)
             S == {k \in Sib(i) : k >= start}
  <2>0. Alike(Sib(i))
    BY <1>0, <1>1, SiblingsAlike
  <2>1. S \in SUBSET Keys /\ Alike(S) /\ (e.path[i] \in S <=> Key(e) >= start)
    BY <1>0, <1>1, <2>0, OwnDirectory DEF Alike
  <2> HIDE DEF S
  <2>2. Until(S, end) = {k \in S : k < end}
    BY <2>1, UntilIs
  <2> QED  BY <2>1, <2>2 DEF S
<1>5. ASSUME NEW i \in 1..(Len(e.path) - 1), Key(e) >= start
      PROVE  Passed(i) <=> e.path[i] < end
  <2> DEFINE Next2(k, j) == Before(k, j) /\ ~\E x \in Sib(i) : Before(k, x) /\ Before(x, j)
             S == {k \in Sib(i) : \A j \in Sib(i) : Next2(k, j) => j > start}
  <2>1. i \in 1..Len(e.path) /\ i # Len(e.path) /\ Len(e.path) \in i..Len(e.path)
    BY <1>1, <1>5
  <2>2. Sib(i) \in SUBSET Keys /\ Alike(Sib(i)) /\ e.path[i] \in Sib(i)
    BY <1>0, <2>1, OwnDirectory, SiblingsAlike
  <2>3. ASSUME NEW j \in Sib(i), Before(e.path[i], j)
        PROVE  j > start
    <3>1. e.path[i] < j /\ j \in Nat
      BY <2>2, <2>3, KeysAreNumbers DEF Alike
    <3>2. Key(e) < j
      BY <1>1, <2>1, <3>1 DEF Siblings, Ordered, Apart
    <3> QED  BY <1>0, <1>1, <1>5, <3>1, <3>2
  <2>4. S \in SUBSET Keys /\ Alike(S) /\ e.path[i] \in S
    BY <2>2, <2>3 DEF Alike
  <2>5. Entered(Sib(i), start, end) = Until(S, end)
    BY DEF Entered
  <2> HIDE DEF S
  <2>6. Until(S, end) = {k \in S : k < end}
    BY <2>4, UntilIs
  <2> QED  BY <2>1, <2>4, <2>5, <2>6
<1> HIDE DEF Passed
<1>6. ASSUME NEW i \in 1..Len(e.path)
      PROVE  i = Len(e.path) \/ i \in 1..(Len(e.path) - 1)
  BY <1>1
<1> QED  BY <1>1, <1>3, <1>4, <1>5, <1>6

(* Two entries stand in the order of their keys. *)
LEMMA InOrder ==
    ASSUME NEW t, Ordered(t), Agreed(t), NEW e \in t, NEW f \in t, e # f
    PROVE  \/ Precedes(e, f) /\ Key(e) < Key(f)
           \/ Precedes(f, e) /\ Key(f) < Key(e)
<1>1. PICK i \in 1..Len(e.path) : Meet(e.path, f.path, i) /\ e.path[i] # f.path[i]
  BY Part
<1>2. /\ e.path[i] \in Keys /\ f.path[i] \in Keys /\ e.path[i] \in Nat /\ f.path[i] \in Nat
      /\ Len(e.path) \in Nat /\ Len(f.path) \in Nat /\ i \in 1..Len(f.path)
      /\ e.path \in Seq(Keys) /\ f.path \in Seq(Keys)
  BY <1>1, PathFacts DEF Ordered, Meet
<1>3. i \in DOMAIN e.path /\ i \in DOMAIN f.path
  BY <1>2, LenProperties
<1>4. /\ Before(e.path[i], f.path[i]) <=> e.path[i] < f.path[i]
      /\ Before(f.path[i], e.path[i]) <=> f.path[i] < e.path[i]
  BY <1>2, NamesAre DEF Ordered, Agreed, Alike
<1>5. CASE e.path[i] < f.path[i]
  BY <1>1, <1>2, <1>3, <1>4, <1>5, KeysIncrease DEF Precedes, Meet
<1>6. CASE f.path[i] < e.path[i]
  <2>1. Meet(f.path, e.path, i)
    BY <1>1, <1>2, MeetsBack
  <2> QED  BY <1>2, <1>3, <1>4, <1>6, <2>1, KeysIncrease DEF Precedes, Meet
<1> QED  BY <1>1, <1>2, <1>5, <1>6

-----------------------------------------------------------------------------
(* Splits. *)

(* The first name in the order of localeCompare is the least. *)
LEMMA FirstIs ==
    ASSUME NEW ns \in SUBSET Keys, Alike(ns), NEW c \in ns, \A j \in ns : c <= j
    PROVE  First(ns) = c
<1>1. \A j, k \in ns : j \in Nat /\ (Before(j, k) <=> j < k)
  BY KeysAreNumbers DEF Alike
<1>2. \A j \in ns : ~Before(j, c)
  BY <1>1
<1>3. ASSUME NEW k \in ns, \A j \in ns : ~Before(j, k)
      PROVE  k = c
  BY <1>1, <1>3
<1> QED  BY <1>2, <1>3 DEF First

(* The halves have the least name and the least of the others' half. *)
LEMMA Halves ==
    ASSUME NEW ns \in SUBSET Keys, Alike(ns), IsFiniteSet(ns), Cardinality(ns) >= 2
    PROVE  \E l, r \in ns : /\ l < r /\ \A k \in ns : l <= k
                            /\ \A k \in ns : NewName(ns, k) = IF k < r THEN l ELSE r
<1> DEFINE Rank(j) == Cardinality({i \in ns : Before(i, j)})
           left == {j \in ns : Rank(j) < Cardinality(ns) \div 2}
           right == ns \ left
           mid == Cardinality(ns) \div 2
<1>1. Cardinality(ns) \in Nat
  BY FS_CardinalityType
<1>2. mid \in Nat /\ mid >= 1 /\ mid <= Cardinality(ns) - 1
  BY <1>1
<1>3. ns \in SUBSET Nat /\ \A j, k \in ns : j \in Nat /\ (Before(j, k) <=> j < k)
  BY KeysAreNumbers DEF Alike
<1>4. ns # {}
  BY <1>1, FS_EmptySet
<1>5. PICK l \in ns : \A k \in ns : l <= k
  BY <1>3, <1>4, Least
<1>6. PICK m \in ns : \A k \in ns : k <= m
  BY <1>3, <1>4, Greatest
<1>7. l \in left
  <2>1. \A i \in ns : ~Before(i, l)
    BY <1>3, <1>5
  <2>2. Rank(l) = 0
    <3>1. {i \in ns : Before(i, l)} = {}
      BY <2>1
    <3> QED  BY <3>1, FS_EmptySet
  <2> QED  BY <1>1, <1>2, <2>2
<1>8. m \in right
  <2>0. \A i \in ns : Before(i, m) <=> i # m
    BY <1>3, <1>6
  <2>1. {i \in ns : Before(i, m)} = ns \ {m}
    BY <2>0
  <2>2. Rank(m) = Cardinality(ns) - 1
    BY <2>1, FS_RemoveElement
  <2> QED  BY <1>1, <1>2, <2>2
<1>9. ASSUME NEW j \in left, NEW k \in right
      PROVE  j < k
  <2> SUFFICES ASSUME ~(j < k)
               PROVE  FALSE
    OBVIOUS
  <2> DEFINE A == {i \in ns : Before(i, k)}
             B == {i \in ns : Before(i, j)}
  <2>0. \A i \in ns : Before(i, k) => Before(i, j)
    BY <1>3
  <2>1. A \in SUBSET B
    BY <2>0
  <2>2. IsFiniteSet(B)
    BY FS_Subset
  <2>3. Cardinality(A) <= Cardinality(B) /\ Cardinality(A) \in Nat /\ Cardinality(B) \in Nat
    <3> HIDE DEF A, B
    <3> QED  BY <2>1, <2>2, FS_Subset, FS_CardinalityType
  <2>4. Cardinality(B) < mid /\ ~(Cardinality(A) < mid)
    BY <1>9
  <2> QED  BY <1>2, <2>3, <2>4
<1>10. PICK r \in right : \A k \in right : r <= k
  <2>1. right \in SUBSET Nat /\ right # {}
    BY <1>3, <1>8
  <2> HIDE DEF right
  <2> QED  BY <2>1, Least
<1>11. left \in SUBSET ns /\ right \in SUBSET ns /\ Alike(left) /\ Alike(right)
  BY DEF Alike
<1>12. ASSUME NEW k \in ns
       PROVE  Half(ns, k) = IF k \in left THEN left ELSE right
  BY DEF Half
<1>13. \A k \in ns : k \in left \/ k \in right
  OBVIOUS
<1> HIDE DEF left, right
<1>14. First(left) = l /\ First(right) = r
  BY <1>5, <1>7, <1>10, <1>11, FirstIs
<1>15. \A k \in ns : k \in left <=> k < r
  BY <1>3, <1>9, <1>10, <1>11, <1>13
<1>16. \A k \in ns : NewName(ns, k) = IF k < r THEN l ELSE r
  BY <1>12, <1>14, <1>15 DEF NewName
<1>17. l < r
  BY <1>7, <1>9, <1>10
<1> QED  BY <1>5, <1>10, <1>11, <1>16, <1>17

(* The m-th directory on the way to entry d splits into one named l, with the
   names before r, and one named r. *)
SplitsAt(t, d, m, l, r) ==
    /\ d \in t /\ m \in 1..(Len(d.path) - 1)
    /\ l \in Siblings(t, d.path, m + 1) /\ r \in Siblings(t, d.path, m + 1) /\ l < r
    /\ \A k \in Siblings(t, d.path, m + 1) : l <= k

(* Entry e is in that directory. *)
Within(d, m, e) == Meet(d.path, e.path, m + 1)

(* Where e is then. *)
Turn(d, m, l, r, e) ==
    IF Within(d, m, e)
    THEN [e EXCEPT !.path = [e.path EXCEPT ![m] = IF e.path[m + 1] < r THEN l ELSE r]]
    ELSE e

(* What is split is a directory with at least two names, the lesser of which is its
   first. *)
LEMMA SplitFacts ==
    ASSUME NEW t, Ordered(t), NEW d, NEW m, NEW l, NEW r, SplitsAt(t, d, m, l, r)
    PROVE  /\ m \in Nat /\ m >= 1 /\ l \in Keys /\ r \in Keys /\ l \in Nat /\ r \in Nat /\ l < r
           /\ d \in t /\ m + 1 \in 1..Len(d.path) /\ m \in 1..Len(d.path)
           /\ d.path[m] \in Nat
           /\ \E a, b \in t : /\ Within(d, m, a) /\ a.path[m + 1] = l
                              /\ Within(d, m, b) /\ b.path[m + 1] = r
           /\ \A e \in t : Within(d, m, e) => l <= e.path[m + 1]
<1>0. Finite(t)
  BY DEF Ordered
<1>1. d \in t /\ Len(d.path) \in Nat /\ m \in 1..(Len(d.path) - 1)
  BY <1>0, PathFacts DEF SplitsAt
<1>2. m \in Nat /\ m >= 1 /\ m + 1 \in 1..Len(d.path) /\ m \in 1..Len(d.path)
  BY <1>1
<1>3. l \in Keys /\ r \in Keys /\ l \in Nat /\ r \in Nat
  BY <1>0, <1>1, <1>2, OwnDirectory DEF SplitsAt
<1>4. d.path[m] \in Nat
  BY <1>0, <1>1, <1>2, PathFacts
<1>5. PICK a \in t : Within(d, m, a) /\ a.path[m + 1] = l
  BY DEF SplitsAt, Siblings, Within
<1>6. PICK b \in t : Within(d, m, b) /\ b.path[m + 1] = r
  BY DEF SplitsAt, Siblings, Within
<1>7. \A e \in t : Within(d, m, e) => l <= e.path[m + 1]
  BY DEF SplitsAt, Siblings, Within
<1> QED  BY <1>1, <1>2, <1>3, <1>4, <1>5, <1>6, <1>7 DEF SplitsAt

(* Only the m-th name of a path changes. *)
LEMMA TurnFacts ==
    ASSUME NEW t, Ordered(t), NEW d, NEW m, NEW l, NEW r, SplitsAt(t, d, m, l, r), NEW e \in t
    PROVE  LET f == Turn(d, m, l, r, e)
           IN  /\ f \in Entries /\ f.value = e.value /\ Key(f) = Key(e)
               /\ Len(f.path) = Len(e.path) /\ Len(f.path) \in Nat /\ Len(f.path) >= 1
               /\ \A i \in 1..Len(e.path) : f.path[i] \in Nat /\ e.path[i] \in Nat
               /\ \A i \in 1..Len(e.path) : i # m => f.path[i] = e.path[i]
               /\ ~Within(d, m, e) => f = e
               /\ Within(d, m, e) =>
                     /\ f.path[m] = IF e.path[m + 1] < r THEN l ELSE r
                     /\ Len(e.path) >= m + 1 /\ e.path[m] = d.path[m]
<1>0. Finite(t) /\ m \in Nat /\ m >= 1 /\ l \in Keys /\ r \in Keys /\ l \in Nat /\ r \in Nat
  BY SplitFacts DEF Ordered
<1>1. /\ e.path \in Seq(Keys) /\ e.value \in Values /\ Len(e.path) \in Nat /\ Len(e.path) >= 1
      /\ \A i \in 1..Len(e.path) : e.path[i] \in Nat
      /\ Key(e) = e.path[Len(e.path)] /\ e \in Entries
  BY <1>0, PathFacts DEF Finite
<1> DEFINE f == Turn(d, m, l, r, e)
<1>2. CASE ~Within(d, m, e)
  <2>1. f = e
    BY <1>2 DEF Turn
  <2> QED  BY <1>1, <1>2, <2>1
<1>3. CASE Within(d, m, e)
  <2> DEFINE n == IF e.path[m + 1] < r THEN l ELSE r
             q == [e.path EXCEPT ![m] = n]
  <2>1. n \in Keys /\ n \in Nat
    BY <1>0
  <2>2. m + 1 \in 1..Len(d.path) /\ m + 1 <= Len(e.path) /\ e.path[m] = d.path[m]
    BY <1>0, <1>3 DEF Within, Meet
  <2>3. m \in 1..Len(e.path)
    BY <1>0, <1>1, <2>2
  <2>4. /\ q \in Seq(Keys) /\ Len(q) = Len(e.path)
        /\ \A j \in 1..Len(e.path) : q[j] = IF j = m THEN n ELSE e.path[j]
    <3> HIDE DEF n
    <3> QED  BY <1>1, <2>1, <2>3, ExceptSeq
  <2>5. f = [e EXCEPT !.path = q]
    BY <1>3 DEF Turn
  <2>6. f.path = q /\ f.value = e.value /\ f \in Entries
    <3> HIDE DEF q
    <3> QED  BY <1>1, <2>4, <2>5 DEF Entries
  <2>7. Key(f) = q[Len(e.path)] /\ q[Len(e.path)] = e.path[Len(e.path)]
    <3>1. Key(f) = f.path[Len(f.path)]
      BY DEF Key, Last
    <3> HIDE DEF f, q
    <3> QED  BY <1>0, <1>1, <2>2, <2>4, <2>6, <3>1, SMTT(30)
  <2> HIDE DEF f, q
  <2>8. \A i \in 1..Len(e.path) : f.path[i] \in Nat
    BY <1>1, <2>1, <2>4, <2>6
  <2>9. f.path[m] = n /\ \A i \in 1..Len(e.path) : i # m => f.path[i] = e.path[i]
    BY <2>3, <2>4, <2>6
  <2> QED  BY <1>1, <1>3, <2>2, <2>4, <2>6, <2>7, <2>8, <2>9 DEF f
<1> QED  BY <1>2, <1>3

(* What else is in the parent of the directory has none of the new names, and
   stays on its side of them. *)
LEMMA SplitSiblings ==
    ASSUME NEW t, Ordered(t), NEW d, NEW m, NEW l, NEW r, SplitsAt(t, d, m, l, r),
           NEW f \in t, Meet(d.path, f.path, m), ~Within(d, m, f)
    PROVE  \/ f.path[m] < d.path[m] /\ d.path[m] <= l /\ f.path[m] < l
           \/ d.path[m] < f.path[m] /\ r < f.path[m]
<1>0. /\ Finite(t) /\ m \in Nat /\ m >= 1 /\ l \in Nat /\ r \in Nat /\ d \in t /\ d.path[m] \in Nat
      /\ m + 1 \in 1..Len(d.path) /\ m \in 1..Len(d.path)
  BY SplitFacts DEF Ordered
<1>1. /\ Len(f.path) \in Nat /\ Len(d.path) \in Nat /\ m \in 1..Len(f.path) /\ f.path[m] \in Nat
  BY <1>0, PathFacts DEF Meet
<1>2. f.path[m] # d.path[m]
  <2> SUFFICES ASSUME f.path[m] = d.path[m]
               PROVE  FALSE
    OBVIOUS
  <2>1. Len(f.path) = m
    BY <1>0, <1>1 DEF Within, Meet
  <2>2. Meet(f.path, d.path, Len(f.path))
    BY <1>0, <1>1, <2>1, MeetsBack
  <2>3. Len(d.path) = Len(f.path)
    BY <1>0, <2>2 DEF Ordered, Level
  <2> QED  BY <1>0, <1>1, <2>1, <2>3
<1>3. PICK a, b \in t : /\ Within(d, m, a) /\ a.path[m + 1] = l
                        /\ Within(d, m, b) /\ b.path[m + 1] = r
  BY SplitFacts
<1>4. /\ Len(a.path) \in Nat /\ Len(b.path) \in Nat /\ a.path[m] = d.path[m] /\ b.path[m] = d.path[m]
      /\ Meet(a.path, f.path, m) /\ Meet(b.path, f.path, m)
      /\ m \in 1..(Len(a.path) - 1) /\ m + 1 \in m..Len(a.path) /\ m \in 1..Len(a.path)
      /\ m + 1 \in m..Len(b.path) /\ m \in 1..Len(b.path)
  <2>1. Len(a.path) \in Nat /\ Len(b.path) \in Nat
    BY <1>0, PathFacts
  <2>2. /\ m + 1 <= Len(a.path) /\ m + 1 <= Len(b.path)
        /\ \A j \in 1..m : a.path[j] = d.path[j] /\ b.path[j] = d.path[j]
    BY <1>0, <1>3, SMTT(30) DEF Within, Meet
  <2>3. a.path[m] = d.path[m] /\ b.path[m] = d.path[m]
    BY <1>0, <2>2
  <2>4. /\ m \in 1..(Len(a.path) - 1) /\ m + 1 \in m..Len(a.path) /\ m \in 1..Len(a.path)
        /\ m + 1 \in m..Len(b.path) /\ m \in 1..Len(b.path)
    BY <1>0, <2>1, <2>2
  <2>5. Meet(a.path, f.path, m) /\ Meet(b.path, f.path, m)
    BY <1>0, <1>1, <2>2, <2>4 DEF Meet
  <2> QED  BY <2>1, <2>3, <2>4, <2>5
<1>5. CASE d.path[m] < f.path[m]
  BY <1>3, <1>4, <1>5 DEF Ordered, Apart
<1>6. CASE f.path[m] < d.path[m]
  <2>1. NotLeftmost(t, a.path, m)
    BY <1>0, <1>4, <1>6 DEF NotLeftmost
  <2>2. a.path[m] <= a.path[m + 1]
    BY <1>4, <2>1 DEF Ordered, Named
  <2> QED  BY <1>0, <1>1, <1>3, <1>4, <1>6, <2>2, SMTT(30)
<1> QED  BY <1>0, <1>1, <1>2, <1>5, <1>6

(* The tree after the split. *)
Turned(t, d, m, l, r) == {Turn(d, m, l, r, e) : e \in t}

(* Entries that agree on their way agreed before the split. *)
LEMMA TurnMeets ==
    ASSUME NEW t, Ordered(t), NEW d, NEW m, NEW l, NEW r, SplitsAt(t, d, m, l, r),
           NEW e \in t, NEW f \in t, NEW i,
           Meet(Turn(d, m, l, r, e).path, Turn(d, m, l, r, f).path, i)
    PROVE  /\ Meet(e.path, f.path, i)
           /\ m < i => (Within(d, m, e) <=> Within(d, m, f))
<1> DEFINE x == e.path
           y == f.path
           u == Turn(d, m, l, r, e).path
           v == Turn(d, m, l, r, f).path
<1>0. /\ m \in Nat /\ m >= 1 /\ l \in Nat /\ r \in Nat /\ l < r /\ m + 1 \in 1..Len(d.path)
      /\ d \in t /\ Len(d.path) \in Nat
  BY SplitFacts, PathFacts DEF Ordered
<1>1. /\ Len(u) = Len(x) /\ Len(v) = Len(y) /\ Len(x) \in Nat /\ Len(y) \in Nat
      /\ \A j \in 1..Len(x) : j # m => u[j] = x[j]
      /\ \A j \in 1..Len(y) : j # m => v[j] = y[j]
      /\ ~Within(d, m, e) => u = x
      /\ ~Within(d, m, f) => v = y
      /\ Within(d, m, e) => (u[m] = l \/ u[m] = r) /\ x[m] = d.path[m] /\ Len(x) >= m + 1
      /\ Within(d, m, f) => (v[m] = l \/ v[m] = r) /\ y[m] = d.path[m] /\ Len(y) >= m + 1
  BY TurnFacts
<1>2. i \in 1..Len(x) /\ i <= Len(y) /\ \A j \in 1..(i - 1) : u[j] = v[j]
  BY <1>1 DEF Meet
<1> HIDE DEF u, v
<1>3. CASE i <= m
  <2>1. ASSUME NEW j \in 1..(i - 1)
        PROVE  x[j] = y[j]
    <3>1. j # m /\ j \in 1..Len(x) /\ j \in 1..Len(y)
      BY <1>0, <1>1, <1>2, <1>3
    <3>2. u[j] = x[j] /\ v[j] = y[j] /\ u[j] = v[j]
      BY <1>1, <1>2, <3>1
    <3> QED  BY <3>2
  <2> QED  BY <1>0, <1>1, <1>2, <1>3, <2>1 DEF Meet
<1>4. CASE m < i
  <2>1. u[m] = v[m] /\ m \in 1..Len(x) /\ m \in 1..Len(y)
    BY <1>0, <1>1, <1>2, <1>4
  <2>2. \A j \in 1..(m - 1) : x[j] = y[j]
    BY <1>0, <1>1, <1>2, <1>4
  <2>3. ASSUME Within(d, m, e)
        PROVE  Within(d, m, f)
    <3> SUFFICES ASSUME ~Within(d, m, f)
                 PROVE  FALSE
      OBVIOUS
    <3>1. Meet(d.path, y, m)
      BY <1>0, <2>1, <2>2, <2>3 DEF Within, Meet
    <3>2. y[m] < l \/ r < y[m]
      BY <3>1, SplitSiblings
    <3>3. y[m] \in Nat
      BY <2>1, PathFacts DEF Ordered
    <3> QED  BY <1>0, <1>1, <2>1, <2>3, <3>2, <3>3
  <2>4. ASSUME Within(d, m, f)
        PROVE  Within(d, m, e)
    <3> SUFFICES ASSUME ~Within(d, m, e)
                 PROVE  FALSE
      OBVIOUS
    <3>1. Meet(d.path, x, m)
      BY <1>0, <2>1, <2>2, <2>4 DEF Within, Meet
    <3>2. x[m] < l \/ r < x[m]
      BY <3>1, SplitSiblings
    <3>3. x[m] \in Nat
      BY <2>1, PathFacts DEF Ordered
    <3> QED  BY <1>0, <1>1, <2>1, <2>4, <3>2, <3>3
  <2>5. x[m] = y[m]
    BY <1>1, <2>1, <2>3, <2>4
  <2>6. \A j \in 1..(i - 1) : x[j] = y[j]
    BY <1>0, <1>1, <1>2, <1>4, <2>5, SMTT(30)
  <2> QED  BY <1>0, <1>1, <1>2, <1>4, <2>3, <2>4, <2>6 DEF Meet
<1> QED  BY <1>0, <1>1, <1>2, <1>3, <1>4

(* They still do if they do not go into different halves. *)
LEMMA TurnKeepsMeeting ==
    ASSUME NEW t, Ordered(t), NEW d, NEW m, NEW l, NEW r, SplitsAt(t, d, m, l, r),
           NEW e \in t, NEW f \in t, NEW i, Meet(e.path, f.path, i),
           i <= m \/ Turn(d, m, l, r, e).path[m] = Turn(d, m, l, r, f).path[m]
    PROVE  Meet(Turn(d, m, l, r, e).path, Turn(d, m, l, r, f).path, i)
<1> DEFINE u == Turn(d, m, l, r, e).path
           v == Turn(d, m, l, r, f).path
<1>0. m \in Nat /\ m >= 1
  BY SplitFacts
<1>1. /\ Len(u) = Len(e.path) /\ Len(v) = Len(f.path) /\ Len(e.path) \in Nat /\ Len(f.path) \in Nat
      /\ \A j \in 1..Len(e.path) : j # m => u[j] = e.path[j]
      /\ \A j \in 1..Len(f.path) : j # m => v[j] = f.path[j]
  BY TurnFacts
<1>2. i \in 1..Len(e.path) /\ i <= Len(f.path) /\ \A j \in 1..(i - 1) : e.path[j] = f.path[j]
  BY DEF Meet
<1>3. i <= m \/ u[m] = v[m]
  OBVIOUS
<1> HIDE DEF u, v
<1>4. \A j \in 1..(i - 1) : u[j] = v[j]
  BY <1>0, <1>1, <1>2, <1>3
<1>5. Meet(u, v, i)
  BY <1>1, <1>2, <1>4 DEF Meet
<1> QED  BY <1>5 DEF u, v

(* Leaves stay leaves, and no entry comes in the place of another. *)
LEMMA TurnedLevel ==
    ASSUME NEW t, Ordered(t), NEW d, NEW m, NEW l, NEW r, SplitsAt(t, d, m, l, r)
    PROVE  Level(Turned(t, d, m, l, r)) /\ Unique(Turned(t, d, m, l, r))
<1> DEFINE T(e) == Turn(d, m, l, r, e)
<1>1. ASSUME NEW e \in t, NEW f \in t, Meet(T(e).path, T(f).path, Len(T(e).path))
      PROVE  Len(T(f).path) = Len(T(e).path)
  <2>1. Len(T(e).path) = Len(e.path) /\ Len(T(f).path) = Len(f.path)
    BY TurnFacts
  <2>2. Meet(e.path, f.path, Len(e.path))
    BY <1>1, <2>1, TurnMeets
  <2> QED  BY <2>1, <2>2 DEF Ordered, Level
<1>2. ASSUME NEW e \in t, NEW f \in t, T(e).path = T(f).path
      PROVE  e = f
  <2>1. Key(T(e)) = Key(T(f))
    BY <1>2 DEF Key
  <2>2. Key(e) = Key(f)
    BY <2>1, TurnFacts
  <2> QED  BY <2>2, KeysDiffer
<1>3. Level(Turned(t, d, m, l, r))
  BY <1>1 DEF Level, Turned
<1>4. Unique(Turned(t, d, m, l, r))
  BY <1>2 DEF Unique, Turned
<1> QED  BY <1>3, <1>4

(* A split makes no entries. *)
LEMMA TurnedFinite ==
    ASSUME NEW t, Ordered(t), NEW d, NEW m, NEW l, NEW r, SplitsAt(t, d, m, l, r)
    PROVE  Finite(Turned(t, d, m, l, r))
<1> DEFINE T(e) == Turn(d, m, l, r, e)
           F == [e \in t |-> T(e)]
           S == Turned(t, d, m, l, r)
<1>1. F \in Surjection(t, S)
  BY DEF Surjection, Turned
<1>2. IsFiniteSet(S)
  <2> HIDE DEF F, S
  <2> QED  BY <1>1, FS_Surjection DEF Ordered, Finite
<1>3. PICK n \in Nat : \A e \in t : Len(e.path) \in 1..n
  BY DEF Ordered, Finite
<1>4. ASSUME NEW e \in t
      PROVE  T(e) \in Entries /\ Len(T(e).path) \in 1..n
  BY <1>3, TurnFacts
<1>5. S \subseteq Entries /\ \A f \in S : Len(f.path) \in 1..n
  BY <1>4 DEF Turned
<1> QED  BY <1>2, <1>3, <1>5 DEF Finite

(* Everything in that directory has the same way to it. *)
LEMMA WithinFacts ==
    ASSUME NEW t, Ordered(t), NEW d, NEW m, NEW l, NEW r, SplitsAt(t, d, m, l, r),
           NEW e \in t, Within(d, m, e)
    PROVE  /\ m + 1 \in 1..Len(e.path) /\ m \in 1..Len(e.path) /\ e.path[m + 1] \in Nat
           /\ \A j \in 1..m : e.path[j] = d.path[j]
           /\ \A f \in t : Within(d, m, f) => Meet(e.path, f.path, m + 1)
           /\ \A f \in t, i \in 1..m : Meet(e.path, f.path, i) <=> Meet(d.path, f.path, i)
<1>0. /\ m \in Nat /\ m >= 1 /\ d \in t /\ m + 1 \in 1..Len(d.path) /\ Len(d.path) \in Nat
      /\ Len(e.path) \in Nat /\ \A f \in t : Len(f.path) \in Nat
  BY SplitFacts, PathFacts DEF Ordered
<1>1. m + 1 <= Len(e.path) /\ \A j \in 1..m : e.path[j] = d.path[j]
  BY <1>0 DEF Within, Meet
<1>2. m + 1 \in 1..Len(e.path) /\ m \in 1..Len(e.path)
  BY <1>0, <1>1
<1>3. e.path[m + 1] \in Nat
  BY <1>2, PathFacts DEF Ordered
<1>4. ASSUME NEW f \in t, Within(d, m, f)
      PROVE  Meet(e.path, f.path, m + 1)
  BY <1>0, <1>1, <1>2, <1>4 DEF Within, Meet
<1>5. ASSUME NEW f \in t, NEW i \in 1..m
      PROVE  Meet(e.path, f.path, i) <=> Meet(d.path, f.path, i)
  BY <1>0, <1>1, <1>2 DEF Meet
<1> QED  BY <1>1, <1>2, <1>3, <1>4, <1>5

(* The halves are as far apart as the directory and its siblings were. *)
LEMMA TurnedApart ==
    ASSUME NEW t, Ordered(t), NEW d, NEW m, NEW l, NEW r, SplitsAt(t, d, m, l, r)
    PROVE  Apart(Turned(t, d, m, l, r))
<1> DEFINE T(e) == Turn(d, m, l, r, e)
<1>0. /\ m \in Nat /\ m >= 1 /\ l \in Nat /\ r \in Nat /\ l < r /\ d.path[m] \in Nat
      /\ d \in t /\ m \in 1..Len(d.path)
  BY SplitFacts
<1>1. SUFFICES ASSUME NEW e \in t, NEW f \in t, NEW i \in 1..Len(T(e).path),
                      Meet(T(e).path, T(f).path, i), T(e).path[i] < T(f).path[i],
                      NEW j \in i..Len(T(e).path)
               PROVE  T(e).path[j] < T(f).path[i]
  BY DEF Apart, Turned
<1> DEFINE x == e.path
           y == f.path
           u == T(e).path
           v == T(f).path
<1>2. /\ Len(u) = Len(x) /\ Len(v) = Len(y) /\ Len(x) \in Nat /\ Len(y) \in Nat
      /\ \A h \in 1..Len(x) : u[h] \in Nat /\ x[h] \in Nat /\ (h # m => u[h] = x[h])
      /\ \A h \in 1..Len(y) : v[h] \in Nat /\ y[h] \in Nat /\ (h # m => v[h] = y[h])
      /\ ~Within(d, m, e) => u = x
      /\ ~Within(d, m, f) => v = y
      /\ Within(d, m, e) => u[m] = IF x[m + 1] < r THEN l ELSE r
      /\ Within(d, m, f) => v[m] = IF y[m + 1] < r THEN l ELSE r
  <2>1. /\ Len(u) = Len(x) /\ Len(x) \in Nat
        /\ \A h \in 1..Len(x) : u[h] \in Nat /\ x[h] \in Nat /\ (h # m => u[h] = x[h])
        /\ ~Within(d, m, e) => u = x
        /\ Within(d, m, e) => u[m] = IF x[m + 1] < r THEN l ELSE r
    BY TurnFacts
  <2>2. /\ Len(v) = Len(y) /\ Len(y) \in Nat
        /\ \A h \in 1..Len(y) : v[h] \in Nat /\ y[h] \in Nat /\ (h # m => v[h] = y[h])
        /\ ~Within(d, m, f) => v = y
        /\ Within(d, m, f) => v[m] = IF y[m + 1] < r THEN l ELSE r
    BY TurnFacts
  <2> QED  BY <2>1, <2>2
<1>3. /\ Meet(x, y, i) /\ (m < i => (Within(d, m, e) <=> Within(d, m, f)))
      /\ i \in 1..Len(x) /\ i \in 1..Len(y) /\ j \in i..Len(x) /\ j \in 1..Len(x)
      /\ i \in Nat /\ j \in Nat
  <2>1. Meet(x, y, i) /\ (m < i => (Within(d, m, e) <=> Within(d, m, f)))
    BY <1>1, TurnMeets
  <2> QED  BY <1>2, <2>1 DEF Meet
<1>4. u[i] < v[i]
  BY <1>1
<1> SUFFICES u[j] < v[i]
  OBVIOUS
<1>5. x[i] < y[i] => x[j] < y[i]
  BY <1>3 DEF Ordered, Apart
<1>6. PICK a, b \in t : /\ Within(d, m, a) /\ a.path[m + 1] = l
                        /\ Within(d, m, b) /\ b.path[m + 1] = r
  BY SplitFacts
<1> HIDE DEF u, v, x, y
<1>7. CASE m < i
  <2>1. u[i] = x[i] /\ v[i] = y[i] /\ u[j] = x[j]
    BY <1>0, <1>2, <1>3, <1>7
  <2> QED  BY <1>4, <1>5, <2>1
<1>8. CASE i < m
  <2>1. u[i] = x[i] /\ v[i] = y[i]
    BY <1>0, <1>2, <1>3, <1>8
  <2>2. x[j] < v[i]
    BY <1>4, <1>5, <2>1
  <2>3. CASE j # m \/ ~Within(d, m, e)
    BY <1>2, <1>3, <2>2, <2>3
  <2>4. CASE j = m /\ Within(d, m, e)
    <3>1. u[j] = l \/ u[j] = r
      BY <1>2, <2>4
    <3>2. ASSUME NEW g \in t, Within(d, m, g)
          PROVE  g.path[m + 1] < v[i]
      <4>1. i \in 1..m /\ i \in 1..Len(g.path) /\ m + 1 \in i..Len(g.path)
        BY <1>0, <1>3, <1>8, <3>2, WithinFacts
      <4>2. Meet(g.path, y, i)
        BY <1>3, <2>4, <3>2, <4>1, WithinFacts DEF x, y
      <4>3. g.path[i] = x[i]
        BY <2>4, <3>2, <4>1, WithinFacts DEF x
      <4> QED  BY <1>4, <2>1, <4>1, <4>2, <4>3 DEF Ordered, Apart, y
    <3> QED  BY <1>6, <3>1, <3>2
  <2> QED  BY <2>3, <2>4
<1>9. CASE i = m
  <2>1. CASE ~Within(d, m, e) /\ ~Within(d, m, f)
    BY <1>2, <1>4, <1>5, <2>1
  <2>2. CASE Within(d, m, e) /\ ~Within(d, m, f)
    <3>1. Meet(d.path, y, m) /\ x[m] = d.path[m]
      BY <1>0, <1>3, <1>9, <2>2, WithinFacts DEF x, y
    <3>2. v = y /\ (u[m] = l \/ u[m] = r)
      BY <1>2, <2>2
    <3>3. d.path[m] < y[m]
      <4>1. ~(y[m] < l)
        BY <1>0, <1>2, <1>3, <1>4, <1>9, <3>2
      <4> QED  BY <2>2, <3>1, <4>1, SplitSiblings DEF y
    <3>4. x[j] < v[m]
      BY <1>5, <1>9, <3>1, <3>2, <3>3
    <3> QED  BY <1>2, <1>3, <1>4, <1>9, <3>4
  <2>3. CASE ~Within(d, m, e) /\ Within(d, m, f)
    <3>1. Meet(d.path, x, m) /\ y[m] = d.path[m]
      <4>1. Meet(y, x, m)
        BY <1>2, <1>3, <1>9, MeetsBack
      <4> QED  BY <1>0, <2>3, <4>1, WithinFacts DEF x, y
    <3>2. u = x /\ (v[m] = l \/ v[m] = r) /\ x[m] \in Nat
      BY <1>2, <1>3, <1>9, <2>3
    <3>3. x[m] < d.path[m] /\ d.path[m] <= l
      <4>1. ~(r < x[m])
        BY <1>0, <1>4, <1>9, <3>2
      <4> QED  BY <2>3, <3>1, <4>1, SplitSiblings DEF x
    <3>4. x[j] < d.path[m] /\ x[j] \in Nat
      BY <1>2, <1>3, <1>5, <1>9, <3>1, <3>3
    <3> QED  BY <1>0, <1>9, <3>2, <3>3, <3>4
  <2>4. CASE Within(d, m, e) /\ Within(d, m, f)
    <3>1. u[m] = l /\ v[m] = r /\ x[m + 1] < r
      BY <1>0, <1>2, <1>4, <1>9, <2>4
    <3>2. CASE j = m
      BY <1>0, <1>9, <3>1, <3>2
    <3>3. CASE j # m
      <4>1. m + 1 \in 1..Len(x) /\ j \in (m + 1)..Len(x)
        BY <1>0, <1>2, <1>3, <1>9, <3>3
      <4>2. Meet(x, b.path, m + 1)
        BY <1>6, <2>4, WithinFacts DEF x
      <4>3. x[j] < r
        BY <1>6, <3>1, <4>1, <4>2 DEF Ordered, Apart, x
      <4> QED  BY <1>2, <1>3, <1>9, <3>1, <3>3, <4>3
    <3> QED  BY <3>2, <3>3
  <2> QED  BY <2>1, <2>2, <2>3, <2>4
<1> QED  BY <1>0, <1>3, <1>7, <1>8, <1>9

(* Turn, in terms of paths. *)
LEMMA TurnPaths ==
    ASSUME NEW t, Ordered(t), NEW d, NEW m, NEW l, NEW r, SplitsAt(t, d, m, l, r),
           NEW e \in t, NEW u, u = Turn(d, m, l, r, e).path
    PROVE  /\ Len(u) = Len(e.path) /\ Len(e.path) \in Nat
           /\ \A h \in 1..Len(e.path) :
                 u[h] \in Nat /\ e.path[h] \in Nat /\ (h # m => u[h] = e.path[h])
           /\ ~Within(d, m, e) => u = e.path
           /\ Within(d, m, e) => u[m] = IF e.path[m + 1] < r THEN l ELSE r
  BY TurnFacts

(* What is on the way to a directory is on the way to what is in it. *)
LEMMA Deeper ==
    ASSUME NEW t, NEW x, NEW i \in Nat, NEW j \in Nat, i <= j, NotLeftmost(t, x, i)
    PROVE  NotLeftmost(t, x, j)
  BY DEF NotLeftmost

(* The least name in a directory that is not on the left edge is its own. *)
LEMMA LeastName ==
    ASSUME NEW t, Ordered(t), NEW d, NEW m, NEW l, NEW r, SplitsAt(t, d, m, l, r),
           NEW e \in t, Within(d, m, e), NEW i \in 1..m, NotLeftmost(t, e.path, i)
    PROVE  e.path[i] <= l
<1>0. m \in Nat /\ m >= 1 /\ l \in Nat /\ Len(e.path) \in Nat /\ i \in Nat
  BY SplitFacts, PathFacts DEF Ordered
<1>1. PICK a \in t : Within(d, m, a) /\ a.path[m + 1] = l
  BY SplitFacts
<1>2. Len(a.path) \in Nat /\ m + 1 \in 1..Len(a.path) /\ Meet(e.path, a.path, m + 1)
  BY <1>1, WithinFacts, PathFacts DEF Ordered
<1>3. Meet(e.path, a.path, i + 1) /\ e.path[i] = a.path[i]
  BY <1>0, <1>2 DEF Meet
<1>4. NotLeftmost(t, a.path, i)
  BY <1>0, <1>2, <1>3, SameWay
<1>5. i \in 1..(Len(a.path) - 1) /\ m + 1 \in i..Len(a.path)
  BY <1>0, <1>2
<1> QED  BY <1>1, <1>3, <1>4, <1>5 DEF Ordered, Named

(* Who is not on the left edge after the split was not before, unless it is in
   the second half. *)
LEMMA TurnedLeft ==
    ASSUME NEW t, Ordered(t), NEW d, NEW m, NEW l, NEW r, SplitsAt(t, d, m, l, r),
           NEW e \in t, NEW i \in 1..Len(e.path),
           NotLeftmost(Turned(t, d, m, l, r), Turn(d, m, l, r, e).path, i)
    PROVE  \/ NotLeftmost(t, e.path, i)
           \/ i = m /\ Within(d, m, e) /\ Turn(d, m, l, r, e).path[m] = r
<1> DEFINE x == e.path
           u == Turn(d, m, l, r, e).path
<1>0. /\ m \in Nat /\ m >= 1 /\ l \in Nat /\ r \in Nat /\ l < r /\ d.path[m] \in Nat
      /\ d \in t /\ m \in 1..Len(d.path)
  BY SplitFacts
<1>1. PICK h \in 1..i, f \in t : /\ Meet(u, Turn(d, m, l, r, f).path, h)
                                 /\ Turn(d, m, l, r, f).path[h] < u[h]
  BY DEF NotLeftmost, Turned
<1> DEFINE y == f.path
           v == Turn(d, m, l, r, f).path
<1>2. /\ Len(u) = Len(x) /\ Len(x) \in Nat
      /\ \A g \in 1..Len(x) : u[g] \in Nat /\ x[g] \in Nat /\ (g # m => u[g] = x[g])
      /\ ~Within(d, m, e) => u = x
      /\ Within(d, m, e) => u[m] = IF x[m + 1] < r THEN l ELSE r
  BY TurnPaths
<1>3. /\ Len(v) = Len(y) /\ Len(y) \in Nat
      /\ \A g \in 1..Len(y) : v[g] \in Nat /\ y[g] \in Nat /\ (g # m => v[g] = y[g])
      /\ ~Within(d, m, f) => v = y
      /\ Within(d, m, f) => v[m] = IF y[m + 1] < r THEN l ELSE r
  BY TurnPaths
<1>4. Meet(x, y, h)
  BY <1>1, TurnMeets
<1>5. h \in 1..Len(x) /\ h \in 1..Len(y) /\ h \in Nat /\ i \in Nat /\ v[h] < u[h]
  BY <1>1, <1>2, <1>3, <1>4 DEF Meet
<1> HIDE DEF u, v
<1>6. y[h] < x[h] => NotLeftmost(t, x, i)
  BY <1>4 DEF NotLeftmost
<1>7. CASE h # m
  BY <1>2, <1>3, <1>5, <1>6, <1>7
<1>8. CASE h = m
  <2>1. CASE ~Within(d, m, e) /\ ~Within(d, m, f)
    BY <1>2, <1>3, <1>5, <1>6, <2>1
  <2>2. CASE Within(d, m, e) /\ ~Within(d, m, f)
    <3>1. Meet(d.path, y, m) /\ x[m] = d.path[m]
      BY <1>0, <1>4, <1>8, <2>2, WithinFacts
    <3>2. v = y /\ (u[m] = l \/ u[m] = r) /\ y[m] \in Nat
      BY <1>2, <1>3, <1>5, <1>8, <2>2
    <3>3. y[m] < d.path[m]
      <4>1. ~(r < y[m])
        BY <1>0, <1>5, <1>8, <3>2
      <4> QED  BY <2>2, <3>1, <4>1, SplitSiblings
    <3> QED  BY <1>6, <1>8, <3>1, <3>3
  <2>3. CASE ~Within(d, m, e) /\ Within(d, m, f)
    <3>1. Meet(d.path, x, m) /\ y[m] = d.path[m]
      <4>1. Meet(y, x, m)
        BY <1>2, <1>4, <1>8, MeetsBack
      <4> QED  BY <1>0, <2>3, <4>1, WithinFacts
    <3>2. u = x /\ (v[m] = l \/ v[m] = r) /\ x[m] \in Nat
      BY <1>2, <1>3, <1>5, <1>8, <2>3
    <3>3. d.path[m] < x[m]
      <4>1. ~(x[m] < l)
        BY <1>0, <1>5, <1>8, <3>2
      <4> QED  BY <2>3, <3>1, <4>1, SplitSiblings
    <3> QED  BY <1>6, <1>8, <3>1, <3>3
  <2>4. CASE Within(d, m, e) /\ Within(d, m, f)
    <3>1. u[m] = r /\ v[m] = l /\ ~(x[m + 1] < r) /\ y[m + 1] < r
      BY <1>0, <1>2, <1>3, <1>5, <1>8, <2>4, SMTT(30)
    <3>2. Meet(x, y, m + 1) /\ x[m + 1] \in Nat /\ y[m + 1] \in Nat
      BY <2>4, WithinFacts
    <3>3. ASSUME i # m
          PROVE  NotLeftmost(t, x, i)
      <4>1. y[m + 1] < x[m + 1]
        BY <1>0, <3>1, <3>2, SMTT(30)
      <4>2. m \in 1..i /\ m + 1 \in 1..i
        BY <1>0, <1>5, <1>8, <3>3
      <4> QED  BY <3>2, <4>1, <4>2 DEF NotLeftmost
    <3> QED  BY <2>4, <3>1, <3>3 DEF u
  <2> QED  BY <2>1, <2>2, <2>3, <2>4
<1> QED  BY <1>7, <1>8

(* What one entry has to fulfil for a tree to be Named. *)
NamedAt(t, x, i) ==
    /\ \A j \in i..Len(x) : x[i] <= x[j]
    /\ \E g \in t : Meet(x, g.path, i + 1) /\ \A j \in i..Len(g.path) : g.path[j] = x[i]

(* What was named after its least name still is, *)
LEMMA TurnedNamedAway ==
    ASSUME NEW t, Ordered(t), NEW d, NEW m, NEW l, NEW r, SplitsAt(t, d, m, l, r),
           NEW e \in t, NEW i \in 1..(Len(e.path) - 1), NotLeftmost(t, e.path, i),
           i # m \/ ~Within(d, m, e)
    PROVE  NamedAt(Turned(t, d, m, l, r), Turn(d, m, l, r, e).path, i)
<1> DEFINE x == e.path
           u == Turn(d, m, l, r, e).path
<1>0. /\ m \in Nat /\ m >= 1 /\ l \in Nat /\ r \in Nat /\ l < r
      /\ d \in t /\ m + 1 \in 1..Len(d.path) /\ m \in 1..Len(d.path)
  BY SplitFacts
<1>1. PICK g \in t : /\ \A j \in i..Len(x) : x[i] <= x[j]
                     /\ Meet(x, g.path, i + 1)
                     /\ \A j \in i..Len(g.path) : g.path[j] = x[i]
  BY DEF Ordered, Named
<1> DEFINE y == g.path
           v == Turn(d, m, l, r, g).path
<1>2. /\ Len(u) = Len(x) /\ Len(x) \in Nat
      /\ \A h \in 1..Len(x) : u[h] \in Nat /\ x[h] \in Nat /\ (h # m => u[h] = x[h])
      /\ ~Within(d, m, e) => u = x
      /\ Within(d, m, e) => u[m] = IF x[m + 1] < r THEN l ELSE r
  <2>1. u = Turn(d, m, l, r, e).path
    OBVIOUS
  <2> HIDE DEF u
  <2> QED  BY ONLY Ordered(t), SplitsAt(t, d, m, l, r), e \in t, <2>1, TurnPaths
<1>3. /\ Len(v) = Len(y) /\ Len(y) \in Nat
      /\ \A h \in 1..Len(y) : v[h] \in Nat /\ y[h] \in Nat /\ (h # m => v[h] = y[h])
      /\ ~Within(d, m, g) => v = y
      /\ Within(d, m, g) => v[m] = IF y[m + 1] < r THEN l ELSE r
  BY TurnPaths
<1>4. /\ i \in Nat /\ i \in 1..Len(x) /\ i \in 1..Len(y) /\ i + 1 \in 1..Len(x) /\ i + 1 \in 1..Len(y)
      /\ \A j \in 1..i : x[j] = y[j]
  BY <1>1, <1>2, <1>3 DEF Meet
<1>5. i + 1 <= m \/ u[m] = v[m] => Meet(u, v, i + 1)
  BY <1>1, TurnKeepsMeeting
<1>6. Turn(d, m, l, r, g) \in Turned(t, d, m, l, r)
  BY DEF Turned
<1> SUFFICES /\ \A j \in i..Len(x) : u[i] <= u[j]
             /\ Meet(u, v, i + 1) /\ \A j \in i..Len(y) : v[j] = u[i]
  BY <1>2, <1>3, <1>6 DEF NamedAt
<1> HIDE DEF u, v
<1>7. CASE m < i
  <2>1. \A j \in i..Len(x) : j \in 1..Len(x) /\ u[j] = x[j]
    BY <1>0, <1>2, <1>4, <1>7
  <2>2. \A j \in i..Len(y) : j \in 1..Len(y) /\ v[j] = y[j]
    BY <1>0, <1>3, <1>4, <1>7
  <2>3. m + 1 \in 1..i /\ m \in 1..i /\ x[m + 1] = y[m + 1] /\ x[m] = y[m]
    BY <1>0, <1>4, <1>7, SMTT(30)
  <2>4. Within(d, m, e) <=> Within(d, m, g)
    <3>1. \A j \in 1..m : x[j] = y[j]
      BY <1>0, <1>4, <1>7
    <3>2. m + 1 <= Len(x) /\ m + 1 <= Len(y)
      BY <1>0, <1>2, <1>3, <1>4, <1>7
    <3> QED  BY <1>0, <3>1, <3>2 DEF Within, Meet
  <2>5. u[m] = v[m]
    BY <1>2, <1>3, <2>3, <2>4
  <2>6. u[i] = x[i]
    BY <1>2, <1>4, <2>1
  <2> QED  BY <1>1, <1>5, <2>1, <2>2, <2>5, <2>6
<1>8. CASE i = m
  <2>1. ~Within(d, m, e)
    BY <1>8
  <2>2. ~Within(d, m, g)
    <3> SUFFICES ASSUME Within(d, m, g)
                 PROVE  FALSE
      OBVIOUS
    <3>1. Meet(y, x, m + 1)
      BY <1>1, <1>2, <1>8, MeetsBack
    <3>2. \A j \in 1..m : y[j] = d.path[j] /\ x[j] = y[j]
      BY <1>4, <1>8, WithinFacts
    <3>3. Within(d, m, e)
      BY <1>0, <1>2, <1>4, <1>8, <3>2 DEF Within, Meet
    <3> QED  BY <2>1, <3>3
  <2>3. u = x /\ v = y
    BY <1>2, <1>3, <2>1, <2>2
  <2> QED  BY <1>1, <1>8, <2>3
<1>9. CASE i < m
  <2>1. i \in 1..m /\ i + 1 <= m /\ u[i] = x[i]
    BY <1>0, <1>2, <1>4, <1>9
  <2>2. ASSUME NEW j \in i..Len(x)
        PROVE  u[i] <= u[j]
    <3>1. j \in 1..Len(x) /\ x[i] <= x[j]
      BY <1>1, <1>2, <1>4, <2>2
    <3>2. CASE j # m \/ ~Within(d, m, e)
      BY <1>2, <2>1, <3>1, <3>2
    <3>3. CASE j = m /\ Within(d, m, e)
      <4>1. x[i] <= l
        BY <2>1, <3>3, LeastName
      <4>2. u[j] = l \/ u[j] = r
        BY <1>2, <3>3
      <4> QED  BY <1>0, <1>2, <1>4, <2>1, <4>1, <4>2, SMTT(30)
    <3> QED  BY <3>2, <3>3
  <2>3. ASSUME NEW j \in i..Len(y)
        PROVE  v[j] = u[i]
    <3>1. j \in 1..Len(y) /\ y[j] = x[i]
      BY <1>1, <1>3, <1>4, <2>3
    <3>2. CASE j # m \/ ~Within(d, m, g)
      BY <1>3, <2>1, <3>1, <3>2
    <3>3. CASE j = m /\ Within(d, m, g)
      <4>1. m + 1 \in i..Len(y)
        BY <1>0, <2>1, <3>3, WithinFacts
      <4>2. y[m + 1] = x[i] /\ l <= y[m + 1]
        BY <1>1, <3>3, <4>1, SplitFacts
      <4>3. NotLeftmost(t, y, i)
        BY <1>1, <1>2, <1>3, <1>4, SameWay
      <4>4. y[i] <= l /\ y[i] = x[i]
        BY <1>4, <2>1, <3>3, <4>3, LeastName
      <4>5. y[m + 1] = l
        BY <1>0, <1>2, <1>4, <4>2, <4>4, SMTT(30)
      <4> QED  BY <1>0, <1>3, <2>1, <3>3, <4>2, <4>5
    <3> QED  BY <3>2, <3>3
  <2> QED  BY <1>5, <2>1, <2>2, <2>3
<1> QED  BY <1>0, <1>4, <1>7, <1>8, <1>9

(* and so are the halves. *)
LEMMA TurnedNamedHere ==
    ASSUME NEW t, Ordered(t), NEW d, NEW m, NEW l, NEW r, SplitsAt(t, d, m, l, r),
           NEW e \in t, Within(d, m, e),
           NotLeftmost(Turned(t, d, m, l, r), Turn(d, m, l, r, e).path, m)
    PROVE  NamedAt(Turned(t, d, m, l, r), Turn(d, m, l, r, e).path, m)
<1> DEFINE x == e.path
           u == Turn(d, m, l, r, e).path
           T(g) == Turn(d, m, l, r, g)
<1>0. /\ m \in Nat /\ m >= 1 /\ l \in Nat /\ r \in Nat /\ l < r
  BY SplitFacts
<1>1. /\ Len(u) = Len(x) /\ Len(x) \in Nat
      /\ \A h \in 1..Len(x) : u[h] \in Nat /\ x[h] \in Nat /\ (h # m => u[h] = x[h])
      /\ u[m] = IF x[m + 1] < r THEN l ELSE r
  BY TurnPaths
<1>2. m + 1 \in 1..Len(x) /\ m \in 1..Len(x) /\ m \in 1..(Len(x) - 1)
  BY <1>0, <1>1, WithinFacts
<1>3. PICK a, b \in t : /\ Within(d, m, a) /\ a.path[m + 1] = l
                        /\ Within(d, m, b) /\ b.path[m + 1] = r
  BY SplitFacts
<1>4. ASSUME NEW g \in t, Within(d, m, g), \A j \in (m + 1)..Len(g.path) : g.path[j] = u[m],
             \A j \in (m + 1)..Len(x) : u[m] <= x[j]
      PROVE  NamedAt(Turned(t, d, m, l, r), u, m)
  <2> DEFINE v == T(g).path
  <2>1. /\ Len(v) = Len(g.path) /\ Len(g.path) \in Nat
        /\ \A h \in 1..Len(g.path) : h # m => v[h] = g.path[h]
        /\ v[m] = IF g.path[m + 1] < r THEN l ELSE r
    BY <1>4, TurnPaths
  <2>2. m + 1 \in (m + 1)..Len(g.path) /\ Meet(x, g.path, m + 1)
    BY <1>0, <1>4, <2>1, WithinFacts
  <2>3. v[m] = u[m]
    BY <1>0, <1>1, <1>4, <2>1, <2>2
  <2>4. Meet(u, v, m + 1)
    BY <2>2, <2>3, TurnKeepsMeeting
  <2>5. T(g) \in Turned(t, d, m, l, r)
    BY DEF Turned
  <2>6. ASSUME NEW j \in m..Len(v)
        PROVE  v[j] = u[m]
    <3>1. j = m \/ (j \in (m + 1)..Len(g.path) /\ j \in 1..Len(g.path) /\ j # m)
      BY <1>0, <2>1, <2>6
    <3> QED  BY <1>4, <2>1, <2>3, <3>1
  <2>7. ASSUME NEW j \in m..Len(u)
        PROVE  u[m] <= u[j]
    <3>1. j = m \/ (j \in (m + 1)..Len(x) /\ j \in 1..Len(x) /\ j # m)
      BY <1>0, <1>1, <2>7
    <3> QED  BY <1>1, <1>2, <1>4, <3>1
  <2> QED  BY <2>4, <2>5, <2>6, <2>7 DEF NamedAt
<1>5. CASE ~(x[m + 1] < r)
  <2>1. u[m] = r /\ r <= x[m + 1]
    BY <1>0, <1>1, <1>2, <1>5
  <2>2. ASSUME NEW g \in t, Within(d, m, g), r <= g.path[m + 1]
        PROVE  NotLeftmost(t, g.path, m + 1)
    <3>1. Meet(g.path, a.path, m + 1) /\ g.path[m + 1] \in Nat
      BY <1>3, <2>2, WithinFacts
    <3> QED  BY <1>0, <1>3, <2>2, <3>1 DEF NotLeftmost
  <2>3. ASSUME NEW j \in (m + 1)..Len(x)
        PROVE  r <= x[j]
    <3>1. CASE m + 1 < Len(x)
      <4>1. m + 1 \in 1..(Len(x) - 1)
        BY <1>0, <1>1, <3>1
      <4>2. x[m + 1] <= x[j]
        BY <2>1, <2>2, <4>1 DEF Ordered, Named
      <4>3. j \in 1..Len(x)
        BY <1>0, <1>1, <2>3
      <4> QED  BY <1>0, <1>1, <1>2, <2>1, <4>2, <4>3
    <3>2. CASE ~(m + 1 < Len(x))
      <4>1. j = m + 1
        BY <1>0, <1>1, <1>2, <3>2
      <4> QED  BY <2>1, <4>1
    <3> QED  BY <3>1, <3>2
  <2>4. \E g \in t : Within(d, m, g) /\ \A j \in (m + 1)..Len(g.path) : g.path[j] = r
    <3>1. Len(b.path) \in Nat /\ m + 1 \in 1..Len(b.path)
      BY <1>3, WithinFacts, PathFacts DEF Ordered
    <3>2. CASE m + 1 = Len(b.path)
      <4>1. \A j \in (m + 1)..Len(b.path) : j = m + 1
        BY <1>0, <3>1, <3>2
      <4> QED  BY <1>3, <4>1
    <3>3. CASE m + 1 # Len(b.path)
      <4>1. m + 1 \in 1..(Len(b.path) - 1)
        BY <1>0, <3>1, <3>3
      <4>2. NotLeftmost(t, b.path, m + 1)
        BY <1>0, <1>3, <2>2
      <4>3. PICK g \in t : /\ Meet(b.path, g.path, (m + 1) + 1)
                           /\ \A j \in (m + 1)..Len(g.path) : g.path[j] = b.path[m + 1]
        BY <4>1, <4>2 DEF Ordered, Named
      <4>4. Within(d, m, g)
        <5>1. Len(g.path) \in Nat /\ m + 1 <= Len(g.path) /\ \A j \in 1..m : g.path[j] = b.path[j]
          BY <1>0, <3>1, <4>3, PathFacts DEF Ordered, Meet
        <5>2. m + 1 \in 1..Len(d.path) /\ \A j \in 1..m : d.path[j] = b.path[j]
          BY <1>3, SplitFacts, WithinFacts
        <5> QED  BY <1>0, <5>1, <5>2 DEF Within, Meet
      <4> QED  BY <1>3, <4>3, <4>4
    <3> QED  BY <3>2, <3>3
  <2> QED  BY <1>4, <2>1, <2>3, <2>4
<1>6. CASE x[m + 1] < r
  <2>1. u[m] = l
    BY <1>1, <1>6
  <2>2. NotLeftmost(t, x, m)
    BY <1>0, <1>2, <2>1, TurnedLeft
  <2>3. PICK g \in t : /\ \A j \in m..Len(x) : x[m] <= x[j]
                       /\ Meet(x, g.path, m + 1)
                       /\ \A j \in m..Len(g.path) : g.path[j] = x[m]
    BY <1>2, <2>2 DEF Ordered, Named
  <2>4. Len(g.path) \in Nat /\ m + 1 \in m..Len(g.path)
    BY <1>0, <2>3, PathFacts DEF Ordered, Meet
  <2>5. Within(d, m, g)
    <3>1. m + 1 <= Len(g.path) /\ \A j \in 1..m : g.path[j] = x[j]
      BY <1>0, <2>3 DEF Meet
    <3>2. m + 1 \in 1..Len(d.path) /\ \A j \in 1..m : d.path[j] = x[j]
      BY SplitFacts, WithinFacts
    <3> QED  BY <1>0, <3>1, <3>2 DEF Within, Meet
  <2>6. l <= x[m]
    BY <2>3, <2>4, <2>5, SplitFacts
  <2>7. x[m] <= l
    BY <1>0, <2>2, LeastName
  <2>8. x[m] = l
    BY <1>0, <1>1, <1>2, <2>6, <2>7
  <2> QED  BY <1>0, <1>4, <2>1, <2>3, <2>5, <2>8
<1> QED  BY <1>5, <1>6

(* A split below the root keeps the order of the tree. *)
LEMMA TurnedOrdered ==
    ASSUME NEW t, Ordered(t), NEW d, NEW m, NEW l, NEW r, SplitsAt(t, d, m, l, r)
    PROVE  Ordered(Turned(t, d, m, l, r))
<1>1. ASSUME NEW e \in t, NEW i \in 1..(Len(Turn(d, m, l, r, e).path) - 1),
             NotLeftmost(Turned(t, d, m, l, r), Turn(d, m, l, r, e).path, i)
      PROVE  NamedAt(Turned(t, d, m, l, r), Turn(d, m, l, r, e).path, i)
  <2>1. Len(Turn(d, m, l, r, e).path) = Len(e.path) /\ Len(e.path) \in Nat
    BY TurnPaths
  <2>2. i \in 1..(Len(e.path) - 1) /\ i \in 1..Len(e.path)
    BY <2>1
  <2>3. CASE i = m /\ Within(d, m, e)
    BY <1>1, <2>3, TurnedNamedHere
  <2>4. CASE ~(i = m /\ Within(d, m, e))
    <3>1. NotLeftmost(t, e.path, i)
      BY <1>1, <2>2, <2>4, TurnedLeft
    <3> QED  BY <2>2, <2>4, <3>1, TurnedNamedAway
  <2> QED  BY <2>3, <2>4
<1>2. Named(Turned(t, d, m, l, r))
  <2> SUFFICES ASSUME NEW f \in Turned(t, d, m, l, r), NEW i \in 1..(Len(f.path) - 1),
                      NotLeftmost(Turned(t, d, m, l, r), f.path, i)
               PROVE  NamedAt(Turned(t, d, m, l, r), f.path, i)
    BY DEF Named, NamedAt
  <2>1. PICK e \in t : f = Turn(d, m, l, r, e)
    BY DEF Turned
  <2> QED  BY <1>1, <2>1
<1> QED  BY <1>2, TurnedFinite, TurnedLevel, TurnedApart DEF Ordered

(* Split puts nothing in place of another directory: none has a new name. *)
LEMMA SplitIsTurned ==
    ASSUME NEW t, Ordered(t), NEW d, NEW m, NEW l, NEW r, SplitsAt(t, d, m, l, r),
           \A k \in Names(t, Dir(d.path, m + 1)) :
              NewName(Names(t, Dir(d.path, m + 1)), k) = IF k < r THEN l ELSE r
    PROVE  Split(t, Dir(d.path, m + 1)) = Turned(t, d, m, l, r)
<1> DEFINE p == Dir(d.path, m + 1)
           ns == Names(t, p)
           new == {NewName(ns, k) : k \in ns}
           M(q) == [q EXCEPT ![m] = NewName(ns, q[m + 1])]
           other == UNION {In(t, Append(Front(p), n)) : n \in new}
<1>0. /\ Finite(t) /\ m \in Nat /\ m >= 1 /\ l \in Keys /\ r \in Keys /\ l \in Nat /\ r \in Nat /\ l < r
      /\ d \in t /\ m + 1 \in 1..Len(d.path) /\ d.path \in Seq(Keys)
  BY SplitFacts, PathFacts DEF Ordered
<1>1. /\ p \in Seq(Keys) /\ Len(p) = m /\ \A j \in 1..m : p[j] = d.path[j]
      /\ In(t, p) = {e \in t : Within(d, m, e)} /\ ns = Siblings(t, d.path, m + 1)
  BY <1>0, DirIs, DirectoryIs DEF Within
<1>2. \A k \in ns : NewName(ns, k) = IF k < r THEN l ELSE r
  OBVIOUS
<1>3. \A n \in new : n = l \/ n = r
  BY <1>2
<1> HIDE DEF p, ns, new
<1>4. ASSUME NEW n \in new, NEW e \in In(t, Append(Front(p), n))
      PROVE  Within(d, m, e)
  <2>1. Front(p) \in Seq(Keys) /\ Len(Front(p)) = m - 1 /\ \A j \in 1..(m - 1) : Front(p)[j] = p[j]
    BY <1>0, <1>1, FrontIs
  <2> DEFINE q == Append(Front(p), n)
  <2>2. /\ q \in Seq(Keys) /\ Len(q) = m /\ q[m] = n /\ \A j \in 1..(m - 1) : q[j] = p[j]
    <3>1. n \in Keys
      BY <1>0, <1>3
    <3>2. /\ q \in Seq(Keys) /\ Len(q) = Len(Front(p)) + 1 /\ q[Len(Front(p)) + 1] = n
          /\ \A j \in 1..Len(Front(p)) : q[j] = Front(p)[j]
      BY <2>1, <3>1, AppendProperties
    <3> QED  BY <1>0, <2>1, <3>2
  <2> HIDE DEF q
  <2>3. e \in t /\ Len(e.path) > m /\ \A j \in 1..m : e.path[j] = q[j]
    <3>1. In(t, q) = {f \in t : Len(f.path) > Len(q) /\ \A j \in 1..Len(q) : f.path[j] = q[j]}
      BY <1>0, <2>2, InIs
    <3>2. e \in In(t, q)
      BY <1>4 DEF q
    <3> QED  BY <2>2, <3>1, <3>2
  <2>4. e.path[m] = n /\ \A j \in 1..(m - 1) : e.path[j] = d.path[j]
    BY <1>0, <1>1, <2>2, <2>3
  <2>5. Meet(d.path, e.path, m)
    BY <1>0, <2>3, <2>4, PathFacts DEF Meet
  <2>6. ~(e.path[m] < l) /\ ~(r < e.path[m])
    BY <1>0, <1>3, <2>4
  <2> QED  BY <2>3, <2>5, <2>6, SplitSiblings
<1>5. other \subseteq In(t, p)
  <2> SUFFICES ASSUME NEW n \in new, NEW e \in In(t, Append(Front(p), n))
               PROVE  e \in In(t, p)
    OBVIOUS
  <2>1. e \in t
    BY DEF In
  <2> QED  BY <1>1, <1>4, <2>1
<1>6. p # <<>>
  BY <1>0, <1>1
<1>7. Split(t, p) = (t \ In(t, p)) \cup {[e EXCEPT !.path = M(@)] : e \in In(t, p)}
  <2>1. Split(t, p) = (t \ (In(t, p) \cup other)) \cup {[e EXCEPT !.path = M(@)] : e \in In(t, p)}
    BY <1>1, <1>6 DEF Split, ns, new
  <2> HIDE DEF other, M
  <2> QED  BY <1>5, <2>1
<1>8. ASSUME NEW e \in In(t, p)
      PROVE  [e EXCEPT !.path = M(@)] = Turn(d, m, l, r, e)
  <2>1. e \in t /\ Within(d, m, e) /\ e.path[m + 1] \in ns
    BY <1>1, <1>8 DEF Siblings, Within
  <2> QED  BY <1>2, <2>1 DEF Turn
<1>9. ASSUME NEW e \in t, e \notin In(t, p)
      PROVE  e = Turn(d, m, l, r, e)
  BY <1>1, <1>9 DEF Turn
<1> HIDE DEF M
<1>10. In(t, p) \subseteq t
  BY DEF In
<1> QED  BY <1>7, <1>8, <1>9, <1>10 DEF Turned, p

(* A directory is where paths agree up to. *)
LEMMA DirsAgree ==
    ASSUME NEW x \in Seq(Keys), NEW y \in Seq(Keys), NEW i \in 1..Len(x), NEW j \in 1..Len(y)
    PROVE  Dir(x, i) = Dir(y, j) <=> i = j /\ Meet(x, y, i)
<1>0. Len(x) \in Nat /\ Len(y) \in Nat /\ i \in Nat /\ j \in Nat
  BY LenProperties
<1>1. /\ Dir(x, i) \in Seq(Keys) /\ Len(Dir(x, i)) = i - 1 /\ \A h \in 1..(i - 1) : Dir(x, i)[h] = x[h]
      /\ Dir(y, j) \in Seq(Keys) /\ Len(Dir(y, j)) = j - 1 /\ \A h \in 1..(j - 1) : Dir(y, j)[h] = y[h]
  BY DirIs
<1>2. ASSUME Dir(x, i) = Dir(y, j)
      PROVE  i = j /\ Meet(x, y, i)
  <2>1. i = j
    BY <1>0, <1>1, <1>2
  <2>2. \A h \in 1..(i - 1) : x[h] = y[h]
    BY <1>1, <1>2, <2>1
  <2> QED  BY <1>0, <2>1, <2>2 DEF Meet
<1>3. ASSUME i = j, Meet(x, y, i)
      PROVE  Dir(x, i) = Dir(y, j)
  <2>1. \A h \in 1..(i - 1) : Dir(x, i)[h] = Dir(y, j)[h]
    BY <1>1, <1>3 DEF Meet
  <2> QED  BY <1>1, <1>3, <2>1, SeqEqual
<1> QED  BY <1>2, <1>3

(* What is next to what after a split. *)
LEMMA TurnedSiblings ==
    ASSUME NEW t, Ordered(t), NEW d, NEW m, NEW l, NEW r, SplitsAt(t, d, m, l, r),
           NEW e \in t, NEW i \in 1..Len(e.path)
    PROVE  LET ns == Siblings(Turned(t, d, m, l, r), Turn(d, m, l, r, e).path, i)
           IN  /\ i # m \/ ~Meet(d.path, e.path, m) => ns \subseteq Siblings(t, e.path, i)
               /\ i = m /\ Meet(d.path, e.path, m)
                     => ns \subseteq (Siblings(t, d.path, m) \ {d.path[m]}) \cup {l, r}
               /\ i = m + 1 /\ Within(d, m, e)
                     => \/ ns \subseteq Siblings(t, d.path, m + 1) \ {l}
                        \/ ns \subseteq Siblings(t, d.path, m + 1) \ {r}
<1> DEFINE T(f) == Turn(d, m, l, r, f)
           ns == Siblings(Turned(t, d, m, l, r), T(e).path, i)
<1>0. /\ m \in Nat /\ m >= 1 /\ l \in Nat /\ r \in Nat /\ l < r /\ d.path[m] \in Nat
      /\ d \in t /\ m \in 1..Len(d.path) /\ Len(d.path) \in Nat
      /\ \A f \in t : Within(d, m, f) => l <= f.path[m + 1]
  BY SplitFacts, PathFacts DEF Ordered
<1>1. ns = {f.path[i] : f \in {f \in Turned(t, d, m, l, r) : Meet(T(e).path, f.path, i)}}
  BY DEF Siblings
<1>2. ASSUME NEW n \in ns
      PROVE  \E f \in t : Meet(T(e).path, T(f).path, i) /\ n = T(f).path[i]
  BY <1>1, <1>2 DEF Turned
<1>3. ASSUME NEW f \in t, Meet(T(e).path, T(f).path, i)
      PROVE  /\ Meet(e.path, f.path, i) /\ f.path[i] \in Siblings(t, e.path, i)
             /\ m < i => (Within(d, m, e) <=> Within(d, m, f))
             /\ i \in 1..Len(f.path) /\ f.path[i] \in Nat
             /\ i # m \/ ~Within(d, m, f) => T(f).path[i] = f.path[i]
  <2>1. Meet(e.path, f.path, i) /\ (m < i => (Within(d, m, e) <=> Within(d, m, f)))
    BY <1>3, TurnMeets
  <2>2. f.path[i] \in Siblings(t, e.path, i)
    BY <2>1 DEF Siblings
  <2>3. Len(f.path) \in Nat /\ i \in 1..Len(f.path)
    BY <2>1, PathFacts DEF Ordered, Meet
  <2>4. f.path[i] \in Nat
    BY <2>3, PathFacts DEF Ordered
  <2>5. i # m \/ ~Within(d, m, f) => T(f).path[i] = f.path[i]
    BY <2>3, TurnFacts
  <2> QED  BY <2>1, <2>2, <2>3, <2>4, <2>5
<1> HIDE DEF ns
<1>4. ASSUME i # m \/ ~Meet(d.path, e.path, m)
      PROVE  ns \subseteq Siblings(t, e.path, i)
  <2> SUFFICES ASSUME NEW n \in ns
               PROVE  n \in Siblings(t, e.path, i)
    OBVIOUS
  <2>1. PICK f \in t : Meet(T(e).path, T(f).path, i) /\ n = T(f).path[i]
    BY <1>2
  <2>2. i # m \/ ~Within(d, m, f)
    <3> SUFFICES ASSUME i = m, Within(d, m, f)
                 PROVE  FALSE
      OBVIOUS
    <3>1. Meet(f.path, e.path, m)
      BY <1>3, <2>1, MeetsBack, PathFacts DEF Ordered
    <3>2. Meet(d.path, e.path, m)
      BY <1>0, <3>1, WithinFacts
    <3> QED  BY <1>4, <3>2
  <2> QED  BY <1>3, <2>1, <2>2
<1>5. ASSUME i = m, Meet(d.path, e.path, m)
      PROVE  ns \subseteq (Siblings(t, d.path, m) \ {d.path[m]}) \cup {l, r}
  <2> SUFFICES ASSUME NEW n \in ns, n # l, n # r
               PROVE  n \in Siblings(t, d.path, m) /\ n # d.path[m]
    OBVIOUS
  <2>1. PICK f \in t : Meet(T(e).path, T(f).path, m) /\ n = T(f).path[m]
    BY <1>2, <1>5
  <2>2. ~Within(d, m, f)
    BY <2>1, TurnFacts
  <2>3. n = f.path[m] /\ f.path[m] \in Nat /\ Meet(e.path, f.path, m)
    BY <1>3, <1>5, <2>1, <2>2
  <2>4. Meet(d.path, f.path, m)
    BY <1>0, <1>5, <2>3 DEF Meet
  <2>5. f.path[m] # d.path[m]
    BY <1>0, <2>2, <2>3, <2>4, SplitSiblings
  <2> QED  BY <2>3, <2>4, <2>5 DEF Siblings
<1>6. ASSUME i = m + 1, Within(d, m, e)
      PROVE  \/ ns \subseteq Siblings(t, d.path, m + 1) \ {l}
             \/ ns \subseteq Siblings(t, d.path, m + 1) \ {r}
  <2>1. ASSUME NEW n \in ns
        PROVE  /\ n \in Siblings(t, d.path, m + 1) /\ n \in Nat
               /\ T(e).path[m] = IF n < r THEN l ELSE r
    <3>1. PICK f \in t : Meet(T(e).path, T(f).path, i) /\ n = T(f).path[i]
      BY <1>2
    <3>2. Within(d, m, f) /\ n = f.path[m + 1] /\ n \in Nat
      BY <1>0, <1>3, <1>6, <3>1
    <3>3. T(e).path[m] = T(f).path[m]
      <4>1. m \in 1..(i - 1)
        BY <1>0, <1>6
      <4> QED  BY <3>1, <4>1 DEF Meet
    <3>4. T(f).path[m] = IF f.path[m + 1] < r THEN l ELSE r
      BY <3>2, TurnFacts
    <3> QED  BY <3>2, <3>3, <3>4 DEF Siblings, Within
  <2>2. CASE T(e).path[m] = l
    BY <1>0, <2>1, <2>2
  <2>3. CASE T(e).path[m] # l
    BY <1>0, <2>1, <2>3
  <2> QED  BY <2>2, <2>3
<1> QED  BY <1>4, <1>5, <1>6 DEF ns

(* Sets of names, with one less, or two more. *)
LEMMA Sizes ==
    ASSUME NEW S, IsFiniteSet(S)
    PROVE  /\ Cardinality(S) \in Nat
           /\ \A U : U \subseteq S => IsFiniteSet(U) /\ Cardinality(U) \in Nat /\ Cardinality(U) <= Cardinality(S)
           /\ \A U, c : U \subseteq S \ {c} /\ c \in S => Cardinality(U) <= Cardinality(S) - 1
           /\ \A U, a, b : U \subseteq S \cup {a, b} => Cardinality(U) <= Cardinality(S) + 2
<1>1. Cardinality(S) \in Nat
  BY FS_CardinalityType
<1>2. ASSUME NEW V, IsFiniteSet(V), NEW U, U \subseteq V
      PROVE  IsFiniteSet(U) /\ Cardinality(U) \in Nat /\ Cardinality(U) <= Cardinality(V)
  BY <1>2, FS_Subset, FS_CardinalityType
<1>3. ASSUME NEW U, NEW c \in S, U \subseteq S \ {c}
      PROVE  Cardinality(U) <= Cardinality(S) - 1
  <2>1. IsFiniteSet(S \ {c}) /\ Cardinality(S \ {c}) = Cardinality(S) - 1
    BY FS_RemoveElement
  <2> QED  BY <1>2, <1>3, <2>1
<1>4. ASSUME NEW U, NEW a, NEW b, U \subseteq S \cup {a, b}
      PROVE  Cardinality(U) <= Cardinality(S) + 2
  <2> DEFINE V == S \cup {a}
             W == V \cup {b}
  <2>1. IsFiniteSet(V) /\ Cardinality(V) \in Nat /\ Cardinality(V) <= Cardinality(S) + 1
    BY <1>1, FS_AddElement, FS_CardinalityType
  <2>2. U \subseteq W
    BY <1>4
  <2> HIDE DEF V
  <2>3. IsFiniteSet(W) /\ Cardinality(W) <= Cardinality(V) + 1 /\ Cardinality(W) \in Nat
    <3>1. IsFiniteSet(W) /\ Cardinality(W) = IF b \in V THEN Cardinality(V) ELSE Cardinality(V) + 1
      BY <2>1, FS_AddElement
    <3> HIDE DEF W
    <3> QED  BY <2>1, <3>1
  <2> HIDE DEF W
  <2>4. Cardinality(U) \in Nat /\ Cardinality(U) <= Cardinality(W)
    BY <1>2, <2>2, <2>3
  <2> QED  BY <1>1, <2>1, <2>3, <2>4
<1> QED  BY <1>1, <1>2, <1>3, <1>4

(* After a split only the parent can have one name too many. *)
LEMMA TurnedFits ==
    ASSUME NEW t, Ordered(t), NEW d, NEW m, NEW l, NEW r, SplitsAt(t, d, m, l, r),
           Fits(t, {Dir(d.path, m + 1)})
    PROVE  Fits(Turned(t, d, m, l, r), {Dir(d.path, m)})
<1> DEFINE T(e) == Turn(d, m, l, r, e)
           S == Turned(t, d, m, l, r)
<1>0. /\ m \in Nat /\ m >= 1 /\ d \in t /\ m \in 1..Len(d.path) /\ m + 1 \in 1..Len(d.path)
      /\ Len(d.path) \in Nat /\ d.path \in Seq(Keys) /\ Finite(t) /\ MaxKeys \in Nat
      /\ l \in Siblings(t, d.path, m + 1) /\ r \in Siblings(t, d.path, m + 1)
  BY SplitFacts, PathFacts, BTreeAssumption DEF Ordered, SplitsAt
<1>1. SUFFICES ASSUME NEW e \in t, NEW i \in 1..Len(T(e).path)
               PROVE  Cardinality(Siblings(S, T(e).path, i))
                        <= IF Dir(T(e).path, i) \in {Dir(d.path, m)} THEN MaxKeys + 1 ELSE MaxKeys
  BY DEF Fits, Turned
<1>2. /\ T(e).path \in Seq(Keys) /\ Len(T(e).path) = Len(e.path) /\ i \in 1..Len(e.path)
      /\ e.path \in Seq(Keys) /\ Len(e.path) \in Nat
  BY <1>0, TurnFacts, PathFacts DEF Entries
<1> DEFINE ns == Siblings(S, T(e).path, i)
<1>3. /\ i # m \/ ~Meet(d.path, e.path, m) => ns \subseteq Siblings(t, e.path, i)
      /\ i = m /\ Meet(d.path, e.path, m)
            => ns \subseteq (Siblings(t, d.path, m) \ {d.path[m]}) \cup {l, r}
      /\ i = m + 1 /\ Within(d, m, e)
            => \/ ns \subseteq Siblings(t, d.path, m + 1) \ {l}
               \/ ns \subseteq Siblings(t, d.path, m + 1) \ {r}
  <2>1. i \in 1..Len(e.path)
    BY <1>2
  <2> QED  BY ONLY Ordered(t), SplitsAt(t, d, m, l, r), e \in t, <2>1, TurnedSiblings, ZenonT(30)
<1>4. Dir(e.path, i) = Dir(d.path, m + 1) => i = m + 1 /\ Within(d, m, e)
  <2>1. Dir(e.path, i) = Dir(d.path, m + 1) <=> i = m + 1 /\ Meet(e.path, d.path, i)
    BY <1>0, <1>2, DirsAgree
  <2> QED  BY <1>2, <2>1, MeetsBack DEF Within
<1>5. Cardinality(ns) \in Nat
  <2>1. IsFiniteSet(ns)
    BY <1>2, TurnedFinite, SiblingsFacts
  <2> QED  BY <2>1, FS_CardinalityType
<1> HIDE DEF ns, T, S
<1>6. CASE (i # m \/ ~Meet(d.path, e.path, m)) /\ ~(i = m + 1 /\ Within(d, m, e))
  <2>1. Cardinality(Siblings(t, e.path, i)) <= MaxKeys
    BY <1>2, <1>4, <1>6 DEF Fits
  <2>2. IsFiniteSet(Siblings(t, e.path, i))
    BY <1>0, <1>2, OwnDirectory
  <2>3. Cardinality(ns) <= Cardinality(Siblings(t, e.path, i)) /\ Cardinality(Siblings(t, e.path, i)) \in Nat
    BY <1>3, <1>6, <2>2, Sizes
  <2> QED  BY <1>0, <1>5, <2>1, <2>3 DEF ns
<1>7. CASE i = m /\ Meet(d.path, e.path, m)
  <2> DEFINE P == Siblings(t, d.path, m)
  <2>1. IsFiniteSet(P) /\ d.path[m] \in P
    BY <1>0, OwnDirectory
  <2>2. Cardinality(P) <= MaxKeys
    <3>1. Dir(d.path, m) # Dir(d.path, m + 1)
      BY <1>0, DirsAgree
    <3> QED  BY <1>0, <3>1 DEF Fits
  <2> HIDE DEF P
  <2>3. /\ IsFiniteSet(P \ {d.path[m]}) /\ Cardinality(P \ {d.path[m]}) = Cardinality(P) - 1
        /\ Cardinality(P) \in Nat /\ Cardinality(P \ {d.path[m]}) \in Nat
    BY <2>1, FS_RemoveElement, FS_CardinalityType
  <2>4. Cardinality(ns) <= Cardinality(P \ {d.path[m]}) + 2
    BY <1>3, <1>7, <2>3, Sizes DEF P
  <2>5. Dir(T(e).path, i) = Dir(d.path, m)
    <3>1. Meet(T(e).path, d.path, m)
      <4>1. \A j \in 1..(m - 1) : T(e).path[j] = e.path[j]
        <5>1. \A j \in 1..(m - 1) : j \in 1..Len(e.path) /\ j # m
          BY <1>0, <1>2, <1>7
        <5> QED  BY <5>1, TurnFacts DEF T
      <4> QED  BY <1>0, <1>2, <1>7, <4>1 DEF Meet
    <3> QED  BY <1>0, <1>2, <1>7, <3>1, DirsAgree
  <2> QED  BY <1>0, <1>5, <2>2, <2>3, <2>4, <2>5 DEF ns
<1>8. CASE i = m + 1 /\ Within(d, m, e)
  <2> DEFINE P == Siblings(t, d.path, m + 1)
  <2>1. IsFiniteSet(P) /\ l \in P /\ r \in P
    BY <1>0, OwnDirectory
  <2>2. Cardinality(P) <= MaxKeys + 1
    BY <1>0 DEF Fits
  <2>3. ns \subseteq P \ {l} \/ ns \subseteq P \ {r}
    BY <1>3, <1>8
  <2> HIDE DEF P
  <2>4. Cardinality(ns) <= Cardinality(P) - 1 /\ Cardinality(P) \in Nat
    BY <2>1, <2>3, Sizes
  <2> QED  BY <1>0, <1>5, <2>2, <2>4 DEF ns
<1> QED  BY <1>6, <1>7, <1>8 DEF ns, S, T

-----------------------------------------------------------------------------
(* The root splits as the only child of a new root would. *)

(* An entry below a new root with the one child c. *)
Wrap(c, e) == [e EXCEPT !.path = <<c>> \o @]

(* The tree below the new root. *)
Wrapped(t, c) == {Wrap(c, e) : e \in t}

(* Its paths are longer by c. *)
LEMMA WrapFacts ==
    ASSUME NEW t, Finite(t), NEW c \in Keys, NEW e \in t
    PROVE  /\ Wrap(c, e) \in Entries /\ Wrap(c, e).value = e.value /\ Key(Wrap(c, e)) = Key(e)
           /\ Len(Wrap(c, e).path) = Len(e.path) + 1 /\ Len(e.path) \in Nat /\ Len(e.path) >= 1
           /\ Wrap(c, e).path[1] = c
           /\ \A j \in 1..Len(e.path) : Wrap(c, e).path[j + 1] = e.path[j]
<1>1. /\ e \in Entries /\ e.path \in Seq(Keys) /\ Len(e.path) \in Nat /\ Len(e.path) >= 1
      /\ Key(e) = e.path[Len(e.path)]
  BY PathFacts DEF Finite
<1> DEFINE q == <<c>> \o e.path
<1>2. <<c>> \in Seq(Keys) /\ Len(<<c>>) = 1 /\ <<c>>[1] = c
  OBVIOUS
<1>3. /\ q \in Seq(Keys) /\ Len(q) = Len(e.path) + 1 /\ q[1] = c
      /\ \A j \in 1..Len(e.path) : q[j + 1] = e.path[j]
  <2>1. q \in Seq(Keys) /\ Len(q) = 1 + Len(e.path)
    BY <1>1, <1>2, ConcatProperties
  <2>2. \A j \in 1..(1 + Len(e.path)) : q[j] = IF j <= 1 THEN <<c>>[j] ELSE e.path[j - 1]
    BY <1>1, <1>2, ConcatProperties
  <2> HIDE DEF q
  <2>3. 1 \in 1..(1 + Len(e.path)) /\ q[1] = c
    BY <1>1, <1>2, <2>2
  <2>4. ASSUME NEW j \in 1..Len(e.path)
        PROVE  q[j + 1] = e.path[j]
    <3>1. j + 1 \in 1..(1 + Len(e.path)) /\ ~(j + 1 <= 1) /\ (j + 1) - 1 = j
      BY <1>1
    <3> QED  BY <2>2, <3>1
  <2> QED  BY <1>1, <2>1, <2>3, <2>4
<1>4. Wrap(c, e) = [e EXCEPT !.path = q]
  BY DEF Wrap
<1> HIDE DEF q
<1>5. Wrap(c, e) \in Entries /\ Wrap(c, e).path = q /\ Wrap(c, e).value = e.value
  BY <1>1, <1>3, <1>4 DEF Entries
<1>6. Key(Wrap(c, e)) = q[Len(q)]
  BY <1>5 DEF Key, Last
<1>7. Len(e.path) \in 1..Len(e.path)
  BY <1>1
<1> QED  BY <1>1, <1>3, <1>5, <1>6, <1>7

(* They meet one name further on. *)
LEMMA WrapMeets ==
    ASSUME NEW t, Finite(t), NEW c \in Keys, NEW e \in t, NEW f \in t, NEW i \in Nat
    PROVE  Meet(Wrap(c, e).path, Wrap(c, f).path, i + 1) <=> i = 0 \/ Meet(e.path, f.path, i)
<1> DEFINE x == e.path
           y == f.path
           u == Wrap(c, e).path
           v == Wrap(c, f).path
<1>1. /\ Len(u) = Len(x) + 1 /\ Len(x) \in Nat /\ u[1] = c
      /\ \A j \in 1..Len(x) : u[j + 1] = x[j]
  <2>1. Len(u) = Len(x) + 1 /\ Len(x) \in Nat /\ u[1] = c
    BY ONLY Finite(t), c \in Keys, e \in t, WrapFacts
  <2>2. \A j \in 1..Len(x) : u[j + 1] = x[j]
    BY ONLY Finite(t), c \in Keys, e \in t, WrapFacts
  <2> QED  BY <2>1, <2>2
<1>2. /\ Len(v) = Len(y) + 1 /\ Len(y) \in Nat /\ v[1] = c
      /\ \A j \in 1..Len(y) : v[j + 1] = y[j]
  <2>1. Len(v) = Len(y) + 1 /\ Len(y) \in Nat /\ v[1] = c
    BY ONLY Finite(t), c \in Keys, f \in t, WrapFacts
  <2>2. \A j \in 1..Len(y) : v[j + 1] = y[j]
    BY ONLY Finite(t), c \in Keys, f \in t, WrapFacts
  <2> QED  BY <2>1, <2>2
<1> HIDE DEF u, v, x, y
<1>3. i + 1 \in 1..Len(u) /\ i + 1 <= Len(v) <=> i = 0 \/ (i \in 1..Len(x) /\ i <= Len(y))
  BY <1>1, <1>2
<1>4. ASSUME i \in 1..Len(x), i <= Len(y)
      PROVE  (\A j \in 1..((i + 1) - 1) : u[j] = v[j]) <=> \A j \in 1..(i - 1) : x[j] = y[j]
  <2>1. ASSUME \A j \in 1..((i + 1) - 1) : u[j] = v[j], NEW j \in 1..(i - 1)
        PROVE  x[j] = y[j]
    <3>1. j + 1 \in 1..((i + 1) - 1) /\ j \in 1..Len(x) /\ j \in 1..Len(y)
      BY <1>1, <1>2, <1>4
    <3> QED  BY <1>1, <1>2, <2>1, <3>1
  <2>2. ASSUME \A j \in 1..(i - 1) : x[j] = y[j], NEW j \in 1..((i + 1) - 1)
        PROVE  u[j] = v[j]
    <3>1. CASE j = 1
      BY <1>1, <1>2, <3>1
    <3>2. CASE j # 1
      <4>1. j - 1 \in 1..(i - 1) /\ j - 1 \in 1..Len(x) /\ j - 1 \in 1..Len(y) /\ (j - 1) + 1 = j
        BY <1>1, <1>2, <1>4, <3>2
      <4> QED  BY <1>1, <1>2, <2>2, <4>1
    <3> QED  BY <3>1, <3>2
  <2> QED  BY <2>1, <2>2
<1>5. CASE i = 0
  BY <1>1, <1>2, <1>5 DEF Meet, u, v
<1>6. CASE i # 0
  BY <1>3, <1>4, <1>6 DEF Meet, u, v, x, y
<1> QED  BY <1>5, <1>6

(* Nothing in it is on another way than it was. *)
LEMMA WrappedLeft ==
    ASSUME NEW t, Finite(t), NEW c \in Keys, NEW e \in t, NEW i \in 1..(Len(e.path) + 1),
           NotLeftmost(Wrapped(t, c), Wrap(c, e).path, i)
    PROVE  i # 1 /\ NotLeftmost(t, e.path, i - 1)
<1>1. PICK h \in 1..i, f \in t : /\ Meet(Wrap(c, e).path, Wrap(c, f).path, h)
                                 /\ Wrap(c, f).path[h] < Wrap(c, e).path[h]
  BY DEF NotLeftmost, Wrapped
<1>2. Wrap(c, e).path[1] = c /\ Wrap(c, f).path[1] = c /\ c \in Nat /\ Len(e.path) \in Nat
  BY WrapFacts, KeysAreNumbers
<1>3. h # 1 /\ h - 1 \in Nat /\ (h - 1) + 1 = h /\ h - 1 # 0
  BY <1>1, <1>2
<1>4. Meet(e.path, f.path, h - 1)
  BY <1>1, <1>3, WrapMeets
<1>5. h - 1 \in 1..Len(e.path) /\ h - 1 \in 1..Len(f.path)
  BY <1>3, <1>4, PathFacts DEF Meet
<1>6. Wrap(c, e).path[(h - 1) + 1] = e.path[h - 1] /\ Wrap(c, f).path[(h - 1) + 1] = f.path[h - 1]
  BY <1>5, WrapFacts
<1>7. f.path[h - 1] < e.path[h - 1]
  BY <1>1, <1>3, <1>6
<1>8. i # 1 /\ h - 1 \in 1..(i - 1)
  BY <1>2, <1>3
<1> QED  BY <1>4, <1>7, <1>8 DEF NotLeftmost

(* A new root keeps the order of the tree, *)
LEMMA WrappedOrdered ==
    ASSUME NEW t, Ordered(t), NEW c \in Keys
    PROVE  Ordered(Wrapped(t, c))
<1> DEFINE S == Wrapped(t, c)
           W(e) == Wrap(c, e)
<1>0. Finite(t) /\ c \in Nat
  BY KeysAreNumbers DEF Ordered
<1>1. Finite(S)
  <2> DEFINE F == [e \in t |-> W(e)]
  <2>1. F \in Surjection(t, S)
    BY DEF Surjection, Wrapped
  <2>2. IsFiniteSet(S)
    <3> HIDE DEF F, S
    <3> QED  BY <1>0, <2>1, FS_Surjection DEF Finite
  <2>3. PICK n \in Nat : \A e \in t : Len(e.path) \in 1..n
    BY <1>0 DEF Finite
  <2>4. ASSUME NEW e \in t
        PROVE  W(e) \in Entries /\ Len(W(e).path) \in 1..(n + 1)
    <3>1. W(e) \in Entries /\ Len(W(e).path) = Len(e.path) + 1
      BY <1>0, WrapFacts
    <3> QED  BY <2>3, <3>1
  <2>5. S \subseteq Entries /\ \A f \in S : Len(f.path) \in 1..(n + 1)
    BY <2>4 DEF Wrapped
  <2>6. n + 1 \in Nat
    BY <2>3
  <2> QED  BY <2>2, <2>5, <2>6 DEF Finite
<1>2. Apart(S)
  <2> SUFFICES ASSUME NEW e \in t, NEW f \in t, NEW i \in 1..Len(W(e).path),
                      Meet(W(e).path, W(f).path, i), W(e).path[i] < W(f).path[i],
                      NEW j \in i..Len(W(e).path)
               PROVE  W(e).path[j] < W(f).path[i]
    BY DEF Apart, Wrapped
  <2>1. /\ Len(W(e).path) = Len(e.path) + 1 /\ Len(e.path) \in Nat /\ Len(f.path) \in Nat
        /\ W(e).path[1] = c /\ W(f).path[1] = c
    BY <1>0, WrapFacts
  <2>2. i # 1 /\ i - 1 \in Nat /\ i - 1 # 0 /\ (i - 1) + 1 = i
    <3>1. i \in Nat /\ i >= 1
      BY <2>1
    <3>2. i # 1
      <4> SUFFICES ASSUME i = 1
                   PROVE  FALSE
        OBVIOUS
      <4>1. W(e).path[1] < W(f).path[1]
        OBVIOUS
      <4> HIDE DEF W
      <4> QED  BY <1>0, <2>1, <4>1
    <3> QED  BY <3>1, <3>2
  <2>3. Meet(e.path, f.path, i - 1)
    BY <1>0, <2>2, WrapMeets
  <2>4. /\ i - 1 \in 1..Len(e.path) /\ i - 1 \in 1..Len(f.path)
        /\ j - 1 \in (i - 1)..Len(e.path) /\ j - 1 \in 1..Len(e.path) /\ (j - 1) + 1 = j
    BY <2>1, <2>2, <2>3 DEF Meet
  <2>5. /\ W(e).path[(i - 1) + 1] = e.path[i - 1] /\ W(f).path[(i - 1) + 1] = f.path[i - 1]
        /\ W(e).path[(j - 1) + 1] = e.path[j - 1]
    BY <1>0, <2>4, WrapFacts
  <2>6. e.path[i - 1] < f.path[i - 1]
    BY <2>2, <2>5
  <2>7. e.path[j - 1] < f.path[i - 1]
    BY <2>3, <2>4, <2>6 DEF Ordered, Apart
  <2> QED  BY <2>2, <2>4, <2>5, <2>7
<1>3. Level(S)
  <2> SUFFICES ASSUME NEW e \in t, NEW f \in t, Meet(W(e).path, W(f).path, Len(W(e).path))
               PROVE  Len(W(f).path) = Len(W(e).path)
    BY DEF Level, Wrapped
  <2>1. /\ Len(W(e).path) = Len(e.path) + 1 /\ Len(W(f).path) = Len(f.path) + 1
        /\ Len(e.path) \in Nat /\ Len(e.path) # 0
    BY <1>0, WrapFacts
  <2>2. Meet(e.path, f.path, Len(e.path))
    BY <1>0, <2>1, WrapMeets
  <2> QED  BY <2>1, <2>2 DEF Ordered, Level
<1>4. Named(S)
  <2> SUFFICES ASSUME NEW e \in t, NEW i \in 1..(Len(W(e).path) - 1), NotLeftmost(S, W(e).path, i)
               PROVE  NamedAt(S, W(e).path, i)
    <3> SUFFICES ASSUME NEW x \in S, NEW i \in 1..(Len(x.path) - 1), NotLeftmost(S, x.path, i)
                 PROVE  NamedAt(S, x.path, i)
      BY DEF Named, NamedAt
    <3>1. PICK e \in t : x = W(e)
      BY DEF Wrapped
    <3> QED  BY <3>1
  <2>1. Len(W(e).path) = Len(e.path) + 1 /\ Len(e.path) \in Nat
    BY <1>0, WrapFacts
  <2>2. i \in 1..(Len(e.path) + 1) /\ i \in Nat
    BY <2>1
  <2>3. i # 1 /\ NotLeftmost(t, e.path, i - 1)
    BY <1>0, <2>2, WrappedLeft
  <2>4. /\ i - 1 \in 1..(Len(e.path) - 1) /\ i - 1 \in 1..Len(e.path) /\ (i - 1) + 1 = i
        /\ i - 1 \in Nat /\ i # 0
    BY <2>1, <2>3
  <2>5. PICK g \in t : /\ \A j \in (i - 1)..Len(e.path) : e.path[i - 1] <= e.path[j]
                       /\ Meet(e.path, g.path, (i - 1) + 1)
                       /\ \A j \in (i - 1)..Len(g.path) : g.path[j] = e.path[i - 1]
    BY <2>3, <2>4 DEF Ordered, Named
  <2>6. Meet(W(e).path, W(g).path, i + 1)
    BY <1>0, <2>2, <2>4, <2>5, WrapMeets
  <2>7. W(e).path[i] = e.path[i - 1]
    <3>1. W(e).path[(i - 1) + 1] = e.path[i - 1]
      BY <1>0, <2>4, WrapFacts
    <3> QED  BY <2>4, <3>1
  <2>8. Len(W(g).path) = Len(g.path) + 1 /\ Len(g.path) \in Nat
    BY <1>0, WrapFacts
  <2>9. ASSUME NEW j \in i..Len(W(e).path)
        PROVE  W(e).path[i] <= W(e).path[j]
    <3>1. j - 1 \in (i - 1)..Len(e.path) /\ j - 1 \in 1..Len(e.path) /\ (j - 1) + 1 = j
      BY <2>1, <2>3
    <3>2. W(e).path[(j - 1) + 1] = e.path[j - 1]
      BY <1>0, <3>1, WrapFacts
    <3> QED  BY <2>5, <2>7, <3>1, <3>2
  <2>10. ASSUME NEW j \in i..Len(W(g).path)
         PROVE  W(g).path[j] = W(e).path[i]
    <3>1. j - 1 \in (i - 1)..Len(g.path) /\ j - 1 \in 1..Len(g.path) /\ (j - 1) + 1 = j
      BY <2>3, <2>8
    <3>2. W(g).path[(j - 1) + 1] = g.path[j - 1]
      BY <1>0, <3>1, WrapFacts
    <3> QED  BY <2>5, <2>7, <3>1, <3>2
  <2>11. W(g) \in S
    BY DEF Wrapped
  <2> QED  BY <2>6, <2>9, <2>10, <2>11 DEF NamedAt
<1>5. Unique(S)
  <2> SUFFICES ASSUME NEW e \in t, NEW f \in t, W(e).path = W(f).path
               PROVE  e = f
    BY DEF Unique, Wrapped
  <2>1. Key(W(e)) = Key(e) /\ Key(W(f)) = Key(f)
    BY <1>0, WrapFacts
  <2>2. Key(W(e)) = Key(W(f))
    BY DEF Key
  <2> QED  BY <2>1, <2>2, KeysDiffer
<1> QED  BY <1>1, <1>2, <1>3, <1>4, <1>5 DEF Ordered

(* and has one child, whose directories keep their names. *)
LEMMA WrappedSiblings ==
    ASSUME NEW t, Finite(t), NEW c \in Keys, NEW e \in t
    PROVE  /\ Siblings(Wrapped(t, c), Wrap(c, e).path, 1) = {c}
           /\ \A i \in 1..Len(e.path) :
                 Siblings(Wrapped(t, c), Wrap(c, e).path, i + 1) = Siblings(t, e.path, i)
<1> DEFINE W(f) == Wrap(c, f)
<1>1. Siblings(Wrapped(t, c), W(e).path, 1) = {c}
  <2>1. \A f \in t : W(f).path[1] = c
    BY WrapFacts
  <2>2. Meet(W(e).path, W(e).path, 0 + 1)
    BY WrapMeets
  <2>3. W(e) \in Wrapped(t, c) /\ \A g \in Wrapped(t, c) : g.path[1] = c
    BY <2>1 DEF Wrapped
  <2> QED  BY <2>2, <2>3 DEF Siblings
<1>2. ASSUME NEW i \in 1..Len(e.path)
      PROVE  Siblings(Wrapped(t, c), W(e).path, i + 1) = Siblings(t, e.path, i)
  <2>1. i \in Nat /\ i # 0
    OBVIOUS
  <2>2. ASSUME NEW f \in t
        PROVE  /\ Meet(W(e).path, W(f).path, i + 1) <=> Meet(e.path, f.path, i)
               /\ Meet(e.path, f.path, i) => W(f).path[i + 1] = f.path[i]
    <3>1. Meet(e.path, f.path, i) => i \in 1..Len(f.path)
      BY <2>1 DEF Meet
    <3> QED  BY <2>1, <3>1, WrapMeets, WrapFacts
  <2>3. ASSUME NEW n
        PROVE  n \in Siblings(Wrapped(t, c), W(e).path, i + 1) <=> n \in Siblings(t, e.path, i)
    <3>1. n \in Siblings(Wrapped(t, c), W(e).path, i + 1)
            <=> \E f \in t : Meet(W(e).path, W(f).path, i + 1) /\ n = W(f).path[i + 1]
      BY DEF Siblings, Wrapped
    <3>2. n \in Siblings(t, e.path, i) <=> \E f \in t : Meet(e.path, f.path, i) /\ n = f.path[i]
      BY DEF Siblings
    <3> QED  BY <2>2, <3>1, <3>2
  <2> QED  BY <2>3
<1> QED  BY <1>1, <1>2

(* p is a directory of the tree. *)
IsDir(t, p) == \E e \in t : \E i \in 1..Len(e.path) : p = Dir(e.path, i)

(* What a tree has, wherever it is. *)
Pairs(t) == {[key |-> Key(e), value |-> e.value] : e \in t}

(* A map without the key k, *)
Without(m, k) == {x \in m : x.key # k}

(* and with the value v put under it. *)
With(m, k, v) == Without(m, k) \cup {[key |-> k, value |-> v]}

(* What a lookup finds at entry e. *)
Pair(e) == [key |-> Key(e), value |-> e.value]

(* What lookups find is what the tree has. *)
LEMMA MapIs ==
    ASSUME NEW t, Ordered(t), Agreed(t)
    PROVE  Map(t) = Pairs(t)
<1>1. {e \in t : LeadsTo(t, Key(e), Front(e.path))} = t
  BY LookupFinds
<1> QED  BY <1>1 DEF Map, Pairs

(* Splits move entries and lose none. *)
LEMMA TurnedPairs ==
    ASSUME NEW t, Ordered(t), NEW d, NEW m, NEW l, NEW r, SplitsAt(t, d, m, l, r)
    PROVE  Pairs(Turned(t, d, m, l, r)) = Pairs(t)
<1> DEFINE T(e) == Turn(d, m, l, r, e)
           P(e) == [key |-> Key(e), value |-> e.value]
<1>1. \A e \in t : P(T(e)) = P(e)
  BY TurnFacts
<1>2. Pairs(Turned(t, d, m, l, r)) = {P(T(e)) : e \in t}
  BY DEF Pairs, Turned
<1> HIDE DEF P, T
<1>3. {P(T(e)) : e \in t} = {P(e) : e \in t}
  BY <1>1
<1> QED  BY <1>2, <1>3 DEF Pairs, P

(* They bring no name that was not there, *)
LEMMA TurnedNames ==
    ASSUME NEW t, Ordered(t), NEW d, NEW m, NEW l, NEW r, SplitsAt(t, d, m, l, r)
    PROVE  NamesIn(Turned(t, d, m, l, r)) \subseteq NamesIn(t)
<1>0. Finite(t) /\ Finite(Turned(t, d, m, l, r))
  BY TurnedFinite DEF Ordered
<1>1. l \in NamesIn(t) /\ r \in NamesIn(t)
  <2>1. PICK a, b \in t : /\ Within(d, m, a) /\ a.path[m + 1] = l
                          /\ Within(d, m, b) /\ b.path[m + 1] = r
    BY SplitFacts
  <2>2. m + 1 \in 1..Len(a.path) /\ m + 1 \in 1..Len(b.path)
    BY <1>0, <2>1, SplitFacts, PathFacts DEF Within, Meet
  <2> QED  BY <1>0, <2>1, <2>2, NamesAre
<1>2. ASSUME NEW e \in t, NEW u, u = Turn(d, m, l, r, e).path, NEW i \in 1..Len(u)
      PROVE  u[i] \in NamesIn(t)
  <2>1. /\ i \in 1..Len(e.path) /\ (i # m => u[i] = e.path[i])
        /\ ~Within(d, m, e) => u = e.path
        /\ Within(d, m, e) => u[m] = l \/ u[m] = r
    BY <1>2, TurnPaths
  <2>2. e.path[i] \in NamesIn(t)
    BY <1>0, <2>1, NamesAre
  <2> QED  BY <1>1, <2>1, <2>2
<1> SUFFICES ASSUME NEW n \in NamesIn(Turned(t, d, m, l, r))
             PROVE  n \in NamesIn(t)
  OBVIOUS
<1>3. PICK f \in Turned(t, d, m, l, r) : \E i \in 1..Len(f.path) : n = f.path[i]
  BY <1>0, NamesAre
<1>4. PICK e \in t : f = Turn(d, m, l, r, e)
  BY DEF Turned
<1> QED  BY <1>2, <1>3, <1>4

(* but that of a new root's child. *)
LEMMA WrappedNames ==
    ASSUME NEW t, Ordered(t), NEW c \in Keys
    PROVE  NamesIn(Wrapped(t, c)) \subseteq NamesIn(t) \cup {c}
<1>0. Finite(t) /\ Finite(Wrapped(t, c))
  BY WrappedOrdered DEF Ordered
<1> SUFFICES ASSUME NEW n \in NamesIn(Wrapped(t, c)), n # c
             PROVE  n \in NamesIn(t)
  OBVIOUS
<1>1. PICK f \in Wrapped(t, c) : \E i \in 1..Len(f.path) : n = f.path[i]
  BY <1>0, NamesAre
<1>2. PICK e \in t : f = Wrap(c, e)
  BY DEF Wrapped
<1>3. PICK i \in 1..Len(f.path) : n = f.path[i]
  BY <1>1
<1>4. /\ Len(f.path) = Len(e.path) + 1 /\ Len(e.path) \in Nat /\ f.path[1] = c
      /\ \A j \in 1..Len(e.path) : f.path[j + 1] = e.path[j]
  BY <1>0, <1>2, WrapFacts
<1>5. i - 1 \in 1..Len(e.path) /\ (i - 1) + 1 = i
  BY <1>3, <1>4
<1>6. n = e.path[i - 1]
  BY <1>3, <1>4, <1>5
<1> QED  BY <1>0, <1>5, <1>6, NamesAre

(* A new root loses no entry. *)
LEMMA WrappedPairs ==
    ASSUME NEW t, Finite(t), NEW c \in Keys
    PROVE  Pairs(Wrapped(t, c)) = Pairs(t)
<1> DEFINE W(e) == Wrap(c, e)
           P(e) == [key |-> Key(e), value |-> e.value]
<1>1. \A e \in t : P(W(e)) = P(e)
  BY WrapFacts
<1>2. Pairs(Wrapped(t, c)) = {P(W(e)) : e \in t}
  BY DEF Pairs, Wrapped
<1> HIDE DEF P, W
<1>3. {P(W(e)) : e \in t} = {P(e) : e \in t}
  BY <1>1
<1> QED  BY <1>2, <1>3 DEF Pairs, P

(* A directory of the tree is on the way to some entry. *)
LEMMA DirIsDir ==
    ASSUME NEW t, Finite(t), NEW p, IsDir(t, p)
    PROVE  /\ p \in Seq(Keys) /\ Len(p) \in Nat
           /\ \E e \in t : Len(p) + 1 \in 1..Len(e.path) /\ p = Dir(e.path, Len(p) + 1)
<1>0. PICK e \in t : \E i \in 1..Len(e.path) : p = Dir(e.path, i)
  BY DEF IsDir
<1>1. PICK i \in 1..Len(e.path) : p = Dir(e.path, i)
  BY <1>0
<1>2. e.path \in Seq(Keys) /\ Len(e.path) \in Nat
  BY PathFacts
<1>3. p \in Seq(Keys) /\ Len(p) = i - 1
  BY <1>1, <1>2, DirIs
<1>4. Len(p) + 1 = i
  BY <1>3
<1> QED  BY <1>1, <1>2, <1>3, <1>4

(* What a split of directory p has to keep. *)
SplitKept(t, p) ==
    /\ Ordered(Split(t, p)) /\ Pairs(Split(t, p)) = Pairs(t)
    /\ NamesIn(Split(t, p)) \subseteq NamesIn(t)
    /\ p = <<>> => Fits(Split(t, p), {})
    /\ p # <<>> => Fits(Split(t, p), {Front(p)}) /\ IsDir(Split(t, p), Front(p))

(* splitLeaf and splitInternal below the root keep it, *)
LEMMA SplitBelow ==
    ASSUME NEW t, Ordered(t), Agreed(t), NEW p, IsDir(t, p), Full(t, p), Fits(t, {p}), p # <<>>
    PROVE  SplitKept(t, p)
<1>0. Finite(t) /\ MaxKeys \in Nat /\ MaxKeys >= 2
  BY BTreeAssumption DEF Ordered
<1> DEFINE m == Len(p)
<1>1. p \in Seq(Keys) /\ m \in Nat
  BY <1>0, DirIsDir
<1>2. PICK d \in t : m + 1 \in 1..Len(d.path) /\ p = Dir(d.path, m + 1)
  BY <1>0, DirIsDir
<1>3. d.path \in Seq(Keys) /\ Len(d.path) \in Nat
  BY <1>0, PathFacts
<1>4. m >= 1
  BY <1>1, EmptySeq
<1> HIDE DEF m
<1>5. m \in 1..Len(d.path) /\ m \in 1..(Len(d.path) - 1)
  BY <1>1, <1>2, <1>3, <1>4
<1> DEFINE ns == Names(t, p)
<1>6. ns = Siblings(t, d.path, m + 1) /\ ns \in SUBSET Keys /\ IsFiniteSet(ns)
  BY <1>0, <1>2, OwnDirectory
<1>7. Cardinality(ns) >= 2
  <2>1. Cardinality(ns) > MaxKeys
    BY DEF Full
  <2>2. Cardinality(ns) \in Nat
    BY <1>6, FS_CardinalityType
  <2> QED  BY <1>0, <2>1, <2>2
<1> HIDE DEF ns
<1>8. PICK l, r \in ns : /\ l < r /\ \A k \in ns : l <= k
                         /\ \A k \in ns : NewName(ns, k) = IF k < r THEN l ELSE r
  <2>1. Alike(ns)
    BY <1>0, <1>1, <1>6, SiblingsAlike
  <2> QED  BY <1>6, <1>7, <2>1, Halves
<1>9. SplitsAt(t, d, m, l, r)
  BY <1>5, <1>6, <1>8 DEF SplitsAt
<1>10. Split(t, p) = Turned(t, d, m, l, r)
  BY <1>2, <1>8, <1>9, SplitIsTurned DEF ns
<1>11. Front(p) = Dir(d.path, m)
  <2>1. /\ Front(p) \in Seq(Keys) /\ Len(Front(p)) = m - 1
        /\ \A j \in 1..(m - 1) : Front(p)[j] = p[j]
    BY <1>1, <1>4, FrontIs DEF m
  <2>2. /\ Dir(d.path, m) \in Seq(Keys) /\ Len(Dir(d.path, m)) = m - 1
        /\ \A j \in 1..(m - 1) : Dir(d.path, m)[j] = d.path[j]
    BY <1>3, <1>5, DirIs
  <2>3. \A j \in 1..((m + 1) - 1) : Dir(d.path, m + 1)[j] = d.path[j]
    BY <1>2, <1>3, DirIs
  <2>4. \A j \in 1..(m - 1) : Front(p)[j] = Dir(d.path, m)[j]
    BY <1>1, <1>2, <2>1, <2>2, <2>3, SMTT(30)
  <2> QED  BY <2>1, <2>2, <2>4, SeqEqual
<1>12. Fits(Split(t, p), {Front(p)})
  BY <1>2, <1>9, <1>10, <1>11, TurnedFits
<1>13. IsDir(Split(t, p), Front(p))
  <2> DEFINE f == Turn(d, m, l, r, d)
  <2>1. f \in Turned(t, d, m, l, r)
    BY DEF Turned
  <2>2. f.path \in Seq(Keys) /\ Len(f.path) = Len(d.path) /\ \A j \in 1..(m - 1) : f.path[j] = d.path[j]
    <3>1. \A j \in 1..(m - 1) : j \in 1..Len(d.path) /\ j # m
      BY <1>1, <1>5
    <3> QED  BY <1>9, <3>1, TurnFacts DEF Entries
  <2> HIDE DEF f
  <2>3. Meet(f.path, d.path, m)
    BY <1>3, <1>5, <2>2 DEF Meet
  <2>4. Dir(f.path, m) = Dir(d.path, m)
    BY <1>3, <1>5, <2>2, <2>3, DirsAgree
  <2> QED  BY <1>5, <1>10, <1>11, <2>1, <2>2, <2>4 DEF IsDir
<1>14. /\ Ordered(Split(t, p)) /\ Pairs(Split(t, p)) = Pairs(t)
       /\ NamesIn(Split(t, p)) \subseteq NamesIn(t)
  BY <1>9, <1>10, TurnedOrdered, TurnedPairs, TurnedNames
<1> QED  BY <1>12, <1>13, <1>14 DEF SplitKept

(* and so does the split of the root under a new one. *)
LEMMA SplitRoot ==
    ASSUME NEW t, Ordered(t), Agreed(t), IsDir(t, <<>>), Full(t, <<>>), Fits(t, {<<>>})
    PROVE  SplitKept(t, <<>>)
<1>0. Finite(t) /\ MaxKeys \in Nat /\ MaxKeys >= 2 /\ Len(<<>>) = 0
  BY BTreeAssumption DEF Ordered
<1>1. PICK d \in t : 1 \in 1..Len(d.path) /\ <<>> = Dir(d.path, 1)
  BY <1>0, DirIsDir
<1>2. d.path \in Seq(Keys) /\ Len(d.path) \in Nat /\ Len(d.path) >= 1
  BY <1>0, PathFacts
<1> DEFINE ns == Names(t, <<>>)
<1>3. ns = Siblings(t, d.path, 1) /\ ns \in SUBSET Keys /\ IsFiniteSet(ns)
  BY <1>0, <1>1, OwnDirectory
<1>4. Cardinality(ns) >= 2
  <2>1. Cardinality(ns) > MaxKeys
    BY DEF Full
  <2>2. Cardinality(ns) \in Nat
    BY <1>3, FS_CardinalityType
  <2> QED  BY <1>0, <2>1, <2>2
<1>5. In(t, <<>>) = t
  <2> DEFINE none == <<>>
  <2>0. none \in Seq(Keys) /\ Len(none) = 0
    OBVIOUS
  <2> HIDE DEF none
  <2>1. In(t, none) = {f \in t : Len(f.path) > 0 /\ \A j \in 1..0 : f.path[j] = none[j]}
    <3>1. In(t, none) = {f \in t : Len(f.path) > Len(none) /\ \A j \in 1..Len(none) : f.path[j] = none[j]}
      BY <1>0, <2>0, InIs
    <3> QED  BY <2>0, <3>1
  <2>2. \A f \in t : Len(f.path) > 0
    BY <1>0, PathFacts
  <2> QED  BY <2>1, <2>2 DEF none
<1>6. \A f \in t : f.path[1] \in ns
  <2>1. ns = {f.path[0 + 1] : f \in t}
    BY <1>0, <1>5 DEF Names
  <2> QED  BY <2>1
<1> DEFINE R(f) == [f EXCEPT !.path = <<NewName(ns, @[1])>> \o @]
<1>7. Split(t, <<>>) = {R(f) : f \in t}
  BY <1>5 DEF Split
<1> HIDE DEF ns
<1>8. PICK l, r \in ns : /\ l < r /\ \A k \in ns : l <= k
                         /\ \A k \in ns : NewName(ns, k) = IF k < r THEN l ELSE r
  <2>1. Alike(ns)
    BY <1>0, <1>3, SiblingsAlike
  <2> QED  BY <1>3, <1>4, <2>1, Halves
<1>9. l \in Keys /\ r \in Keys
  BY <1>3
<1> DEFINE W == Wrapped(t, l)
           c == Wrap(l, d)
<1>10. Ordered(W) /\ c \in W
  BY <1>9, WrappedOrdered DEF Wrapped
<1>11. /\ c.path[1] = l /\ Len(c.path) = Len(d.path) + 1 /\ c.path \in Seq(Keys)
       /\ 1 \in 1..(Len(c.path) - 1) /\ 1 \in 1..Len(c.path) /\ 1 + 1 \in 1..Len(c.path)
  <2>1. c.path[1] = l /\ Len(c.path) = Len(d.path) + 1 /\ c \in Entries
    BY <1>0, <1>9, WrapFacts
  <2> QED  BY <1>2, <2>1 DEF Entries
<1>12. Siblings(W, c.path, 1 + 1) = ns /\ Siblings(W, c.path, 1) = {l}
  BY <1>0, <1>1, <1>3, <1>9, WrappedSiblings, SMTT(30)
<1>13. SplitsAt(W, c, 1, l, r)
  BY <1>8, <1>10, <1>11, <1>12 DEF SplitsAt
<1>14. ASSUME NEW f \in t
       PROVE  Turn(c, 1, l, r, Wrap(l, f)) = R(f)
  <2> DEFINE g == Wrap(l, f)
             n == NewName(ns, f.path[1])
             h == Wrap(n, f)
  <2>1. n \in Keys /\ n = IF f.path[1] < r THEN l ELSE r
    BY <1>6, <1>8, <1>9
  <2>2. R(f) = h
    BY DEF Wrap
  <2>3. /\ g \in Entries /\ g.value = f.value /\ Len(g.path) = Len(f.path) + 1
        /\ g.path[1] = l /\ \A j \in 1..Len(f.path) : g.path[j + 1] = f.path[j]
        /\ Len(f.path) \in Nat /\ Len(f.path) >= 1
    BY <1>0, <1>9, WrapFacts
  <2>4. /\ h \in Entries /\ h.value = f.value /\ Len(h.path) = Len(f.path) + 1
        /\ h.path[1] = n /\ \A j \in 1..Len(f.path) : h.path[j + 1] = f.path[j]
    <3> HIDE DEF n
    <3>1. Finite(t) /\ n \in Keys /\ f \in t
      BY <1>0, <2>1
    <3>2. /\ Wrap(n, f) \in Entries /\ Wrap(n, f).value = f.value
          /\ Key(Wrap(n, f)) = Key(f)
          /\ Len(Wrap(n, f).path) = Len(f.path) + 1 /\ Len(f.path) \in Nat /\ Len(f.path) >= 1
          /\ Wrap(n, f).path[1] = n
          /\ \A j \in 1..Len(f.path) : Wrap(n, f).path[j + 1] = f.path[j]
      BY ONLY <3>1, WrapFacts
    <3> QED  BY ONLY <3>2
  <2>5. g \in W
    BY DEF Wrapped
  <2> HIDE DEF g, h, n, R, c, W
  <2>6. Within(c, 1, g)
    <3>1. Meet(c.path, g.path, 1 + 1)
      <4>1. \A j \in 1..((1 + 1) - 1) : j = 1
        OBVIOUS
      <4> QED  BY <1>11, <2>3, <4>1 DEF Meet
    <3> QED  BY <3>1 DEF Within
  <2>7. 1 \in 1..Len(f.path) /\ g.path[1 + 1] = f.path[1]
    BY <2>3
  <2> DEFINE u == Turn(c, 1, l, r, g)
  <2>8. /\ u \in Entries /\ u.value = g.value /\ Len(u.path) = Len(g.path)
        /\ \A i \in 1..Len(g.path) : i # 1 => u.path[i] = g.path[i]
        /\ u.path[1] = n
    BY <1>10, <1>13, <2>1, <2>5, <2>6, <2>7, TurnFacts
  <2> HIDE DEF u
  <2>9. ASSUME NEW i \in 1..Len(h.path)
        PROVE  u.path[i] = h.path[i]
    <3>1. CASE i = 1
      BY <2>4, <2>8, <3>1
    <3>2. CASE i # 1
      <4>1. i - 1 \in 1..Len(f.path) /\ (i - 1) + 1 = i /\ i \in 1..Len(g.path)
        BY <2>3, <2>4, <3>2
      <4> QED  BY <2>3, <2>4, <2>8, <3>2, <4>1
    <3> QED  BY <3>1, <3>2
  <2>10. u.path = h.path
    <3>1. u.path \in Seq(Keys) /\ h.path \in Seq(Keys) /\ Len(u.path) = Len(h.path)
      BY <2>3, <2>4, <2>8 DEF Entries
    <3> QED  BY <2>9, <3>1, SeqEqual
  <2>11. u = h
    BY <2>3, <2>4, <2>8, <2>10 DEF Entries
  <2> QED  BY <2>2, <2>11 DEF u, g
<1>15. Split(t, <<>>) = Turned(W, c, 1, l, r)
  <2>1. Turned(W, c, 1, l, r) = {Turn(c, 1, l, r, Wrap(l, f)) : f \in t}
    BY DEF Turned, Wrapped
  <2> HIDE DEF R, W, c
  <2> QED  BY <1>7, <1>14, <2>1
<1>16. Dir(c.path, 1 + 1) = <<l>>
  <2>1. /\ Dir(c.path, 1 + 1) \in Seq(Keys) /\ Len(Dir(c.path, 1 + 1)) = 1
        /\ Dir(c.path, 1 + 1)[1] = l
    <3> HIDE DEF c
    <3>1. /\ Dir(c.path, 1 + 1) \in Seq(Keys) /\ Len(Dir(c.path, 1 + 1)) = (1 + 1) - 1
          /\ \A j \in 1..((1 + 1) - 1) : Dir(c.path, 1 + 1)[j] = c.path[j]
      BY <1>11, DirIs
    <3>2. 1 \in 1..((1 + 1) - 1)
      OBVIOUS
    <3> QED  BY <1>11, <3>1, <3>2
  <2>2. <<l>> \in Seq(Keys) /\ Len(<<l>>) = 1 /\ <<l>>[1] = l
    BY <1>9
  <2>3. \A j \in 1..1 : j = 1
    OBVIOUS
  <2> HIDE DEF c
  <2> QED  BY <2>1, <2>2, <2>3, SeqEqual
<1>17. Fits(W, {Dir(c.path, 1 + 1)})
  <2> SUFFICES ASSUME NEW f \in t, NEW i \in 1..Len(Wrap(l, f).path)
               PROVE  Cardinality(Siblings(W, Wrap(l, f).path, i))
                        <= IF Dir(Wrap(l, f).path, i) \in {Dir(c.path, 1 + 1)} THEN MaxKeys + 1 ELSE MaxKeys
    BY DEF Fits, Wrapped
  <2> DEFINE g == Wrap(l, f)
  <2>1. /\ Len(g.path) = Len(f.path) + 1 /\ Len(f.path) \in Nat /\ g.path[1] = l /\ g.path \in Seq(Keys)
        /\ f.path \in Seq(Keys)
    BY <1>0, <1>9, WrapFacts, PathFacts DEF Entries
  <2>2. CASE i = 1
    <3>1. Siblings(W, g.path, i) = {l}
      <4>1. Siblings(Wrapped(t, l), Wrap(l, f).path, 1) = {l}
        BY ONLY <1>0, <1>9, f \in t, WrappedSiblings, ZenonT(30)
      <4> QED  BY <2>2, <4>1
    <3>2. Cardinality({l}) = 1
      BY FS_Singleton
    <3> HIDE DEF W, c
    <3> QED  BY <1>0, <3>1, <3>2
  <2>3. CASE i # 1
    <3>1. i - 1 \in 1..Len(f.path) /\ (i - 1) + 1 = i
      BY <2>1, <2>3
    <3>2. Siblings(W, g.path, i) = Siblings(t, f.path, i - 1)
      <4>1. \A j \in 1..Len(f.path) :
               Siblings(Wrapped(t, l), Wrap(l, f).path, j + 1) = Siblings(t, f.path, j)
        BY ONLY <1>0, <1>9, f \in t, WrappedSiblings
      <4>2. Siblings(W, g.path, (i - 1) + 1) = Siblings(t, f.path, i - 1)
        BY <3>1, <4>1
      <4> QED  BY <3>1, <4>2
    <3>3. /\ IsFiniteSet(Siblings(t, f.path, i - 1))
          /\ Cardinality(Siblings(t, f.path, i - 1))
               <= IF Dir(f.path, i - 1) \in {<<>>} THEN MaxKeys + 1 ELSE MaxKeys
      BY <1>0, <3>1, OwnDirectory DEF Fits
    <3>4. Dir(f.path, i - 1) = <<>> => Dir(g.path, i) = Dir(c.path, 1 + 1)
      <4> SUFFICES ASSUME Dir(f.path, i - 1) = <<>>
                   PROVE  Dir(g.path, i) = Dir(c.path, 1 + 1)
        OBVIOUS
      <4>1. Len(Dir(f.path, i - 1)) = (i - 1) - 1
        BY <2>1, <3>1, DirIs
      <4>2. i = 1 + 1
        BY <3>1, <4>1
      <4>3. Meet(g.path, c.path, 1 + 1)
        <5>1. \A j \in 1..((1 + 1) - 1) : j = 1
          OBVIOUS
        <5> HIDE DEF g, c
        <5> QED  BY <1>11, <2>1, <4>2, <5>1 DEF Meet, g
      <4>4. 1 + 1 \in 1..Len(g.path)
        BY <2>1, <3>1, <4>2
      <4> HIDE DEF g, c
      <4>5. Dir(g.path, 1 + 1) = Dir(c.path, 1 + 1)
        BY <1>11, <2>1, <4>3, <4>4, DirsAgree
      <4> QED  BY <4>2, <4>5
    <3>5. Cardinality(Siblings(t, f.path, i - 1)) \in Nat
      BY <3>3, FS_CardinalityType
    <3> HIDE DEF W, c
    <3> QED  BY <1>0, <3>2, <3>3, <3>4, <3>5
  <2> QED  BY <2>2, <2>3
<1>18. Fits(Split(t, <<>>), {})
  <2> DEFINE T(f) == Turn(c, 1, l, r, f)
  <2>1. Fits(Split(t, <<>>), {Dir(c.path, 1)})
    BY <1>10, <1>13, <1>15, <1>17, TurnedFits
  <2>2. SUFFICES ASSUME NEW f \in W, NEW i \in 1..Len(T(f).path)
                 PROVE  Cardinality(Siblings(Split(t, <<>>), T(f).path, i)) <= MaxKeys
    BY <1>15 DEF Fits, Turned
  <2>3. /\ T(f).path \in Seq(Keys) /\ Len(T(f).path) = Len(f.path) /\ i \in 1..Len(f.path)
        /\ Len(f.path) \in Nat /\ f.path \in Seq(Keys)
    BY <1>10, <1>13, TurnFacts, PathFacts DEF Entries, Ordered
  <2>4. CASE i = 1
    <3>1. Meet(c.path, f.path, 1)
      BY <1>11, <2>3, <2>4 DEF Meet
    <3>2. Siblings(Split(t, <<>>), T(f).path, i)
            \subseteq (Siblings(W, c.path, 1) \ {c.path[1]}) \cup {l, r}
      BY ONLY <1>10, <1>13, <1>15, <2>3, <2>4, <3>1, f \in W, TurnedSiblings, SMTT(30)
    <3>3. Siblings(Split(t, <<>>), T(f).path, i) \subseteq {} \cup {l, r}
      BY <1>11, <1>12, <3>2
    <3>4. Cardinality({}) = 0 /\ IsFiniteSet({})
      BY FS_EmptySet
    <3>5. Cardinality(Siblings(Split(t, <<>>), T(f).path, i)) <= Cardinality({}) + 2
      <4> HIDE DEF T
      <4> QED  BY <3>3, <3>4, Sizes
    <3>6. Cardinality(Siblings(Split(t, <<>>), T(f).path, i)) \in Nat
      BY <1>10, <1>13, <1>15, <2>3, TurnedFinite, SiblingsFacts, FS_CardinalityType
    <3> HIDE DEF T
    <3> QED  BY <1>0, <3>4, <3>5, <3>6
  <2>5. CASE i # 1
    <3>1. Dir(T(f).path, i) # Dir(c.path, 1)
      BY <1>11, <2>3, <2>5, DirsAgree
    <3>2. T(f) \in Split(t, <<>>)
      BY <1>15 DEF Turned
    <3> QED  BY <2>1, <2>2, <3>1, <3>2 DEF Fits
  <2> QED  BY <2>4, <2>5
<1>19. Ordered(Split(t, <<>>)) /\ Pairs(Split(t, <<>>)) = Pairs(t)
  BY <1>0, <1>9, <1>10, <1>13, <1>15, TurnedOrdered, TurnedPairs, WrappedPairs
<1>20. NamesIn(Split(t, <<>>)) \subseteq NamesIn(t)
  <2>1. l \in NamesIn(t)
    <3>1. PICK f \in t : Meet(d.path, f.path, 1) /\ l = f.path[1]
      BY <1>3 DEF Siblings
    <3>2. 1 \in 1..Len(f.path)
      BY <1>0, PathFacts
    <3> QED  BY <1>0, <3>1, <3>2, NamesAre
  <2>2. NamesIn(W) \subseteq NamesIn(t)
    BY <1>9, <2>1, WrappedNames
  <2>3. NamesIn(Split(t, <<>>)) \subseteq NamesIn(W)
    BY <1>10, <1>13, <1>15, TurnedNames
  <2> QED  BY <2>2, <2>3
<1> QED  BY <1>18, <1>19, <1>20 DEF SplitKept

-----------------------------------------------------------------------------
(* Insertions. *)

(* Paths that meet in a directory have the same names there. *)
LEMMA SiblingsSame ==
    ASSUME NEW t, NEW x, NEW y, NEW i, Meet(x, y, i), Len(x) \in Nat, Len(y) \in Nat
    PROVE  Siblings(t, x, i) = Siblings(t, y, i)
<1>1. \A f \in t : Meet(x, f.path, i) <=> Meet(y, f.path, i)
  BY DEF Meet
<1> QED  BY <1>1 DEF Siblings

(* A lookup ends in some leaf. *)
LEMMA LookupEnds ==
    ASSUME NEW t, Ordered(t), Agreed(t), t # {}, NEW k \in Keys
    PROVE  \E e \in t : LeadsTo(t, k, Front(e.path))
<1>0. Finite(t)
  BY DEF Ordered
<1> DEFINE Good(e, n) == \A i \in 1..n : e.path[i] = Child(Siblings(t, e.path, i), k)
           S == {n \in Nat : \E e \in t : n <= Len(e.path) - 1 /\ Good(e, n)}
<1>1. PICK d \in Nat : \A e \in t : Len(e.path) \in 1..d
  BY <1>0 DEF Finite
<1>2. \A n \in S : n <= d
  BY <1>1
<1>3. 0 \in S
  BY <1>1
<1>4. PICK n \in S : \A j \in S : j <= n
  <2>1. S \in SUBSET Nat
    OBVIOUS
  <2> HIDE DEF S
  <2> QED  BY <1>2, <1>3, <2>1, Bounded
<1>5. n \in Nat /\ n + 1 \notin S
  <2>1. n \in Nat
    OBVIOUS
  <2> HIDE DEF S
  <2>2. n + 1 \in S => n + 1 <= n
    BY <1>4
  <2> QED  BY <2>1, <2>2
<1>6. PICK e \in t : n <= Len(e.path) - 1 /\ Good(e, n)
  BY <1>4
<1>7. e.path \in Seq(Keys) /\ Len(e.path) \in Nat /\ Len(e.path) >= 1
  BY <1>0, PathFacts
<1>8. n = Len(e.path) - 1
  <2> SUFFICES ASSUME n + 1 <= Len(e.path) - 1
               PROVE  FALSE
    BY <1>5, <1>6, <1>7
  <2>1. n + 1 \in 1..Len(e.path)
    BY <1>5, <1>7
  <2> DEFINE ns == Siblings(t, e.path, n + 1)
             c == Child(ns, k)
  <2>2. ns \in SUBSET Keys /\ ns # {}
    BY <1>0, <2>1, OwnDirectory
  <2>10. Alike(ns)
    BY <1>0, <1>5, SiblingsAlike
  <2>3. c \in ns
    <3> HIDE DEF ns
    <3> QED  BY <2>2, <2>10, ChildFacts
  <2>4. PICK f \in t : Meet(e.path, f.path, n + 1) /\ f.path[n + 1] = c
    BY <2>3 DEF Siblings
  <2>5. Len(f.path) \in Nat /\ n + 1 <= Len(f.path) /\ \A i \in 1..n : e.path[i] = f.path[i]
    BY <1>0, <1>5, <2>4, PathFacts DEF Meet
  <2>6. n + 1 # Len(f.path)
    <3> SUFFICES ASSUME n + 1 = Len(f.path)
                 PROVE  FALSE
      OBVIOUS
    <3>1. Meet(f.path, e.path, Len(f.path))
      BY <1>7, <2>4, MeetsBack
    <3>2. Len(e.path) = Len(f.path)
      BY <3>1 DEF Ordered, Level
    <3> QED  BY <1>5, <1>7, <3>2
  <2>7. n + 1 <= Len(f.path) - 1
    BY <1>5, <2>5, <2>6
  <2>8. ASSUME NEW i \in 1..(n + 1)
        PROVE  f.path[i] = Child(Siblings(t, f.path, i), k)
    <3>1. i \in 1..Len(e.path) /\ i <= Len(f.path) /\ i \in Nat
      BY <1>5, <1>7, <2>1, <2>5
    <3>2. Meet(e.path, f.path, i)
      BY <1>5, <2>5, <3>1 DEF Meet
    <3>3. Siblings(t, e.path, i) = Siblings(t, f.path, i)
      BY <1>7, <2>5, <3>2, SiblingsSame
    <3>4. CASE i = n + 1
      BY <2>4, <3>3, <3>4
    <3>5. CASE i # n + 1
      <4>1. i \in 1..n
        BY <1>5, <3>5
      <4>2. e.path[i] = Child(Siblings(t, e.path, i), k) /\ e.path[i] = f.path[i]
        BY <1>6, <2>5, <4>1
      <4> QED  BY <3>3, <4>2
    <3> QED  BY <3>4, <3>5
  <2>9. n + 1 \in S
    BY <1>5, <2>7, <2>8
  <2> QED  BY <1>5, <2>9
<1> QED  BY <1>0, <1>6, <1>8, LeadsToIs

(* And in no other. *)
LEMMA LookupIsOne ==
    ASSUME NEW t, Ordered(t), NEW k, NEW e \in t, NEW f \in t,
           LeadsTo(t, k, Front(e.path)), LeadsTo(t, k, Front(f.path))
    PROVE  Len(e.path) = Len(f.path) /\ \A j \in 1..(Len(e.path) - 1) : e.path[j] = f.path[j]
<1>0. Finite(t)
  BY DEF Ordered
<1>1. /\ e.path \in Seq(Keys) /\ Len(e.path) \in Nat /\ Len(e.path) >= 1
      /\ f.path \in Seq(Keys) /\ Len(f.path) \in Nat /\ Len(f.path) >= 1
  BY <1>0, PathFacts
<1>2. /\ \A i \in 1..(Len(e.path) - 1) : e.path[i] = Child(Siblings(t, e.path, i), k)
      /\ \A i \in 1..(Len(f.path) - 1) : f.path[i] = Child(Siblings(t, f.path, i), k)
  BY <1>0, LeadsToIs
<1>3. ASSUME NEW i \in 1..Len(e.path), Meet(e.path, f.path, i), e.path[i] # f.path[i]
      PROVE  ~(i <= Len(e.path) - 1 /\ i <= Len(f.path) - 1)
  <2>1. Siblings(t, e.path, i) = Siblings(t, f.path, i)
    BY <1>1, <1>3, SiblingsSame
  <2> QED  BY <1>1, <1>2, <1>3, <2>1
<1>4. CASE e.path = f.path
  BY <1>4
<1>5. CASE e.path # f.path
  <2>1. Meet(e.path, f.path, Len(e.path)) \/ Meet(f.path, e.path, Len(f.path))
    <3>1. CASE \E i \in 1..Len(e.path) : Meet(e.path, f.path, i) /\ e.path[i] # f.path[i]
      <4>1. PICK i \in 1..Len(e.path) : Meet(e.path, f.path, i) /\ e.path[i] # f.path[i]
        BY <3>1
      <4>2. i = Len(e.path) \/ i = Len(f.path)
        BY <1>1, <1>3, <4>1 DEF Meet
      <4>3. Meet(f.path, e.path, i)
        BY <1>1, <4>1, MeetsBack
      <4> QED  BY <4>1, <4>2, <4>3
    <3> QED  BY <1>1, <1>5, <3>1, Fork
  <2>2. Len(e.path) = Len(f.path)
    BY <2>1 DEF Ordered, Level
  <2> QED  BY <2>1, <2>2 DEF Meet
<1> QED  BY <1>4, <1>5

(* x is the path to key k in the leaf of entry e. *)
Joins(t, e, x, k) ==
    /\ e \in t /\ x \in Seq(Keys) /\ Len(x) = Len(e.path) /\ x[Len(x)] = k
    /\ \A j \in 1..(Len(x) - 1) : x[j] = e.path[j] /\ x[j] = Child(Siblings(t, e.path, j), k)
    /\ \A f \in t : Key(f) = k => f.path = x

(* The tree with the value v under key k at path x. *)
Joined(t, x, k, v) == {f \in t : Key(f) # k} \cup {[path |-> x, value |-> v]}

(* What insertIntoLeaf writes is the tree in which the key takes its place in the
   leaf its lookup ends in. *)
LEMMA PutJoins ==
    ASSUME NEW t, Ordered(t), Agreed(t), t # {}, NEW k \in Keys, NEW v \in Values
    PROVE  \E e \in t, x \in Seq(Keys) :
              /\ Joins(t, e, x, k) /\ LeafFor(t, k) = Dir(x, Len(x))
              /\ Put(t, k, v) = Joined(t, x, k, v)
<1>0. Finite(t)
  BY DEF Ordered
<1>1. PICK d \in t : LeadsTo(t, k, Front(d.path))
  BY LookupEnds
<1>2. PICK e \in t : LeafFor(t, k) = Front(e.path) /\ LeadsTo(t, k, Front(e.path))
  <2> DEFINE P == {Front(f.path) : f \in t}
             q == CHOOSE p \in P : LeadsTo(t, k, p)
  <2>1. q \in P /\ LeadsTo(t, k, q)
    BY <1>1
  <2>2. LeafFor(t, k) = q
    BY DEF LeafFor
  <2> HIDE DEF q
  <2> QED  BY <2>1, <2>2
<1> DEFINE p == Front(e.path)
           x == Append(p, k)
<1>3. e.path \in Seq(Keys) /\ Len(e.path) \in Nat /\ Len(e.path) >= 1
  BY <1>0, PathFacts
<1>4. p \in Seq(Keys) /\ Len(p) = Len(e.path) - 1 /\ \A j \in 1..(Len(e.path) - 1) : p[j] = e.path[j]
  BY <1>3, FrontIs
<1> HIDE DEF p
<1>5. /\ x \in Seq(Keys) /\ Len(x) = Len(e.path) /\ x[Len(x)] = k
      /\ \A j \in 1..(Len(x) - 1) : x[j] = e.path[j]
  <2>1. /\ x \in Seq(Keys) /\ Len(x) = Len(p) + 1 /\ x[Len(p) + 1] = k
        /\ \A j \in 1..Len(p) : x[j] = p[j]
    BY <1>4, AppendProperties
  <2> HIDE DEF x
  <2>2. Len(x) = Len(e.path) /\ Len(p) + 1 = Len(x) /\ Len(x) - 1 = Len(p)
    BY <1>3, <1>4, <2>1
  <2> QED  BY <1>4, <2>1, <2>2
<1>6. Put(t, k, v) = Joined(t, x, k, v)
  <2>1. t \ At(t, k) = {f \in t : Key(f) # k}
    BY AtIs
  <2> QED  BY <1>2, <2>1 DEF Put, Joined, p
<1> HIDE DEF x
<1>7. LeafFor(t, k) = Dir(x, Len(x))
  <2>1. Len(x) \in 1..Len(x)
    BY <1>3, <1>5
  <2>2. /\ Dir(x, Len(x)) \in Seq(Keys) /\ Len(Dir(x, Len(x))) = Len(x) - 1
        /\ \A j \in 1..(Len(x) - 1) : Dir(x, Len(x))[j] = x[j]
    BY <1>5, <2>1, DirIs
  <2>3. \A j \in 1..Len(p) : Dir(x, Len(x))[j] = p[j]
    BY <1>4, <1>5, <2>2
  <2>4. Dir(x, Len(x)) = p
    BY <1>4, <1>5, <2>2, <2>3, SeqEqual
  <2> QED  BY <1>2, <2>4 DEF p
<1>8. ASSUME NEW f \in t, Key(f) = k
      PROVE  f.path = x
  <2>1. LeadsTo(t, k, Front(f.path))
    BY <1>8, LookupFinds
  <2>2. Len(e.path) = Len(f.path) /\ \A j \in 1..(Len(e.path) - 1) : e.path[j] = f.path[j]
    BY <1>2, <2>1, LookupIsOne
  <2>3. f.path \in Seq(Keys) /\ f.path[Len(f.path)] = k
    BY <1>0, <1>8, PathFacts
  <2>4. ASSUME NEW j \in 1..Len(x)
        PROVE  f.path[j] = x[j]
    <3>1. j = Len(x) \/ j \in 1..(Len(x) - 1)
      BY <1>3, <1>5
    <3> QED  BY <1>5, <2>2, <2>3, <3>1
  <2> QED  BY <1>5, <2>2, <2>3, <2>4, SeqEqual
<1>9. \A j \in 1..(Len(e.path) - 1) : e.path[j] = Child(Siblings(t, e.path, j), k)
  BY <1>0, <1>2, LeadsToIs
<1>10. Joins(t, e, x, k)
  BY <1>5, <1>8, <1>9 DEF Joins
<1> QED  BY <1>5, <1>6, <1>7, <1>10

(* The new path takes its way in its leaf. *)
LEMMA JoinsFacts ==
    ASSUME NEW t, Ordered(t), Agreed(t), NEW e, NEW x, NEW k \in Keys, Joins(t, e, x, k)
    PROVE  /\ Finite(t) /\ k \in Nat /\ e \in t
           /\ Len(x) \in Nat /\ Len(x) >= 1 /\ Len(e.path) = Len(x) /\ Len(x) \in 1..Len(x)
           /\ \A j \in 1..Len(x) : x[j] \in Nat /\ e.path[j] \in Nat
           /\ \A j \in 1..(Len(x) - 1) : x[j] = e.path[j]
           /\ x[Len(x)] = k
           /\ \A f \in t : \A i \in 1..Len(x) :
                 /\ Meet(x, f.path, i) <=> Meet(e.path, f.path, i)
                 /\ Meet(x, f.path, i) => i \in 1..Len(f.path) /\ f.path[i] \in Nat
           /\ \A f \in t : Meet(x, f.path, Len(x)) => Len(f.path) = Len(x)
           /\ \A f \in t : \A i \in 1..Len(f.path) :
                 Meet(f.path, x, i) => Meet(x, f.path, i) /\ i \in 1..Len(x) /\ Meet(f.path, e.path, i)
           /\ \A f \in t : \A i \in 1..(Len(x) - 1) :
                 Meet(x, f.path, i) =>
                    /\ x[i] < f.path[i] => k < f.path[i]
                    /\ x[i] <= k \/ x[i] <= f.path[i]
<1>0. Finite(t) /\ k \in Nat /\ e \in t
  BY KeysAreNumbers DEF Ordered, Joins
<1>1. /\ e.path \in Seq(Keys) /\ Len(e.path) \in Nat /\ Len(e.path) >= 1
      /\ Len(x) = Len(e.path) /\ x \in Seq(Keys) /\ x[Len(x)] = k
      /\ \A j \in 1..(Len(x) - 1) : x[j] = e.path[j]
  BY <1>0, PathFacts DEF Joins
<1>2. \A j \in 1..Len(x) : x[j] \in Nat /\ e.path[j] \in Nat
  <2>1. \A j \in 1..Len(x) : x[j] \in Keys /\ e.path[j] \in Keys
    BY <1>1, ElementOfSeq
  <2> QED  BY <2>1, KeysAreNumbers
<1>3. ASSUME NEW f \in t, NEW i \in 1..Len(x)
      PROVE  /\ Meet(x, f.path, i) <=> Meet(e.path, f.path, i)
             /\ Meet(x, f.path, i) => i \in 1..Len(f.path) /\ f.path[i] \in Nat
  <2>1. \A j \in 1..(i - 1) : x[j] = e.path[j]
    BY <1>1
  <2>2. Meet(x, f.path, i) <=> Meet(e.path, f.path, i)
    BY <1>1, <2>1 DEF Meet
  <2>3. Meet(x, f.path, i) => i \in 1..Len(f.path)
    BY <1>0, <1>1, PathFacts DEF Meet
  <2> QED  BY <1>0, <2>2, <2>3, PathFacts
<1>4. Len(x) \in 1..Len(x)
  BY <1>1
<1>5. ASSUME NEW f \in t, Meet(x, f.path, Len(x))
      PROVE  Len(f.path) = Len(x)
  <2>1. Meet(e.path, f.path, Len(e.path))
    BY <1>1, <1>3, <1>4, <1>5
  <2> QED  BY <1>0, <1>1, <2>1 DEF Ordered, Level
<1>6. ASSUME NEW f \in t, NEW i \in 1..Len(f.path), Meet(f.path, x, i)
      PROVE  Meet(x, f.path, i) /\ i \in 1..Len(x) /\ Meet(f.path, e.path, i)
  <2>1. Len(f.path) \in Nat
    BY <1>0, PathFacts
  <2>2. Meet(x, f.path, i) /\ i \in 1..Len(x)
    BY <1>1, <1>6, <2>1, MeetsBack DEF Meet
  <2>3. Meet(f.path, e.path, i)
    BY <1>0, <1>1, <1>3, <2>1, <2>2, MeetsBack
  <2> QED  BY <2>2, <2>3
<1>7. ASSUME NEW f \in t, NEW i \in 1..(Len(x) - 1), Meet(x, f.path, i)
      PROVE  /\ x[i] < f.path[i] => k < f.path[i]
             /\ x[i] <= k \/ x[i] <= f.path[i]
  <2> DEFINE ns == Siblings(t, e.path, i)
  <2>1. i \in 1..Len(e.path) /\ i \in 1..Len(x)
    BY <1>1
  <2>2. f.path[i] \in ns /\ ns \in SUBSET Keys /\ ns # {}
    <3>1. Meet(e.path, f.path, i)
      BY <1>3, <1>7, <2>1
    <3>2. f.path[i] \in ns
      BY <3>1 DEF Siblings
    <3>3. ns \in SUBSET Keys
      BY <1>0, <2>1, OwnDirectory
    <3> QED  BY <3>2, <3>3
  <2>3. x[i] = Child(ns, k)
    BY DEF Joins
  <2>5. Alike(ns)
    BY <1>0, <2>1, SiblingsAlike
  <2> HIDE DEF ns
  <2>4. /\ \A j \in ns : x[i] < j => k < j
        /\ x[i] <= k \/ \A j \in ns : x[i] <= j
    <3>1. /\ \A j \in ns : Child(ns, k) < j => k < j
          /\ Child(ns, k) <= k \/ \A j \in ns : Child(ns, k) <= j
      BY ONLY k \in Keys, <2>2, <2>5, ChildFacts
    <3> QED  BY <2>3, <3>1
  <2> QED  BY <2>2, <2>4
<1> QED  BY <1>0, <1>1, <1>2, <1>3, <1>4, <1>5, <1>6, <1>7

(* The paths of the new tree. *)
LEMMA JoinedFacts ==
    ASSUME NEW t, Ordered(t), Agreed(t), NEW e, NEW x, NEW k \in Keys, NEW v \in Values, Joins(t, e, x, k)
    PROVE  LET S == Joined(t, x, k, v)
           IN  /\ \A f \in S : f.path = x \/ f \in t
               /\ \A f \in t : \E g \in S : g.path = f.path
               /\ \E g \in S : g.path = x
<1> DEFINE n == [path |-> x, value |-> v]
<1>1. n.path = x
  OBVIOUS
<1>2. ASSUME NEW f \in t
      PROVE  \E g \in Joined(t, x, k, v) : g.path = f.path
  <2>1. CASE Key(f) = k
    <3>1. f.path = x
      BY <2>1 DEF Joins
    <3> QED  BY <1>1, <3>1 DEF Joined
  <2>2. CASE Key(f) # k
    BY <2>2 DEF Joined
  <2> QED  BY <2>1, <2>2
<1> QED  BY <1>1, <1>2 DEF Joined

(* The new entry is before its leaf's next sibling, *)
LEMMA JoinedApart ==
    ASSUME NEW t, Ordered(t), Agreed(t), NEW e, NEW x, NEW k \in Keys, NEW v \in Values, Joins(t, e, x, k)
    PROVE  LET S == Joined(t, x, k, v) IN Finite(S) /\ Apart(S) /\ Level(S) /\ Unique(S)
<1> DEFINE S == Joined(t, x, k, v)
           n == [path |-> x, value |-> v]
           m == Len(x)
<1>0. /\ Finite(t) /\ k \in Nat /\ e \in t /\ m \in Nat /\ m >= 1 /\ Len(e.path) = m /\ m \in 1..m
      /\ \A j \in 1..m : x[j] \in Nat /\ e.path[j] \in Nat
      /\ \A j \in 1..(m - 1) : x[j] = e.path[j]
      /\ x[m] = k
  BY JoinsFacts
<1>1. \A f \in S : f.path = x \/ f \in t
  BY JoinedFacts
<1>2. ASSUME NEW f \in t, NEW i \in 1..m, Meet(x, f.path, i)
      PROVE  Meet(e.path, f.path, i) /\ i \in 1..Len(f.path) /\ f.path[i] \in Nat
  BY <1>2, JoinsFacts
<1>3. ASSUME NEW f \in t, Meet(x, f.path, m)
      PROVE  Len(f.path) = m
  BY <1>3, JoinsFacts
<1>4. ASSUME NEW f \in t, NEW i \in 1..Len(f.path), Meet(f.path, x, i)
      PROVE  Meet(x, f.path, i) /\ i \in 1..m /\ Meet(f.path, e.path, i)
  BY <1>4, JoinsFacts
<1>5. ASSUME NEW f \in t, NEW i \in 1..(m - 1), Meet(x, f.path, i), x[i] < f.path[i]
      PROVE  k < f.path[i]
  BY <1>5, JoinsFacts
<1>6. Finite(S)
  <2>1. {f \in t : Key(f) # k} \subseteq t
    OBVIOUS
  <2>2. IsFiniteSet({f \in t : Key(f) # k})
    BY <1>0, <2>1, FS_Subset DEF Finite
  <2>3. IsFiniteSet(S)
    BY <2>2, FS_AddElement DEF Joined
  <2>4. n \in Entries
    BY DEF Joins, Entries
  <2>5. PICK d \in Nat : \A f \in t : Len(f.path) \in 1..d
    BY <1>0 DEF Finite
  <2>6. S \subseteq Entries
    BY <1>0, <2>4 DEF Finite, Joined
  <2>7. \A f \in S : Len(f.path) \in 1..d
    BY <1>0, <1>1, <2>5
  <2> QED  BY <2>3, <2>5, <2>6, <2>7 DEF Finite
<1>7. Level(S)
  <2> SUFFICES ASSUME NEW f \in S, NEW g \in S, Meet(f.path, g.path, Len(f.path))
               PROVE  Len(g.path) = Len(f.path)
    BY DEF Level
  <2>1. CASE f.path = x
    BY <1>1, <1>3, <2>1
  <2>2. CASE f \in t /\ g \in t
    BY <2>2 DEF Ordered, Level
  <2>3. CASE f \in t /\ g.path = x
    <3>1. Len(f.path) \in 1..Len(f.path) /\ Len(f.path) \in Nat
      BY <1>0, <2>3, PathFacts
    <3>2. Meet(f.path, e.path, Len(f.path))
      BY <1>4, <2>3, <3>1
    <3> QED  BY <1>0, <2>3, <3>2 DEF Ordered, Level
  <2> QED  BY <1>1, <2>1, <2>2, <2>3
<1>8. Apart(S)
  <2> SUFFICES ASSUME NEW f \in S, NEW g \in S, NEW i \in 1..Len(f.path),
                      Meet(f.path, g.path, i), f.path[i] < g.path[i], NEW j \in i..Len(f.path)
               PROVE  f.path[j] < g.path[i]
    BY DEF Apart
  <2>1. CASE f \in t /\ g \in t
    BY <2>1 DEF Ordered, Apart
  <2>2. CASE f.path = x /\ g \in t
    <3>1. /\ i \in 1..m /\ j \in i..m /\ Meet(x, g.path, i) /\ x[i] < g.path[i]
          /\ Meet(e.path, g.path, i)
      BY <1>2, <2>2
    <3>2. CASE i = m
      <4>1. j = i
        BY <1>0, <3>1, <3>2
      <4> QED  BY <4>1
    <3>3. CASE i # m /\ j = m
      <4>1. i \in 1..(m - 1)
        BY <1>0, <3>1, <3>3
      <4> QED  BY <1>0, <1>5, <2>2, <3>1, <3>3, <4>1
    <3>4. CASE i # m /\ j # m
      <4>1. i \in 1..(m - 1) /\ j \in 1..(m - 1) /\ j \in i..m
        BY <1>0, <3>1, <3>4
      <4>2. e.path[j] < g.path[i]
        BY <1>0, <2>2, <3>1, <4>1 DEF Ordered, Apart
      <4> QED  BY <1>0, <2>2, <4>1, <4>2
    <3> QED  BY <3>2, <3>3, <3>4
  <2>3. CASE f \in t /\ g.path = x
    <3>1. /\ i \in 1..m /\ Meet(x, f.path, i) /\ f.path[i] < x[i] /\ Meet(f.path, e.path, i)
      BY <1>4, <2>3
    <3>2. CASE i = m
      <4>1. Len(f.path) = m
        BY <1>3, <2>3, <3>1, <3>2
      <4>2. j = i
        BY <1>0, <3>1, <3>2, <4>1
      <4> QED  BY <4>2
    <3>3. CASE i # m
      <4>1. i \in 1..(m - 1)
        BY <1>0, <3>1, <3>3
      <4>2. f.path[i] < e.path[i]
        BY <1>0, <3>1, <4>1
      <4>3. f.path[j] < e.path[i]
        BY <1>0, <2>3, <3>1, <4>2 DEF Ordered, Apart
      <4> QED  BY <1>0, <2>3, <4>1, <4>3
    <3> QED  BY <3>2, <3>3
  <2>4. CASE f.path = x /\ g.path = x
    <3>1. x[i] \in Nat /\ x[i] < x[i]
      BY <1>0, <2>4
    <3> QED  BY <3>1
  <2> QED  BY <1>1, <2>1, <2>2, <2>3, <2>4
<1>9. Unique(S)
  <2> SUFFICES ASSUME NEW f \in S, NEW g \in S, f.path = g.path
               PROVE  f = g
    BY DEF Unique
  <2>1. Key(n) = k
    BY <1>0 DEF Key, Last
  <2>2. Key(f) = Key(g)
    BY DEF Key
  <2>3. CASE f = n \/ g = n
    BY <2>1, <2>2, <2>3 DEF Joined
  <2>4. CASE f # n /\ g # n
    BY <2>4 DEF Joined, Ordered, Unique
  <2> QED  BY <2>3, <2>4
<1> QED  BY <1>6, <1>7, <1>8, <1>9

(* A lookup of k is to the right of every name of its way that is not on the
   left edge of the tree. *)
LEMMA WayIsBefore ==
    ASSUME NEW t, Ordered(t), Agreed(t), NEW e, NEW x, NEW k \in Keys, Joins(t, e, x, k),
           NEW i \in 1..(Len(x) - 1), NotLeftmost(t, x, i)
    PROVE  x[i] <= k /\ NotLeftmost(t, e.path, i)
<1> DEFINE m == Len(x)
           B == {j \in 1..(m - 1) : NotLeftmost(t, x, j) /\ ~(x[j] <= k)}
<1>0. /\ Finite(t) /\ k \in Nat /\ e \in t /\ m \in Nat /\ m >= 1 /\ Len(e.path) = m /\ m \in 1..m
      /\ \A j \in 1..m : x[j] \in Nat /\ e.path[j] \in Nat
      /\ \A j \in 1..(m - 1) : x[j] = e.path[j]
      /\ \A f \in t : \A j \in 1..m : Meet(x, f.path, j) <=> Meet(e.path, f.path, j)
  BY JoinsFacts
<1>1. ASSUME NEW f \in t, NEW j \in 1..(m - 1), Meet(x, f.path, j)
      PROVE  /\ f.path[j] \in Nat /\ j \in 1..Len(f.path)
             /\ x[j] <= k \/ x[j] <= f.path[j]
  <2>1. j \in 1..m
    BY <1>0
  <2> QED  BY <1>1, <2>1, JoinsFacts
<1>2. ASSUME NEW j \in 1..(m - 1), NotLeftmost(t, x, j)
      PROVE  NotLeftmost(t, e.path, j)
  <2>1. PICK h \in 1..j, f \in t : Meet(x, f.path, h) /\ f.path[h] < x[h]
    BY <1>2 DEF NotLeftmost
  <2>2. h \in 1..m /\ h \in 1..(m - 1)
    BY <1>0
  <2>3. Meet(e.path, f.path, h) /\ e.path[h] = x[h]
    BY <1>0, <2>1, <2>2
  <2> QED  BY <2>1, <2>3 DEF NotLeftmost
<1>3. ASSUME NEW j \in B
      PROVE  j - 1 \in B
  <2>1. j \in 1..(m - 1) /\ j \in Nat /\ j \in 1..m /\ NotLeftmost(t, x, j) /\ ~(x[j] <= k)
    BY <1>0
  <2>2. PICK h \in 1..j, f \in t : Meet(x, f.path, h) /\ f.path[h] < x[h]
    BY <2>1 DEF NotLeftmost
  <2>3. h # j
    <3> SUFFICES ASSUME h = j
                 PROVE  FALSE
      OBVIOUS
    <3> QED  BY <1>0, <1>1, <2>1, <2>2
  <2>4. h \in 1..(j - 1) /\ j - 1 \in 1..(m - 1) /\ j - 1 \in 1..m /\ (j - 1) + 1 = j
    BY <2>1, <2>3
  <2>5. NotLeftmost(t, x, j - 1)
    BY <2>2, <2>4 DEF NotLeftmost
  <2>6. NotLeftmost(t, e.path, j - 1)
    BY <1>2, <2>4, <2>5
  <2>7. PICK g \in t : /\ \A l \in (j - 1)..m : e.path[j - 1] <= e.path[l]
                       /\ Meet(e.path, g.path, (j - 1) + 1)
                       /\ \A l \in (j - 1)..Len(g.path) : g.path[l] = e.path[j - 1]
    BY <1>0, <2>4, <2>6 DEF Ordered, Named
  <2>8. Meet(x, g.path, j)
    BY <1>0, <2>1, <2>4, <2>7
  <2>9. Len(g.path) \in Nat /\ j \in 1..Len(g.path) /\ j \in (j - 1)..Len(g.path)
    BY <1>0, <1>1, <2>1, <2>8, PathFacts
  <2>10. g.path[j] = e.path[j - 1] /\ e.path[j - 1] = x[j - 1]
    BY <1>0, <2>4, <2>7, <2>9
  <2>11. x[j] <= g.path[j]
    BY <1>1, <2>1, <2>8
  <2>12. x[j] <= x[j - 1] /\ x[j] \in Nat /\ x[j - 1] \in Nat
    BY <1>0, <2>1, <2>4, <2>10, <2>11
  <2>13. ~(x[j - 1] <= k)
    BY <1>0, <2>1, <2>12
  <2> QED  BY <2>4, <2>5, <2>13
<1>4. B = {}
  <2> SUFFICES ASSUME B # {}
               PROVE  FALSE
    OBVIOUS
  <2>1. B \in SUBSET Nat
    OBVIOUS
  <2> HIDE DEF B
  <2>2. PICK j \in B : \A h \in B : j <= h
    BY <2>1, Least
  <2>3. j - 1 \in B /\ j \in Nat
    BY <1>3, <2>1
  <2> QED  BY <2>2, <2>3
<1>5. x[i] <= k
  BY <1>4
<1> QED  BY <1>2, <1>5

(* and not before the name of its leaf, unless that is on the left edge. *)
LEMMA JoinedNamed ==
    ASSUME NEW t, Ordered(t), Agreed(t), NEW e, NEW x, NEW k \in Keys, NEW v \in Values, Joins(t, e, x, k)
    PROVE  Named(Joined(t, x, k, v))
<1> DEFINE S == Joined(t, x, k, v)
           m == Len(x)
<1>0. /\ Finite(t) /\ k \in Nat /\ e \in t /\ m \in Nat /\ m >= 1 /\ Len(e.path) = m /\ m \in 1..m
      /\ \A j \in 1..m : x[j] \in Nat /\ e.path[j] \in Nat
      /\ \A j \in 1..(m - 1) : x[j] = e.path[j]
      /\ x[m] = k
      /\ \A f \in t : \A j \in 1..m : Meet(x, f.path, j) <=> Meet(e.path, f.path, j)
      /\ \A f \in t : Meet(x, f.path, m) => Len(f.path) = m
      /\ \A f \in t : \A i \in 1..Len(f.path) :
            Meet(f.path, x, i) => Meet(x, f.path, i) /\ i \in 1..m /\ Meet(f.path, e.path, i)
  BY JoinsFacts
<1>1. /\ \A f \in S : f.path = x \/ f \in t
      /\ \A f \in t : \E g \in S : g.path = f.path
  BY JoinedFacts
<1> HIDE DEF S
<1>2. SUFFICES ASSUME NEW f \in S, NEW i \in 1..(Len(f.path) - 1), NotLeftmost(S, f.path, i)
               PROVE  NamedAt(S, f.path, i)
  BY DEF Named, NamedAt, S
<1>3. ASSUME NEW y, NamedAt(t, y, i)
      PROVE  NamedAt(S, y, i)
  <2>1. PICK g \in t : /\ Meet(y, g.path, i + 1)
                       /\ \A j \in i..Len(g.path) : g.path[j] = y[i]
    BY <1>3 DEF NamedAt
  <2>2. PICK h \in S : h.path = g.path
    BY <1>1
  <2>3. Meet(y, h.path, i + 1) /\ \A j \in i..Len(h.path) : h.path[j] = y[i]
    BY <2>1, <2>2
  <2> QED  BY <1>3, <2>3 DEF NamedAt
<1>4. PICK h \in 1..i, g \in S : Meet(f.path, g.path, h) /\ g.path[h] < f.path[h]
  BY <1>2 DEF NotLeftmost
<1>5. CASE f.path = x
  <2>1. g.path # x
    <3> SUFFICES ASSUME g.path = x
                 PROVE  FALSE
      OBVIOUS
    <3>1. h \in 1..m /\ x[h] < x[h]
      BY <1>0, <1>4, <1>5
    <3> QED  BY <1>0, <3>1
  <2>2. g \in t
    BY <1>1, <2>1
  <2>3. i \in 1..(m - 1) /\ NotLeftmost(t, x, i) /\ i \in Nat /\ i + 1 \in 1..m
    BY <1>0, <1>4, <1>5, <2>2 DEF NotLeftmost
  <2>4. x[i] <= k /\ NotLeftmost(t, e.path, i)
    BY <2>3, WayIsBefore
  <2>5. PICK c \in t : /\ \A j \in i..m : e.path[i] <= e.path[j]
                       /\ Meet(e.path, c.path, i + 1)
                       /\ \A j \in i..Len(c.path) : c.path[j] = e.path[i]
    BY <1>0, <2>3, <2>4 DEF Ordered, Named
  <2>6. x[i] = e.path[i]
    BY <1>0, <2>3
  <2>7. Meet(x, c.path, i + 1) /\ \A j \in i..Len(c.path) : c.path[j] = x[i]
    BY <1>0, <2>3, <2>5, <2>6
  <2>8. ASSUME NEW j \in i..m
        PROVE  x[i] <= x[j]
    <3>1. CASE j = m
      BY <1>0, <2>4, <3>1
    <3>2. CASE j # m
      <4>1. j \in 1..(m - 1)
        BY <1>0, <2>3, <3>2
      <4> QED  BY <1>0, <2>5, <2>6, <4>1
    <3> QED  BY <3>1, <3>2
  <2> QED  BY <1>3, <1>5, <2>7, <2>8 DEF NamedAt
<1>6. CASE f \in t
  <2>1. NotLeftmost(t, f.path, i)
    <3>1. CASE g \in t
      BY <1>4, <3>1 DEF NotLeftmost
    <3>2. CASE g.path = x
      <4>1. Len(f.path) \in Nat /\ h \in 1..Len(f.path) /\ h \in Nat
        BY <1>0, <1>4, <1>6, PathFacts
      <4>2. Meet(x, f.path, h) /\ h \in 1..m /\ Meet(f.path, e.path, h)
        BY <1>0, <1>4, <1>6, <3>2, <4>1
      <4>3. h # m
        <5> SUFFICES ASSUME h = m
                     PROVE  FALSE
          OBVIOUS
        <5>1. Len(f.path) = m
          BY <1>0, <1>6, <4>2
        <5> QED  BY <4>1, <5>1
      <4>4. e.path[h] = g.path[h]
        BY <1>0, <3>2, <4>2, <4>3
      <4> QED  BY <1>0, <1>4, <4>2, <4>4 DEF NotLeftmost
    <3> QED  BY <1>1, <3>1, <3>2
  <2>2. NamedAt(t, f.path, i)
    BY <1>6, <2>1 DEF Ordered, Named, NamedAt
  <2> QED  BY <1>3, <2>2
<1> QED  BY <1>1, <1>5, <1>6

(* Only the leaf gets another name. *)
LEMMA JoinedFits ==
    ASSUME NEW t, Ordered(t), Agreed(t), NEW e, NEW x, NEW k \in Keys, NEW v \in Values, Joins(t, e, x, k),
           Fits(t, {})
    PROVE  Fits(Joined(t, x, k, v), {Dir(x, Len(x))})
<1> DEFINE S == Joined(t, x, k, v)
           m == Len(x)
<1>0. /\ Finite(t) /\ k \in Nat /\ e \in t /\ m \in Nat /\ m >= 1 /\ Len(e.path) = m /\ m \in 1..m
      /\ \A j \in 1..(m - 1) : x[j] = e.path[j]
      /\ x[m] = k
      /\ \A f \in t : \A j \in 1..m : Meet(x, f.path, j) <=> Meet(e.path, f.path, j)
      /\ \A f \in t : \A i \in 1..Len(f.path) :
            Meet(f.path, x, i) => Meet(x, f.path, i) /\ i \in 1..m /\ Meet(f.path, e.path, i)
  BY JoinsFacts
<1>13. x \in Seq(Keys) /\ MaxKeys \in Nat
  BY BTreeAssumption DEF Joins
<1>1. \A f \in S : f.path = x \/ f \in t
  BY JoinedFacts
<1>2. Finite(S)
  BY JoinedApart
<1> HIDE DEF S
<1>3. SUFFICES ASSUME NEW f \in S, NEW i \in 1..Len(f.path)
               PROVE  Cardinality(Siblings(S, f.path, i))
                        <= IF Dir(f.path, i) \in {Dir(x, m)} THEN MaxKeys + 1 ELSE MaxKeys
  BY DEF Fits, S
<1>4. PICK d \in t : i \in 1..Len(d.path) /\ (d = f \/ (f.path = x /\ d = e))
  <2>0. i \in 1..Len(f.path)
    BY <1>3
  <2>1. CASE f \in t
    <3>1. i \in 1..Len(f.path) /\ (f = f \/ (f.path = x /\ f = e))
      BY <2>0
    <3> QED  BY <2>1, <3>1
  <2>2. CASE f.path = x
    <3>1. i \in 1..Len(e.path)
      BY <1>0, <2>0, <2>2
    <3> QED  BY <1>0, <2>2, <3>1, Zenon
  <2> QED  BY <1>1, <2>1, <2>2
<1> DEFINE ns == Siblings(S, f.path, i)
           os == Siblings(t, d.path, i)
<1>5. IsFiniteSet(os) /\ Cardinality(os) <= MaxKeys /\ IsFiniteSet(ns)
  BY <1>0, <1>2, <1>4, OwnDirectory DEF Fits
<1>6. f.path \in Seq(Keys) /\ Len(f.path) \in Nat
  BY <1>2, PathFacts
<1>7. ASSUME NEW g \in S, Meet(f.path, g.path, i)
      PROVE  g.path[i] \in os \/ (g.path[i] = k /\ Dir(f.path, i) = Dir(x, m))
  <2>1. CASE g \in t
    <3>1. Meet(d.path, g.path, i)
      BY <1>0, <1>4, <1>7, <2>1
    <3> QED  BY <2>1, <3>1 DEF Siblings
  <2>2. CASE g.path = x
    <3>1. i \in 1..m /\ Meet(d.path, e.path, i)
      <4>1. CASE d = f
        BY <1>0, <1>4, <1>7, <2>2, <4>1
      <4>2. CASE f.path = x /\ d = e
        <5>1. i \in 1..m
          BY <4>2
        <5> QED  BY <1>0, <4>2, <5>1 DEF Meet
      <4> QED  BY <1>4, <4>1, <4>2
    <3>2. CASE i = m
      BY <1>0, <1>13, <1>3, <1>6, <1>7, <2>2, <3>2, DirsAgree
    <3>3. CASE i # m
      <4>1. g.path[i] = e.path[i]
        BY <1>0, <2>2, <3>1, <3>3
      <4> QED  BY <1>0, <3>1, <4>1 DEF Siblings
    <3> QED  BY <3>2, <3>3
  <2> QED  BY <1>1, <2>1, <2>2
<1>8. ns \subseteq os \/ (ns \subseteq os \cup {k} /\ Dir(f.path, i) = Dir(x, m))
  BY <1>7 DEF Siblings
<1> HIDE DEF ns, os
<1>9. CASE ns \subseteq os
  <2>1. Cardinality(ns) \in Nat /\ Cardinality(ns) <= Cardinality(os) /\ Cardinality(os) \in Nat
    BY <1>5, <1>9, Sizes
  <2> QED  BY <1>13, <1>5, <2>1 DEF ns
<1>10. CASE ns \subseteq os \cup {k} /\ Dir(f.path, i) = Dir(x, m)
  <2> DEFINE W == os \cup {k}
  <2>1. IsFiniteSet(W) /\ Cardinality(W) <= Cardinality(os) + 1
    <3>0. Cardinality(os) \in Nat
      BY <1>5, FS_CardinalityType
    <3>1. IsFiniteSet(W) /\ Cardinality(W) = IF k \in os THEN Cardinality(os) ELSE Cardinality(os) + 1
      BY <1>5, FS_AddElement
    <3> HIDE DEF W
    <3> QED  BY <3>0, <3>1
  <2>2. Cardinality(ns) <= Cardinality(W) /\ Cardinality(ns) \in Nat /\ Cardinality(W) \in Nat
    <3>1. ns \subseteq W
      BY <1>10
    <3> HIDE DEF W
    <3> QED  BY <2>1, <3>1, Sizes
  <2>3. Cardinality(os) \in Nat
    BY <1>5, FS_CardinalityType
  <2> HIDE DEF W
  <2> QED  BY <1>13, <1>5, <1>10, <2>1, <2>2, <2>3 DEF ns
<1> QED  BY <1>8, <1>9, <1>10

(* It brings no name but its own. *)
LEMMA JoinedNames ==
    ASSUME NEW t, Ordered(t), Agreed(t), NEW e, NEW x, NEW k \in Keys, NEW v \in Values, Joins(t, e, x, k)
    PROVE  NamesIn(Joined(t, x, k, v)) \subseteq NamesIn(t) \cup {k}
<1>0. Finite(t) /\ Finite(Joined(t, x, k, v))
  BY JoinedApart DEF Ordered
<1>1. ASSUME NEW i \in 1..Len(x), x[i] # k
      PROVE  x[i] \in NamesIn(t)
  <2>1. i \in 1..(Len(x) - 1) /\ i \in 1..Len(e.path) /\ e \in t /\ x[i] = e.path[i]
    BY <1>1, JoinsFacts
  <2> QED  BY <1>0, <2>1, NamesAre
<1> SUFFICES ASSUME NEW n \in NamesIn(Joined(t, x, k, v)), n # k
             PROVE  n \in NamesIn(t)
  OBVIOUS
<1>2. PICK f \in Joined(t, x, k, v) : \E i \in 1..Len(f.path) : n = f.path[i]
  BY <1>0, NamesAre
<1>3. f.path = x \/ f \in t
  BY JoinedFacts
<1> QED  BY <1>0, <1>1, <1>2, <1>3, NamesAre

(* A key is put into its leaf. *)
LEMMA PutKept ==
    ASSUME NEW t, Ordered(t), Agreed(t), Fits(t, {}), NEW k \in Keys, NEW v \in Values
    PROVE  /\ Ordered(Put(t, k, v)) /\ Fits(Put(t, k, v), {LeafFor(t, k)})
           /\ IsDir(Put(t, k, v), LeafFor(t, k))
           /\ Pairs(Put(t, k, v)) = With(Pairs(t), k, v)
           /\ NamesIn(Put(t, k, v)) \subseteq NamesIn(t) \cup {k}
<1>1. CASE t # {}
  <2>1. PICK e \in t, x \in Seq(Keys) : /\ Joins(t, e, x, k) /\ LeafFor(t, k) = Dir(x, Len(x))
                                        /\ Put(t, k, v) = Joined(t, x, k, v)
    BY <1>1, PutJoins
  <2> DEFINE S == Joined(t, x, k, v)
             n == [path |-> x, value |-> v]
  <2>2. Ordered(S)
    BY <2>1, JoinedApart, JoinedNamed DEF Ordered
  <2>3. Fits(S, {Dir(x, Len(x))})
    BY <2>1, JoinedFits
  <2>4. n \in S /\ n.path = x /\ n.value = v
    BY DEF Joined
  <2>5. Len(x) \in 1..Len(x) /\ x[Len(x)] = k
    BY <2>1, JoinsFacts
  <2>6. IsDir(S, Dir(x, Len(x)))
    <3> HIDE DEF S, n
    <3> QED  BY <2>4, <2>5 DEF IsDir
  <2>7. Key(n) = k
    BY <2>5 DEF Key, Last
  <2>8. Pairs(S) = With(Pairs(t), k, v)
    BY <2>4, <2>7 DEF Pairs, Joined, With, Without
  <2>9. NamesIn(S) \subseteq NamesIn(t) \cup {k}
    BY <2>1, JoinedNames
  <2> QED  BY <2>1, <2>2, <2>3, <2>6, <2>8, <2>9
<1>2. CASE t = {}
  <2> DEFINE n == [path |-> <<k>>, value |-> v]
             S == {n}
  <2>1. At(t, k) = {} /\ LeafFor(t, k) = <<>> /\ Append(<<>>, k) = <<k>>
    BY <1>2 DEF At, LeafFor
  <2>2. Put(t, k, v) = S
    BY <1>2, <2>1 DEF Put
  <2>3. n.path = <<k>> /\ n.value = v /\ <<k>> \in Seq(Keys) /\ Len(<<k>>) = 1 /\ <<k>>[1] = k /\ k \in Nat
    BY KeysAreNumbers
  <2>4. n \in Entries
    BY <2>3 DEF Entries
  <2>5. Finite(S)
    <3>1. IsFiniteSet(S)
      BY FS_Singleton
    <3>2. S \subseteq Entries /\ \A e \in S : Len(e.path) \in 1..1
      BY <2>3, <2>4
    <3> QED  BY <3>1, <3>2 DEF Finite
  <2>12. Len(n.path) = 1 /\ n.path[1] = k
    BY <2>3
  <2> HIDE DEF n
  <2>6. Apart(S) /\ Level(S) /\ Unique(S)
    BY <2>3 DEF Apart, Level, Unique
  <2>7. Named(S)
    <3>1. ASSUME NEW e \in S, NEW i \in 1..(Len(e.path) - 1)
          PROVE  FALSE
      <4>1. e = n
        OBVIOUS
      <4>2. Len(e.path) = 1
        BY ONLY <2>12, <4>1
      <4> QED  BY <4>1, <4>2
    <3> QED  BY <3>1 DEF Named
  <2>8. Dir(<<k>>, 1) = <<>>
    <3> DEFINE none == <<>>
               one == <<k>>
    <3>0. one \in Seq(Keys) /\ 1 \in 1..Len(one)
      BY <2>3
    <3>2. none \in Seq(Keys) /\ Len(none) = 0
      OBVIOUS
    <3> HIDE DEF none, one
    <3>1. Dir(one, 1) \in Seq(Keys) /\ Len(Dir(one, 1)) = 1 - 1
      BY <3>0, DirIs
    <3>3. \A j \in 1..Len(none) : Dir(one, 1)[j] = none[j]
      BY <3>2
    <3>4. Dir(one, 1) = none
      BY <3>1, <3>2, <3>3, SeqEqual
    <3> QED  BY <3>4 DEF none, one
  <2>9. IsDir(S, <<>>)
    <3>1. n \in S /\ 1 \in 1..Len(n.path) /\ <<>> = Dir(n.path, 1)
      BY <2>3, <2>8
    <3> QED  BY <3>1 DEF IsDir
  <2>10. Fits(S, {<<>>})
    <3>0. MaxKeys \in Nat /\ MaxKeys >= 2
      BY BTreeAssumption
    <3> SUFFICES ASSUME NEW e \in S, NEW i \in 1..Len(e.path)
                 PROVE  Cardinality(Siblings(S, e.path, i))
                          <= IF Dir(e.path, i) \in {<<>>} THEN MaxKeys + 1 ELSE MaxKeys
      BY DEF Fits
    <3>1. e = n /\ i = 1
      <4>1. e = n
        OBVIOUS
      <4>2. Len(e.path) = 1
        BY ONLY <2>12, <4>1
      <4> QED  BY <4>1, <4>2
    <3>2. Meet(n.path, n.path, 1)
      BY <2>3 DEF Meet
    <3>3. Siblings(S, n.path, i) = {k}
      BY <2>3, <3>1, <3>2 DEF Siblings
    <3>4. Cardinality({k}) = 1
      BY FS_Singleton
    <3>5. Cardinality(Siblings(S, e.path, i)) = 1
      BY <3>1, <3>3, <3>4
    <3> QED  BY <3>0, <3>5
  <2>11. Pairs(S) = {[key |-> k, value |-> v]} /\ Pairs(t) = {}
    <3>1. Key(n) = k
      BY <2>3 DEF Key, Last
    <3> QED  BY <1>2, <2>3, <3>1 DEF Pairs
  <2>13. With(Pairs(t), k, v) = Pairs(S)
    BY <2>11 DEF With, Without
  <2>14. NamesIn(S) \subseteq {k}
    BY <2>5, <2>12, NamesAre
  <2> QED  BY <2>1, <2>2, <2>5, <2>6, <2>7, <2>9, <2>10, <2>11, <2>13, <2>14 DEF Ordered
<1> QED  BY <1>1, <1>2

-----------------------------------------------------------------------------
(* Deletions. *)

(* The n-th directory on the way to entry d has one child, a directory. *)
LiftsAt(t, d, n) ==
    d \in t /\ n \in 1..(Len(d.path) - 1) /\ Siblings(t, d.path, n) = {d.path[n]}

(* Where entry e is when the child takes the place of that directory. *)
Lift(d, n, e) == IF Within(d, n, e) THEN [e EXCEPT !.path = RemoveAt(@, n)] ELSE e

(* The tree after that. *)
AllLifted(t, d, n) == {Lift(d, n, e) : e \in t}

(* A path of what is lifted is shorter by the n-th name. *)
LEMMA LiftFacts ==
    ASSUME NEW t, Ordered(t), NEW d, NEW n, LiftsAt(t, d, n), NEW e \in t,
           NEW u, u = Lift(d, n, e).path
    PROVE  /\ n \in Nat /\ n >= 1 /\ d \in t /\ n + 1 \in 1..Len(d.path)
           /\ Lift(d, n, e) \in Entries /\ Lift(d, n, e).value = e.value /\ Key(Lift(d, n, e)) = Key(e)
           /\ Len(u) \in Nat /\ Len(u) >= 1 /\ Len(e.path) \in Nat
           /\ \A j \in 1..Len(e.path) : e.path[j] \in Nat
           /\ \A j \in 1..Len(u) : u[j] \in Nat
           /\ ~Within(d, n, e) => u = e.path
           /\ Within(d, n, e) =>
                 /\ Len(e.path) >= n + 1 /\ Len(u) = Len(e.path) - 1
                 /\ \A j \in 1..(n - 1) : u[j] = e.path[j]
                 /\ \A j \in n..Len(u) : u[j] = e.path[j + 1]
<1>0. Finite(t)
  BY DEF Ordered
<1>1. d \in t /\ Len(d.path) \in Nat /\ n \in 1..(Len(d.path) - 1)
  BY <1>0, PathFacts DEF LiftsAt
<1>2. n \in Nat /\ n >= 1 /\ n + 1 \in 1..Len(d.path)
  BY <1>1
<1>3. /\ e.path \in Seq(Keys) /\ e.value \in Values /\ Len(e.path) \in Nat /\ Len(e.path) >= 1
      /\ \A j \in 1..Len(e.path) : e.path[j] \in Nat
      /\ Key(e) = e.path[Len(e.path)] /\ e \in Entries
  BY <1>0, PathFacts DEF Finite
<1>4. CASE ~Within(d, n, e)
  <2>1. Lift(d, n, e) = e /\ u = e.path
    BY <1>4 DEF Lift
  <2> QED  BY <1>1, <1>2, <1>3, <1>4, <2>1
<1>5. CASE Within(d, n, e)
  <2> DEFINE q == RemoveAt(e.path, n)
             a == SubSeq(e.path, 1, n - 1)
             b == SubSeq(e.path, n + 1, Len(e.path))
  <2>1. Len(e.path) >= n + 1
    BY <1>2, <1>5 DEF Within, Meet
  <2>2. \A j \in 1..Len(e.path) : e.path[j] \in Keys
    BY <1>3, ElementOfSeq
  <2>3. a \in Seq(Keys) /\ Len(a) = n - 1 /\ \A j \in 1..(n - 1) : a[j] = e.path[j]
    <3>1. \A j \in 1..(n - 1) : e.path[j] \in Keys
      BY <1>2, <1>3, <2>1, <2>2
    <3>2. /\ a \in Seq(Keys) /\ Len(a) = IF 1 <= n - 1 THEN (n - 1) - 1 + 1 ELSE 0
          /\ \A j \in 1..((n - 1) - 1 + 1) : a[j] = e.path[1 + j - 1]
      BY <1>2, <1>3, <2>1, <3>1, SubSeqProperties
    <3> HIDE DEF a
    <3> QED  BY <1>2, <3>2
  <2>4. /\ b \in Seq(Keys) /\ Len(b) = Len(e.path) - n
        /\ \A j \in 1..(Len(e.path) - n) : b[j] = e.path[n + j]
    <3>1. \A j \in (n + 1)..Len(e.path) : e.path[j] \in Keys
      BY <1>2, <1>3, <2>1, <2>2
    <3>2. /\ b \in Seq(Keys) /\ Len(b) = IF n + 1 <= Len(e.path) THEN Len(e.path) - (n + 1) + 1 ELSE 0
          /\ \A j \in 1..(Len(e.path) - (n + 1) + 1) : b[j] = e.path[(n + 1) + j - 1]
      BY <1>2, <1>3, <2>1, <3>1, SubSeqProperties
    <3> HIDE DEF b
    <3> QED  BY <1>2, <1>3, <2>1, <3>2
  <2>5. q = a \o b
    BY DEF RemoveAt
  <2> HIDE DEF q, a, b
  <2>6. /\ q \in Seq(Keys) /\ Len(q) = Len(a) + Len(b)
        /\ \A j \in 1..(Len(a) + Len(b)) : q[j] = IF j <= Len(a) THEN a[j] ELSE b[j - Len(a)]
    BY <2>3, <2>4, <2>5, ConcatProperties
  <2>7. Len(q) = Len(e.path) - 1 /\ Len(q) \in Nat /\ Len(q) >= 1
    BY <1>2, <1>3, <2>1, <2>3, <2>4, <2>6
  <2>8. ASSUME NEW j \in 1..(n - 1)
        PROVE  q[j] = e.path[j]
    <3>1. j \in 1..(Len(a) + Len(b)) /\ j <= Len(a)
      BY <1>2, <1>3, <2>1, <2>3, <2>4
    <3> QED  BY <2>3, <2>6, <3>1
  <2>9. ASSUME NEW j \in n..Len(q)
        PROVE  q[j] = e.path[j + 1]
    <3>1. /\ j \in 1..(Len(a) + Len(b)) /\ ~(j <= Len(a)) /\ j - Len(a) \in 1..(Len(e.path) - n)
          /\ n + (j - Len(a)) = j + 1
      BY <1>2, <1>3, <2>1, <2>3, <2>4, <2>6
    <3> QED  BY <2>4, <2>6, <3>1
  <2>10. Lift(d, n, e) = [e EXCEPT !.path = q]
    BY <1>5 DEF Lift, q
  <2>11. Lift(d, n, e).path = q /\ Lift(d, n, e).value = e.value /\ Lift(d, n, e) \in Entries
    BY <1>3, <2>6, <2>10 DEF Entries
  <2>12. Key(Lift(d, n, e)) = Key(e)
    <3>1. Key(Lift(d, n, e)) = q[Len(q)]
      BY <2>11 DEF Key, Last
    <3>2. Len(q) \in n..Len(q) /\ Len(q) + 1 = Len(e.path)
      BY <1>2, <1>3, <2>1, <2>7
    <3>3. q[Len(q)] = e.path[Len(q) + 1]
      BY <2>9, <3>2
    <3> QED  BY <1>3, <3>1, <3>2, <3>3
  <2>13. \A j \in 1..Len(q) : q[j] \in Nat
    <3>1. \A j \in 1..Len(q) : q[j] \in Keys
      BY <2>6, ElementOfSeq
    <3> QED  BY <3>1, KeysAreNumbers
  <2> QED  BY <1>1, <1>2, <1>3, <1>5, <2>1, <2>7, <2>8, <2>9, <2>11, <2>12, <2>13
<1> QED  BY <1>4, <1>5

(* Paths meet after the lift where they met before it. *)
LEMMA LiftMeets ==
    ASSUME NEW t, Ordered(t), NEW d, NEW n, LiftsAt(t, d, n), NEW e \in t, NEW f \in t,
           NEW u, u = Lift(d, n, e).path, NEW v, v = Lift(d, n, f).path, NEW i \in Nat
    PROVE  /\ i <= n => (Meet(u, v, i) <=> Meet(e.path, f.path, i))
           /\ i >= n /\ Meet(u, v, i) => (Within(d, n, e) <=> Within(d, n, f))
           /\ i >= n /\ Meet(e.path, f.path, i) => (Within(d, n, e) <=> Within(d, n, f))
           /\ i >= n /\ Within(d, n, e) /\ Within(d, n, f)
                 => (Meet(u, v, i) <=> Meet(e.path, f.path, i + 1))
<1>0. /\ n \in Nat /\ n >= 1 /\ d \in t /\ n + 1 \in 1..Len(d.path)
      /\ Len(u) \in Nat /\ Len(e.path) \in Nat
      /\ ~Within(d, n, e) => u = e.path
      /\ Within(d, n, e) =>
            /\ Len(e.path) >= n + 1 /\ Len(u) = Len(e.path) - 1
            /\ \A j \in 1..(n - 1) : u[j] = e.path[j]
            /\ \A j \in n..Len(u) : u[j] = e.path[j + 1]
  <2>1. /\ n \in Nat /\ n >= 1 /\ d \in t /\ n + 1 \in 1..Len(d.path)
        /\ Len(u) \in Nat /\ Len(e.path) \in Nat
    BY ONLY Ordered(t), LiftsAt(t, d, n), e \in t, u = Lift(d, n, e).path, LiftFacts
  <2>2. ~Within(d, n, e) => u = e.path
    BY ONLY Ordered(t), LiftsAt(t, d, n), e \in t, u = Lift(d, n, e).path, LiftFacts
  <2>3. ASSUME Within(d, n, e)
        PROVE  /\ Len(e.path) >= n + 1 /\ Len(u) = Len(e.path) - 1
               /\ \A j \in 1..(n - 1) : u[j] = e.path[j]
               /\ \A j \in n..Len(u) : u[j] = e.path[j + 1]
    BY ONLY Ordered(t), LiftsAt(t, d, n), e \in t, u = Lift(d, n, e).path, <2>3, LiftFacts
  <2> QED  BY <2>1, <2>2, <2>3
<1>1. /\ Len(v) \in Nat /\ Len(f.path) \in Nat
      /\ ~Within(d, n, f) => v = f.path
      /\ Within(d, n, f) =>
            /\ Len(f.path) >= n + 1 /\ Len(v) = Len(f.path) - 1
            /\ \A j \in 1..(n - 1) : v[j] = f.path[j]
            /\ \A j \in n..Len(v) : v[j] = f.path[j + 1]
  <2>1. Len(v) \in Nat /\ Len(f.path) \in Nat
    BY ONLY Ordered(t), LiftsAt(t, d, n), f \in t, v = Lift(d, n, f).path, LiftFacts
  <2>2. ~Within(d, n, f) => v = f.path
    BY ONLY Ordered(t), LiftsAt(t, d, n), f \in t, v = Lift(d, n, f).path, LiftFacts
  <2>3. ASSUME Within(d, n, f)
        PROVE  /\ Len(f.path) >= n + 1 /\ Len(v) = Len(f.path) - 1
               /\ \A j \in 1..(n - 1) : v[j] = f.path[j]
               /\ \A j \in n..Len(v) : v[j] = f.path[j + 1]
    BY ONLY Ordered(t), LiftsAt(t, d, n), f \in t, v = Lift(d, n, f).path, <2>3, LiftFacts
  <2> QED  BY <2>1, <2>2, <2>3
<1>2. Len(d.path) \in Nat
  BY PathFacts DEF Ordered
<1>3. ASSUME NEW g \in t, Meet(d.path, g.path, n)
      PROVE  Within(d, n, g)
  <2>1. g.path[n] = d.path[n] /\ Len(g.path) \in Nat /\ n <= Len(g.path)
    <3>1. g.path[n] \in Siblings(t, d.path, n)
      BY <1>3 DEF Siblings
    <3> QED  BY <1>3, <3>1, PathFacts DEF LiftsAt, Ordered, Meet
  <2>2. n # Len(g.path)
    <3> SUFFICES ASSUME n = Len(g.path)
                 PROVE  FALSE
      OBVIOUS
    <3>1. Meet(g.path, d.path, Len(g.path))
      BY <1>2, <1>3, MeetsBack
    <3>2. Len(d.path) = Len(g.path)
      BY <1>0, <3>1 DEF Ordered, Level
    <3> QED  BY <1>0, <1>2, <3>2
  <2>3. \A j \in 1..n : d.path[j] = g.path[j]
    BY <1>0, <1>3, <2>1 DEF Meet
  <2> QED  BY <1>0, <2>1, <2>2, <2>3 DEF Within, Meet
<1> DEFINE x == e.path
           y == f.path
<1>10. /\ n \in Nat /\ n >= 1 /\ d \in t /\ n + 1 \in 1..Len(d.path)
       /\ Len(u) \in Nat /\ Len(x) \in Nat
       /\ ~Within(d, n, e) => u = x
       /\ Within(d, n, e) =>
             /\ Len(x) >= n + 1 /\ Len(u) = Len(x) - 1
             /\ \A j \in 1..(n - 1) : u[j] = x[j]
             /\ \A j \in n..Len(u) : u[j] = x[j + 1]
  BY <1>0
<1>11. /\ Len(v) \in Nat /\ Len(y) \in Nat
       /\ ~Within(d, n, f) => v = y
       /\ Within(d, n, f) =>
             /\ Len(y) >= n + 1 /\ Len(v) = Len(y) - 1
             /\ \A j \in 1..(n - 1) : v[j] = y[j]
             /\ \A j \in n..Len(v) : v[j] = y[j + 1]
  BY <1>1
<1>4. /\ Within(d, n, e) => \A j \in 1..n : x[j] = d.path[j]
      /\ Within(d, n, f) => \A j \in 1..n : y[j] = d.path[j]
  BY <1>10 DEF Within, Meet
<1> HIDE DEF x, y
<1>5. (\A j \in 1..(n - 1) : u[j] = x[j]) /\ (\A j \in 1..(n - 1) : v[j] = y[j])
  BY <1>10, <1>11
<1>6. ASSUME i <= n
      PROVE  Meet(u, v, i) <=> Meet(x, y, i)
  <2>1. (i \in 1..Len(u) <=> i \in 1..Len(x)) /\ (i <= Len(v) <=> i <= Len(y))
    <3>1. i \in 1..Len(u) <=> i \in 1..Len(x)
      BY <1>10, <1>6
    <3>2. i <= Len(v) <=> i <= Len(y)
      BY <1>10, <1>11, <1>6
    <3> QED  BY <3>1, <3>2
  <2>2. \A j \in 1..(i - 1) : u[j] = x[j] /\ v[j] = y[j]
    BY <1>10, <1>5, <1>6
  <2> QED  BY <2>1, <2>2 DEF Meet
<1>7. ASSUME i >= n, Meet(x, y, i)
      PROVE  Within(d, n, e) <=> Within(d, n, f)
  <2>1. Meet(x, y, n) /\ Meet(y, x, n)
    BY <1>10, <1>11, <1>7 DEF Meet
  <2>2. ASSUME Within(d, n, e)
        PROVE  Within(d, n, f)
    <3>1. Meet(d.path, y, n)
      <4>1. n \in 1..Len(d.path) /\ n <= Len(y) /\ \A j \in 1..(n - 1) : x[j] = y[j] /\ j \in 1..n
        BY <1>10, <1>2, <2>1 DEF Meet
      <4> QED  BY <1>4, <4>1, <2>2 DEF Meet
    <3> QED  BY <1>3, <3>1 DEF y
  <2>3. ASSUME Within(d, n, f)
        PROVE  Within(d, n, e)
    <3>1. Meet(d.path, x, n)
      <4>1. n \in 1..Len(d.path) /\ n <= Len(x) /\ \A j \in 1..(n - 1) : j \in 1..n
        BY <1>10, <2>1 DEF Meet
      <4>2. \A j \in 1..(n - 1) : x[j] = y[j]
        BY <2>1 DEF Meet
      <4>3. \A j \in 1..n : y[j] = d.path[j]
        BY <1>4, <2>3
      <4> QED  BY <4>1, <4>2, <4>3 DEF Meet
    <3> QED  BY <1>3, <3>1 DEF x
  <2> QED  BY <2>2, <2>3
<1>8. ASSUME i >= n, Meet(u, v, i)
      PROVE  Within(d, n, e) <=> Within(d, n, f)
  <2>1. Meet(u, v, n)
    BY <1>10, <1>11, <1>8 DEF Meet
  <2>2. n \in 1..Len(x) /\ n <= Len(y)
    <3>1. n <= Len(x)
      BY <1>10, <2>1 DEF Meet
    <3>2. n <= Len(y)
      BY <1>10, <1>11, <2>1 DEF Meet
    <3> QED  BY <1>10, <3>1, <3>2
  <2>3. Meet(x, y, n)
    BY <1>5, <2>1, <2>2 DEF Meet
  <2>4. Meet(y, x, n)
    BY <1>10, <1>11, <2>2, <2>3 DEF Meet
  <2>5. ASSUME Within(d, n, e)
        PROVE  Within(d, n, f)
    <3>1. Meet(d.path, y, n)
      <4>1. n \in 1..Len(d.path) /\ n <= Len(y) /\ \A j \in 1..(n - 1) : x[j] = y[j] /\ j \in 1..n
        BY <1>10, <1>2, <2>3 DEF Meet
      <4> QED  BY <1>4, <4>1, <2>5 DEF Meet
    <3> QED  BY <1>3, <3>1 DEF y
  <2>6. ASSUME Within(d, n, f)
        PROVE  Within(d, n, e)
    <3>1. Meet(d.path, x, n)
      BY <1>10, <1>2, <1>4, <2>4, <2>6 DEF Meet
    <3> QED  BY <1>3, <3>1 DEF x
  <2> QED  BY <2>5, <2>6
<1>9. ASSUME i >= n, Within(d, n, e), Within(d, n, f)
      PROVE  Meet(u, v, i) <=> Meet(x, y, i + 1)
  <2>1. /\ Len(x) = Len(u) + 1 /\ Len(y) = Len(v) + 1
        /\ \A j \in n..Len(u) : u[j] = x[j + 1]
        /\ \A j \in n..Len(v) : v[j] = y[j + 1]
        /\ \A j \in 1..n : x[j] = y[j]
    BY <1>10, <1>11, <1>4, <1>9
  <2>2. i \in 1..Len(u) <=> i + 1 \in 1..Len(x)
    BY <1>10, <1>9, <2>1
  <2>3. i <= Len(v) <=> i + 1 <= Len(y)
    BY <1>11, <2>1
  <2>4. ASSUME i \in 1..Len(u), i <= Len(v)
        PROVE  (\A j \in 1..(i - 1) : u[j] = v[j]) <=> \A j \in 1..((i + 1) - 1) : x[j] = y[j]
    <3>1. ASSUME \A j \in 1..(i - 1) : u[j] = v[j], NEW j \in 1..((i + 1) - 1)
          PROVE  x[j] = y[j]
      <4>1. CASE j <= n
        BY <1>10, <2>1, <4>1
      <4>2. CASE ~(j <= n)
        <5>1. /\ j - 1 \in n..Len(u) /\ j - 1 \in n..Len(v) /\ j - 1 \in 1..(i - 1)
              /\ (j - 1) + 1 = j
          BY <1>10, <1>11, <2>4, <4>2
        <5> QED  BY <2>1, <3>1, <5>1
      <4> QED  BY <4>1, <4>2
    <3>2. ASSUME \A j \in 1..((i + 1) - 1) : x[j] = y[j], NEW j \in 1..(i - 1)
          PROVE  u[j] = v[j]
      <4>1. CASE j \in 1..(n - 1)
        <5>1. x[j] = y[j]
          BY <1>10, <2>1, <4>1
        <5> QED  BY <1>5, <4>1, <5>1
      <4>2. CASE j \notin 1..(n - 1)
        <5>1. j \in n..Len(u) /\ j \in n..Len(v) /\ j + 1 \in 1..((i + 1) - 1)
          BY <1>10, <1>11, <2>4, <4>2
        <5> QED  BY <2>1, <3>2, <5>1
      <4> QED  BY <4>1, <4>2
    <3> QED  BY <3>1, <3>2
  <2> QED  BY <2>2, <2>3, <2>4 DEF Meet
<1> QED  BY <1>6, <1>7, <1>8, <1>9 DEF x, y


(* The name that stands i-th after the lift stood s-th before it, among the same names. *)
LEMMA LiftSame ==
    ASSUME NEW t, Ordered(t), NEW d, NEW n, LiftsAt(t, d, n), NEW e \in t, NEW f \in t,
           NEW u, u = Lift(d, n, e).path, NEW v, v = Lift(d, n, f).path, NEW i \in 1..Len(u),
           NEW s, s = IF i >= n /\ Within(d, n, e) THEN i + 1 ELSE i
    PROVE  /\ s \in 1..Len(e.path) /\ u[i] = e.path[s]
           /\ Meet(u, v, i) <=> Meet(e.path, f.path, s)
           /\ Meet(u, v, i) => v[i] = f.path[s] /\ (i >= n => (Within(d, n, e) <=> Within(d, n, f)))
<1>0. /\ n \in Nat /\ n >= 1 /\ Len(u) \in Nat /\ Len(e.path) \in Nat
      /\ ~Within(d, n, e) => u = e.path
      /\ Within(d, n, e) =>
            /\ Len(e.path) >= n + 1 /\ Len(u) = Len(e.path) - 1
            /\ \A j \in 1..(n - 1) : u[j] = e.path[j]
            /\ \A j \in n..Len(u) : u[j] = e.path[j + 1]
  <2>1. n \in Nat /\ n >= 1
    BY ONLY Ordered(t), LiftsAt(t, d, n), e \in t, u = Lift(d, n, e).path, LiftFacts
  <2>2. /\ Len(u) \in Nat /\ Len(e.path) \in Nat
        /\ ~Within(d, n, e) => u = e.path
        /\ Within(d, n, e) =>
              /\ Len(e.path) >= n + 1 /\ Len(u) = Len(e.path) - 1
              /\ \A j \in 1..(n - 1) : u[j] = e.path[j]
              /\ \A j \in n..Len(u) : u[j] = e.path[j + 1]
    BY ONLY Ordered(t), LiftsAt(t, d, n), e \in t, u = Lift(d, n, e).path, LiftFacts, SMTT(30)
  <2> QED  BY <2>1, <2>2
<1>1. /\ Len(v) \in Nat /\ Len(f.path) \in Nat
      /\ ~Within(d, n, f) => v = f.path
      /\ Within(d, n, f) =>
            /\ Len(f.path) >= n + 1 /\ Len(v) = Len(f.path) - 1
            /\ \A j \in 1..(n - 1) : v[j] = f.path[j]
            /\ \A j \in n..Len(v) : v[j] = f.path[j + 1]
  <2>1. Len(v) \in Nat /\ Len(f.path) \in Nat
    BY ONLY Ordered(t), LiftsAt(t, d, n), f \in t, v = Lift(d, n, f).path, LiftFacts
  <2>2. ~Within(d, n, f) => v = f.path
    BY ONLY Ordered(t), LiftsAt(t, d, n), f \in t, v = Lift(d, n, f).path, LiftFacts
  <2>3. ASSUME Within(d, n, f)
        PROVE  /\ Len(f.path) >= n + 1 /\ Len(v) = Len(f.path) - 1
               /\ \A j \in 1..(n - 1) : v[j] = f.path[j]
               /\ \A j \in n..Len(v) : v[j] = f.path[j + 1]
    BY ONLY Ordered(t), LiftsAt(t, d, n), f \in t, v = Lift(d, n, f).path, <2>3, LiftFacts
  <2> QED  BY <2>1, <2>2, <2>3
<1>2. i \in Nat
  BY <1>0
<1>3. /\ i <= n => (Meet(u, v, i) <=> Meet(e.path, f.path, i))
      /\ i >= n /\ Meet(u, v, i) => (Within(d, n, e) <=> Within(d, n, f))
      /\ i >= n /\ Meet(e.path, f.path, i) => (Within(d, n, e) <=> Within(d, n, f))
      /\ i >= n /\ Within(d, n, e) /\ Within(d, n, f)
            => (Meet(u, v, i) <=> Meet(e.path, f.path, i + 1))
  BY <1>2, LiftMeets
<1>4. CASE i >= n /\ Within(d, n, e)
  <2>1. s = i + 1 /\ s \in 1..Len(e.path) /\ i \in n..Len(u)
    BY <1>0, <1>4
  <2>2. u[i] = e.path[s]
    BY <1>0, <1>4, <2>1
  <2>3. ASSUME Meet(e.path, f.path, i + 1)
        PROVE  Meet(u, v, i)
    <3>1. Meet(e.path, f.path, i)
      BY <1>0, <1>1, <1>2, <2>1, <2>3 DEF Meet
    <3> QED  BY <1>3, <1>4, <2>3, <3>1
  <2>4. ASSUME Meet(u, v, i)
        PROVE  Meet(e.path, f.path, s) /\ v[i] = f.path[s] /\ Within(d, n, f)
    <3>1. Within(d, n, f)
      BY <1>3, <1>4, <2>4
    <3>2. Meet(e.path, f.path, s)
      BY <1>3, <1>4, <2>1, <2>4, <3>1
    <3>3. i \in n..Len(v)
      BY <1>0, <1>1, <1>2, <1>4, <2>4 DEF Meet
    <3> QED  BY <1>1, <2>1, <3>1, <3>2, <3>3
  <2> QED  BY <1>4, <2>1, <2>2, <2>3, <2>4
<1>5. CASE i >= n /\ ~Within(d, n, e)
  <2>1. s = i /\ u = e.path
    BY <1>0, <1>5
  <2>2. ASSUME ~Within(d, n, f)
        PROVE  v = f.path
    BY <1>1, <2>2
  <2>3. ASSUME Meet(u, v, i) \/ Meet(e.path, f.path, i)
        PROVE  ~Within(d, n, f)
    BY <1>3, <1>5, <2>3
  <2> QED  BY <1>5, <2>1, <2>2, <2>3
<1>6. CASE ~(i >= n)
  <2>1. s = i /\ i <= n /\ i \in 1..(n - 1)
    BY <1>0, <1>2, <1>6
  <2>2. u[i] = e.path[i] /\ v[i] = f.path[i]
    BY <1>0, <1>1, <2>1
  <2>3. i \in 1..Len(e.path)
    BY <1>0
  <2> QED  BY <1>3, <1>6, <2>1, <2>2, <2>3
<1> QED  BY <1>4, <1>5, <1>6

(* A directory keeps its names. *)
LEMMA LiftedSiblings ==
    ASSUME NEW t, Ordered(t), NEW d, NEW n, LiftsAt(t, d, n), NEW e \in t,
           NEW u, u = Lift(d, n, e).path, NEW i \in 1..Len(u),
           NEW s, s = IF i >= n /\ Within(d, n, e) THEN i + 1 ELSE i
    PROVE  /\ s \in 1..Len(e.path)
           /\ Siblings(AllLifted(t, d, n), u, i) = Siblings(t, e.path, s)
           /\ NotLeftmost(AllLifted(t, d, n), u, i) => NotLeftmost(t, e.path, s)
<1> DEFINE L(f) == Lift(d, n, f)
           S == AllLifted(t, d, n)
<1>1. s \in 1..Len(e.path)
  BY LiftSame
<1>2. ASSUME NEW f \in t
      PROVE  /\ Meet(u, L(f).path, i) <=> Meet(e.path, f.path, s)
             /\ Meet(u, L(f).path, i) => L(f).path[i] = f.path[s]
  BY LiftSame
<1>3. Siblings(S, u, i) = {L(f).path[i] : f \in {f \in t : Meet(u, L(f).path, i)}}
  BY DEF Siblings, AllLifted
<1>4. Siblings(S, u, i) = Siblings(t, e.path, s)
  <2> HIDE DEF L, S
  <2> QED  BY <1>2, <1>3 DEF Siblings
<1>5. ASSUME NotLeftmost(S, u, i)
      PROVE  NotLeftmost(t, e.path, s)
  <2>1. PICK h \in 1..i, f \in t : Meet(u, L(f).path, h) /\ L(f).path[h] < u[h]
    BY <1>5 DEF NotLeftmost, AllLifted
  <2> DEFINE r == IF h >= n /\ Within(d, n, e) THEN h + 1 ELSE h
  <2>2. h \in 1..Len(u) /\ Len(u) \in Nat /\ n \in Nat
    BY LiftFacts
  <2>3. r \in 1..s
    BY <2>2
  <2> HIDE DEF r
  <2>4. Meet(e.path, f.path, r) /\ L(f).path[h] = f.path[r] /\ u[h] = e.path[r]
    <3>1. r = IF h >= n /\ Within(d, n, e) THEN h + 1 ELSE h
      BY DEF r
    <3> HIDE DEF L
    <3>2. ASSUME NEW v, v = Lift(d, n, f).path
          PROVE  /\ u[h] = e.path[r] /\ (Meet(u, v, h) <=> Meet(e.path, f.path, r))
                 /\ Meet(u, v, h) => v[h] = f.path[r]
      BY ONLY Ordered(t), LiftsAt(t, d, n), e \in t, f \in t, u = Lift(d, n, e).path,
              h \in 1..Len(u), <2>2, <3>1, v = Lift(d, n, f).path, LiftSame, SMTT(30)
    <3> QED  BY <2>1, <3>2 DEF L
  <2> QED  BY <2>1, <2>3, <2>4 DEF NotLeftmost
<1> QED  BY <1>1, <1>4, <1>5


(* A lift loses no entry. *)
LEMMA LiftedPairs ==
    ASSUME NEW t, Ordered(t), NEW d, NEW n, LiftsAt(t, d, n)
    PROVE  Pairs(AllLifted(t, d, n)) = Pairs(t)
<1> DEFINE L(e) == Lift(d, n, e)
           P(e) == [key |-> Key(e), value |-> e.value]
<1>1. \A e \in t : P(L(e)) = P(e)
  BY LiftFacts
<1>2. Pairs(AllLifted(t, d, n)) = {P(L(e)) : e \in t}
  BY DEF Pairs, AllLifted
<1> HIDE DEF P, L
<1>3. {P(L(e)) : e \in t} = {P(e) : e \in t}
  BY <1>1
<1> QED  BY <1>2, <1>3 DEF Pairs, P

(* A tree stays in order when the only child of a directory takes its place, *)
LEMMA LiftedOrdered ==
    ASSUME NEW t, Ordered(t), NEW d, NEW n, LiftsAt(t, d, n)
    PROVE  Ordered(AllLifted(t, d, n))
<1> DEFINE L(e) == Lift(d, n, e)
           S == AllLifted(t, d, n)
           F == [e \in t |-> L(e)]
           At0(e, i) == IF i >= n /\ Within(d, n, e) THEN i + 1 ELSE i
<1>1. ASSUME NEW e \in t
      PROVE  /\ L(e) \in Entries /\ Len(L(e).path) \in Nat /\ Len(L(e).path) >= 1
             /\ Len(e.path) \in Nat /\ n \in Nat /\ n >= 1
             /\ Len(L(e).path) = IF Within(d, n, e) THEN Len(e.path) - 1 ELSE Len(e.path)
             /\ Within(d, n, e) => Len(e.path) >= n + 1
             /\ \A j \in 1..Len(e.path) : e.path[j] \in Nat
  <2>1. ASSUME NEW u, u = Lift(d, n, e).path
        PROVE  /\ Lift(d, n, e) \in Entries /\ n \in Nat /\ n >= 1
               /\ Len(u) \in Nat /\ Len(u) >= 1 /\ Len(e.path) \in Nat
               /\ \A j \in 1..Len(e.path) : e.path[j] \in Nat
    BY ONLY Ordered(t), LiftsAt(t, d, n), e \in t, u = Lift(d, n, e).path, LiftFacts
  <2>2. ASSUME NEW u, u = Lift(d, n, e).path
        PROVE  /\ ~Within(d, n, e) => u = e.path
               /\ Within(d, n, e) => Len(e.path) >= n + 1 /\ Len(u) = Len(e.path) - 1
    BY ONLY Ordered(t), LiftsAt(t, d, n), e \in t, u = Lift(d, n, e).path, LiftFacts
  <2> QED  BY <2>1, <2>2
<1>2. ASSUME NEW e \in t, NEW f \in t, NEW i \in 1..Len(L(e).path)
      PROVE  /\ At0(e, i) \in 1..Len(e.path) /\ L(e).path[i] = e.path[At0(e, i)]
             /\ Meet(L(e).path, L(f).path, i) <=> Meet(e.path, f.path, At0(e, i))
             /\ Meet(L(e).path, L(f).path, i) =>
                   /\ L(f).path[i] = f.path[At0(e, i)]
                   /\ i >= n => (Within(d, n, e) <=> Within(d, n, f))
  BY LiftSame
<1>3. Finite(S)
  <2>1. F \in Surjection(t, S)
    BY DEF Surjection, AllLifted
  <2>2. IsFiniteSet(S)
    <3> HIDE DEF F, S
    <3> QED  BY <2>1, FS_Surjection DEF Ordered, Finite
  <2>3. PICK m \in Nat : \A e \in t : Len(e.path) \in 1..m
    BY DEF Ordered, Finite
  <2>4. ASSUME NEW e \in t
        PROVE  L(e) \in Entries /\ Len(L(e).path) \in 1..m
    <3> HIDE DEF L
    <3> QED  BY <1>1, <2>3
  <2>5. S \subseteq Entries /\ \A f \in S : Len(f.path) \in 1..m
    BY <2>4 DEF AllLifted
  <2> QED  BY <2>2, <2>3, <2>5 DEF Finite
<1>4. ASSUME NEW e \in t, NEW f \in t, L(e).path = L(f).path
      PROVE  e = f
  <2>1. Key(L(e)) = Key(L(f))
    BY <1>4 DEF Key
  <2>2. Key(e) = Key(f)
    BY <2>1, LiftFacts
  <2> QED  BY <2>2, KeysDiffer
<1>5. ASSUME NEW e \in t, NEW f \in t, Meet(L(e).path, L(f).path, Len(L(e).path))
      PROVE  Len(L(f).path) = Len(L(e).path)
  <2> DEFINE m == Len(L(e).path)
  <2>0. m \in 1..Len(L(e).path)
    BY <1>1
  <2>1. Meet(e.path, f.path, At0(e, m)) /\ (m >= n => (Within(d, n, e) <=> Within(d, n, f)))
    <3> HIDE DEF L, At0, m
    <3>1. m = Len(L(e).path)
      BY DEF m
    <3> QED  BY <1>2, <1>5, <2>0, <3>1
  <2>2. At0(e, m) = Len(e.path)
    <3> HIDE DEF L
    <3> QED  BY <1>1, SMTT(30)
  <2>3. Len(f.path) = Len(e.path)
    <3> HIDE DEF L, At0, m
    <3> QED  BY <2>1, <2>2 DEF Ordered, Level
  <2> HIDE DEF L
  <2>4. CASE m >= n
    BY <1>1, <2>1, <2>3, <2>4
  <2>5. CASE ~(m >= n)
    BY <1>1, <2>3, <2>5
  <2> QED  BY <2>4, <2>5
<1>6. ASSUME NEW e \in t, NEW f \in t, NEW i \in 1..Len(L(e).path),
             Meet(L(e).path, L(f).path, i), L(e).path[i] < L(f).path[i],
             NEW j \in i..Len(L(e).path)
      PROVE  L(e).path[j] < L(f).path[i]
  <2> HIDE DEF L
  <2>0. j \in 1..Len(L(e).path)
    BY <1>1
  <2>1. /\ At0(e, i) \in 1..Len(e.path) /\ Meet(e.path, f.path, At0(e, i))
        /\ L(e).path[i] = e.path[At0(e, i)] /\ L(f).path[i] = f.path[At0(e, i)]
    <3> HIDE DEF At0
    <3> QED  BY <1>2, <1>6
  <2>2. At0(e, j) \in 1..Len(e.path) /\ L(e).path[j] = e.path[At0(e, j)]
    <3> HIDE DEF At0
    <3> QED  BY <1>2, <2>0
  <2>3. At0(e, j) \in At0(e, i)..Len(e.path)
    BY <1>1, <2>2
  <2> HIDE DEF At0
  <2> QED  BY <1>6, <2>1, <2>2, <2>3 DEF Ordered, Apart
<1>7. ASSUME NEW e \in t, NEW i \in 1..(Len(L(e).path) - 1), NotLeftmost(S, L(e).path, i)
      PROVE  /\ \A j \in i..Len(L(e).path) : L(e).path[i] <= L(e).path[j]
             /\ \E g \in t : /\ Meet(L(e).path, L(g).path, i + 1)
                             /\ \A j \in i..Len(L(g).path) : L(g).path[j] = L(e).path[i]
  <2>0. i \in 1..Len(L(e).path) /\ i + 1 \in 1..Len(L(e).path) /\ i \in Nat
    <3> HIDE DEF L
    <3> QED  BY <1>1
  <2>1. NotLeftmost(t, e.path, At0(e, i))
    <3> HIDE DEF At0
    <3>1. At0(e, i) = IF i >= n /\ Within(d, n, e) THEN i + 1 ELSE i
      BY DEF At0
    <3> QED  BY <1>7, <2>0, <3>1, LiftedSiblings
  <2> HIDE DEF L
  <2>2. At0(e, i) \in 1..(Len(e.path) - 1) /\ At0(e, i) \in Nat
    BY <1>1, <2>0
  <2>3. L(e).path[i] = e.path[At0(e, i)]
    <3> HIDE DEF At0
    <3> QED  BY <1>2, <2>0
  <2>4. /\ \A j \in At0(e, i)..Len(e.path) : e.path[At0(e, i)] <= e.path[j]
        /\ \E g \in t : /\ Meet(e.path, g.path, At0(e, i) + 1)
                        /\ \A j \in At0(e, i)..Len(g.path) : g.path[j] = e.path[At0(e, i)]
    <3> HIDE DEF At0
    <3> QED  BY <2>1, <2>2 DEF Ordered, Named
  <2>5. ASSUME NEW j \in i..Len(L(e).path)
        PROVE  L(e).path[i] <= L(e).path[j]
    <3>0. j \in 1..Len(L(e).path)
      BY <1>1, <2>0
    <3>1. At0(e, j) \in 1..Len(e.path) /\ L(e).path[j] = e.path[At0(e, j)]
      <4> HIDE DEF At0
      <4> QED  BY <1>2, <3>0
    <3>2. At0(e, j) \in At0(e, i)..Len(e.path)
      BY <1>1, <3>1
    <3> HIDE DEF At0
    <3> QED  BY <2>3, <2>4, <3>1, <3>2
  <2>6. PICK g \in t : /\ Meet(e.path, g.path, At0(e, i) + 1)
                       /\ \A j \in At0(e, i)..Len(g.path) : g.path[j] = e.path[At0(e, i)]
    BY <2>4
  <2>7. /\ Meet(L(e).path, L(g).path, i + 1)
        /\ i >= n => (Within(d, n, e) <=> Within(d, n, g))
    <3>1. CASE i >= n
      <4>1. At0(e, i) + 1 = At0(e, i + 1)
        BY <1>1, <2>0, <3>1
      <4>2. i + 1 >= n
        BY <1>1, <2>0, <3>1
      <4> HIDE DEF At0
      <4>3. Meet(L(e).path, L(g).path, i + 1)
        BY <1>2, <2>0, <2>6, <4>1
      <4> QED  BY <1>2, <2>0, <4>2, <4>3
    <3>2. CASE ~(i >= n)
      <4>1. i + 1 \in Nat /\ i + 1 <= n /\ At0(e, i) = i
        BY <1>1, <2>0, <3>2
      <4>2. Meet(e.path, g.path, i + 1)
        BY <2>6, <4>1
      <4>3. Meet(L(e).path, L(g).path, i + 1) <=> Meet(e.path, g.path, i + 1)
        BY ONLY Ordered(t), LiftsAt(t, d, n), e \in t, g \in t, <4>1, LiftMeets DEF L
      <4> QED  BY <3>2, <4>2, <4>3
    <3> QED  BY <3>1, <3>2
  <2>8. ASSUME NEW j \in i..Len(L(g).path)
        PROVE  L(g).path[j] = L(e).path[i]
    <3>0. j \in 1..Len(L(g).path)
      BY <1>1, <2>0
    <3>1. At0(g, j) \in 1..Len(g.path) /\ L(g).path[j] = g.path[At0(g, j)]
      <4> HIDE DEF At0
      <4> QED  BY <1>2, <3>0
    <3>2. At0(g, j) \in At0(e, i)..Len(g.path)
      BY <1>1, <2>0, <2>7, <3>1
    <3> HIDE DEF At0
    <3> QED  BY <2>3, <2>6, <3>1, <3>2
  <2> QED  BY <2>5, <2>6, <2>7, <2>8
<1>8. Unique(S) /\ Level(S)
  BY <1>4, <1>5 DEF Unique, Level, AllLifted
<1>9. Apart(S)
  BY <1>6 DEF Apart, AllLifted
<1>10. Named(S)
  <2> SUFFICES ASSUME NEW x \in S, NEW i \in 1..(Len(x.path) - 1), NotLeftmost(S, x.path, i)
               PROVE  /\ \A j \in i..Len(x.path) : x.path[i] <= x.path[j]
                      /\ \E g \in S : /\ Meet(x.path, g.path, i + 1)
                                      /\ \A j \in i..Len(g.path) : g.path[j] = x.path[i]
    BY DEF Named
  <2>2. PICK e \in t : x = L(e)
    BY DEF AllLifted
  <2>1. \A g \in t : L(g) \in S
    BY DEF AllLifted
  <2> HIDE DEF L, S
  <2> QED  BY <1>7, <2>1, <2>2
<1> QED  BY <1>3, <1>8, <1>9, <1>10 DEF Ordered

(* and no directory has more in it. *)
LEMMA LiftedFits ==
    ASSUME NEW t, Ordered(t), NEW d, NEW n, LiftsAt(t, d, n), Fits(t, {})
    PROVE  Fits(AllLifted(t, d, n), {})
<1> SUFFICES ASSUME NEW e \in t, NEW i \in 1..Len(Lift(d, n, e).path)
             PROVE  Cardinality(Siblings(AllLifted(t, d, n), Lift(d, n, e).path, i)) <= MaxKeys
  BY DEF Fits, AllLifted
<1> DEFINE s == IF i >= n /\ Within(d, n, e) THEN i + 1 ELSE i
<1>1. /\ s \in 1..Len(e.path)
      /\ Siblings(AllLifted(t, d, n), Lift(d, n, e).path, i) = Siblings(t, e.path, s)
  BY LiftedSiblings
<1> HIDE DEF s
<1> QED  BY <1>1 DEF Fits


(* What a deletion lifts is everything below that directory. *)
LEMMA LiftedIs ==
    ASSUME NEW t, Ordered(t), NEW d, NEW n, LiftsAt(t, d, n)
    PROVE  Lifted(t, Dir(d.path, n)) = AllLifted(t, d, n)
<1>0. /\ Finite(t) /\ d \in t /\ d.path \in Seq(Keys) /\ Len(d.path) \in Nat /\ n \in Nat
      /\ n \in 1..Len(d.path) /\ n + 1 \in 1..Len(d.path)
  BY PathFacts DEF LiftsAt, Ordered
<1> DEFINE p == Dir(d.path, n)
<1>1. In(t, p) = {f \in t : Meet(d.path, f.path, n)} /\ Len(p) + 1 = n
  BY <1>0, DirectoryIs, DirIs
<1>2. ASSUME NEW g \in t, Meet(d.path, g.path, n)
      PROVE  Within(d, n, g)
  <2>1. g.path[n] = d.path[n] /\ Len(g.path) \in Nat /\ n <= Len(g.path)
    <3>1. g.path[n] \in Siblings(t, d.path, n)
      BY <1>2 DEF Siblings
    <3> QED  BY <1>0, <1>2, <3>1, PathFacts DEF LiftsAt, Meet
  <2>2. n # Len(g.path)
    <3> SUFFICES ASSUME n = Len(g.path)
                 PROVE  FALSE
      OBVIOUS
    <3>1. Meet(g.path, d.path, Len(g.path))
      BY <1>0, <1>2, MeetsBack
    <3>2. Len(d.path) = Len(g.path)
      BY <1>0, <3>1 DEF Ordered, Level
    <3> QED  BY <1>0, <3>2
  <2>3. \A j \in 1..n : d.path[j] = g.path[j]
    BY <1>0, <1>2, <2>1 DEF Meet
  <2> QED  BY <1>0, <2>1, <2>2, <2>3 DEF Within, Meet
<1>3. ASSUME NEW g \in t, Within(d, n, g)
      PROVE  Meet(d.path, g.path, n)
  BY <1>0, <1>3, PathFacts DEF Within, Meet
<1>4. \A e \in t : e \in In(t, p) <=> Within(d, n, e)
  BY <1>1, <1>2, <1>3
<1> HIDE DEF p
<1>5. Lifted(t, p) = AllLifted(t, d, n)
  BY <1>1, <1>4 DEF Lifted, AllLifted, Lift
<1> QED  BY <1>5 DEF p

(* A tree without an entry. *)
Removed(t, k) == {f \in t : Key(f) # k}

(* Without an entry the tree stays in order, if no directory loses the key it is
   named after. *)
LEMMA RemovedOrdered ==
    ASSUME NEW t, Ordered(t), NEW k, ~LosesName(t, k)
    PROVE  Ordered(Removed(t, k))
<1> DEFINE S == Removed(t, k)
<1>0. S \subseteq t /\ Finite(t)
  BY DEF Removed, Ordered
<1>1. Finite(S)
  <2> HIDE DEF S
  <2>1. IsFiniteSet(S)
    BY <1>0, FS_Subset DEF Finite
  <2> QED  BY <1>0, <2>1 DEF Finite
<1>2. Apart(S) /\ Level(S) /\ Unique(S)
  <2> HIDE DEF S
  <2> QED  BY <1>0 DEF Ordered, Apart, Level, Unique
<1>3. Named(S)
  <2> SUFFICES ASSUME NEW e \in S, NEW i \in 1..(Len(e.path) - 1), NotLeftmost(S, e.path, i)
               PROVE  /\ \A j \in i..Len(e.path) : e.path[i] <= e.path[j]
                      /\ \E g \in S : /\ Meet(e.path, g.path, i + 1)
                                      /\ \A j \in i..Len(g.path) : g.path[j] = e.path[i]
    BY DEF Named
  <2>0. e \in t /\ Len(e.path) \in Nat /\ i \in 1..Len(e.path)
    BY <1>0, PathFacts
  <2>1. NotLeftmost(t, e.path, i)
    <3> HIDE DEF S
    <3> QED  BY <1>0 DEF NotLeftmost
  <2>2. PICK g \in t : Meet(e.path, g.path, i + 1) /\ \A j \in i..Len(g.path) : g.path[j] = e.path[i]
    BY <2>0, <2>1 DEF Ordered, Named
  <2>3. Key(g) # k
    <3> SUFFICES ASSUME Key(g) = k
                 PROVE  FALSE
      OBVIOUS
    <3>1. Key(g) = g.path[Len(g.path)] /\ Len(g.path) \in i..Len(g.path)
      BY <1>0, <2>0, <2>2, PathFacts DEF Meet
    <3>2. e.path[i] = k
      BY <2>2, <3>1
    <3>3. HasLeft(t, e, i)
      <4>1. PICK h \in 1..i, f \in t : Meet(e.path, f.path, h) /\ f.path[h] < e.path[h]
        BY <2>1 DEF NotLeftmost
      <4>2. h \in 1..Len(e.path)
        BY <2>0
      <4>3. f.path[h] \in Siblings(t, e.path, h)
        BY <4>1 DEF Siblings
      <4>4. f.path[h] \in Names(t, Dir(e.path, h))
        BY <1>0, <2>0, <4>2, <4>3, OwnDirectory
      <4> QED  BY <4>1, <4>4 DEF HasLeft
    <3>4. Key(e) # k
      BY DEF Removed
    <3> QED  BY <2>0, <3>2, <3>3, <3>4 DEF LosesName
  <2>4. g \in S
    BY <2>3 DEF Removed
  <2>5. \A j \in i..Len(e.path) : e.path[i] <= e.path[j]
    BY <2>0, <2>1 DEF Ordered, Named
  <2> QED  BY <2>2, <2>4, <2>5
<1> QED  BY <1>1, <1>2, <1>3 DEF Ordered

(* A removal fills no directory. *)
LEMMA RemovedFits ==
    ASSUME NEW t, Finite(t), NEW k, Fits(t, {})
    PROVE  Fits(Removed(t, k), {})
<1> SUFFICES ASSUME NEW e \in Removed(t, k), NEW i \in 1..Len(e.path)
             PROVE  Cardinality(Siblings(Removed(t, k), e.path, i)) <= MaxKeys
  BY DEF Fits
<1>1. e \in t /\ Siblings(Removed(t, k), e.path, i) \subseteq Siblings(t, e.path, i)
  BY DEF Removed, Siblings
<1>2. IsFiniteSet(Siblings(t, e.path, i))
  BY <1>1, OwnDirectory
<1>3. Cardinality(Siblings(Removed(t, k), e.path, i)) <= Cardinality(Siblings(t, e.path, i))
  BY <1>1, <1>2, FS_Subset
<1>4. /\ Cardinality(Siblings(t, e.path, i)) \in Nat
      /\ Cardinality(Siblings(Removed(t, k), e.path, i)) \in Nat
  BY <1>1, <1>2, FS_Subset, FS_CardinalityType
<1>5. Cardinality(Siblings(t, e.path, i)) <= MaxKeys
  BY <1>1 DEF Fits
<1> QED  BY <1>3, <1>4, <1>5, BTreeAssumption

(* A removal takes nothing but its key. *)
LEMMA RemovedPairs ==
    ASSUME NEW t, NEW k
    PROVE  Pairs(Removed(t, k)) = Without(Pairs(t), k)
<1>1. ASSUME NEW p \in Pairs(Removed(t, k))
      PROVE  p \in Pairs(t) /\ p.key # k
  BY DEF Pairs, Removed
<1>2. ASSUME NEW p \in Pairs(t), p.key # k
      PROVE  p \in Pairs(Removed(t, k))
  BY <1>2 DEF Pairs, Removed
<1> QED  BY <1>1, <1>2 DEF Without

(* No entries at all are a tree. *)
LEMMA NoneOrdered ==
    Ordered({}) /\ (\A ps : Fits({}, ps)) /\ Pairs({}) = {}
<1>1. Finite({})
  BY FS_EmptySet DEF Finite
<1> QED  BY <1>1 DEF Ordered, Apart, Level, Named, Unique, Fits, Pairs


(* No lift brings a name. *)
LEMMA LiftedNames ==
    ASSUME NEW t, Ordered(t), NEW d, NEW n, LiftsAt(t, d, n)
    PROVE  NamesIn(AllLifted(t, d, n)) \subseteq NamesIn(t)
<1>0. Finite(t) /\ Finite(AllLifted(t, d, n))
  BY LiftedOrdered DEF Ordered
<1>1. ASSUME NEW e \in t, NEW u, u = Lift(d, n, e).path, NEW i \in 1..Len(u)
      PROVE  u[i] \in NamesIn(t)
  <2>1. CASE ~Within(d, n, e)
    BY <1>0, <1>1, <2>1, LiftFacts, NamesAre
  <2>2. CASE Within(d, n, e)
    <3>1. /\ Len(u) = Len(e.path) - 1 /\ Len(e.path) \in Nat /\ n \in Nat /\ n >= 1
          /\ \A j \in 1..(n - 1) : u[j] = e.path[j]
          /\ \A j \in n..Len(u) : u[j] = e.path[j + 1]
      BY <1>1, <2>2, LiftFacts
    <3>2. i \in 1..Len(e.path) /\ i + 1 \in 1..Len(e.path) /\ (i \in 1..(n - 1) \/ i \in n..Len(u))
      BY <3>1
    <3>3. u[i] = e.path[i] \/ u[i] = e.path[i + 1]
      BY <3>1, <3>2
    <3> QED  BY <1>0, <3>2, <3>3, NamesAre
  <2> QED  BY <2>1, <2>2
<1> SUFFICES ASSUME NEW k \in NamesIn(AllLifted(t, d, n))
             PROVE  k \in NamesIn(t)
  OBVIOUS
<1>2. PICK f \in AllLifted(t, d, n) : \E i \in 1..Len(f.path) : k = f.path[i]
  BY <1>0, NamesAre
<1>3. PICK e \in t : f = Lift(d, n, e)
  BY DEF AllLifted
<1> QED  BY <1>1, <1>2, <1>3

(* What is left of a leaf's way when an entry is gone: what is removed is the
   entry, and at most one directory gives way to its only child. *)
LEMMA DeleteLifts ==
    ASSUME NEW t, Ordered(t), Agreed(t), t # {}, NEW k \in Keys
    PROVE  \/ Delete(t, k) = Removed(t, k)
           \/ \E d, n : LiftsAt(Removed(t, k), d, n) /\ Delete(t, k) = Lifted(Removed(t, k), Dir(d.path, n))
<1> DEFINE rest == t \ At(t, k)
           q == LeafFor(t, k)
           left == {i \in 0..Len(q) : In(rest, SubSeq(q, 1, i)) # {}}
           m == CHOOSE i \in left : \A j \in left : j <= i
           p == SubSeq(q, 1, m)
<1>0. Finite(t) /\ rest \subseteq t /\ Finite(rest)
  <2>1. Finite(t) /\ rest \subseteq t
    BY DEF Ordered
  <2> HIDE DEF rest
  <2>2. IsFiniteSet(rest)
    BY <2>1, FS_Subset DEF Finite
  <2> QED  BY <2>1, <2>2 DEF Finite
<1>1. rest = Removed(t, k)
  BY AtIs DEF Removed
<1>2. Delete(t, k) = IF rest = {} THEN {}
                     ELSE IF p = q \/ Cardinality(Names(rest, p)) > 1 THEN rest ELSE Lifted(rest, p)
  BY DEF Delete
<1>3. CASE rest = {} \/ p = q \/ Cardinality(Names(rest, p)) > 1
  <2> HIDE DEF rest, p, q
  <2>1. Delete(t, k) = rest
    BY <1>2, <1>3
  <2> QED  BY <1>1, <2>1
<1>4. CASE rest # {} /\ p # q /\ ~(Cardinality(Names(rest, p)) > 1)
  <2>1. PICK e \in t : q = Dir(e.path, Len(e.path))
    <3>1. PICK v \in Values : TRUE
      BY <1>0, PathFacts
    <3>2. PICK e \in t, x \in Seq(Keys) : Joins(t, e, x, k) /\ LeafFor(t, k) = Dir(x, Len(x))
      BY PutJoins
    <3>3. /\ Len(x) = Len(e.path) /\ Len(x) \in 1..Len(x) /\ e.path \in Seq(Keys)
          /\ Len(e.path) \in 1..Len(e.path)
          /\ \A j \in 1..(Len(x) - 1) : x[j] = e.path[j]
      BY <1>0, <3>2, JoinsFacts, PathFacts
    <3>4. Dir(x, Len(x)) = Dir(e.path, Len(e.path))
      <4>1. /\ Dir(x, Len(x)) \in Seq(Keys) /\ Len(Dir(x, Len(x))) = Len(x) - 1
            /\ \A j \in 1..(Len(x) - 1) : Dir(x, Len(x))[j] = x[j]
        BY <3>3, DirIs
      <4>2. /\ Dir(e.path, Len(e.path)) \in Seq(Keys) /\ Len(Dir(e.path, Len(e.path))) = Len(e.path) - 1
            /\ \A j \in 1..(Len(e.path) - 1) : Dir(e.path, Len(e.path))[j] = e.path[j]
        BY <3>3, DirIs
      <4>3. \A j \in 1..(Len(x) - 1) : Dir(x, Len(x))[j] = Dir(e.path, Len(e.path))[j]
        BY <3>3, <4>1, <4>2
      <4>4. Len(Dir(x, Len(x))) = Len(Dir(e.path, Len(e.path)))
        BY <3>3, <4>1, <4>2
      <4> QED  BY <4>1, <4>2, <4>3, <4>4, SeqEqual
    <3> QED  BY <3>2, <3>4
  <2>2. /\ e.path \in Seq(Keys) /\ Len(e.path) \in Nat /\ Len(e.path) >= 1
        /\ q \in Seq(Keys) /\ Len(q) \in Nat /\ Len(q) = Len(e.path) - 1
        /\ \A j \in 1..Len(q) : q[j] = e.path[j] /\ q[j] \in Keys
    <3>1. e.path \in Seq(Keys) /\ Len(e.path) \in Nat /\ Len(e.path) >= 1 /\ Len(e.path) \in 1..Len(e.path)
      BY <1>0, PathFacts
    <3>2. /\ q \in Seq(Keys) /\ Len(q) = Len(e.path) - 1
          /\ \A j \in 1..(Len(e.path) - 1) : q[j] = e.path[j]
      BY <2>1, <3>1, DirIs
    <3> HIDE DEF q
    <3> QED  BY <3>1, <3>2, ElementOfSeq
  <2> HIDE DEF q
  <2>3. ASSUME NEW i \in 0..Len(q)
        PROVE  /\ SubSeq(q, 1, i) \in Seq(Keys) /\ Len(SubSeq(q, 1, i)) = i
               /\ \A j \in 1..i : SubSeq(q, 1, i)[j] = q[j]
    <3>1. i \in Int /\ 1 \in Int /\ \A j \in 1..i : q[j] \in Keys
      BY <2>2
    <3>2. /\ SubSeq(q, 1, i) \in Seq(Keys) /\ Len(SubSeq(q, 1, i)) = IF 1 <= i THEN i - 1 + 1 ELSE 0
          /\ \A j \in 1..(i - 1 + 1) : SubSeq(q, 1, i)[j] = q[1 + j - 1]
      BY <3>1, SubSeqProperties
    <3> QED  BY <2>2, <3>2
  <2>4. ASSUME NEW i \in 0..Len(q)
        PROVE  In(rest, SubSeq(q, 1, i))
                  = {f \in rest : Len(f.path) > i /\ \A j \in 1..i : f.path[j] = q[j]}
    <3> HIDE DEF rest
    <3> DEFINE s == SubSeq(q, 1, i)
    <3>1. s \in Seq(Keys) /\ Len(s) = i /\ \A j \in 1..i : s[j] = q[j]
      BY <2>3
    <3> HIDE DEF s
    <3>2. In(rest, s) = {f \in rest : Len(f.path) > Len(s) /\ \A j \in 1..Len(s) : f.path[j] = s[j]}
      BY <1>0, <3>1, InIs
    <3>3. In(rest, s) = {f \in rest : Len(f.path) > i /\ \A j \in 1..i : f.path[j] = q[j]}
      BY <3>1, <3>2
    <3> QED  BY <3>3 DEF s
  <2>5. 0 \in left
    <3>1. PICK f \in rest : TRUE
      BY <1>4
    <3>2. Len(f.path) > 0
      BY <1>0, <3>1, PathFacts
    <3>3. f \in In(rest, SubSeq(q, 1, 0))
      <4> HIDE DEF rest
      <4> QED  BY <2>2, <2>4, <3>2
    <3> QED  BY <2>2, <3>3
  <2>6. m \in left
    <3>1. left \in SUBSET Nat /\ \A i \in left : i <= Len(q)
      BY <2>2
    <3> HIDE DEF left
    <3>2. \E i \in left : \A j \in left : j <= i
      BY <2>2, <2>5, <3>1, Bounded
    <3> QED  BY <3>2
  <2> HIDE DEF m
  <2>7. m \in 0..Len(q) /\ m \in Nat /\ In(rest, p) # {}
    <3> HIDE DEF rest
    <3> QED  BY <2>2, <2>6
  <2>8. m < Len(q)
    <3> SUFFICES ASSUME m = Len(q)
                 PROVE  FALSE
      BY <2>2, <2>7
    <3>1. Len(p) = Len(q) /\ p \in Seq(Keys) /\ \A j \in 1..Len(q) : p[j] = q[j]
      BY <2>3, <2>7
    <3> HIDE DEF p
    <3>2. p = q
      BY <2>2, <3>1, SeqEqual
    <3> QED  BY <1>4, <3>2
  <2> DEFINE n == m + 1
  <2>9. PICK d \in rest : d \in In(rest, p) /\ Len(d.path) > m /\ \A j \in 1..m : d.path[j] = q[j]
    <3> HIDE DEF rest
    <3> QED  BY <2>4, <2>7
  <2>10. d \in t /\ d.path \in Seq(Keys) /\ Len(d.path) \in Nat /\ n \in 1..Len(d.path)
    BY <1>0, <2>7, <2>9, PathFacts
  <2>11. Len(d.path) # n
    <3> SUFFICES ASSUME Len(d.path) = n
                 PROVE  FALSE
      OBVIOUS
    <3>1. Meet(d.path, e.path, Len(d.path))
      BY <2>2, <2>7, <2>8, <2>9, <2>10 DEF Meet
    <3>2. Len(e.path) = Len(d.path)
      BY <2>1, <2>10, <3>1 DEF Ordered, Level
    <3> QED  BY <2>2, <2>7, <2>8, <3>2
  <2>12. p = Dir(d.path, n)
    <3>1. p \in Seq(Keys) /\ Len(p) = m /\ \A j \in 1..m : p[j] = q[j]
      BY <2>3, <2>7
    <3> HIDE DEF p
    <3>2. /\ Dir(d.path, n) \in Seq(Keys) /\ Len(Dir(d.path, n)) = m
          /\ \A j \in 1..m : Dir(d.path, n)[j] = d.path[j]
      <4>1. /\ Dir(d.path, n) \in Seq(Keys) /\ Len(Dir(d.path, n)) = n - 1
            /\ \A j \in 1..(n - 1) : Dir(d.path, n)[j] = d.path[j]
        <5> HIDE DEF n
        <5> QED  BY <2>10, DirIs
      <4>2. n - 1 = m
        BY <2>7
      <4> HIDE DEF n
      <4> QED  BY <4>1, <4>2
    <3> HIDE DEF n
    <3> QED  BY <2>9, <3>1, <3>2, SeqEqual
  <2>13. Siblings(rest, d.path, n) = {d.path[n]}
    <3> DEFINE S == Siblings(rest, d.path, n)
    <3>1. Names(rest, p) = S /\ d.path[n] \in S /\ IsFiniteSet(S)
      <4> HIDE DEF n, rest, p
      <4> QED  BY <1>0, <2>9, <2>10, <2>12, OwnDirectory
    <3> HIDE DEF S, n, p, rest
    <3>2. Cardinality(S) \in Nat /\ ~(Cardinality(S) > 1)
      BY <1>4, <3>1, FS_CardinalityType
    <3>3. Cardinality(S) # 0
      BY <3>1, FS_EmptySet
    <3>4. Cardinality(S) = 1
      BY <3>2, <3>3
    <3>5. \E x : S = {x}
      BY <3>1, <3>4, FS_Singleton
    <3> QED  BY <3>1, <3>5 DEF S
  <2>14. LiftsAt(rest, d, n)
    <3> HIDE DEF rest, p
    <3> QED  BY <2>7, <2>9, <2>10, <2>11, <2>13 DEF LiftsAt
  <2>15. Delete(t, k) = Lifted(rest, p)
    <3> HIDE DEF rest, p
    <3> QED  BY <1>2, <1>4
  <2> HIDE DEF n, p, rest
  <2> QED  BY <1>1, <2>12, <2>14, <2>15
<1> HIDE DEF p, q, rest
<1> QED  BY <1>3, <1>4

(* A deletion keeps the order, fills no directory and removes nothing but its key,
   if no directory loses the key it is named after. *)
LEMMA DeleteKept ==
    ASSUME NEW t, Ordered(t), Agreed(t), Fits(t, {}), t # {}, NEW k \in Keys, ~LosesName(t, k)
    PROVE  /\ Ordered(Delete(t, k)) /\ Fits(Delete(t, k), {})
           /\ Pairs(Delete(t, k)) = Without(Pairs(t), k)
           /\ NamesIn(Delete(t, k)) \subseteq NamesIn(t)
<1> DEFINE rest == Removed(t, k)
<1>1. Ordered(rest) /\ Fits(rest, {}) /\ Pairs(rest) = Without(Pairs(t), k)
  BY RemovedOrdered, RemovedFits, RemovedPairs DEF Ordered
<1>2. NamesIn(rest) \subseteq NamesIn(t)
  BY DEF NamesIn, Removed
<1>3. CASE Delete(t, k) = rest
  BY <1>1, <1>2, <1>3
<1>4. CASE \E d, n : LiftsAt(rest, d, n) /\ Delete(t, k) = Lifted(rest, Dir(d.path, n))
  <2>1. PICK d, n : LiftsAt(rest, d, n) /\ Delete(t, k) = Lifted(rest, Dir(d.path, n))
    BY <1>4
  <2> HIDE DEF rest
  <2>2. Delete(t, k) = AllLifted(rest, d, n)
    BY <1>1, <2>1, LiftedIs
  <2> QED  BY <1>1, <1>2, <2>1, <2>2, LiftedOrdered, LiftedFits, LiftedPairs, LiftedNames
<1> QED  BY <1>3, <1>4, DeleteLifts


-----------------------------------------------------------------------------
(* Insertions, one directory after the other. *)

(* The directory p was written and is split if it must be: one that is full
   after that is the one above it. *)
LEMMA WrittenKept ==
    ASSUME NEW t, Ordered(t), Agreed(t), NEW p, IsDir(t, p), Fits(t, {p})
    PROVE  /\ Ordered(Written(t, p)) /\ Pairs(Written(t, p)) = Pairs(t)
           /\ NamesIn(Written(t, p)) \subseteq NamesIn(t)
           /\ p = <<>> => Fits(Written(t, p), {})
           /\ p # <<>> => Fits(Written(t, p), {Front(p)}) /\ IsDir(Written(t, p), Front(p))
<1> DEFINE none == <<>>
<1>0. Finite(t) /\ MaxKeys \in Nat
  BY BTreeAssumption DEF Ordered
<1>1. CASE Full(t, p)
  <2>1. Written(t, p) = Split(t, p)
    BY <1>1 DEF Written
  <2>2. SplitKept(t, p)
    BY <1>1, SplitBelow, SplitRoot
  <2> QED  BY <2>1, <2>2 DEF SplitKept
<1>2. CASE ~Full(t, p)
  <2>1. Written(t, p) = t
    BY <1>2 DEF Written
  <2>2. ASSUME NEW e \in t, NEW i \in 1..Len(e.path)
        PROVE  Cardinality(Siblings(t, e.path, i)) <= MaxKeys
    <3>1. Names(t, Dir(e.path, i)) = Siblings(t, e.path, i) /\ IsFiniteSet(Siblings(t, e.path, i))
      BY <1>0, OwnDirectory
    <3>2. Cardinality(Siblings(t, e.path, i)) \in Nat
      BY <3>1, FS_CardinalityType
    <3>3. CASE Dir(e.path, i) = p
      BY <1>0, <1>2, <3>1, <3>2, <3>3 DEF Full
    <3>4. CASE Dir(e.path, i) # p
      BY <3>4 DEF Fits
    <3> QED  BY <3>3, <3>4
  <2>3. ASSUME NEW ps
        PROVE  Fits(t, ps)
    <3> SUFFICES ASSUME NEW e \in t, NEW i \in 1..Len(e.path)
                 PROVE  Cardinality(Siblings(t, e.path, i))
                           <= IF Dir(e.path, i) \in ps THEN MaxKeys + 1 ELSE MaxKeys
      BY DEF Fits
    <3>1. Cardinality(Siblings(t, e.path, i)) \in Nat
      BY <1>0, OwnDirectory, FS_CardinalityType
    <3> QED  BY <1>0, <2>2, <3>1
  <2>4. ASSUME p # none
        PROVE  IsDir(t, Front(p))
    <3>1. /\ p \in Seq(Keys) /\ Len(p) \in Nat
          /\ \E e \in t : Len(p) + 1 \in 1..Len(e.path) /\ p = Dir(e.path, Len(p) + 1)
      BY <1>0, DirIsDir
    <3>2. PICK e \in t : Len(p) + 1 \in 1..Len(e.path) /\ p = Dir(e.path, Len(p) + 1)
      BY <3>1
    <3>3. e.path \in Seq(Keys) /\ Len(e.path) \in Nat
      BY <1>0, PathFacts
    <3>4. Len(p) >= 1
      <4>1. Len(p) # 0
        BY <2>4, <3>1, EmptySeq
      <4> QED  BY <3>1, <4>1
    <3>5. Front(p) = Dir(p, Len(p)) /\ Len(p) \in 1..Len(p) /\ Len(p) \in 1..Len(e.path)
      BY <3>1, <3>2, <3>3, <3>4, FrontIs
    <3>6. \A j \in 1..Len(p) : p[j] = e.path[j]
      <4> DEFINE i == Len(p) + 1
      <4>1. i \in 1..Len(e.path) /\ p = Dir(e.path, i) /\ i - 1 = Len(p)
        BY <3>1, <3>2
      <4> HIDE DEF i
      <4>2. \A j \in 1..(i - 1) : Dir(e.path, i)[j] = e.path[j]
        BY <3>3, <4>1, DirIs
      <4> QED  BY <4>1, <4>2
    <3>7. Dir(p, Len(p)) = Dir(e.path, Len(p))
      <4>1. Meet(p, e.path, Len(p))
        BY <3>1, <3>3, <3>5, <3>6 DEF Meet
      <4> QED  BY <3>1, <3>3, <3>5, <4>1, DirsAgree
    <3> QED  BY <3>5, <3>7 DEF IsDir
  <2> QED  BY <2>1, <2>3, <2>4
<1> QED  BY <1>1, <1>2

(* A root that somebody holds, while its names do not mislead. *)
TreeOK(t) == Ordered(t) /\ Agreed(t) /\ Fits(t, {})

(* What a holder has in hand while it works on such a tree: nothing but the
   directory that was written last may be too full, and no two keys are
   inserted that are one. *)
JobOK(j) ==
    /\ Ordered(j.work) /\ Fits(j.work, j.written) /\ Alike(NamesIn(j.work) \cup KeysOf(j.todo))
    /\ \A p \in j.written : j.written = {p} /\ IsDir(j.work, p)
    /\ \A e \in j.todo : Len(e.path) >= 1
    /\ \A e, f \in j.todo : Key(e) = Key(f) => e = f
    /\ j = Idle \/ j.prefer \/ j.work # {}

Jobs == [work : SUBSET Entries, todo : SUBSET Entries, prefer : BOOLEAN, written : SUBSET Seq(Keys),
         worn : BOOLEAN]

(* Any job, whatever is in it. *)
IsJob(j) ==
    /\ j = [work |-> j.work, todo |-> j.todo, prefer |-> j.prefer, written |-> j.written,
            worn |-> j.worn]
    /\ j.prefer \in BOOLEAN /\ j.worn \in BOOLEAN

(* Every root is that of such a tree, and every job is at work on one, unless
   they are worn. *)
TreesOK ==
    /\ tree = [h \in Holders |-> tree[h]] /\ job = [h \in Holders |-> job[h]]
    /\ \A h \in Holders : /\ h \notin worn => TreeOK(tree[h])
                          /\ IsJob(job[h])
                          /\ ~job[h].worn => job[h] \in Jobs /\ JobOK(job[h])

(* A part of a set that the orders agree on. *)
LEMMA AlikeParts ==
    ASSUME NEW S, NEW T, Alike(S), T \subseteq S
    PROVE  Alike(T)
  BY DEF Alike

(* No entries are a tree. *)
LEMMA NoneOK == TreeOK({})
<1>1. NamesIn({}) = {}
  BY DEF NamesIn
<1> QED  BY <1>1, NoneOrdered DEF TreeOK, Agreed, Alike

(* No operation, nothing in hand. *)
LEMMA IdleOK == Idle \in Jobs /\ IsJob(Idle) /\ JobOK(Idle) /\ ~Idle.worn
<1>1. Ordered({}) /\ Fits({}, {})
  BY NoneOrdered
<1>2. Idle \in Jobs /\ IsJob(Idle) /\ ~Idle.worn
  BY DEF Idle, Jobs, IsJob
<1>3. NamesIn({}) \cup KeysOf({}) = {}
  BY DEF NamesIn, KeysOf
<1>4. Alike({})
  BY DEF Alike
<1> QED  BY <1>1, <1>2, <1>3, <1>4 DEF JobOK, Idle

(* The first roots are null, and nobody works. *)
LEMMA TreesInit == Init => TreesOK
<1> SUFFICES ASSUME Init
             PROVE  TreesOK
  OBVIOUS
<1>1. tree = [h \in Holders |-> {}] /\ job = [h \in Holders |-> Idle]
  BY DEF Init
<1>2. /\ tree = [h \in Holders |-> tree[h]] /\ job = [h \in Holders |-> job[h]]
      /\ \A h \in Holders : tree[h] = {} /\ job[h] = Idle
  BY <1>1
<1> QED  BY <1>2, IdleOK, NoneOK DEF TreesOK

(* A function that changes in one place. *)
LEMMA Except ==
    ASSUME NEW S, NEW f, f = [g \in S |-> f[g]], NEW h \in S, NEW x, NEW new, new = [f EXCEPT ![h] = x]
    PROVE  /\ new = [g \in S |-> new[g]] /\ new[h] = x
           /\ \A g \in S \ {h} : new[g] = f[g]
<1>1. new = [g \in S |-> IF g = h THEN x ELSE f[g]]
  OBVIOUS
<1> QED  BY <1>1

(* A step of holder h that changes its job. *)
LEMMA JobStep ==
    ASSUME TreesOK, NEW h \in Holders, NEW j, IsJob(j), ~j.worn => j \in Jobs /\ JobOK(j),
           job' = [job EXCEPT ![h] = j], UNCHANGED <<tree, worn>>
    PROVE  TreesOK' /\ job'[h] = j /\ \A g \in Holders \ {h} : job'[g] = job[g]
<1>1. /\ job' = [g \in Holders |-> job'[g]] /\ job'[h] = j
      /\ \A g \in Holders \ {h} : job'[g] = job[g]
  <2>1. job = [g \in Holders |-> job[g]]
    BY DEF TreesOK
  <2> QED  BY ONLY <2>1, job' = [job EXCEPT ![h] = j], h \in Holders, Except
<1>2. ASSUME NEW g \in Holders
      PROVE  /\ g \notin worn' => TreeOK(tree'[g])
             /\ IsJob(job'[g])
             /\ ~job'[g].worn => job'[g] \in Jobs /\ JobOK(job'[g])
  <2>1. CASE g = h
    BY <1>1, <2>1 DEF TreesOK
  <2>2. CASE g # h
    BY <1>1, <2>2 DEF TreesOK
  <2> QED  BY <2>1, <2>2
<1>3. tree' = [g \in Holders |-> tree'[g]]
  BY DEF TreesOK
<1> QED  BY <1>1, <1>2, <1>3 DEF TreesOK

(* A step of holder h that changes its root. *)
LEMMA TreeStep ==
    ASSUME TreesOK, NEW h \in Holders, NEW t, NEW isWorn \in BOOLEAN, ~isWorn => TreeOK(t),
           Becomes(h, t, isWorn), job' = job \/ job' = [job EXCEPT ![h] = Idle]
    PROVE  /\ TreesOK' /\ tree'[h] = t /\ (h \in worn' <=> isWorn)
           /\ \A g \in Holders \ {h} : /\ tree'[g] = tree[g] /\ job'[g] = job[g]
                                       /\ g \in worn' <=> g \in worn
           /\ job'[h] = job[h] \/ job'[h] = Idle
<1>1. tree' = [tree EXCEPT ![h] = t] /\ worn' = (worn \ {h}) \cup IF isWorn THEN {h} ELSE {}
  BY DEF Becomes
<1>2. /\ tree' = [g \in Holders |-> tree'[g]] /\ tree'[h] = t
      /\ \A g \in Holders \ {h} : tree'[g] = tree[g]
  <2>1. tree = [g \in Holders |-> tree[g]]
    BY DEF TreesOK
  <2> QED  BY ONLY <1>1, <2>1, h \in Holders, Except
<1>3. /\ job' = [g \in Holders |-> job'[g]] /\ (job'[h] = job[h] \/ job'[h] = Idle)
      /\ \A g \in Holders \ {h} : job'[g] = job[g]
  <2>1. job = [g \in Holders |-> job[g]]
    BY DEF TreesOK
  <2>2. CASE job' = job
    BY <2>1, <2>2
  <2>3. CASE job' = [job EXCEPT ![h] = Idle]
    BY ONLY <2>1, <2>3, h \in Holders, Except
  <2> QED  BY <2>2, <2>3
<1>4. (h \in worn' <=> isWorn) /\ \A g \in Holders \ {h} : g \in worn' <=> g \in worn
  BY <1>1
<1>5. ASSUME NEW g \in Holders
      PROVE  g \notin worn' => TreeOK(tree'[g])
  <2>1. CASE g = h
    BY <1>2, <1>4, <2>1
  <2>2. CASE g # h
    BY <1>2, <1>4, <2>2 DEF TreesOK
  <2> QED  BY <2>1, <2>2
<1>6. ASSUME NEW g \in Holders
      PROVE  /\ IsJob(job'[g])
             /\ ~job'[g].worn => job'[g] \in Jobs /\ JobOK(job'[g])
  <2>1. job'[g] = job[g] \/ job'[g] = Idle
    BY <1>3
  <2> QED  BY <2>1, IdleOK DEF TreesOK
<1> QED  BY <1>2, <1>3, <1>4, <1>5, <1>6 DEF TreesOK

(* What is in hand after a step of job j. *)
Doing(j, w, s, ps) ==
    [work |-> w, todo |-> s, prefer |-> j.prefer, written |-> ps, worn |-> j.worn]

(* The set of that alone. *)
Parts(j, w, s, ps) == [work : {w}, todo : {s}, prefer : {j.prefer}, written : {ps}, worn : {j.worn}]

(* A job is its parts. *)
LEMMA JobIs ==
    ASSUME NEW j, IsJob(j), NEW w, NEW s, NEW ps
    PROVE  /\ IsJob(Doing(j, w, s, ps)) /\ j \in Parts(j, j.work, j.todo, j.written)
           /\ \A x \in Parts(j, w, s, ps) : x = Doing(j, w, s, ps)
  BY DEF IsJob, Doing, Parts

(* Entries that an operation may begin to insert. *)
Insertable(todo) ==
    /\ todo \subseteq Entries /\ \A e \in todo : Len(e.path) >= 1
    /\ \A e, f \in todo : Key(e) = Key(f) => e = f

(* What is so when an operation has begun. *)
Began(h, todo, prefer, isWorn) ==
    /\ TreesOK' /\ UNCHANGED <<tree, worn>> /\ job[h] = Idle
    /\ job'[h].work = tree[h] /\ job'[h].todo = todo /\ job'[h].prefer = prefer
    /\ ~job'[h].worn => ~isWorn /\ h \notin worn
    /\ \A g \in Holders \ {h} : job'[g] = job[g]

(* An operation begins with the holder's root. *)
LEMMA BeginKeeps ==
    ASSUME TreesOK, NEW h \in Holders, NEW todo, NEW prefer \in BOOLEAN, NEW isWorn \in BOOLEAN,
           Begin(h, todo, prefer, isWorn),
           ~isWorn => Insertable(todo),
           prefer \/ tree[h] # {}
    PROVE  Began(h, todo, prefer, isWorn)
<1> DEFINE isNow == isWorn \/ h \in worn \/ ~Alike(NamesIn(tree[h]) \cup KeysOf(todo))
           j == [work |-> tree[h], todo |-> todo, prefer |-> prefer, written |-> {}, worn |-> isNow]
<1>1. job' = [job EXCEPT ![h] = j] /\ UNCHANGED <<tree, worn>> /\ job[h] = Idle
  BY DEF Begin
<1>2. isNow \in BOOLEAN /\ (~isNow => ~isWorn /\ h \notin worn /\ Alike(NamesIn(tree[h]) \cup KeysOf(todo)))
  OBVIOUS
<1> HIDE DEF isNow
<1>3. /\ j.work = tree[h] /\ j.todo = todo /\ j.prefer = prefer /\ j.written = {} /\ j.worn = isNow
      /\ IsJob(j)
  BY <1>2 DEF IsJob
<1>4. ASSUME ~j.worn
      PROVE  j \in Jobs /\ JobOK(j)
  <2>1. Ordered(tree[h]) /\ Fits(tree[h], {}) /\ tree[h] \in SUBSET Entries
    BY <1>2, <1>3, <1>4 DEF TreesOK, TreeOK, Ordered, Finite
  <2>2. j \in Jobs
    BY <1>2, <1>3, <1>4, <2>1 DEF Jobs, Insertable
  <2> HIDE DEF j
  <2> QED  BY <1>2, <1>3, <1>4, <2>1, <2>2 DEF JobOK, Insertable
<1> HIDE DEF j
<1> QED  BY <1>1, <1>2, <1>3, <1>4, JobStep DEF Began

(* insert and insertLink begin with one entry. *)
LEMMA InsertKeeps ==
    ASSUME TreesOK, NEW h \in Holders, NEW k \in Keys, NEW v \in Offers[h], InsertKey(h, k, v)
    PROVE  TreesOK'
<1> DEFINE x == <<k>>
           todo == {[path |-> x, value |-> v]}
<1>1. x \in Seq(Keys) /\ Len(x) = 1
  OBVIOUS
<1>2. v \in Values
  BY BTreeAssumption
<1>3. Begin(h, todo, TRUE, FALSE)
  BY DEF InsertKey
<1> HIDE DEF x
<1>4. \A e \in todo : e \in Entries /\ Len(e.path) >= 1
  BY <1>1, <1>2 DEF Entries
<1>5. \A e, f \in todo : e = f
  OBVIOUS
<1> HIDE DEF todo
<1>6. Insertable(todo)
  BY <1>4, <1>5 DEF Insertable
<1> QED  BY <1>3, <1>6, BeginKeeps DEF Began

(* merge and mergeLinks begin with both roots. *)
LEMMA MergeKeeps ==
    ASSUME TreesOK, NEW h \in Holders, NEW g \in Holders, NEW prefer \in BOOLEAN,
           MergeRoot(h, g, prefer)
    PROVE  TreesOK'
<1> DEFINE isWorn == g \in worn
<1>1. Begin(h, tree[g], prefer, isWorn) /\ tree[h] # {} /\ isWorn \in BOOLEAN
  BY DEF MergeRoot
<1>2. ASSUME ~isWorn
      PROVE  Insertable(tree[g])
  <2>1. Ordered(tree[g]) /\ Finite(tree[g])
    BY <1>2 DEF TreesOK, TreeOK, Ordered
  <2> QED  BY <2>1, PathFacts, KeysDiffer DEF Finite, Insertable
<1> HIDE DEF isWorn
<1> QED  BY <1>1, <1>2, BeginKeeps DEF Began

(* A root that is taken over is that of the tree it was. *)
LEMMA TakeKeeps ==
    ASSUME TreesOK, NEW h \in Holders, NEW g \in Holders, TakeRoot(h, g)
    PROVE  /\ TreesOK' /\ tree'[h] = tree[g] /\ (h \in worn' <=> g \in worn)
           /\ \A i \in Holders \ {h} : tree'[i] = tree[i] /\ (i \in worn' <=> i \in worn)
<1> DEFINE isWorn == g \in worn
<1>1. Becomes(h, tree[g], isWorn) /\ job' = job /\ isWorn \in BOOLEAN
  BY DEF TakeRoot
<1>2. ~isWorn => TreeOK(tree[g])
  BY DEF TreesOK
<1> HIDE DEF isWorn
<1>3. /\ TreesOK' /\ tree'[h] = tree[g] /\ (h \in worn' <=> isWorn)
      /\ \A i \in Holders \ {h} : tree'[i] = tree[i] /\ (i \in worn' <=> i \in worn)
  BY <1>1, <1>2, TreeStep
<1> QED  BY <1>3 DEF isWorn

(* A tree that loses a name is not emptied. *)
LEMMA LosersAreLeft ==
    ASSUME NEW t, NEW k, LosesName(t, k)
    PROVE  Delete(t, k) # {}
<1> DEFINE q == LeafFor(t, k)
           rest == t \ At(t, k)
           left == {i \in 0..Len(q) : In(rest, SubSeq(q, 1, i)) # {}}
           p == SubSeq(q, 1, CHOOSE i \in left : \A j \in left : j <= i)
<1>1. PICK e \in t : Key(e) # k
  BY DEF LosesName
<1>2. e \in rest
  BY <1>1 DEF At
<1>3. Delete(t, k) = IF rest = {} THEN {}
                     ELSE IF p = q \/ Cardinality(Names(rest, p)) > 1 THEN rest ELSE Lifted(rest, p)
  BY DEF Delete
<1> HIDE DEF rest, p, q
<1>4. Lifted(rest, p) # {}
  BY <1>2 DEF Lifted
<1> QED  BY <1>2, <1>3, <1>4

(* delete keeps the tree in order, or leaves a worn one. *)
LEMMA DeleteKeeps ==
    ASSUME TreesOK, NEW h \in Holders, NEW k \in Keys, DeleteKey(h, k)
    PROVE  /\ TreesOK' /\ tree'[h] = Delete(tree[h], k) /\ job' = job /\ job[h] = Idle
           /\ \A g \in Holders \ {h} : tree'[g] = tree[g] /\ (g \in worn' <=> g \in worn)
           /\ \/ h \in worn'
              \/ h \notin worn' /\ h \in worn /\ Delete(tree[h], k) = {}
              \/ /\ h \notin worn' /\ h \notin worn /\ Ordered(tree[h]) /\ TreeOK(tree'[h])
                 /\ Pairs(tree'[h]) = Without(Pairs(tree[h]), k)
<1> DEFINE t == tree[h]
           left == Delete(t, k)
           isWorn == left # {} /\ (h \in worn \/ LosesName(t, k))
<1>1. Becomes(h, left, isWorn) /\ job' = job /\ job[h] = Idle /\ t # {} /\ isWorn \in BOOLEAN
  BY DEF DeleteKey
<1>2. isWorn <=> left # {} /\ (h \in worn \/ LosesName(t, k))
  OBVIOUS
<1> HIDE DEF isWorn
<1>3. ASSUME h \notin worn, ~LosesName(t, k)
      PROVE  TreeOK(left) /\ Ordered(t) /\ Pairs(left) = Without(Pairs(t), k)
  <2>1. Ordered(t) /\ Agreed(t) /\ Fits(t, {})
    BY <1>3 DEF TreesOK, TreeOK
  <2> HIDE DEF t
  <2>2. /\ Ordered(left) /\ Fits(left, {}) /\ Pairs(left) = Without(Pairs(t), k)
        /\ NamesIn(left) \subseteq NamesIn(t)
    BY <1>1, <1>3, <2>1, DeleteKept
  <2>3. Agreed(left)
    BY <2>1, <2>2, AlikeParts DEF Agreed
  <2> QED  BY <2>1, <2>2, <2>3 DEF TreeOK
<1>4. LosesName(t, k) => left # {}
  BY LosersAreLeft
<1> HIDE DEF left
<1>5. ~isWorn => TreeOK(left)
  BY <1>2, <1>3, NoneOK
<1>6. /\ TreesOK' /\ tree'[h] = left /\ (h \in worn' <=> isWorn)
      /\ \A g \in Holders \ {h} : tree'[g] = tree[g] /\ (g \in worn' <=> g \in worn)
  BY <1>1, <1>5, TreeStep
<1> QED  BY <1>1, <1>2, <1>3, <1>4, <1>6 DEF left

(* When nothing is left to be written no directory is too full. *)
LEMMA FinishKeeps ==
    ASSUME TreesOK, NEW h \in Holders, Finish(h)
    PROVE  /\ TreesOK' /\ tree'[h] = job[h].work /\ job'[h] = Idle /\ (h \in worn' <=> job[h].worn)
           /\ \A g \in Holders \ {h} : /\ tree'[g] = tree[g] /\ job'[g] = job[g]
                                       /\ g \in worn' <=> g \in worn
<1> DEFINE isWorn == job[h].worn
<1>1. /\ Becomes(h, job[h].work, isWorn) /\ job' = [job EXCEPT ![h] = Idle] /\ isWorn \in BOOLEAN
      /\ job[h].written = {}
  BY DEF Finish, TreesOK, IsJob
<1>2. ~isWorn => TreeOK(job[h].work)
  <2> SUFFICES ASSUME ~isWorn
               PROVE  TreeOK(job[h].work)
    OBVIOUS
  <2>1. /\ Ordered(job[h].work) /\ Fits(job[h].work, {})
        /\ Alike(NamesIn(job[h].work) \cup KeysOf(job[h].todo))
    BY <1>1 DEF TreesOK, JobOK
  <2> QED  BY <2>1, AlikeParts DEF TreeOK, Agreed
<1> HIDE DEF isWorn
<1> DEFINE w == job[h].work
<1>3. Becomes(h, w, isWorn) /\ (~isWorn => TreeOK(w))
  BY <1>1, <1>2
<1> HIDE DEF w
<1>4. /\ TreesOK' /\ tree'[h] = w /\ (h \in worn' <=> isWorn)
      /\ \A g \in Holders \ {h} : /\ tree'[g] = tree[g] /\ job'[g] = job[g]
                                  /\ g \in worn' <=> g \in worn
  <2>1. isWorn \in BOOLEAN /\ (job' = job \/ job' = [job EXCEPT ![h] = Idle])
    BY <1>1
  <2> QED  BY ONLY TreesOK, h \in Holders, <1>3, <2>1, TreeStep
<1>5. job'[h] = Idle
  BY <1>1 DEF TreesOK
<1> QED  BY <1>4, <1>5 DEF isWorn, w

(* A store that throws leaves the root. *)
LEMMA FailKeeps ==
    ASSUME TreesOK, NEW h \in Holders, Fail(h)
    PROVE  /\ TreesOK' /\ job'[h] = Idle /\ job[h] # Idle /\ UNCHANGED <<tree, worn>>
           /\ \A g \in Holders \ {h} : job'[g] = job[g]
<1>1. job' = [job EXCEPT ![h] = Idle] /\ UNCHANGED <<tree, worn>> /\ job[h] # Idle
  BY DEF Fail
<1> QED  BY <1>1, IdleOK, JobStep


(* An entry that is to be inserted has a key and a value. *)
LEMMA TodoEntry ==
    ASSUME NEW j \in Jobs, JobOK(j), NEW e \in j.todo
    PROVE  e \in Entries /\ Key(e) \in Keys /\ e.value \in Values /\ Len(e.path) >= 1
<1>1. e \in Entries /\ Len(e.path) >= 1
  BY DEF Jobs, JobOK
<1>2. e.path \in Seq(Keys) /\ e.value \in Values /\ Len(e.path) \in 1..Len(e.path)
  BY <1>1, LenProperties DEF Entries
<1>3. Key(e) \in Keys
  BY <1>2, ElementOfSeq DEF Key, Last
<1> QED  BY <1>1, <1>2, <1>3

(* The orders agree on what there is after a step of a job, if it has no new names. *)
LEMMA StillAlike ==
    ASSUME NEW w, NEW s, NEW v, NEW r, Alike(NamesIn(w) \cup KeysOf(s)), r \subseteq s,
           NamesIn(v) \subseteq NamesIn(w) \cup KeysOf(s)
    PROVE  Alike(NamesIn(v) \cup KeysOf(r))
<1>1. KeysOf(r) \subseteq KeysOf(s)
  BY DEF KeysOf
<1> QED  BY <1>1, AlikeParts

(* A job that has something to do is not idle. *)
LEMMA WorkerIsBusy ==
    ASSUME NEW j, j.todo # {} \/ j.written # {} \/ j.prefer \/ j.work # {} \/ j.worn
    PROVE  j # Idle
  BY DEF Idle

(* An entry that is not wanted is left out. *)
LEMMA SkipKeeps ==
    ASSUME TreesOK, NEW h \in Holders, NEW e \in job[h].todo, Skip(h, e)
    PROVE  /\ TreesOK' /\ job'[h] # Idle /\ job[h] # Idle /\ UNCHANGED <<tree, worn>>
           /\ \A g \in Holders \ {h} : job'[g] = job[g]
           /\ job'[h].worn = job[h].worn /\ job'[h].work = job[h].work
           /\ job'[h].todo = job[h].todo \ {e} /\ job'[h].prefer = job[h].prefer
<1> DEFINE old == job[h]
           s == old.todo \ {e}
           j == Doing(old, old.work, s, old.written)
<1>1. /\ job' = [job EXCEPT ![h] = [old EXCEPT !.todo = s]] /\ UNCHANGED <<tree, worn>>
      /\ IsJob(old) /\ old.todo # {} /\ (~old.worn => old \in Jobs /\ JobOK(old))
  BY DEF Skip, TreesOK
<1>2. s \subseteq old.todo
  OBVIOUS
<1> HIDE DEF old, s
<1>3. /\ IsJob(j) /\ j.work = old.work /\ j.todo = s /\ j.prefer = old.prefer
      /\ j.written = old.written /\ j.worn = old.worn /\ j = [old EXCEPT !.todo = s]
  <2>1. /\ j.work = old.work /\ j.todo = s /\ j.prefer = old.prefer
        /\ j.written = old.written /\ j.worn = old.worn
    BY DEF Doing
  <2>2. IsJob(j) /\ old \in Parts(old, old.work, old.todo, old.written)
    BY <1>1, JobIs
  <2>3. j = [old EXCEPT !.todo = s]
    <3> DEFINE new == [old EXCEPT !.todo = s]
    <3>1. new \in Parts(old, old.work, s, old.written)
      BY <2>2 DEF Parts
    <3> HIDE DEF new
    <3>2. new = j
      BY <1>1, <3>1, JobIs
    <3> QED  BY <3>2 DEF new
  <2> HIDE DEF j
  <2> QED  BY <2>1, <2>2, <2>3
<1> HIDE DEF j
<1>4. old # Idle
  BY <1>1, WorkerIsBusy
<1>5. ASSUME ~old.worn
      PROVE  j \in Jobs /\ JobOK(j) /\ j # Idle
  <2>1. old \in Jobs /\ JobOK(old) /\ (old.prefer \/ old.work # {})
    BY <1>1, <1>4, <1>5 DEF JobOK
  <2>2. j \in Jobs
    BY <1>2, <1>3, <2>1 DEF Jobs, IsJob
  <2>3. Alike(NamesIn(j.work) \cup KeysOf(j.todo))
    BY <1>2, <1>3, <2>1, StillAlike DEF JobOK
  <2>4. JobOK(j)
    BY <1>2, <1>3, <2>1, <2>3 DEF JobOK
  <2> QED  BY <1>3, <2>1, <2>2, <2>4, WorkerIsBusy
<1>6. j # Idle
  BY <1>3, <1>5, WorkerIsBusy
<1>7. TreesOK' /\ job'[h] = j /\ \A g \in Holders \ {h} : job'[g] = job[g]
  BY <1>1, <1>3, <1>5, JobStep
<1> QED  BY <1>1, <1>3, <1>4, <1>6, <1>7 DEF old, s

(* One that is wanted is written, and its leaf may be too full, *)
LEMMA LeafKeeps ==
    ASSUME TreesOK, NEW h \in Holders, NEW e \in job[h].todo, WriteLeaf(h, e)
    PROVE  /\ TreesOK' /\ job'[h] # Idle /\ job[h] # Idle /\ UNCHANGED <<tree, worn>>
           /\ \A g \in Holders \ {h} : job'[g] = job[g]
           /\ job'[h].worn = job[h].worn
           /\ job'[h].work = Put(job[h].work, Key(e), e.value)
           /\ job'[h].todo = job[h].todo \ {e} /\ job'[h].prefer = job[h].prefer
<1> DEFINE old == job[h]
           s == old.todo \ {e}
           p == LeafFor(old.work, Key(e))
           w == Put(old.work, Key(e), e.value)
           ps == {p}
           j == Doing(old, w, s, ps)
<1>1. /\ job' = [job EXCEPT ![h] = [old EXCEPT !.todo = s, !.work = w, !.written = ps]]
      /\ UNCHANGED <<tree, worn>> /\ old.written = {}
      /\ IsJob(old) /\ old.todo # {} /\ (~old.worn => old \in Jobs /\ JobOK(old))
  BY DEF WriteLeaf, IsNext, TreesOK
<1>2. s \subseteq old.todo /\ e \in old.todo
  OBVIOUS
<1> HIDE DEF old, s, w
<1>3. /\ IsJob(j) /\ j.work = w /\ j.todo = s /\ j.prefer = old.prefer /\ j.written = ps
      /\ j.worn = old.worn /\ j = [old EXCEPT !.todo = s, !.work = w, !.written = ps]
  <2> HIDE DEF ps
  <2>1. j.work = w /\ j.todo = s /\ j.prefer = old.prefer /\ j.written = ps /\ j.worn = old.worn
    BY DEF Doing
  <2>2. IsJob(j) /\ old \in Parts(old, old.work, old.todo, old.written)
    BY <1>1, JobIs
  <2>3. j = [old EXCEPT !.todo = s, !.work = w, !.written = ps]
    <3> DEFINE new == [old EXCEPT !.todo = s, !.work = w, !.written = ps]
    <3>1. new \in Parts(old, w, s, ps)
      BY <2>2 DEF Parts
    <3> HIDE DEF new
    <3>2. new = j
      BY <1>1, <3>1, JobIs
    <3> QED  BY <3>2 DEF new
  <2> HIDE DEF j
  <2> QED  BY <2>1, <2>2, <2>3
<1> HIDE DEF j
<1>4. old # Idle /\ j # Idle
  BY <1>1, <1>3, WorkerIsBusy
<1>5. ASSUME ~old.worn
      PROVE  j \in Jobs /\ JobOK(j)
  <2>1. /\ old \in Jobs /\ JobOK(old)
        /\ Ordered(old.work) /\ Fits(old.work, {}) /\ Alike(NamesIn(old.work) \cup KeysOf(old.todo))
    BY <1>1, <1>5 DEF JobOK
  <2>2. Key(e) \in Keys /\ e.value \in Values /\ Key(e) \in KeysOf(old.todo)
    BY <1>2, <2>1, TodoEntry DEF KeysOf
  <2>3. Agreed(old.work)
    BY <2>1, AlikeParts DEF Agreed
  <2>4. /\ Ordered(w) /\ Fits(w, ps) /\ IsDir(w, p)
        /\ NamesIn(w) \subseteq NamesIn(old.work) \cup {Key(e)}
    BY <2>1, <2>2, <2>3, PutKept DEF w
  <2>5. w \in SUBSET Entries /\ p \in Seq(Keys) /\ w # {}
    <3> HIDE DEF p
    <3>1. Finite(w)
      BY <2>4 DEF Ordered
    <3>2. p \in Seq(Keys)
      BY <2>4, <3>1, DirIsDir
    <3> QED  BY <2>4, <3>1, <3>2 DEF IsDir, Finite
  <2> HIDE DEF p
  <2>6. j \in Jobs
    BY <1>2, <1>3, <2>1, <2>5 DEF Jobs, IsJob
  <2>7. Alike(NamesIn(w) \cup KeysOf(s))
    <3>1. NamesIn(w) \subseteq NamesIn(old.work) \cup KeysOf(old.todo)
      BY <2>2, <2>4
    <3> QED  BY <1>2, <2>1, <3>1, StillAlike
  <2>8. JobOK(j)
    BY <1>2, <1>3, <2>1, <2>4, <2>5, <2>7 DEF JobOK
  <2> QED  BY <2>6, <2>8
<1>6. TreesOK' /\ job'[h] = j /\ \A g \in Holders \ {h} : job'[g] = job[g]
  BY <1>1, <1>3, <1>5, JobStep
<1> QED  BY <1>1, <1>3, <1>4, <1>6 DEF old, s, w

(* until it is split, and then the directory above it. *)
LEMMA ParentKeeps ==
    ASSUME TreesOK, NEW h \in Holders, NEW p \in job[h].written, WriteParent(h, p)
    PROVE  /\ TreesOK' /\ job'[h] # Idle /\ job[h] # Idle /\ UNCHANGED <<tree, worn>>
           /\ \A g \in Holders \ {h} : job'[g] = job[g]
           /\ job'[h].worn = job[h].worn
           /\ ~job[h].worn => /\ Pairs(job'[h].work) = Pairs(job[h].work)
                              /\ job'[h].todo = job[h].todo /\ job'[h].prefer = job[h].prefer
<1> DEFINE none == <<>>
           old == job[h]
           w == Written(old.work, p)
           q == IF p = none THEN {} ELSE {Front(p)}
           j == Doing(old, w, old.todo, q)
<1>1. /\ job' = [job EXCEPT ![h] = [old EXCEPT !.work = w, !.written = q]]
      /\ UNCHANGED <<tree, worn>> /\ p \in old.written
      /\ IsJob(old) /\ (~old.worn => old \in Jobs /\ JobOK(old))
  BY DEF WriteParent, TreesOK
<1> HIDE DEF old, w, q
<1>2. /\ IsJob(j) /\ j.work = w /\ j.todo = old.todo /\ j.prefer = old.prefer /\ j.written = q
      /\ j.worn = old.worn /\ j = [old EXCEPT !.work = w, !.written = q]
  <2>1. j.work = w /\ j.todo = old.todo /\ j.prefer = old.prefer /\ j.written = q /\ j.worn = old.worn
    BY DEF Doing
  <2>2. IsJob(j) /\ old \in Parts(old, old.work, old.todo, old.written)
    BY <1>1, JobIs
  <2>3. j = [old EXCEPT !.work = w, !.written = q]
    <3> DEFINE new == [old EXCEPT !.work = w, !.written = q]
    <3>1. new \in Parts(old, w, old.todo, q)
      BY <2>2 DEF Parts
    <3> HIDE DEF new
    <3>2. new = j
      BY <1>1, <3>1, JobIs
    <3> QED  BY <3>2 DEF new
  <2> HIDE DEF j
  <2> QED  BY <2>1, <2>2, <2>3
<1> HIDE DEF j
<1>3. old # Idle
  BY <1>1, WorkerIsBusy
<1>4. ASSUME ~old.worn
      PROVE  j \in Jobs /\ JobOK(j) /\ j # Idle /\ Pairs(w) = Pairs(old.work)
  <2>1. /\ old \in Jobs /\ JobOK(old) /\ IsDir(old.work, p) /\ Fits(old.work, {p}) /\ Ordered(old.work)
        /\ Alike(NamesIn(old.work) \cup KeysOf(old.todo))
    BY <1>1, <1>4 DEF JobOK
  <2>2. Agreed(old.work)
    BY <2>1, AlikeParts DEF Agreed
  <2>3. /\ Ordered(w) /\ Pairs(w) = Pairs(old.work) /\ NamesIn(w) \subseteq NamesIn(old.work)
        /\ p = none => Fits(w, {})
        /\ p # none => Fits(w, {Front(p)}) /\ IsDir(w, Front(p))
    BY <2>1, <2>2, WrittenKept DEF w
  <2> HIDE DEF none
  <2>4. w \in SUBSET Entries /\ w # {}
    <3>1. w \in SUBSET Entries
      BY <2>3 DEF Ordered, Finite
    <3>2. Pairs(old.work) # {}
      BY <2>1 DEF Pairs, IsDir
    <3>3. w # {}
      BY <2>3, <3>2 DEF Pairs
    <3> QED  BY <3>1, <3>3
  <2>5. q \in SUBSET Seq(Keys) /\ Fits(w, q) /\ \A r \in q : q = {r} /\ IsDir(w, r)
    <3>1. p # none => Front(p) \in Seq(Keys)
      BY <2>3, DirIsDir DEF Ordered
    <3> QED  BY <2>3, <3>1 DEF q
  <2>6. j \in Jobs
    BY <1>2, <2>1, <2>4, <2>5 DEF Jobs, IsJob
  <2>7. Alike(NamesIn(w) \cup KeysOf(old.todo))
    BY <2>1, <2>3, StillAlike
  <2>8. JobOK(j)
    BY <1>2, <2>1, <2>3, <2>4, <2>5, <2>7 DEF JobOK
  <2> QED  BY <1>2, <2>3, <2>4, <2>6, <2>8, WorkerIsBusy
<1>5. j # Idle
  BY <1>2, <1>4, WorkerIsBusy
<1>6. TreesOK' /\ job'[h] = j /\ \A g \in Holders \ {h} : job'[g] = job[g]
  BY <1>1, <1>2, <1>4, JobStep
<1> QED  BY <1>1, <1>2, <1>3, <1>4, <1>5, <1>6 DEF old

(* Every step keeps the trees in order that were, or leaves a worn one. *)
LEMMA TreesNext == TreesOK /\ [Next]_vars => TreesOK'
<1> SUFFICES ASSUME TreesOK, [Next]_vars
             PROVE  TreesOK'
  OBVIOUS
<1>1. CASE UNCHANGED vars
  BY <1>1 DEF vars, TreesOK
<1>2. ASSUME NEW h \in Holders, NEW k \in Keys, DeleteKey(h, k)  PROVE TreesOK'
  BY <1>2, DeleteKeeps
<1>3. ASSUME NEW h \in Holders, NEW k \in Keys, NEW v \in Offers[h], InsertKey(h, k, v)  PROVE TreesOK'
  BY <1>3, InsertKeeps
<1>4. ASSUME NEW h \in Holders, NEW g \in Holders \ {h}, TakeRoot(h, g)  PROVE TreesOK'
  BY <1>4, TakeKeeps
<1>5. ASSUME NEW h \in Holders, NEW g \in Holders \ {h}, NEW p \in BOOLEAN, MergeRoot(h, g, p)
      PROVE  TreesOK'
  BY <1>5, MergeKeeps
<1>6. ASSUME NEW h \in Holders, NEW e \in job[h].todo, Skip(h, e)  PROVE TreesOK'
  BY <1>6, SkipKeeps
<1>7. ASSUME NEW h \in Holders, NEW e \in job[h].todo, WriteLeaf(h, e)  PROVE TreesOK'
  BY <1>7, LeafKeeps
<1>8. ASSUME NEW h \in Holders, NEW p \in job[h].written, WriteParent(h, p)  PROVE TreesOK'
  BY <1>8, ParentKeeps
<1>9. ASSUME NEW h \in Holders, Finish(h)  PROVE TreesOK'
  BY <1>9, FinishKeeps
<1>10. ASSUME NEW h \in Holders, Fail(h)  PROVE TreesOK'
  BY <1>10, FailKeeps
<1> QED  BY <1>1, <1>2, <1>3, <1>4, <1>5, <1>6, <1>7, <1>8, <1>9, <1>10 DEF Next

(* Roots and jobs that are not worn are always in order: a tree goes out of
   order by a deletion of a name that misleads, by names on which the orders
   differ, or by coming from one that is, and in no other way. *)
THEOREM Invariance == Spec => []TreesOK
  BY TreesInit, TreesNext, PTL DEF Spec

(* Splits, merges and deletions in any order leave no directory of a root that
   is not worn too full, and none with a key that belongs into its sibling. *)
THEOREM NodesAreOK == Spec => []NodesOK
<1>1. TreesOK => NodesOK
  BY OrderedIsOK DEF TreesOK, TreeOK, NodesOK
<1> QED  BY <1>1, Invariance, PTL

(* A range of such a root misses no entry that is in it together with the
   names above it, and yields its keys in order and once. *)
THEOREM RangesFindTheirs == Spec => []RangesFind
<1>1. ASSUME TreesOK, NEW h \in Holders \ worn, NEW start \in Keys,
             NEW end \in Keys \cup {k + 1 : k \in Keys}
      PROVE  LET found == RangeTraverse(tree[h], start, end)
             IN  /\ {e \in tree[h] : Key(e) >= start /\ \A i \in DOMAIN e.path : e.path[i] < end}
                      \subseteq found
                 /\ \A e \in found : Key(e) >= start /\ Key(e) < end
                 /\ \A e, f \in found : \/ e = f
                                        \/ Precedes(e, f) /\ Key(e) < Key(f)
                                        \/ Precedes(f, e) /\ Key(f) < Key(e)
  <2>1. end \in Nat
    BY KeysAreNumbers
  <2>2. Ordered(tree[h]) /\ Agreed(tree[h])
    BY <1>1 DEF TreesOK, TreeOK
  <2>3. RangeTraverse(tree[h], start, end)
          = {e \in tree[h] : Key(e) >= start /\ \A i \in DOMAIN e.path : e.path[i] < end}
    BY <2>1, <2>2, RangeIs
  <2>4. \A e, f \in tree[h] : \/ e = f
                              \/ Precedes(e, f) /\ Key(e) < Key(f)
                              \/ Precedes(f, e) /\ Key(f) < Key(e)
    BY <2>2, InOrder
  <2>5. ASSUME NEW e \in tree[h], \A i \in DOMAIN e.path : e.path[i] < end
        PROVE  Key(e) < end
    <3>1. Len(e.path) \in DOMAIN e.path /\ Key(e) = e.path[Len(e.path)]
      BY <2>2, PathFacts, LenProperties DEF Ordered
    <3> QED  BY <2>5, <3>1
  <2> QED  BY <2>3, <2>4, <2>5
<1>2. TreesOK => RangesFind
  BY <1>1 DEF RangesFind
<1> QED  BY <1>2, Invariance, PTL

(* Every entry of such a root is found by a lookup of its key: no split, merge
   or deletion loses one before a name misleads. *)
THEOREM NoEntryIsLost == Spec => []NamedEntriesAreFound
<1>1. ASSUME TreesOK, NEW h \in Holders \ worn, NEW e \in tree[h]
      PROVE  Get(tree[h], Key(e)) = e.value
  <2>1. Ordered(tree[h]) /\ Agreed(tree[h])
    BY <1>1 DEF TreesOK, TreeOK
  <2> QED  BY <2>1, GetIs
<1>2. TreesOK => NamedEntriesAreFound
  BY <1>1 DEF NamedEntriesAreFound, AllFound
<1> QED  BY <1>2, Invariance, PTL

-----------------------------------------------------------------------------
(* The dictionary. *)

(* The map new added to the map have, which one of them wins. *)
Together(prefer, new, have) ==
    IF prefer THEN new \cup {x \in have : \A y \in new : x.key # y.key}
    ELSE have \cup {x \in new : \A y \in have : x.key # y.key}

(* What an operation comes to is one map added to the other. *)
LEMMA DueIs ==
    ASSUME NEW j, Ordered(j.work), Agreed(j.work)
    PROVE  Due(j) = Together(j.prefer, Pairs(j.todo), Pairs(j.work))
<1>1. Map(j.work) = Pairs(j.work)
  BY MapIs
<1> DEFINE new == Pairs(j.todo)
           have == Pairs(j.work)
           keys == {x.key : x \in IF j.prefer THEN new ELSE have}
<1>2. Due(j) = IF j.prefer THEN new \cup {x \in have : x.key \notin keys}
               ELSE have \cup {x \in new : x.key \notin keys}
  BY <1>1 DEF Due, Pairs
<1> HIDE DEF new, have
<1>3. CASE j.prefer
  <2>1. \A x \in have : x.key \notin keys <=> \A y \in new : x.key # y.key
    BY <1>3
  <2> HIDE DEF keys
  <2> QED  BY <1>2, <1>3, <2>1 DEF Together, new, have
<1>4. CASE ~j.prefer
  <2>1. \A x \in new : x.key \notin keys <=> \A y \in have : x.key # y.key
    BY <1>4
  <2> HIDE DEF keys
  <2> QED  BY <1>2, <1>4, <2>1 DEF Together, new, have
<1> QED  BY <1>3, <1>4

(* The entry a is left out when it is there, *)
LEMMA TogetherSkips ==
    ASSUME NEW N, NEW H, NEW a \in N, NEW y \in H, y.key = a.key,
           \A x \in N : x.key = a.key => x = a,
           \A x \in H : x.key = a.key => x = y,
           NEW prefer \in BOOLEAN, prefer => y = a
    PROVE  Together(prefer, Without(N, a.key), H) = Together(prefer, N, H)
<1> DEFINE M == Without(N, a.key)
<1>1. CASE prefer
  <2>1. \A z : z \in M \cup {x \in H : \A u \in M : x.key # u.key}
                 <=> z \in N \cup {x \in H : \A u \in N : x.key # u.key}
    BY <1>1 DEF Without
  <2>2. M \cup {x \in H : \A u \in M : x.key # u.key} = N \cup {x \in H : \A u \in N : x.key # u.key}
    <3> HIDE DEF M
    <3> QED  BY <2>1
  <2> QED  BY <1>1, <2>2 DEF Together
<1>2. CASE ~prefer
  <2>1. \A z : z \in H \cup {x \in M : \A u \in H : x.key # u.key}
                 <=> z \in H \cup {x \in N : \A u \in H : x.key # u.key}
    BY <1>2 DEF Without
  <2>2. H \cup {x \in M : \A u \in H : x.key # u.key} = H \cup {x \in N : \A u \in H : x.key # u.key}
    <3> HIDE DEF M
    <3> QED  BY <2>1
  <2> QED  BY <1>2, <2>2 DEF Together
<1> QED  BY <1>1, <1>2

(* or put where nothing is that it has to leave. *)
LEMMA TogetherPuts ==
    ASSUME NEW N, NEW H, NEW a \in N,
           \A x \in N : x.key = a.key => x = a,
           NEW prefer \in BOOLEAN, prefer \/ \A x \in H : x.key # a.key,
           NEW J, J = Without(H, a.key) \cup {a}
    PROVE  Together(prefer, Without(N, a.key), J) = Together(prefer, N, H)
<1> DEFINE M == Without(N, a.key)
<1>1. CASE prefer
  <2>1. \A z : z \in M \cup {x \in J : \A u \in M : x.key # u.key}
                 <=> z \in N \cup {x \in H : \A u \in N : x.key # u.key}
    BY <1>1 DEF Without
  <2>2. M \cup {x \in J : \A u \in M : x.key # u.key} = N \cup {x \in H : \A u \in N : x.key # u.key}
    <3> HIDE DEF M
    <3> QED  BY <2>1
  <2> QED  BY <1>1, <2>2 DEF Together
<1>2. CASE ~prefer
  <2>1. \A z : z \in J \cup {x \in M : \A u \in J : x.key # u.key}
                 <=> z \in H \cup {x \in N : \A u \in H : x.key # u.key}
    BY <1>2 DEF Without
  <2>2. J \cup {x \in M : \A u \in J : x.key # u.key} = H \cup {x \in N : \A u \in H : x.key # u.key}
    <3> HIDE DEF M
    <3> QED  BY <2>1
  <2> QED  BY <1>2, <2>2 DEF Together
<1> QED  BY <1>1, <1>2

(* The entries that are left to be inserted. *)
LEMMA TodoPairs ==
    ASSUME NEW s, NEW e \in s, \A f, g \in s : Key(f) = Key(g) => f = g
    PROVE  /\ Pair(e) \in Pairs(s) /\ Pair(e).key = Key(e) /\ Pair(e).value = e.value
           /\ \A x \in Pairs(s) : x.key = Key(e) => x = Pair(e)
           /\ Pairs(s \ {e}) = Without(Pairs(s), Key(e))
<1> DEFINE a == Pair(e)
<1>1. a \in Pairs(s) /\ a.key = Key(e) /\ a.value = e.value
  BY DEF Pairs, Pair
<1>2. ASSUME NEW x \in Pairs(s), x.key = a.key
      PROVE  x = a
  <2>1. PICK f \in s : x = [key |-> Key(f), value |-> f.value]
    BY DEF Pairs
  <2>2. f = e
    BY <1>1, <1>2, <2>1
  <2> QED  BY <2>1, <2>2 DEF Pair
<1>3. ASSUME NEW x \in Pairs(s \ {e})
      PROVE  x \in Pairs(s) /\ x.key # a.key
  <2>1. PICK f \in s \ {e} : x = [key |-> Key(f), value |-> f.value]
    BY DEF Pairs
  <2>2. Key(f) # Key(e)
    BY <2>1
  <2> QED  BY <1>1, <2>1, <2>2 DEF Pairs
<1>4. ASSUME NEW x \in Pairs(s), x.key # a.key
      PROVE  x \in Pairs(s \ {e})
  <2>1. PICK f \in s : x = [key |-> Key(f), value |-> f.value]
    BY DEF Pairs
  <2>2. f # e
    BY <1>1, <1>4, <2>1
  <2> QED  BY <2>1, <2>2 DEF Pairs
<1>5. Pairs(s \ {e}) = Without(Pairs(s), Key(e))
  <2> HIDE DEF a
  <2> QED  BY <1>1, <1>3, <1>4 DEF Without
<1> QED  BY <1>1, <1>2, <1>5

(* While an operation goes on, what it comes to stays what it was. *)
LEMMA SkipDue ==
    ASSUME TreesOK, NEW h \in Holders, NEW e \in job[h].todo, Skip(h, e), ~job[h].worn
    PROVE  Due(job'[h]) = Due(job[h])
<1> DEFINE a == Pair(e)
           w == job[h].work
<1>1. TreesOK' /\ JobOK(job[h]) /\ job[h] \in Jobs
  BY SkipKeeps DEF TreesOK
<1>2. job'[h].work = w /\ job'[h].todo = job[h].todo \ {e} /\ job'[h].prefer = job[h].prefer
  BY SkipKeeps
<1>3. /\ a \in Pairs(job[h].todo) /\ a.key = Key(e) /\ a.value = e.value
      /\ \A x \in Pairs(job[h].todo) : x.key = a.key => x = a
      /\ Pairs(job[h].todo \ {e}) = Without(Pairs(job[h].todo), a.key)
  <2>1. \A f, g \in job[h].todo : Key(f) = Key(g) => f = g
    BY <1>1 DEF JobOK
  <2>2. /\ Pair(e) \in Pairs(job[h].todo) /\ Pair(e).key = Key(e) /\ Pair(e).value = e.value
        /\ \A x \in Pairs(job[h].todo) : x.key = Key(e) => x = Pair(e)
        /\ Pairs(job[h].todo \ {e}) = Without(Pairs(job[h].todo), Key(e))
    BY ONLY e \in job[h].todo, <2>1, TodoPairs
  <2> QED  BY <2>2
<1>4. Ordered(w) /\ Agreed(w) /\ job[h].prefer \in BOOLEAN
  BY <1>1, AlikeParts DEF JobOK, Jobs, Agreed
<1>5. Get(w, Key(e)) # None /\ (job[h].prefer => Get(w, Key(e)) = e.value)
  BY <1>4 DEF Skip, Wanted
<1> HIDE DEF a, w
<1>6. PICK f \in w : Key(f) = Key(e) /\ f.value = Get(w, Key(e))
  BY <1>4, <1>5, GetIs DEF KeysOf
<1> DEFINE y == [key |-> Key(f), value |-> f.value]
<1>7. y \in Pairs(w) /\ y.key = a.key /\ \A x \in Pairs(w) : x.key = a.key => x = y
  <2>1. \A g \in w : Key(g) = Key(f) => g = f
    BY <1>4, KeysDiffer
  <2> QED  BY <1>3, <1>6, <2>1 DEF Pairs
<1>8. job[h].prefer => y = a
  BY <1>5, <1>6 DEF a, Pair
<1> HIDE DEF y
<1>9. Together(job[h].prefer, Without(Pairs(job[h].todo), a.key), Pairs(w))
        = Together(job[h].prefer, Pairs(job[h].todo), Pairs(w))
  BY <1>3, <1>4, <1>7, <1>8, TogetherSkips
<1>10. Due(job[h]) = Together(job[h].prefer, Pairs(job[h].todo), Pairs(w))
  BY <1>4, DueIs DEF w
<1>11. Due(job'[h]) = Together(job[h].prefer, Pairs(job[h].todo \ {e}), Pairs(w))
  BY <1>2, <1>4, DueIs
<1> QED  BY <1>3, <1>9, <1>10, <1>11

(* A value that is put was due, *)
LEMMA LeafDue ==
    ASSUME TreesOK, NEW h \in Holders, NEW e \in job[h].todo, WriteLeaf(h, e), ~job[h].worn
    PROVE  Due(job'[h]) = Due(job[h])
<1> DEFINE a == Pair(e)
           w == job[h].work
<1>1. /\ TreesOK' /\ job'[h].work = Put(w, Key(e), e.value)
      /\ job'[h].todo = job[h].todo \ {e} /\ job'[h].prefer = job[h].prefer
      /\ JobOK(job[h]) /\ job[h] \in Jobs /\ job[h].written = {}
  BY LeafKeeps DEF TreesOK, WriteLeaf, IsNext
<1>2. /\ a \in Pairs(job[h].todo) /\ a.key = Key(e) /\ a.value = e.value
      /\ \A x \in Pairs(job[h].todo) : x.key = a.key => x = a
      /\ Pairs(job[h].todo \ {e}) = Without(Pairs(job[h].todo), a.key)
  <2>1. \A f, g \in job[h].todo : Key(f) = Key(g) => f = g
    BY <1>1 DEF JobOK
  <2>2. /\ Pair(e) \in Pairs(job[h].todo) /\ Pair(e).key = Key(e) /\ Pair(e).value = e.value
        /\ \A x \in Pairs(job[h].todo) : x.key = Key(e) => x = Pair(e)
        /\ Pairs(job[h].todo \ {e}) = Without(Pairs(job[h].todo), Key(e))
    BY ONLY e \in job[h].todo, <2>1, TodoPairs
  <2> QED  BY <2>2
<1>3. Ordered(w) /\ Agreed(w) /\ Fits(w, {}) /\ job[h].prefer \in BOOLEAN
  BY <1>1, AlikeParts DEF JobOK, Jobs, Agreed
<1>4. Key(e) \in Keys /\ e.value \in Values
  BY <1>1, TodoEntry
<1>5. job[h].prefer \/ Get(w, Key(e)) = None
  BY DEF WriteLeaf, Wanted
<1>6. /\ Pairs(Put(w, Key(e), e.value)) = Without(Pairs(w), a.key) \cup {a}
      /\ Ordered(Put(w, Key(e), e.value)) /\ Agreed(Put(w, Key(e), e.value))
  <2> HIDE DEF w
  <2>1. /\ Pairs(Put(w, Key(e), e.value)) = With(Pairs(w), Key(e), e.value)
        /\ Ordered(Put(w, Key(e), e.value))
    BY <1>3, <1>4, PutKept
  <2>2. With(Pairs(w), Key(e), e.value) = Without(Pairs(w), Key(e)) \cup {Pair(e)}
    BY DEF With, Pair
  <2>3. Agreed(Put(w, Key(e), e.value))
    <3>1. JobOK(job'[h]) /\ job'[h].work = Put(w, Key(e), e.value)
      BY <1>1, LeafKeeps DEF TreesOK
    <3> QED  BY <3>1, AlikeParts DEF JobOK, Agreed
  <2> QED  BY <1>2, <2>1, <2>2, <2>3
<1> HIDE DEF a, w
<1>7. job[h].prefer \/ \A x \in Pairs(w) : x.key # a.key
  <2> SUFFICES ASSUME Get(w, Key(e)) = None, NEW f \in w, Key(f) = Key(e)
               PROVE  FALSE
    BY <1>2, <1>5 DEF Pairs
  <2>1. f.value = None
    BY <1>3, GetIs
  <2>2. f.value \in Values
    BY <1>3, PathFacts DEF Ordered
  <2> QED  BY <2>1, <2>2, BTreeAssumption
<1>8. Together(job[h].prefer, Without(Pairs(job[h].todo), a.key), Pairs(Put(w, Key(e), e.value)))
        = Together(job[h].prefer, Pairs(job[h].todo), Pairs(w))
  <2> DEFINE N == Pairs(job[h].todo)
             H == Pairs(w)
             J == Pairs(Put(w, Key(e), e.value))
             prefer == job[h].prefer
  <2>1. /\ a \in N /\ (\A x \in N : x.key = a.key => x = a) /\ prefer \in BOOLEAN
        /\ prefer \/ \A x \in H : x.key # a.key
        /\ J = Without(H, a.key) \cup {a}
    BY <1>2, <1>3, <1>6, <1>7
  <2> HIDE DEF N, H, J, prefer
  <2>2. Together(prefer, Without(N, a.key), J) = Together(prefer, N, H)
    BY ONLY <2>1, TogetherPuts
  <2> QED  BY <2>2 DEF N, H, J, prefer
<1>9. Due(job[h]) = Together(job[h].prefer, Pairs(job[h].todo), Pairs(w))
  BY <1>3, DueIs DEF w
<1>10. Due(job'[h]) = Together(job[h].prefer, Pairs(job[h].todo \ {e}), Pairs(Put(w, Key(e), e.value)))
  BY <1>1, <1>6, DueIs DEF w
<1> QED  BY <1>2, <1>6, <1>8, <1>9, <1>10

(* and splits change nothing of it. *)
LEMMA ParentDue ==
    ASSUME TreesOK, NEW h \in Holders, NEW p \in job[h].written, WriteParent(h, p), ~job[h].worn
    PROVE  Due(job'[h]) = Due(job[h])
<1>1. /\ TreesOK' /\ Pairs(job'[h].work) = Pairs(job[h].work)
      /\ job'[h].todo = job[h].todo /\ job'[h].prefer = job[h].prefer /\ job'[h].worn = job[h].worn
  BY ParentKeeps
<1>2. JobOK(job[h]) /\ JobOK(job'[h])
  BY <1>1 DEF TreesOK
<1>3. /\ Ordered(job[h].work) /\ Agreed(job[h].work)
      /\ Ordered(job'[h].work) /\ Agreed(job'[h].work)
  BY <1>2, AlikeParts DEF JobOK, Agreed
<1> QED  BY <1>1, <1>3, DueIs

(* What is promised of the operation j. *)
Promised(j) == IF j.worn THEN {} ELSE {Due(j)}

(* What a dictionary is promised to be, and what an operation will leave. *)
LEMMA PromisesAre ==
    /\ TreesOK => \A g \in Holders : Dicts[g] = IF g \in worn THEN {} ELSE {Pairs(tree[g])}
    /\ \A g \in Holders : Dues[g] = IF job[g] = Idle THEN {} ELSE {Promised(job[g])}
<1>1. ASSUME TreesOK, NEW g \in Holders \ worn
      PROVE  Map(tree[g]) = Pairs(tree[g])
  BY <1>1, MapIs DEF TreesOK, TreeOK
<1>2. \A g \in Holders : Dicts[g] = IF g \in worn THEN {} ELSE {Map(tree[g])}
  BY DEF Dicts
<1>3. \A g \in Holders : Dues[g] = IF job[g] = Idle THEN {} ELSE {Promised(job[g])}
  BY DEF Dues, Promised
<1> QED  BY <1>1, <1>2, <1>3

(* What the dictionary of a holder may become. *)
LEMMA MayBecome ==
    ASSUME TreesOK, NEW h \in Holders
    PROVE  /\ {} \in Dictionary!Outcomes(h)
           /\ h \in worn => {{}} \in Dictionary!Outcomes(h)
           /\ h \notin worn =>
                 /\ \A k \in Keys : {Without(Pairs(tree[h]), k)} \in Dictionary!Outcomes(h)
                 /\ \A k \in Keys, v \in Values :
                       {Together(TRUE, {[key |-> k, value |-> v]}, Pairs(tree[h]))} \in Dictionary!Outcomes(h)
           /\ \A g \in Holders \ {h} :
                 /\ Dicts[g] \in Dictionary!Outcomes(h)
                 /\ h \notin worn /\ g \notin worn =>
                       \A p \in BOOLEAN :
                          {Together(p, Pairs(tree[g]), Pairs(tree[h]))} \in Dictionary!Outcomes(h)
<1>1. \A g \in Holders : Dicts[g] = IF g \in worn THEN {} ELSE {Pairs(tree[g])}
  BY PromisesAre
<1> DEFINE others == {Dicts[g] : g \in Holders \ {h}}
           Made(m) == Dictionary!Changed(m) \cup UNION {Dictionary!Merged(m, o) : o \in UNION others}
           made == UNION {{{n} : n \in Made(m)} : m \in Dicts[h]}
           anew == {{{}} : d \in {Dicts[h]} \cap {{}}}
<1>2. Dictionary!Outcomes(h) = made \cup others \cup anew \cup {{}}
  BY DEF Dictionary!Outcomes
<1>3. {} \in Dictionary!Outcomes(h)
  <2> HIDE DEF made, others, anew
  <2> QED  BY <1>2
<1>4. ASSUME h \in worn
      PROVE  {{}} \in Dictionary!Outcomes(h)
  <2>1. {{}} \in anew
    BY <1>1, <1>4
  <2> HIDE DEF made, others, anew
  <2> QED  BY <1>2, <2>1
<1>5. ASSUME NEW g \in Holders \ {h}
      PROVE  Dicts[g] \in Dictionary!Outcomes(h)
  <2>1. Dicts[g] \in others
    OBVIOUS
  <2> HIDE DEF made, others, anew
  <2> QED  BY <1>2, <2>1
<1>6. ASSUME NEW m \in Dicts[h], NEW n \in Made(m)
      PROVE  {n} \in Dictionary!Outcomes(h)
  <2> HIDE DEF Made
  <2>1. {n} \in made
    OBVIOUS
  <2> HIDE DEF made, others, anew
  <2> QED  BY <1>2, <2>1
<1>7. ASSUME NEW m, NEW n \in Dictionary!Changed(m)
      PROVE  n \in Made(m)
  OBVIOUS
<1>8. ASSUME NEW m, NEW g \in Holders \ {h}, NEW o \in Dicts[g], NEW n \in Dictionary!Merged(m, o)
      PROVE  n \in Made(m)
  OBVIOUS
<1> HIDE DEF others, Made, made, anew
<1>9. \A m, n : /\ Together(TRUE, m, n) = Dictionary!Over(m, n)
                /\ Together(FALSE, m, n) = Dictionary!Over(n, m)
  BY DEF Together, Dictionary!Over
<1>10. ASSUME h \notin worn, NEW k \in Keys
       PROVE  {Without(Pairs(tree[h]), k)} \in Dictionary!Outcomes(h)
  <2>1. Without(Pairs(tree[h]), k) \in Dictionary!Changed(Pairs(tree[h]))
    BY DEF Dictionary!Changed, Without
  <2> QED  BY <1>1, <1>6, <1>7, <1>10, <2>1
<1>11. ASSUME h \notin worn, NEW k \in Keys, NEW v \in Values
       PROVE  {Together(TRUE, {[key |-> k, value |-> v]}, Pairs(tree[h]))} \in Dictionary!Outcomes(h)
  <2> DEFINE x == [key |-> k, value |-> v]
             n == Together(TRUE, {x}, Pairs(tree[h]))
  <2>1. x \in [key : Keys, value : Values]
    OBVIOUS
  <2> HIDE DEF x
  <2>2. n = Dictionary!Over({x}, Pairs(tree[h]))
    BY <1>9
  <2>3. n \in Dictionary!Changed(Pairs(tree[h]))
    BY <2>1, <2>2 DEF Dictionary!Changed
  <2> HIDE DEF n
  <2>4. {n} \in Dictionary!Outcomes(h)
    BY <1>1, <1>6, <1>7, <1>11, <2>3
  <2> QED  BY <2>4 DEF n, x
<1>12. ASSUME h \notin worn, NEW g \in Holders \ {h}, g \notin worn, NEW p \in BOOLEAN
       PROVE  {Together(p, Pairs(tree[g]), Pairs(tree[h]))} \in Dictionary!Outcomes(h)
  <2> DEFINE n == Together(p, Pairs(tree[g]), Pairs(tree[h]))
  <2>1. n \in Dictionary!Merged(Pairs(tree[h]), Pairs(tree[g]))
    BY <1>9 DEF Dictionary!Merged
  <2> HIDE DEF n
  <2>2. Pairs(tree[h]) \in Dicts[h] /\ Pairs(tree[g]) \in Dicts[g]
    BY <1>1, <1>12
  <2>3. {n} \in Dictionary!Outcomes(h)
    BY <1>6, <1>8, <2>1, <2>2
  <2> QED  BY <2>3 DEF n
<1> QED  BY <1>3, <1>4, <1>5, <1>10, <1>11, <1>12

(* Dictionaries are maps, *)
LEMMA PairsType ==
    ASSUME NEW t, Ordered(t)
    PROVE  Pairs(t) \in Dictionary!Maps
<1>1. \A e \in t : Key(e) \in Keys /\ e.value \in Values
  BY PathFacts DEF Ordered
<1> QED  BY <1>1 DEF Pairs, Dictionary!Maps

(* and so is what is due. *)
LEMMA DueType ==
    ASSUME NEW j \in Jobs, JobOK(j)
    PROVE  Due(j) \in Dictionary!Maps
<1>1. Ordered(j.work) /\ Agreed(j.work) /\ Pairs(j.work) \in Dictionary!Maps
  BY PairsType, AlikeParts DEF JobOK, Agreed
<1>2. Pairs(j.todo) \in Dictionary!Maps
  <2>1. \A e \in j.todo : Key(e) \in Keys /\ e.value \in Values
    BY TodoEntry
  <2> QED  BY <2>1 DEF Pairs, Dictionary!Maps
<1>3. Due(j) = Together(j.prefer, Pairs(j.todo), Pairs(j.work))
  BY <1>1, DueIs
<1> QED  BY <1>1, <1>2, <1>3 DEF Together, Dictionary!Maps

(* A step of one holder that does at once what it was asked for, begins, or ends. *)
LEMMA AsDictionary ==
    ASSUME TreesOK', NEW h \in Holders,
           \A g \in Holders \ {h} : tree'[g] = tree[g] /\ job'[g] = job[g] /\ (g \in worn' <=> g \in worn),
           \/ job[h] = Idle /\ job'[h] = Idle /\ Dicts'[h] \in Dictionary!Outcomes(h)
           \/ /\ job[h] = Idle /\ job'[h] # Idle /\ Dicts'[h] = Dicts[h]
              /\ Promised(job'[h]) \in Dictionary!Outcomes(h)
           \/ /\ job[h] # Idle /\ job'[h] = Idle
              /\ Dicts'[h] = Promised(job[h]) \/ Dicts'[h] = Dicts[h]
    PROVE  Dictionary!Next
<1>1. \A g \in Holders : /\ Dicts[g] = IF g \in worn THEN {} ELSE {Map(tree[g])}
                         /\ Dicts'[g] = IF g \in worn' THEN {} ELSE {Map(tree'[g])}
  BY DEF Dicts
<1>2. \A g \in Holders : /\ Dues[g] = IF job[g] = Idle THEN {} ELSE {Promised(job[g])}
                         /\ Dues'[g] = IF job'[g] = Idle THEN {} ELSE {Promised(job'[g])}
  BY DEF Dues, Promised
<1>3. Dicts' \in [Holders -> Dictionary!Promises] /\ Dues' \in [Holders -> SUBSET Dictionary!Promises]
  <2>1. ASSUME NEW g \in Holders, g \notin worn'
        PROVE  Map(tree'[g]) \in Dictionary!Maps
    <3>1. Ordered(tree'[g]) /\ Agreed(tree'[g])
      BY <2>1 DEF TreesOK, TreeOK
    <3> QED  BY <3>1, MapIs, PairsType
  <2>2. ASSUME NEW g \in Holders, ~job'[g].worn
        PROVE  Due(job'[g]) \in Dictionary!Maps
    <3>1. job'[g] \in Jobs /\ JobOK(job'[g])
      BY <2>2 DEF TreesOK
    <3> QED  BY <3>1, DueType
  <2>3. ASSUME NEW g \in Holders
        PROVE  Dicts'[g] \in Dictionary!Promises
    BY <1>1, <2>1 DEF Dictionary!Promises
  <2>4. ASSUME NEW g \in Holders
        PROVE  Dues'[g] \in SUBSET Dictionary!Promises
    <3>1. Promised(job'[g]) \in Dictionary!Promises
      BY <2>2 DEF Dictionary!Promises, Promised
    <3> QED  BY <1>2, <3>1
  <2>5. Dicts' \in [Holders -> Dictionary!Promises]
    BY <2>3 DEF Dicts
  <2>6. Dues' \in [Holders -> SUBSET Dictionary!Promises]
    BY <2>4 DEF Dues
  <2> QED  BY <2>5, <2>6
<1>4. Dictionary!Change(h) <=> Dues[h] = {} /\ Dues'[h] = {} /\ Dicts'[h] \in Dictionary!Outcomes(h)
  BY DEF Dictionary!Change
<1>5. Dictionary!Begin(h) <=> Dues[h] = {} /\ Dicts'[h] = Dicts[h] /\ Dues'[h] \in {{d} : d \in Dictionary!Outcomes(h)}
  BY DEF Dictionary!Begin
<1>6. Dictionary!End(h) <=> Dues[h] # {} /\ Dues'[h] = {} /\ Dicts'[h] \in Dues[h] \cup {Dicts[h]}
  BY DEF Dictionary!End
<1>7. Dictionary!Next <=> /\ \E i \in Holders : /\ Dictionary!Change(i) \/ Dictionary!Begin(i) \/ Dictionary!End(i)
                                                /\ \A g \in Holders \ {i} : Dicts'[g] = Dicts[g] /\ Dues'[g] = Dues[g]
                          /\ Dicts' \in [Holders -> Dictionary!Promises]
                          /\ Dues' \in [Holders -> SUBSET Dictionary!Promises]
  BY DEF Dictionary!Next
<1>8. ASSUME NEW g \in Holders \ {h}
      PROVE  Dicts'[g] = Dicts[g] /\ Dues'[g] = Dues[g]
  <2>1. tree'[g] = tree[g] /\ job'[g] = job[g] /\ (g \in worn' <=> g \in worn)
    OBVIOUS
  <2>2. Dicts'[g] = Dicts[g]
    BY <2>1 DEF Dicts
  <2>3. Dues'[g] = Dues[g]
    BY <1>2, <2>1
  <2> QED  BY <2>2, <2>3
<1>9. Dues[h] = (IF job[h] = Idle THEN {} ELSE {Promised(job[h])})
      /\ Dues'[h] = IF job'[h] = Idle THEN {} ELSE {Promised(job'[h])}
  BY <1>2
<1>10. Dictionary!Change(h) \/ Dictionary!Begin(h) \/ Dictionary!End(h)
  BY <1>4, <1>5, <1>6, <1>9
<1> QED  BY <1>3, <1>7, <1>8, <1>10

(* delete removes its key from the holder's map, at once, or ends the promise. *)
LEMMA DeleteDictionary ==
    ASSUME TreesOK, NEW h \in Holders, NEW k \in Keys, DeleteKey(h, k)
    PROVE  Dictionary!Next
<1>1. /\ TreesOK' /\ tree'[h] = Delete(tree[h], k) /\ job' = job /\ job[h] = Idle
      /\ \A g \in Holders \ {h} : tree'[g] = tree[g] /\ (g \in worn' <=> g \in worn)
      /\ \/ h \in worn'
         \/ h \notin worn' /\ h \in worn /\ tree'[h] = {}
         \/ /\ h \notin worn' /\ h \notin worn /\ TreeOK(tree'[h])
            /\ Pairs(tree'[h]) = Without(Pairs(tree[h]), k)
  BY DeleteKeeps
<1>2. Dicts'[h] = IF h \in worn' THEN {} ELSE {Map(tree'[h])}
  BY DEF Dicts
<1>3. CASE h \in worn'
  BY <1>1, <1>2, <1>3, MayBecome, AsDictionary
<1>4. CASE h \notin worn' /\ h \in worn /\ tree'[h] = {}
  <2>1. Map({}) = {}
    BY DEF Map
  <2>2. Dicts'[h] = {{}}
    BY <1>2, <1>4, <2>1
  <2>3. Dicts'[h] \in Dictionary!Outcomes(h)
    BY <1>4, <2>2, MayBecome
  <2> QED  BY <1>1, <2>3, AsDictionary
<1>5. CASE /\ h \notin worn' /\ h \notin worn /\ TreeOK(tree'[h])
           /\ Pairs(tree'[h]) = Without(Pairs(tree[h]), k)
  <2>1. Map(tree'[h]) = Without(Pairs(tree[h]), k)
    BY <1>5, MapIs DEF TreeOK
  <2>2. Dicts'[h] \in Dictionary!Outcomes(h)
    BY <1>2, <1>5, <2>1, MayBecome
  <2> QED  BY <1>1, <2>2, AsDictionary
<1> QED  BY <1>1, <1>3, <1>4, <1>5

(* A holder that takes over a root goes on with its map, and what it is promised. *)
LEMMA TakeDictionary ==
    ASSUME TreesOK, NEW h \in Holders, NEW g \in Holders \ {h}, TakeRoot(h, g)
    PROVE  Dictionary!Next
<1>1. /\ TreesOK' /\ tree'[h] = tree[g] /\ (h \in worn' <=> g \in worn)
      /\ \A i \in Holders \ {h} : tree'[i] = tree[i] /\ (i \in worn' <=> i \in worn)
  BY TakeKeeps
<1>2. job' = job /\ job[h] = Idle
  BY DEF TakeRoot
<1>3. Dicts'[h] = Dicts[g]
  BY <1>1 DEF Dicts
<1>4. Dicts'[h] \in Dictionary!Outcomes(h)
  BY <1>3, MayBecome
<1> QED  BY <1>1, <1>2, <1>4, AsDictionary

(* What an operation will come to is settled when it begins. *)
LEMMA BeginDictionary ==
    ASSUME TreesOK, NEW h \in Holders, NEW todo, NEW prefer \in BOOLEAN, NEW isWorn \in BOOLEAN,
           Begin(h, todo, prefer, isWorn), todo # {},
           ~isWorn => Insertable(todo),
           prefer \/ tree[h] # {},
           ~isWorn /\ h \notin worn =>
              {Together(prefer, Pairs(todo), Pairs(tree[h]))} \in Dictionary!Outcomes(h)
    PROVE  TreesOK' /\ Dictionary!Next
<1>1. /\ TreesOK' /\ UNCHANGED <<tree, worn>> /\ job[h] = Idle
      /\ job'[h].work = tree[h] /\ job'[h].todo = todo /\ job'[h].prefer = prefer
      /\ ~job'[h].worn => ~isWorn /\ h \notin worn
      /\ \A g \in Holders \ {h} : job'[g] = job[g]
  <2>1. Began(h, todo, prefer, isWorn)
    BY BeginKeeps
  <2> QED  BY <2>1 DEF Began
<1>2. job'[h] # Idle
  BY <1>1, WorkerIsBusy
<1>3. Promised(job'[h]) \in Dictionary!Outcomes(h)
  <2>1. CASE job'[h].worn
    BY <2>1, MayBecome DEF Promised
  <2>2. CASE ~job'[h].worn
    <3>1. Ordered(job'[h].work) /\ Agreed(job'[h].work) /\ ~isWorn /\ h \notin worn
      BY <1>1, <2>2 DEF TreesOK, TreeOK
    <3>2. Due(job'[h]) = Together(prefer, Pairs(todo), Pairs(tree[h]))
      BY <1>1, <3>1, DueIs
    <3> QED  BY <2>2, <3>1, <3>2 DEF Promised
  <2> QED  BY <2>1, <2>2
<1>4. Dicts'[h] = Dicts[h]
  BY <1>1 DEF Dicts
<1>5. \A g \in Holders \ {h} : tree'[g] = tree[g] /\ job'[g] = job[g] /\ (g \in worn' <=> g \in worn)
  BY <1>1
<1> QED  BY <1>1, <1>2, <1>3, <1>4, <1>5, AsDictionary

(* An insertion will put its value. *)
LEMMA InsertDictionary ==
    ASSUME TreesOK, NEW h \in Holders, NEW k \in Keys, NEW v \in Offers[h], InsertKey(h, k, v)
    PROVE  Dictionary!Next
<1> DEFINE x == <<k>>
           n == [path |-> x, value |-> v]
           todo == {n}
<1>1. v \in Values
  BY BTreeAssumption
<1>2. Begin(h, todo, TRUE, FALSE)
  BY DEF InsertKey
<1>3. n.path = x /\ n.value = v /\ Len(x) = 1 /\ x[1] = k /\ x \in Seq(Keys)
  OBVIOUS
<1>4. n \in Entries
  <2> HIDE DEF x
  <2> QED  BY <1>1, <1>3 DEF Entries
<1>5. Key(n) = k
  <2> HIDE DEF n, x
  <2> QED  BY <1>3 DEF Key, Last
<1> HIDE DEF n
<1>6. Pairs(todo) = {[key |-> k, value |-> v]}
  BY <1>3, <1>5 DEF Pairs
<1>7. h \notin worn => {Together(TRUE, Pairs(todo), Pairs(tree[h]))} \in Dictionary!Outcomes(h)
  BY <1>1, <1>6, MayBecome
<1>8. todo # {} /\ Insertable(todo)
  <2> HIDE DEF x
  <2>1. Len(n.path) >= 1
    BY <1>3
  <2>2. todo # {} /\ \A e \in todo : e = n
    OBVIOUS
  <2> HIDE DEF todo
  <2> QED  BY <1>4, <2>1, <2>2 DEF Insertable
<1> HIDE DEF todo
<1> QED  BY <1>2, <1>7, <1>8, BeginDictionary

(* A merge will add one map to the other. *)
LEMMA MergeDictionary ==
    ASSUME TreesOK, NEW h \in Holders, NEW g \in Holders \ {h}, NEW prefer \in BOOLEAN,
           MergeRoot(h, g, prefer)
    PROVE  Dictionary!Next
<1> DEFINE isWorn == g \in worn
           todo == tree[g]
<1>1. Begin(h, todo, prefer, isWorn) /\ tree[h] # {} /\ todo # {} /\ isWorn \in BOOLEAN
  BY DEF MergeRoot
<1>2. ASSUME ~isWorn
      PROVE  Insertable(todo)
  <2>1. Ordered(todo) /\ Finite(todo)
    BY <1>2 DEF TreesOK, TreeOK, Ordered
  <2> QED  BY <2>1, PathFacts, KeysDiffer DEF Finite, Insertable
<1>3. ~isWorn /\ h \notin worn => {Together(prefer, Pairs(todo), Pairs(tree[h]))} \in Dictionary!Outcomes(h)
  BY MayBecome
<1>4. prefer \/ tree[h] # {}
  BY <1>1
<1> HIDE DEF isWorn, todo
<1>5. TreesOK' /\ Dictionary!Next
  BY ONLY <1>1, <1>2, <1>3, <1>4, TreesOK, h \in Holders, prefer \in BOOLEAN, BeginDictionary
<1> QED  BY <1>5

(* An operation that ends has come to what was due. *)
LEMMA FinishDictionary ==
    ASSUME TreesOK, NEW h \in Holders, Finish(h)
    PROVE  Dictionary!Next
<1>1. /\ TreesOK' /\ tree'[h] = job[h].work /\ job'[h] = Idle /\ (h \in worn' <=> job[h].worn)
      /\ \A g \in Holders \ {h} : tree'[g] = tree[g] /\ job'[g] = job[g] /\ (g \in worn' <=> g \in worn)
  BY FinishKeeps
<1>2. job[h] # Idle /\ job[h].todo = {}
  BY DEF Finish
<1>3. Dicts'[h] = IF h \in worn' THEN {} ELSE {Map(tree'[h])}
  BY DEF Dicts
<1>4. ASSUME ~job[h].worn
      PROVE  Map(tree'[h]) = Due(job[h])
  <2>1. Ordered(job[h].work) /\ Agreed(job[h].work) /\ job[h].prefer \in BOOLEAN
    <3>1. job[h] \in Jobs /\ JobOK(job[h])
      BY <1>4 DEF TreesOK
    <3> QED  BY <3>1, AlikeParts DEF JobOK, Jobs, Agreed
  <2>2. Map(tree'[h]) = Pairs(job[h].work)
    BY <1>1, <2>1, MapIs
  <2>3. Due(job[h]) = Together(job[h].prefer, Pairs(job[h].todo), Pairs(job[h].work))
    BY <2>1, DueIs
  <2>4. Pairs(job[h].todo) = {}
    BY <1>2 DEF Pairs
  <2>5. \A p \in BOOLEAN : \A m : Together(p, {}, m) = m
    BY DEF Together
  <2> QED  BY <2>1, <2>2, <2>3, <2>4, <2>5
<1>5. Dicts'[h] = Promised(job[h])
  BY <1>1, <1>3, <1>4 DEF Promised
<1> QED  BY <1>1, <1>2, <1>5, AsDictionary

(* One that fails has changed nothing. *)
LEMMA FailDictionary ==
    ASSUME TreesOK, NEW h \in Holders, Fail(h)
    PROVE  Dictionary!Next
<1>1. /\ TreesOK' /\ job'[h] = Idle /\ job[h] # Idle /\ UNCHANGED <<tree, worn>>
      /\ \A g \in Holders \ {h} : job'[g] = job[g]
  BY FailKeeps
<1>2. Dicts'[h] = Dicts[h]
  BY <1>1 DEF Dicts
<1>3. \A g \in Holders \ {h} : tree'[g] = tree[g] /\ job'[g] = job[g] /\ (g \in worn' <=> g \in worn)
  BY <1>1
<1> QED  BY <1>1, <1>2, <1>3, AsDictionary

(* The steps in which an operation goes on change nothing that a dictionary shows. *)
LEMMA WorkStutters ==
    ASSUME NEW h \in Holders, UNCHANGED <<tree, worn>>,
           \A g \in Holders \ {h} : job'[g] = job[g],
           job[h] # Idle, job'[h] # Idle, job'[h].worn = job[h].worn,
           ~job[h].worn => Due(job'[h]) = Due(job[h])
    PROVE  Dicts' = Dicts /\ Dues' = Dues
<1>1. ASSUME NEW g \in Holders
      PROVE  (IF job'[g] = Idle THEN {} ELSE {Promised(job'[g])})
                = IF job[g] = Idle THEN {} ELSE {Promised(job[g])}
  <2>1. CASE g = h
    BY <2>1 DEF Promised
  <2>2. CASE g # h
    BY <2>2
  <2> QED  BY <2>1, <2>2
<1>2. /\ Dues = [g \in Holders |-> IF job[g] = Idle THEN {} ELSE {Promised(job[g])}]
      /\ Dues' = [g \in Holders |-> IF job'[g] = Idle THEN {} ELSE {Promised(job'[g])}]
  BY DEF Dues, Promised
<1>3. Dues' = Dues
  BY <1>1, <1>2
<1>4. Dicts' = Dicts
  BY DEF Dicts
<1> QED  BY <1>3, <1>4

(* Every step is one of a dictionary, or shows nothing. *)
LEMMA StepDictionary ==
    ASSUME TreesOK, [Next]_vars
    PROVE  Dictionary!Next \/ (Dicts' = Dicts /\ Dues' = Dues)
<1>1. ASSUME NEW h \in Holders, NEW k \in Keys, DeleteKey(h, k)  PROVE Dictionary!Next
  BY <1>1, DeleteDictionary
<1>2. ASSUME NEW h \in Holders, NEW k \in Keys, NEW v \in Offers[h], InsertKey(h, k, v)
      PROVE  Dictionary!Next
  BY <1>2, InsertDictionary
<1>3. ASSUME NEW h \in Holders, NEW g \in Holders \ {h}, TakeRoot(h, g)  PROVE Dictionary!Next
  BY <1>3, TakeDictionary
<1>4. ASSUME NEW h \in Holders, NEW g \in Holders \ {h}, NEW p \in BOOLEAN, MergeRoot(h, g, p)
      PROVE  Dictionary!Next
  BY <1>4, MergeDictionary
<1>5. ASSUME NEW h \in Holders, Finish(h)  PROVE Dictionary!Next
  BY <1>5, FinishDictionary
<1>6. ASSUME NEW h \in Holders, Fail(h)  PROVE Dictionary!Next
  BY <1>6, FailDictionary
<1>7. ASSUME NEW h \in Holders, NEW e \in job[h].todo, Skip(h, e)  PROVE Dicts' = Dicts /\ Dues' = Dues
  BY <1>7, SkipKeeps, SkipDue, WorkStutters
<1>8. ASSUME NEW h \in Holders, NEW e \in job[h].todo, WriteLeaf(h, e)  PROVE Dicts' = Dicts /\ Dues' = Dues
  BY <1>8, LeafKeeps, LeafDue, WorkStutters
<1>9. ASSUME NEW h \in Holders, NEW p \in job[h].written, WriteParent(h, p)  PROVE Dicts' = Dicts /\ Dues' = Dues
  BY <1>9, ParentKeeps, ParentDue, WorkStutters
<1>10. CASE UNCHANGED vars
  BY <1>10 DEF vars, Dicts, Dues
<1> QED  BY <1>1, <1>2, <1>3, <1>4, <1>5, <1>6, <1>7, <1>8, <1>9, <1>10 DEF Next

(* No root is an empty map. *)
LEMMA InitDictionary == Init => Dictionary!Init
<1> SUFFICES ASSUME Init
             PROVE  Dictionary!Init
  OBVIOUS
<1>1. Map({}) = {}
  BY DEF Map
<1>2. worn = {} /\ \A h \in Holders : tree[h] = {} /\ job[h] = Idle
  BY DEF Init
<1> QED  BY <1>1, <1>2 DEF Dictionary!Init, Dicts, Dues

(* An index is a dictionary: whatever is inserted, removed and merged in any
   order, with the splits of B-trees between any two steps of others, lookups
   find what was put last, until a name misleads. *)
THEOREM DictionaryKept == Spec => KeepsDictionary
<1>1. Init => Dictionary!Init
  BY InitDictionary
<1>2. TreesOK /\ [Next]_vars =>
        [Dictionary!Next]_<<Dicts, Dues>>
  BY StepDictionary
<1> QED  BY <1>1, <1>2, Invariance, PTL DEF Spec, KeepsDictionary, Dictionary!Spec

=============================================================================
