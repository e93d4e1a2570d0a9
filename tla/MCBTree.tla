------------------------------- MODULE MCBTree -------------------------------
(* Small instances of BTree for TLC. *)
EXTENDS BTree

CONSTANTS a, b, v1, v2

(* localeCompare and < agree on the keys but for 6, which < has last and
   localeCompare between 3 and 4. *)
MCCollate == [k \in Keys |-> IF k = 6 THEN 7 ELSE 2 * k]

(* And on all of them, as they do on words of lower-case letters. *)
SameCollate == [k \in Keys |-> k]

MCOffers == [h \in Holders |-> IF h = a THEN {v1} ELSE {v2}]

(* a may have five keys, delete any of them and put it back; b has two, a
   value that a can only get from b, and may put two keys into a directory
   that the orders disagree on. *)
MCRoom ==
    [h \in Holders |->
        IF h = a THEN {{}, {3}, {3, 4}, {3, 4, 5}, {1, 4}}
                      \cup {1..5} \cup {(1..5) \ {k} : k \in 1..5}
        ELSE {{}, {4}, {1, 4}, {4, 6}}]

(* Ten keys of which one is deleted that two directories are named after. *)
LostKey == <<1, 2, 8, 9, 10, 4>>
Later == <<5, 6, 3, 7>>
LostKeyRoom ==
    [h \in Holders |->
        {ToSet(SubSeq(LostKey, 1, i)) : i \in 0..Len(LostKey)}
        \cup {(ToSet(LostKey) \cup ToSet(SubSeq(Later, 1, i))) \ {2} : i \in 0..Len(Later)}]
=============================================================================
