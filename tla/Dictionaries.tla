----------------------------- MODULE Dictionaries -----------------------------
(***************************************************************************)
(* What an index promises: under every root that somebody holds there is a *)
(* finite map from keys to values, which only the holder changes.  What an *)
(* operation comes to is settled when it begins.  An index may give the    *)
(* promise up for a root, and with it for what is made from that root.     *)
(***************************************************************************)
CONSTANTS Holders, Keys, Values

VARIABLES
    dict, \* the set of the map (a set of entries) each holder has, {} if nothing is promised
    due   \* the set of what each holder's operation will leave in dict, {} if none is awaited

(* An entry for every key of a map, and no two for one. *)
Maps == SUBSET [key : Keys, value : Values]

Promises == SUBSET Maps

Init ==
    /\ dict = [h \in Holders |-> {{}}]
    /\ due = [h \in Holders |-> {}]

(* The map m, and what n has under other keys. *)
Over(m, n) == m \cup {x \in n : \A y \in m : x.key # y.key}

(* A key is removed, or a value is put under it. *)
Changed(m) == {{x \in m : x.key # k} : k \in Keys}
              \cup {Over({x}, m) : x \in [key : Keys, value : Values]}

(* The map n of another holder is added to m, and one of them wins where both have something. *)
Merged(m, n) == {Over(n, m), Over(m, n)}

(* A holder changes its map, adds that of another or goes on with it; an index
   that is emptied is as good as new. *)
Outcomes(h) ==
    LET others == {dict[g] : g \in Holders \ {h}}
    IN  (UNION {{{n} : n \in Changed(m) \cup UNION {Merged(m, o) : o \in UNION others}} : m \in dict[h]})
        \cup others \cup {{{}} : d \in {dict[h]} \cap {{}}} \cup {{}}

(* At once, or when an operation was awaited, which may fail. *)
Change(h) == due[h] = {} /\ due'[h] = {} /\ dict'[h] \in Outcomes(h)

Begin(h) == due[h] = {} /\ dict'[h] = dict[h] /\ due'[h] \in {{d} : d \in Outcomes(h)}

End(h) == due[h] # {} /\ due'[h] = {} /\ dict'[h] \in due[h] \cup {dict[h]}

Next ==
    /\ \E h \in Holders :
          /\ Change(h) \/ Begin(h) \/ End(h)
          /\ \A g \in Holders \ {h} : dict'[g] = dict[g] /\ due'[g] = due[g]
    /\ dict' \in [Holders -> Promises] /\ due' \in [Holders -> SUBSET Promises]

Spec == Init /\ [][Next]_<<dict, due>>
=============================================================================
