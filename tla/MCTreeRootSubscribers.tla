----------------------- MODULE MCTreeRootSubscribers -----------------------
(* Small instances of TreeRootSubscribers for TLC: roots without metadata. *)
EXTENDS TreeRootSubscribers

AllTrees == Accounts \X TreeNames

BareOffered == {[key |-> None, visibility |-> None, labels |-> {}, encryptedKey |-> None]}

NoKeys == [h \in Hashes |-> {}]
=============================================================================
