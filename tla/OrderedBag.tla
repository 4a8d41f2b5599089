----------------------------- MODULE OrderedBag -----------------------------
(***************************************************************************)
(* What the tree of avl/avl.c promises: a bag of keys.  avl_insert adds a  *)
(* key (equal keys are kept), avl_delete takes one equal key out or leaves *)
(* the bag alone, avl_tree_free empties it.                                *)
(***************************************************************************)
EXTENDS Naturals

CONSTANT Key

VARIABLE bag    \* how often each key is in the tree

Init == bag = [k \in Key |-> 0]

Insert(k) == bag' = [bag EXCEPT ![k] = @ + 1]

Delete(k) ==
    /\ bag[k] > 0
    /\ bag' = [bag EXCEPT ![k] = @ - 1]

Clear == bag' = [k \in Key |-> 0]

Next == (\E k \in Key : Insert(k) \/ Delete(k)) \/ Clear

Spec == Init /\ [][Next]_bag

=============================================================================
