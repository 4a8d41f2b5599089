----------------------------- MODULE MCAvlTree -----------------------------
(* Instances of AvlTree for TLC.                                           *)
EXTENDS AvlQueries

Left == {-1}
LeftAndRight == {-1, 1}

(* Addresses do not matter: two states are one if their trees have the     *)
(* same shape and contents, parent pointers included.  (The comparison, of *)
(* a value with itself, makes TLC evaluate all of heap before storing it.) *)
RECURSIVE Shape(_)
Shape(n) ==
    IF n = Nil THEN << >>
    ELSE <<Shape(heap.kid[n][-1]), Shape(heap.kid[n][1]), heap.key[n],
           heap.bal[n], heap.rank[n], {d \in Side : heap.kid[heap.up[n]][d] = n}>>

ShapeView == <<Shape(Top(heap)), length, Cardinality(heap.used), heap = heap>>

=============================================================================
