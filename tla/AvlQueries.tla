----------------------------- MODULE AvlQueries -----------------------------
(***************************************************************************)
(* The queries of avl/avl.c, as functions of the tree, and what they       *)
(* answer.  NoKey stands for the result -1.                                *)
(***************************************************************************)
EXTENDS AvlTree

(* The loop that avl_get_by_index and avl_iterate_index_range look for the *)
(* node of rank m with: m counts from the first node below n.              *)
RankStep(h, c) ==
    CASE c.n = Nil \/ c.m = h.rank[c.n] -> c
      [] c.n # Nil /\ c.m < h.rank[c.n] -> [c EXCEPT !.n = h.kid[c.n][-1]]
      [] c.n # Nil /\ c.m > h.rank[c.n] -> [n |-> h.kid[c.n][1], m |-> c.m - h.rank[c.n]]

NodeOfRank(h, m) ==
    LET at[i \in 0..MaxLength] ==
            IF i = 0 THEN [n |-> Top(h), m |-> m] ELSE RankStep(h, at[i - 1])
    IN  at[MaxLength].n

(* Mutant of GetByIndex: indices from one.                                 *)
GetByIndexFromOne(h, i) ==
    LET n == NodeOfRank(h, i) IN IF n = Nil THEN NoKey ELSE h.key[n]

GetByIndex(h, i) ==
    LET n == NodeOfRank(h, i + 1) IN IF n = Nil THEN NoKey ELSE h.key[n]

GetByKey(h, k) == IF Found(h, k) THEN h.key[Last(Search(h, k))] ELSE NoKey

GetFirst(h) == IF Top(h) = Nil THEN Nil ELSE EndOf(h, Top(h), -1)

(* node->parent && node->parent->key: the parent is not the sentinel.      *)
HasParent(h, n) == h.up[n] # Nil /\ h.key[h.up[n]] # NoKey

(* avl_get_next for d = 1, avl_get_prev for d = -1: without a child on     *)
(* that side, up to the first node that has n on its other side.           *)
Ascend(h, n, d) ==
    LET x == Last(Follow(n, [m \in Node |->
                  IF HasParent(h, m) /\ h.kid[h.up[m]][-d] # m THEN h.up[m] ELSE Nil]))
    IN  IF HasParent(h, x) THEN h.up[x] ELSE Nil

(* Mutant of Neighbour: the child is returned, not its far descendant.     *)
NeighbourChild(h, n, d) ==
    IF h.kid[n][d] # Nil THEN h.kid[n][d] ELSE Ascend(h, n, d)

Neighbour(h, n, d) ==
    IF h.kid[n][d] # Nil THEN EndOf(h, h.kid[n][d], -d) ELSE Ascend(h, n, d)

(* avl_get_item_by_key_most and _least: an equal key, or else the last key *)
(* met on the way down that is smaller (larger).                           *)
LastMet(h, path, met) == IF met = {} THEN NoKey ELSE h.key[path[Max(met)]]

GetMost(h, k) ==
    LET path == Search(h, k) IN LastMet(h, path, {i \in DOMAIN path : h.key[path[i]] <= k})

GetLeast(h, k) ==
    LET path == Search(h, k) IN LastMet(h, path, {i \in DOMAIN path : h.key[path[i]] >= k})

(* avl_get_index_by_key: <<node or Nil, index>>; -1 stands for the largest *)
(* unsigned long.  m is the position of the node reached.                  *)
Position(h, path, k) ==
    LET m[i \in DOMAIN path] ==
            IF i = 1 THEN h.rank[path[1]]
            ELSE LET p == path[i - 1] IN
                 (IF k < h.key[p] THEN m[i - 1] - h.rank[p] ELSE m[i - 1]) + h.rank[path[i]]
    IN  m[Len(path)]

IndexByKey(h, k) ==
    LET path == Search(h, k)
        x == Last(path)
        m == Position(h, path, k)
    IN  CASE k = h.key[x] -> <<x, m - 1>>
          [] k < h.key[x] -> <<Nil, m - 2>>
          [] k > h.key[x] -> <<Nil, m - 1>>

(* How many neighbours of n on side d, one after the other, have key k.    *)
(* (The tests i > 0 and j <= length never end a run while ranks count.)    *)
EqualRun(h, n, k, d) ==
    Len(Follow(n, [m \in Node |-> LET q == Neighbour(h, m, d) IN
                                  IF q # Nil /\ h.key[q] = k THEN q ELSE Nil])) - 1

(* Mutant of SpanByKey: the last equal key is left out.                    *)
SpanByKeyShort(h, k) ==
    LET at == IndexByKey(h, k) IN
    IF at[1] = Nil THEN <<at[2], at[2]>>
    ELSE <<at[2] - EqualRun(h, at[1], k, -1), at[2] + EqualRun(h, at[1], k, 1)>>

SpanByKey(h, k) ==
    LET at == IndexByKey(h, k) IN
    IF at[1] = Nil THEN <<at[2], at[2]>>
    ELSE <<at[2] - EqualRun(h, at[1], k, -1), at[2] + EqualRun(h, at[1], k, 1) + 1>>

SpanByTwoKeys(h, k1, k2) ==
    LET kl == IF k1 > k2 THEN k2 ELSE k1
        kh == IF k1 > k2 THEN k1 ELSE k2
        lo == IndexByKey(h, kl)
        hi == IndexByKey(h, kh)
    IN  << IF lo[1] = Nil THEN lo[2] + 1 ELSE lo[2] - EqualRun(h, lo[1], kl, -1),
           IF hi[1] = Nil THEN hi[2] + 1 ELSE hi[2] + EqualRun(h, hi[1], kh, 1) >>

(* avl_iterate_index_range(low, high): the keys it visits, last one first. *)
Visit(h, c) == [n |-> Neighbour(h, c.n, -1), keys |-> Append(c.keys, h.key[c.n])]

IterateIndexRange(h, low, high) ==
    LET at[i \in 0..(high - low)] ==
            IF i = 0 THEN [n |-> NodeOfRank(h, high), keys |-> << >>] ELSE Visit(h, at[i - 1])
    IN  at[high - low].keys

-----------------------------------------------------------------------------
(* Properties.                                                             *)

(* The keys met from the first node on, with avl_get_next.                 *)
Walk(h) ==
    LET path == IF GetFirst(h) = Nil THEN << >>
                ELSE Follow(GetFirst(h), [n \in Node |-> Neighbour(h, n, 1)])
    IN  [i \in DOMAIN path |-> h.key[path[i]]]

(* Walking with avl_get_first and avl_get_next, or back with avl_get_prev, *)
(* meets every key once, in order: next and prev undo each other.          *)
WalksInOrder ==
    /\ Walk(heap) = InOrder(heap)
    /\ \A n \in InTree, d \in Side :
          LET m == Neighbour(heap, n, d) IN m # Nil => Neighbour(heap, m, -d) = n

(* The searches by index, by key, by nearest key and the index ranges all  *)
(* answer what the sequence of keys in order says.                         *)
QueriesAgree ==
    LET keys == InOrder(heap) IN
    /\ \A i \in 0..MaxLength :
          GetByIndex(heap, i) = IF i < Len(keys) THEN keys[i + 1] ELSE NoKey
    /\ \A k \in Key :
          LET below == {i \in DOMAIN keys : keys[i] <= k}
              above == {i \in DOMAIN keys : keys[i] >= k}
          IN  /\ GetByKey(heap, k) = IF below \cap above = {} THEN NoKey ELSE k
              /\ GetMost(heap, k) = IF below = {} THEN NoKey ELSE keys[Max(below)]
              /\ GetLeast(heap, k) = IF above = {} THEN NoKey ELSE keys[Min(above)]
    /\ \A high \in 1..length : \A low \in 0..high :
          IterateIndexRange(heap, low, high) = Reverse(SubSeq(keys, low + 1, high))

(* avl_get_span_by_key returns <<low, high>> such that the keys equal to k *)
(* are those at the indices low, ..., high - 1 (none, if k is absent).     *)
(* avl_get_span_by_two_keys has the same comment and another upper end:    *)
(* the index after the last key of the range if the larger key is absent,  *)
(* and the index of that last key if it is there.                          *)
Spans ==
    LET keys == InOrder(heap)
        AtMost(k) == Cardinality({i \in DOMAIN keys : keys[i] <= k})
        Below(k) == Cardinality({i \in DOMAIN keys : keys[i] < k})
    IN
    length > 0 =>
      \A k1 \in Key :
        LET one == SpanByKey(heap, k1) IN
        /\ {i \in 0..(length - 1) : keys[i + 1] = k1} = one[1]..(one[2] - 1)
        /\ \A k2 \in Key : k1 <= k2 =>
              SpanByTwoKeys(heap, k1, k2) =
                 <<Below(k1), IF Found(heap, k2) THEN AtMost(k2) - 1 ELSE AtMost(k2)>>

=============================================================================
