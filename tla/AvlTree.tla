------------------------------- MODULE AvlTree -------------------------------
(***************************************************************************)
(* The balanced tree of avl/avl.c, as linked nodes with parent pointers,   *)
(* balance factors and ranks.  The tree serves one thread at a time (its   *)
(* callers hold avl_tree_wlock, or a mutex of their own), so that each     *)
(* operation is one action.                                                *)
(*                                                                         *)
(* A node is a number; Root is the sentinel avl_tree_new allocates, whose  *)
(* right child is the top of the tree.  A side is -1 (left) or +1 (right), *)
(* the sign avl.c gives its balance factors, so that a rotation and its    *)
(* mirror image are one definition.                                        *)
(*                                                                         *)
(* tree->height is left out: avl_insert adds to it, and nothing reads it.  *)
(***************************************************************************)
EXTENDS Integers, Sequences, FiniteSets, FiniteSetsExt, SequencesExt

CONSTANTS
    Key,          \* the keys, positive integers under the usual order
    MaxLength,    \* bound: nodes in the tree
    Misses,       \* sides on which a search for an absent key to delete may end
    OutOfMemory,  \* may malloc fail in avl_insert?
    MaxRank       \* bound: ranks up to which failed operations go on

ASSUME KeyAssumption == Key \subseteq Nat \ {0}
ASSUME MissesAssumption == Misses \subseteq {-1, 1}
ASSUME BoundAssumption == MaxLength \in Nat

VARIABLES
    heap,         \* the nodes: kid, up, key, bal, rank, and which are in use
    length        \* tree->length

vars == <<heap, length>>

Root == 0
Nil  == -1
Node == 0..MaxLength
Side == {-1, 1}

RankRange == 2^30         \* rank is 30 bits of an unsigned int
NoKey == 0                \* the NULL key of the sentinel

-----------------------------------------------------------------------------
(* Nodes.                                                                  *)

NewTree ==
    [used |-> {Root},
     kid  |-> [n \in Node |-> [d \in Side |-> Nil]],
     up   |-> [n \in Node |-> Nil],
     key  |-> [n \in Node |-> NoKey],
     bal  |-> [n \in Node |-> 0],
     rank |-> [n \in Node |-> 1]]

Top(h) == h.kid[Root][1]

SideOf(h, x) == IF h.kid[h.up[x]][-1] = x THEN -1 ELSE 1

(* avl_node_new(key, p), linked below p on side d.                         *)
AvlNodeNew(h, n, k, p, d) ==
    [h EXCEPT !.used = @ \cup {n}, !.kid[p][d] = n, !.up[n] = p, !.key[n] = k,
              !.kid[n] = [s \in Side |-> Nil], !.bal[n] = 0, !.rank[n] = 1]

(* free(x): a freed node keeps no contents.                                *)
FreeNode(h, x) ==
    [h EXCEPT !.used = @ \ {x}, !.kid[x] = [s \in Side |-> Nil], !.up[x] = Nil,
              !.key[x] = NoKey, !.bal[x] = 0, !.rank[x] = 1]

AddRank(h, ns, i) ==
    [h EXCEPT !.rank = [n \in Node |-> IF n \in ns THEN (@[n] + i) % RankRange
                                                   ELSE @[n]]]

SetBal(h, f) == [h EXCEPT !.bal = [n \in Node |-> IF n \in DOMAIN f THEN f[n] ELSE @[n]]]

(* Mutant of Link: the parent pointer is not set.                          *)
LinkOneWay(h, p, d, c) == [h EXCEPT !.kid[p][d] = c]

(* Hang c (which may be Nil) below p on side d.                            *)
Link(h, p, d, c) ==
    [h EXCEPT !.kid[p][d] = c, !.up = [n \in Node |-> IF n = c THEN p ELSE @[n]]]

(* Mutants of Rotate: the inner subtree is not moved, and ranks are kept.  *)
RotateDrop(h, x, a) ==
    LET y == h.kid[x][a]
        t == h.up[x]
        h1 == Link(Link(Link(h, t, SideOf(h, x), y), x, a, Nil), y, -a, x)
    IN  IF a = -1 THEN AddRank(h1, {x}, -h.rank[y]) ELSE AddRank(h1, {y}, h.rank[x])

RotateNoRank(h, x, a) ==
    LET y == h.kid[x][a]
        t == h.up[x]
    IN  Link(Link(Link(h, t, SideOf(h, x), y), x, a, h.kid[y][-a]), y, -a, x)

(* The child y of x on side a takes x's place, x becomes its child, and    *)
(* y's inner subtree moves to x.  Ranks count left subtrees: raising a     *)
(* left child takes its rank off x, raising a right one adds x's to it.    *)
Rotate(h, x, a) ==
    LET y == h.kid[x][a]
        t == h.up[x]
        h1 == Link(Link(Link(h, t, SideOf(h, x), y), x, a, h.kid[y][-a]), y, -a, x)
    IN  IF a = -1 THEN AddRank(h1, {x}, -h.rank[y]) ELSE AddRank(h1, {y}, h.rank[x])

(* Mutant of DoubleRotate: the two cases of p's balance are exchanged.     *)
DoubleRotateSwapped(h, s, a) ==
    LET r == h.kid[s][a]
        p == h.kid[r][-a]
        b == h.bal[p]
        h1 == Rotate(Rotate(h, r, -a), s, a)
    IN  [h1 EXCEPT !.bal[s] = IF b = -a THEN -a ELSE 0,
                   !.bal[r] = IF b = a THEN a ELSE 0,
                   !.bal[p] = 0]

(* Raise the grandchild p = s/a/-a over r = s/a and s, and give the three  *)
(* nodes their balance from p's.                                           *)
DoubleRotate(h, s, a) ==
    LET r == h.kid[s][a]
        p == h.kid[r][-a]
        b == h.bal[p]
        h1 == Rotate(Rotate(h, r, -a), s, a)
    IN  [h1 EXCEPT !.bal[s] = IF b = a THEN -a ELSE 0,
                   !.bal[r] = IF b = -a THEN a ELSE 0,
                   !.bal[p] = 0]

-----------------------------------------------------------------------------
(* The loops that go from node to node: the nodes from n on, next[m] after *)
(* m, until that is Nil.  No loop of the code meets a node twice.          *)
Further(path, next) ==
    LET m == next[Last(path)] IN IF m = Nil THEN path ELSE Append(path, m)

Follow(n, next) ==
    LET path[i \in 0..MaxLength] == IF i = 0 THEN <<n>> ELSE Further(path[i - 1], next)
    IN  IF n = Nil THEN << >> ELSE path[MaxLength]

(* The last node from n on in direction d.                                 *)
EndOf(h, n, d) == Last(Follow(n, [m \in Node |-> h.kid[m][d]]))

-----------------------------------------------------------------------------
(* avl_insert.                                                             *)

(* compare_fun(key, n->key) < 1: equal keys go left.                       *)
InsertSide(h, n, k) == IF k <= h.key[n] THEN -1 ELSE 1

InsertPath(h, k) == Follow(Top(h), [n \in Node |-> h.kid[n][InsertSide(h, n, k)]])

(* The nodes whose left subtree the search goes into gain one in rank, on  *)
(* the way down.                                                           *)
RankUp(h, path, k) ==
    AddRank(h, {n \in ToSet(path) : InsertSide(h, n, k) = -1}, 1)

(* Mutant of AdjustBalance: no rotation.                                   *)
AdjustBalanceOnly(h, path, k) ==
    LET i == Max({1} \cup {j \in 1..Len(path) : h.bal[path[j]] # 0})
        s == path[i]
        below == {path[j] : j \in (i + 1)..Len(path)}
        h1 == SetBal(h, [n \in below |-> InsertSide(h, n, k)])
    IN  [h1 EXCEPT !.bal[s] = @ + InsertSide(h, s, k)]

(* s, the last node on the path that is not in balance (or the top), is    *)
(* where the growth of the subtree is absorbed; the nodes below it lean    *)
(* to the side the new node went.                                          *)
AdjustBalance(h, path, k) ==
    LET i == Max({1} \cup {j \in 1..Len(path) : h.bal[path[j]] # 0})
        s == path[i]
        below == {path[j] : j \in (i + 1)..Len(path)}
        a == InsertSide(h, s, k)
        r == h.kid[s][a]
        h1 == SetBal(h, [n \in below |-> InsertSide(h, n, k)])
    IN  CASE h.bal[s] = 0  -> [h1 EXCEPT !.bal[s] = a]
          [] h.bal[s] = -a -> [h1 EXCEPT !.bal[s] = 0]
          [] h.bal[s] = a /\ h1.bal[r] = a ->
                [Rotate(h1, s, a) EXCEPT !.bal[s] = 0, !.bal[r] = 0]
          [] h.bal[s] = a /\ h1.bal[r] = -a -> DoubleRotate(h1, s, a)

Inserted(h, k) ==
    LET n == Min(Node \ h.used) IN
    IF Top(h) = Nil THEN AvlNodeNew(h, n, k, Root, 1)
    ELSE LET path == InsertPath(h, k)
             p == Last(path)
         IN  AdjustBalance(AvlNodeNew(RankUp(h, path, k), n, k, p, InsertSide(h, p, k)),
                           path, k)

AvlInsert(k) ==
    /\ length < MaxLength
    /\ length' = length + 1
    /\ heap' = Inserted(heap, k)

(* avl_node_new fails: -1 is returned, the ranks are not put back.         *)
AvlInsertNoMemory(k) ==
    /\ OutOfMemory
    /\ Top(heap) # Nil
    /\ \A n \in Node : heap.rank[n] < MaxRank
    /\ UNCHANGED length
    /\ heap' = RankUp(heap, InsertPath(heap, k), k)

-----------------------------------------------------------------------------
(* avl_delete.                                                             *)

(* The nodes from the top down to the first one with key k, or to the end. *)
Search(h, k) ==
    Follow(Top(h), [n \in Node |-> IF k = h.key[n] THEN Nil
                                    ELSE h.kid[n][IF k < h.key[n] THEN -1 ELSE 1]])

Found(h, k) == Search(h, k) # << >> /\ h.key[Last(Search(h, k))] = k

RankDown(h, path, k) == AddRank(h, {n \in ToSet(path) : k < h.key[n]}, -1)

(* One turn of the loop that climbs: the subtree of p on side d has become *)
(* shorter.  It rotates where the other side is now two higher, and goes   *)
(* on while the height keeps shrinking.                                    *)
ShortenStep(c) ==
    LET h == c.h
        p == c.p
        d == c.d
        q == h.kid[p][-d]
        Stop(g) == [c EXCEPT !.h = g, !.shorter = FALSE]
        Climb(g, x) == [h |-> g, p |-> g.up[x], d |-> SideOf(g, x), shorter |-> TRUE]
    IN  IF ~c.shorter \/ p = Root THEN c
        ELSE CASE h.bal[p] = 0 -> Stop([h EXCEPT !.bal[p] = -d])
               [] h.bal[p] = d -> Climb([h EXCEPT !.bal[p] = 0], p)
               [] h.bal[p] = -d /\ h.bal[q] = 0 ->
                     Stop([Rotate(h, p, -d) EXCEPT !.bal[q] = d, !.bal[p] = -d])
               [] h.bal[p] = -d /\ h.bal[q] = -d ->
                     Climb([Rotate(h, p, -d) EXCEPT !.bal[q] = 0, !.bal[p] = 0], q)
               [] h.bal[p] = -d /\ h.bal[q] = d ->
                     Climb(DoubleRotate(h, p, -d), h.kid[q][d])

(* The loop; there are at most MaxLength levels to climb.                  *)
Shorten(h, p, d) ==
    LET at[i \in 0..MaxLength] ==
            IF i = 0 THEN [h |-> h, p |-> p, d |-> d, shorter |-> TRUE]
            ELSE ShortenStep(at[i - 1])
    IN  at[MaxLength].h

(* x has at most one child: it takes x's place.                            *)
Unlink(h, x) ==
    LET c == IF h.kid[x][-1] # Nil THEN h.kid[x][-1] ELSE h.kid[x][1]
        p == h.up[x]
        d == SideOf(h, x)
    IN  Shorten(FreeNode(Link(h, p, d, c), x), p, d)

(* Mutant of TakeOut: the keys are not traded.                             *)
TakeOutNoSwap(h, x) ==
    IF Nil \notin {h.kid[x][-1], h.kid[x][1]}
    THEN Unlink(AddRank(h, {x}, -1), EndOf(h, h.kid[x][-1], 1))
    ELSE Unlink(h, x)

(* A node with two children trades keys with its predecessor, which has    *)
(* one child at most and goes instead.                                     *)
TakeOut(h, x) ==
    IF Nil \notin {h.kid[x][-1], h.kid[x][1]}
    THEN LET y == EndOf(h, h.kid[x][-1], 1)
         IN  Unlink(AddRank([h EXCEPT !.key[x] = h.key[y], !.key[y] = h.key[x]],
                            {x}, -1), y)
    ELSE Unlink(h, x)

Deleted(h, k) ==
    LET path == Search(h, k) IN TakeOut(RankDown(h, path, k), Last(path))

AvlDelete(k) ==
    /\ Found(heap, k)
    /\ length' = length - 1
    /\ heap' = Deleted(heap, k)

(* The key is not in the tree: the last node x, and every node that has    *)
(* the path in its left subtree, get one added to their rank, to undo the  *)
(* search.  (An empty tree returns at once, with nothing changed.)         *)
UndoRanks(h, path) ==
    AddRank(h, {Last(path)} \cup {path[i] : i \in {j \in 1..(Len(path) - 1) :
                                     h.kid[path[j]][-1] = path[j + 1]}}, 1)

AvlDeleteMiss(k) ==
    LET path == Search(heap, k) IN
    /\ path # << >>
    /\ ~Found(heap, k)
    /\ \A n \in Node : heap.rank[n] < MaxRank
    /\ (IF k < heap.key[Last(path)] THEN -1 ELSE 1) \in Misses
    /\ UNCHANGED length
    /\ heap' = UndoRanks(RankDown(heap, path, k), path)

(* avl_tree_free and a new tree.                                           *)
AvlTreeFree ==
    /\ heap' = NewTree
    /\ length' = 0

-----------------------------------------------------------------------------
Init ==
    /\ heap = NewTree
    /\ length = 0

Next ==
    \/ \E k \in Key :
          \/ AvlInsert(k) \/ AvlInsertNoMemory(k)
          \/ AvlDelete(k) \/ AvlDeleteMiss(k)
    \/ AvlTreeFree

Spec == Init /\ [][Next]_vars

-----------------------------------------------------------------------------
(* Properties.                                                             *)

(* Type correctness; balance factors fit the two bits that avl.h gives     *)
(* them, and ranks the other thirty: no step takes a rank below zero.      *)
TypeOK ==
    /\ heap.used \in SUBSET Node
    /\ heap.kid \in [Node -> [Side -> Node \cup {Nil}]]
    /\ heap.up \in [Node -> Node \cup {Nil}]
    /\ heap.key \in [Node -> Key \cup {NoKey}]
    /\ heap.bal \in [Node -> -1..1]
    /\ heap.rank \in [Node -> 0..(RankRange - 1)]
    /\ length \in 0..MaxLength

InTree == heap.used \ {Root}

(* The heights of all subtrees.                                            *)
Heights(h) ==
    LET of[n \in Node \cup {Nil}] ==
            IF n = Nil THEN 0 ELSE 1 + Max({of[h.kid[n][-1]], of[h.kid[n][1]]})
    IN  of

(* avl_verify_balance: in every node the balance factor is the difference  *)
(* in height of the two subtrees, and so never more than one: rotations    *)
(* after avl_insert and the climb after avl_delete restore it.             *)
Balanced ==
    \A n \in InTree :
        /\ heap.bal[n] = Heights(heap)[heap.kid[n][1]] - Heights(heap)[heap.kid[n][-1]]
        /\ heap.bal[n] \in -1..1

(* avl_verify_parent: parent pointers mirror the child pointers, on which  *)
(* avl_get_next and avl_get_prev rely.                                     *)
Linked ==
    /\ \A n \in heap.used, d \in Side :
          heap.kid[n][d] # Nil => heap.kid[n][d] \in InTree /\ heap.up[heap.kid[n][d]] = n
    /\ \A n \in InTree : heap.up[n] \in heap.used /\ n \in {heap.kid[heap.up[n]][d] : d \in Side}

(* avl_iterate_inorder: the keys it visits below each node.                *)
InOrders(h) ==
    LET from[n \in Node \cup {Nil}] ==
            IF n = Nil THEN << >>
            ELSE from[h.kid[n][-1]] \o <<h.key[n]>> \o from[h.kid[n][1]]
    IN  from

InOrder(h) == InOrders(h)[Top(h)]

(* The keys stay in order, and every allocated node is reached: none is    *)
(* lost by a rotation or by trading keys on deletion.                      *)
Ordered ==
    LET keys == InOrder(heap) IN
    /\ \A i \in 1..(Len(keys) - 1) : keys[i] <= keys[i + 1]
    /\ Len(keys) = Cardinality(InTree)
    /\ length = Len(keys)

(* The numbers of nodes of all subtrees.                                   *)
Sizes(h) ==
    LET of[n \in Node \cup {Nil}] ==
            IF n = Nil THEN 0 ELSE of[h.kid[n][-1]] + of[h.kid[n][1]] + 1
    IN  of

(* avl_verify_rank: a node's rank is one more than the number of nodes in  *)
(* its left subtree.  avl_insert and avl_delete change ranks on the way    *)
(* down, before they know how the search ends.                             *)
RanksCount == \A n \in InTree : heap.rank[n] = Sizes(heap)[heap.kid[n][-1]] + 1

(* The keys of the tree as a bag, and its operations as the bag's.         *)
Count(h) == [k \in Key |-> Cardinality({n \in h.used : h.key[n] = k})]

Bag == INSTANCE OrderedBag WITH bag <- Count(heap)

SameOperation ==
    \A k \in Key :
        /\ Bag!Insert(k) \/ ~AvlInsert(k)
        /\ Bag!Delete(k) \/ ~AvlDelete(k)
        /\ UNCHANGED Count(heap) \/ ~(AvlInsertNoMemory(k) \/ AvlDeleteMiss(k))

(* The tree implements a bag of keys, and each operation is the bag's      *)
(* operation on the same key: trading keys in avl_delete takes out the     *)
(* key asked for, and operations that fail change nothing.                 *)
BagSpec == Bag!Spec /\ [][SameOperation]_vars

=============================================================================
