-------------------------- MODULE AvlInsertProofs --------------------------
(***************************************************************************)
(* Proofs about AvlTree, for trees of every size.                          *)
(*                                                                         *)
(* A tree is described by two functions: D[n], the nodes in the subtree of *)
(* n, and H[n], its height.  What they must satisfy is local to a node and *)
(* its children, so that a rotation has to be looked at only where it      *)
(* changes a pointer.                                                      *)
(***************************************************************************)
EXTENDS AvlTree, LoopTheorems, FiniteSetTheorems, SequenceTheorems

Ptr == Node \cup {Nil}

Heaps ==
    [used : SUBSET Node, kid : [Node -> [Side -> Ptr]], up : [Node -> Ptr],
     key : [Node -> Key \cup {NoKey}], bal : [Node -> -1..1],
     rank : [Node -> 0..(RankRange - 1)]]

In(h) == h.used \ {Root}

(* Pointers: the sentinel has one child at most, parents and children      *)
(* point to each other, free nodes to nothing.                             *)
Wired(h) ==
    /\ h \in Heaps
    /\ Root \in h.used /\ h.up[Root] = Nil /\ h.kid[Root][-1] = Nil
    /\ \A n \in h.used : \A d \in Side :
          h.kid[n][d] # Nil => h.kid[n][d] \in In(h) /\ h.up[h.kid[n][d]] = n
    /\ \A n \in In(h) : h.up[n] \in h.used /\ \E d \in Side : h.kid[h.up[n]][d] = n
    /\ \A n \in Node \ h.used : \A d \in Side : h.kid[n][d] = Nil

(* D[n] are the nodes of the subtree of n.                                 *)
Below(h, D) ==
    /\ D \in [Ptr -> SUBSET In(h)]
    /\ D[Nil] = {}
    /\ D[Top(h)] = In(h)
    /\ \A n \in In(h) :
          /\ D[n] = {n} \cup D[h.kid[n][-1]] \cup D[h.kid[n][1]]
          /\ n \notin D[h.kid[n][-1]] /\ n \notin D[h.kid[n][1]]
          /\ D[h.kid[n][-1]] \cap D[h.kid[n][1]] = {}
    /\ \A n \in In(h) : \A m \in D[n] : D[m] \subseteq D[n] /\ (m # n => h.up[m] \in D[n])

-----------------------------------------------------------------------------
(* Single changes of a heap.                                               *)
(* The other side.                                                         *)
LEMMA Sides ==
    /\ -1 \in Side /\ 1 \in Side
    /\ \A d \in Side : d \in Int /\ (d = -1 \/ d = 1)
    /\ \A d \in Side : -d = 0 - d /\ -d \in Side /\ -d # d /\ -(-d) = d
    /\ \A d, s \in Side : s = d \/ s = -d
    /\ \A d \in Side : (d = -1 => -d = 1) /\ (d = 1 => -d = -1)
<1>1. -1 \in Side /\ 1 \in Side /\ \A d \in Side : d \in Int /\ (d = -1 \/ d = 1)
  BY DEF Side
<1>2. \A d \in Int : -d = 0 - d /\ -(-d) = d
  OBVIOUS
<1>3. \A d \in Int : (d = -1 => 0 - d = 1) /\ (d = 1 => 0 - d = -1)
  OBVIOUS
<1>4. \A d \in Side : (d = -1 => -d = 1) /\ (d = 1 => -d = -1)
  BY <1>1, <1>2, <1>3
<1> QED
  BY <1>1, <1>2, <1>4

LEMMA Constants ==
    /\ MaxLength \in Nat /\ Root \in Node /\ Nil \notin Node /\ Root # Nil
    /\ Node \subseteq Nat /\ RankRange \in Nat /\ RankRange > 2
BY BoundAssumption DEF Root, Nil, Node, RankRange

(* g is h with c hung below p on side d.                                   *)
Hung(h, g, p, d, c) ==
    /\ g \in Heaps
    /\ g.used = h.used /\ g.key = h.key /\ g.bal = h.bal /\ g.rank = h.rank
    /\ \A n \in Node : \A s \in Side :
          g.kid[n][s] = IF n = p /\ s = d THEN c ELSE h.kid[n][s]
    /\ \A n \in Node : g.up[n] = IF n = c THEN p ELSE h.up[n]

LEMMA LinkIs ==
    ASSUME NEW h \in Heaps, NEW p \in Node, NEW d \in Side, NEW c \in Ptr
    PROVE  Hung(h, Link(h, p, d, c), p, d, c)
BY Zenon DEF Link, Heaps, Ptr, Hung

LEMMA AddRankIs ==
    ASSUME NEW h \in Heaps, NEW ns, NEW i \in Int, NEW g, g = AddRank(h, ns, i)
    PROVE  /\ g \in Heaps
           /\ g.used = h.used /\ g.key = h.key /\ g.bal = h.bal /\ g.kid = h.kid /\ g.up = h.up
           /\ \A n \in Node : g.rank[n] = IF n \in ns THEN (h.rank[n] + i) % RankRange
                                                    ELSE h.rank[n]
<1>1. \A n \in Node : (h.rank[n] + i) % RankRange \in 0..(RankRange - 1)
  BY Constants DEF Heaps
<1>2. g.rank = [n \in Node |-> IF n \in ns THEN (h.rank[n] + i) % RankRange ELSE h.rank[n]]
  BY DEF AddRank, Heaps
<1> QED
  BY <1>1, <1>2 DEF AddRank, Heaps

-----------------------------------------------------------------------------
(* A node, its parent and its children are different.                      *)
LEMMA NodeIs ==
    ASSUME NEW h, NEW D, Wired(h), Below(h, D), NEW x \in In(h)
    PROVE  /\ x \in Node /\ x # Root /\ x # Nil /\ x \in D[x]
           /\ h.up[x] \in h.used /\ h.up[x] # x /\ h.up[x] \notin D[x]
           /\ SideOf(h, x) \in Side /\ h.kid[h.up[x]][SideOf(h, x)] = x
           /\ D[x] \subseteq In(h)
<1>1. x \in Node /\ x # Root /\ x # Nil /\ x \in Ptr
  BY Constants DEF In, Wired, Heaps, Ptr
<1>2. x \in D[x] /\ D[x] \subseteq In(h)
  BY <1>1 DEF Below
<1>3. h.up[x] \in h.used /\ \E d \in Side : h.kid[h.up[x]][d] = x
  BY DEF Wired
<1>4. SideOf(h, x) \in Side /\ h.kid[h.up[x]][SideOf(h, x)] = x
  BY <1>3, Sides DEF SideOf
<1>5. h.up[x] \notin D[x]
  <2>1. CASE h.up[x] = Root
    BY <1>2, <2>1 DEF In
  <2>2. CASE h.up[x] # Root
    <3>1. h.up[x] \in In(h)
      BY <1>3, <2>2 DEF In
    <3> QED
      BY <1>3, <3>1, Sides DEF Below
  <2> QED
    BY <2>1, <2>2
<1> QED
  BY <1>1, <1>2, <1>3, <1>4, <1>5

LEMMA KidIs ==
    ASSUME NEW h, NEW D, Wired(h), Below(h, D), NEW x \in In(h), NEW d \in Side,
           NEW y, y = h.kid[x][d], y # Nil
    PROVE  /\ y \in In(h) /\ h.up[y] = x /\ y # x
           /\ D[y] \subseteq D[x] /\ x \notin D[y] /\ y \in D[x]
           /\ h.kid[x][-d] # y
           /\ h.up[x] # y
<1>1. y \in In(h) /\ h.up[y] = x
  BY DEF Wired, In
<1>2. D[y] \subseteq D[x] /\ x \notin D[y]
  BY Sides DEF Below
<1>3. x \in D[x] /\ y \in D[y] /\ h.up[x] \notin D[x]
  BY <1>1, NodeIs
<1>4. D[h.kid[x][d]] \cap D[h.kid[x][-d]] = {}
  BY Sides DEF Below
<1>5. h.kid[x][-d] # y
  BY <1>3, <1>4
<1> QED
  BY <1>1, <1>2, <1>3, <1>5

(* g is h with y, the child of x on side a, in the place of x below t, and *)
(* c, the child of y on the other side, below x.                           *)
Rotated(h, g, x, y, t, c, a, b, s) ==
    /\ g \in Heaps
    /\ g.used = h.used /\ g.key = h.key /\ g.bal = h.bal
    /\ \A n \in Node : \A e \in Side :
          g.kid[n][e] = IF n = t /\ e = s THEN y
                        ELSE IF n = x /\ e = a THEN c
                        ELSE IF n = y /\ e = b THEN x
                        ELSE h.kid[n][e]
    /\ \A n \in Node :
          g.up[n] = IF n = x THEN y ELSE IF n = c THEN x ELSE IF n = y THEN t ELSE h.up[n]
    /\ \A n \in Node :
          g.rank[n] = IF a = -1 /\ n = x THEN (h.rank[x] - h.rank[y]) % RankRange
                      ELSE IF a = 1 /\ n = y THEN (h.rank[y] + h.rank[x]) % RankRange
                      ELSE h.rank[n]

(* What is known of the nodes that a rotation moves.                       *)
Pivot(h, D, x, y, t, c, a, b, s) ==
    /\ Wired(h) /\ Below(h, D)
    /\ x \in In(h) /\ y \in In(h) /\ t \in h.used /\ c \in Ptr
    /\ a \in Side /\ b \in Side /\ s \in Side /\ b = -a /\ a # b
    /\ \A e \in Side : e = a \/ e = b
    /\ y = h.kid[x][a] /\ t = h.up[x] /\ c = h.kid[y][b] /\ h.kid[t][s] = x
    /\ s = SideOf(h, x)
    /\ x # y /\ x # t /\ y # t /\ c \notin {x, y, t, Root}
    /\ x \in Node /\ y \in Node /\ t \in Node
    /\ h.up[y] = x
    /\ c # Nil => c \in In(h) /\ h.up[c] = y /\ h.kid[y][a] # c
    /\ h.kid[x][b] # y

LEMMA PivotIs ==
    ASSUME NEW h, NEW D, Wired(h), Below(h, D), NEW x \in In(h), NEW a \in Side, h.kid[x][a] # Nil
    PROVE  Pivot(h, D, x, h.kid[x][a], h.up[x], h.kid[h.kid[x][a]][-a], a, -a, SideOf(h, x))
<1>1. PICK y, b, c, t : y = h.kid[x][a] /\ b = -a /\ c = h.kid[y][b] /\ t = h.up[x]
  OBVIOUS
<1>2. b \in Side /\ a # b /\ -b = a /\ \A e \in Side : e = a \/ e = b
  BY <1>1, Sides
<1>3. /\ y \in In(h) /\ h.up[y] = x /\ y # x /\ t # y
      /\ D[y] \subseteq D[x] /\ x \notin D[y]
      /\ h.kid[x][b] # y
  BY <1>1, KidIs
<1>4. x \in Node /\ t \in h.used /\ t # x /\ t \notin D[x] /\ SideOf(h, x) \in Side /\ h.kid[t][SideOf(h, x)] = x
  BY <1>1, NodeIs
<1>5. y \in Node
  BY <1>3, NodeIs
<1>6. t \in Node /\ c \in Ptr
  BY <1>1, <1>2, <1>4, <1>5 DEF Wired, Heaps
<1>7. c # Nil => c \in In(h) /\ h.up[c] = y /\ c # y /\ h.kid[y][a] # c /\ c \in D[y]
  BY <1>1, <1>2, <1>3, KidIs
<1>8. c \notin {x, y, t, Root}
  <2>1. CASE c = Nil
    BY <1>4, <1>5, <1>6, <2>1, Constants
  <2>2. CASE c # Nil
    BY <1>3, <1>4, <1>7, <2>2 DEF In
  <2> QED
    BY <2>1, <2>2
<1> QED
  BY <1>1, <1>2, <1>3, <1>4, <1>5, <1>6, <1>7, <1>8 DEF Pivot

LEMMA RotateIs ==
    ASSUME NEW h, NEW D, NEW x, NEW y, NEW t, NEW c, NEW a, NEW b, NEW s,
           Pivot(h, D, x, y, t, c, a, b, s)
    PROVE  Rotated(h, Rotate(h, x, a), x, y, t, c, a, b, s)
<1>1. PICK h1, h2, h3, g :
          /\ h1 = Link(h, t, s, y) /\ h2 = Link(h1, x, a, c) /\ h3 = Link(h2, y, b, x)
          /\ g = IF a = -1 THEN AddRank(h3, {x}, -h.rank[y]) ELSE AddRank(h3, {y}, h.rank[x])
  OBVIOUS
<1>2. Rotate(h, x, a) = g
  BY Zenon, <1>1 DEF Rotate, Pivot
<1>3. /\ h \in Heaps /\ x \in Node /\ y \in Node /\ t \in Node /\ c \in Ptr
      /\ a \in Side /\ b \in Side /\ s \in Side
  BY DEF Pivot, Wired
<1>4. x \in Ptr /\ y \in Ptr
  BY <1>3 DEF Ptr
<1>5. Hung(h, h1, t, s, y)
  BY <1>1, <1>3, <1>4, LinkIs
<1>6. Hung(h1, h2, x, a, c)
  <2>1. h1 \in Heaps
    BY <1>5 DEF Hung
  <2> QED
    BY <1>1, <1>3, <2>1, LinkIs
<1>7. Hung(h2, h3, y, b, x)
  <2>1. h2 \in Heaps
    BY <1>6 DEF Hung
  <2> QED
    BY <1>1, <1>3, <1>4, <2>1, LinkIs
<1>8. h.rank[x] \in Int /\ h.rank[y] \in Int /\ -h.rank[y] \in Int
      /\ h.rank[x] + (-h.rank[y]) = h.rank[x] - h.rank[y]
  BY <1>3 DEF Heaps
<1>9. a = -1 \/ a = 1
  BY Sides DEF Pivot
<1>10. h3 \in Heaps /\ h3.rank = h.rank
  BY <1>5, <1>6, <1>7 DEF Hung
<1>11. /\ g \in Heaps
       /\ g.used = h3.used /\ g.key = h3.key /\ g.bal = h3.bal /\ g.kid = h3.kid /\ g.up = h3.up
       /\ \A n \in Node :
             g.rank[n] = IF a = -1 /\ n = x THEN (h.rank[x] - h.rank[y]) % RankRange
                         ELSE IF a = 1 /\ n = y THEN (h.rank[y] + h.rank[x]) % RankRange
                         ELSE h.rank[n]
  <2>1. CASE a = -1
    <3>1. g = AddRank(h3, {x}, -h.rank[y]) /\ a # 1
      BY <1>1, <2>1
    <3> QED
      BY <1>8, <1>10, <2>1, <3>1, AddRankIs
  <2>2. CASE a = 1
    <3>1. g = AddRank(h3, {y}, h.rank[x]) /\ a # -1
      BY <1>1, <2>2
    <3> QED
      BY <1>8, <1>10, <2>2, <3>1, AddRankIs
  <2> QED
    BY <1>9, <2>1, <2>2
<1>12. \A n \in Node : \A e \in Side :
          g.kid[n][e] = IF n = t /\ e = s THEN y
                        ELSE IF n = x /\ e = a THEN c
                        ELSE IF n = y /\ e = b THEN x
                        ELSE h.kid[n][e]
  BY SMTT(30), <1>5, <1>6, <1>7, <1>11 DEF Pivot, Hung
<1>13. \A n \in Node :
          g.up[n] = IF n = x THEN y ELSE IF n = c THEN x ELSE IF n = y THEN t ELSE h.up[n]
  BY <1>5, <1>6, <1>7, <1>11 DEF Hung
<1>14. g.used = h.used /\ g.key = h.key /\ g.bal = h.bal
  BY <1>5, <1>6, <1>7, <1>11 DEF Hung
<1> QED
  BY <1>2, <1>11, <1>12, <1>13, <1>14 DEF Rotated

-----------------------------------------------------------------------------
(* A rotation keeps the tree wired.                                        *)
LEMMA RotatedWired ==
    ASSUME NEW h, NEW D, NEW g, NEW x, NEW y, NEW t, NEW c, NEW a, NEW b, NEW s,
           Pivot(h, D, x, y, t, c, a, b, s), Rotated(h, g, x, y, t, c, a, b, s)
    PROVE  Wired(g)
<1>1. g \in Heaps /\ g.used = h.used /\ In(g) = In(h) /\ In(h) \subseteq Node /\ h.used \subseteq Node
  BY DEF Rotated, In, Pivot, Wired, Heaps
<1>2. Root \in g.used /\ g.up[Root] = Nil /\ g.kid[Root][-1] = Nil
  <2>1. Root \in Node /\ Root \in h.used /\ h.up[Root] = Nil /\ h.kid[Root][-1] = Nil
    BY Constants DEF Pivot, Wired
  <2>2. Root # x /\ Root # y /\ Root # c /\ x # Nil
    BY SMTT(30), NodeIs DEF Pivot, In
  <2>3. ~(t = Root /\ s = -1)
    BY <2>1, <2>2 DEF Pivot
  <2> QED
    BY <1>1, <2>1, <2>2, <2>3, Sides DEF Rotated
<1>3. ASSUME NEW n \in h.used, NEW e \in Side, g.kid[n][e] # Nil
      PROVE  g.kid[n][e] \in In(g) /\ g.up[g.kid[n][e]] = n
  <2>1. n \in Node
    BY <1>1
  <2>2. CASE n = t /\ e = s
    <3>1. g.kid[n][e] = y
      BY <2>1, <2>2 DEF Rotated
    <3> QED
      BY SMTT(30), <1>1, <2>2, <3>1 DEF Rotated, Pivot
  <2>3. CASE n = x /\ e = a
    <3>1. g.kid[n][e] = c
      BY <2>1, <2>3 DEF Rotated, Pivot
    <3>2. c \in In(h) /\ c # x
      BY <1>3, <3>1 DEF Pivot
    <3> QED
      BY <1>1, <2>3, <3>1, <3>2 DEF Rotated
  <2>4. CASE n = y /\ e = b
    <3>1. g.kid[n][e] = x
      BY <2>1, <2>4 DEF Rotated, Pivot
    <3> QED
      BY SMTT(30), <1>1, <2>4, <3>1 DEF Rotated, Pivot
  <2>5. CASE ~(n = t /\ e = s) /\ ~(n = x /\ e = a) /\ ~(n = y /\ e = b)
    <3>1. g.kid[n][e] = h.kid[n][e]
      BY <2>1, <2>5 DEF Rotated
    <3>2. PICK k : k = h.kid[n][e]
      OBVIOUS
    <3>3. k \in In(h) /\ h.up[k] = n
      BY <1>3, <3>1, <3>2 DEF Pivot, Wired
    <3>4. k # x
      <4>1. SUFFICES ASSUME k = x PROVE FALSE
        OBVIOUS
      <4>2. n = t /\ e # s
        BY <2>5, <3>3, <4>1 DEF Pivot
      <4>3. h.kid[t][e] = x /\ h.kid[t][s] = x
        BY <3>2, <4>1, <4>2 DEF Pivot
      <4>4. CASE t = Root
        <5>1. x # Nil /\ h.kid[Root][-1] = Nil
          BY NodeIs DEF Pivot, Wired
        <5> QED
          BY <4>2, <4>3, <4>4, <5>1, Sides DEF Pivot
      <4>5. CASE t # Root
        <5>1. t \in In(h) /\ x # Nil
          BY <4>5, NodeIs DEF Pivot, In
        <5>2. e = -s
          BY <4>2, Sides DEF Pivot
        <5> QED
          BY SMTT(30), <4>3, <5>1, <5>2, KidIs DEF Pivot
      <4> QED
        BY <4>4, <4>5
    <3>5. k # c
      <4>1. SUFFICES ASSUME k = c PROVE FALSE
        OBVIOUS
      <4>2. c # Nil
        BY SMTT(30), <3>3, <4>1, NodeIs DEF Pivot
      <4>3. n = y /\ e = a
        BY <2>5, <3>3, <4>1, <4>2 DEF Pivot
      <4> QED
        BY <3>2, <4>1, <4>2, <4>3 DEF Pivot
    <3>6. k # y
      BY <2>5, <3>2, <3>3 DEF Pivot
    <3> QED
      BY <1>1, <3>1, <3>2, <3>3, <3>4, <3>5, <3>6 DEF Rotated
  <2> QED
    BY <2>2, <2>3, <2>4, <2>5
<1>4. ASSUME NEW n \in In(h)
      PROVE  g.up[n] \in g.used /\ \E e \in Side : g.kid[g.up[n]][e] = n
  <2>1. n \in Node
    BY <1>1
  <2>2. CASE n = x
    <3>1. g.up[n] = y
      BY <2>1, <2>2 DEF Rotated
    <3>2. y \in h.used /\ g.kid[y][b] = x
      BY DEF Rotated, Pivot, In
    <3> QED
      BY <1>1, <2>2, <3>1, <3>2 DEF Pivot
  <2>3. CASE n = c
    <3>1. g.up[n] = x
      BY <2>1, <2>3 DEF Rotated, Pivot
    <3>2. x \in h.used /\ g.kid[x][a] = c
      BY DEF Rotated, Pivot, In
    <3> QED
      BY <1>1, <2>3, <3>1, <3>2 DEF Pivot
  <2>4. CASE n = y
    <3>1. g.up[n] = t
      BY <2>1, <2>4 DEF Rotated, Pivot
    <3>2. t \in h.used /\ g.kid[t][s] = y
      BY DEF Rotated, Pivot, In
    <3> QED
      BY <1>1, <2>4, <3>1, <3>2 DEF Pivot
  <2>5. CASE n # x /\ n # y /\ n # c
    <3>1. g.up[n] = h.up[n]
      BY <2>1, <2>5 DEF Rotated
    <3>2. PICK e \in Side : h.kid[h.up[n]][e] = n
      BY DEF Pivot, Wired
    <3>3. h.up[n] \in h.used /\ h.up[n] \in Node
      BY <1>1 DEF Pivot, Wired
    <3>4. g.kid[h.up[n]][e] = n
      BY SMTT(30), <2>5, <3>2, <3>3 DEF Rotated, Pivot
    <3> QED
      BY <1>1, <3>1, <3>3, <3>4
  <2> QED
    BY <2>2, <2>3, <2>4, <2>5
<1>5. ASSUME NEW n \in Node \ h.used, NEW e \in Side PROVE g.kid[n][e] = Nil
  <2>1. h.kid[n][e] = Nil
    BY DEF Pivot, Wired
  <2>2. n # x /\ n # y /\ n # t
    BY DEF Pivot, In
  <2> QED
    BY <2>1, <2>2 DEF Rotated
<1> QED
  BY <1>1, <1>2, <1>3, <1>4, <1>5 DEF Wired

(* The subtrees after a rotation.                                          *)
Turned(h, D, x, y, c, b) == [D EXCEPT ![y] = D[x], ![x] = {x} \cup D[h.kid[x][b]] \cup D[c]]

LEMMA RotatedBelow ==
    ASSUME NEW h, NEW D, NEW g, NEW x, NEW y, NEW t, NEW c, NEW a, NEW b, NEW s,
           Pivot(h, D, x, y, t, c, a, b, s), Rotated(h, g, x, y, t, c, a, b, s)
    PROVE  Below(g, Turned(h, D, x, y, c, b))
<1>1. PICK E, z, u : /\ E = Turned(h, D, x, y, c, b)
                     /\ z = h.kid[x][b] /\ u = h.kid[y][a]
  OBVIOUS
<1>2. In(g) = In(h) /\ In(h) \subseteq Node /\ h.used \subseteq Node /\ \A n \in Node : n \in Ptr
  BY DEF Rotated, In, Pivot, Wired, Heaps, Ptr
<1>3. x \in Ptr /\ y \in Ptr /\ c \in Ptr /\ z \in Ptr /\ u \in Ptr
  BY SMTT(30), <1>1, <1>2 DEF Pivot, Wired, Heaps
<1>4. D \in [Ptr -> SUBSET In(h)] /\ D[Nil] = {}
  BY DEF Pivot, Below
<1>5. /\ D[x] = {x} \cup D[y] \cup D[z] /\ x \notin D[y] /\ x \notin D[z] /\ D[y] \cap D[z] = {}
      /\ D[y] = {y} \cup D[c] \cup D[u] /\ y \notin D[c] /\ y \notin D[u] /\ D[c] \cap D[u] = {}
  <2>1. \A n \in {x, y} : /\ D[n] = {n} \cup D[h.kid[n][-1]] \cup D[h.kid[n][1]]
                          /\ n \notin D[h.kid[n][-1]] /\ n \notin D[h.kid[n][1]]
                          /\ D[h.kid[n][-1]] \cap D[h.kid[n][1]] = {}
    <3>1. x \in In(h) /\ y \in In(h) /\ Below(h, D)
      BY DEF Pivot
    <3> QED
      BY <3>1 DEF Below
  <2>2. y = h.kid[x][a] /\ c = h.kid[y][b]
    BY DEF Pivot
  <2>3. (a = -1 /\ b = 1) \/ (a = 1 /\ b = -1)
    BY Sides DEF Pivot
  <2>4. CASE a = -1 /\ b = 1
    BY Zenon, <1>1, <2>1, <2>2, <2>4
  <2>5. CASE a = 1 /\ b = -1
    BY Zenon, <1>1, <2>1, <2>2, <2>5
  <2> QED
    BY <2>3, <2>4, <2>5
<1>6. /\ E \in [Ptr -> SUBSET In(h)]
      /\ E[x] = {x} \cup D[z] \cup D[c] /\ E[y] = D[x]
      /\ \A n \in Ptr : n # x /\ n # y => E[n] = D[n]
  <2>1. {x} \cup D[z] \cup D[c] \subseteq In(h)
    BY Zenon, <1>3, <1>4 DEF Pivot
  <2> QED
    BY Zenon, <1>1, <1>3, <1>4, <2>1 DEF Turned, Pivot
<1>7. E[Nil] = {} /\ E[c] = D[c] /\ E[u] = D[u] /\ E[z] = D[z]
  <2>1. Nil \in Ptr /\ Nil # x /\ Nil # y
    BY Constants DEF Ptr, Pivot
  <2>2. x \in D[x] /\ y \in D[y]
    BY SMTT(30), NodeIs DEF Pivot
  <2>3. u # x /\ u # y /\ z # x /\ z # y
    BY <1>5, <2>2
  <2>4. c # x /\ c # y
    BY DEF Pivot
  <2> QED
    BY <1>3, <1>4, <1>6, <2>1, <2>3, <2>4
<1>8. E[Top(g)] = In(h)
  <2>1. Root \in Node /\ Root # x /\ Root # y /\ h.kid[Root][-1] = Nil /\ x # Nil
    BY Constants, NodeIs DEF Pivot, Wired, In
  <2>2. CASE t = Root
    <3>1. s = 1
      BY <2>1, <2>2, Sides DEF Pivot
    <3>2. Top(g) = y /\ Top(h) = x
      BY SMTT(30), <2>1, <2>2, <3>1, Sides DEF Rotated, Pivot, Top
    <3> QED
      BY Zenon, <1>6, <3>2 DEF Pivot, Below
  <2>3. CASE t # Root
    <3>1. Top(g) = Top(h)
      BY <2>1, <2>3, Sides DEF Rotated, Top
    <3>2. Top(h) \in Ptr /\ (Top(h) # Nil => h.up[Top(h)] = Root)
      BY SMTT(30), <2>1, Sides DEF Top, Pivot, Wired, Heaps
    <3>3. Top(h) # x /\ Top(h) # y
      BY SMTT(30), <2>1, <2>3, <3>2, NodeIs DEF Pivot
    <3>4. D[Top(h)] = In(h)
      BY DEF Pivot, Below
    <3> QED
      BY <1>6, <3>1, <3>2, <3>3, <3>4
  <2> QED
    BY <2>2, <2>3
<1>9. ASSUME NEW n \in In(h), NEW l, l = g.kid[n][-1], NEW r, r = g.kid[n][1]
      PROVE  /\ E[n] = {n} \cup E[l] \cup E[r]
             /\ n \notin E[l] /\ n \notin E[r] /\ E[l] \cap E[r] = {}
  <2>1. n \in Node /\ n \in Ptr
    BY <1>2
  <2>2. CASE n = x
    <3>1. g.kid[x][a] = c /\ g.kid[x][b] = z
      BY ZenonT(60), <1>1, <2>1, <2>2 DEF Rotated, Pivot
    <3>2. {l, r} = {c, z} /\ (l = c \/ l = z) /\ (r = c \/ r = z) /\ (l = c => r = z) /\ (l = z /\ l # c => r = c)
      BY SMTT(30), <1>9, <2>2, <3>1, Sides DEF Pivot
    <3>3. E[c] \cap E[z] = {} /\ x \notin E[c] /\ x \notin E[z] /\ E[x] = {x} \cup E[c] \cup E[z]
      BY <1>5, <1>6, <1>7
    <3> QED
      BY <2>2, <3>2, <3>3
  <2>3. CASE n = y
    <3>1. g.kid[y][a] = u /\ g.kid[y][b] = x
      BY ZenonT(60), <1>1, <2>1, <2>3 DEF Rotated, Pivot
    <3>2. (l = u /\ r = x) \/ (l = x /\ r = u)
      BY ZenonT(60), <1>9, <2>3, <3>1, Sides DEF Pivot
    <3>3. x # y
      BY DEF Pivot
    <3>4. D[u] \cap D[z] = {} /\ x \notin D[u] /\ y \notin D[z]
      BY <1>5
    <3>5. E[u] \cap E[x] = {} /\ y \notin E[u] /\ y \notin E[x]
      BY <1>5, <1>6, <1>7, <3>3, <3>4
    <3>6. E[y] = {y} \cup E[u] \cup E[x]
      BY <1>5, <1>6, <1>7
    <3> QED
      BY <2>3, <3>2, <3>5, <3>6
  <2>4. CASE n = t
    <3>1. n # x /\ n # y
      BY <2>4 DEF Pivot
    <3>2. E[n] = D[n]
      BY <1>6, <2>1, <3>1
    <3>3. PICK o \in Side : o # s /\ -s = o
      BY Sides DEF Pivot
    <3>4. g.kid[t][s] = y /\ g.kid[t][o] = h.kid[t][o]
      BY SMTT(30), <2>1, <2>4, <3>1, <3>3 DEF Rotated, Pivot
    <3>5. (l = y /\ r = h.kid[t][o] /\ h.kid[t][-1] = x /\ h.kid[t][1] = r)
          \/ (r = y /\ l = h.kid[t][o] /\ h.kid[t][1] = x /\ h.kid[t][-1] = l)
      BY <1>9, <2>4, <3>3, <3>4, Sides DEF Pivot
    <3>6. D[n] = {n} \cup D[h.kid[n][-1]] \cup D[h.kid[n][1]]
          /\ n \notin D[h.kid[n][-1]] /\ n \notin D[h.kid[n][1]]
          /\ D[h.kid[n][-1]] \cap D[h.kid[n][1]] = {}
      BY ZenonT(60) DEF Pivot, Below
    <3>7. x \in D[x] /\ y \in D[y] /\ h.kid[t][o] \in Ptr
      BY SMTT(30), <2>1, <2>4, <3>3, NodeIs DEF Pivot, Wired, Heaps
    <3>8. D[x] \cap D[h.kid[t][o]] = {}
      BY <2>4, <3>5, <3>6
    <3>9. h.kid[t][o] # x /\ h.kid[t][o] # y
      BY <1>5, <3>7, <3>8
    <3>10. E[h.kid[t][o]] = D[h.kid[t][o]] /\ E[y] = D[x]
      BY <1>6, <3>7, <3>9
    <3> QED
      BY <2>4, <3>2, <3>5, <3>6, <3>10
  <2>5. CASE n # x /\ n # y /\ n # t
    <3>1. l = h.kid[n][-1] /\ r = h.kid[n][1] /\ l \in Ptr /\ r \in Ptr
      BY SMTT(30), <1>9, <2>1, <2>5, Sides DEF Rotated, Pivot, Wired, Heaps
    <3>2. l # x /\ l # y /\ r # x /\ r # y
      <4>1. x # Nil /\ y # Nil /\ h.up[x] = t /\ h.up[y] = x
        BY SMTT(30), NodeIs DEF Pivot
      <4>2. (l # Nil => h.up[l] = n) /\ (r # Nil => h.up[r] = n)
        BY SMTT(30), <3>1, Sides DEF Pivot, Wired, In
      <4> QED
        BY <2>5, <4>1, <4>2
    <3>3. E[n] = D[n] /\ E[l] = D[l] /\ E[r] = D[r]
      BY <1>6, <2>1, <2>5, <3>1, <3>2
    <3>4. /\ D[n] = {n} \cup D[h.kid[n][-1]] \cup D[h.kid[n][1]]
          /\ n \notin D[h.kid[n][-1]] /\ n \notin D[h.kid[n][1]]
          /\ D[h.kid[n][-1]] \cap D[h.kid[n][1]] = {}
      BY ZenonT(60) DEF Pivot, Below
    <3> QED
      BY <3>1, <3>3, <3>4
  <2> QED
    BY <2>2, <2>3, <2>4, <2>5
<1>10. ASSUME NEW n \in In(h), NEW m \in E[n] PROVE E[m] \subseteq E[n]
  <2>1. n \in Ptr /\ m \in In(h) /\ m \in Ptr
    BY <1>2, <1>6
  <2>2. \A i \in In(h) : \A j \in D[i] : D[j] \subseteq D[i]
    BY DEF Pivot, Below
  <2>3. E[m] \subseteq D[m] \/ m = y
    BY <1>5, <1>6, <2>1
  <2>4. D[c] \subseteq In(h) /\ D[z] \subseteq In(h) /\ D[u] \subseteq In(h)
    BY <1>3, <1>4
  <2>5. \A j \in D[c] : D[j] \subseteq D[c]
    BY Zenon, <1>4, <2>2 DEF Pivot
  <2>6. \A j \in D[z] : D[j] \subseteq D[z]
    <3>1. z = Nil \/ z \in In(h)
      BY Zenon, <1>1 DEF Pivot, Wired, In
    <3> QED
      BY <1>4, <2>2, <3>1
  <2>7. CASE n = x
    <3>1. m = x \/ m \in D[z] \/ m \in D[c]
      BY <1>6, <2>7
    <3>2. m # y
      BY ZenonT(60), <1>5, <3>1 DEF Pivot
    <3>3. m # x => E[m] = D[m]
      BY <1>6, <2>1, <3>2
    <3> QED
      BY <1>6, <2>5, <2>6, <2>7, <3>1, <3>3
  <2>8. CASE n = y
    <3>1. E[n] = D[x] /\ m \in D[x]
      BY <1>6, <2>8
    <3>2. D[m] \subseteq D[x]
      BY <2>2, <3>1 DEF Pivot
    <3> QED
      BY <1>6, <2>3, <3>1, <3>2
  <2>9. CASE n # x /\ n # y
    <3>1. E[n] = D[n] /\ m \in D[n] /\ D[m] \subseteq D[n]
      BY <1>6, <2>1, <2>2, <2>9
    <3>2. m # y => E[m] \subseteq E[n]
      BY <2>3, <3>1
    <3>3. CASE m = y
      <4>1. x \in D[n]
        BY SMTT(30), <2>9, <3>1, <3>3 DEF Pivot, Below
      <4> QED
        BY <1>6, <2>2, <2>9, <3>1, <3>3, <4>1
    <3> QED
      BY <3>2, <3>3
  <2> QED
    BY <2>7, <2>8, <2>9
<1>11. ASSUME NEW n \in In(h), NEW m \in E[n], m # n PROVE g.up[m] \in E[n]
  <2>1. n \in Ptr /\ m \in In(h) /\ m \in Ptr /\ m \in Node
    BY <1>2, <1>6
  <2>2. \A i \in In(h) : \A j \in D[i] : D[j] \subseteq D[i] /\ (j # i => h.up[j] \in D[i])
    BY DEF Pivot, Below
  <2>3. /\ x \in In(h) /\ y \in In(h) /\ x # y /\ c # x /\ c # y /\ h.up[x] = t /\ h.up[y] = x
        /\ x \in D[x] /\ y \in D[y]
    BY SMTT(30), NodeIs DEF Pivot
  <2>4. (c = Nil \/ (c \in In(h) /\ h.up[c] = y)) /\ (z = Nil \/ (z \in In(h) /\ h.up[z] = x))
    BY ZenonT(60), <1>1 DEF Pivot, Wired, In
  <2>5. m # Nil
    BY <2>1, Constants
  <2>6. CASE n = x
    <3>1. m \in D[z] \/ m \in D[c]
      BY <1>6, <1>11, <2>6
    <3>2. m # x /\ m # y
      BY <1>5, <2>3, <3>1
    <3>3. CASE m = c
      BY <1>6, <2>1, <2>6, <3>2, <3>3 DEF Rotated
    <3>4. CASE m # c
      <4>1. g.up[m] = h.up[m]
        BY <2>1, <3>2, <3>4 DEF Rotated
      <4>2. h.up[m] \in D[z] \/ h.up[m] \in D[c] \/ h.up[m] = x
        BY <1>4, <2>2, <2>4, <3>1, <3>4
      <4> QED
        BY <1>6, <2>6, <4>1, <4>2
    <3> QED
      BY <3>3, <3>4
  <2>7. CASE n # x
    <3>1. PICK i \in In(h) : /\ E[n] = D[i] /\ m \in D[i]
                             /\ (n = y => i = x) /\ (n # y => i = n)
      BY <1>6, <2>1, <2>3, <2>7
    <3>2. CASE m = x
      <4>1. y \in D[i]
        BY <1>5, <2>2, <2>3, <3>1, <3>2
      <4> QED
        BY <2>1, <3>1, <3>2, <4>1 DEF Rotated
    <3>3. CASE m = y
      <4>1. i = n /\ n # y
        BY <1>11, <3>1, <3>3
      <4>2. x \in D[i] /\ t \in D[i]
        BY <2>2, <2>3, <2>7, <3>1, <3>3, <4>1
      <4>3. g.up[m] = t
        BY <2>1, <2>3, <3>3 DEF Rotated
      <4> QED
        BY <3>1, <4>2, <4>3
    <3>4. CASE m = c
      <4>1. x \in D[i]
        BY <1>11, <2>2, <2>3, <2>4, <2>5, <2>7, <3>1, <3>4
      <4>2. g.up[m] = x
        BY <2>1, <2>3, <3>4 DEF Rotated
      <4> QED
        BY <3>1, <4>1, <4>2
    <3>5. CASE m # x /\ m # y /\ m # c
      <4>1. g.up[m] = h.up[m]
        BY <2>1, <3>5 DEF Rotated
      <4> QED
        BY <1>11, <2>2, <3>1, <3>5, <4>1
    <3> QED
      BY <3>2, <3>3, <3>4, <3>5
  <2> QED
    BY <2>6, <2>7
<1>12. Below(g, E)
  BY <1>2, <1>6, <1>7, <1>8, <1>9, <1>10, <1>11 DEF Below
<1> QED
  BY <1>1, <1>12

-----------------------------------------------------------------------------
(* Keys: those in the left subtree are not larger, those in the right one  *)
(* not smaller.                                                            *)
Sorted(h, D) ==
    /\ \A n \in In(h) : h.key[n] \in Key
    /\ \A n \in In(h) : \A m \in D[h.kid[n][-1]] : h.key[m] <= h.key[n]
    /\ \A n \in In(h) : \A m \in D[h.kid[n][1]] : h.key[n] <= h.key[m]

(* Ranks: one more than the size of the left subtree.                      *)
Ranked(h, D) == \A n \in In(h) : h.rank[n] = Cardinality(D[h.kid[n][-1]]) + 1

(* The children after a rotation, and their subtrees.                      *)
LEMMA RotatedKids ==
    ASSUME NEW h, NEW D, NEW g, NEW x, NEW y, NEW t, NEW c, NEW a, NEW b, NEW s,
           Pivot(h, D, x, y, t, c, a, b, s), Rotated(h, g, x, y, t, c, a, b, s),
           NEW E, E = Turned(h, D, x, y, c, b)
    PROVE  /\ In(g) = In(h)
           /\ g.kid[x][a] = c /\ g.kid[x][b] = h.kid[x][b]
           /\ g.kid[y][b] = x /\ g.kid[y][a] = h.kid[y][a]
           /\ E[c] = D[c] /\ E[h.kid[x][b]] = D[h.kid[x][b]] /\ E[h.kid[y][a]] = D[h.kid[y][a]]
           /\ E[x] = {x} \cup D[h.kid[x][b]] \cup D[c]
           /\ E[y] = D[x]
           /\ \A n \in In(h) : n # x /\ n # y =>
                 \A e \in Side : E[g.kid[n][e]] = D[h.kid[n][e]]
<1>1. In(g) = In(h)
  BY DEF Rotated, In
<1>2. /\ x \in In(h) /\ y \in In(h) /\ Wired(h) /\ Below(h, D) /\ a \in Side /\ b \in Side /\ s \in Side
      /\ x \in Node /\ y \in Node /\ t \in Node /\ c \in Ptr /\ x # y /\ x # t /\ y # t /\ c # x /\ c # y
      /\ a # b /\ h.up[x] = t /\ h.up[y] = x /\ h.kid[x][a] = y /\ h.kid[y][b] = c /\ b = -a /\ h.kid[t][s] = x
  BY Zenon DEF Pivot
<1>3. g.kid[x][a] = c /\ g.kid[x][b] = h.kid[x][b] /\ g.kid[y][b] = x /\ g.kid[y][a] = h.kid[y][a]
  BY <1>2 DEF Rotated
<1>4. D \in [Ptr -> SUBSET In(h)] /\ x \in Ptr /\ y \in Ptr
  BY <1>2 DEF Below, Ptr
<1>5. /\ E[x] = {x} \cup D[h.kid[x][b]] \cup D[c] /\ E[y] = D[x]
      /\ \A n \in Ptr : n # x /\ n # y => E[n] = D[n]
  BY <1>2, <1>4 DEF Turned
<1>6. \A n \in Node : \A e \in Side : h.kid[n][e] \in Ptr
  BY <1>2 DEF Wired, Heaps
<1>7. x # Nil /\ y # Nil /\ In(h) \subseteq Node /\ In(h) \subseteq h.used
  BY <1>2, Constants DEF In, Wired, Heaps
<1>8. \A n \in In(h) : \A e \in Side : h.kid[n][e] # Nil => h.up[h.kid[n][e]] = n
  BY <1>2, <1>7 DEF Wired
<1>9. h.kid[x][b] # x /\ h.kid[x][b] # y
  BY <1>2, <1>7, <1>8, KidIs
<1>10. h.kid[y][a] # x /\ h.kid[y][a] # y
  BY <1>2, <1>7, <1>8
<1>11. E[c] = D[c] /\ E[h.kid[x][b]] = D[h.kid[x][b]] /\ E[h.kid[y][a]] = D[h.kid[y][a]]
  BY <1>2, <1>5, <1>6, <1>9, <1>10
<1>12. ASSUME NEW n \in In(h), n # x, n # y, NEW e \in Side PROVE E[g.kid[n][e]] = D[h.kid[n][e]]
  <2>1. n \in Node
    BY <1>7
  <2>2. CASE n = t /\ e = s
    BY <1>2, <1>5, <2>1, <2>2 DEF Rotated
  <2>3. CASE ~(n = t /\ e = s)
    <3>1. g.kid[n][e] = h.kid[n][e]
      BY <1>12, <2>1, <2>3 DEF Rotated
    <3>2. h.kid[n][e] # y
      BY <1>2, <1>7, <1>8, <1>12
    <3>3. h.kid[n][e] # x
      <4>1. SUFFICES ASSUME h.kid[n][e] = x PROVE FALSE
        OBVIOUS
      <4>2. n = t /\ e # s
        BY <1>2, <1>7, <1>8, <2>3, <4>1
      <4>3. e = -s
        BY <1>2, <4>2, Sides
      <4> QED
        BY <1>2, <1>7, <4>1, <4>2, <4>3, KidIs
    <3> QED
      BY <1>5, <1>6, <2>1, <3>1, <3>2, <3>3
  <2> QED
    BY <2>2, <2>3
<1> QED
  BY <1>1, <1>3, <1>5, <1>11, <1>12

(* What the subtrees of x and y hold.                                      *)
LEMMA PivotParts ==
    ASSUME NEW h, NEW D, NEW x, NEW y, NEW t, NEW c, NEW a, NEW b, NEW s,
           Pivot(h, D, x, y, t, c, a, b, s), NEW z, z = h.kid[x][b], NEW u, u = h.kid[y][a]
    PROVE  /\ D[x] = {x} \cup D[y] \cup D[z] /\ x \notin D[y] /\ x \notin D[z] /\ D[y] \cap D[z] = {}
           /\ D[y] = {y} \cup D[c] \cup D[u] /\ y \notin D[c] /\ y \notin D[u] /\ D[c] \cap D[u] = {}
           /\ z \in Ptr /\ u \in Ptr
           /\ (a = -1 /\ b = 1) \/ (a = 1 /\ b = -1)
<1>1. \A n \in {x, y} : /\ D[n] = {n} \cup D[h.kid[n][-1]] \cup D[h.kid[n][1]]
                        /\ n \notin D[h.kid[n][-1]] /\ n \notin D[h.kid[n][1]]
                        /\ D[h.kid[n][-1]] \cap D[h.kid[n][1]] = {}
  <2>1. x \in In(h) /\ y \in In(h) /\ Below(h, D)
    BY DEF Pivot
  <2> QED
    BY SMTT(30), <2>1 DEF Below
<1>2. y = h.kid[x][a] /\ c = h.kid[y][b]
  BY DEF Pivot
<1>3. (a = -1 /\ b = 1) \/ (a = 1 /\ b = -1)
  BY Sides DEF Pivot
<1>4. z \in Ptr /\ u \in Ptr
  BY SMTT(30) DEF Pivot, Wired, Heaps
<1>5. CASE a = -1 /\ b = 1
  BY Zenon, <1>1, <1>2, <1>4, <1>5
<1>6. CASE a = 1 /\ b = -1
  BY Zenon, <1>1, <1>2, <1>4, <1>6
<1> QED
  BY <1>3, <1>5, <1>6

LEMMA RotatedSorted ==
    ASSUME NEW h, NEW D, NEW g, NEW x, NEW y, NEW t, NEW c, NEW a, NEW b, NEW s,
           Pivot(h, D, x, y, t, c, a, b, s), Rotated(h, g, x, y, t, c, a, b, s), Sorted(h, D)
    PROVE  Sorted(g, Turned(h, D, x, y, c, b))
<1>1. PICK E, z, u : E = Turned(h, D, x, y, c, b) /\ z = h.kid[x][b] /\ u = h.kid[y][a]
  OBVIOUS
<1>2. /\ In(g) = In(h)
      /\ g.kid[x][a] = c /\ g.kid[x][b] = z /\ g.kid[y][b] = x /\ g.kid[y][a] = u
      /\ E[c] = D[c] /\ E[z] = D[z] /\ E[u] = D[u] /\ E[x] = {x} \cup D[z] \cup D[c] /\ E[y] = D[x]
      /\ \A n \in In(h) : n # x /\ n # y => \A e \in Side : E[g.kid[n][e]] = D[h.kid[n][e]]
  BY <1>1, RotatedKids
<1>3. /\ D[x] = {x} \cup D[y] \cup D[z] /\ D[y] = {y} \cup D[c] \cup D[u]
      /\ (a = -1 /\ b = 1) \/ (a = 1 /\ b = -1)
  BY <1>1, PivotParts
<1>4. x \in In(h) /\ y \in In(h) /\ h.kid[x][a] = y /\ h.kid[y][b] = c /\ D \in [Ptr -> SUBSET In(h)]
      /\ x \in Ptr
  BY DEF Pivot, Below, Ptr
<1>5. \A n \in In(h) : h.key[n] \in Nat /\ h.key[n] \in Key
  BY KeyAssumption DEF Sorted
<1>6. D[x] \subseteq In(h)
  BY <1>4
<1>7. ASSUME NEW n \in In(h)
      PROVE  /\ \A m \in E[g.kid[n][-1]] : h.key[m] <= h.key[n]
             /\ \A m \in E[g.kid[n][1]] : h.key[n] <= h.key[m]
  <2>1. CASE n # x /\ n # y
    BY <1>2, <2>1, Sides DEF Sorted
  <2>2. CASE a = -1 /\ b = 1 /\ n = x
    BY SMTT(30), <1>1, <1>2, <1>3, <1>4, <2>2 DEF Sorted
  <2>3. CASE a = 1 /\ b = -1 /\ n = x
    BY SMTT(30), <1>1, <1>2, <1>3, <1>4, <2>3 DEF Sorted
  <2>4. CASE a = -1 /\ b = 1 /\ n = y
    <3>1. \A m \in D[u] : h.key[m] <= h.key[y]
      BY <1>1, <1>4, <2>4 DEF Sorted
    <3>2. \A m \in D[c] : h.key[y] <= h.key[m]
      BY <1>4, <2>4 DEF Sorted
    <3>3. h.key[y] <= h.key[x] /\ \A m \in D[z] : h.key[x] <= h.key[m]
      BY <1>1, <1>3, <1>4, <2>4 DEF Sorted
    <3>4. \A m \in D[z] : h.key[y] <= h.key[m]
      BY <1>3, <1>4, <1>5, <1>6, <3>3
    <3> QED
      BY <1>2, <2>4, <3>1, <3>2, <3>3, <3>4
  <2>5. CASE a = 1 /\ b = -1 /\ n = y
    <3>1. \A m \in D[u] : h.key[y] <= h.key[m]
      BY <1>1, <1>4, <2>5 DEF Sorted
    <3>2. \A m \in D[c] : h.key[m] <= h.key[y]
      BY <1>4, <2>5 DEF Sorted
    <3>3. h.key[x] <= h.key[y] /\ \A m \in D[z] : h.key[m] <= h.key[x]
      BY <1>1, <1>3, <1>4, <2>5 DEF Sorted
    <3>4. \A m \in D[z] : h.key[m] <= h.key[y]
      BY <1>3, <1>4, <1>5, <1>6, <3>3
    <3> QED
      BY <1>2, <2>5, <3>1, <3>2, <3>3, <3>4
  <2> QED
    BY <1>3, <2>1, <2>2, <2>3, <2>4, <2>5
<1>8. g.key = h.key
  BY DEF Rotated
<1>9. Sorted(g, E)
  BY <1>2, <1>5, <1>7, <1>8 DEF Sorted
<1> QED
  BY <1>1, <1>9

(* Subtrees are finite, and the parts of one do not overlap.               *)
LEMMA DisjointSizes ==
    ASSUME NEW S, NEW T, NEW x, IsFiniteSet(S), IsFiniteSet(T), S \cap T = {}, x \notin S, x \notin T,
           NEW V, V = {x} \cup S \cup T
    PROVE  IsFiniteSet(V) /\ Cardinality(V) = Cardinality(S) + Cardinality(T) + 1
<1>1. PICK U : U = S \cup T
  OBVIOUS
<1>2. IsFiniteSet(U) /\ Cardinality(U) = Cardinality(S) + Cardinality(T) - Cardinality(S \cap T)
  BY <1>1, FS_Union
<1>3. Cardinality(S \cap T) = 0
  BY FS_EmptySet
<1>4. Cardinality(S) \in Nat /\ Cardinality(T) \in Nat
  BY FS_CardinalityType
<1>5. IsFiniteSet(U \cup {x}) /\ Cardinality(U \cup {x}) = Cardinality(U) + 1
  BY <1>1, <1>2, FS_AddElement
<1>6. V = U \cup {x}
  BY <1>1
<1>7. IsFiniteSet(V) /\ Cardinality(V) = Cardinality(U) + 1
  BY <1>5, <1>6
<1> QED
  BY <1>2, <1>3, <1>4, <1>7

LEMMA NodesFinite ==
    IsFiniteSet(Node) /\ Cardinality(Node) = MaxLength + 1 /\ \A S \in SUBSET Node : IsFiniteSet(S)
<1>1. IsFiniteSet(0..MaxLength) /\ Cardinality(0..MaxLength) = MaxLength + 1
  BY Constants, FS_Interval
<1> QED
  BY <1>1, FS_Subset DEF Node

LEMMA RotatedRanked ==
    ASSUME NEW h, NEW D, NEW g, NEW x, NEW y, NEW t, NEW c, NEW a, NEW b, NEW s,
           Pivot(h, D, x, y, t, c, a, b, s), Rotated(h, g, x, y, t, c, a, b, s), Ranked(h, D),
           MaxLength < RankRange
    PROVE  Ranked(g, Turned(h, D, x, y, c, b))
<1>1. PICK E, z, u : E = Turned(h, D, x, y, c, b) /\ z = h.kid[x][b] /\ u = h.kid[y][a]
  OBVIOUS
<1>2. /\ In(g) = In(h)
      /\ g.kid[x][a] = c /\ g.kid[x][b] = z /\ g.kid[y][b] = x /\ g.kid[y][a] = u
      /\ E[c] = D[c] /\ E[z] = D[z] /\ E[u] = D[u] /\ E[x] = {x} \cup D[z] \cup D[c] /\ E[y] = D[x]
      /\ \A n \in In(h) : n # x /\ n # y => \A e \in Side : E[g.kid[n][e]] = D[h.kid[n][e]]
  BY <1>1, RotatedKids
<1>3. /\ D[x] = {x} \cup D[y] \cup D[z] /\ x \notin D[y] /\ x \notin D[z] /\ D[y] \cap D[z] = {}
      /\ D[y] = {y} \cup D[c] \cup D[u] /\ y \notin D[c] /\ y \notin D[u] /\ D[c] \cap D[u] = {}
      /\ z \in Ptr /\ u \in Ptr /\ ((a = -1 /\ b = 1) \/ (a = 1 /\ b = -1))
  BY <1>1, PivotParts
<1>4. /\ x \in In(h) /\ y \in In(h) /\ h.kid[x][a] = y /\ h.kid[y][b] = c /\ D \in [Ptr -> SUBSET In(h)]
      /\ x \in Node /\ y \in Node /\ c \in Ptr /\ x # y /\ In(h) \subseteq Node
  BY DEF Pivot, Below, In, Wired, Heaps
<1>5. x \in Ptr /\ y \in Ptr
  BY <1>4 DEF Ptr
<1>6. \A n \in Ptr : D[n] \subseteq In(h) /\ IsFiniteSet(D[n]) /\ Cardinality(D[n]) \in Nat
  BY <1>4, NodesFinite, FS_CardinalityType
<1>7. Cardinality(D[x]) <= MaxLength
  <2>1. D[x] \subseteq Node \ {Root} /\ Root \in Node
    BY <1>4, <1>5, <1>6, Constants DEF In
  <2>2. IsFiniteSet(Node \ {Root})
    BY NodesFinite
  <2>3. Cardinality(Node \ {Root}) = Cardinality(Node) - 1
    BY <2>1, NodesFinite, FS_RemoveElement
  <2>4. Cardinality(Node \ {Root}) = MaxLength
    BY <2>3, NodesFinite, Constants
  <2> QED
    BY <2>1, <2>2, <2>4, FS_Subset
<1>8. Cardinality(D[y]) = Cardinality(D[c]) + Cardinality(D[u]) + 1
  BY <1>3, <1>4, <1>5, <1>6, DisjointSizes
<1>9. Cardinality(D[x]) = Cardinality(D[y]) + Cardinality(D[z]) + 1
  BY <1>3, <1>4, <1>5, <1>6, DisjointSizes
<1>10. Cardinality(E[x]) = Cardinality(D[z]) + Cardinality(D[c]) + 1
  <2>1. x \notin D[c] /\ D[z] \cap D[c] = {}
    BY <1>3
  <2> QED
    BY <1>2, <1>3, <1>4, <1>6, <2>1, DisjointSizes
<1>11. ASSUME NEW n \in In(h) PROVE g.rank[n] = Cardinality(E[g.kid[n][-1]]) + 1
  <2>1. n \in Node /\ h.rank[n] = Cardinality(D[h.kid[n][-1]]) + 1
    BY <1>4 DEF Ranked
  <2>2. h.rank[x] = Cardinality(D[h.kid[x][-1]]) + 1 /\ h.rank[y] = Cardinality(D[h.kid[y][-1]]) + 1
    BY <1>4 DEF Ranked
  <2>3. CASE n # x /\ n # y
    BY <1>2, <2>1, <2>3, Sides DEF Rotated
  <2>4. CASE a = -1
    <3>1. h.rank[x] = Cardinality(D[y]) + 1 /\ h.rank[y] = Cardinality(D[u]) + 1 /\ b = 1
      BY <1>1, <1>3, <1>4, <2>2, <2>4
    <3>2. h.rank[x] - h.rank[y] = Cardinality(D[c]) + 1
      BY <1>3, <1>4, <1>5, <1>6, <1>8, <3>1
    <3>3. Cardinality(D[c]) + 1 \in 0..(RankRange - 1)
      BY <1>3, <1>4, <1>5, <1>6, <1>7, <1>8, <1>9, Constants
    <3>4. (h.rank[x] - h.rank[y]) % RankRange = Cardinality(D[c]) + 1
      BY <3>2, <3>3, Constants
    <3>5. CASE n = x
      BY <1>2, <2>1, <2>4, <3>4, <3>5 DEF Rotated
    <3>6. CASE n = y
      BY <1>2, <1>4, <2>1, <2>4, <3>1, <3>6 DEF Rotated
    <3> QED
      BY <2>3, <3>5, <3>6
  <2>5. CASE a = 1
    <3>1. h.rank[x] = Cardinality(D[z]) + 1 /\ h.rank[y] = Cardinality(D[c]) + 1 /\ b = -1
      BY <1>1, <1>3, <1>4, <2>2, <2>5
    <3>2. h.rank[y] + h.rank[x] = Cardinality(E[x]) + 1
      BY <1>3, <1>4, <1>5, <1>6, <1>10, <3>1
    <3>3. Cardinality(E[x]) + 1 \in 0..(RankRange - 1)
      BY <1>3, <1>4, <1>5, <1>6, <1>7, <1>8, <1>9, <1>10, Constants
    <3>4. (h.rank[y] + h.rank[x]) % RankRange = Cardinality(E[x]) + 1
      BY <3>2, <3>3, Constants
    <3>5. CASE n = x
      BY <1>2, <1>4, <2>1, <2>5, <3>1, <3>5 DEF Rotated
    <3>6. CASE n = y
      BY <1>2, <1>4, <2>1, <2>5, <3>1, <3>4, <3>6 DEF Rotated
    <3> QED
      BY <2>3, <3>5, <3>6
  <2> QED
    BY <1>3, <2>4, <2>5
<1>12. Ranked(g, E)
  BY <1>2, <1>11 DEF Ranked
<1> QED
  BY <1>1, <1>12
-----------------------------------------------------------------------------
(* Heights.  A node of height top leans to the side its balance factor     *)
(* says, if its subtrees on the sides s and o have heights hs and ho.      *)
Poised(b, top, s, o, hs, ho) ==
    /\ b = 0 => hs = ho /\ top = hs + 1
    /\ b = s => hs = ho + 1 /\ top = hs + 1
    /\ b = o => ho = hs + 1 /\ top = ho + 1

(* What node n takes the height of its subtree on side s to be: the height *)
(* it has, but for the subtree of p on side d, which is e higher.          *)
Seen(h, H, n, s, p, d, e) == H[h.kid[n][s]] + (IF n = p /\ s = d THEN e ELSE 0)

Leveled(h, H, p, d, e) ==
    /\ H \in [Ptr -> Nat] /\ H[Nil] = 0
    /\ \A n \in In(h) : \A s, o \in Side : s # o =>
          Poised(h.bal[n], H[n], s, o, Seen(h, H, n, s, p, d, e), Seen(h, H, n, o, p, d, e))

(* One side is enough.                                                     *)
LEMMA PoisedEither ==
    ASSUME NEW b, NEW top, NEW a \in Side, NEW o \in Side, a # o, NEW f,
           Poised(b, top, a, o, f[a], f[o])
    PROVE  \A s, r \in Side : s # r => Poised(b, top, s, r, f[s], f[r])
<1>1. \A s, r \in Side : s # r => (s = a /\ r = o) \/ (s = o /\ r = a)
  BY Sides
<1>2. Poised(b, top, o, a, f[o], f[a])
  BY DEF Poised
<1> QED
  BY <1>1, <1>2

(* The children of the nodes that a rotation does not turn.                *)
LEMMA RotatedOthers ==
    ASSUME NEW h, NEW D, NEW g, NEW x, NEW y, NEW t, NEW c, NEW a, NEW b, NEW s,
           Pivot(h, D, x, y, t, c, a, b, s), Rotated(h, g, x, y, t, c, a, b, s),
           NEW n \in In(h), n # x, n # y, NEW e \in Side
    PROVE  \/ h.kid[n][e] = x /\ g.kid[n][e] = y /\ n = t /\ e = s
           \/ h.kid[n][e] \notin {x, y} /\ g.kid[n][e] = h.kid[n][e] /\ ~(n = t /\ e = s)
<1>1. /\ x \in In(h) /\ y \in In(h) /\ Wired(h) /\ Below(h, D) /\ s \in Side
      /\ t \in Node /\ h.up[x] = t /\ h.up[y] = x /\ h.kid[t][s] = x
  BY DEF Pivot
<1>2. n \in Node /\ n \in h.used /\ x # Nil /\ y # Nil
  BY <1>1, NodeIs DEF In
<1>3. h.kid[n][e] # Nil => h.up[h.kid[n][e]] = n
  BY <1>1, <1>2 DEF Wired
<1>4. CASE n = t /\ e = s
  BY <1>1, <1>2, <1>4 DEF Rotated
<1>5. CASE ~(n = t /\ e = s)
  <2>1. g.kid[n][e] = h.kid[n][e]
    BY <1>2, <1>5 DEF Rotated
  <2>2. h.kid[n][e] # y
    BY <1>1, <1>2, <1>3
  <2>3. h.kid[n][e] # x
    <3>1. SUFFICES ASSUME h.kid[n][e] = x PROVE FALSE
      OBVIOUS
    <3>2. n = t /\ e # s
      BY <1>1, <1>2, <1>3, <1>5, <3>1
    <3>3. e = -s
      BY <1>1, <3>2, Sides
    <3> QED
      BY <1>1, <1>2, <3>1, <3>2, <3>3, KidIs
  <2> QED
    BY <1>5, <2>1, <2>2, <2>3
<1> QED
  BY <1>4, <1>5

(* k is g but for the balance factors of the nodes ns, which are f.        *)
Weighed(g, k, ns, f) ==
    /\ k \in Heaps /\ k.used = g.used /\ k.kid = g.kid /\ k.up = g.up /\ k.key = g.key /\ k.rank = g.rank
    /\ \A n \in Node : k.bal[n] = IF n \in ns THEN f[n] ELSE g.bal[n]

Weighed2(g, k, x, i, y, j) ==
    /\ k \in Heaps /\ k.used = g.used /\ k.kid = g.kid /\ k.up = g.up /\ k.key = g.key /\ k.rank = g.rank
    /\ k.bal[x] = i /\ k.bal[y] = j /\ \A n \in Node : n # x /\ n # y => k.bal[n] = g.bal[n]

(* A rotation at the node x whose view of a subtree was wrong: if the two  *)
(* nodes are poised afterwards, only the parent's view can be wrong, by    *)
(* as much as the height of the whole has changed.                         *)
LEMMA RotatedLeveled ==
    ASSUME NEW h, NEW D, NEW g, NEW x, NEW y, NEW t, NEW c, NEW a, NEW b, NEW s,
           Pivot(h, D, x, y, t, c, a, b, s), Rotated(h, g, x, y, t, c, a, b, s),
           NEW H, NEW d, NEW e, Leveled(h, H, x, d, e),
           NEW i, NEW j, NEW hx \in Nat, NEW hy \in Nat,
           Poised(i, hx, a, b, H[c], H[h.kid[x][b]]),
           Poised(j, hy, a, b, H[h.kid[y][a]], hx),
           NEW k, Weighed2(g, k, x, i, y, j), NEW v, v = H[x] - hy
    PROVE  \E G : Leveled(k, G, t, s, v)
<1>1. PICK G, z, u : G = [H EXCEPT ![x] = hx, ![y] = hy] /\ z = h.kid[x][b] /\ u = h.kid[y][a]
  BY Zenon
<1>11. /\ k.used = g.used /\ k.kid = g.kid /\ k.bal[x] = i /\ k.bal[y] = j
      /\ \A n \in Node : n # x /\ n # y => k.bal[n] = g.bal[n]
  BY DEF Weighed2
<1>2. /\ x \in In(h) /\ y \in In(h) /\ a \in Side /\ b \in Side /\ a # b /\ c # x /\ c # y
      /\ x # y /\ t # x /\ t # y /\ In(h) \subseteq Node /\ c \in Ptr /\ x \in Ptr /\ y \in Ptr
      /\ Wired(h) /\ Below(h, D)
  BY Zenon DEF Pivot, In, Wired, Heaps, Ptr
<1>3. H \in [Ptr -> Nat] /\ H[Nil] = 0 /\ x # Nil /\ y # Nil /\ Nil \in Ptr
  BY <1>2, Constants DEF Leveled, Ptr
<1>4. G \in [Ptr -> Nat] /\ G[Nil] = 0 /\ G[x] = hx /\ G[y] = hy /\ \A n \in Ptr : n # x /\ n # y => G[n] = H[n]
  BY <1>1, <1>2, <1>3
<1>5. /\ g.kid[x][a] = c /\ g.kid[x][b] = z /\ g.kid[y][b] = x /\ g.kid[y][a] = u
      /\ z \in Ptr /\ u \in Ptr
  BY SMTT(30), <1>1, RotatedKids, PivotParts
<1>6. z # x /\ z # y /\ u # x /\ u # y
  <2>1. x \in D[x] /\ y \in D[y]
    BY <1>2, NodeIs
  <2>2. D[y] \cap D[z] = {} /\ x \notin D[z] /\ y \notin D[u] /\ x \notin D[y] /\ D[y] = {y} \cup D[c] \cup D[u]
    BY <1>1, PivotParts
  <2> QED
    BY <2>1, <2>2
<1>7. G[c] = H[c] /\ G[z] = H[z] /\ G[u] = H[u]
  BY <1>2, <1>4, <1>5, <1>6
<1>8. In(k) = In(h)
  BY <1>11 DEF In, Rotated
<1>9. ASSUME NEW n \in In(h), NEW s1 \in Side, NEW o1 \in Side, s1 # o1
      PROVE  Poised(k.bal[n], G[n], s1, o1, Seen(k, G, n, s1, t, s, H[x] - hy), Seen(k, G, n, o1, t, s, H[x] - hy))
  <2>1. CASE n = x
    <3>1. PICK f : f = [r \in Side |-> Seen(k, G, x, r, t, s, H[x] - hy)]
      OBVIOUS
    <3>2. f[a] = H[c] + 0 /\ f[b] = H[z] + 0
      BY <1>2, <1>5, <1>7, <1>11, <3>1 DEF Seen
    <3>3. f[a] = H[c] /\ f[b] = H[z]
      BY <1>2, <1>3, <1>5, <3>2
    <3>4. Poised(k.bal[x], G[x], a, b, f[a], f[b])
      BY <1>1, <1>4, <1>11, <3>3
    <3>5. Poised(k.bal[x], G[x], s1, o1, f[s1], f[o1])
      BY <1>2, <1>9, <3>4, PoisedEither
    <3> QED
      BY <2>1, <3>1, <3>5
  <2>2. CASE n = y
    <3>1. PICK f : f = [r \in Side |-> Seen(k, G, y, r, t, s, H[x] - hy)]
      OBVIOUS
    <3>2. f[a] = H[u] + 0 /\ f[b] = hx + 0
      BY <1>2, <1>4, <1>5, <1>7, <1>11, <3>1 DEF Seen
    <3>3. f[a] = H[u] /\ f[b] = hx
      BY <1>2, <1>3, <1>5, <3>2
    <3>4. Poised(k.bal[y], G[y], a, b, f[a], f[b])
      BY <1>1, <1>4, <1>11, <3>3
    <3>5. Poised(k.bal[y], G[y], s1, o1, f[s1], f[o1])
      BY <1>2, <1>9, <3>4, PoisedEither
    <3> QED
      BY <2>2, <3>1, <3>5
  <2>3. CASE n # x /\ n # y
    <3>1. n \in Node /\ n \in Ptr
      BY <1>2 DEF Ptr
    <3>2. k.bal[n] = h.bal[n] /\ G[n] = H[n]
      BY <1>4, <1>11, <2>3, <3>1 DEF Rotated
    <3>3. ASSUME NEW r \in Side
          PROVE  Seen(k, G, n, r, t, s, H[x] - hy) = Seen(h, H, n, r, x, d, e)
      <4>1. Seen(h, H, n, r, x, d, e) = H[h.kid[n][r]] + 0
        BY <2>3 DEF Seen
      <4>2. h.kid[n][r] \in Ptr
        BY <1>2, <3>1 DEF Wired, Heaps
      <4>3. CASE h.kid[n][r] = x /\ g.kid[n][r] = y /\ n = t /\ r = s
        <5>1. Seen(k, G, n, r, t, s, H[x] - hy) = hy + (H[x] - hy)
          BY <1>4, <1>11, <4>3 DEF Seen
        <5> QED
          BY <1>2, <1>3, <4>1, <4>3, <5>1
      <4>4. CASE h.kid[n][r] \notin {x, y} /\ g.kid[n][r] = h.kid[n][r] /\ ~(n = t /\ r = s)
        BY <1>4, <1>11, <4>1, <4>2, <4>4 DEF Seen
      <4> QED
        BY <2>3, <4>3, <4>4, RotatedOthers
    <3>4. Poised(h.bal[n], H[n], s1, o1, Seen(h, H, n, s1, x, d, e), Seen(h, H, n, o1, x, d, e))
      BY <1>9 DEF Leveled
    <3> QED
      BY <3>2, <3>3, <3>4
  <2> QED
    BY <2>1, <2>2, <2>3
<1>10. Leveled(k, G, t, s, H[x] - hy)
  BY <1>4, <1>8, <1>9 DEF Leveled
<1> QED
  BY <1>1, <1>10
-----------------------------------------------------------------------------
(* g is a tree of the same nodes with the same keys as h, in order and     *)
(* ranked if h is.                                                         *)
Keeps(h, D, g, E) ==
    /\ Wired(g) /\ Below(g, E)
    /\ g.used = h.used /\ g.key = h.key
    /\ Sorted(h, D) => Sorted(g, E)
    /\ MaxLength < RankRange /\ Ranked(h, D) => Ranked(g, E)

LEMMA KeepsTwice ==
    ASSUME NEW h, NEW D, NEW g, NEW E, NEW k, NEW F, Keeps(h, D, g, E), Keeps(g, E, k, F)
    PROVE  Keeps(h, D, k, F)
BY DEF Keeps

(* Balance factors matter to none of these.                                *)
LEMMA KeepsBal ==
    ASSUME NEW h, NEW D, NEW g, NEW E, NEW k, Keeps(h, D, g, E),
           k \in Heaps, k.used = g.used, k.kid = g.kid, k.up = g.up, k.key = g.key, k.rank = g.rank
    PROVE  Keeps(h, D, k, E)
<1>1. In(k) = In(g) /\ Top(k) = Top(g)
  BY DEF In, Top
<1>2. Wired(g) /\ Below(g, E)
  BY DEF Keeps
<1>3. Wired(k)
  BY <1>1, <1>2 DEF Wired
<1>4. Below(k, E)
  BY <1>1, <1>2 DEF Below
<1>5. Sorted(g, E) => Sorted(k, E)
  BY <1>1 DEF Sorted
<1>6. Ranked(g, E) => Ranked(k, E)
  BY <1>1 DEF Ranked
<1> QED
  BY <1>3, <1>4, <1>5, <1>6 DEF Keeps

LEMMA SideUnique ==
    ASSUME NEW h, NEW D, Wired(h), Below(h, D), NEW x \in In(h), NEW d \in Side, h.kid[h.up[x]][d] = x
    PROVE  SideOf(h, x) = d
<1>1. x # Nil /\ h.up[x] \in h.used /\ SideOf(h, x) \in Side /\ h.kid[h.up[x]][SideOf(h, x)] = x
  BY NodeIs
<1>2. SUFFICES ASSUME SideOf(h, x) # d PROVE FALSE
  OBVIOUS
<1>3. SideOf(h, x) = -d
  BY <1>1, <1>2, Sides
<1>4. CASE h.up[x] = Root
  <2>1. h.kid[Root][-1] = Nil
    BY DEF Wired
  <2> QED
    BY <1>1, <1>3, <1>4, <2>1, Sides
<1>5. CASE h.up[x] # Root
  <2>1. h.up[x] \in In(h)
    BY <1>1, <1>5 DEF In
  <2> QED
    BY <1>1, <1>3, <2>1, KidIs
<1> QED
  BY <1>4, <1>5

(* A rotation, as a whole.                                                 *)
LEMMA RotateKeeps ==
    ASSUME NEW h, NEW D, NEW x, NEW y, NEW t, NEW c, NEW a, NEW b, NEW s,
           Pivot(h, D, x, y, t, c, a, b, s), NEW g, g = Rotate(h, x, a)
    PROVE  /\ Rotated(h, g, x, y, t, c, a, b, s)
           /\ Keeps(h, D, g, Turned(h, D, x, y, c, b))
           /\ g.up[y] = t /\ SideOf(g, y) = s /\ g.bal = h.bal
<1>1. Rotated(h, g, x, y, t, c, a, b, s)
  BY RotateIs
<1>2. PICK E : E = Turned(h, D, x, y, c, b)
  OBVIOUS
<1>3. Wired(g) /\ Below(g, E)
  BY <1>1, <1>2, RotatedWired, RotatedBelow
<1>4. Sorted(h, D) => Sorted(g, E)
  BY <1>1, <1>2, RotatedSorted
<1>5. MaxLength < RankRange /\ Ranked(h, D) => Ranked(g, E)
  BY <1>1, <1>2, RotatedRanked
<1>6. g.used = h.used /\ g.key = h.key /\ g.bal = h.bal
  BY <1>1 DEF Rotated
<1>7. y \in In(h) /\ y \in Node /\ t \in Node /\ x # y /\ c # y /\ s \in Side
  BY DEF Pivot
<1>8. g.up[y] = t /\ g.kid[t][s] = y
  BY <1>1, <1>7 DEF Rotated
<1>9. SideOf(g, y) = s
  <2>1. y \in In(g)
    BY <1>6, <1>7 DEF In
  <2> QED
    BY <1>3, <1>7, <1>8, <2>1, SideUnique
<1> QED
  BY <1>1, <1>2, <1>3, <1>4, <1>5, <1>6, <1>8, <1>9 DEF Keeps

(* The nodes of a double rotation.                                         *)
Pivot2(h, D, x, r, p, t, c1, c2, a, b, s) ==
    /\ Pivot(h, D, x, r, t, p, a, b, s)
    /\ p \in In(h)
    /\ c1 = h.kid[p][a] /\ c2 = h.kid[p][b]

(* g is h with p, the child of r on side b, over r and x.                  *)
Rotated2(h, g, x, r, p, t, c1, c2, a, b, s) ==
    /\ g.kid[x][a] = c2 /\ g.kid[x][b] = h.kid[x][b]
    /\ g.kid[r][a] = h.kid[r][a] /\ g.kid[r][b] = c1
    /\ g.kid[p][a] = r /\ g.kid[p][b] = x
    /\ \A n \in In(h) : n \notin {x, r, p} =>
          \A e \in Side : \/ h.kid[n][e] = x /\ g.kid[n][e] = p /\ n = t /\ e = s
                          \/ h.kid[n][e] \notin {x, r, p} /\ g.kid[n][e] = h.kid[n][e] /\ ~(n = t /\ e = s)

LEMMA Pivot2Is ==
    ASSUME NEW h, NEW D, NEW x, NEW r, NEW p, NEW t, NEW c1, NEW c2, NEW a, NEW b, NEW s,
           Pivot2(h, D, x, r, p, t, c1, c2, a, b, s), NEW z, z = h.kid[x][b], NEW u, u = h.kid[r][a]
    PROVE  /\ Wired(h) /\ Below(h, D) /\ x \in In(h) /\ r \in In(h) /\ p \in In(h)
           /\ a \in Side /\ b \in Side /\ a # b /\ b = -a /\ a = -b /\ t \in Node /\ s \in Side
           /\ r = h.kid[x][a] /\ p = h.kid[r][b] /\ t = h.up[x] /\ h.up[r] = x /\ h.up[p] = r
           /\ c1 = h.kid[p][a] /\ c2 = h.kid[p][b]
           /\ x # r /\ r # p /\ x # p /\ t # x /\ t # r /\ t # p /\ s = SideOf(h, x)
           /\ p # Nil /\ r # Nil /\ x # Nil /\ x \in Node /\ r \in Node /\ p \in Node
           /\ In(h) \subseteq Node
           /\ \A n \in In(h) : \A f \in Side : h.kid[n][f] \in Ptr
           /\ c1 \in Ptr /\ c2 \in Ptr /\ z \in Ptr /\ u \in Ptr
           /\ \A q \in {c1, c2, z, u} : q \notin {x, r, p}
<1>1. Wired(h) /\ Below(h, D)
  BY DEF Pivot2, Pivot
<1>2. x \in In(h) /\ r \in In(h) /\ p \in In(h)
  BY DEF Pivot2, Pivot
<1>3. a \in Side /\ b \in Side /\ a # b /\ b = -a /\ t \in Node /\ s \in Side
  BY DEF Pivot2, Pivot
<1>4. a = -b
  BY <1>3, Sides
<1>5. r = h.kid[x][a] /\ p = h.kid[r][b] /\ t = h.up[x] /\ h.up[r] = x
  BY DEF Pivot2, Pivot
<1>6. c1 = h.kid[p][a] /\ c2 = h.kid[p][b]
  BY DEF Pivot2
<1>7. x # r /\ r # p /\ x # p /\ t # x /\ t # r /\ t # p /\ s = SideOf(h, x) /\ z # r
  BY DEF Pivot2, Pivot
<1>8. \A n \in In(h) : n # Nil /\ n \in Node
  BY <1>1, NodeIs
<1>9. p # Nil /\ r # Nil /\ x # Nil /\ x \in Node /\ r \in Node /\ p \in Node /\ In(h) \subseteq Node
  BY <1>2, <1>8
<1>10. \A n \in In(h) : n \in h.used /\ n \in Node
  BY <1>8 DEF In
<1>11. \A n \in In(h) : \A f \in Side : h.kid[n][f] \in Ptr
  BY <1>1, <1>10 DEF Wired, Heaps
<1>12. \A n \in In(h) : \A f \in Side : h.kid[n][f] # Nil => h.up[h.kid[n][f]] = n
  BY <1>1, <1>10 DEF Wired
<1>13. h.up[p] = r
  BY <1>2, <1>3, <1>5, <1>9, <1>12
<1>14. u # p
  <2>1. r \in In(h) /\ b \in Side /\ p = h.kid[r][b] /\ p # Nil
    BY <1>2, <1>3, <1>5, <1>9
  <2>2. h.kid[r][-b] # p
    BY <1>1, <2>1, KidIs
  <2> QED
    BY <1>4, <2>2
<1>15. c1 \in Ptr /\ c2 \in Ptr /\ z \in Ptr /\ u \in Ptr
  BY <1>2, <1>3, <1>6, <1>11
<1>16. h.up[x] = t /\ h.up[r] = x /\ h.up[p] = r
  BY <1>5, <1>13
<1>17. /\ c1 # Nil => h.up[c1] = p
       /\ c2 # Nil => h.up[c2] = p
       /\ z # Nil => h.up[z] = x
       /\ u # Nil => h.up[u] = r
  BY <1>2, <1>3, <1>6, <1>12
<1>18. c1 \notin {x, r, p} /\ c2 \notin {x, r, p}
  BY <1>7, <1>9, <1>16, <1>17
<1>19. z \notin {x, r, p} /\ u \notin {x, r, p}
  BY <1>7, <1>9, <1>14, <1>16, <1>17
<1>20. \A q \in {c1, c2, z, u} : q \notin {x, r, p}
  BY <1>18, <1>19
<1> QED
  BY Zenon, <1>1, <1>2, <1>3, <1>4, <1>5, <1>6, <1>7, <1>9, <1>11, <1>13, <1>15, <1>20

LEMMA RotateTwice ==
    ASSUME NEW h, NEW D, NEW x, NEW r, NEW p, NEW t, NEW c1, NEW c2, NEW a, NEW b, NEW s,
           Pivot2(h, D, x, r, p, t, c1, c2, a, b, s), NEW g, g = Rotate(Rotate(h, r, b), x, a)
    PROVE  /\ Rotated2(h, g, x, r, p, t, c1, c2, a, b, s)
           /\ \E E : Keeps(h, D, g, E) /\ E[p] = D[x]
           /\ g.up[p] = t /\ SideOf(g, p) = s /\ g.bal = h.bal
<1>1. /\ Wired(h) /\ Below(h, D) /\ x \in In(h) /\ r \in In(h) /\ p \in In(h)
      /\ a \in Side /\ b \in Side /\ a # b /\ b = -a /\ a = -b /\ t \in Node /\ s \in Side
      /\ r = h.kid[x][a] /\ p = h.kid[r][b] /\ t = h.up[x] /\ h.up[r] = x /\ h.up[p] = r
      /\ x # r /\ r # p /\ x # p /\ t # x /\ t # r /\ t # p /\ s = SideOf(h, x)
      /\ \A e \in Side : e = a \/ e = b
  <2>1. p \in In(h) => p # Nil
    BY SMTT(30), NodeIs DEF Pivot2, Pivot
  <2> QED
    BY <2>1, Sides DEF Pivot2, Pivot
<1>2. p # Nil /\ r # Nil /\ x \in Node /\ r \in Node /\ p \in Node
  <2>1. Wired(h) /\ Below(h, D) /\ x \in In(h) /\ r \in In(h) /\ p \in In(h)
    BY <1>1
  <2>2. \A n \in In(h) : n \in Node /\ n # Nil
    BY <2>1, NodeIs
  <2> QED
    BY <2>1, <2>2
<1>3. SideOf(h, r) = a
  BY Zenon, <1>1, SideUnique
<1>4. Pivot(h, D, r, p, x, c1, b, a, a)
  BY ZenonT(60), <1>1, <1>2, <1>3, PivotIs DEF Pivot2
<1>5. PICK k, F : k = Rotate(h, r, b) /\ F = Turned(h, D, r, p, c1, a)
  OBVIOUS
<1>6. Rotated(h, k, r, p, x, c1, b, a, a) /\ Keeps(h, D, k, F) /\ k.bal = h.bal
  BY <1>4, <1>5, RotateKeeps
<1>7. In(k) = In(h) /\ Wired(k) /\ Below(k, F)
  BY <1>6 DEF Keeps, In
<1>8. /\ k.kid[x][a] = p /\ k.kid[x][b] = h.kid[x][b]
      /\ k.kid[r][a] = h.kid[r][a] /\ k.kid[r][b] = c1
      /\ k.kid[p][a] = r /\ k.kid[p][b] = c2
      /\ k.up[x] = t
  <2>1. k.kid[x][a] = p /\ k.kid[x][b] = h.kid[x][b] /\ k.kid[r][a] = h.kid[r][a]
    BY ZenonT(60), <1>1, <1>2, <1>6 DEF Rotated
  <2>2. k.kid[r][b] = c1 /\ k.kid[p][a] = r /\ k.kid[p][b] = h.kid[p][b]
    BY Zenon, <1>1, <1>2, <1>6 DEF Rotated
  <2>3. c2 = h.kid[p][b] /\ c1 # x
    BY Zenon, <1>4 DEF Pivot2, Pivot
  <2>4. k.up[x] = t
    BY Zenon, <1>1, <1>2, <1>6, <2>3 DEF Rotated
  <2> QED
    BY <2>1, <2>2, <2>3, <2>4
<1>9. SideOf(k, x) = s
  <2>1. h.kid[t][s] = x
    BY Zenon, <1>1, NodeIs
  <2>2. k.kid[t][s] = x
    BY Zenon, <1>1, <2>1, <1>6 DEF Rotated
  <2>3. x \in In(k) /\ k.kid[k.up[x]][s] = x /\ s \in Side
    BY Zenon, <1>1, <1>7, <1>8, <2>2
  <2> QED
    BY <1>7, <2>3, SideUnique
<1>10. Pivot(k, F, x, p, t, c2, a, b, s)
  BY Zenon, <1>1, <1>2, <1>7, <1>8, <1>9, PivotIs
<1>11. /\ Rotated(k, g, x, p, t, c2, a, b, s) /\ Keeps(k, F, g, Turned(k, F, x, p, c2, b))
       /\ g.up[p] = t /\ SideOf(g, p) = s /\ g.bal = k.bal
  BY <1>5, <1>10, RotateKeeps
<1>12. \E E : Keeps(h, D, g, E) /\ E[p] = D[x]
  <2>1. PICK E : E = Turned(k, F, x, p, c2, b)
    OBVIOUS
  <2>2. Keeps(h, D, g, E)
    BY <1>6, <1>11, <2>1, KeepsTwice
  <2>3. x \in Ptr /\ p \in Ptr /\ D \in [Ptr -> SUBSET In(h)] /\ F \in [Ptr -> SUBSET In(k)]
    BY Zenon, <1>1, <1>2, <1>7 DEF Ptr, Below
  <2>4. F[x] = D[x]
    BY Zenon, <1>1, <1>5, <2>3 DEF Turned
  <2>5. E[p] = F[x]
    BY Zenon, <1>1, <2>1, <2>3 DEF Turned
  <2> QED
    BY <2>2, <2>4, <2>5
<1>13. /\ g.kid[x][a] = c2 /\ g.kid[x][b] = h.kid[x][b]
       /\ g.kid[r][a] = h.kid[r][a] /\ g.kid[r][b] = c1
       /\ g.kid[p][a] = r /\ g.kid[p][b] = x
  BY ZenonT(60), <1>1, <1>2, <1>8, <1>11 DEF Rotated
<1>14. ASSUME NEW n \in In(h), n \notin {x, r, p}, NEW e \in Side
       PROVE  \/ h.kid[n][e] = x /\ g.kid[n][e] = p /\ n = t /\ e = s
              \/ h.kid[n][e] \notin {x, r, p} /\ g.kid[n][e] = h.kid[n][e] /\ ~(n = t /\ e = s)
  <2>1. h.kid[n][e] \notin {r, p} /\ k.kid[n][e] = h.kid[n][e]
    BY <1>4, <1>6, <1>14, RotatedOthers
  <2>2. \/ k.kid[n][e] = x /\ g.kid[n][e] = p /\ n = t /\ e = s
        \/ k.kid[n][e] \notin {x, p} /\ g.kid[n][e] = k.kid[n][e] /\ ~(n = t /\ e = s)
    BY <1>7, <1>10, <1>11, <1>14, RotatedOthers
  <2> QED
    BY <2>1, <2>2
<1> QED
  BY <1>6, <1>11, <1>12, <1>13, <1>14 DEF Rotated2

(* Heights after a double rotation.                                        *)
LEMMA Rotated2Leveled ==
    ASSUME NEW h, NEW D, NEW g, NEW x, NEW r, NEW p, NEW t, NEW c1, NEW c2, NEW a, NEW b, NEW s,
           Pivot2(h, D, x, r, p, t, c1, c2, a, b, s), Rotated2(h, g, x, r, p, t, c1, c2, a, b, s),
           NEW H, NEW d, NEW e, Leveled(h, H, x, d, e),
           NEW ix, NEW ir, NEW ip, NEW hx \in Nat, NEW hr \in Nat, NEW hp \in Nat,
           Poised(ix, hx, a, b, H[c2], H[h.kid[x][b]]),
           Poised(ir, hr, a, b, H[h.kid[r][a]], H[c1]),
           Poised(ip, hp, a, b, hr, hx),
           NEW k, k.used = h.used, k.kid = g.kid, k.bal[x] = ix, k.bal[r] = ir, k.bal[p] = ip,
           \A n \in Node : n \notin {x, r, p} => k.bal[n] = h.bal[n]
    PROVE  Leveled(k, [H EXCEPT ![x] = hx, ![r] = hr, ![p] = hp], t, s, H[x] - hp)
<1>1. PICK G, z, u, v : /\ G = [H EXCEPT ![x] = hx, ![r] = hr, ![p] = hp] /\ v = H[x] - hp
                        /\ z = h.kid[x][b] /\ u = h.kid[r][a]
  OBVIOUS
<1>2. /\ x \in In(h) /\ r \in In(h) /\ p \in In(h) /\ a \in Side /\ b \in Side /\ a # b
      /\ x # r /\ r # p /\ x # p /\ t # x /\ t # r /\ t # p
      /\ p # Nil /\ r # Nil /\ x # Nil /\ x \in Node /\ r \in Node /\ p \in Node
      /\ In(h) \subseteq Node
      /\ \A n \in In(h) : \A f \in Side : h.kid[n][f] \in Ptr
      /\ c1 \in Ptr /\ c2 \in Ptr /\ z \in Ptr /\ u \in Ptr
      /\ \A q \in {c1, c2, z, u} : q \notin {x, r, p}
  BY <1>1, Pivot2Is
<1>7. H \in [Ptr -> Nat] /\ H[Nil] = 0 /\ Nil \in Ptr /\ x \in Ptr /\ r \in Ptr /\ p \in Ptr
  BY <1>2 DEF Leveled, Ptr
<1>8. /\ G \in [Ptr -> Nat] /\ G[Nil] = 0 /\ G[x] = hx /\ G[r] = hr /\ G[p] = hp
      /\ \A n \in Ptr : n \notin {x, r, p} => G[n] = H[n]
  BY <1>1, <1>2, <1>2, <1>7
<1>9. /\ G[c1] = H[c1] /\ G[c2] = H[c2] /\ G[z] = H[z] /\ G[u] = H[u]
      /\ H[c1] \in Nat /\ H[c2] \in Nat /\ H[z] \in Nat /\ H[u] \in Nat
  BY <1>2, <1>7, <1>8
<1>10. In(k) = In(h)
  BY DEF In
<1>11. /\ k.kid[x][a] = c2 /\ k.kid[x][b] = z /\ k.kid[r][a] = u /\ k.kid[r][b] = c1
       /\ k.kid[p][a] = r /\ k.kid[p][b] = x
  BY <1>1 DEF Rotated2
<1>12. \A n \in {x, r, p} : \A f \in Side : Seen(k, G, n, f, t, s, v) = G[k.kid[n][f]] + 0
  BY <1>2 DEF Seen
<1>13. /\ Seen(k, G, x, a, t, s, v) = H[c2] /\ Seen(k, G, x, b, t, s, v) = H[z]
       /\ Seen(k, G, r, a, t, s, v) = H[u] /\ Seen(k, G, r, b, t, s, v) = H[c1]
       /\ Seen(k, G, p, a, t, s, v) = hr /\ Seen(k, G, p, b, t, s, v) = hx
  <2>1. /\ Seen(k, G, x, a, t, s, v) = H[c2] + 0 /\ Seen(k, G, x, b, t, s, v) = H[z] + 0
        /\ Seen(k, G, r, a, t, s, v) = H[u] + 0 /\ Seen(k, G, r, b, t, s, v) = H[c1] + 0
        /\ Seen(k, G, p, a, t, s, v) = hr + 0 /\ Seen(k, G, p, b, t, s, v) = hx + 0
    BY <1>2, <1>8, <1>9, <1>11, <1>12
  <2> QED
    BY <1>9, <2>1
<1>14. ASSUME NEW n \in In(h), NEW s1 \in Side, NEW o1 \in Side, s1 # o1
       PROVE  Poised(k.bal[n], G[n], s1, o1, Seen(k, G, n, s1, t, s, v), Seen(k, G, n, o1, t, s, v))
  <2>1. CASE n \in {x, r, p}
    <3>1. PICK f : f = [q \in Side |-> Seen(k, G, n, q, t, s, v)]
      OBVIOUS
    <3>2. Poised(k.bal[n], G[n], a, b, Seen(k, G, n, a, t, s, v), Seen(k, G, n, b, t, s, v))
      BY <1>1, <1>8, <1>13, <2>1
    <3>3. Poised(k.bal[n], G[n], a, b, f[a], f[b])
      BY <1>2, <3>1, <3>2
    <3>4. Poised(k.bal[n], G[n], s1, o1, f[s1], f[o1])
      BY <1>2, <1>14, <3>3, PoisedEither
    <3> QED
      BY <3>1, <3>4
  <2>2. CASE n \notin {x, r, p}
    <3>1. n \in Node /\ n \in Ptr
      BY <1>2 DEF Ptr
    <3>2. k.bal[n] = h.bal[n] /\ G[n] = H[n]
      BY <1>8, <2>2, <3>1
    <3>3. ASSUME NEW q \in Side
          PROVE  Seen(k, G, n, q, t, s, v) = Seen(h, H, n, q, x, d, e)
      <4>1. Seen(h, H, n, q, x, d, e) = H[h.kid[n][q]] + 0
        BY <2>2 DEF Seen
      <4>2. CASE h.kid[n][q] = x /\ g.kid[n][q] = p /\ n = t /\ q = s
        <5>1. Seen(k, G, n, q, t, s, v) = hp + (H[x] - hp)
          BY <1>1, <1>8, <4>2 DEF Seen
        <5> QED
          BY <1>7, <4>1, <4>2, <5>1
      <4>3. CASE h.kid[n][q] \notin {x, r, p} /\ g.kid[n][q] = h.kid[n][q] /\ ~(n = t /\ q = s)
        BY <1>2, <1>8, <4>1, <4>3 DEF Seen
      <4> QED
        BY <2>2, <4>2, <4>3 DEF Rotated2
    <3>4. Poised(h.bal[n], H[n], s1, o1, Seen(h, H, n, s1, x, d, e), Seen(h, H, n, o1, x, d, e))
      BY <1>14 DEF Leveled
    <3> QED
      BY <3>2, <3>3, <3>4
  <2> QED
    BY <2>1, <2>2
<1>15. Leveled(k, G, t, s, v)
  BY <1>8, <1>10, <1>14 DEF Leveled
<1> QED
  BY <1>1, <1>15

-----------------------------------------------------------------------------
(* g is h changed at x so that y stands where x stood, with the same nodes *)
(* below it, and the parent takes that subtree to be e higher than it is.  *)
Mends(h, D, x, g, y, e) ==
    /\ g.up[y] = h.up[x] /\ SideOf(g, y) = SideOf(h, x)
    /\ \E E, G : Keeps(h, D, g, E) /\ Leveled(g, G, h.up[x], SideOf(h, x), e) /\ E[y] = D[x]

(* What the sentinel takes the height to be does not matter.               *)
LEMMA LeveledTop ==
    ASSUME NEW h, NEW H, NEW p, NEW d, NEW e, Leveled(h, H, p, d, e), p = Root \/ e = 0,
           NEW q, NEW f, NEW z, q = Root \/ z = 0
    PROVE  Leveled(h, H, q, f, z)
<1>1. ASSUME NEW n \in In(h), NEW s PROVE Seen(h, H, n, s, p, d, e) = Seen(h, H, n, s, q, f, z)
  BY DEF Seen, In
<1> QED
  BY <1>1 DEF Leveled

(* The balance factor of x is put right, with no rotation.                 *)
LEMMA BalMends ==
    ASSUME NEW h, NEW D, Wired(h), Below(h, D), NEW x \in In(h), NEW a \in Side, NEW b \in Side, a # b,
           NEW H, NEW d, NEW e, Leveled(h, H, x, d, e),
           NEW i \in -1..1, NEW hx \in Nat, Poised(i, hx, a, b, H[h.kid[x][a]], H[h.kid[x][b]]),
           NEW g, g = [h EXCEPT !.bal[x] = i]
    PROVE  Mends(h, D, x, g, x, H[x] - hx)
<1>1. PICK G, t, s : G = [H EXCEPT ![x] = hx] /\ t = h.up[x] /\ s = SideOf(h, x)
  OBVIOUS
<1>2. /\ x \in Node /\ x # Nil /\ x # Root /\ t # x /\ t \in h.used /\ s \in Side /\ h.kid[t][s] = x
      /\ h \in Heaps
  BY <1>1, NodeIs DEF Wired
<1>3. /\ g \in Heaps /\ g.used = h.used /\ g.kid = h.kid /\ g.up = h.up /\ g.key = h.key /\ g.rank = h.rank
      /\ g.bal[x] = i /\ \A n \in Node : n # x => g.bal[n] = h.bal[n]
  BY <1>2 DEF Heaps
<1>4. Keeps(h, D, h, D)
  BY DEF Keeps
<1>5. Keeps(h, D, g, D)
  BY <1>3, <1>4, KeepsBal
<1>6. H \in [Ptr -> Nat] /\ H[Nil] = 0 /\ x \in Ptr
  BY <1>2 DEF Leveled, Ptr
<1>7. G \in [Ptr -> Nat] /\ G[Nil] = 0 /\ G[x] = hx /\ \A n \in Ptr : n # x => G[n] = H[n]
  BY <1>1, <1>2, <1>6
<1>8. \A n \in In(h) : n \in Node /\ n \in Ptr /\ n \in h.used
  BY <1>2 DEF In, Heaps, Ptr
<1>9. \A n \in In(h) : \A r \in Side : h.kid[n][r] \in Ptr
  BY <1>2, <1>8 DEF Heaps
<1>10. \A r \in Side : h.kid[x][r] # x
  BY <1>2, KidIs
<1>11. \A n \in In(h) : \A r \in Side : h.kid[n][r] = x => n = t /\ r = s
  <2>1. ASSUME NEW n \in In(h), NEW r \in Side, h.kid[n][r] = x PROVE n = t /\ r = s
    <3>1. n = t
      BY <1>1, <1>2, <2>1, KidIs
    <3>2. r = s
      BY <1>1, <2>1, <3>1, SideUnique
    <3> QED
      BY <3>1, <3>2
  <2> QED
    BY <2>1
<1>12. ASSUME NEW n \in In(h), NEW s1 \in Side, NEW o1 \in Side, s1 # o1
       PROVE  Poised(g.bal[n], G[n], s1, o1, Seen(g, G, n, s1, t, s, H[x] - hx),
                     Seen(g, G, n, o1, t, s, H[x] - hx))
  <2>1. CASE n = x
    <3>1. PICK f : f = [r \in Side |-> H[h.kid[x][r]]]
      OBVIOUS
    <3>2. Poised(i, hx, a, b, f[a], f[b])
      BY <3>1
    <3>3. Poised(i, hx, s1, o1, f[s1], f[o1])
      BY <1>12, <3>2, PoisedEither
    <3>4. \A r \in Side : G[h.kid[x][r]] = f[r] /\ f[r] \in Nat
      BY <1>6, <1>7, <1>8, <1>9, <1>10, <3>1
    <3>5. \A r \in Side : Seen(g, G, n, r, t, s, H[x] - hx) = f[r] + 0
      BY <1>2, <1>3, <2>1, <3>4 DEF Seen
    <3>6. \A r \in Side : Seen(g, G, n, r, t, s, H[x] - hx) = f[r]
      BY <3>4, <3>5
    <3> QED
      BY <1>3, <1>7, <2>1, <3>3, <3>6
  <2>2. CASE n # x
    <3>1. ASSUME NEW r \in Side PROVE Seen(g, G, n, r, t, s, H[x] - hx) = Seen(h, H, n, r, x, d, e)
      <4>1. Seen(h, H, n, r, x, d, e) = H[h.kid[n][r]] + 0 /\ H[h.kid[n][r]] \in Nat
        BY <1>6, <1>9, <2>2 DEF Seen
      <4>2. CASE n = t /\ r = s
        <5>1. Seen(g, G, n, r, t, s, H[x] - hx) = hx + (H[x] - hx) /\ h.kid[n][r] = x
          BY <1>2, <1>3, <1>7, <4>2 DEF Seen
        <5> QED
          BY <4>1, <5>1
      <4>3. CASE ~(n = t /\ r = s)
        <5>1. h.kid[n][r] # x
          BY <1>11, <4>3
        <5>2. Seen(g, G, n, r, t, s, H[x] - hx) = G[h.kid[n][r]] + 0
          BY <1>3, <4>3 DEF Seen
        <5> QED
          BY <1>7, <1>9, <4>1, <5>1, <5>2
      <4> QED
        BY <4>2, <4>3
    <3>2. Poised(h.bal[n], H[n], s1, o1, Seen(h, H, n, s1, x, d, e), Seen(h, H, n, o1, x, d, e))
      BY <1>12 DEF Leveled
    <3>3. g.bal[n] = h.bal[n] /\ G[n] = H[n]
      BY <1>3, <1>7, <1>8, <2>2
    <3> QED
      BY <3>1, <3>2, <3>3
  <2> QED
    BY <2>1, <2>2
<1>13. In(g) = In(h)
  BY <1>3 DEF In
<1>14. Leveled(g, G, t, s, H[x] - hx)
  BY <1>7, <1>12, <1>13 DEF Leveled
<1>15. g.up[x] = h.up[x] /\ SideOf(g, x) = SideOf(h, x)
  BY <1>3 DEF SideOf
<1> QED
  BY <1>1, <1>5, <1>14, <1>15 DEF Mends

(* What the balance factor of y says of its subtrees, when another node's  *)
(* view is wrong.                                                          *)
LEMMA LeveledAt ==
    ASSUME NEW h, NEW H, NEW x, NEW d, NEW e, Leveled(h, H, x, d, e), Wired(h),
           NEW y \in In(h), y # x \/ e = 0, NEW a \in Side, NEW b \in Side, a # b
    PROVE  /\ Poised(h.bal[y], H[y], a, b, H[h.kid[y][a]], H[h.kid[y][b]])
           /\ H[y] \in Nat /\ H[h.kid[y][a]] \in Nat /\ H[h.kid[y][b]] \in Nat
<1>1. y \in Node /\ y \in Ptr /\ \A r \in Side : h.kid[y][r] \in Ptr
  BY DEF In, Wired, Heaps, Ptr
<1>2. \A r \in Side : H[h.kid[y][r]] \in Nat /\ Seen(h, H, y, r, x, d, e) = H[h.kid[y][r]] + 0
  BY <1>1 DEF Leveled, Seen
<1>3. \A r \in Side : Seen(h, H, y, r, x, d, e) = H[h.kid[y][r]]
  BY <1>2
<1>4. Poised(h.bal[y], H[y], a, b, Seen(h, H, y, a, x, d, e), Seen(h, H, y, b, x, d, e))
  BY DEF Leveled
<1>5. H[y] \in Nat
  BY <1>1 DEF Leveled
<1> QED
  BY <1>2, <1>3, <1>4, <1>5

LEMMA OneBal ==
    ASSUME NEW g \in Heaps, NEW x \in Node, NEW i \in -1..1
    PROVE  Weighed(g, [g EXCEPT !.bal[x] = i], {x}, [n \in {x} |-> i])
BY DEF Heaps, Weighed

LEMMA TwoBals ==
    ASSUME NEW g \in Heaps, NEW x \in Node, NEW i \in -1..1, NEW y \in Node, NEW j \in -1..1, x # y,
           NEW k, k = [g EXCEPT !.bal[x] = i, !.bal[y] = j]
    PROVE  Weighed2(g, k, x, i, y, j)
<1>1. PICK g1 : g1 = [g EXCEPT !.bal[x] = i]
  OBVIOUS
<1>2. k = [g1 EXCEPT !.bal[y] = j]
  BY <1>1
<1>3. Weighed(g, g1, {x}, [n \in {x} |-> i])
  BY <1>1, OneBal
<1>4. g1 \in Heaps
  BY <1>3 DEF Weighed
<1>5. Weighed(g1, k, {y}, [n \in {y} |-> j])
  BY ZenonT(60), <1>2, <1>4, OneBal
<1> QED
  BY <1>3, <1>5 DEF Weighed, Weighed2

(* A rotation, and the two balance factors set.                            *)
LEMMA TurnMends ==
    ASSUME NEW h, NEW D, NEW x, NEW y, NEW t, NEW c, NEW a, NEW b, NEW s,
           Pivot(h, D, x, y, t, c, a, b, s), NEW H, NEW d, NEW e, Leveled(h, H, x, d, e),
           NEW i, NEW j, NEW hx \in Nat, NEW hy \in Nat,
           Poised(i, hx, a, b, H[c], H[h.kid[x][b]]),
           Poised(j, hy, a, b, H[h.kid[y][a]], hx),
           NEW k, Weighed2(Rotate(h, x, a), k, x, i, y, j), NEW v, v = H[x] - hy
    PROVE  Mends(h, D, x, k, y, v)
<1>1. PICK g, E : g = Rotate(h, x, a) /\ E = Turned(h, D, x, y, c, b)
  OBVIOUS
<1>2. /\ Rotated(h, g, x, y, t, c, a, b, s) /\ Keeps(h, D, g, E)
      /\ g.up[y] = t /\ SideOf(g, y) = s /\ g.bal = h.bal
  BY <1>1, RotateKeeps
<1>3. Weighed2(g, k, x, i, y, j)
  BY <1>1
<1>4. /\ k \in Heaps /\ k.used = g.used /\ k.kid = g.kid /\ k.up = g.up /\ k.key = g.key /\ k.rank = g.rank
  BY <1>3 DEF Weighed2
<1>5. Keeps(h, D, k, E)
  BY <1>2, <1>4, KeepsBal
<1>6. \E G : Leveled(k, G, t, s, v)
  <2>1. Rotated(h, g, x, y, t, c, a, b, s)
    BY <1>2
  <2> QED
    BY <1>3, <2>1, RotatedLeveled
<1>7. E[y] = D[x]
  BY <1>1, <1>2, RotatedKids
<1>8. t = h.up[x] /\ s = SideOf(h, x)
  BY Zenon DEF Pivot
<1>9. k.up[y] = t /\ SideOf(k, y) = s
  BY <1>2, <1>4 DEF SideOf
<1> QED
  BY <1>5, <1>6, <1>7, <1>8, <1>9 DEF Mends

LEMMA RotateHeap ==
    ASSUME NEW h, NEW D, NEW x, NEW y, NEW t, NEW c, NEW a, NEW b, NEW s,
           Pivot(h, D, x, y, t, c, a, b, s)
    PROVE  Rotate(h, x, a) \in Heaps /\ x \in Node /\ y \in Node /\ x # y
<1>1. Rotated(h, Rotate(h, x, a), x, y, t, c, a, b, s)
  BY RotateIs
<1> QED
  BY <1>1 DEF Rotated, Pivot

(* The rotation for a child y that leans outwards: avl_insert, avl_delete. *)
LEMMA OuterTurn ==
    ASSUME NEW h, NEW D, NEW x, NEW y, NEW t, NEW c, NEW a, NEW b, NEW s,
           Pivot(h, D, x, y, t, c, a, b, s), NEW H, NEW d, NEW e, Leveled(h, H, x, d, e),
           NEW v \in Nat, H[h.kid[x][b]] = v, H[y] = v + 2, h.bal[y] = a,
           NEW k, Weighed2(Rotate(h, x, a), k, x, 0, y, 0)
    PROVE  Mends(h, D, x, k, y, H[x] - (v + 2))
<1>1. Wired(h) /\ y \in In(h) /\ y # x /\ a \in Side /\ b \in Side /\ a # b /\ c = h.kid[y][b]
  BY DEF Pivot
<1>2. /\ Poised(h.bal[y], H[y], a, b, H[h.kid[y][a]], H[c])
      /\ H[h.kid[y][a]] \in Nat /\ H[c] \in Nat
  BY <1>1, LeveledAt
<1>3. H[h.kid[y][a]] = v + 1 /\ H[c] = v
  BY <1>2 DEF Poised
<1>4. a # 0 /\ b # 0
  BY <1>1 DEF Side
<1>5. Poised(0, v + 1, a, b, H[c], H[h.kid[x][b]])
  BY <1>3, <1>4 DEF Poised
<1>6. Poised(0, v + 2, a, b, H[h.kid[y][a]], v + 1)
  BY <1>3, <1>4 DEF Poised
<1>7. PICK i, hx \in Nat, hy \in Nat : i = 0 /\ hx = v + 1 /\ hy = v + 2
  OBVIOUS
<1>8. Poised(i, hx, a, b, H[c], H[h.kid[x][b]]) /\ Poised(i, hy, a, b, H[h.kid[y][a]], hx)
  BY <1>5, <1>6, <1>7
<1>9. Weighed2(Rotate(h, x, a), k, x, i, y, i)
  BY <1>7
<1>10. PICK w : w = H[x] - hy
  OBVIOUS
<1>11. Mends(h, D, x, k, y, w)
  BY <1>8, <1>9, <1>10, TurnMends
<1> QED
  BY <1>7, <1>10, <1>11

(* The rotation for a child y in balance: avl_delete.                      *)
LEMMA EvenTurn ==
    ASSUME NEW h, NEW D, NEW x, NEW y, NEW t, NEW c, NEW a, NEW b, NEW s,
           Pivot(h, D, x, y, t, c, a, b, s), NEW H, NEW d, NEW e, Leveled(h, H, x, d, e),
           NEW v \in Nat, H[h.kid[x][b]] = v, H[y] = v + 2, h.bal[y] = 0,
           NEW k, Weighed2(Rotate(h, x, a), k, x, a, y, b)
    PROVE  Mends(h, D, x, k, y, H[x] - (v + 3))
<1>1. Wired(h) /\ y \in In(h) /\ y # x /\ a \in Side /\ b \in Side /\ a # b /\ c = h.kid[y][b]
  BY DEF Pivot
<1>2. /\ Poised(h.bal[y], H[y], a, b, H[h.kid[y][a]], H[c])
      /\ H[h.kid[y][a]] \in Nat /\ H[c] \in Nat
  BY <1>1, LeveledAt
<1>3. H[h.kid[y][a]] = v + 1 /\ H[c] = v + 1
  BY <1>2 DEF Poised
<1>4. a # 0 /\ b # 0 /\ a \in -1..1 /\ b \in -1..1
  BY <1>1 DEF Side
<1>5. Poised(a, v + 2, a, b, H[c], H[h.kid[x][b]])
  BY <1>1, <1>3, <1>4 DEF Poised
<1>6. Poised(b, v + 3, a, b, H[h.kid[y][a]], v + 2)
  BY <1>1, <1>3, <1>4 DEF Poised
<1>7. PICK hx \in Nat, hy \in Nat : hx = v + 2 /\ hy = v + 3
  OBVIOUS
<1>8. Poised(a, hx, a, b, H[c], H[h.kid[x][b]]) /\ Poised(b, hy, a, b, H[h.kid[y][a]], hx)
  BY <1>5, <1>6, <1>7
<1>9. PICK w : w = H[x] - hy
  OBVIOUS
<1>10. Mends(h, D, x, k, y, w)
  BY <1>8, <1>9, TurnMends
<1> QED
  BY <1>7, <1>9, <1>10

(* The double rotation for a child r that leans inwards.                   *)
LEMMA InnerTurn ==
    ASSUME NEW h, NEW D, NEW x, NEW r, NEW t, NEW p, NEW a, NEW b, NEW s,
           Pivot(h, D, x, r, t, p, a, b, s), NEW H, NEW d, NEW e, Leveled(h, H, x, d, e),
           NEW v \in Nat, H[h.kid[x][b]] = v, H[r] = v + 2, h.bal[r] = b,
           NEW k, k = DoubleRotate(h, x, a)
    PROVE  Mends(h, D, x, k, p, H[x] - (v + 2))
<1>1. /\ Wired(h) /\ Below(h, D) /\ r \in In(h) /\ r # x /\ a \in Side /\ b \in Side /\ a # b
      /\ p = h.kid[r][b] /\ b = -a /\ x # p /\ r = h.kid[x][a]
  BY DEF Pivot
<1>2. /\ Poised(h.bal[r], H[r], a, b, H[h.kid[r][a]], H[p])
      /\ H[h.kid[r][a]] \in Nat /\ H[p] \in Nat
  BY SMTT(30), <1>1, LeveledAt
<1>3. H[h.kid[r][a]] = v /\ H[p] = v + 1
  <2>1. H[p] = H[h.kid[r][a]] + 1 /\ H[r] = H[p] + 1
    BY <1>2 DEF Poised
  <2> QED
    BY <1>2, <2>1
<1>4. p # Nil /\ a # 0 /\ b # 0 /\ a \in -1..1 /\ b \in -1..1
  BY SMTT(30), <1>1, <1>3 DEF Leveled, Side
<1>5. p \in In(h)
  BY <1>4 DEF Pivot
<1>6. PICK c1, c2, i, g : /\ c1 = h.kid[p][a] /\ c2 = h.kid[p][b] /\ i = h.bal[p]
                          /\ g = Rotate(Rotate(h, r, b), x, a)
  OBVIOUS
<1>7. Pivot2(h, D, x, r, p, t, c1, c2, a, b, s)
  BY <1>5, <1>6 DEF Pivot2
<1>8. /\ Poised(i, v + 1, a, b, H[c1], H[c2]) /\ H[c1] \in Nat /\ H[c2] \in Nat
  <2>1. p # x /\ a # b /\ a \in Side /\ b \in Side /\ Wired(h)
    BY <1>1
  <2>2. /\ Poised(h.bal[p], H[p], a, b, H[h.kid[p][a]], H[h.kid[p][b]])
        /\ H[h.kid[p][a]] \in Nat /\ H[h.kid[p][b]] \in Nat
    BY <1>5, <2>1, LeveledAt
  <2> QED
    BY <1>3, <1>6, <2>2
<1>9. i \in -1..1 /\ (i = 0 \/ i = a \/ i = b)
  <2>1. i \in -1..1
    BY <1>1, <1>5, <1>6 DEF In, Wired, Heaps
  <2> QED
    BY <1>1, <2>1 DEF Side
<1>10. PICK ix, ir : ix = (IF i = a THEN b ELSE 0) /\ ir = (IF i = b THEN a ELSE 0)
  OBVIOUS
<1>11. Poised(ix, v + 1, a, b, H[c2], H[h.kid[x][b]])
  BY <1>1, <1>4, <1>8, <1>9, <1>10 DEF Poised
<1>12. Poised(ir, v + 1, a, b, H[h.kid[r][a]], H[c1])
  BY SMTT(30), <1>1, <1>3, <1>4, <1>8, <1>9, <1>10 DEF Poised
<1>13. Poised(0, v + 2, a, b, v + 1, v + 1)
  BY <1>4 DEF Poised
<1>14. /\ Rotated2(h, g, x, r, p, t, c1, c2, a, b, s)
       /\ \E E : Keeps(h, D, g, E) /\ E[p] = D[x]
       /\ g.up[p] = t /\ SideOf(g, p) = s /\ g.bal = h.bal
  BY <1>6, <1>7, RotateTwice
<1>15. PICK E : Keeps(h, D, g, E) /\ E[p] = D[x]
  BY <1>14
<1>16. /\ g \in Heaps /\ x \in Node /\ r \in Node /\ p \in Node /\ x # r /\ r # p /\ x # p
  <2>1. x \in Node /\ r \in Node /\ p \in Node /\ x # r /\ r # p /\ x # p
    BY <1>7, Pivot2Is
  <2> QED
    BY <1>15, <2>1 DEF Keeps, Wired
<1>17. k = [g EXCEPT !.bal[x] = ix, !.bal[r] = ir, !.bal[p] = 0]
  <2>1. k = [Rotate(Rotate(h, r, -a), x, a) EXCEPT !.bal[x] = IF i = a THEN -a ELSE 0,
                   !.bal[r] = IF i = -a THEN a ELSE 0, !.bal[p] = 0]
    BY Zenon, <1>1, <1>6 DEF DoubleRotate
  <2> QED
    BY Zenon, <1>1, <1>6, <1>10, <2>1
<1>18. ix \in -1..1 /\ ir \in -1..1
  BY <1>4, <1>10
<1>19. /\ k \in Heaps /\ k.used = g.used /\ k.kid = g.kid /\ k.up = g.up /\ k.key = g.key /\ k.rank = g.rank
       /\ k.bal[x] = ix /\ k.bal[r] = ir /\ k.bal[p] = 0
       /\ \A n \in Node : n \notin {x, r, p} => k.bal[n] = g.bal[n]
  <2>1. PICK g1 : g1 = [g EXCEPT !.bal[x] = ix, !.bal[r] = ir]
    OBVIOUS
  <2>2. Weighed2(g, g1, x, ix, r, ir)
    BY Zenon, <1>16, <1>18, <2>1, TwoBals
  <2>3. k = [g1 EXCEPT !.bal[p] = 0]
    BY <1>17, <2>1
  <2>4. g1 \in Heaps /\ 0 \in -1..1
    BY <2>2 DEF Weighed2
  <2>5. Weighed(g1, [g1 EXCEPT !.bal[p] = 0], {p}, [n \in {p} |-> 0])
    BY <1>16, <2>4, OneBal
  <2>6. Weighed(g1, k, {p}, [n \in {p} |-> 0])
    BY <2>3, <2>5
  <2> QED
    BY <1>16, <2>2, <2>6 DEF Weighed, Weighed2
<1>20. Keeps(h, D, k, E)
  BY <1>15, <1>19, KeepsBal
<1>21. k.used = h.used /\ \A n \in Node : n \notin {x, r, p} => k.bal[n] = h.bal[n]
  BY <1>14, <1>15, <1>19 DEF Keeps
<1>22. v + 1 \in Nat /\ v + 2 \in Nat
  OBVIOUS
<1>23. \E G : Leveled(k, G, t, s, H[x] - (v + 2))
  <2>1. PICK hx \in Nat, hp \in Nat : hx = v + 1 /\ hp = v + 2
    BY <1>22
  <2>2. /\ Poised(ix, hx, a, b, H[c2], H[h.kid[x][b]])
        /\ Poised(ir, hx, a, b, H[h.kid[r][a]], H[c1])
        /\ Poised(0, hp, a, b, hx, hx)
    BY <1>11, <1>12, <1>13, <2>1
  <2>3. k.kid = g.kid
    BY <1>19
  <2>4. Leveled(k, [H EXCEPT ![x] = hx, ![r] = hx, ![p] = hp], t, s, H[x] - hp)
    BY <1>7, <1>14, <1>19, <1>21, <2>2, <2>3, Rotated2Leveled
  <2> QED
    BY <2>1, <2>4
<1>24. t = h.up[x] /\ s = SideOf(h, x)
  BY DEF Pivot
<1>25. k.up[p] = t /\ SideOf(k, p) = s
  BY <1>14, <1>19 DEF SideOf
<1> QED
  BY <1>15, <1>20, <1>23, <1>24, <1>25 DEF Mends

-----------------------------------------------------------------------------
(* Sizes of subtrees: finite, and smaller in a child.                      *)
LEMMA SubtreeSizes ==
    ASSUME NEW h, NEW D, Wired(h), Below(h, D)
    PROVE  /\ \A n \in Ptr : IsFiniteSet(D[n]) /\ Cardinality(D[n]) \in 0..MaxLength
           /\ \A n \in In(h) : \A d \in Side : Cardinality(D[h.kid[n][d]]) < Cardinality(D[n])
           /\ \A n \in In(h) : Cardinality(D[n]) =
                 Cardinality(D[h.kid[n][-1]]) + Cardinality(D[h.kid[n][1]]) + 1
<1>1. D \in [Ptr -> SUBSET In(h)] /\ In(h) \subseteq Node /\ Root \notin In(h)
  BY DEF Below, Wired, Heaps, In
<1>2. \A n \in In(h) : n \in Ptr /\ \A d \in Side : h.kid[n][d] \in Ptr
  BY <1>1 DEF Wired, Heaps, Ptr
<1>3. IsFiniteSet(Node \ {Root}) /\ Cardinality(Node \ {Root}) = MaxLength
  BY NodesFinite, FS_RemoveElement, Constants
<1>4. ASSUME NEW n \in Ptr PROVE IsFiniteSet(D[n]) /\ Cardinality(D[n]) \in 0..MaxLength
  <2>1. D[n] \subseteq Node \ {Root}
    BY <1>1
  <2>2. IsFiniteSet(D[n]) /\ Cardinality(D[n]) <= MaxLength
    BY <1>3, <2>1, FS_Subset
  <2>3. Cardinality(D[n]) \in Nat
    BY <2>2, FS_CardinalityType
  <2> QED
    BY <2>2, <2>3, Constants
<1>5. ASSUME NEW n \in In(h)
      PROVE  /\ Cardinality(D[n]) = Cardinality(D[h.kid[n][-1]]) + Cardinality(D[h.kid[n][1]]) + 1
             /\ \A d \in Side : Cardinality(D[h.kid[n][d]]) < Cardinality(D[n])
  <2>1. PICK l, r : l = h.kid[n][-1] /\ r = h.kid[n][1]
    OBVIOUS
  <2>2. l \in Ptr /\ r \in Ptr
    BY <1>2, <2>1, Sides
  <2>3. D[n] = {n} \cup D[l] \cup D[r] /\ n \notin D[l] /\ n \notin D[r] /\ D[l] \cap D[r] = {}
    BY <2>1 DEF Below
  <2>4. /\ IsFiniteSet(D[l]) /\ IsFiniteSet(D[r])
        /\ Cardinality(D[l]) \in Nat /\ Cardinality(D[r]) \in Nat
    BY <1>4, <2>2
  <2>5. Cardinality(D[n]) = Cardinality(D[l]) + Cardinality(D[r]) + 1
    BY <2>3, <2>4, DisjointSizes
  <2>6. Cardinality(D[l]) < Cardinality(D[n]) /\ Cardinality(D[r]) < Cardinality(D[n])
    BY <2>4, <2>5
  <2> QED
    BY <2>1, <2>5, <2>6, Sides
<1> QED
  BY <1>4, <1>5

(* What holds of Nil, and of every node if it holds of its children, holds *)
(* of all nodes.                                                           *)
LEMMA TreeInduction ==
    ASSUME NEW h, NEW D, Wired(h), Below(h, D), NEW S, Nil \in S,
           \A n \in In(h) : (\A d \in Side : h.kid[n][d] \in S) => n \in S
    PROVE  \A n \in In(h) : n \in S
<1> DEFINE I == {i \in Nat : \A n \in In(h) : Cardinality(D[n]) <= i => n \in S}
<1>1. \A n \in In(h) : n \in Ptr /\ Cardinality(D[n]) \in 0..MaxLength
  <2>1. \A n \in In(h) : n \in Ptr
    BY DEF In, Wired, Heaps, Ptr
  <2> QED
    BY <2>1, SubtreeSizes
<1>2. \A n \in In(h) : \A d \in Side : /\ Cardinality(D[h.kid[n][d]]) < Cardinality(D[n])
                                       /\ h.kid[n][d] # Nil => h.kid[n][d] \in In(h)
  <2>1. \A n \in In(h) : n \in h.used
    BY DEF In
  <2>2. \A n \in In(h) : \A d \in Side : h.kid[n][d] # Nil => h.kid[n][d] \in In(h)
    BY <2>1 DEF Wired
  <2> QED
    BY <2>2, SubtreeSizes
<1>3. 0 \in I
  <2>1. \A n \in In(h) : Cardinality(D[n]) > 0
    <3>1. ASSUME NEW n \in In(h) PROVE Cardinality(D[n]) > 0
      <4>1. h.kid[n][1] \in Ptr
        BY Sides DEF In, Wired, Heaps
      <4>2. Cardinality(D[h.kid[n][1]]) \in Nat /\ Cardinality(D[h.kid[n][1]]) < Cardinality(D[n])
        BY <1>2, <4>1, SubtreeSizes, Sides
      <4> QED
        BY <1>1, <4>2
    <3> QED
      BY <3>1
  <2> QED
    BY <1>1, <2>1
<1>4. ASSUME NEW i \in Nat, i \in I PROVE i + 1 \in I
  <2>1. ASSUME NEW n \in In(h), Cardinality(D[n]) <= i + 1 PROVE n \in S
    <3>1. ASSUME NEW d \in Side PROVE h.kid[n][d] \in S
      <4>1. CASE h.kid[n][d] = Nil
        BY <4>1
      <4>2. CASE h.kid[n][d] # Nil
        <5>1. h.kid[n][d] \in In(h) /\ Cardinality(D[h.kid[n][d]]) < Cardinality(D[n])
          BY <1>2, <4>2
        <5>2. Cardinality(D[h.kid[n][d]]) <= i
          BY <1>1, <2>1, <5>1
        <5> QED
          BY <1>4, <5>1, <5>2
      <4> QED
        BY <4>1, <4>2
    <3> QED
      BY <3>1
  <2> QED
    BY <2>1
<1> HIDE DEF I
<1>5. MaxLength \in I
  BY <1>3, <1>4, AllNumbers, Constants
<1> QED
  BY <1>1, <1>5 DEF I

(* A node cannot be below and above another.                               *)
LEMMA BelowOnce ==
    ASSUME NEW h, NEW D, Wired(h), Below(h, D), NEW x \in In(h), NEW y \in In(h), x \in D[y], y \in D[x]
    PROVE  x = y
<1>1. D[x] \subseteq D[y] /\ D[y] \subseteq D[x]
  BY DEF Below
<1>2. SUFFICES ASSUME x # y PROVE FALSE
  OBVIOUS
<1>3. h.up[x] \in D[y]
  BY <1>2 DEF Below
<1> QED
  BY <1>1, <1>3, NodeIs

(* path follows next from n until it is Nil.                               *)
Path(h, path, n, next) ==
    /\ path \in Seq(In(h)) /\ Len(path) \in Nat \ {0}
    /\ path[1] = n
    /\ \A i \in 1..(Len(path) - 1) : path[i + 1] = next[path[i]] /\ next[path[i]] # Nil
    /\ \A i \in 1..Len(path) : path[i] \in In(h)
    /\ Last(path) = path[Len(path)]

(* next leads from a node to a child, or to Nil.                           *)
Downward(h, next) ==
    \A m \in In(h) : next[m] # Nil => \E d \in Side : next[m] = h.kid[m][d]

LEMMA StepDown ==
    ASSUME NEW h, NEW D, Wired(h), Below(h, D), NEW next, Downward(h, next),
           NEW m \in In(h), next[m] # Nil
    PROVE  /\ next[m] \in In(h) /\ h.up[next[m]] = m /\ D[next[m]] \subseteq D[m]
           /\ Cardinality(D[next[m]]) < Cardinality(D[m])
<1>1. PICK d \in Side : next[m] = h.kid[m][d]
  BY DEF Downward
<1> QED
  BY <1>1, KidIs, SubtreeSizes

(* A loop that follows next ends: a measure of the nodes becomes smaller.  *)
Measured(h, next, M) ==
    /\ In(h) \subseteq Node \ {Root}
    /\ \A m \in In(h) : M[m] \in 1..MaxLength
    /\ \A m \in In(h) : next[m] # Nil => next[m] \in In(h) /\ M[next[m]] < M[m]

(* One turn of such a loop.                                                *)
LEMMA FurtherIs ==
    ASSUME NEW h, NEW next, NEW M, Measured(h, next, M), NEW n,
           NEW p, Path(h, p, n, next), NEW q, q = Further(p, next)
    PROVE  /\ Path(h, q, n, next) /\ Last(p) \in In(h) /\ Last(q) \in In(h)
           /\ \/ next[Last(p)] = Nil /\ q = p
              \/ M[Last(q)] < M[Last(p)]
<1>1. PICK l, e : l = Len(p) /\ e = Last(p)
  OBVIOUS
<1>2. p \in Seq(In(h)) /\ l \in Nat \ {0} /\ l \in 1..l /\ e = p[l] /\ e \in In(h)
  BY <1>1 DEF Path
<1>3. CASE next[e] = Nil
  BY <1>1, <1>2, <1>3 DEF Further
<1>4. CASE next[e] # Nil
  <2>1. PICK c : c = next[e]
    OBVIOUS
  <2>2. c \in In(h) /\ M[c] < M[e]
    BY <1>2, <1>4, <2>1 DEF Measured
  <2>3. q = Append(p, c)
    BY <1>1, <1>4, <2>1 DEF Further
  <2>4. /\ q \in Seq(In(h)) /\ Len(q) = l + 1 /\ q[l + 1] = c
        /\ \A i \in 1..l : q[i] = p[i]
    BY <1>1, <1>2, <2>2, <2>3, AppendProperties
  <2>5. \A i \in 1..((l + 1) - 1) : q[i + 1] = next[q[i]] /\ next[q[i]] # Nil
    <3>1. ASSUME NEW i \in 1..((l + 1) - 1) PROVE q[i + 1] = next[q[i]] /\ next[q[i]] # Nil
      <4>1. CASE i = l
        BY <1>2, <1>4, <2>1, <2>4, <4>1
      <4>2. CASE i # l
        <5>1. i \in 1..(l - 1) /\ i \in 1..l /\ i + 1 \in 1..l
          BY <1>2, <4>2
        <5>2. p[i + 1] = next[p[i]] /\ next[p[i]] # Nil
          BY <1>1, <5>1 DEF Path
        <5> QED
          BY <2>4, <5>1, <5>2
      <4> QED
        BY <4>1, <4>2
    <3> QED
      BY <3>1
  <2>6. \A i \in 1..(l + 1) : q[i] \in In(h)
    <3>1. ASSUME NEW i \in 1..(l + 1) PROVE q[i] \in In(h)
      <4>1. i = l + 1 \/ i \in 1..l
        BY <1>2
      <4>2. \A j \in 1..l : p[j] \in In(h)
        BY <1>1 DEF Path
      <4> QED
        BY <2>2, <2>4, <4>1, <4>2
    <3> QED
      BY <3>1
  <2>7. Last(q) = q[l + 1]
    BY <2>4 DEF Last
  <2>8. q[1] = n
    BY <1>2, <2>4 DEF Path
  <2>9. Path(h, q, n, next)
    BY <1>2, <2>4, <2>5, <2>6, <2>7, <2>8 DEF Path
  <2> QED
    BY <1>1, <1>2, <2>2, <2>4, <2>7, <2>9
<1> QED
  BY <1>3, <1>4

LEMMA FollowIs ==
    ASSUME NEW h, NEW next, NEW M, Measured(h, next, M), NEW n \in In(h)
    PROVE  Path(h, Follow(n, next), n, next) /\ next[Last(Follow(n, next))] = Nil
<1>1. PICK l \in Nat : l = MaxLength
  BY Constants
<1>2. n # Nil
  BY Constants DEF Measured
<1>3. Path(h, <<n>>, n, next)
  <2>1. <<n>> \in Seq(In(h)) /\ Len(<<n>>) = 1 /\ <<n>>[1] = n
    OBVIOUS
  <2> QED
    BY <2>1 DEF Path, Last
<1> DEFINE Eq(f) == f = [i \in 0..MaxLength |-> IF i = 0 THEN <<n>> ELSE Further(f[i - 1], next)]
<1>4. \E f : Eq(f)
  <2>1. PICK T, F : /\ T = {p \in Seq(In(h)) : Path(h, p, n, next)}
                    /\ F = [i \in 1..l |-> [p \in T |-> Further(p, next)]]
    OBVIOUS
  <2>2. <<n>> \in T /\ F \in [1..l -> [T -> T]]
    <3>1. ASSUME NEW p \in T PROVE Further(p, next) \in T
      <4>1. Path(h, p, n, next)
        BY <2>1
      <4>2. Path(h, Further(p, next), n, next)
        BY <4>1, FurtherIs
      <4> QED
        BY <2>1, <4>2 DEF Path
    <3>2. <<n>> \in T
      BY <1>3, <2>1
    <3> QED
      BY <2>1, <3>1, <3>2
  <2>3. PICK g : IsLoop(g, l, T, <<n>>, F)
    BY <2>2, LoopExists
  <2>4. \A i \in 0..l : i # 0 => i \in 1..l /\ i - 1 \in 0..l
    OBVIOUS
  <2>5. \A i \in 0..l : i # 0 => F[i][g[i - 1]] = Further(g[i - 1], next)
    BY <2>1, <2>3, <2>4 DEF IsLoop
  <2>6. \A i \in 0..l : g[i] = IF i = 0 THEN <<n>> ELSE Further(g[i - 1], next)
    BY <2>3, <2>4, <2>5 DEF IsLoop
  <2> QED
    BY <1>1, <2>3, <2>6 DEF IsLoop
<1>5. PICK at : at = CHOOSE f : Eq(f)
  OBVIOUS
<1>6. Eq(at)
  <2> HIDE DEF Eq
  <2> QED
    BY <1>4, <1>5
<1>7. at[0] = <<n>> /\ \A i \in 1..l : at[i] = Further(at[i - 1], next)
  <2>1. \A i \in 1..l : i \in 0..MaxLength /\ i # 0
    BY <1>1
  <2> QED
    BY <1>1, <1>6, <2>1
<1>8. Follow(n, next) = at[l]
  <2> DEFINE c == CHOOSE f : Eq(f)
  <2>1. Follow(n, next) = c[MaxLength]
    BY <1>2 DEF Follow
  <2> HIDE DEF Eq
  <2> QED
    BY <1>1, <1>5, <2>1
<1>9. \A m \in In(h) : M[m] \in 1..MaxLength
  BY DEF Measured
<1>10. PICK S : S = {i \in Nat : i <= l => /\ Path(h, at[i], n, next)
                                          /\ \/ next[Last(at[i])] = Nil
                                             \/ M[Last(at[i])] + i <= l}
  OBVIOUS
<1>11. 0 \in S
  <2>1. Last(<<n>>) = n
    BY DEF Last
  <2>2. M[n] + 0 <= l
    BY <1>1, <1>9
  <2> QED
    BY <1>3, <1>7, <1>10, <2>1, <2>2
<1>12. ASSUME NEW i \in Nat, i \in S PROVE i + 1 \in S
  <2>1. SUFFICES ASSUME i + 1 <= l
                 PROVE  /\ Path(h, at[i + 1], n, next)
                        /\ \/ next[Last(at[i + 1])] = Nil
                           \/ M[Last(at[i + 1])] + (i + 1) <= l
    BY <1>10
  <2>2. i + 1 \in 1..l /\ (i + 1) - 1 = i /\ i <= l
    BY <2>1
  <2>3. at[i + 1] = Further(at[i], next)
    BY <1>7, <2>2
  <2>4. /\ Path(h, at[i], n, next)
        /\ next[Last(at[i])] = Nil \/ M[Last(at[i])] + i <= l
    BY <1>10, <1>12, <2>2
  <2>5. /\ Path(h, at[i + 1], n, next) /\ Last(at[i]) \in In(h) /\ Last(at[i + 1]) \in In(h)
        /\ \/ next[Last(at[i])] = Nil /\ at[i + 1] = at[i]
           \/ M[Last(at[i + 1])] < M[Last(at[i])]
    BY <2>3, <2>4, FurtherIs
  <2>6. CASE next[Last(at[i])] = Nil
    <3>1. at[i + 1] = at[i]
      BY <2>3, <2>6 DEF Further
    <3> QED
      BY <2>5, <2>6, <3>1
  <2>7. CASE next[Last(at[i])] # Nil
    <3>1. M[Last(at[i + 1])] \in Nat /\ M[Last(at[i])] \in Nat
      BY <1>9, <2>5
    <3>2. M[Last(at[i + 1])] + (i + 1) <= l
      BY <2>4, <2>5, <2>7, <3>1
    <3> QED
      BY <2>5, <3>2
  <2> QED
    BY <2>6, <2>7
<1>13. l \in S
  BY <1>11, <1>12, AllNumbers
<1>14. Path(h, at[l], n, next) /\ (next[Last(at[l])] = Nil \/ M[Last(at[l])] + l <= l)
  BY <1>10, <1>13
<1>15. Last(at[l]) \in In(h)
  BY <1>14 DEF Path
<1>16. next[Last(at[l])] = Nil
  BY <1>9, <1>14, <1>15
<1> QED
  BY <1>8, <1>14, <1>16

(* Down the tree, the subtrees become smaller.                             *)
LEMMA DescentIs ==
    ASSUME NEW h, NEW D, Wired(h), Below(h, D), NEW next, Downward(h, next), NEW n \in In(h)
    PROVE  Path(h, Follow(n, next), n, next) /\ next[Last(Follow(n, next))] = Nil
<1>1. PICK M : M = [m \in In(h) |-> Cardinality(D[m])]
  OBVIOUS
<1>2. In(h) \subseteq Node \ {Root}
  BY DEF In, Wired, Heaps
<1>3. ASSUME NEW m \in In(h) PROVE M[m] \in 1..MaxLength
  <2>1. m \in Ptr /\ h.kid[m][1] \in Ptr
    BY Sides DEF In, Wired, Heaps, Ptr
  <2>2. Cardinality(D[h.kid[m][1]]) \in 0..MaxLength /\ Cardinality(D[m]) \in 0..MaxLength
        /\ Cardinality(D[h.kid[m][1]]) < Cardinality(D[m])
    BY <2>1, SubtreeSizes, Sides
  <2> QED
    BY <1>1, <2>2
<1>4. ASSUME NEW m \in In(h), next[m] # Nil PROVE next[m] \in In(h) /\ M[next[m]] < M[m]
  BY <1>1, <1>4, StepDown
<1>5. Measured(h, next, M)
  BY <1>2, <1>3, <1>4 DEF Measured
<1> QED
  BY <1>5, FollowIs

(* Later nodes on a path are below earlier ones.                           *)
LEMMA PathOrder ==
    ASSUME NEW h, NEW D, Wired(h), Below(h, D), NEW next, Downward(h, next), NEW n,
           NEW path, Path(h, path, n, next)
    PROVE  \A j \in 1..Len(path) : \A i \in 1..j : path[j] \in D[path[i]]
<1>1. ASSUME NEW j \in 1..Len(path) PROVE \A i \in 1..j : path[j] \in D[path[i]]
  <2>2. j \in Nat /\ Len(path) \in Nat /\ j - 1 \in Nat
    BY DEF Path
  <2>8. PICK k \in Nat : k = j - 1
    BY <2>2
  <2>1. PICK f : f = [i \in 0..k |-> path[j - i]] /\ k = j - 1
    BY <2>8
  <2>3. PICK T : T = {m \in In(h) : path[j] \in D[m]}
    OBVIOUS
  <2>4. f[0] \in T
    <3>1. f[0] = path[j] /\ path[j] \in In(h)
      BY <2>1, <2>2 DEF Path
    <3> QED
      BY <2>3, <3>1, NodeIs
  <2>5. ASSUME NEW i \in 1..k, f[i - 1] \in T PROVE f[i] \in T
    <3>1. f[i] = path[j - i] /\ f[i - 1] = path[j - i + 1] /\ j - i \in 1..(Len(path) - 1)
      BY <2>1, <2>2
    <3>2. path[j - i + 1] = next[path[j - i]] /\ next[path[j - i]] # Nil
      BY <3>1 DEF Path
    <3>3. path[j - i] \in In(h)
      <4>1. j - i \in 1..Len(path)
        BY <2>2, <3>1
      <4> QED
        BY <4>1 DEF Path
    <3>4. D[path[j - i + 1]] \subseteq D[path[j - i]]
      BY <3>2, <3>3, StepDown
    <3> QED
      BY <2>3, <2>5, <3>1, <3>3, <3>4
  <2>6. \A i \in 0..k : f[i] \in T
    BY <2>4, <2>5, LoopStays
  <2>7. ASSUME NEW i \in 1..j PROVE path[j] \in D[path[i]]
    <3>1. j - i \in 0..k /\ f[j - i] = path[j - (j - i)] /\ j - (j - i) = i
      BY <2>1, <2>2
    <3> QED
      BY <2>3, <2>6, <3>1
  <2> QED
    BY <2>7
<1> QED
  BY <1>1

(* The nodes on a path from the top are those that have its end below      *)
(* them.                                                                   *)
LEMMA OnPath ==
    ASSUME NEW h, NEW D, Wired(h), Below(h, D), NEW next, Downward(h, next), Top(h) # Nil,
           NEW path, path = Follow(Top(h), next), NEW e, e = Last(path)
    PROVE  /\ Path(h, path, Top(h), next)
           /\ e \in In(h) /\ next[e] = Nil
           /\ \A q \in In(h) : q \in ToSet(path) <=> e \in D[q]
           /\ ToSet(path) \subseteq In(h)
           /\ \A q \in In(h) : q # e /\ e \in D[q] => next[q] \in In(h) /\ e \in D[next[q]]
<1>1. PICK l : l = Len(path)
  OBVIOUS
<1>2. Top(h) \in In(h) /\ h.up[Top(h)] = Root
  <2>1. Root \in h.used /\ 1 \in Side
    BY Sides DEF Wired
  <2> QED
    BY <2>1 DEF Wired, Top
<1>3. Path(h, path, Top(h), next) /\ next[e] = Nil
  BY <1>2, DescentIs
<1>4. /\ l \in Nat \ {0} /\ e = path[l] /\ l \in 1..l /\ path \in Seq(In(h))
      /\ \A i \in 1..l : path[i] \in In(h)
      /\ \A i \in 1..(l - 1) : path[i + 1] = next[path[i]] /\ next[path[i]] # Nil
      /\ path[1] = Top(h)
  BY <1>1, <1>3 DEF Path
<1>5. e \in In(h)
  BY <1>4
<1>6. ToSet(path) = {path[i] : i \in 1..l}
  BY <1>1, <1>4 DEF ToSet
<1>7. ASSUME NEW q \in ToSet(path) PROVE q \in In(h) /\ e \in D[q]
  <2>1. PICK i \in 1..l : q = path[i]
    BY <1>6
  <2>2. path[l] \in D[path[i]]
    BY <1>1, <1>3, <1>4, <2>1, PathOrder
  <2> QED
    BY <1>4, <2>1, <2>2
<1>8. ASSUME NEW q \in In(h), e \in D[q] PROVE q \in ToSet(path)
  <2>1. PICK k \in Nat : k = l - 1
    BY <1>4
  <2>2. PICK f : f = [i \in 0..k |-> path[i + 1]]
    OBVIOUS
  <2>3. PICK T : T = {m \in In(h) : m \in D[q] => q \in ToSet(path)}
    OBVIOUS
  <2>4. f[0] \in T
    <3>1. f[0] = path[1] /\ path[1] \in In(h) /\ path[1] = Top(h) /\ path[1] \in ToSet(path)
      BY <1>2, <1>4, <1>6, <2>1, <2>2
    <3>2. ASSUME Top(h) \in D[q], q # Top(h) PROVE FALSE
      <4>1. Root \in D[q]
        BY <1>2, <3>2 DEF Below
      <4> QED
        BY <4>1, NodeIs DEF In
    <3> QED
      BY <2>3, <3>1, <3>2
  <2>5. ASSUME NEW i \in 1..k, f[i - 1] \in T PROVE f[i] \in T
    <3>1. f[i] = path[i + 1] /\ f[i - 1] = path[i] /\ i \in 1..(l - 1) /\ i \in 1..l /\ i + 1 \in 1..l
      BY <1>4, <2>1, <2>2
    <3>2. path[i + 1] = next[path[i]] /\ next[path[i]] # Nil /\ path[i] \in In(h) /\ path[i + 1] \in In(h)
      BY <1>4, <3>1
    <3>3. h.up[path[i + 1]] = path[i]
      BY <3>2, StepDown
    <3>4. ASSUME path[i + 1] \in D[q] PROVE q \in ToSet(path)
      <4>1. CASE path[i + 1] = q
        BY <1>6, <3>1, <4>1
      <4>2. CASE path[i + 1] # q
        <5>1. path[i] \in D[q]
          BY <3>3, <3>4, <4>2 DEF Below
        <5> QED
          BY <2>3, <2>5, <3>1, <5>1
      <4> QED
        BY <4>1, <4>2
    <3> QED
      BY <2>3, <3>1, <3>2, <3>4
  <2>6. \A i \in 0..k : f[i] \in T
    BY <2>4, <2>5, LoopStays
  <2>7. k \in 0..k /\ f[k] = e
    BY <1>4, <2>1, <2>2
  <2> QED
    BY <1>8, <2>3, <2>6, <2>7
<1>9. ASSUME NEW q \in In(h), q # e, e \in D[q] PROVE next[q] \in In(h) /\ e \in D[next[q]]
  <2>1. PICK i \in 1..l : q = path[i]
    BY <1>6, <1>8, <1>9
  <2>2. i \in 1..(l - 1) /\ i + 1 \in 1..l
    BY <1>4, <1>9, <2>1
  <2>3. path[i + 1] = next[q] /\ path[i + 1] \in In(h)
    BY <1>4, <2>1, <2>2
  <2>4. path[l] \in D[path[i + 1]]
    BY <1>1, <1>3, <1>4, <2>2, PathOrder
  <2> QED
    BY <1>4, <2>3, <2>4
<1> QED
  BY <1>3, <1>5, <1>7, <1>8, <1>9

-----------------------------------------------------------------------------
(* avl_insert.  g is h with the new node n below e on side d.              *)
Grown(h, g, n, k, e, d) ==
    /\ g \in Heaps
    /\ g.used = h.used \cup {n}
    /\ \A m \in Node : \A s \in Side :
          g.kid[m][s] = IF m = n THEN Nil ELSE IF m = e /\ s = d THEN n ELSE h.kid[m][s]
    /\ \A m \in Node : /\ g.up[m] = IF m = n THEN e ELSE h.up[m]
                       /\ g.key[m] = IF m = n THEN k ELSE h.key[m]
                       /\ g.bal[m] = IF m = n THEN 0 ELSE h.bal[m]
                       /\ g.rank[m] = IF m = n THEN 1 ELSE h.rank[m]

LEMMA NodeNewIs ==
    ASSUME NEW h \in Heaps, NEW n \in Node, NEW k \in Key, NEW e \in Node, NEW d \in Side, e # n
    PROVE  Grown(h, AvlNodeNew(h, n, k, e, d), n, k, e, d)
<1>1. PICK g : g = AvlNodeNew(h, n, k, e, d)
  OBVIOUS
<1>2. /\ g = [used |-> g.used, kid |-> g.kid, up |-> g.up, key |-> g.key, bal |-> g.bal, rank |-> g.rank]
      /\ g.used = h.used \cup {n}
      /\ g.kid = [[h.kid EXCEPT ![e][d] = n] EXCEPT ![n] = [s \in Side |-> Nil]]
      /\ g.up = [h.up EXCEPT ![n] = e]
      /\ g.key = [h.key EXCEPT ![n] = k]
      /\ g.bal = [h.bal EXCEPT ![n] = 0]
      /\ g.rank = [h.rank EXCEPT ![n] = 1]
  BY <1>1 DEF AvlNodeNew, Heaps
<1>3. g.kid \in [Node -> [Side -> Ptr]]
  <2>1. PICK kid : kid = [h.kid EXCEPT ![e][d] = n]
    OBVIOUS
  <2>2. kid \in [Node -> [Side -> Ptr]]
    BY <2>1 DEF Heaps, Ptr
  <2>3. g.kid = [kid EXCEPT ![n] = [s \in Side |-> Nil]]
    BY <1>2, <2>1
  <2>4. [s \in Side |-> Nil] \in [Side -> Ptr]
    BY DEF Ptr
  <2> QED
    BY <2>2, <2>3, <2>4
<1>4. g.up \in [Node -> Ptr] /\ g.key \in [Node -> Key \cup {NoKey}] /\ g.bal \in [Node -> -1..1]
  BY <1>2 DEF Heaps, Ptr
<1>5. g.rank \in [Node -> 0..(RankRange - 1)]
  BY <1>2, Constants DEF Heaps
<1>6. g.used \in SUBSET Node
  BY <1>2 DEF Heaps
<1>7. g \in Heaps
  BY <1>2, <1>3, <1>4, <1>5, <1>6 DEF Heaps
<1>8. \A m \in Node : \A s \in Side :
          g.kid[m][s] = IF m = n THEN Nil ELSE IF m = e /\ s = d THEN n ELSE h.kid[m][s]
  BY <1>2 DEF Heaps
<1>9. \A m \in Node : /\ g.up[m] = IF m = n THEN e ELSE h.up[m]
                      /\ g.key[m] = IF m = n THEN k ELSE h.key[m]
                      /\ g.bal[m] = IF m = n THEN 0 ELSE h.bal[m]
                      /\ g.rank[m] = IF m = n THEN 1 ELSE h.rank[m]
  BY <1>2 DEF Heaps
<1> QED
  BY SMTT(30), <1>1, <1>2, <1>7, <1>8, <1>9 DEF Grown

(* The new node goes where there is none.                                  *)
Vacant(h, n, e, d) ==
    /\ Wired(h) /\ n \in Node \ h.used /\ e \in h.used /\ d \in Side
    /\ h.kid[e][d] = Nil /\ (e = Root => d = 1)

LEMMA GrownWired ==
    ASSUME NEW h, NEW g, NEW n, NEW k, NEW e, NEW d, Vacant(h, n, e, d), Grown(h, g, n, k, e, d)
    PROVE  Wired(g) /\ In(g) = In(h) \cup {n} /\ n \notin In(h)
<1>1. /\ h.used \subseteq Node /\ n \in Node /\ n \notin h.used /\ e \in Node /\ e # n /\ d \in Side
      /\ Root \in h.used /\ n # Root /\ n # Nil /\ h \in Heaps
  BY Constants DEF Vacant, Wired, Heaps
<1>2. In(g) = In(h) \cup {n} /\ n \notin In(h)
  BY <1>1 DEF Grown, In
<1>3. Root \in g.used /\ g.up[Root] = Nil /\ g.kid[Root][-1] = Nil
  <2>1. h.up[Root] = Nil /\ h.kid[Root][-1] = Nil /\ -1 \in Side
    BY Sides DEF Vacant, Wired
  <2> QED
    BY <1>1, <2>1, Constants DEF Grown, Vacant
<1>4. ASSUME NEW m \in g.used, NEW s \in Side, g.kid[m][s] # Nil
      PROVE  g.kid[m][s] \in In(g) /\ g.up[g.kid[m][s]] = m
  <2>1. m \in Node /\ m # n
    BY <1>1, <1>4 DEF Grown
  <2>2. CASE m = e /\ s = d
    <3>1. g.kid[m][s] = n /\ g.up[n] = e
      BY <1>1, <2>1, <2>2 DEF Grown
    <3> QED
      BY <1>2, <2>2, <3>1
  <2>3. CASE ~(m = e /\ s = d)
    <3>1. g.kid[m][s] = h.kid[m][s] /\ m \in h.used
      BY <2>1, <2>3 DEF Grown
    <3>2. PICK c : c = h.kid[m][s]
      OBVIOUS
    <3>3. c \in In(h) /\ h.up[c] = m
      BY <1>4, <3>1, <3>2 DEF Vacant, Wired
    <3>4. c \in Node /\ c # n
      BY <1>1, <1>2, <3>3 DEF In
    <3>5. g.up[c] = h.up[c]
      BY <3>4 DEF Grown
    <3> QED
      BY <1>2, <3>1, <3>2, <3>3, <3>5
  <2> QED
    BY <2>2, <2>3
<1>5. ASSUME NEW m \in In(g) PROVE g.up[m] \in g.used /\ \E s \in Side : g.kid[g.up[m]][s] = m
  <2>1. CASE m = n
    <3>1. g.up[n] = e /\ g.kid[e][d] = n /\ e \in g.used
      BY <1>1 DEF Grown, Vacant
    <3> QED
      BY <1>1, <2>1, <3>1
  <2>2. CASE m # n
    <3>1. m \in In(h) /\ m \in Node
      BY <1>1, <1>2, <2>2 DEF In
    <3>2. h.up[m] \in h.used /\ g.up[m] = h.up[m]
      BY <2>2, <3>1 DEF Vacant, Wired, Grown
    <3>3. PICK s \in Side : h.kid[h.up[m]][s] = m
      BY <3>1 DEF Vacant, Wired
    <3>4. m # Nil
      BY <3>1, Constants
    <3>5. h.up[m] \in Node /\ h.up[m] # n /\ ~(h.up[m] = e /\ s = d)
      BY <1>1, <3>2, <3>3, <3>4 DEF Vacant
    <3>6. g.kid[h.up[m]][s] = m
      BY <3>3, <3>5 DEF Grown
    <3>7. h.up[m] \in g.used
      BY <3>2 DEF Grown
    <3> QED
      BY <3>2, <3>6, <3>7
  <2> QED
    BY <2>1, <2>2
<1>6. ASSUME NEW m \in Node \ g.used, NEW s \in Side PROVE g.kid[m][s] = Nil
  <2>1. m \notin h.used /\ m # n /\ m # e
    BY DEF Grown, Vacant
  <2>2. h.kid[m][s] = Nil
    BY <2>1 DEF Vacant, Wired
  <2> QED
    BY <2>1, <2>2 DEF Grown
<1>7. g \in Heaps
  BY DEF Grown
<1>8. Wired(g)
  BY <1>2, <1>3, <1>4, <1>5, <1>6, <1>7 DEF Wired
<1> QED
  BY <1>2, <1>8

(* The subtrees with the new node.                                         *)
More(D, n, e) == [m \in Ptr |-> IF m = n THEN {n} ELSE IF e \in D[m] THEN D[m] \cup {n} ELSE D[m]]

(* sd[q] is the side of q on which a search ends at e.                     *)
Leads(h, D, e, sd) ==
    /\ Below(h, D) /\ e \in In(h)
    /\ \A q \in In(h) : sd[q] \in Side
    /\ \A q \in In(h) : q # e /\ e \in D[q] => e \in D[h.kid[q][sd[q]]]

(* What the new node adds to the subtrees.                                 *)
Spread(h, D, g, E, n, e, sd) ==
    /\ E[n] = {n} /\ E[Nil] = {} /\ \A s \in Side : g.kid[n][s] = Nil
    /\ \A q \in In(h) : E[q] = IF e \in D[q] THEN D[q] \cup {n} ELSE D[q]
    /\ \A q \in In(h) : n \notin D[q] /\ \A s \in Side : n \notin D[h.kid[q][s]]
    /\ \A q \in In(h) : \A s \in Side :
          E[g.kid[q][s]] = IF e \in D[q] /\ s = sd[q] THEN D[h.kid[q][s]] \cup {n}
                                                    ELSE D[h.kid[q][s]]

LEMMA GrownKids ==
    ASSUME NEW h, NEW D, NEW g, NEW n, NEW k, NEW e, NEW d, NEW sd,
           Vacant(h, n, e, d), Grown(h, g, n, k, e, d), Leads(h, D, e, sd), d = sd[e],
           NEW E, E = More(D, n, e)
    PROVE  Spread(h, D, g, E, n, e, sd)
<1>1. /\ Wired(h) /\ Below(h, D) /\ n \in Node /\ n \notin h.used /\ e \in In(h) /\ d \in Side /\ n # Nil
      /\ h.kid[e][d] = Nil
  BY Constants DEF Vacant, Leads
<1>2. D \in [Ptr -> SUBSET In(h)] /\ D[Nil] = {} /\ n \notin In(h) /\ \A m \in Ptr : n \notin D[m]
  BY <1>1 DEF Below, In
<1>3. /\ \A q \in In(h) : q \in Node /\ q \in Ptr /\ q # n /\ q \in h.used
      /\ \A q \in In(h) : \A s \in Side : h.kid[q][s] \in Ptr
      /\ n \in Ptr /\ Nil \in Ptr
  BY <1>1, <1>2 DEF Wired, Heaps, In, Ptr
<1>4. \A q \in In(h) : \A s \in Side : h.kid[q][s] # n
  <2>1. \A q \in In(h) : \A s \in Side : h.kid[q][s] # Nil => h.kid[q][s] \in In(h)
    BY <1>1, <1>3 DEF Wired
  <2> QED
    BY <1>1, <1>2, <2>1
<1>5. E[n] = {n} /\ E[Nil] = {} /\ \A s \in Side : g.kid[n][s] = Nil
  BY <1>1, <1>2, <1>3 DEF More, Grown
<1>6. \A q \in In(h) : E[q] = IF e \in D[q] THEN D[q] \cup {n} ELSE D[q]
  BY <1>3 DEF More
<1>7. ASSUME NEW q \in In(h), NEW s \in Side
      PROVE  E[g.kid[q][s]] = IF e \in D[q] /\ s = sd[q] THEN D[h.kid[q][s]] \cup {n} ELSE D[h.kid[q][s]]
  <2>1. PICK c : c = h.kid[q][s]
    OBVIOUS
  <2>2. c \in Ptr /\ c # n /\ D[c] \subseteq D[q] /\ q \notin D[c]
    <3>1. c \in Ptr /\ c # n
      BY <1>3, <1>4, <2>1
    <3> QED
      BY <1>1, <2>1, <3>1, Sides DEF Below
  <2>3. E[c] = IF e \in D[c] THEN D[c] \cup {n} ELSE D[c]
    BY <2>2 DEF More
  <2>4. CASE q = e
    <3>1. e \in D[e]
      BY <1>1, NodeIs
    <3>2. CASE s = d
      <4>1. g.kid[q][s] = n
        BY <1>3, <2>4, <3>2 DEF Grown
      <4> QED
        BY <1>1, <1>2, <1>5, <2>4, <3>1, <3>2, <4>1
    <3>3. CASE s # d
      <4>1. g.kid[q][s] = c
        BY <1>3, <2>1, <3>3 DEF Grown
      <4> QED
        BY <2>1, <2>2, <2>3, <2>4, <3>3, <4>1
    <3> QED
      BY <3>2, <3>3
  <2>5. CASE q # e
    <3>1. g.kid[q][s] = c
      BY <1>3, <2>1, <2>5 DEF Grown
    <3>2. e \in D[c] => e \in D[q] /\ s = sd[q]
      <4>1. SUFFICES ASSUME e \in D[c], s # sd[q] PROVE FALSE
        BY <2>2
      <4>2. e \in D[h.kid[q][sd[q]]] /\ sd[q] \in Side
        BY <2>2, <2>5, <4>1 DEF Leads
      <4>3. D[h.kid[q][-1]] \cap D[h.kid[q][1]] = {}
        BY <1>1 DEF Below
      <4> QED
        BY <2>1, <4>1, <4>2, <4>3, Sides
    <3>3. e \in D[q] /\ s = sd[q] => e \in D[c]
      BY <2>1, <2>5 DEF Leads
    <3> QED
      BY <2>1, <2>3, <3>1, <3>2, <3>3
  <2> QED
    BY <2>4, <2>5
<1> QED
  BY <1>2, <1>3, <1>5, <1>6, <1>7 DEF Spread

LEMMA GrownBelow ==
    ASSUME NEW h, NEW D, NEW g, NEW n, NEW k, NEW e, NEW d, NEW sd,
           Vacant(h, n, e, d), Grown(h, g, n, k, e, d), Leads(h, D, e, sd), d = sd[e],
           NEW E, E = More(D, n, e)
    PROVE  Below(g, E)
<1>1. /\ E[n] = {n} /\ E[Nil] = {} /\ \A s \in Side : g.kid[n][s] = Nil
      /\ \A q \in In(h) : E[q] = IF e \in D[q] THEN D[q] \cup {n} ELSE D[q]
      /\ \A q \in In(h) : n \notin D[q] /\ \A s \in Side : n \notin D[h.kid[q][s]]
      /\ \A q \in In(h) : \A s \in Side :
                 E[g.kid[q][s]] = IF e \in D[q] /\ s = sd[q] THEN D[h.kid[q][s]] \cup {n}
                                                           ELSE D[h.kid[q][s]]
  <2>1. Spread(h, D, g, E, n, e, sd)
    BY GrownKids
  <2> QED
    BY <2>1 DEF Spread
<1>2. Wired(g) /\ In(g) = In(h) \cup {n} /\ n \notin In(h)
  BY GrownWired
<1>3. Wired(h) /\ Below(h, D) /\ e \in In(h) /\ n \in Node /\ d \in Side
  BY DEF Leads, Vacant
<1>4. E \in [Ptr -> SUBSET In(g)]
  <2>1. D \in [Ptr -> SUBSET In(h)]
    BY <1>3 DEF Below
  <2> QED
    BY <1>2, <2>1 DEF More
<1>5. E[Top(g)] = In(g)
  <2>1. Top(h) # Nil /\ D[Top(h)] = In(h)
    BY <1>3 DEF Below
  <2>2. Top(h) \in In(h) /\ Top(g) = Top(h)
    <3>1. Root \in h.used /\ 1 \in Side /\ Root # e /\ Root # n /\ Root \in Node
      BY <1>2, <1>3, Sides, Constants DEF Wired, In, Vacant
    <3> QED
      BY <1>3, <2>1, <3>1 DEF Top, Grown, Wired
  <2> QED
    BY <1>1, <1>2, <1>3, <2>1, <2>2
<1>6. ASSUME NEW m \in In(g)
      PROVE  /\ E[m] = {m} \cup E[g.kid[m][-1]] \cup E[g.kid[m][1]]
             /\ m \notin E[g.kid[m][-1]] /\ m \notin E[g.kid[m][1]]
             /\ E[g.kid[m][-1]] \cap E[g.kid[m][1]] = {}
  <2>1. CASE m = n
    BY <1>1, <2>1, Sides
  <2>2. CASE m # n
    <3>1. m \in In(h)
      BY <1>2, <2>2
    <3>2. PICK l, r : l = h.kid[m][-1] /\ r = h.kid[m][1]
      OBVIOUS
    <3>3. D[m] = {m} \cup D[l] \cup D[r] /\ m \notin D[l] /\ m \notin D[r] /\ D[l] \cap D[r] = {}
      BY <1>3, <3>1, <3>2 DEF Below
    <3>4. n \notin D[l] /\ n \notin D[r] /\ E[m] = IF e \in D[m] THEN D[m] \cup {n} ELSE D[m]
      BY <1>1, <3>1, <3>2, Sides
    <3>5. /\ E[g.kid[m][-1]] = IF e \in D[m] /\ -1 = sd[m] THEN D[l] \cup {n} ELSE D[l]
          /\ E[g.kid[m][1]] = IF e \in D[m] /\ 1 = sd[m] THEN D[r] \cup {n} ELSE D[r]
      <4>1. \A s \in Side : E[g.kid[m][s]] = IF e \in D[m] /\ s = sd[m] THEN D[h.kid[m][s]] \cup {n}
                                                                        ELSE D[h.kid[m][s]]
        BY <1>1, <3>1
      <4> QED
        BY <3>2, <4>1, Sides
    <3>6. (-1 = sd[m] /\ 1 # sd[m]) \/ (1 = sd[m] /\ -1 # sd[m])
      <4>1. sd[m] \in Side
        BY <3>1 DEF Leads
      <4> QED
        BY <4>1 DEF Side
    <3> QED
      BY <2>2, <3>3, <3>4, <3>5, <3>6
  <2> QED
    BY <2>1, <2>2
<1>7. ASSUME NEW m \in In(g), NEW i \in E[m] PROVE E[i] \subseteq E[m] /\ (i # m => g.up[i] \in E[m])
  <2>1. CASE m = n
    BY <1>1, <1>7, <2>1
  <2>2. CASE m # n
    <3>1. m \in In(h) /\ E[m] = IF e \in D[m] THEN D[m] \cup {n} ELSE D[m]
      BY <1>1, <1>2, <2>2
    <3>2. CASE i = n
      <4>1. e \in D[m]
        BY <1>1, <1>7, <3>1, <3>2
      <4>2. g.up[n] = e
        BY <1>3 DEF Grown
      <4> QED
        BY <1>1, <3>1, <3>2, <4>1, <4>2
    <3>3. CASE i # n
      <4>1. i \in D[m]
        BY <1>7, <3>1, <3>3
      <4>2. i \in In(h) /\ D[i] \subseteq D[m] /\ (i # m => h.up[i] \in D[m])
        BY <1>3, <3>1, <4>1, NodeIs DEF Below
      <4>3. E[i] \subseteq E[m]
        BY ZenonT(60), <1>1, <3>1, <4>2
      <4>4. g.up[i] = h.up[i]
        BY <1>3, <3>3, <4>2 DEF Grown, In, Wired, Heaps
      <4> QED
        BY <3>1, <4>2, <4>3, <4>4
    <3> QED
      BY <3>2, <3>3
  <2> QED
    BY <2>1, <2>2
<1> QED
  BY <1>1, <1>4, <1>5, <1>6, <1>7 DEF Below

LEMMA GrownSorted ==
    ASSUME NEW h, NEW D, NEW g, NEW n, NEW k \in Key, NEW e, NEW d, NEW sd,
           Vacant(h, n, e, d), Grown(h, g, n, k, e, d), Leads(h, D, e, sd), d = sd[e],
           NEW E, E = More(D, n, e), Sorted(h, D),
           \A q \in In(h) : (sd[q] = -1 => k <= h.key[q]) /\ (sd[q] = 1 => h.key[q] <= k)
    PROVE  Sorted(g, E)
<1>1. Spread(h, D, g, E, n, e, sd)
  BY GrownKids
<1>2. In(g) = In(h) \cup {n} /\ n \notin In(h)
  BY GrownWired
<1>3. /\ n \in Node /\ g.key[n] = k
      /\ \A q \in In(h) : q \in Node /\ g.key[q] = h.key[q]
  BY <1>2 DEF Vacant, Wired, Heaps, In, Grown
<1>4. \A q \in In(g) : g.key[q] \in Key
  BY <1>2, <1>3 DEF Sorted
<1>5. \A q \in In(h) : \A s \in Side : D[h.kid[q][s]] \subseteq In(h)
  BY DEF Leads, Below, Vacant, Wired, Heaps, In
<1>6. ASSUME NEW q \in In(g)
      PROVE  /\ \A m \in E[g.kid[q][-1]] : g.key[m] <= g.key[q]
             /\ \A m \in E[g.kid[q][1]] : g.key[q] <= g.key[m]
  <2>1. CASE q = n
    BY <1>1, <2>1, Sides DEF Spread
  <2>2. CASE q # n
    <3>1. q \in In(h) /\ g.key[q] = h.key[q]
      BY <1>2, <1>3, <2>2
    <3>2. \A s \in Side : E[g.kid[q][s]] = IF e \in D[q] /\ s = sd[q] THEN D[h.kid[q][s]] \cup {n}
                                                                    ELSE D[h.kid[q][s]]
      BY <1>1, <3>1 DEF Spread
    <3>3. \A m \in D[h.kid[q][-1]] : g.key[m] <= g.key[q]
      BY <1>3, <1>5, <3>1, Sides DEF Sorted
    <3>4. \A m \in D[h.kid[q][1]] : g.key[q] <= g.key[m]
      BY <1>3, <1>5, <3>1, Sides DEF Sorted
    <3>5. -1 = sd[q] => g.key[n] <= g.key[q]
      BY <1>3, <3>1
    <3>6. 1 = sd[q] => g.key[q] <= g.key[n]
      BY <1>3, <3>1
    <3>7. \A s \in Side : \A m \in E[g.kid[q][s]] : m \in D[h.kid[q][s]] \/ (m = n /\ s = sd[q])
      BY <3>2
    <3>8. /\ \A m \in E[g.kid[q][-1]] : m \in D[h.kid[q][-1]] \/ (m = n /\ -1 = sd[q])
          /\ \A m \in E[g.kid[q][1]] : m \in D[h.kid[q][1]] \/ (m = n /\ 1 = sd[q])
      BY <3>7, Sides
    <3> QED
      BY <3>3, <3>4, <3>5, <3>6, <3>7, <3>8
  <2> QED
    BY <2>1, <2>2
<1> QED
  BY <1>4, <1>6 DEF Sorted

(* The nodes that have the new node to their left count it in their rank.  *)
CountedIn(f, h, D, e, sd) ==
    \A q \in In(h) : h.rank[q] = IF e \in D[q] /\ sd[q] = -1 THEN (f.rank[q] + 1) % RankRange
                                                             ELSE f.rank[q]

LEMMA GrownRanked ==
    ASSUME NEW f, NEW h, NEW D, NEW g, NEW n, NEW k, NEW e, NEW d, NEW sd,
           Vacant(h, n, e, d), Grown(h, g, n, k, e, d), Leads(h, D, e, sd), d = sd[e],
           NEW E, E = More(D, n, e), Ranked(f, D), f.used = h.used, f.kid = h.kid, MaxLength < RankRange,
           CountedIn(f, h, D, e, sd)
    PROVE  Ranked(g, E)
<1>1. Spread(h, D, g, E, n, e, sd)
  BY GrownKids
<1>2. In(g) = In(h) \cup {n} /\ n \notin In(h) /\ Wired(g) /\ In(f) = In(h)
  BY GrownWired DEF In
<1>3. Below(g, E)
  BY GrownBelow
<1>4. /\ n \in Node /\ g.rank[n] = 1 /\ n \in Ptr
      /\ \A q \in In(h) : q \in Node /\ g.rank[q] = h.rank[q]
  BY <1>2 DEF Vacant, Wired, Heaps, In, Grown, Ptr
<1>5. ASSUME NEW q \in In(g) PROVE g.rank[q] = Cardinality(E[g.kid[q][-1]]) + 1
  <2>1. CASE q = n
    <3>1. \A s \in Side : E[g.kid[n][s]] = {}
      BY <1>1 DEF Spread
    <3>2. E[g.kid[n][-1]] = {}
      BY <3>1, Sides
    <3> QED
      BY <1>4, <2>1, <3>2, FS_EmptySet
  <2>2. CASE q # n
    <3>1. q \in In(h) /\ g.rank[q] = h.rank[q] /\ f.rank[q] = Cardinality(D[h.kid[q][-1]]) + 1
      BY <1>2, <1>4, <2>2 DEF Ranked
    <3>2. h.kid[q][-1] \in Ptr /\ Wired(h) /\ Below(h, D)
      BY <1>4, <3>1, Sides DEF Vacant, Wired, Heaps, Leads
    <3>3. IsFiniteSet(D[h.kid[q][-1]]) /\ Cardinality(D[h.kid[q][-1]]) \in Nat /\ n \notin D[h.kid[q][-1]]
      BY <1>1, <3>1, <3>2, SubtreeSizes, Sides DEF Spread
    <3>4. E[g.kid[q][-1]] = IF e \in D[q] /\ -1 = sd[q] THEN D[h.kid[q][-1]] \cup {n}
                                                        ELSE D[h.kid[q][-1]]
      <4>1. \A s \in Side : E[g.kid[q][s]] = IF e \in D[q] /\ s = sd[q] THEN D[h.kid[q][s]] \cup {n}
                                                                      ELSE D[h.kid[q][s]]
        BY <1>1, <3>1 DEF Spread
      <4> QED
        BY <4>1, Sides
    <3>5. CASE e \in D[q] /\ -1 = sd[q]
      <4>1. E[g.kid[q][-1]] = D[h.kid[q][-1]] \cup {n}
        BY <3>4, <3>5
      <4>2. Cardinality(D[h.kid[q][-1]] \cup {n}) = Cardinality(D[h.kid[q][-1]]) + 1
        BY <3>3, FS_AddElement
      <4>3. q \in Ptr
        BY <1>4, <3>1 DEF Ptr
      <4>4. Cardinality(E[g.kid[q][-1]]) < Cardinality(E[q]) /\ Cardinality(E[q]) \in 0..MaxLength
        BY <1>2, <1>3, <4>3, SubtreeSizes, Sides
      <4>5. h.rank[q] = (Cardinality(D[h.kid[q][-1]]) + 2) % RankRange
        BY <3>1, <3>3, <3>5 DEF CountedIn
      <4>6. Cardinality(D[h.kid[q][-1]]) + 2 \in 0..(RankRange - 1)
        BY SMTT(30), <3>3, <4>1, <4>2, <4>4, Constants
      <4>7. (Cardinality(D[h.kid[q][-1]]) + 2) % RankRange = Cardinality(D[h.kid[q][-1]]) + 2
        BY <4>6, Constants
      <4> QED
        BY SMTT(30), <3>1, <3>3, <4>1, <4>2, <4>5, <4>7
    <3>6. CASE ~(e \in D[q] /\ -1 = sd[q])
      BY <3>1, <3>4, <3>6 DEF CountedIn
    <3> QED
      BY <3>5, <3>6
  <2> QED
    BY <2>1, <2>2
<1> QED
  BY <1>5 DEF Ranked

(* The nodes below s with the new node below them, and the heights.        *)
Beneath(h, D, e, s) == {q \in In(h) : e \in D[q] /\ q \in D[s] /\ q # s}

Taller(H, n, B) == [m \in Ptr |-> IF m = n THEN 1 ELSE IF m \in B THEN H[m] + 1 ELSE H[m]]

Heightened(h, g, H, G, n, s, B, sd) ==
    /\ G \in [Ptr -> Nat] /\ G[Nil] = 0 /\ G[n] = 1
    /\ \A q \in In(h) : G[q] = IF q \in B THEN H[q] + 1 ELSE H[q]
    /\ \A q \in In(h) : \A r \in Side :
          G[g.kid[q][r]] = H[h.kid[q][r]] + (IF (q = s \/ q \in B) /\ r = sd[q] THEN 1 ELSE 0)

LEMMA GrownHeights ==
    ASSUME NEW h, NEW D, NEW g, NEW n, NEW k, NEW e, NEW d, NEW sd,
           Vacant(h, n, e, d), Grown(h, g, n, k, e, d), Leads(h, D, e, sd), d = sd[e],
           NEW s \in In(h), e \in D[s], NEW B, B = Beneath(h, D, e, s),
           NEW H, H \in [Ptr -> Nat], H[Nil] = 0, NEW G, G = Taller(H, n, B)
    PROVE  Heightened(h, g, H, G, n, s, B, sd)
<1>1. /\ Wired(h) /\ Below(h, D) /\ n \in Node /\ n \notin h.used /\ e \in In(h) /\ d \in Side /\ n # Nil
      /\ h.kid[e][d] = Nil
  BY Constants DEF Vacant, Leads
<1>2. n \notin In(h) /\ Nil \notin In(h) /\ B \subseteq In(h) /\ n \in Ptr /\ Nil \in Ptr /\ n # Nil
  BY <1>1, Constants DEF In, Beneath, Ptr, Wired, Heaps
<1>3. \A q \in In(h) : q \in Node /\ q \in Ptr /\ q # n /\ q \in h.used
  BY <1>1, <1>2 DEF Wired, Heaps, In, Ptr
<1>4. /\ G \in [Ptr -> Nat] /\ G[Nil] = 0 /\ G[n] = 1
      /\ \A q \in Ptr : q # n => G[q] = IF q \in B THEN H[q] + 1 ELSE H[q]
  BY <1>2 DEF Taller
<1>5. ASSUME NEW q \in In(h), NEW r \in Side
      PROVE  G[g.kid[q][r]] = H[h.kid[q][r]] + (IF (q = s \/ q \in B) /\ r = sd[q] THEN 1 ELSE 0)
  <2>1. PICK c : c = h.kid[q][r]
    OBVIOUS
  <2>2. c \in Ptr /\ (c # Nil => c \in In(h) /\ h.up[c] = q /\ D[c] \subseteq D[q] /\ q \notin D[c] /\ c \in D[q])
    <3>1. c \in Ptr
      BY <1>1, <1>3, <2>1 DEF Wired, Heaps
    <3> QED
      BY <1>1, <2>1, <3>1, KidIs
  <2>3. c # n /\ H[c] \in Nat /\ G[c] = IF c \in B THEN H[c] + 1 ELSE H[c]
    BY <1>2, <1>4, <2>2
  <2>4. e \in D[e]
    BY <1>1, NodeIs
  <2>5. CASE q = e /\ r = d
    <3>1. g.kid[q][r] = n
      BY <1>3, <2>5 DEF Grown
    <3>2. q = s \/ q \in B
      BY <1>1, <2>4, <2>5 DEF Beneath
    <3> QED
      BY <1>1, <1>4, <2>5, <3>1, <3>2
  <2>6. CASE ~(q = e /\ r = d)
    <3>1. g.kid[q][r] = c
      BY <1>3, <2>1, <2>6 DEF Grown
    <3>2. c \in B <=> (q = s \/ q \in B) /\ r = sd[q]
      <4>1. ASSUME c \in B PROVE (q = s \/ q \in B) /\ r = sd[q]
        <5>1. c \in In(h) /\ e \in D[c] /\ c \in D[s] /\ c # s /\ c # Nil
          BY <1>2, <4>1 DEF Beneath
        <5>2. q \in D[s] /\ e \in D[q] /\ q # e
          BY <1>1, <2>2, <5>1 DEF Below
        <5>3. q = s \/ q \in B
          BY <5>2 DEF Beneath
        <5>4. e \in D[h.kid[q][sd[q]]] /\ sd[q] \in Side
          BY <5>2 DEF Leads
        <5>5. D[h.kid[q][-1]] \cap D[h.kid[q][1]] = {}
          BY <1>1 DEF Below
        <5>6. r = sd[q]
          BY <2>1, <5>1, <5>4, <5>5, Sides
        <5> QED
          BY <5>3, <5>6
      <4>2. ASSUME q = s \/ q \in B, r = sd[q] PROVE c \in B
        <5>1. q # e /\ e \in D[q] /\ q \in D[s]
          <6>1. s \in D[s]
            BY <1>1, NodeIs
          <6> QED
            BY <2>6, <4>2, <6>1 DEF Beneath
        <5>2. e \in D[c]
          BY <2>1, <4>2, <5>1 DEF Leads
        <5>3. c # Nil
          BY <1>1, <5>2 DEF Below
        <5>4. c \in D[s]
          BY <1>1, <2>2, <5>1, <5>3 DEF Below
        <5>5. c # s
          BY <1>1, <2>2, <5>1, <5>3, NodeIs
        <5> QED
          BY <2>2, <5>2, <5>3, <5>4, <5>5 DEF Beneath
      <4> QED
        BY <4>1, <4>2
    <3> QED
      BY <2>1, <2>3, <3>1, <3>2
  <2> QED
    BY <2>5, <2>6
<1> QED
  BY <1>3, <1>4, <1>5 DEF Heightened

(* The nodes below s lean to the new node; only s has not taken notice.    *)
LEMMA GrownLeveled ==
    ASSUME NEW h, NEW D, NEW g, NEW n, NEW k, NEW e, NEW d, NEW sd,
           Vacant(h, n, e, d), Grown(h, g, n, k, e, d), Leads(h, D, e, sd), d = sd[e],
           NEW s \in In(h), e \in D[s], NEW B, B = Beneath(h, D, e, s), \A q \in B : h.bal[q] = 0,
           NEW H, Leveled(h, H, Root, 1, 0), NEW f, Weighed(g, f, B, sd), NEW a, a = sd[s]
    PROVE  \E G : Leveled(f, G, s, a, -1)
<1>1. PICK w, G : w = -1 /\ G = Taller(H, n, B)
  OBVIOUS
<1>9. /\ f.used = g.used /\ f.kid = g.kid
      /\ \A q \in Node : f.bal[q] = IF q \in B THEN sd[q] ELSE g.bal[q]
  BY DEF Weighed
<1>2. H \in [Ptr -> Nat] /\ H[Nil] = 0
  BY DEF Leveled
<1>3. /\ G \in [Ptr -> Nat] /\ G[Nil] = 0 /\ G[n] = 1
      /\ \A q \in In(h) : G[q] = IF q \in B THEN H[q] + 1 ELSE H[q]
      /\ \A q \in In(h) : \A r \in Side :
            G[g.kid[q][r]] = H[h.kid[q][r]] + (IF (q = s \/ q \in B) /\ r = sd[q] THEN 1 ELSE 0)
  <2>1. Heightened(h, g, H, G, n, s, B, sd)
    BY <1>1, <1>2, GrownHeights
  <2> QED
    BY <2>1 DEF Heightened
<1>4. In(f) = In(h) \cup {n} /\ n \notin In(h)
  <2>1. In(g) = In(h) \cup {n} /\ n \notin In(h)
    BY GrownWired
  <2> QED
    BY <1>9, <2>1 DEF In
<1>5. /\ n \in Node /\ n \notin B /\ s \notin B /\ n # s /\ B \subseteq In(h)
      /\ \A r \in Side : g.kid[n][r] = Nil
      /\ g.bal[n] = 0 /\ Wired(h) /\ Below(h, D)
  BY <1>4 DEF Vacant, Beneath, Grown, Leads
<1>6. \A q \in In(h) : q \in Node /\ q # n /\ g.bal[q] = h.bal[q] /\ sd[q] \in Side
  BY <1>4, <1>5 DEF Wired, Heaps, In, Grown, Leads
<1>7. ASSUME NEW q \in In(f), NEW s1 \in Side, NEW o1 \in Side, s1 # o1
      PROVE  Poised(f.bal[q], G[q], s1, o1, Seen(f, G, q, s1, s, sd[s], w), Seen(f, G, q, o1, s, sd[s], w))
  <2>1. CASE q = n
    <3>1. \A r \in Side : Seen(f, G, q, r, s, sd[s], w) = 0
      BY <1>3, <1>5, <1>9, <2>1 DEF Seen
    <3>2. f.bal[q] = 0 /\ G[q] = 1
      BY <1>3, <1>5, <1>9, <2>1
    <3>3. s1 # 0 /\ o1 # 0
      BY DEF Side
    <3> QED
      BY <3>1, <3>2, <3>3 DEF Poised
  <2>2. CASE q # n
    <3>1. q \in In(h) /\ q # Root
      BY <1>4, <2>2 DEF In
    <3>2. PICK u : u = [r \in Side |-> H[h.kid[q][r]]]
      OBVIOUS
    <3>3. Poised(h.bal[q], H[q], s1, o1, u[s1], u[o1]) /\ H[q] \in Nat /\ u[s1] \in Nat /\ u[o1] \in Nat
      BY <1>5, <1>7, <3>1, <3>2, LeveledAt
    <3>4. \A r \in Side : u[r] \in Nat
      BY <1>7, <3>3, Sides
    <3>5. CASE q \in B
      <4>1. /\ f.bal[q] = sd[q] /\ G[q] = H[q] + 1 /\ q # s /\ h.bal[q] = 0
        BY <1>3, <1>5, <1>6, <1>9, <3>1, <3>5
      <4>2. u[s1] = u[o1] /\ H[q] = u[s1] + 1
        BY <3>3, <4>1 DEF Poised
      <4>3. \A r \in Side : Seen(f, G, q, r, s, sd[s], w) = u[r] + (IF r = sd[q] THEN 1 ELSE 0)
        <5>1. ASSUME NEW r \in Side PROVE Seen(f, G, q, r, s, sd[s], w) = u[r] + (IF r = sd[q] THEN 1 ELSE 0)
          <6>1. Seen(f, G, q, r, s, sd[s], w) = G[g.kid[q][r]] + 0
            BY <1>9, <4>1 DEF Seen
          <6>2. G[g.kid[q][r]] = u[r] + (IF r = sd[q] THEN 1 ELSE 0)
            BY <1>3, <3>1, <3>2, <3>5
          <6> QED
            BY <3>4, <6>1, <6>2
        <5> QED
          BY <5>1
      <4>4. (sd[q] = s1 \/ sd[q] = o1) /\ sd[q] # 0
        BY <1>6, <1>7, <3>1 DEF Side
      <4> QED
        BY <1>7, <3>3, <4>1, <4>2, <4>3, <4>4 DEF Poised
    <3>6. CASE q \notin B
      <4>1. f.bal[q] = h.bal[q] /\ G[q] = H[q]
        BY <1>3, <1>6, <1>9, <3>1, <3>6
      <4>2. ASSUME NEW r \in Side PROVE Seen(f, G, q, r, s, sd[s], w) = u[r]
        <5>1. G[g.kid[q][r]] = u[r] + (IF q = s /\ r = sd[q] THEN 1 ELSE 0)
          BY <1>3, <3>1, <3>2, <3>6
        <5>2. Seen(f, G, q, r, s, sd[s], w) = G[g.kid[q][r]] + (IF q = s /\ r = sd[s] THEN -1 ELSE 0)
          BY <1>1, <1>9 DEF Seen
        <5> QED
          BY <3>4, <5>1, <5>2
      <4> QED
        BY <3>3, <4>1, <4>2
    <3> QED
      BY <3>5, <3>6
  <2> QED
    BY <2>1, <2>2
<1>8. Leveled(f, G, s, sd[s], w)
  BY <1>3, <1>7 DEF Leveled
<1> QED
  BY <1>1, <1>8

(* s is the last node of the path with a balance factor other than 0, or   *)
(* the top, and C are the nodes of the path below it.                      *)
Pivotal(h, D, e, b, s, C) ==
    /\ s \in In(h) /\ e \in D[s] /\ (b[s] # 0 \/ s = Top(h))
    /\ C = Beneath(h, D, e, s)
    /\ \A q \in C : b[q] = 0

(* How AdjustBalance finds them.                                           *)
LastLeaning(path, b, i, s, C) ==
    /\ i = Max({1} \cup {j \in 1..Len(path) : b[path[j]] # 0}) /\ s = path[i]
    /\ C = {path[j] : j \in (i + 1)..Len(path)}

LEMMA BalancePoint ==
    ASSUME NEW h, NEW D, Wired(h), Below(h, D), NEW next, Downward(h, next), Top(h) # Nil,
           NEW path, path = Follow(Top(h), next), NEW e, e = Last(path), NEW b,
           NEW i, NEW s, NEW C, LastLeaning(path, b, i, s, C)
    PROVE  Pivotal(h, D, e, b, s, C)
<1>1. PICK l, J : l = Len(path) /\ J = {1} \cup {j \in 1..Len(path) : b[path[j]] # 0}
  OBVIOUS
<1>14. s = path[i]
  BY DEF LastLeaning
<1>2. /\ Path(h, path, Top(h), next) /\ e \in In(h)
      /\ \A q \in In(h) : q \in ToSet(path) <=> e \in D[q]
  BY OnPath
<1>3. l \in Nat \ {0} /\ path[1] = Top(h) /\ \A j \in 1..l : path[j] \in In(h)
  BY <1>1, <1>2 DEF Path
<1>4. J \in SUBSET (0..l) /\ J # {} /\ i = Max(J)
  BY <1>1, <1>3 DEF LastLeaning
<1>5. i \in J /\ \A j \in J : i >= j
  BY <1>3, <1>4, Greatest
<1>6. i \in 1..l /\ (b[s] # 0 \/ s = Top(h)) /\ \A j \in (i + 1)..l : b[path[j]] = 0
  <2>1. i \in 1..l
    BY <1>1, <1>3, <1>5
  <2>2. b[s] # 0 \/ s = Top(h)
    BY <1>1, <1>3, <1>5, <1>14
  <2>3. ASSUME NEW j \in (i + 1)..l, b[path[j]] # 0 PROVE FALSE
    <3>1. j \in 1..l /\ ~(i >= j)
      BY <1>3, <2>1
    <3>2. j \in J
      BY <1>1, <2>3, <3>1
    <3> QED
      BY <1>5, <3>1, <3>2
  <2> QED
    BY <2>1, <2>2, <2>3
<1>7. ToSet(path) = {path[j] : j \in 1..l}
  BY <1>1, <1>2 DEF ToSet, Path
<1>8. s \in In(h) /\ e \in D[s]
  BY <1>2, <1>3, <1>6, <1>7, <1>14
<1>9. \A j \in 1..l : \A m \in 1..j : path[j] \in D[path[m]]
  BY <1>1, <1>2, PathOrder
<1>10. ASSUME NEW j \in (i + 1)..l PROVE path[j] \in Beneath(h, D, e, s)
  <2>1. j \in 1..l /\ i \in 1..j /\ i \in 1..(l - 1) /\ i + 1 \in 1..j /\ i + 1 \in 1..l
    BY <1>3, <1>6
  <2>2. path[j] \in In(h) /\ e \in D[path[j]] /\ path[j] \in D[s]
    BY <1>2, <1>3, <1>7, <1>9, <1>14, <2>1
  <2>3. path[j] # s
    <3>1. path[j] \in D[path[i + 1]]
      BY <1>9, <2>1
    <3>2. path[i + 1] = next[s] /\ next[s] # Nil
      BY <1>1, <1>2, <1>14, <2>1 DEF Path
    <3>3. PICK r \in Side : next[s] = h.kid[s][r]
      BY <1>8, <3>2 DEF Downward
    <3>4. s \notin D[next[s]]
      <4>1. PICK c : c = next[s]
        OBVIOUS
      <4>2. c = h.kid[s][r] /\ c # Nil
        BY <3>2, <3>3, <4>1
      <4>3. s \notin D[c]
        BY <1>8, <4>2, KidIs
      <4> QED
        BY <4>1, <4>3
    <3> QED
      BY <3>1, <3>2, <3>4
  <2> QED
    BY <2>2, <2>3 DEF Beneath
<1>11. ASSUME NEW q \in Beneath(h, D, e, s) PROVE \E j \in (i + 1)..l : q = path[j]
  <2>1. q \in In(h) /\ e \in D[q] /\ q \in D[s] /\ q # s
    BY DEF Beneath
  <2>2. PICK j \in 1..l : q = path[j]
    BY <1>2, <1>7, <2>1
  <2>3. ~(j <= i)
    <3>1. SUFFICES ASSUME j <= i PROVE FALSE
      OBVIOUS
    <3>2. j \in 1..i
      BY <1>6, <3>1
    <3>3. s \in D[q]
      BY <1>6, <1>9, <1>14, <2>2, <3>2
    <3> QED
      BY <1>8, <2>1, <3>3, BelowOnce
  <2>4. j \in (i + 1)..l
    BY <1>3, <1>6, <2>2, <2>3
  <2> QED
    BY <2>2, <2>4
<1>12. {path[j] : j \in (i + 1)..Len(path)} = Beneath(h, D, e, s)
  <2>1. PICK P, B : P = {path[j] : j \in (i + 1)..l} /\ B = Beneath(h, D, e, s)
    OBVIOUS
  <2>2. \A q \in P : q \in B
    BY <1>10, <2>1
  <2>3. \A q \in B : q \in P
    BY <1>11, <2>1
  <2> QED
    BY <1>1, <2>1, <2>2, <2>3
<1>13. \A q \in Beneath(h, D, e, s) : b[q] = 0
  <2>1. ASSUME NEW q \in Beneath(h, D, e, s) PROVE b[q] = 0
    <3>1. PICK j \in (i + 1)..l : q = path[j]
      BY <1>11
    <3> QED
      BY <1>6, <3>1
  <2> QED
    BY <2>1
<1> QED
  BY <1>6, <1>8, <1>12, <1>13 DEF Pivotal, LastLeaning

LEMMA SetBalIs ==
    ASSUME NEW g \in Heaps, NEW B, NEW f, \A q \in B : f[q] \in -1..1,
           NEW k, k = SetBal(g, [q \in B |-> f[q]])
    PROVE  Weighed(g, k, B, f)
<1>1. /\ k.used = g.used /\ k.kid = g.kid /\ k.up = g.up /\ k.key = g.key /\ k.rank = g.rank
      /\ k.bal = [n \in Node |-> IF n \in B THEN f[n] ELSE g.bal[n]]
      /\ k = [used |-> k.used, kid |-> k.kid, up |-> k.up, key |-> k.key, bal |-> k.bal, rank |-> k.rank]
  BY DEF SetBal, Heaps
<1>2. k.bal \in [Node -> -1..1]
  BY ZenonT(60), <1>1 DEF Heaps
<1>3. k \in Heaps
  BY <1>1, <1>2 DEF Heaps
<1> QED
  BY <1>1, <1>3 DEF Weighed

(* g is a balanced tree of the nodes and keys of h.                        *)
Rebalanced(h, D, g) == \E E, G : Keeps(h, D, g, E) /\ Leveled(g, G, Root, 1, 0)

LEMMA MendsAll ==
    ASSUME NEW h, NEW D, NEW x, NEW g, NEW y, NEW e, Mends(h, D, x, g, y, e), e = 0 \/ h.up[x] = Root
    PROVE  Rebalanced(h, D, g)
<1>1. PICK E, G : Keeps(h, D, g, E) /\ Leveled(g, G, h.up[x], SideOf(h, x), e)
  BY DEF Mends
<1>2. Leveled(g, G, Root, 1, 0)
  BY <1>1, LeveledTop
<1> QED
  BY <1>1, <1>2 DEF Rebalanced

(* s has a subtree on side a that is one higher than it takes it to be:    *)
(* the four cases of avl_insert.                                           *)
Absorbs(f, s, a, r, g) ==
    \/ f.bal[s] = 0 /\ g = [f EXCEPT !.bal[s] = a]
    \/ f.bal[s] = -a /\ g = [f EXCEPT !.bal[s] = 0]
    \/ f.bal[s] = a /\ f.bal[r] = a /\ g = [Rotate(f, s, a) EXCEPT !.bal[s] = 0, !.bal[r] = 0]
    \/ f.bal[s] = a /\ f.bal[r] = -a /\ g = DoubleRotate(f, s, a)

LEMMA GrowthAbsorbed ==
    ASSUME NEW f, NEW D, Wired(f), Below(f, D), NEW s \in In(f), NEW a \in Side,
           NEW G, Leveled(f, G, s, a, -1), f.bal[s] = 0 => f.up[s] = Root, NEW r, r = f.kid[s][a], NEW g,
           Absorbs(f, s, a, r, g)
    PROVE  Rebalanced(f, D, g)
<1>1. PICK b, z, w : b = -a /\ z = f.kid[s][b] /\ w = -1
  OBVIOUS
<1>2. b \in Side /\ a # b /\ a # 0 /\ b # 0 /\ a \in -1..1 /\ b \in -1..1
  BY <1>1, Sides DEF Side
<1>3. s \in Node /\ r \in Ptr /\ z \in Ptr /\ s \in Ptr
  BY <1>1, <1>2 DEF In, Wired, Heaps, Ptr
<1>4. G[s] \in Nat /\ G[r] \in Nat /\ G[z] \in Nat /\ G[Nil] = 0
  BY <1>3 DEF Leveled
<1>5. Poised(f.bal[s], G[s], a, b, G[r] - 1, G[z])
  <2>1. Poised(f.bal[s], G[s], a, b, Seen(f, G, s, a, s, a, -1), Seen(f, G, s, b, s, a, -1))
    BY <1>2 DEF Leveled
  <2>2. Seen(f, G, s, a, s, a, w) = G[r] + w /\ Seen(f, G, s, b, s, a, w) = G[z] + 0
    BY <1>1, <1>2 DEF Seen
  <2>3. Seen(f, G, s, a, s, a, w) = G[r] - 1 /\ Seen(f, G, s, b, s, a, w) = G[z]
    BY <1>1, <1>4, <2>2
  <2> QED
    BY <1>1, <2>1, <2>3
<1>6. Leveled(f, G, s, a, w)
  BY <1>1
<1>7. CASE f.bal[s] = 0 /\ g = [f EXCEPT !.bal[s] = a]
  <2>1. PICK v, e : v \in Nat /\ v = G[z] + 2 /\ e = G[s] - v
    BY <1>4
  <2>2. Poised(a, v, a, b, G[f.kid[s][a]], G[f.kid[s][b]])
    BY SMTT(30), <1>1, <1>2, <1>4, <1>5, <1>7, <2>1 DEF Poised
  <2>3. v \in Nat
    BY <2>1
  <2>4. Mends(f, D, s, g, s, G[s] - v)
    BY <1>2, <1>6, <1>7, <2>2, <2>3, BalMends
  <2> QED
    BY <1>7, <2>4, MendsAll
<1>8. CASE f.bal[s] = b /\ g = [f EXCEPT !.bal[s] = 0]
  <2>1. Poised(0, G[s], a, b, G[f.kid[s][a]], G[f.kid[s][b]])
    BY <1>1, <1>2, <1>4, <1>5, <1>8 DEF Poised
  <2>2. PICK i \in -1..1 : i = 0
    OBVIOUS
  <2>3. Poised(i, G[s], a, b, G[f.kid[s][a]], G[f.kid[s][b]]) /\ g = [f EXCEPT !.bal[s] = i]
    BY <1>8, <2>1, <2>2
  <2>4. Mends(f, D, s, g, s, G[s] - G[s])
    BY <1>2, <1>4, <1>6, <2>3, BalMends
  <2>5. G[s] - G[s] = 0
    BY <1>4
  <2> QED
    BY <2>4, <2>5, MendsAll
<1>9. ASSUME f.bal[s] = a
      PROVE  /\ G[r] = G[z] + 2 /\ G[s] - (G[z] + 2) = 0 /\ r # Nil
  BY <1>2, <1>4, <1>5, <1>9 DEF Poised
<1>10. ASSUME f.bal[s] = a PROVE Pivot(f, D, s, r, f.up[s], f.kid[r][b], a, b, SideOf(f, s))
  BY <1>1, <1>9, <1>10, PivotIs
<1>11. CASE f.bal[s] = a /\ f.bal[r] = a /\ g = [Rotate(f, s, a) EXCEPT !.bal[s] = 0, !.bal[r] = 0]
  <2>1. Pivot(f, D, s, r, f.up[s], f.kid[r][b], a, b, SideOf(f, s))
    BY <1>10, <1>11
  <2>2. Rotate(f, s, a) \in Heaps /\ s \in Node /\ r \in Node /\ s # r /\ 0 \in -1..1
    BY <2>1, RotateHeap
  <2>3. Weighed2(Rotate(f, s, a), g, s, 0, r, 0)
    BY Zenon, <1>11, <2>2, TwoBals
  <2>4. PICK v \in Nat : v = G[z]
    BY <1>4
  <2>5. Mends(f, D, s, g, r, G[s] - (v + 2))
    BY SMTT(30), <1>1, <1>6, <1>9, <1>11, <2>1, <2>3, <2>4, OuterTurn
  <2>6. G[s] - (v + 2) = 0
    BY <1>9, <1>11, <2>4
  <2> QED
    BY <2>5, <2>6, MendsAll
<1>12. CASE f.bal[s] = a /\ f.bal[r] = b /\ g = DoubleRotate(f, s, a)
  <2>1. Pivot(f, D, s, r, f.up[s], f.kid[r][b], a, b, SideOf(f, s))
    BY <1>10, <1>12
  <2>2. PICK v \in Nat : v = G[z]
    BY <1>4
  <2>3. Mends(f, D, s, g, f.kid[r][b], G[s] - (v + 2))
    BY <1>1, <1>6, <1>9, <1>12, <2>1, <2>2, InnerTurn
  <2>4. G[s] - (v + 2) = 0
    BY <1>9, <1>12, <2>2
  <2> QED
    BY <2>3, <2>4, MendsAll
<1> QED
  BY <1>1, <1>7, <1>8, <1>11, <1>12 DEF Absorbs

(* The path of an insertion.                                               *)
Steers(h, k, sd, next) ==
    /\ sd = [q \in Node |-> InsertSide(h, q, k)]
    /\ next = [q \in Node |-> h.kid[q][InsertSide(h, q, k)]]

LeadsTo(h, D, path, e, sd) ==
    /\ Leads(h, D, e, sd) /\ e \in In(h) /\ h.kid[e][sd[e]] = Nil
    /\ \A q \in In(h) : q \in ToSet(path) <=> e \in D[q]

LEMMA InsertPathIs ==
    ASSUME NEW h, NEW D, Wired(h), Below(h, D), NEW k, Top(h) # Nil,
           NEW sd, NEW next, Steers(h, k, sd, next),
           NEW path, path = Follow(Top(h), next), NEW e, e = Last(path)
    PROVE  Downward(h, next) /\ LeadsTo(h, D, path, e, sd)
<1>1. \A q \in In(h) : q \in Node /\ q # Root
  BY DEF In, Wired, Heaps
<1>2. \A q \in Node : sd[q] = InsertSide(h, q, k) /\ sd[q] \in Side /\ next[q] = h.kid[q][sd[q]]
  BY Sides DEF InsertSide, Steers
<1>3. Downward(h, next)
  BY <1>1, <1>2 DEF Downward
<1>4. /\ e \in In(h) /\ next[e] = Nil
      /\ \A q \in In(h) : q \in ToSet(path) <=> e \in D[q]
      /\ ToSet(path) \subseteq In(h)
      /\ \A q \in In(h) : q # e /\ e \in D[q] => next[q] \in In(h) /\ e \in D[next[q]]
  BY <1>3, OnPath
<1>5. Leads(h, D, e, sd)
  BY <1>1, <1>2, <1>4 DEF Leads
<1> QED
  BY <1>1, <1>2, <1>3, <1>4, <1>5 DEF LeadsTo

LEMMA AdjustIs ==
    ASSUME NEW h, NEW D, NEW H, Wired(h), Below(h, D), Leveled(h, H, Root, 1, 0), NEW k, Top(h) # Nil,
           NEW sd, NEW next, Steers(h, k, sd, next),
           NEW path, path = Follow(Top(h), next), NEW e, e = Last(path), NEW d, d = sd[e],
           NEW n, NEW g, Vacant(h, n, e, d), Grown(h, g, n, k, e, d)
    PROVE  Rebalanced(g, More(D, n, e), AdjustBalance(g, path, k))
<1>1. PICK i, s, B, E :
          /\ i = Max({1} \cup {j \in 1..Len(path) : g.bal[path[j]] # 0}) /\ s = path[i]
          /\ B = {path[j] : j \in (i + 1)..Len(path)} /\ E = More(D, n, e)
  OBVIOUS
<1>2. PICK a, r, f, f1 :
          /\ a = InsertSide(g, s, k) /\ r = g.kid[s][a]
          /\ f = [q \in B |-> InsertSide(g, q, k)] /\ f1 = SetBal(g, f)
  OBVIOUS
<1>3. Downward(h, next) /\ Leads(h, D, e, sd) /\ e \in In(h) /\ h.kid[e][sd[e]] = Nil
  <2>1. Downward(h, next) /\ LeadsTo(h, D, path, e, sd)
    BY InsertPathIs
  <2> QED
    BY <2>1 DEF LeadsTo
<1>4. /\ s \in In(h) /\ e \in D[s] /\ (g.bal[s] # 0 \/ s = Top(h))
      /\ B = Beneath(h, D, e, s) /\ \A q \in B : g.bal[q] = 0
  <2>1. PICK b : b = g.bal
    OBVIOUS
  <2>3. LastLeaning(path, b, i, s, B)
    BY <1>1, <2>1 DEF LastLeaning
  <2>2. Pivotal(h, D, e, b, s, B)
    BY <1>3, <2>3, BalancePoint
  <2> QED
    BY <2>1, <2>2 DEF Pivotal
<1>5. Wired(g) /\ In(g) = In(h) \cup {n} /\ n \notin In(h)
  BY GrownWired
<1>6. Below(g, E)
  BY <1>1, <1>3, GrownBelow
<1>7. \A q \in In(h) : /\ q \in Node /\ g.bal[q] = h.bal[q] /\ g.up[q] = h.up[q]
                       /\ InsertSide(g, q, k) = sd[q] /\ sd[q] \in Side
  <2>1. \A q \in In(h) : q \in Node /\ q # n
    BY <1>5 DEF In, Wired, Heaps, Vacant
  <2>2. \A q \in In(h) : g.key[q] = h.key[q] /\ g.bal[q] = h.bal[q] /\ g.up[q] = h.up[q]
    BY <2>1 DEF Grown
  <2>3. \A q \in In(h) : InsertSide(g, q, k) = InsertSide(h, q, k)
    BY <2>2 DEF InsertSide
  <2> QED
    BY <1>3, <2>1, <2>2, <2>3 DEF Leads, Steers
<1>8. B \subseteq In(h) /\ s \notin B
  BY <1>4 DEF Beneath
<1>9. Weighed(g, f1, B, f)
  <2>1. \A q \in B : f[q] \in -1..1
    BY <1>2, <1>7, <1>8 DEF Side
  <2>2. f = [q \in B |-> f[q]] /\ g \in Heaps
    BY <1>2, <1>5 DEF Wired
  <2>3. f1 = SetBal(g, [q \in B |-> f[q]])
    BY <1>2, <2>2
  <2> QED
    BY <2>1, <2>2, <2>3, SetBalIs
<1>10. /\ f1 \in Heaps /\ f1.used = g.used /\ f1.kid = g.kid /\ f1.up = g.up /\ f1.key = g.key /\ f1.rank = g.rank
       /\ \A q \in Node : f1.bal[q] = IF q \in B THEN sd[q] ELSE g.bal[q]
  BY <1>2, <1>7, <1>8, <1>9 DEF Weighed
<1>11. Keeps(g, E, f1, E)
  <2>1. Keeps(g, E, g, E)
    BY <1>5, <1>6 DEF Keeps
  <2> QED
    BY <1>10, <2>1, KeepsBal
<1>12. Wired(f1) /\ Below(f1, E) /\ s \in In(f1) /\ a \in Side /\ a = sd[s]
  BY <1>2, <1>4, <1>5, <1>7, <1>10, <1>11 DEF Keeps, In
<1>13. \E G : Leveled(f1, G, s, a, -1)
  <2>1. \A q \in B : h.bal[q] = 0
    BY <1>4, <1>7, <1>8
  <2>2. Weighed(g, f1, B, sd)
    BY <1>10 DEF Weighed
  <2>3. s \in In(h) /\ e \in D[s] /\ B = Beneath(h, D, e, s) /\ Leads(h, D, e, sd) /\ a = sd[s]
    BY <1>3, <1>4, <1>12
  <2> QED
    BY <2>1, <2>2, <2>3, GrownLeveled
<1>14. f1.bal[s] = g.bal[s] /\ f1.up[s] = h.up[s] /\ r = f1.kid[s][a]
  BY <1>2, <1>4, <1>7, <1>8, <1>10
<1>15. f1.bal[s] = 0 => f1.up[s] = Root
  <2>1. h.up[Top(h)] = Root
    <3>1. Root \in h.used /\ 1 \in Side
      BY Sides DEF Wired
    <3> QED
      BY <3>1 DEF Wired, Top
  <2> QED
    BY <1>4, <1>14, <2>1
<1>16. PICK k1 : k1 = AdjustBalance(g, path, k)
  OBVIOUS
<1>17. k1 = CASE g.bal[s] = 0  -> [f1 EXCEPT !.bal[s] = a]
             [] g.bal[s] = -a -> [f1 EXCEPT !.bal[s] = 0]
             [] g.bal[s] = a /\ f1.bal[r] = a ->
                   [Rotate(f1, s, a) EXCEPT !.bal[s] = 0, !.bal[r] = 0]
             [] g.bal[s] = a /\ f1.bal[r] = -a -> DoubleRotate(f1, s, a)
  BY Zenon, <1>1, <1>2, <1>16 DEF AdjustBalance
<1>18. g.bal[s] = 0 \/ g.bal[s] = -a \/ g.bal[s] = a
  <2>1. g.bal[s] \in -1..1
    BY <1>4, <1>5, <1>7 DEF Wired, Heaps
  <2> QED
    BY <1>12, <2>1, Sides DEF Side
<1>19. g.bal[s] = a => f1.bal[r] = a \/ f1.bal[r] = -a
  <2>1. SUFFICES ASSUME g.bal[s] = a PROVE f1.bal[r] = a \/ f1.bal[r] = -a
    OBVIOUS
  <2>2. PICK c : c = h.kid[s][a]
    OBVIOUS
  <2>3. c # Nil
    <3>1. PICK b \in Side : b # a
      BY DEF Side
    <3>2. Poised(h.bal[s], H[s], a, b, H[h.kid[s][a]], H[h.kid[s][b]]) /\ H[h.kid[s][b]] \in Nat
      BY <1>4, <1>12, <3>1, LeveledAt
    <3>3. h.bal[s] = a
      BY <1>4, <1>7, <2>1
    <3>4. H[c] = H[h.kid[s][b]] + 1
      BY <2>2, <3>2, <3>3 DEF Poised
    <3> QED
      BY <3>2, <3>4 DEF Leveled
  <2>4. e # s
    BY <1>3, <1>12, <2>2, <2>3
  <2>5. e \in D[c]
    BY <1>3, <1>4, <1>12, <2>2, <2>4 DEF Leads
  <2>6. c \in B /\ c \in In(h)
    <3>1. c \in In(h) /\ c \in D[s] /\ c # s
      BY <1>4, <1>12, <2>2, <2>3, KidIs
    <3> QED
      BY <1>4, <2>5, <3>1 DEF Beneath
  <2>7. r = c
    <3>1. s \in Node /\ s # n /\ s # e
      BY <1>4, <1>5, <1>7, <2>4
    <3> QED
      BY <1>2, <1>12, <2>2, <3>1 DEF Grown
  <2>8. f1.bal[r] = sd[c] /\ sd[c] \in Side
    BY <1>7, <1>10, <2>6, <2>7
  <2> QED
    BY <1>12, <2>8, Sides
<1>20. Absorbs(f1, s, a, r, k1)
  <2>1. a # 0 /\ -a # 0 /\ a # -a
    BY <1>12, Sides DEF Side
  <2>2. CASE g.bal[s] = 0
    BY <1>14, <1>17, <2>1, <2>2 DEF Absorbs
  <2>3. CASE g.bal[s] = -a
    BY <1>14, <1>17, <2>1, <2>3 DEF Absorbs
  <2>4. CASE g.bal[s] = a /\ f1.bal[r] = a
    BY <1>14, <1>17, <2>1, <2>4 DEF Absorbs
  <2>5. CASE g.bal[s] = a /\ f1.bal[r] = -a
    BY <1>14, <1>17, <2>1, <2>5 DEF Absorbs
  <2> QED
    BY <1>18, <1>19, <2>2, <2>3, <2>4, <2>5
<1>21. Rebalanced(f1, E, k1)
  <2>1. PICK G : Leveled(f1, G, s, a, -1)
    BY <1>13
  <2>2. Wired(f1) /\ Below(f1, E) /\ s \in In(f1) /\ a \in Side /\ r = f1.kid[s][a]
    BY <1>12, <1>14
  <2> QED
    BY <1>15, <1>20, <2>1, <2>2, GrowthAbsorbed
<1>22. Rebalanced(g, E, k1)
  BY <1>11, <1>21, KeepsTwice DEF Rebalanced
<1> QED
  BY <1>1, <1>16, <1>22
-----------------------------------------------------------------------------
(* A balanced search tree, with its ranks if rk holds.                     *)
Certified(h, D, H, rk) ==
    /\ Wired(h) /\ Below(h, D) /\ Sorted(h, D) /\ Leveled(h, H, Root, 1, 0)
    /\ rk => Ranked(h, D)
    /\ h.key[Root] = NoKey

Tree(h, rk) == \E D, H : Certified(h, D, H, rk)

(* Ranks matter to nothing else.                                           *)
SameButRank(h, g) ==
    /\ g \in Heaps
    /\ g.used = h.used /\ g.key = h.key /\ g.bal = h.bal /\ g.kid = h.kid /\ g.up = h.up

LEMMA RankOnly ==
    ASSUME NEW h, NEW g, Wired(h), SameButRank(h, g)
    PROVE  /\ Wired(g) /\ In(g) = In(h) /\ Top(g) = Top(h)
           /\ \A D : Below(h, D) => Below(g, D)
           /\ \A D : Sorted(h, D) => Sorted(g, D)
           /\ \A H, p, d, e : Leveled(h, H, p, d, e) => Leveled(g, H, p, d, e)
<1>1. In(g) = In(h) /\ Top(g) = Top(h)
  BY DEF SameButRank, In, Top
<1>2. Wired(g)
  BY <1>1 DEF SameButRank, Wired
<1>3. ASSUME NEW D, Below(h, D) PROVE Below(g, D)
  BY <1>1, <1>3 DEF SameButRank, Below
<1>4. ASSUME NEW D, Sorted(h, D) PROVE Sorted(g, D)
  BY <1>1, <1>4 DEF SameButRank, Sorted
<1>5. ASSUME NEW H, NEW p, NEW d, NEW e, Leveled(h, H, p, d, e) PROVE Leveled(g, H, p, d, e)
  <2>1. ASSUME NEW n, NEW s PROVE Seen(h, H, n, s, p, d, e) = Seen(g, H, n, s, p, d, e)
    BY DEF SameButRank, Seen
  <2> QED
    BY <1>1, <1>5, <2>1 DEF SameButRank, Leveled
<1> QED
  BY <1>1, <1>2, <1>3, <1>4, <1>5

(* There is a free node.                                                   *)
LEMMA FreshNode ==
    ASSUME NEW h, Wired(h), Cardinality(In(h)) < MaxLength
    PROVE  Min(Node \ h.used) \in Node \ h.used
<1>1. Node \ h.used # {}
  <2>1. SUFFICES ASSUME Node \ h.used = {} PROVE FALSE
    OBVIOUS
  <2>2. In(h) = 1..MaxLength
    BY <2>1, Constants DEF In, Wired, Heaps, Node, Root
  <2>3. Cardinality(1..MaxLength) = IF 1 > MaxLength THEN 0 ELSE MaxLength - 1 + 1
    BY FS_Interval, Constants
  <2> QED
    BY <2>2, <2>3, Constants
<1> QED
  BY <1>1, Least, Constants

(* g is a tree with one node more, which has key k.                        *)
Adds(h, g, k, rk) ==
    \E n \in Node \ h.used :
        /\ Tree(g, rk)
        /\ g.used = h.used \cup {n} /\ g.key[n] = k
        /\ \A m \in h.used : g.key[m] = h.key[m]

LEMMA InsertedFirst ==
    ASSUME NEW h, NEW D, NEW H, NEW rk, Certified(h, D, H, rk), NEW k \in Key, Top(h) = Nil,
           NEW n \in Node \ h.used, NEW g, g = AvlNodeNew(h, n, k, Root, 1)
    PROVE  Adds(h, g, k, rk)
<1>1. /\ Wired(h) /\ In(h) = {} /\ h \in Heaps /\ Root \in h.used /\ n # Root /\ n # Nil /\ n \in Node
      /\ h.kid[Root][1] = Nil /\ Root \in Node /\ 1 \in Side /\ h.used \subseteq Node
  BY Constants, Sides DEF Certified, Below, Wired, Heaps, Top
<1>2. Grown(h, g, n, k, Root, 1)
  BY <1>1, NodeNewIs
<1>3. Vacant(h, n, Root, 1)
  BY <1>1 DEF Vacant
<1>4. Wired(g) /\ In(g) = {n}
  <2>1. Wired(g) /\ In(g) = In(h) \cup {n}
    BY <1>2, <1>3, GrownWired
  <2> QED
    BY <1>1, <2>1
<1>5. /\ g.used = h.used \cup {n} /\ g.key[n] = k /\ g.bal[n] = 0 /\ g.rank[n] = 1
      /\ g.kid[n][-1] = Nil /\ g.kid[n][1] = Nil
      /\ \A m \in h.used : g.key[m] = h.key[m]
  <2>1. \A s \in Side : g.kid[n][s] = Nil
    BY <1>1, <1>2 DEF Grown
  <2>2. \A m \in h.used : m \in Node /\ m # n
    BY <1>1
  <2> QED
    BY <1>1, <1>2, <2>1, <2>2, Sides DEF Grown
<1>6. Top(g) = n
  BY <1>1, <1>2 DEF Grown, Top
<1>7. PICK E, G : E = [m \in Ptr |-> IF m = n THEN {n} ELSE {}] /\ G = [m \in Ptr |-> IF m = n THEN 1 ELSE 0]
  OBVIOUS
<1>8. n \in Ptr /\ Nil \in Ptr /\ E[Nil] = {} /\ E[n] = {n} /\ G[Nil] = 0 /\ G[n] = 1
  BY <1>1, <1>7 DEF Ptr
<1>9. E \in [Ptr -> SUBSET In(g)] /\ G \in [Ptr -> Nat]
  BY <1>4, <1>7
<1>10. Below(g, E)
  BY ZenonT(60), <1>4, <1>5, <1>6, <1>8, <1>9 DEF Below
<1>11. Sorted(g, E)
  BY <1>4, <1>5, <1>8 DEF Sorted
<1>12. Ranked(g, E)
  BY <1>4, <1>5, <1>8, FS_EmptySet DEF Ranked
<1>13. Leveled(g, G, Root, 1, 0)
  <2>1. \A s \in Side : Seen(g, G, n, s, Root, 1, 0) = 0
    BY <1>1, <1>5, <1>8, Sides DEF Seen
  <2>2. \A s, o \in Side : Poised(0, 1, s, o, 0, 0)
    BY DEF Poised, Side
  <2> QED
    BY <1>4, <1>5, <1>8, <1>9, <2>1, <2>2 DEF Leveled
<1>14. g.key[Root] = NoKey
  BY <1>1, <1>5 DEF Certified
<1> QED
  BY <1>4, <1>5, <1>10, <1>11, <1>12, <1>13, <1>14 DEF Adds, Tree, Certified

LEMMA InsertedMore ==
    ASSUME NEW h, NEW D, NEW H, NEW rk, Certified(h, D, H, rk), rk => MaxLength < RankRange,
           NEW k \in Key, Top(h) # Nil,
           NEW path, path = InsertPath(h, k), NEW e, e = Last(path),
           NEW n \in Node \ h.used, NEW d, d = InsertSide(h, e, k),
           NEW f, f = AvlNodeNew(RankUp(h, path, k), n, k, e, d),
           NEW g, g = AdjustBalance(f, path, k)
    PROVE  Adds(h, g, k, rk)
<1>1. PICK sd, next, h0, E, ns :
          /\ sd = [q \in Node |-> InsertSide(h, q, k)]
          /\ next = [q \in Node |-> h.kid[q][InsertSide(h, q, k)]]
          /\ ns = {q \in ToSet(path) : InsertSide(h, q, k) = -1}
          /\ h0 = RankUp(h, path, k) /\ E = More(D, n, e)
  OBVIOUS
<1>2. Wired(h) /\ Below(h, D) /\ Sorted(h, D) /\ Leveled(h, H, Root, 1, 0) /\ h \in Heaps /\ h.key[Root] = NoKey
  BY DEF Certified, Wired
<1>3. path = Follow(Top(h), next)
  BY <1>1 DEF InsertPath
<1>4. /\ Leads(h, D, e, sd) /\ e \in In(h) /\ h.kid[e][sd[e]] = Nil
      /\ \A q \in In(h) : q \in ToSet(path) <=> e \in D[q]
  <2>1. Steers(h, k, sd, next)
    BY <1>1 DEF Steers
  <2>2. LeadsTo(h, D, path, e, sd)
    BY <1>2, <1>3, <2>1, InsertPathIs
  <2> QED
    BY <2>2 DEF LeadsTo
<1>5. e \in Node /\ e \in h.used /\ e # Root /\ e # n /\ n \in Node /\ h.used \subseteq Node /\ \A q \in In(h) : q \in Node
  BY <1>2, <1>4 DEF In, Wired, Heaps
<1>6. d = sd[e] /\ d \in Side
  BY <1>1, <1>4, <1>5 DEF Leads
<1>7. h0 = AddRank(h, ns, 1)
  BY <1>1 DEF RankUp
<1>8. /\ SameButRank(h, h0)
      /\ \A q \in Node : h0.rank[q] = IF q \in ns THEN (h.rank[q] + 1) % RankRange ELSE h.rank[q]
  BY <1>2, <1>7, AddRankIs DEF SameButRank
<1>9. /\ Wired(h0) /\ In(h0) = In(h) /\ Top(h0) = Top(h)
      /\ Below(h0, D) /\ Sorted(h0, D) /\ Leveled(h0, H, Root, 1, 0)
  BY <1>2, <1>8, RankOnly
<1>10. h0.used = h.used /\ h0.key = h.key /\ h0.kid = h.kid /\ h0 \in Heaps
  BY <1>8 DEF SameButRank
<1>11. \A q : InsertSide(h0, q, k) = InsertSide(h, q, k)
  BY <1>10 DEF InsertSide
<1>12. Steers(h0, k, sd, next) /\ path = Follow(Top(h0), next)
  BY <1>1, <1>3, <1>9, <1>10, <1>11 DEF Steers
<1>13. Grown(h0, f, n, k, e, d)
  BY <1>1, <1>5, <1>6, <1>10, NodeNewIs
<1>14. Vacant(h0, n, e, d) /\ Leads(h0, D, e, sd)
  BY <1>4, <1>5, <1>6, <1>9, <1>10 DEF Vacant, Leads
<1>15. Rebalanced(f, E, g)
  <2>1. Rebalanced(f, More(D, n, e), AdjustBalance(f, path, k))
    BY <1>6, <1>9, <1>12, <1>13, <1>14, AdjustIs
  <2> QED
    BY <1>1, <2>1
<1>16. Sorted(f, E)
  <2>1. \A q \in In(h0) : (sd[q] = -1 => k <= h0.key[q]) /\ (sd[q] = 1 => h0.key[q] <= k)
    <3>1. ASSUME NEW q \in In(h0) PROVE (sd[q] = -1 => k <= h0.key[q]) /\ (sd[q] = 1 => h0.key[q] <= k)
      <4>1. h.key[q] \in Nat /\ k \in Nat /\ q \in Node
        BY <1>2, <1>5, <1>9, KeyAssumption DEF Sorted
      <4>2. sd[q] = IF k <= h.key[q] THEN -1 ELSE 1
        BY <1>1, <4>1 DEF InsertSide
      <4> QED
        BY <1>10, <4>1, <4>2
    <3> QED
      BY <3>1
  <2> QED
    BY <1>1, <1>6, <1>9, <1>13, <1>14, <2>1, GrownSorted
<1>17. rk => Ranked(f, E)
  <2>1. SUFFICES ASSUME rk PROVE Ranked(f, E)
    OBVIOUS
  <2>2. Ranked(h, D) /\ MaxLength < RankRange
    BY <2>1 DEF Certified
  <2>3. \A q \in In(h0) : h0.rank[q] = IF e \in D[q] /\ sd[q] = -1 THEN (h.rank[q] + 1) % RankRange
                                                                  ELSE h.rank[q]
    <3>1. ASSUME NEW q \in In(h0)
          PROVE  h0.rank[q] = IF e \in D[q] /\ sd[q] = -1 THEN (h.rank[q] + 1) % RankRange ELSE h.rank[q]
      <4>1. q \in Node /\ (q \in ns <=> e \in D[q] /\ sd[q] = -1)
        BY <1>1, <1>4, <1>5, <1>9
      <4> QED
        BY <1>8, <4>1
    <3> QED
      BY <3>1
  <2>4. CountedIn(h, h0, D, e, sd)
    BY <2>3 DEF CountedIn
  <2> QED
    BY <1>1, <1>6, <1>10, <1>13, <1>14, <2>2, <2>4, GrownRanked
<1>18. PICK E2, G : Keeps(f, E, g, E2) /\ Leveled(g, G, Root, 1, 0)
  BY <1>15 DEF Rebalanced
<1>19. /\ g.used = h.used \cup {n} /\ g.key[n] = k
       /\ \A m \in h.used : g.key[m] = h.key[m]
  BY <1>5, <1>10, <1>13, <1>18 DEF Keeps, Grown
<1>20. Certified(g, E2, G, rk)
  <2>1. Root \in h.used
    BY <1>2 DEF Wired
  <2>2. g.key[Root] = NoKey
    BY <1>2, <1>19, <2>1
  <2> QED
    BY <1>16, <1>17, <1>18, <2>2 DEF Keeps, Certified
<1> QED
  BY <1>19, <1>20 DEF Adds, Tree

LEMMA InsertedIs ==
    ASSUME NEW h, NEW rk, Tree(h, rk), rk => MaxLength < RankRange, NEW k \in Key,
           Cardinality(In(h)) < MaxLength
    PROVE  Adds(h, Inserted(h, k), k, rk)
<1>1. PICK D, H : Certified(h, D, H, rk)
  BY DEF Tree
<1>2. PICK n \in Node \ h.used : n = Min(Node \ h.used)
  BY <1>1, FreshNode DEF Certified
<1>3. CASE Top(h) = Nil
  <2>1. Inserted(h, k) = AvlNodeNew(h, n, k, Root, 1)
    BY <1>2, <1>3 DEF Inserted
  <2> QED
    BY <1>1, <1>3, <2>1, InsertedFirst
<1>4. CASE Top(h) # Nil
  <2>1. PICK path, e, d, f : /\ path = InsertPath(h, k) /\ e = Last(path) /\ d = InsertSide(h, e, k)
                             /\ f = AvlNodeNew(RankUp(h, path, k), n, k, e, d)
    OBVIOUS
  <2>2. Inserted(h, k) = AdjustBalance(f, path, k)
    BY <1>2, <1>4, <2>1 DEF Inserted
  <2> QED
    BY <1>1, <1>4, <2>1, <2>2, InsertedMore
<1> QED
  BY <1>3, <1>4

=============================================================================
