--------------------------- MODULE AvlTreeProofs ---------------------------
(***************************************************************************)
(* Proofs about AvlTree and AvlQueries, for trees of every size:           *)
(* avl_delete, the theorems about every operation, and the queries.        *)
(***************************************************************************)
EXTENDS AvlQueries, AvlInsertProofs

-----------------------------------------------------------------------------
(* avl_delete.  z, below p on side d, has no child but c.                  *)
Single(h, D, z, c, p, d) ==
    /\ Wired(h) /\ Below(h, D) /\ z \in In(h) /\ z \in Node /\ z # Root /\ z # Nil
    /\ p \in h.used /\ p \in Node /\ p # z /\ d \in Side /\ h.kid[p][d] = z /\ h.up[z] = p
    /\ c \in Ptr /\ c # z /\ c # Root /\ (c # Nil => c \in In(h))
    /\ \E s, o \in Side : s # o /\ c = h.kid[z][s] /\ h.kid[z][o] = Nil
    /\ D[z] = {z} \cup D[c] /\ z \notin D[c]
    /\ \A m \in h.used : \A s \in Side : h.kid[m][s] = z => m = p /\ s = d

LEMMA SingleIs ==
    ASSUME NEW h, NEW D, Wired(h), Below(h, D), NEW z \in In(h), Nil \in {h.kid[z][-1], h.kid[z][1]},
           NEW c, c = IF h.kid[z][-1] # Nil THEN h.kid[z][-1] ELSE h.kid[z][1],
           NEW p, p = h.up[z], NEW d, d = SideOf(h, z)
    PROVE  Single(h, D, z, c, p, d)
<1>1. z \in Node /\ z # Root /\ z # Nil /\ z \in D[z] /\ p \in h.used /\ p # z /\ d \in Side /\ h.kid[p][d] = z
  BY NodeIs
<1>2. p \in Node /\ c \in Ptr
  BY <1>1, Sides DEF Wired, Heaps
<1>3. PICK s \in Side, o \in Side : s # o /\ c = h.kid[z][s] /\ h.kid[z][o] = Nil
  <2>1. CASE h.kid[z][-1] # Nil
    BY <2>1, Sides
  <2>2. CASE h.kid[z][-1] = Nil
    BY <2>2, Sides
  <2> QED
    BY <2>1, <2>2
<1>4. c # z /\ c # Root /\ (c # Nil => c \in In(h))
  <2>1. CASE c = Nil
    BY <1>1, <2>1, Constants
  <2>2. CASE c # Nil
    <3>1. c \in In(h) /\ c # z
      BY <1>3, <2>2, KidIs
    <3> QED
      BY <3>1 DEF In
  <2> QED
    BY <2>1, <2>2
<1>5. D[z] = {z} \cup D[c] /\ z \notin D[c]
  <2>1. D[Nil] = {} /\ D[z] = {z} \cup D[h.kid[z][-1]] \cup D[h.kid[z][1]] /\ z \notin D[h.kid[z][-1]] /\ z \notin D[h.kid[z][1]]
    BY DEF Below
  <2> QED
    BY <1>3, <2>1, Sides
<1>6. ASSUME NEW m \in h.used, NEW s1 \in Side, h.kid[m][s1] = z PROVE m = p /\ s1 = d
  <2>1. m = p
    BY <1>1, <1>6 DEF Wired
  <2> QED
    BY <1>6, <2>1, SideUnique
<1> QED
  BY <1>1, <1>2, <1>3, <1>4, <1>5, <1>6 DEF Single

(* g is h without z, whose child c is in its place.                        *)
Cut(h, g, z, c, p, d) ==
    /\ g \in Heaps /\ g.used = h.used \ {z}
    /\ \A s \in Side : g.kid[z][s] = Nil
    /\ \A m \in Node : m # z =>
          /\ \A s \in Side : g.kid[m][s] = IF m = p /\ s = d THEN c ELSE h.kid[m][s]
          /\ g.up[m] = IF m = c THEN p ELSE h.up[m]
          /\ g.key[m] = h.key[m] /\ g.bal[m] = h.bal[m] /\ g.rank[m] = h.rank[m]

Freed(h, g, z) ==
    /\ g \in Heaps /\ g.used = h.used \ {z}
    /\ \A s \in Side : g.kid[z][s] = Nil
    /\ \A m \in Node : m # z =>
          /\ g.kid[m] = h.kid[m] /\ g.up[m] = h.up[m]
          /\ g.key[m] = h.key[m] /\ g.bal[m] = h.bal[m] /\ g.rank[m] = h.rank[m]

LEMMA FreeIs ==
    ASSUME NEW h \in Heaps, NEW z \in Node, NEW g, g = FreeNode(h, z)
    PROVE  Freed(h, g, z)
<1>1. /\ g = [used |-> g.used, kid |-> g.kid, up |-> g.up, key |-> g.key, bal |-> g.bal, rank |-> g.rank]
      /\ g.used = h.used \ {z}
      /\ g.kid = [h.kid EXCEPT ![z] = [s \in Side |-> Nil]]
      /\ g.up = [h.up EXCEPT ![z] = Nil]
      /\ g.key = [h.key EXCEPT ![z] = NoKey]
      /\ g.bal = [h.bal EXCEPT ![z] = 0]
      /\ g.rank = [h.rank EXCEPT ![z] = 1]
  BY DEF FreeNode, Heaps
<1>2. g.kid \in [Node -> [Side -> Ptr]]
  <2>1. [s \in Side |-> Nil] \in [Side -> Ptr]
    BY DEF Ptr
  <2> QED
    BY <1>1, <2>1 DEF Heaps
<1>3. g.up \in [Node -> Ptr] /\ g.key \in [Node -> Key \cup {NoKey}] /\ g.bal \in [Node -> -1..1]
  BY <1>1 DEF Heaps, Ptr
<1>4. g.rank \in [Node -> 0..(RankRange - 1)] /\ g.used \in SUBSET Node
  BY <1>1, Constants DEF Heaps
<1>5. g \in Heaps
  BY <1>1, <1>2, <1>3, <1>4 DEF Heaps
<1> QED
  BY <1>1, <1>5 DEF Heaps, Freed

LEMMA CutIs ==
    ASSUME NEW h, NEW D, NEW z, NEW c, NEW p, NEW d, Single(h, D, z, c, p, d),
           NEW g, g = FreeNode(Link(h, p, d, c), z)
    PROVE  Cut(h, g, z, c, p, d)
<1>1. PICK k : k = Link(h, p, d, c)
  OBVIOUS
<1>2. h \in Heaps /\ z \in Node /\ p \in Node /\ d \in Side /\ c \in Ptr
  BY DEF Single, Wired
<1>3. Hung(h, k, p, d, c)
  BY <1>1, <1>2, LinkIs
<1>4. k \in Heaps /\ g = FreeNode(k, z)
  BY <1>1, <1>3 DEF Hung
<1>5. Freed(k, g, z)
  BY <1>2, <1>4, FreeIs
<1> QED
  BY <1>3, <1>5 DEF Hung, Freed, Cut

LEMMA CutWired ==
    ASSUME NEW h, NEW D, NEW z, NEW c, NEW p, NEW d, Single(h, D, z, c, p, d),
           NEW g, Cut(h, g, z, c, p, d)
    PROVE  Wired(g) /\ In(g) = In(h) \ {z}
<1>1. /\ Wired(h) /\ Below(h, D) /\ z \in In(h) /\ z \in Node /\ z # Root /\ z # Nil
      /\ p \in h.used /\ p \in Node /\ p # z /\ d \in Side /\ h.kid[p][d] = z
      /\ c \in Ptr /\ c # z /\ c # Root /\ (c # Nil => c \in In(h))
      /\ \A m \in h.used : \A s \in Side : h.kid[m][s] = z => m = p /\ s = d
  BY DEF Single
<1>2. In(g) = In(h) \ {z} /\ h.used \subseteq Node /\ h \in Heaps /\ Root \in h.used /\ Root \in Node
  BY <1>1, Constants DEF Cut, In, Wired, Heaps
<1>3. Root \in g.used /\ g.up[Root] = Nil /\ g.kid[Root][-1] = Nil
  <2>1. h.up[Root] = Nil /\ h.kid[Root][-1] = Nil /\ -1 \in Side
    BY <1>1, Sides DEF Wired
  <2>2. g.kid[Root][-1] = IF Root = p /\ -1 = d THEN c ELSE h.kid[Root][-1]
    BY <1>1, <1>2, <2>1 DEF Cut
  <2>3. g.up[Root] = Nil /\ Root \in g.used
    BY <1>1, <1>2, <2>1 DEF Cut
  <2> QED
    BY <1>1, <2>1, <2>2, <2>3
<1>4. ASSUME NEW m \in g.used, NEW s \in Side, g.kid[m][s] # Nil
      PROVE  g.kid[m][s] \in In(g) /\ g.up[g.kid[m][s]] = m
  <2>1. m \in Node /\ m \in h.used /\ m # z
    BY <1>2 DEF Cut
  <2>2. g.kid[m][s] = IF m = p /\ s = d THEN c ELSE h.kid[m][s]
    BY <2>1 DEF Cut
  <2>3. CASE m = p /\ s = d
    <3>1. g.kid[m][s] = c /\ c \in In(h) /\ c \in Node
      BY <1>1, <1>2, <1>4, <2>2, <2>3 DEF In
    <3>2. g.up[c] = p
      BY <1>1, <3>1 DEF Cut
    <3> QED
      BY <1>1, <1>2, <2>3, <3>1, <3>2
  <2>4. CASE ~(m = p /\ s = d)
    <3>1. PICK w : w = g.kid[m][s]
      OBVIOUS
    <3>2. w = h.kid[m][s] /\ w # Nil
      BY <1>4, <2>2, <2>4, <3>1
    <3>3. w \in In(h) /\ h.up[w] = m /\ w # z
      BY <1>1, <2>1, <2>4, <3>2 DEF Wired
    <3>4. w # c
      <4>1. SUFFICES ASSUME w = c PROVE FALSE
        OBVIOUS
      <4>2. h.up[c] = z
        <5>1. PICK s1 \in Side : c = h.kid[z][s1]
          BY DEF Single
        <5> QED
          BY <1>1, <3>2, <4>1, <5>1 DEF Wired, In
      <4> QED
        BY <2>1, <3>3, <4>1, <4>2
    <3>5. g.up[w] = h.up[w]
      BY <1>2, <3>3, <3>4 DEF Cut, In
    <3> QED
      BY <1>2, <3>1, <3>3, <3>5
  <2> QED
    BY <2>3, <2>4
<1>5. ASSUME NEW m \in In(g) PROVE g.up[m] \in g.used /\ \E s \in Side : g.kid[g.up[m]][s] = m
  <2>1. m \in In(h) /\ m # z /\ m \in Node
    BY <1>2 DEF In
  <2>2. CASE m = c
    <3>1. g.up[m] = p /\ p \in g.used /\ g.kid[p][d] = c
      BY <1>1, <2>1, <2>2 DEF Cut
    <3> QED
      BY <1>1, <2>2, <3>1
  <2>3. CASE m # c
    <3>1. g.up[m] = h.up[m] /\ h.up[m] \in h.used /\ h.up[m] \in Node
      BY <1>1, <1>2, <2>1, <2>3 DEF Cut, Wired
    <3>2. PICK s \in Side : h.kid[h.up[m]][s] = m
      BY <1>1, <2>1 DEF Wired
    <3>3. h.up[m] # z
      <4>1. SUFFICES ASSUME h.up[m] = z PROVE FALSE
        OBVIOUS
      <4>2. PICK s1 \in Side, o \in Side : s1 # o /\ c = h.kid[z][s1] /\ h.kid[z][o] = Nil
        BY DEF Single
      <4>3. s = s1 \/ s = o
        BY <4>2, Sides
      <4>4. m # Nil
        BY <2>1, Constants
      <4> QED
        BY <2>3, <3>2, <4>1, <4>2, <4>3, <4>4
    <3>4. g.kid[h.up[m]][s] = m
      BY <1>1, <2>1, <3>1, <3>2, <3>3 DEF Cut
    <3> QED
      BY <3>1, <3>2, <3>3, <3>4 DEF Cut
  <2> QED
    BY <2>2, <2>3
<1>6. ASSUME NEW m \in Node \ g.used, NEW s \in Side PROVE g.kid[m][s] = Nil
  <2>1. CASE m = z
    BY <2>1 DEF Cut
  <2>2. CASE m # z
    <3>1. m \in Node \ h.used /\ m # p
      BY <1>1, <2>2 DEF Cut
    <3> QED
      BY <1>1, <2>2, <3>1 DEF Cut, Wired
  <2> QED
    BY <2>1, <2>2
<1>7. Wired(g)
  <2>1. g \in Heaps
    BY DEF Cut
  <2> QED
    BY <1>3, <1>4, <1>5, <1>6, <2>1 DEF Wired
<1> QED
  BY <1>2, <1>7

(* The subtrees without z.                                                 *)
Less(D, z) == [m \in Ptr |-> IF m = z THEN {} ELSE D[m] \ {z}]

LEMMA CutKids ==
    ASSUME NEW h, NEW D, NEW z, NEW c, NEW p, NEW d, Single(h, D, z, c, p, d),
           NEW g, Cut(h, g, z, c, p, d), NEW E, E = Less(D, z)
    PROVE  /\ \A m \in h.used : m # z => \A s \in Side : E[g.kid[m][s]] = D[h.kid[m][s]] \ {z}
           /\ \A m \in In(h) : m # z => E[m] = D[m] \ {z}
<1>1. /\ Wired(h) /\ Below(h, D) /\ z \in In(h) /\ z \in Node /\ z # Root /\ z # Nil
      /\ p \in h.used /\ p \in Node /\ p # z /\ d \in Side /\ h.kid[p][d] = z
      /\ c \in Ptr /\ c # z /\ D[z] = {z} \cup D[c] /\ z \notin D[c]
      /\ \A m \in h.used : \A s \in Side : h.kid[m][s] = z => m = p /\ s = d
  BY DEF Single
<1>2. \A m \in h.used : m \in Node /\ m \in Ptr /\ \A s \in Side : h.kid[m][s] \in Ptr
  BY <1>1 DEF Wired, Heaps, Ptr
<1>3. \A m \in Ptr : m # z => E[m] = D[m] \ {z}
  BY DEF Less
<1>4. ASSUME NEW m \in h.used, m # z, NEW s \in Side PROVE E[g.kid[m][s]] = D[h.kid[m][s]] \ {z}
  <2>1. g.kid[m][s] = IF m = p /\ s = d THEN c ELSE h.kid[m][s]
    BY <1>2, <1>4 DEF Cut
  <2>2. CASE m = p /\ s = d
    BY <1>1, <1>3, <2>1, <2>2
  <2>3. CASE ~(m = p /\ s = d)
    BY <1>1, <1>2, <1>3, <2>1, <2>3
  <2> QED
    BY <2>2, <2>3
<1>5. \A m \in In(h) : m \in h.used
  BY DEF In
<1> QED
  BY <1>2, <1>3, <1>4, <1>5

LEMMA CutBelow ==
    ASSUME NEW h, NEW D, NEW z, NEW c, NEW p, NEW d, Single(h, D, z, c, p, d),
           NEW g, Cut(h, g, z, c, p, d), NEW E, E = Less(D, z)
    PROVE  Below(g, E)
<1>1. /\ Wired(h) /\ Below(h, D) /\ z \in In(h) /\ z \in Node /\ z # Root /\ z # Nil
      /\ p \in h.used /\ p # z /\ h.up[z] = p
      /\ c \in Ptr /\ c # z /\ D[z] = {z} \cup D[c] /\ z \notin D[c]
  BY DEF Single
<1>2. In(g) = In(h) \ {z} /\ Wired(g)
  BY CutWired
<1>3. /\ \A m \in h.used : m # z => \A s \in Side : E[g.kid[m][s]] = D[h.kid[m][s]] \ {z}
      /\ \A m \in In(h) : m # z => E[m] = D[m] \ {z}
  BY CutKids
<1>4. /\ D \in [Ptr -> SUBSET In(h)] /\ D[Nil] = {} /\ D[Top(h)] = In(h)
      /\ Nil \in Ptr /\ -1 \in Side /\ 1 \in Side /\ Root \in h.used
  BY <1>1, Sides DEF Below, Ptr, Wired
<1>5. E \in [Ptr -> SUBSET In(g)] /\ E[Nil] = {}
  BY <1>1, <1>2, <1>4 DEF Less
<1>6. E[Top(g)] = In(g)
  BY <1>1, <1>2, <1>3, <1>4 DEF Top
<1>7. ASSUME NEW n \in In(g)
      PROVE  /\ E[n] = {n} \cup E[g.kid[n][-1]] \cup E[g.kid[n][1]]
             /\ n \notin E[g.kid[n][-1]] /\ n \notin E[g.kid[n][1]]
             /\ E[g.kid[n][-1]] \cap E[g.kid[n][1]] = {}
  <2>1. n \in In(h) /\ n \in h.used /\ n # z
    BY <1>2 DEF In
  <2>2. E[n] = D[n] \ {z} /\ E[g.kid[n][-1]] = D[h.kid[n][-1]] \ {z} /\ E[g.kid[n][1]] = D[h.kid[n][1]] \ {z}
    BY <1>3, <1>4, <2>1
  <2>3. /\ D[n] = {n} \cup D[h.kid[n][-1]] \cup D[h.kid[n][1]]
        /\ n \notin D[h.kid[n][-1]] /\ n \notin D[h.kid[n][1]]
        /\ D[h.kid[n][-1]] \cap D[h.kid[n][1]] = {}
    BY <1>1, <2>1 DEF Below
  <2> QED
    BY <2>1, <2>2, <2>3
<1>8. ASSUME NEW n \in In(g), NEW m \in E[n] PROVE E[m] \subseteq E[n] /\ (m # n => g.up[m] \in E[n])
  <2>1. n \in In(h) /\ n # z /\ E[n] = D[n] \ {z} /\ n \in Ptr
    BY <1>2, <1>3, <1>1 DEF In, Wired, Heaps, Ptr
  <2>2. m \in D[n] /\ m # z /\ m \in In(h) /\ m \in Node
    BY <1>1, <1>4, <2>1 DEF In, Wired, Heaps
  <2>3. E[m] = D[m] \ {z}
    BY <1>3, <2>2
  <2>4. D[m] \subseteq D[n] /\ (m # n => h.up[m] \in D[n])
    BY <1>1, <2>1, <2>2 DEF Below
  <2>5. ASSUME m # n PROVE g.up[m] \in E[n]
    <3>1. CASE m = c
      <4>1. g.up[m] = p
        BY <2>2, <3>1 DEF Cut
      <4>2. h.up[m] = z
        <5>1. PICK s1 \in Side : c = h.kid[z][s1]
          BY DEF Single
        <5>2. m # Nil
          BY <2>2, Constants
        <5> QED
          BY <1>1, <3>1, <5>1, <5>2 DEF Wired, In
      <4>3. z \in D[n]
        BY <2>4, <2>5, <4>2
      <4>4. h.up[z] \in D[n]
        BY <1>1, <2>1, <4>3 DEF Below
      <4> QED
        BY <1>1, <2>1, <4>1, <4>4
    <3>2. CASE m # c
      <4>1. g.up[m] = h.up[m]
        BY <2>2, <3>2 DEF Cut
      <4>2. h.up[m] # z
        <5>1. SUFFICES ASSUME h.up[m] = z PROVE FALSE
          OBVIOUS
        <5>2. PICK s \in Side : h.kid[z][s] = m
          BY <1>1, <2>2, <5>1 DEF Wired
        <5>3. PICK s1 \in Side, o \in Side : s1 # o /\ c = h.kid[z][s1] /\ h.kid[z][o] = Nil
          BY DEF Single
        <5>4. (s = s1 \/ s = o) /\ m # Nil
          BY <2>2, <5>3, Sides, Constants
        <5> QED
          BY <3>2, <5>2, <5>3, <5>4
      <4> QED
        BY <2>1, <2>4, <2>5, <4>1, <4>2
    <3> QED
      BY <3>1, <3>2
  <2> QED
    BY <2>1, <2>3, <2>4, <2>5
<1> QED
  BY <1>5, <1>6, <1>7, <1>8 DEF Below

(* Order and ranks of the other nodes, as they are when z is gone.         *)
SortedBut(h, D, z) ==
    \A n \in In(h) \ {z} :
        /\ h.key[n] \in Key
        /\ \A m \in D[h.kid[n][-1]] \ {z} : h.key[m] <= h.key[n]
        /\ \A m \in D[h.kid[n][1]] \ {z} : h.key[n] <= h.key[m]

RankedBut(h, D, z) == \A n \in In(h) \ {z} : h.rank[n] = Cardinality(D[h.kid[n][-1]] \ {z}) + 1

LEMMA CutSorted ==
    ASSUME NEW h, NEW D, NEW z, NEW c, NEW p, NEW d, Single(h, D, z, c, p, d),
           NEW g, Cut(h, g, z, c, p, d), NEW E, E = Less(D, z)
    PROVE  /\ SortedBut(h, D, z) => Sorted(g, E)
           /\ RankedBut(h, D, z) => Ranked(g, E)
<1>1. Wired(h) /\ Below(h, D)
  BY DEF Single
<1>2. In(g) = In(h) \ {z}
  BY CutWired
<1>3. \A m \in h.used : m # z => \A s \in Side : E[g.kid[m][s]] = D[h.kid[m][s]] \ {z}
  BY CutKids
<1>4. /\ \A n \in In(h) : n \in h.used /\ n \in Node
      /\ \A n \in In(h) : \A s \in Side : D[h.kid[n][s]] \subseteq In(h)
  BY <1>1 DEF Below, In, Wired, Heaps
<1>5. \A n \in In(g) : /\ n \in In(h) \ {z} /\ g.key[n] = h.key[n] /\ g.rank[n] = h.rank[n]
                       /\ E[g.kid[n][-1]] = D[h.kid[n][-1]] \ {z} /\ E[g.kid[n][1]] = D[h.kid[n][1]] \ {z}
  <2>1. ASSUME NEW n \in In(g)
        PROVE  /\ n \in In(h) \ {z} /\ g.key[n] = h.key[n] /\ g.rank[n] = h.rank[n]
               /\ E[g.kid[n][-1]] = D[h.kid[n][-1]] \ {z} /\ E[g.kid[n][1]] = D[h.kid[n][1]] \ {z}
    <3>1. n \in In(h) \ {z} /\ n \in h.used /\ n \in Node
      BY <1>2, <1>4
    <3>2. g.key[n] = h.key[n] /\ g.rank[n] = h.rank[n]
      BY <3>1 DEF Cut
    <3>3. \A s \in Side : E[g.kid[n][s]] = D[h.kid[n][s]] \ {z}
      BY <1>3, <3>1
    <3> QED
      BY <3>1, <3>2, <3>3, Sides
  <2> QED
    BY <2>1
<1>6. ASSUME SortedBut(h, D, z) PROVE Sorted(g, E)
  <2>1. \A n \in In(g) : g.key[n] \in Key
    BY <1>5, <1>6 DEF SortedBut
  <2>2. ASSUME NEW n \in In(g)
        PROVE  /\ \A m \in E[g.kid[n][-1]] : g.key[m] <= g.key[n]
               /\ \A m \in E[g.kid[n][1]] : g.key[n] <= g.key[m]
    <3>1. n \in In(h) \ {z}
      BY <1>5
    <3>2. \A s \in Side : \A m \in D[h.kid[n][s]] \ {z} : g.key[m] = h.key[m]
      BY <1>2, <1>4, <1>5, <3>1
    <3>3. /\ \A m \in D[h.kid[n][-1]] \ {z} : g.key[m] = h.key[m]
          /\ \A m \in D[h.kid[n][1]] \ {z} : g.key[m] = h.key[m]
      BY <3>2, Sides
    <3>4. /\ \A m \in D[h.kid[n][-1]] \ {z} : h.key[m] <= h.key[n]
          /\ \A m \in D[h.kid[n][1]] \ {z} : h.key[n] <= h.key[m]
      BY <1>6, <3>1 DEF SortedBut
    <3> QED
      BY <1>5, <3>3, <3>4
  <2> QED
    BY <2>1, <2>2 DEF Sorted
<1>7. ASSUME RankedBut(h, D, z) PROVE Ranked(g, E)
  <2>1. ASSUME NEW n \in In(g) PROVE g.rank[n] = Cardinality(E[g.kid[n][-1]]) + 1
    BY <1>5, <1>7 DEF RankedBut
  <2> QED
    BY <2>1 DEF Ranked
<1> QED
  BY <1>6, <1>7

(* z was one higher than its child: only the view of its parent is wrong.  *)
LEMMA CutLeveled ==
    ASSUME NEW h, NEW D, NEW z, NEW c, NEW p, NEW d, Single(h, D, z, c, p, d),
           NEW g, Cut(h, g, z, c, p, d), NEW H, Leveled(h, H, Root, 1, 0)
    PROVE  Leveled(g, H, p, d, 1)
<1>1. /\ Wired(h) /\ Below(h, D) /\ z \in In(h) /\ z \in Node /\ z # Root /\ z # Nil
      /\ p \in h.used /\ p \in Node /\ p # z /\ d \in Side /\ h.kid[p][d] = z
      /\ c \in Ptr
  BY DEF Single
<1>2. In(g) = In(h) \ {z}
  BY CutWired
<1>3. H \in [Ptr -> Nat] /\ H[Nil] = 0
  BY DEF Leveled
<1>4. H[z] = H[c] + 1
  <2>1. PICK s \in Side, o \in Side : s # o /\ c = h.kid[z][s] /\ h.kid[z][o] = Nil
    BY DEF Single
  <2>2. Poised(h.bal[z], H[z], s, o, H[c], 0) /\ H[c] \in Nat
    <3>1. z # Root \/ 0 = 0
      OBVIOUS
    <3>2. Poised(h.bal[z], H[z], s, o, H[h.kid[z][s]], H[h.kid[z][o]]) /\ H[h.kid[z][s]] \in Nat
      BY <1>1, <2>1, LeveledAt
    <3> QED
      BY <1>3, <2>1, <3>2
  <2>3. h.bal[z] \in {0, s, o}
    <3>1. h.bal[z] \in -1..1
      BY <1>1 DEF Wired, Heaps
    <3>2. h.bal[z] = 0 \/ h.bal[z] \in Side
      BY <3>1 DEF Side
    <3> QED
      BY <2>1, <3>2, Sides
  <2> QED
    BY <2>2, <2>3 DEF Poised
<1>5. ASSUME NEW n \in In(g), NEW s \in Side PROVE Seen(g, H, n, s, p, d, 1) = Seen(h, H, n, s, Root, 1, 0)
  <2>1. n \in In(h) /\ n # z /\ n \in Node /\ n # Root
    BY <1>1, <1>2 DEF In, Wired, Heaps
  <2>2. g.kid[n][s] = IF n = p /\ s = d THEN c ELSE h.kid[n][s]
    BY <2>1 DEF Cut
  <2>3. Seen(h, H, n, s, Root, 1, 0) = H[h.kid[n][s]] + 0
    BY <2>1 DEF Seen
  <2>4. H[h.kid[n][s]] \in Nat /\ H[c] \in Nat
    <3>1. h.kid[n][s] \in Ptr
      BY <1>1, <2>1 DEF Wired, Heaps
    <3> QED
      BY <1>1, <1>3, <3>1
  <2>5. CASE n = p /\ s = d
    <3>1. Seen(g, H, n, s, p, d, 1) = H[c] + 1
      BY <2>2, <2>5 DEF Seen
    <3>2. h.kid[n][s] = z
      BY <1>1, <2>5
    <3> QED
      BY <1>4, <2>3, <2>4, <3>1, <3>2
  <2>6. CASE ~(n = p /\ s = d)
    <3>1. Seen(g, H, n, s, p, d, 1) = H[h.kid[n][s]] + 0
      BY <2>2, <2>6 DEF Seen
    <3> QED
      BY <2>3, <3>1
  <2> QED
    BY <2>5, <2>6
<1>6. ASSUME NEW n \in In(g), NEW s \in Side, NEW o \in Side, s # o
      PROVE  Poised(g.bal[n], H[n], s, o, Seen(g, H, n, s, p, d, 1), Seen(g, H, n, o, p, d, 1))
  <2>1. n \in In(h) /\ n # z /\ n \in Node
    BY <1>1, <1>2 DEF In, Wired, Heaps
  <2>2. g.bal[n] = h.bal[n]
    BY <2>1 DEF Cut
  <2>3. Poised(h.bal[n], H[n], s, o, Seen(h, H, n, s, Root, 1, 0), Seen(h, H, n, o, Root, 1, 0))
    BY <1>6, <2>1 DEF Leveled
  <2> QED
    BY <1>5, <2>2, <2>3
<1> QED
  BY <1>3, <1>6 DEF Leveled

-----------------------------------------------------------------------------
(* The loop that climbs.  After i turns it has either stopped, or what has *)
(* become shorter has i nodes at least, so that MaxLength turns will do.   *)
Turns == [h : Heaps, p : Node, d : Side, shorter : BOOLEAN]

Climbs(g, D, c, i) ==
    /\ c \in Turns /\ c.p \in c.h.used
    /\ \E E, G :
          /\ Keeps(g, D, c.h, E)
          /\ c.shorter => /\ Leveled(c.h, G, c.p, c.d, 1)
                          /\ c.p # Root => Cardinality(E[c.h.kid[c.p][c.d]]) >= i
          /\ ~c.shorter => Leveled(c.h, G, Root, 1, 0)

LEMMA StopIs ==
    ASSUME NEW f, NEW D, NEW h, NEW E, Keeps(f, D, h, E), NEW x \in In(h), NEW g, NEW y \in In(h),
           Mends(h, E, x, g, y, 0), NEW c \in Turns, c.p \in h.used, c.h = h,
           NEW b, b = [c EXCEPT !.h = g, !.shorter = FALSE], NEW i
    PROVE  Climbs(f, D, b, i)
<1>1. PICK F, G : Keeps(h, E, g, F) /\ Leveled(g, G, h.up[x], SideOf(h, x), 0)
  BY DEF Mends
<1>2. Leveled(g, G, Root, 1, 0)
  <2>1. 0 = 0
    OBVIOUS
  <2> QED
    BY <1>1, <2>1, LeveledTop
<1>3. Keeps(f, D, g, F)
  BY <1>1, KeepsTwice
<1>4. g \in Heaps /\ g.used = h.used
  BY <1>1 DEF Keeps, Wired
<1>5. b.h = g /\ b.p = c.p /\ b.d = c.d /\ b.shorter = FALSE /\ b \in Turns
  BY <1>4 DEF Turns
<1> QED
  BY <1>2, <1>3, <1>4, <1>5 DEF Climbs

LEMMA ClimbIs ==
    ASSUME NEW f, NEW D, NEW h, NEW E, Keeps(f, D, h, E), NEW x \in In(h), NEW g, NEW y \in In(h),
           Mends(h, E, x, g, y, 1), NEW i \in Nat, NEW d \in Side, Cardinality(E[h.kid[x][d]]) >= i,
           NEW b, b = [h |-> g, p |-> g.up[y], d |-> SideOf(g, y), shorter |-> TRUE]
    PROVE  Climbs(f, D, b, i + 1)
<1>1. PICK F, G : Keeps(h, E, g, F) /\ Leveled(g, G, h.up[x], SideOf(h, x), 1) /\ F[y] = E[x]
  BY DEF Mends
<1>2. g.up[y] = h.up[x] /\ SideOf(g, y) = SideOf(h, x)
  BY DEF Mends
<1>3. Keeps(f, D, g, F)
  BY <1>1, KeepsTwice
<1>4. Wired(g) /\ Below(g, F) /\ g.used = h.used /\ Wired(h) /\ Below(h, E) /\ g \in Heaps
  BY <1>1 DEF Keeps, Wired
<1>5. y \in In(g)
  BY <1>4 DEF In
<1>6. g.up[y] \in g.used /\ SideOf(g, y) \in Side /\ g.kid[g.up[y]][SideOf(g, y)] = y
  BY <1>4, <1>5, NodeIs
<1>7. g.up[y] \in Node
  BY <1>4, <1>6 DEF Heaps
<1>8. b.h = g /\ b.p = g.up[y] /\ b.d = SideOf(g, y) /\ b.shorter = TRUE /\ b \in Turns
  BY <1>4, <1>6, <1>7 DEF Turns
<1>9. Cardinality(F[b.h.kid[b.p][b.d]]) >= i + 1
  <2>1. F[b.h.kid[b.p][b.d]] = E[x]
    BY <1>1, <1>6, <1>8
  <2>2. Cardinality(E[h.kid[x][d]]) < Cardinality(E[x])
    BY <1>4, SubtreeSizes
  <2>3. Cardinality(E[h.kid[x][d]]) \in Nat /\ Cardinality(E[x]) \in Nat
    <3>1. x \in Ptr /\ h.kid[x][d] \in Ptr
      BY <1>4 DEF In, Wired, Heaps, Ptr
    <3> QED
      BY <1>4, <3>1, SubtreeSizes, Constants
  <2> QED
    BY <2>1, <2>2, <2>3
<1> QED
  BY <1>1, <1>2, <1>3, <1>6, <1>8, <1>9 DEF Climbs

(* What the balance factor of x says when its subtree on side d, of height *)
(* v, has become shorter.                                                  *)
Lopsided(h, G, x, a, d, v) ==
    /\ v \in Nat /\ G[x] \in Nat /\ G[h.kid[x][a]] \in Nat
    /\ h.bal[x] = 0 => G[h.kid[x][a]] = v + 1 /\ G[x] = v + 2
    /\ h.bal[x] = d => G[h.kid[x][a]] = v /\ G[x] = v + 2
    /\ h.bal[x] = a => G[h.kid[x][a]] = v + 2 /\ G[x] = v + 3
    /\ h.bal[x] = 0 \/ h.bal[x] = d \/ h.bal[x] = a

LEMMA ShorterSide ==
    ASSUME NEW h, NEW G, NEW x, NEW d \in Side, Leveled(h, G, x, d, 1), Wired(h), x \in In(h),
           NEW a, a = -d, NEW v, v = G[h.kid[x][d]]
    PROVE  Lopsided(h, G, x, a, d, v)
<1>1. a \in Side /\ a # d
  BY Sides
<1>2. x \in Node /\ h.kid[x][d] \in Ptr /\ h.kid[x][a] \in Ptr /\ x \in Ptr
  BY <1>1 DEF In, Wired, Heaps, Ptr
<1>3. v \in Nat /\ G[x] \in Nat /\ G[h.kid[x][a]] \in Nat /\ G[Nil] = 0
  BY <1>2 DEF Leveled
<1>4. Seen(h, G, x, d, x, d, 1) = v + 1
  BY DEF Seen
<1>5. Seen(h, G, x, a, x, d, 1) = G[h.kid[x][a]] + 0
  BY <1>1 DEF Seen
<1>6. Poised(h.bal[x], G[x], a, d, Seen(h, G, x, a, x, d, 1), Seen(h, G, x, d, x, d, 1))
  BY <1>1 DEF Leveled
<1>7. Poised(h.bal[x], G[x], a, d, G[h.kid[x][a]], v + 1)
  BY <1>3, <1>4, <1>5, <1>6
<1>8. h.bal[x] = 0 \/ h.bal[x] = d \/ h.bal[x] = a
  <2>1. h.bal[x] \in -1..1
    BY <1>2 DEF Wired, Heaps
  <2>2. h.bal[x] = 0 \/ h.bal[x] \in Side
    BY <2>1 DEF Side
  <2> QED
    BY <2>2, Sides
<1>9. h.bal[x] = 0 => G[h.kid[x][a]] = v + 1 /\ G[x] = v + 2
  BY <1>3, <1>7 DEF Poised
<1>10. h.bal[x] = d => G[h.kid[x][a]] = v /\ G[x] = v + 2
  BY <1>3, <1>7 DEF Poised
<1>11. h.bal[x] = a => G[h.kid[x][a]] = v + 2 /\ G[x] = v + 3
  BY <1>3, <1>7 DEF Poised
<1> QED
  BY <1>3, <1>8, <1>9, <1>10, <1>11 DEF Lopsided

(* The five cases of a turn that does something.                           *)
ClimbsOn(c, b) ==
    LET h == c.h
        p == c.p
        d == c.d
        q == h.kid[p][-d]
        Stop(g) == [c EXCEPT !.h = g, !.shorter = FALSE]
        Climb(g, x) == [h |-> g, p |-> g.up[x], d |-> SideOf(g, x), shorter |-> TRUE]
    IN  \/ h.bal[p] = 0 /\ b = Stop([h EXCEPT !.bal[p] = -d])
        \/ h.bal[p] = d /\ b = Climb([h EXCEPT !.bal[p] = 0], p)
        \/ /\ h.bal[p] = -d /\ h.bal[q] = 0
           /\ b = Stop([Rotate(h, p, -d) EXCEPT !.bal[q] = d, !.bal[p] = -d])
        \/ /\ h.bal[p] = -d /\ h.bal[q] = -d
           /\ b = Climb([Rotate(h, p, -d) EXCEPT !.bal[q] = 0, !.bal[p] = 0], q)
        \/ /\ h.bal[p] = -d /\ h.bal[q] = d
           /\ b = Climb(DoubleRotate(h, p, -d), h.kid[q][d])

LEMMA ClimbsOnKeeps ==
    ASSUME NEW f, NEW D, NEW c, NEW i \in Nat, Climbs(f, D, c, i), c.shorter, c.p # Root,
           NEW b, ClimbsOn(c, b)
    PROVE  Climbs(f, D, b, i + 1)
<1>1. PICK E, G : /\ Keeps(f, D, c.h, E) /\ Leveled(c.h, G, c.p, c.d, 1)
                  /\ Cardinality(E[c.h.kid[c.p][c.d]]) >= i
  BY DEF Climbs
<1>2. PICK h, p, d, a, q, v : /\ h = c.h /\ p = c.p /\ d = c.d /\ a = -d /\ q = h.kid[p][a]
                              /\ v = G[h.kid[p][d]]
  OBVIOUS
<1>3. /\ Wired(h) /\ Below(h, E) /\ p \in In(h) /\ p \in h.used /\ d \in Side /\ c \in Turns /\ h \in Heaps
      /\ p \in Node
  BY <1>1, <1>2 DEF Climbs, Turns, Keeps, In
<1>4. /\ a \in Side /\ a # d /\ d # a /\ -a = d /\ a # 0 /\ d # 0
      /\ a \in -1..1 /\ d \in -1..1
  BY <1>2, <1>3, Sides DEF Side
<1>5. /\ v \in Nat /\ G[p] \in Nat /\ G[q] \in Nat
      /\ h.bal[p] = 0 => G[q] = v + 1 /\ G[p] = v + 2
      /\ h.bal[p] = d => G[q] = v /\ G[p] = v + 2
      /\ h.bal[p] = a => G[q] = v + 2 /\ G[p] = v + 3 /\ q # Nil
      /\ G[h.kid[p][a]] = G[q] /\ G[h.kid[p][d]] = v
  <2>1. Leveled(h, G, p, d, 1)
    BY <1>1, <1>2
  <2>2. Lopsided(h, G, p, a, d, v)
    BY <1>2, <1>3, <2>1, ShorterSide
  <2>3. G[Nil] = 0
    BY <2>1 DEF Leveled
  <2>4. /\ h.kid[p][a] = q /\ h.kid[p][d] \in Ptr /\ G[h.kid[p][d]] = v
    BY <1>2, <1>3 DEF Heaps
  <2> QED
    BY <1>3, <2>2, <2>3, <2>4 DEF Lopsided
<1>6. Keeps(f, D, h, E) /\ Leveled(h, G, p, d, 1) /\ Cardinality(E[h.kid[p][d]]) >= i
  BY <1>1, <1>2
<1>7. CASE h.bal[p] = 0 /\ b = [c EXCEPT !.h = [h EXCEPT !.bal[p] = a], !.shorter = FALSE]
  <2>1. PICK g, w : g = [h EXCEPT !.bal[p] = a] /\ w = G[p]
    OBVIOUS
  <2>6. w = v + 2 /\ G[h.kid[p][a]] = v + 1 /\ G[h.kid[p][d]] = v /\ v \in Nat /\ w \in Nat
    BY <1>5, <1>7, <2>1
  <2>2. Poised(a, w, a, d, G[h.kid[p][a]], G[h.kid[p][d]])
    BY <1>4, <2>6 DEF Poised
  <2>3. Mends(h, E, p, g, p, G[p] - w)
    BY <1>3, <1>4, <1>5, <1>6, <2>1, <2>2, BalMends
  <2>4. G[p] - w = 0
    BY <1>5, <2>1
  <2>5. Mends(h, E, p, g, p, 0) /\ b = [c EXCEPT !.h = g, !.shorter = FALSE]
    BY <1>7, <2>1, <2>3, <2>4
  <2> QED
    BY Zenon, <1>2, <1>3, <1>6, <2>5, StopIs
<1>8. CASE h.bal[p] = d /\ b = [h |-> [h EXCEPT !.bal[p] = 0], p |-> [h EXCEPT !.bal[p] = 0].up[p],
                                d |-> SideOf([h EXCEPT !.bal[p] = 0], p), shorter |-> TRUE]
  <2>1. PICK g, w, j : g = [h EXCEPT !.bal[p] = j] /\ w = v + 1 /\ j = 0
    OBVIOUS
  <2>7. G[h.kid[p][a]] = v /\ G[h.kid[p][d]] = v /\ v \in Nat /\ w \in Nat /\ j \in -1..1
    BY <1>5, <1>8, <2>1
  <2>2. Poised(j, w, a, d, G[h.kid[p][a]], G[h.kid[p][d]]) /\ w \in Nat /\ j \in -1..1
    BY <1>4, <2>1, <2>7 DEF Poised
  <2>3. Mends(h, E, p, g, p, G[p] - w)
    BY <1>3, <1>4, <1>5, <1>6, <2>1, <2>2, BalMends
  <2>4. G[p] - w = 1
    BY <1>5, <1>8, <2>1
  <2>5. Mends(h, E, p, g, p, 1)
    BY <2>3, <2>4
  <2>6. b = [h |-> g, p |-> g.up[p], d |-> SideOf(g, p), shorter |-> TRUE]
    BY <1>8, <2>1
  <2> QED
    BY <1>3, <1>6, <2>5, <2>6, ClimbIs
<1>9. ASSUME h.bal[p] = a
      PROVE  /\ Pivot(h, E, p, q, h.up[p], h.kid[q][d], a, d, SideOf(h, p))
             /\ q \in In(h) /\ Rotate(h, p, a) \in Heaps /\ q \in Node /\ p # q /\ G[q] = v + 2
             /\ G[p] - (v + 2) = 1 /\ G[p] - (v + 3) = 0
  <2>1. q # Nil
    BY <1>5, <1>9
  <2>2. Pivot(h, E, p, q, h.up[p], h.kid[q][d], a, d, SideOf(h, p))
    BY <1>2, <1>3, <1>4, <2>1, PivotIs
  <2>3. q \in In(h)
    BY <2>2 DEF Pivot
  <2>4. Rotate(h, p, a) \in Heaps /\ q \in Node /\ p # q
    BY <2>2, RotateHeap
  <2> QED
    BY <1>5, <1>9, <2>2, <2>3, <2>4
<1>10. CASE /\ h.bal[p] = a /\ h.bal[q] = 0
            /\ b = [c EXCEPT !.h = [Rotate(h, p, a) EXCEPT !.bal[q] = d, !.bal[p] = a], !.shorter = FALSE]
  <2>1. PICK g : g = [Rotate(h, p, a) EXCEPT !.bal[q] = d, !.bal[p] = a]
    OBVIOUS
  <2>6. Rotate(h, p, a) \in Heaps /\ q \in Node /\ p \in Node /\ q # p /\ d \in -1..1 /\ a \in -1..1
    BY <1>3, <1>4, <1>9, <1>10
  <2>2. Weighed2(Rotate(h, p, a), g, q, d, p, a)
    BY Zenon, <2>1, <2>6, TwoBals
  <2>3. Weighed2(Rotate(h, p, a), g, p, a, q, d)
    BY <2>2 DEF Weighed2
  <2>7. Pivot(h, E, p, q, h.up[p], h.kid[q][d], a, d, SideOf(h, p)) /\ v \in Nat /\ G[h.kid[p][d]] = v /\ G[q] = v + 2 /\ h.bal[q] = 0
    BY <1>5, <1>9, <1>10
  <2>4. Mends(h, E, p, g, q, G[p] - (v + 3))
    BY <1>6, <2>3, <2>7, EvenTurn
  <2>5. Mends(h, E, p, g, q, 0) /\ b = [c EXCEPT !.h = g, !.shorter = FALSE]
    BY <1>9, <1>10, <2>1, <2>4
  <2>8. q \in In(h) /\ c.h = h /\ c.p \in h.used
    BY Zenon, <1>2, <1>3, <1>9, <1>10
  <2> QED
    BY Zenon, <1>3, <1>6, <2>5, <2>8, StopIs
<1>11. CASE /\ h.bal[p] = a /\ h.bal[q] = a
            /\ \E g : /\ g = [Rotate(h, p, a) EXCEPT !.bal[q] = 0, !.bal[p] = 0]
                      /\ b = [h |-> g, p |-> g.up[q], d |-> SideOf(g, q), shorter |-> TRUE]
  <2>1. PICK g : /\ g = [Rotate(h, p, a) EXCEPT !.bal[q] = 0, !.bal[p] = 0]
                 /\ b = [h |-> g, p |-> g.up[q], d |-> SideOf(g, q), shorter |-> TRUE]
    BY <1>11
  <2>2. 0 \in -1..1
    OBVIOUS
  <2>3. Weighed2(Rotate(h, p, a), g, q, 0, p, 0)
    BY Zenon, <1>3, <1>9, <1>11, <2>1, <2>2, TwoBals
  <2>4. Weighed2(Rotate(h, p, a), g, p, 0, q, 0)
    BY <2>3 DEF Weighed2
  <2>7. Pivot(h, E, p, q, h.up[p], h.kid[q][d], a, d, SideOf(h, p)) /\ v \in Nat /\ G[h.kid[p][d]] = v /\ G[q] = v + 2 /\ h.bal[q] = a
    BY <1>5, <1>9, <1>11
  <2>5. Mends(h, E, p, g, q, G[p] - (v + 2))
    BY <1>6, <2>4, <2>7, OuterTurn
  <2>6. Mends(h, E, p, g, q, 1)
    BY <1>9, <1>11, <2>5
  <2> QED
    BY <1>3, <1>6, <1>9, <1>11, <2>1, <2>6, ClimbIs
<1>12. CASE /\ h.bal[p] = a /\ h.bal[q] = d
            /\ \E g, r : /\ g = DoubleRotate(h, p, a) /\ r = h.kid[q][d]
                         /\ b = [h |-> g, p |-> g.up[r], d |-> SideOf(g, r), shorter |-> TRUE]
  <2>1. PICK g, r : /\ g = DoubleRotate(h, p, a) /\ r = h.kid[q][d]
                    /\ b = [h |-> g, p |-> g.up[r], d |-> SideOf(g, r), shorter |-> TRUE]
    BY <1>12
  <2>5. Pivot(h, E, p, q, h.up[p], r, a, d, SideOf(h, p)) /\ v \in Nat /\ G[h.kid[p][d]] = v /\ G[q] = v + 2 /\ h.bal[q] = d
    BY <1>5, <1>9, <1>12, <2>1
  <2>2. Mends(h, E, p, g, r, G[p] - (v + 2))
    BY <1>6, <2>1, <2>5, InnerTurn
  <2>3. Mends(h, E, p, g, r, 1)
    BY <1>9, <1>12, <2>2
  <2>4. r \in In(h)
    <3>1. q \in In(h)
      BY <1>9, <1>12
    <3>2. /\ Poised(h.bal[q], G[q], d, a, G[h.kid[q][d]], G[h.kid[q][a]])
          /\ G[h.kid[q][a]] \in Nat
      BY SMTT(30), <1>3, <1>4, <1>6, <1>9, <1>12, <3>1, LeveledAt
    <3>3. G[r] = G[h.kid[q][a]] + 1
      BY <1>12, <2>1, <3>2 DEF Poised
    <3>4. r # Nil
      BY <1>6, <3>2, <3>3 DEF Leveled
    <3> QED
      BY <1>3, <2>1, <3>1, <3>4, KidIs
  <2> QED
    BY <1>3, <1>6, <2>1, <2>3, <2>4, ClimbIs
<1>13. a = -c.d
  BY <1>2
<1> QED
  <2>1. \/ h.bal[p] = 0 /\ b = [c EXCEPT !.h = [h EXCEPT !.bal[p] = a], !.shorter = FALSE]
        \/ h.bal[p] = d /\ b = [h |-> [h EXCEPT !.bal[p] = 0], p |-> [h EXCEPT !.bal[p] = 0].up[p],
                                d |-> SideOf([h EXCEPT !.bal[p] = 0], p), shorter |-> TRUE]
        \/ /\ h.bal[p] = a /\ h.bal[q] = 0
           /\ b = [c EXCEPT !.h = [Rotate(h, p, a) EXCEPT !.bal[q] = d, !.bal[p] = a], !.shorter = FALSE]
        \/ /\ h.bal[p] = a /\ h.bal[q] = a
           /\ \E g : /\ g = [Rotate(h, p, a) EXCEPT !.bal[q] = 0, !.bal[p] = 0]
                     /\ b = [h |-> g, p |-> g.up[q], d |-> SideOf(g, q), shorter |-> TRUE]
        \/ /\ h.bal[p] = a /\ h.bal[q] = d
           /\ \E g, r : /\ g = DoubleRotate(h, p, a) /\ r = h.kid[q][d]
                        /\ b = [h |-> g, p |-> g.up[r], d |-> SideOf(g, r), shorter |-> TRUE]
    BY ZenonT(60), <1>2 DEF ClimbsOn
  <2> QED
    BY <2>1, <1>7, <1>8, <1>10, <1>11, <1>12

LEMMA StepKeeps ==
    ASSUME NEW f, NEW D, NEW c, NEW i \in Nat, Climbs(f, D, c, i)
    PROVE  Climbs(f, D, ShortenStep(c), i + 1)
<1>1. PICK E, G : /\ Keeps(f, D, c.h, E)
                  /\ c.shorter => Leveled(c.h, G, c.p, c.d, 1)
                  /\ ~c.shorter => Leveled(c.h, G, Root, 1, 0)
  BY DEF Climbs
<1>2. c \in Turns /\ c.p \in c.h.used
  BY DEF Climbs
<1>3. CASE ~c.shorter \/ c.p = Root
  <2>1. ShortenStep(c) = c
    BY Zenon, <1>3 DEF ShortenStep
  <2> QED
    BY <1>1, <1>2, <1>3, <2>1 DEF Climbs
<1>4. CASE c.shorter /\ c.p # Root
  <2>1. c.h.bal[c.p] = 0 \/ c.h.bal[c.p] = c.d \/ c.h.bal[c.p] = -c.d
    <3>1. Wired(c.h) /\ c.p \in In(c.h) /\ c.d \in Side
      BY <1>1, <1>2, <1>4 DEF Keeps, In, Turns
    <3>2. Lopsided(c.h, G, c.p, -c.d, c.d, G[c.h.kid[c.p][c.d]])
      BY <1>1, <1>4, <3>1, ShorterSide
    <3> QED
      BY <3>2 DEF Lopsided
  <2>2. ASSUME c.h.bal[c.p] = -c.d
        PROVE  \E q : /\ q = c.h.kid[c.p][-c.d]
                      /\ c.h.bal[q] = 0 \/ c.h.bal[q] = -c.d \/ c.h.bal[q] = c.d
    <3>1. Wired(c.h) /\ c.p \in In(c.h) /\ c.d \in Side /\ -c.d \in Side /\ c.p \in Node
      BY <1>1, <1>2, <1>4, Sides DEF Keeps, In, Turns
    <3>2. Lopsided(c.h, G, c.p, -c.d, c.d, G[c.h.kid[c.p][c.d]])
      BY <1>1, <1>4, <3>1, ShorterSide
    <3>3. PICK q : q = c.h.kid[c.p][-c.d]
      OBVIOUS
    <3>4. G[q] = G[c.h.kid[c.p][c.d]] + 2 /\ G[c.h.kid[c.p][c.d]] \in Nat /\ G[Nil] = 0
      BY <1>1, <1>4, <2>2, <3>2, <3>3 DEF Lopsided, Leveled
    <3>5. q # Nil
      BY <3>4
    <3>6. q \in Node /\ c.h \in Heaps
      BY <3>1, <3>3, <3>5 DEF Wired, Heaps, Ptr
    <3>7. c.h.bal[q] \in -1..1
      BY <3>6 DEF Heaps
    <3>8. c.h.bal[q] = 0 \/ c.h.bal[q] \in Side
      BY <3>7 DEF Side
    <3> QED
      BY SMTT(30), <3>1, <3>3, <3>8, Sides
  <2>3. c.d # 0 /\ -c.d # 0 /\ c.d # -c.d
    BY <1>2, Sides DEF Turns, Side
  <2>4. PICK b : b = ShortenStep(c)
    OBVIOUS
  <2>6. PICK q, y, z, u : q = c.h.kid[c.p][-c.d] /\ y = c.h.bal[c.p] /\ z = c.h.bal[q] /\ u = -c.d
    OBVIOUS
  <2>10. PICK g4, g5, r : /\ g4 = [Rotate(c.h, c.p, -c.d) EXCEPT !.bal[q] = 0, !.bal[c.p] = 0]
                          /\ g5 = DoubleRotate(c.h, c.p, -c.d) /\ r = c.h.kid[q][c.d]
    OBVIOUS
  <2>7. PICK b1, b2, b3, b4, b5 :
           /\ b1 = [c EXCEPT !.h = [c.h EXCEPT !.bal[c.p] = -c.d], !.shorter = FALSE]
           /\ b2 = [h |-> [c.h EXCEPT !.bal[c.p] = 0], p |-> [c.h EXCEPT !.bal[c.p] = 0].up[c.p],
                    d |-> SideOf([c.h EXCEPT !.bal[c.p] = 0], c.p), shorter |-> TRUE]
           /\ b3 = [c EXCEPT !.h = [Rotate(c.h, c.p, -c.d) EXCEPT !.bal[q] = c.d, !.bal[c.p] = -c.d],
                             !.shorter = FALSE]
           /\ b4 = [h |-> g4, p |-> g4.up[q], d |-> SideOf(g4, q), shorter |-> TRUE]
           /\ b5 = [h |-> g5, p |-> g5.up[r], d |-> SideOf(g5, r), shorter |-> TRUE]
    BY Zenon
  <2>8. b = CASE y = 0 -> b1
              [] y = c.d -> b2
              [] y = u /\ z = 0 -> b3
              [] y = u /\ z = u -> b4
              [] y = u /\ z = c.d -> b5
    BY Zenon, <1>4, <2>4, <2>6, <2>7, <2>10 DEF ShortenStep
  <2>9. \/ y = 0 /\ b = b1
        \/ y = c.d /\ b = b2
        \/ y = u /\ z = 0 /\ b = b3
        \/ y = u /\ z = u /\ b = b4
        \/ y = u /\ z = c.d /\ b = b5
    <3>1. 0 # c.d /\ 0 # u /\ c.d # u /\ (y = 0 \/ y = c.d \/ y = u)
      BY <2>1, <2>3, <2>6
    <3>2. y = u => z = 0 \/ z = u \/ z = c.d
      BY <2>2, <2>6
    <3>3. CASE y = 0
      BY <2>8, <3>1, <3>3
    <3>4. CASE y = c.d
      BY <2>8, <3>1, <3>4
    <3>5. CASE y = u /\ z = 0
      BY <2>8, <3>1, <3>5
    <3>6. CASE y = u /\ z = u
      BY <2>8, <3>1, <3>6
    <3>7. CASE y = u /\ z = c.d
      BY <2>8, <3>1, <3>7
    <3> QED
      BY <3>1, <3>2, <3>3, <3>4, <3>5, <3>6, <3>7
  <2>5. ClimbsOn(c, b)
    BY Zenon, <2>6, <2>7, <2>9, <2>10 DEF ClimbsOn
  <2> QED
    BY <1>4, <2>4, <2>5, ClimbsOnKeeps
<1> QED
  BY <1>3, <1>4

(* The whole loop.                                                         *)
LEMMA ShortenIs ==
    ASSUME NEW f, NEW D, Keeps(f, D, f, D), NEW p \in f.used, NEW d \in Side,
           NEW H, Leveled(f, H, p, d, 1)
    PROVE  Rebalanced(f, D, Shorten(f, p, d))
<1>1. PICK l \in Nat : l = MaxLength
  BY Constants
<1>2. PICK s : s = [h |-> f, p |-> p, d |-> d, shorter |-> TRUE]
  OBVIOUS
<1>3. Wired(f) /\ Below(f, D) /\ f \in Heaps /\ p \in Node
  BY DEF Keeps, Wired, Heaps
<1>4. Climbs(f, D, s, 0)
  <2>1. s \in Turns /\ s.p = p /\ s.h = f /\ s.d = d /\ s.shorter = TRUE
    BY <1>2, <1>3 DEF Turns
  <2>2. Cardinality(D[f.kid[p][d]]) >= 0
    <3>1. f.kid[p][d] \in Ptr
      BY <1>3 DEF Heaps
    <3>2. Cardinality(D[f.kid[p][d]]) \in 0..MaxLength
      BY <1>3, <3>1, SubtreeSizes
    <3> QED
      BY <3>2, Constants
  <2> QED
    BY <2>1, <2>2 DEF Climbs
<1> DEFINE Eq(t) == t = [i \in 0..MaxLength |-> IF i = 0 THEN s ELSE ShortenStep(t[i - 1])]
<1>5. \E t : Eq(t)
  <2>1. PICK T, F : /\ T = {c \in Turns : \E i \in Nat : Climbs(f, D, c, i)}
                    /\ F = [i \in 1..l |-> [c \in T |-> ShortenStep(c)]]
    OBVIOUS
  <2>2. s \in T /\ F \in [1..l -> [T -> T]]
    <3>1. ASSUME NEW c \in T PROVE ShortenStep(c) \in T
      <4>1. PICK i \in Nat : Climbs(f, D, c, i)
        BY <2>1
      <4>2. Climbs(f, D, ShortenStep(c), i + 1)
        BY <4>1, StepKeeps
      <4>3. i + 1 \in Nat /\ ShortenStep(c) \in Turns
        BY <4>2 DEF Climbs
      <4> QED
        BY <2>1, <4>2, <4>3
    <3>2. s \in T
      <4>1. s \in Turns /\ 0 \in Nat
        BY <1>4 DEF Climbs
      <4> QED
        BY <1>4, <2>1, <4>1
    <3> QED
      BY <2>1, <3>1, <3>2
  <2>3. PICK g : IsLoop(g, l, T, s, F)
    BY <2>2, LoopExists
  <2>4. \A i \in 0..l : i # 0 => i \in 1..l /\ i - 1 \in 0..l
    OBVIOUS
  <2>5. \A i \in 0..l : i # 0 => F[i][g[i - 1]] = ShortenStep(g[i - 1])
    BY <2>1, <2>3, <2>4 DEF IsLoop
  <2>6. \A i \in 0..l : g[i] = IF i = 0 THEN s ELSE ShortenStep(g[i - 1])
    BY <2>3, <2>4, <2>5 DEF IsLoop
  <2> QED
    BY <1>1, <2>3, <2>6 DEF IsLoop
<1>6. PICK at : at = CHOOSE t : Eq(t)
  OBVIOUS
<1>7. Eq(at)
  <2> HIDE DEF Eq
  <2> QED
    BY <1>5, <1>6
<1>8. at[0] = s /\ \A i \in 1..l : at[i] = ShortenStep(at[i - 1])
  <2>1. \A i \in 1..l : i \in 0..MaxLength /\ i # 0
    BY <1>1
  <2> QED
    BY <1>1, <1>7, <2>1
<1>9. Shorten(f, p, d) = at[l].h
  <2> DEFINE c == CHOOSE t : Eq(t)
  <2>1. Shorten(f, p, d) = c[MaxLength].h
    BY <1>2 DEF Shorten
  <2> HIDE DEF Eq
  <2> QED
    BY <1>1, <1>6, <2>1
<1>10. PICK S : S = {i \in Nat : i <= l => Climbs(f, D, at[i], i)}
  OBVIOUS
<1>11. 0 \in S
  BY <1>4, <1>8, <1>10
<1>12. ASSUME NEW i \in Nat, i \in S PROVE i + 1 \in S
  <2>1. SUFFICES ASSUME i + 1 <= l PROVE Climbs(f, D, at[i + 1], i + 1)
    BY <1>10
  <2>2. i + 1 \in 1..l /\ (i + 1) - 1 = i /\ i <= l
    BY <2>1
  <2>3. at[i + 1] = ShortenStep(at[i])
    BY <1>8, <2>2
  <2>4. Climbs(f, D, at[i], i)
    BY <1>10, <1>12, <2>2
  <2> QED
    BY <2>3, <2>4, StepKeeps
<1>13. l \in S
  BY <1>11, <1>12, AllNumbers
<1>14. Climbs(f, D, at[l], l)
  BY <1>10, <1>13
<1>15. PICK c : c = at[l]
  OBVIOUS
<1>16. PICK F, G : /\ Keeps(f, D, c.h, F)
                   /\ c.shorter => /\ Leveled(c.h, G, c.p, c.d, 1)
                                   /\ c.p # Root => Cardinality(F[c.h.kid[c.p][c.d]]) >= l
                   /\ ~c.shorter => Leveled(c.h, G, Root, 1, 0)
  BY <1>14, <1>15 DEF Climbs
<1>17. ~c.shorter \/ c.p = Root
  <2>1. SUFFICES ASSUME c.shorter, c.p # Root PROVE FALSE
    OBVIOUS
  <2>2. Wired(c.h) /\ Below(c.h, F) /\ c.p \in In(c.h) /\ c.d \in Side
    BY <1>14, <1>15, <1>16, <2>1 DEF Climbs, Turns, Keeps, In
  <2>3. Cardinality(F[c.h.kid[c.p][c.d]]) < Cardinality(F[c.p])
    BY <2>2, SubtreeSizes
  <2>4. c.p \in Ptr /\ c.h.kid[c.p][c.d] \in Ptr
    BY <2>2 DEF In, Wired, Heaps, Ptr
  <2>5. Cardinality(F[c.p]) \in 0..MaxLength /\ Cardinality(F[c.h.kid[c.p][c.d]]) \in 0..MaxLength
    BY <2>2, <2>4, SubtreeSizes
  <2>6. Cardinality(F[c.h.kid[c.p][c.d]]) >= l
    BY <1>16, <2>1
  <2> QED
    BY <1>1, <2>3, <2>5, <2>6
<1>18. Leveled(c.h, G, Root, 1, 0)
  <2>1. CASE ~c.shorter
    BY <1>16, <2>1
  <2>2. CASE c.shorter
    <3>1. Leveled(c.h, G, c.p, c.d, 1) /\ c.p = Root
      BY <1>16, <1>17, <2>2
    <3>2. Root = Root
      OBVIOUS
    <3> QED
      BY <3>1, <3>2, LeveledTop
  <2> QED
    BY <2>1, <2>2
<1> QED
  BY <1>9, <1>15, <1>16, <1>18 DEF Rebalanced

(* g is a tree without the node z.                                         *)
Drops(h, g, z, rk) ==
    /\ Tree(g, rk) /\ g.used = h.used \ {z}
    /\ \A m \in g.used : g.key[m] = h.key[m]

LEMMA UnlinkIs ==
    ASSUME NEW h, NEW D, NEW H, Wired(h), Below(h, D), Leveled(h, H, Root, 1, 0), h.key[Root] = NoKey,
           NEW z \in In(h), Nil \in {h.kid[z][-1], h.kid[z][1]}, SortedBut(h, D, z),
           NEW rk, rk => MaxLength < RankRange /\ RankedBut(h, D, z)
    PROVE  Drops(h, Unlink(h, z), z, rk)
<1>1. PICK c, p, d : /\ c = IF h.kid[z][-1] # Nil THEN h.kid[z][-1] ELSE h.kid[z][1]
                     /\ p = h.up[z] /\ d = SideOf(h, z)
  OBVIOUS
<1>2. Single(h, D, z, c, p, d)
  BY <1>1, SingleIs
<1>3. PICK f, E, g : f = FreeNode(Link(h, p, d, c), z) /\ E = Less(D, z) /\ g = Unlink(h, z)
  OBVIOUS
<1>4. g = Shorten(f, p, d)
  BY <1>1, <1>3 DEF Unlink
<1>5. Cut(h, f, z, c, p, d)
  BY <1>2, <1>3, CutIs
<1>6. Wired(f) /\ Below(f, E) /\ Leveled(f, H, p, d, 1)
  BY <1>2, <1>3, <1>5, CutWired, CutBelow, CutLeveled
<1>7. Sorted(f, E) /\ (rk => MaxLength < RankRange /\ Ranked(f, E))
  BY <1>2, <1>3, <1>5, CutSorted
<1>8. f.used = h.used \ {z} /\ p \in f.used /\ d \in Side
  BY <1>2, <1>5 DEF Cut, Single
<1>9. Keeps(f, E, f, E)
  BY <1>6 DEF Keeps
<1>10. Rebalanced(f, E, g)
  BY <1>4, <1>6, <1>8, <1>9, ShortenIs
<1>11. PICK E2, G : Keeps(f, E, g, E2) /\ Leveled(g, G, Root, 1, 0)
  BY <1>10 DEF Rebalanced
<1>12. g.used = h.used \ {z} /\ \A m \in g.used : g.key[m] = h.key[m]
  <2>1. g.used = f.used /\ g.key = f.key
    BY <1>11 DEF Keeps
  <2>2. \A m \in f.used : m \in Node /\ m # z
    BY <1>6, <1>8 DEF Wired, Heaps
  <2> QED
    BY <1>5, <1>8, <2>1, <2>2 DEF Cut
<1>13. g.key[Root] = NoKey
  <2>1. Root \in f.used
    BY <1>6 DEF Wired
  <2> QED
    BY <1>8, <1>12, <2>1
<1>14. Certified(g, E2, G, rk)
  BY <1>7, <1>11, <1>13 DEF Keeps, Certified
<1> QED
  BY <1>3, <1>12, <1>14 DEF Drops, Tree

(* Keys and ranks matter neither to the pointers nor to the heights.       *)
SameShape(h, g) ==
    g \in Heaps /\ g.used = h.used /\ g.bal = h.bal /\ g.kid = h.kid /\ g.up = h.up

LEMMA ShapeOnly ==
    ASSUME NEW h, NEW g, Wired(h), SameShape(h, g)
    PROVE  /\ Wired(g) /\ In(g) = In(h) /\ Top(g) = Top(h)
           /\ \A D : Below(h, D) => Below(g, D)
           /\ \A H, p, d, e : Leveled(h, H, p, d, e) => Leveled(g, H, p, d, e)
<1>1. In(g) = In(h) /\ Top(g) = Top(h)
  BY DEF SameShape, In, Top
<1>2. Wired(g)
  BY <1>1 DEF SameShape, Wired
<1>3. ASSUME NEW D, Below(h, D) PROVE Below(g, D)
  BY <1>1, <1>3 DEF SameShape, Below
<1>4. ASSUME NEW H, NEW p, NEW d, NEW e, Leveled(h, H, p, d, e) PROVE Leveled(g, H, p, d, e)
  <2>1. ASSUME NEW n, NEW s PROVE Seen(h, H, n, s, p, d, e) = Seen(g, H, n, s, p, d, e)
    BY DEF SameShape, Seen
  <2> QED
    BY <1>1, <1>4, <2>1 DEF SameShape, Leveled
<1> QED
  BY <1>1, <1>2, <1>3, <1>4

(* Two subtrees that share a node are one inside the other.                *)
LEMMA Nested ==
    ASSUME NEW h, NEW D, Wired(h), Below(h, D), NEW u \in In(h), NEW w \in In(h), NEW y,
           y \in D[u], y \in D[w]
    PROVE  u \in D[w] \/ w \in D[u]
<1>1. PICK S : S = {Nil} \cup {n \in In(h) : \A a, b \in D[n] : y \in D[a] /\ y \in D[b] => a \in D[b] \/ b \in D[a]}
  OBVIOUS
<1>2. ASSUME NEW n \in In(h), \A d \in Side : h.kid[n][d] \in S,
             NEW a \in D[n], NEW b \in D[n], y \in D[a], y \in D[b]
      PROVE  a \in D[b] \/ b \in D[a]
  <2>1. PICK l, r : l = h.kid[n][-1] /\ r = h.kid[n][1]
    OBVIOUS
  <2>2. D[n] = {n} \cup D[l] \cup D[r] /\ D[l] \cap D[r] = {} /\ D[Nil] = {}
    BY <2>1 DEF Below
  <2>3. l \in S /\ r \in S
    BY <1>2, <2>1, Sides
  <2>4. CASE a = n \/ b = n
    BY <1>2, <2>4
  <2>5. CASE a \in D[l] /\ b \in D[l]
    BY <1>1, <1>2, <2>2, <2>3, <2>5
  <2>6. CASE a \in D[r] /\ b \in D[r]
    BY <1>1, <1>2, <2>2, <2>3, <2>6
  <2>7. \A c \in Side : \A m \in D[h.kid[n][c]] : D[m] \subseteq D[h.kid[n][c]]
    <3>1. ASSUME NEW c \in Side, NEW m \in D[h.kid[n][c]] PROVE D[m] \subseteq D[h.kid[n][c]]
      <4>1. h.kid[n][c] # Nil
        BY <2>2, <3>1
      <4>2. h.kid[n][c] \in In(h)
        BY <4>1 DEF Wired, In
      <4> QED
        BY <4>2 DEF Below
    <3> QED
      BY <3>1
  <2>8. /\ \A m \in D[l] : D[m] \subseteq D[l]
        /\ \A m \in D[r] : D[m] \subseteq D[r]
    BY <2>1, <2>7, Sides
  <2>9. CASE (a \in D[l] /\ b \in D[r]) \/ (a \in D[r] /\ b \in D[l])
    BY <1>2, <2>2, <2>8, <2>9
  <2> QED
    BY <1>2, <2>2, <2>4, <2>5, <2>6, <2>9
<1>3. \A n \in In(h) : n \in S
  <2>1. ASSUME NEW n \in In(h), \A d \in Side : h.kid[n][d] \in S PROVE n \in S
    BY <1>1, <1>2, <2>1
  <2>2. Nil \in S
    BY <1>1
  <2> QED
    BY <2>1, <2>2, TreeInduction
<1>4. PICK t : t = Top(h) /\ D[t] = In(h)
  BY DEF Below
<1>5. t \in In(h)
  <2>1. t # Nil
    BY <1>4 DEF Below
  <2>2. Root \in h.used /\ 1 \in Side
    BY Sides DEF Wired
  <2> QED
    BY <1>4, <2>1, <2>2 DEF Wired, Top
<1>6. t \in S /\ t # Nil
  BY <1>3, <1>5, NodeIs
<1> QED
  BY <1>1, <1>4, <1>6

(* The last node to the right in the left subtree of x.                    *)
Predecessor(h, D, l, y) ==
    /\ y \in D[l] /\ y \in In(h) /\ h.kid[y][1] = Nil
    /\ \A m \in D[l] : h.key[m] <= h.key[y] /\ y \notin D[h.kid[m][-1]]

LEMMA PredecessorIs ==
    ASSUME NEW h, NEW D, Wired(h), Below(h, D), Sorted(h, D), NEW l \in In(h), NEW y, y = EndOf(h, l, 1)
    PROVE  Predecessor(h, D, l, y)
<1>1. PICK next, path, n : /\ next = [m \in Node |-> h.kid[m][1]] /\ path = Follow(l, next) /\ n = Len(path)
  OBVIOUS
<1>2. \A m \in In(h) : m \in Node /\ next[m] = h.kid[m][1] /\ h.key[m] \in Int
  <2>1. \A m \in In(h) : m \in Node
    BY DEF In, Wired, Heaps
  <2>2. \A m \in In(h) : h.key[m] \in Int
    BY KeyAssumption DEF Sorted
  <2> QED
    BY <1>1, <2>1, <2>2
<1>3. Downward(h, next)
  BY <1>2, Sides DEF Downward
<1>4. Path(h, path, l, next) /\ next[Last(path)] = Nil
  BY <1>1, <1>3, DescentIs
<1>5. /\ n \in Nat \ {0} /\ path[1] = l /\ \A i \in 1..n : path[i] \in In(h)
      /\ \A i \in 1..(n - 1) : path[i + 1] = h.kid[path[i]][1] /\ h.kid[path[i]][1] # Nil
      /\ y = path[n] /\ n \in 1..n /\ 1 \in 1..n
  <2>1. y = Last(path)
    BY <1>1 DEF EndOf
  <2>2. /\ n \in Nat \ {0} /\ path[1] = l /\ \A i \in 1..n : path[i] \in In(h)
        /\ \A i \in 1..(n - 1) : path[i + 1] = next[path[i]] /\ next[path[i]] # Nil
        /\ Last(path) = path[n]
    BY <1>1, <1>4 DEF Path
  <2>3. \A i \in 1..(n - 1) : i \in 1..n
    BY <2>2
  <2>4. \A i \in 1..(n - 1) : path[i + 1] = h.kid[path[i]][1] /\ h.kid[path[i]][1] # Nil
    BY <1>2, <2>2, <2>3
  <2> QED
    BY <2>1, <2>2, <2>4
<1>6. \A j \in 1..n : \A i \in 1..j : path[j] \in D[path[i]]
  BY <1>1, <1>3, <1>4, PathOrder
<1>7. \A i \in 1..n : i \in 1..n /\ path[n] \in D[path[i]]
  BY <1>5, <1>6
<1>8. y \in In(h) /\ y \in D[l] /\ h.kid[y][1] = Nil
  <2>1. y = Last(path)
    BY <1>1 DEF EndOf
  <2>2. y \in In(h) /\ y \in D[l]
    BY <1>5, <1>7
  <2> QED
    BY <1>2, <1>4, <2>1, <2>2
<1>9. ASSUME NEW q \in In(h), y \in D[q] \/ y = q, NEW m \in D[h.kid[q][-1]]
      PROVE  h.key[m] <= h.key[q] /\ m \in In(h) /\ D[h.kid[m][-1]] \subseteq D[h.kid[q][-1]]
  <2>1. h.key[m] <= h.key[q]
    BY DEF Sorted
  <2>2. h.kid[q][-1] # Nil
    BY <1>9 DEF Below
  <2>3. PICK w : w = h.kid[q][-1] /\ w \in In(h)
    BY <2>2, Sides DEF Wired, In
  <2>4. m \in In(h) /\ D[m] \subseteq D[w]
    BY <2>3, <1>9, NodeIs DEF Below
  <2>5. D[h.kid[m][-1]] \subseteq D[m]
    BY <2>4 DEF Below
  <2> QED
    BY <2>1, <2>3, <2>4, <2>5
<1>10. PICK S : S = {i \in Nat : i + 1 <= n => \A m \in D[l] :
                        m \in D[path[i + 1]] \/ (h.key[m] <= h.key[y] /\ y \notin D[h.kid[m][-1]])}
  OBVIOUS
<1>11. 0 \in S
  BY <1>5, <1>10
<1>12. ASSUME NEW i \in Nat, i \in S PROVE i + 1 \in S
  <2>1. SUFFICES ASSUME (i + 1) + 1 <= n, NEW m \in D[l]
                 PROVE  m \in D[path[(i + 1) + 1]] \/ (h.key[m] <= h.key[y] /\ y \notin D[h.kid[m][-1]])
    BY <1>10
  <2>2. i + 1 \in 1..(n - 1) /\ i + 1 \in 1..n /\ (i + 1) + 1 \in 1..n /\ i + 1 <= n
    BY <1>5, <2>1
  <2>3. PICK q, r : q = path[i + 1] /\ r = path[(i + 1) + 1]
    OBVIOUS
  <2>4. q \in In(h) /\ r = h.kid[q][1] /\ y \in D[q] /\ y \in D[r]
    BY <1>5, <1>7, <2>2, <2>3
  <2>5. m \in D[q] \/ (h.key[m] <= h.key[y] /\ y \notin D[h.kid[m][-1]])
    BY <1>10, <1>12, <2>2, <2>3
  <2>6. /\ D[q] = {q} \cup D[h.kid[q][-1]] \cup D[r] /\ D[h.kid[q][-1]] \cap D[r] = {}
    BY <2>4 DEF Below
  <2>7. h.key[q] <= h.key[y] /\ y \notin D[h.kid[q][-1]]
    BY <2>4, <2>6 DEF Sorted
  <2>8. CASE m = q
    BY <2>7, <2>8
  <2>9. CASE m \in D[h.kid[q][-1]]
    <3>1. h.key[m] <= h.key[q] /\ m \in In(h) /\ D[h.kid[m][-1]] \subseteq D[h.kid[q][-1]]
      BY <1>9, <2>4, <2>9
    <3>2. h.key[m] <= h.key[y]
      BY <1>2, <1>8, <2>4, <2>7, <3>1
    <3> QED
      BY <2>7, <3>1, <3>2
  <2> QED
    BY <2>3, <2>5, <2>6, <2>8, <2>9
<1>13. n - 1 \in Nat /\ (n - 1) + 1 = n
  BY <1>5
<1>14. n - 1 \in S
  BY <1>11, <1>12, <1>13, AllNumbers
<1>15. \A m \in D[l] : m \in D[y] \/ (h.key[m] <= h.key[y] /\ y \notin D[h.kid[m][-1]])
  BY <1>5, <1>10, <1>13, <1>14
<1>16. ASSUME NEW m \in D[y] PROVE h.key[m] <= h.key[y] /\ y \notin D[h.kid[m][-1]]
  <2>1. D[y] = {y} \cup D[h.kid[y][-1]] /\ y \notin D[h.kid[y][-1]]
    BY <1>8 DEF Below
  <2>2. CASE m = y
    BY <1>2, <1>8, <2>1, <2>2
  <2>3. CASE m \in D[h.kid[y][-1]]
    BY <1>8, <1>9, <2>1, <2>3
  <2> QED
    BY <2>1, <2>2, <2>3
<1> QED
  BY <1>8, <1>15, <1>16 DEF Predecessor

(* The path of a search for k, which ends at x.                            *)
SearchSide(h, q, k) == IF k < h.key[q] THEN -1 ELSE 1

Sought(h, D, k, path, x) ==
    /\ x \in In(h) /\ ToSet(path) \subseteq In(h)
    /\ \A q \in In(h) : q \in ToSet(path) <=> x \in D[q]
    /\ \A q \in In(h) : q # x /\ x \in D[q] =>
          k # h.key[q] /\ x \in D[h.kid[q][SearchSide(h, q, k)]]
    /\ k = h.key[x] \/ h.kid[x][SearchSide(h, x, k)] = Nil
    /\ Len(path) \in Nat \ {0} /\ x = path[Len(path)] /\ \A i \in 1..Len(path) : path[i] \in In(h)
    /\ \A i \in 1..(Len(path) - 1) :
          /\ path[i + 1] = h.kid[path[i]][SearchSide(h, path[i], k)]
          /\ path[i + 1] # Nil

LEMMA SearchIs ==
    ASSUME NEW h, NEW D, Wired(h), Below(h, D), Top(h) # Nil, NEW k,
           NEW path, path = Search(h, k), NEW x, x = Last(path)
    PROVE  Sought(h, D, k, path, x)
<1>1. PICK next : next = [q \in Node |-> IF k = h.key[q] THEN Nil ELSE h.kid[q][SearchSide(h, q, k)]]
  OBVIOUS
<1>2. path = Follow(Top(h), next)
  BY <1>1 DEF Search, SearchSide
<1>3. /\ \A q \in In(h) : q \in Node /\ next[q] = IF k = h.key[q] THEN Nil ELSE h.kid[q][SearchSide(h, q, k)]
      /\ \A q \in In(h) : SearchSide(h, q, k) \in Side
      /\ Nil \notin In(h)
  BY <1>1, Sides, Constants DEF In, Wired, Heaps, SearchSide
<1>4. Downward(h, next)
  BY <1>3 DEF Downward
<1>5. /\ Path(h, path, Top(h), next)
      /\ x \in In(h) /\ next[x] = Nil
      /\ \A q \in In(h) : q \in ToSet(path) <=> x \in D[q]
      /\ ToSet(path) \subseteq In(h)
      /\ \A q \in In(h) : q # x /\ x \in D[q] => next[q] \in In(h) /\ x \in D[next[q]]
  BY <1>2, <1>4, OnPath
<1>6. \A q \in In(h) : q # x /\ x \in D[q] => k # h.key[q] /\ x \in D[h.kid[q][SearchSide(h, q, k)]]
  BY <1>3, <1>5
<1>7. k = h.key[x] \/ h.kid[x][SearchSide(h, x, k)] = Nil
  BY <1>3, <1>5
<1>8. Len(path) \in Nat \ {0} /\ x = path[Len(path)] /\ \A i \in 1..Len(path) : path[i] \in In(h)
  BY <1>5 DEF Path
<1>9. ASSUME NEW i \in 1..(Len(path) - 1)
      PROVE  path[i + 1] = h.kid[path[i]][SearchSide(h, path[i], k)] /\ path[i + 1] # Nil
  <2>1. path[i + 1] = next[path[i]] /\ next[path[i]] # Nil
    BY <1>5 DEF Path
  <2>2. path[i] \in In(h)
    BY <1>8
  <2> QED
    BY <1>3, <2>1, <2>2
<1> QED
  BY <1>5, <1>6, <1>7, <1>8, <1>9 DEF Sought

(* Ranks, as they are when x is gone.                                      *)
RankedLess(h, D, x) == \A n \in In(h) : h.rank[n] = Cardinality(D[h.kid[n][-1]] \ {x}) + 1

Lowered(h, g, ns) ==
    \A n \in Node : g.rank[n] = IF n \in ns THEN (h.rank[n] + -1) % RankRange ELSE h.rank[n]

LEMMA RankDownIs ==
    ASSUME NEW h \in Heaps, NEW ns, NEW g, g = AddRank(h, ns, -1)
    PROVE  SameButRank(h, g) /\ Lowered(h, g, ns)
<1>1. -1 \in Int
  OBVIOUS
<1>2. PICK i \in Int : i = -1
  BY <1>1
<1>3. g = AddRank(h, ns, i)
  BY <1>2
<1>4. /\ g \in Heaps
      /\ g.used = h.used /\ g.key = h.key /\ g.bal = h.bal /\ g.kid = h.kid /\ g.up = h.up
      /\ \A n \in Node : g.rank[n] = IF n \in ns THEN (h.rank[n] + i) % RankRange ELSE h.rank[n]
  BY <1>3, AddRankIs
<1> QED
  BY <1>2, <1>4 DEF SameButRank, Lowered

(* The search for a key lowers the ranks of the nodes it leaves to the     *)
(* left.                                                                   *)
LEMMA SearchRanks ==
    ASSUME NEW h, NEW D, Wired(h), Below(h, D), NEW k, NEW path, NEW x, Sought(h, D, k, path, x),
           NEW ns, ns = {n \in ToSet(path) : k < h.key[n]}, k = h.key[x], h.key[x] \in Key
    PROVE  \A n \in In(h) : n \in ns <=> x \in D[h.kid[n][-1]]
<1>1. ~(k < h.key[x])
  <2>1. PICK j : j = h.key[x] /\ j \in Nat
    BY KeyAssumption
  <2>2. ~(j < j)
    BY <2>1
  <2> QED
    BY <2>1, <2>2
<1>2. ASSUME NEW n \in In(h), n \in ns PROVE x \in D[h.kid[n][-1]]
  <2>1. x \in D[n] /\ k < h.key[n] /\ n # x
    BY <1>1, <1>2 DEF Sought
  <2>2. x \in D[h.kid[n][SearchSide(h, n, k)]]
    BY <2>1 DEF Sought
  <2> QED
    BY <2>1, <2>2 DEF SearchSide
<1>3. ASSUME NEW n \in In(h), x \in D[h.kid[n][-1]] PROVE n \in ns
  <2>1. x \in D[n] /\ n # x /\ D[h.kid[n][-1]] \cap D[h.kid[n][1]] = {}
    BY <1>3 DEF Below
  <2>2. x \in D[h.kid[n][SearchSide(h, n, k)]] /\ n \in ToSet(path)
    BY <2>1 DEF Sought
  <2>3. SearchSide(h, n, k) # 1
    BY <1>3, <2>1, <2>2
  <2>4. k < h.key[n]
    BY <2>3 DEF SearchSide
  <2> QED
    BY <2>2, <2>4
<1> QED
  BY <1>2, <1>3

LEMMA LoweredLess ==
    ASSUME NEW h, NEW D, Wired(h), Below(h, D), Ranked(h, D), MaxLength < RankRange,
           NEW g, SameButRank(h, g), NEW ns, Lowered(h, g, ns), NEW x,
           \A n \in In(h) : n \in ns <=> x \in D[h.kid[n][-1]]
    PROVE  RankedLess(g, D, x)
<1>1. In(g) = In(h) /\ g.kid = h.kid
  BY DEF SameButRank, In
<1>2. ASSUME NEW n \in In(g) PROVE g.rank[n] = Cardinality(D[g.kid[n][-1]] \ {x}) + 1
  <2>1. n \in In(h) /\ n \in Node
    BY <1>1 DEF In, Wired, Heaps
  <2>2. PICK S, c : S = D[h.kid[n][-1]] /\ c = Cardinality(S)
    OBVIOUS
  <2>3. h.kid[n][-1] \in Ptr
    BY <2>1, Sides DEF Wired, Heaps
  <2>4. IsFiniteSet(S) /\ c \in 0..MaxLength
    BY <2>2, <2>3, SubtreeSizes
  <2>5. h.rank[n] = c + 1
    BY <2>1, <2>2 DEF Ranked
  <2>6. g.rank[n] = IF n \in ns THEN (h.rank[n] + -1) % RankRange ELSE h.rank[n]
    BY <2>1 DEF Lowered
  <2>7. CASE x \in S
    <3>1. n \in ns
      BY <2>1, <2>2, <2>7
    <3>2. g.rank[n] = (c + 1 + -1) % RankRange
      BY <2>5, <2>6, <3>1
    <3>3. c + 1 + -1 = c /\ c \in 0..(RankRange - 1) /\ c \in Int
      BY <2>4, Constants
    <3>4. c % RankRange = c
      BY <3>3, Constants
    <3>5. g.rank[n] = c
      BY <3>2, <3>3, <3>4
    <3>6. Cardinality(S \ {x}) = c - 1
      BY <2>2, <2>4, <2>7, FS_RemoveElement
    <3> QED
      BY <1>1, <2>2, <3>3, <3>5, <3>6
  <2>8. CASE x \notin S
    <3>1. n \notin ns /\ S \ {x} = S
      BY <2>1, <2>2, <2>8
    <3> QED
      BY <1>1, <2>2, <2>5, <2>6, <3>1
  <2> QED
    BY <2>7, <2>8
<1> QED
  BY <1>2 DEF RankedLess

(* The keys of x and y are traded, and x counts one node less.             *)
Swapped(h, g, x, y) ==
    /\ SameShape(h, g)
    /\ \A m \in Node : g.key[m] = IF m = x THEN h.key[y] ELSE IF m = y THEN h.key[x] ELSE h.key[m]
    /\ Lowered(h, g, {x})

LEMMA SwapIs ==
    ASSUME NEW h \in Heaps, NEW x \in Node, NEW y \in Node, x # y,
           NEW g, g = AddRank([h EXCEPT !.key[x] = h.key[y], !.key[y] = h.key[x]], {x}, -1)
    PROVE  Swapped(h, g, x, y)
<1>1. PICK f : f = [h EXCEPT !.key[x] = h.key[y], !.key[y] = h.key[x]]
  OBVIOUS
<1>2. /\ f = [used |-> f.used, kid |-> f.kid, up |-> f.up, key |-> f.key, bal |-> f.bal, rank |-> f.rank]
      /\ f.used = h.used /\ f.kid = h.kid /\ f.up = h.up /\ f.bal = h.bal /\ f.rank = h.rank
      /\ f.key = [[h.key EXCEPT ![x] = h.key[y]] EXCEPT ![y] = h.key[x]]
  BY <1>1 DEF Heaps
<1>3. f \in Heaps
  BY <1>2 DEF Heaps
<1>4. \A m \in Node : f.key[m] = IF m = x THEN h.key[y] ELSE IF m = y THEN h.key[x] ELSE h.key[m]
  BY <1>2 DEF Heaps
<1>5. SameButRank(f, g) /\ Lowered(f, g, {x})
  BY <1>1, <1>3, RankDownIs
<1> QED
  BY ZenonT(60), <1>2, <1>4, <1>5 DEF SameButRank, Lowered, Swapped, SameShape

(* What x and its predecessor y are.                                       *)
Trade(h, D, x, l, y) ==
    /\ Wired(h) /\ Below(h, D) /\ Sorted(h, D) /\ x \in In(h) /\ l = h.kid[x][-1] /\ l \in In(h)
    /\ Predecessor(h, D, l, y)
    /\ x # y /\ x \in Node /\ y \in Node /\ y \in D[x] /\ x \notin D[l] /\ y \notin D[h.kid[x][1]]
    /\ D[x] = {x} \cup D[l] \cup D[h.kid[x][1]]

LEMMA TradeIs ==
    ASSUME NEW h, NEW D, Wired(h), Below(h, D), Sorted(h, D), NEW x \in In(h),
           NEW l, l = h.kid[x][-1], l # Nil, NEW y, y = EndOf(h, l, 1)
    PROVE  Trade(h, D, x, l, y)
<1>1. l \in In(h)
  BY Sides DEF Wired, In
<1>2. Predecessor(h, D, l, y)
  BY <1>1, PredecessorIs
<1>3. /\ D[x] = {x} \cup D[l] \cup D[h.kid[x][1]] /\ x \notin D[l] /\ D[l] \cap D[h.kid[x][1]] = {}
  BY DEF Below
<1>4. y \in D[l] /\ y \in In(h)
  BY <1>2 DEF Predecessor
<1>5. x \in Node /\ y \in Node
  BY <1>4, NodeIs
<1> QED
  BY <1>1, <1>2, <1>3, <1>4, <1>5 DEF Trade

LEMMA SwapSorted ==
    ASSUME NEW h, NEW D, NEW x, NEW l, NEW y, Trade(h, D, x, l, y), NEW g, Swapped(h, g, x, y)
    PROVE  SortedBut(g, D, y)
<1>1. /\ Wired(h) /\ Below(h, D) /\ x \in In(h) /\ l = h.kid[x][-1] /\ x # y /\ x \in Node /\ y \in Node
      /\ y \in D[x] /\ x \notin D[l] /\ y \in D[l] /\ y \in In(h)
      /\ \A m \in D[l] : h.key[m] <= h.key[y]
  BY DEF Trade, Predecessor
<1>2. In(g) = In(h) /\ g.kid = h.kid
  BY DEF Swapped, SameShape, In
<1>3. /\ \A n \in In(h) : n \in Node
      /\ \A n \in In(h) : \A m \in D[h.kid[n][-1]] : m \in Node /\ m \in In(h)
      /\ \A n \in In(h) : \A m \in D[h.kid[n][1]] : m \in Node /\ m \in In(h)
  <2>1. \A n \in In(h) : n \in Node
    BY <1>1 DEF In, Wired, Heaps
  <2>2. \A n \in In(h) : \A s \in Side : h.kid[n][s] \in Ptr
    BY <1>1, <2>1 DEF Wired, Heaps
  <2>3. \A n \in In(h) : \A s \in Side : D[h.kid[n][s]] \subseteq In(h)
    BY <1>1, <2>2 DEF Below
  <2> QED
    BY <2>1, <2>3, Sides
<1>4. /\ \A n \in In(h) : h.key[n] \in Key /\ h.key[n] \in Nat
      /\ \A n \in In(h) : \A m \in D[h.kid[n][-1]] : h.key[m] <= h.key[n]
      /\ \A n \in In(h) : \A m \in D[h.kid[n][1]] : h.key[n] <= h.key[m]
  BY KeyAssumption DEF Trade, Sorted
<1>5. \A m \in Node : g.key[m] = IF m = x THEN h.key[y] ELSE IF m = y THEN h.key[x] ELSE h.key[m]
  BY DEF Swapped
<1>6. ASSUME NEW n \in In(h), n # y
      PROVE  /\ g.key[n] \in Key
             /\ \A m \in D[h.kid[n][-1]] \ {y} : g.key[m] <= g.key[n]
             /\ \A m \in D[h.kid[n][1]] \ {y} : g.key[n] <= g.key[m]
  <2>1. n \in Node /\ g.key[x] = h.key[y] /\ h.key[y] <= h.key[x]
    BY <1>1, <1>3, <1>4, <1>5
  <2>2. CASE n = x
    <3>1. g.key[n] = h.key[y]
      BY <2>1, <2>2
    <3>2. ASSUME NEW m \in D[h.kid[n][-1]] \ {y} PROVE g.key[m] <= g.key[n]
      BY <1>1, <1>3, <1>5, <2>2, <3>1
    <3>3. ASSUME NEW m \in D[h.kid[n][1]] \ {y} PROVE g.key[n] <= g.key[m]
      <4>1. m # x
        BY <1>1, <2>2 DEF Below
      <4>2. g.key[m] = h.key[m] /\ m \in In(h)
        BY <1>3, <1>5, <4>1
      <4>3. h.key[x] <= h.key[m]
        BY <1>4, <2>2
      <4> QED
        BY <1>1, <1>4, <2>1, <3>1, <4>2, <4>3
    <3> QED
      BY <1>1, <1>4, <3>1, <3>2, <3>3
  <2>3. CASE n # x
    <3>1. g.key[n] = h.key[n]
      BY <1>5, <1>6, <2>1, <2>3
    <3>2. ASSUME NEW m \in D[h.kid[n][-1]] \ {y} PROVE g.key[m] <= g.key[n]
      <4>1. CASE m = x
        <5>1. y \in D[h.kid[n][-1]]
          <6>1. h.kid[n][-1] # Nil
            BY <1>1, <3>2 DEF Below
          <6>2. h.kid[n][-1] \in In(h)
            BY <1>1, <6>1, Sides DEF Wired, In
          <6> QED
            BY <1>1, <3>2, <4>1, <6>2 DEF Below
        <5> QED
          BY <1>4, <2>1, <3>1, <4>1, <5>1
      <4>2. CASE m # x
        BY <1>3, <1>4, <1>5, <3>1, <3>2, <4>2
      <4> QED
        BY <4>1, <4>2
    <3>3. ASSUME NEW m \in D[h.kid[n][1]] \ {y} PROVE g.key[n] <= g.key[m]
      <4>1. CASE m = x
        <5>1. y \in D[h.kid[n][1]]
          <6>1. h.kid[n][1] # Nil
            BY <1>1, <3>3 DEF Below
          <6>2. h.kid[n][1] \in In(h)
            BY <1>1, <6>1, Sides DEF Wired, In
          <6> QED
            BY <1>1, <3>3, <4>1, <6>2 DEF Below
        <5> QED
          BY <1>4, <2>1, <3>1, <4>1, <5>1
      <4>2. CASE m # x
        BY <1>3, <1>4, <1>5, <3>1, <3>3, <4>2
      <4> QED
        BY <4>1, <4>2
    <3> QED
      BY <1>4, <3>1, <3>2, <3>3
  <2> QED
    BY <2>2, <2>3
<1> QED
  BY <1>2, <1>6 DEF SortedBut

LEMMA SwapRanked ==
    ASSUME NEW h, NEW D, NEW x, NEW l, NEW y, Trade(h, D, x, l, y), NEW g, Swapped(h, g, x, y),
           RankedLess(h, D, x), MaxLength < RankRange
    PROVE  RankedBut(g, D, y)
<1>1. /\ Wired(h) /\ Below(h, D) /\ x \in In(h) /\ l = h.kid[x][-1] /\ x # y /\ x \in Node /\ y \in Node
      /\ l \in In(h) /\ D[x] = {x} \cup D[l] \cup D[h.kid[x][1]] /\ y \notin D[h.kid[x][1]]
      /\ y \in D[x] /\ x \notin D[l] /\ y \in D[l] /\ y \in In(h)
      /\ \A m \in D[l] : y \notin D[h.kid[m][-1]]
  BY DEF Trade, Predecessor
<1>2. In(g) = In(h) /\ g.kid = h.kid /\ Lowered(h, g, {x})
  BY DEF Swapped, SameShape, In
<1>3. ASSUME NEW n \in In(h), n # x PROVE D[h.kid[n][-1]] \ {x} = D[h.kid[n][-1]] \ {y} \/ (x \in D[h.kid[n][-1]] /\ y \in D[h.kid[n][-1]])
  <2>1. PICK w : w = h.kid[n][-1]
    OBVIOUS
  <2>2. CASE w = Nil
    BY <1>1, <2>1, <2>2 DEF Below
  <2>3. CASE w # Nil
    <3>1. w \in In(h) /\ h.up[w] = n /\ n \in h.used
      BY <1>1, <2>1, <2>3, Sides DEF Wired, In
    <3>2. CASE x \in D[w]
      BY <1>1, <2>1, <3>1, <3>2 DEF Below
    <3>3. CASE x \notin D[w] /\ y \in D[w]
      <4>1. w \in D[x]
        BY <1>1, <3>1, <3>3, Nested
      <4>2. w # x
        BY <1>1, <3>1, <3>3, NodeIs
      <4>3. n \in D[x]
        BY <1>1, <3>1, <4>1, <4>2 DEF Below
      <4>4. n \notin D[l]
        BY <1>1, <2>1, <3>3
      <4>5. n \in D[h.kid[x][1]]
        BY <1>1, <1>3, <4>3, <4>4
      <4>6. h.kid[x][1] \in In(h)
        <5>1. h.kid[x][1] # Nil
          BY <1>1, <4>5 DEF Below
        <5> QED
          BY <1>1, <5>1, Sides DEF Wired, In
      <4>7. y \in D[h.kid[x][1]]
        <5>1. D[n] \subseteq D[h.kid[x][1]]
          BY <1>1, <4>5, <4>6 DEF Below
        <5>2. D[w] \subseteq D[n]
          BY <1>1, <1>3, <2>1 DEF Below
        <5> QED
          BY <3>3, <5>1, <5>2
      <4> QED
        BY <1>1, <4>7
    <3>4. CASE x \notin D[w] /\ y \notin D[w]
      BY <2>1, <3>4
    <3> QED
      BY <3>2, <3>3, <3>4
  <2> QED
    BY <2>2, <2>3
<1>4. ASSUME NEW n \in In(h), n # y PROVE g.rank[n] = Cardinality(D[h.kid[n][-1]] \ {y}) + 1
  <2>1. n \in Node /\ h.kid[n][-1] \in Ptr
    BY <1>1, <1>4, Sides DEF In, Wired, Heaps
  <2>2. PICK S, c : S = D[h.kid[n][-1]] /\ c = Cardinality(S)
    OBVIOUS
  <2>3. IsFiniteSet(S) /\ c \in 0..MaxLength
    BY <1>1, <2>1, <2>2, SubtreeSizes
  <2>4. h.rank[n] = Cardinality(S \ {x}) + 1
    BY <2>2 DEF RankedLess
  <2>5. g.rank[n] = IF n \in {x} THEN (h.rank[n] + -1) % RankRange ELSE h.rank[n]
    BY <1>2, <2>1 DEF Lowered
  <2>6. CASE n = x
    <3>1. S \ {x} = S /\ y \in S
      BY <1>1, <2>2, <2>6
    <3>2. g.rank[n] = (c + 1 + -1) % RankRange
      BY <2>2, <2>4, <2>5, <2>6, <3>1
    <3>3. c + 1 + -1 = c /\ c \in 0..(RankRange - 1) /\ c \in Int
      BY <2>3, Constants
    <3>4. c % RankRange = c
      BY <3>3, Constants
    <3>5. Cardinality(S \ {y}) = c - 1
      BY <2>2, <2>3, <3>1, FS_RemoveElement
    <3> QED
      BY SMTT(30), <2>2, <3>2, <3>3, <3>4, <3>5
  <2>7. CASE n # x
    <3>1. g.rank[n] = Cardinality(S \ {x}) + 1
      BY <2>4, <2>5, <2>7
    <3>2. S \ {x} = S \ {y} \/ (x \in S /\ y \in S)
      BY <1>3, <2>2, <2>7
    <3>3. CASE x \in S /\ y \in S
      <4>1. Cardinality(S \ {x}) = c - 1 /\ Cardinality(S \ {y}) = c - 1
        BY <2>2, <2>3, <3>3, FS_RemoveElement
      <4> QED
        BY <2>2, <3>1, <4>1
    <3> QED
      BY <2>2, <3>1, <3>2, <3>3
  <2> QED
    BY <2>6, <2>7
<1> QED
  BY <1>2, <1>4 DEF RankedBut

(* g is a tree in which the node z is gone, and x, which had key k, has    *)
(* the key of z.                                                           *)
Removes(h, g, k, rk) ==
    \E x, z \in In(h) :
        /\ h.key[x] = k
        /\ Tree(g, rk) /\ g.used = h.used \ {z}
        /\ \A m \in g.used : g.key[m] = IF m = x THEN h.key[z] ELSE h.key[m]

LEMMA RemovedOne ==
    ASSUME NEW h, NEW D, NEW H, NEW rk, Certified(h, D, H, rk), rk => MaxLength < RankRange,
           NEW x \in In(h), NEW f, SameButRank(h, f), rk => RankedLess(f, D, x),
           Nil \in {h.kid[x][-1], h.kid[x][1]}
    PROVE  Removes(h, TakeOut(f, x), h.key[x], rk)
<1>1. Wired(h) /\ Below(h, D) /\ Sorted(h, D) /\ Leveled(h, H, Root, 1, 0) /\ h.key[Root] = NoKey
  BY DEF Certified
<1>2. Wired(f) /\ In(f) = In(h) /\ Below(f, D) /\ Sorted(f, D) /\ Leveled(f, H, Root, 1, 0)
  BY <1>1, RankOnly
<1>3. f.key = h.key /\ f.kid = h.kid /\ f.used = h.used
  BY DEF SameButRank
<1>4. SortedBut(f, D, x)
  BY <1>2 DEF Sorted, SortedBut
<1>5. rk => MaxLength < RankRange /\ RankedBut(f, D, x)
  BY DEF RankedLess, RankedBut
<1>6. PICK g : g = TakeOut(f, x)
  OBVIOUS
<1>7. g = Unlink(f, x)
  BY <1>3, <1>6 DEF TakeOut
<1>8. Drops(f, g, x, rk)
  BY <1>1, <1>2, <1>3, <1>4, <1>5, <1>7, UnlinkIs
<1>9. Tree(g, rk) /\ g.used = h.used \ {x} /\ \A m \in g.used : g.key[m] = IF m = x THEN h.key[x] ELSE h.key[m]
  BY <1>3, <1>8 DEF Drops
<1> QED
  BY <1>6, <1>9 DEF Removes

LEMMA RemovedTwo ==
    ASSUME NEW h, NEW D, NEW H, NEW rk, Certified(h, D, H, rk), rk => MaxLength < RankRange,
           NEW x \in In(h), NEW f, SameButRank(h, f), rk => RankedLess(f, D, x),
           Nil \notin {h.kid[x][-1], h.kid[x][1]}
    PROVE  Removes(h, TakeOut(f, x), h.key[x], rk)
<1>1. Wired(h) /\ Below(h, D) /\ Sorted(h, D) /\ Leveled(h, H, Root, 1, 0) /\ h.key[Root] = NoKey
  BY DEF Certified
<1>2. Wired(f) /\ In(f) = In(h) /\ Below(f, D) /\ Sorted(f, D) /\ Leveled(f, H, Root, 1, 0)
  BY <1>1, RankOnly
<1>3. f.key = h.key /\ f.kid = h.kid /\ f.used = h.used /\ f \in Heaps
  BY DEF SameButRank
<1>4. PICK l, y, f1, g : /\ l = f.kid[x][-1] /\ y = EndOf(f, l, 1)
                         /\ f1 = AddRank([f EXCEPT !.key[x] = f.key[y], !.key[y] = f.key[x]], {x}, -1)
                         /\ g = TakeOut(f, x)
  BY Zenon
<1>5. g = Unlink(f1, y)
  BY <1>3, <1>4 DEF TakeOut
<1>6. Trade(f, D, x, l, y)
  <2>1. l # Nil
    BY <1>3, <1>4
  <2> QED
    BY <1>2, <1>4, <2>1, TradeIs
<1>7. x # y /\ x \in Node /\ y \in Node /\ y \in In(f) /\ f.kid[y][1] = Nil
  BY <1>6 DEF Trade, Predecessor
<1>8. Swapped(f, f1, x, y)
  BY Zenon, <1>3, <1>4, <1>7, SwapIs
<1>9. SortedBut(f1, D, y)
  BY <1>6, <1>8, SwapSorted
<1>10. rk => MaxLength < RankRange /\ RankedBut(f1, D, y)
  BY <1>6, <1>8, SwapRanked
<1>11. /\ Wired(f1) /\ In(f1) = In(f) /\ Below(f1, D) /\ Leveled(f1, H, Root, 1, 0)
       /\ f1.kid = f.kid /\ f1.used = f.used
  <2>1. SameShape(f, f1)
    BY <1>8 DEF Swapped
  <2>2. Wired(f1) /\ In(f1) = In(f) /\ Below(f1, D) /\ Leveled(f1, H, Root, 1, 0)
    BY <1>2, <2>1, ShapeOnly
  <2> QED
    BY <2>1, <2>2 DEF SameShape
<1>12. /\ \A m \in Node : f1.key[m] = IF m = x THEN h.key[y] ELSE IF m = y THEN h.key[x] ELSE h.key[m]
  BY <1>3, <1>8 DEF Swapped
<1>13. f1.key[Root] = NoKey
  BY <1>1, <1>2, <1>7, <1>12, Constants DEF In
<1>14. Drops(f1, g, y, rk)
  <2>1. y \in In(f1) /\ Nil \in {f1.kid[y][-1], f1.kid[y][1]}
    BY <1>7, <1>11
  <2> QED
    BY <1>5, <1>9, <1>10, <1>11, <1>13, <2>1, UnlinkIs
<1>15. Tree(g, rk) /\ g.used = h.used \ {y} /\ \A m \in g.used : g.key[m] = IF m = x THEN h.key[y] ELSE h.key[m]
  <2>1. h.used \subseteq Node
    BY <1>1 DEF Wired, Heaps
  <2> QED
    BY <1>3, <1>11, <1>12, <1>14, <2>1 DEF Drops
<1>16. y \in In(h)
  BY <1>2, <1>7
<1> QED
  BY <1>4, <1>15, <1>16 DEF Removes

(* A search of a tree that has nodes.                                      *)
LEMMA FoundIs ==
    ASSUME NEW h, NEW D, Wired(h), Below(h, D), NEW k, NEW path, path = Search(h, k)
    PROVE  /\ Top(h) = Nil <=> path = << >>
           /\ Top(h) # Nil => Sought(h, D, k, path, Last(path))
<1>1. CASE Top(h) = Nil
  BY <1>1 DEF Search, Follow
<1>2. CASE Top(h) # Nil
  <2>1. PICK x : x = Last(path)
    OBVIOUS
  <2>2. Sought(h, D, k, path, x)
    BY <1>2, <2>1, SearchIs
  <2>3. path # << >>
    BY <2>2 DEF Sought
  <2> QED
    BY <1>2, <2>1, <2>2, <2>3
<1> QED
  BY <1>1, <1>2

LEMMA DeletedIs ==
    ASSUME NEW h, NEW rk, Tree(h, rk), rk => MaxLength < RankRange, NEW k, Found(h, k)
    PROVE  Removes(h, Deleted(h, k), k, rk)
<1>1. PICK D, H : Certified(h, D, H, rk)
  BY DEF Tree
<1>2. Wired(h) /\ Below(h, D) /\ Sorted(h, D) /\ h \in Heaps
  BY <1>1 DEF Certified, Wired
<1>3. PICK path, x, ns, f : /\ path = Search(h, k) /\ x = Last(path)
                            /\ ns = {n \in ToSet(path) : k < h.key[n]} /\ f = AddRank(h, ns, -1)
  OBVIOUS
<1>4. path # << >> /\ h.key[x] = k
  BY <1>3 DEF Found
<1>5. Sought(h, D, k, path, x)
  BY <1>2, <1>3, <1>4, FoundIs
<1>6. x \in In(h) /\ h.key[x] \in Key
  BY <1>2, <1>5 DEF Sought, Sorted
<1>7. SameButRank(h, f) /\ Lowered(h, f, ns)
  BY <1>2, <1>3, RankDownIs
<1>8. \A n \in In(h) : n \in ns <=> x \in D[h.kid[n][-1]]
  BY <1>2, <1>3, <1>4, <1>5, <1>6, SearchRanks
<1>9. rk => RankedLess(f, D, x)
  <2>1. SUFFICES ASSUME rk PROVE RankedLess(f, D, x)
    OBVIOUS
  <2>2. Ranked(h, D) /\ MaxLength < RankRange
    BY <1>1, <2>1 DEF Certified
  <2> QED
    BY <1>2, <1>7, <1>8, <2>2, LoweredLess
<1>10. Deleted(h, k) = TakeOut(f, x)
  BY <1>3 DEF Deleted, RankDown
<1>11. Removes(h, TakeOut(f, x), h.key[x], rk)
  <2>1. CASE Nil \in {h.kid[x][-1], h.kid[x][1]}
    BY <1>1, <1>6, <1>7, <1>9, <2>1, RemovedOne
  <2>2. CASE Nil \notin {h.kid[x][-1], h.kid[x][1]}
    BY <1>1, <1>6, <1>7, <1>9, <2>2, RemovedTwo
  <2> QED
    BY <2>1, <2>2
<1> QED
  BY <1>4, <1>10, <1>11

(* What a search that fails does to the ranks is put back if it ends on    *)
(* the left.                                                               *)
LEMMA MissIs ==
    ASSUME NEW h, NEW rk, Tree(h, rk), NEW k, NEW path, path = Search(h, k), path # << >>, ~Found(h, k),
           rk => MaxLength < RankRange /\ k < h.key[Last(path)]
    PROVE  LET g == UndoRanks(RankDown(h, path, k), path) IN SameButRank(h, g) /\ Tree(g, rk)
<1>1. PICK D, H : Certified(h, D, H, rk)
  BY DEF Tree
<1>2. Wired(h) /\ Below(h, D) /\ Sorted(h, D) /\ h \in Heaps /\ Leveled(h, H, Root, 1, 0) /\ h.key[Root] = NoKey
  BY <1>1 DEF Certified, Wired
<1>3. PICK x, l, ns, us, f, g :
          /\ x = Last(path) /\ l = Len(path)
          /\ ns = {n \in ToSet(path) : k < h.key[n]} /\ f = AddRank(h, ns, -1)
          /\ us = {x} \cup {path[i] : i \in {j \in 1..(Len(path) - 1) : f.kid[path[j]][-1] = path[j + 1]}}
          /\ g = AddRank(f, us, 1)
  OBVIOUS
<1>4. g = UndoRanks(RankDown(h, path, k), path)
  BY <1>3 DEF UndoRanks, RankDown
<1>5. Sought(h, D, k, path, x)
  BY <1>2, <1>3, FoundIs
<1>6. SameButRank(h, f) /\ Lowered(h, f, ns)
  BY <1>2, <1>3, RankDownIs
<1>7. f \in Heaps /\ f.kid = h.kid
  BY <1>6 DEF SameButRank
<1>8. /\ SameButRank(f, g)
      /\ \A n \in Node : g.rank[n] = IF n \in us THEN (f.rank[n] + 1) % RankRange ELSE f.rank[n]
  <2>1. g = AddRank(f, us, 1) /\ 1 \in Int
    BY <1>3
  <2> QED
    BY <1>7, <2>1, AddRankIs DEF SameButRank
<1>9. SameButRank(h, g)
  BY <1>6, <1>8 DEF SameButRank
<1>10. Wired(g) /\ In(g) = In(h) /\ Below(g, D) /\ Sorted(g, D) /\ Leveled(g, H, Root, 1, 0)
  BY <1>2, <1>9, RankOnly
<1>11. ASSUME rk PROVE Ranked(g, D)
  <2>1. ns = us
    <3>1. /\ l \in Nat \ {0} /\ x = path[l] /\ \A i \in 1..l : path[i] \in In(h)
          /\ \A i \in 1..(l - 1) : /\ path[i + 1] = h.kid[path[i]][SearchSide(h, path[i], k)]
                                   /\ path[i + 1] # Nil
      BY <1>3, <1>5 DEF Sought
    <3>2. ToSet(path) = {path[i] : i \in 1..l}
      BY <1>3 DEF ToSet
    <3>3. us = {x} \cup {path[i] : i \in {j \in 1..(l - 1) : h.kid[path[j]][-1] = path[j + 1]}}
      BY <1>3, <1>7
    <3>4. k < h.key[x]
      BY <1>3, <1>11
    <3>5. ASSUME NEW i \in 1..(l - 1) PROVE h.kid[path[i]][-1] = path[i + 1] <=> k < h.key[path[i]]
      <4>1. PICK q, r : q = path[i] /\ r = path[i + 1]
        OBVIOUS
      <4>2. i \in 1..l /\ q \in In(h)
        BY <3>1, <4>1
      <4>3. r = h.kid[q][SearchSide(h, q, k)] /\ r # Nil
        BY <3>1, <4>1
      <4>4. CASE k < h.key[q]
        BY <4>1, <4>3, <4>4 DEF SearchSide
      <4>5. CASE ~(k < h.key[q])
        <5>1. r = h.kid[q][1]
          BY <4>3, <4>5 DEF SearchSide
        <5>2. h.kid[q][-1] # r
          <6>1. PICK d \in Side : d = 1 /\ -d = -1
            BY Sides
          <6>2. r = h.kid[q][d]
            BY <5>1, <6>1
          <6>3. h.kid[q][-d] # r
            BY <1>2, <4>2, <4>3, <6>2, KidIs
          <6> QED
            BY <6>1, <6>3
        <5> QED
          BY <4>1, <4>5, <5>2
      <4> QED
        BY <4>4, <4>5
    <3>6. ASSUME NEW n \in ns PROVE n \in us
      <4>1. PICK i \in 1..l : n = path[i]
        BY <1>3, <3>2
      <4>2. k < h.key[n]
        BY <1>3
      <4>3. CASE i = l
        BY <3>1, <3>3, <4>1, <4>3
      <4>4. CASE i # l
        <5>1. i \in 1..(l - 1)
          BY <3>1, <4>1, <4>4
        <5> QED
          BY <3>3, <3>5, <4>1, <4>2, <5>1
      <4> QED
        BY <4>3, <4>4
    <3>7. ASSUME NEW n \in us PROVE n \in ns
      <4>1. CASE n = x
        <5>1. x \in ToSet(path)
          BY <3>1, <3>2
        <5> QED
          BY <1>3, <3>4, <4>1, <5>1
      <4>2. CASE n # x
        <5>1. PICK i \in 1..(l - 1) : n = path[i] /\ h.kid[path[i]][-1] = path[i + 1]
          BY <3>3, <4>2
        <5>2. i \in 1..l /\ k < h.key[n]
          BY <3>1, <3>5, <5>1
        <5> QED
          BY <1>3, <3>2, <5>1, <5>2
      <4> QED
        BY <4>1, <4>2
    <3> QED
      BY <3>6, <3>7
  <2>2. Ranked(h, D) /\ MaxLength < RankRange
    BY <1>1, <1>11 DEF Certified
  <2>3. ASSUME NEW n \in In(h) PROVE g.rank[n] = h.rank[n]
    <3>1. n \in Node /\ h.kid[n][-1] \in Ptr /\ h.rank[n] \in 0..(RankRange - 1)
      BY <1>2, Sides DEF In, Wired, Heaps
    <3>2. h.rank[n] >= 1
      <4>1. Cardinality(D[h.kid[n][-1]]) \in 0..MaxLength
        BY <1>2, <3>1, SubtreeSizes
      <4> QED
        BY <2>2, <4>1, Constants DEF Ranked
    <3>3. PICK r \in Int : r = h.rank[n] + -1
      BY <3>1, Constants
    <3>4. r \in 0..(RankRange - 1) /\ r + 1 = h.rank[n] /\ r + 1 \in 0..(RankRange - 1)
      BY <3>1, <3>2, <3>3, Constants
    <3>5. r % RankRange = r /\ (r + 1) % RankRange = r + 1
      BY <3>4, Constants
    <3>6. n \in ns => f.rank[n] = r
      BY <1>6, <3>1, <3>3, <3>5 DEF Lowered
    <3>7. n \notin ns => f.rank[n] = h.rank[n]
      BY <1>6, <3>1 DEF Lowered
    <3> QED
      BY <1>8, <2>1, <3>1, <3>4, <3>5, <3>6, <3>7
  <2> QED
    BY <1>9, <1>10, <2>2, <2>3 DEF Ranked, SameButRank
<1>12. g.key[Root] = NoKey
  BY <1>2, <1>9 DEF SameButRank
<1>13. Certified(g, D, H, rk)
  BY <1>10, <1>11, <1>12 DEF Certified
<1> QED
  BY <1>4, <1>9, <1>13 DEF Tree

-----------------------------------------------------------------------------
(* The inductive invariant.  Ranks stay right if no operation fails after  *)
(* it has changed them for good.                                           *)
RanksKept == MaxLength < RankRange /\ ~OutOfMemory /\ Misses \subseteq {-1}

IInv == Tree(heap, RanksKept) /\ length = Cardinality(In(heap))

LEMMA TreeSize ==
    ASSUME NEW h, NEW rk, Tree(h, rk)
    PROVE  IsFiniteSet(In(h)) /\ Cardinality(In(h)) \in 0..MaxLength /\ h.used \subseteq Node
<1>1. PICK D : Wired(h) /\ Below(h, D)
  BY DEF Tree, Certified
<1>2. Top(h) \in Ptr /\ D[Top(h)] = In(h) /\ h.used \subseteq Node
  BY <1>1, Sides, Constants DEF Wired, Heaps, Below, Top
<1> QED
  BY <1>1, <1>2, SubtreeSizes

LEMMA NewTreeIs ==
    ASSUME NEW rk
    PROVE  Tree(NewTree, rk) /\ Cardinality(In(NewTree)) = 0
<1>1. PICK h : h = NewTree
  OBVIOUS
<1>2. /\ h.used = {Root} /\ h.kid = [n \in Node |-> [d \in Side |-> Nil]] /\ h.up = [n \in Node |-> Nil]
      /\ h.key = [n \in Node |-> NoKey] /\ h.bal = [n \in Node |-> 0] /\ h.rank = [n \in Node |-> 1]
      /\ h = [used |-> h.used, kid |-> h.kid, up |-> h.up, key |-> h.key, bal |-> h.bal, rank |-> h.rank]
  BY <1>1 DEF NewTree
<1>3. h \in Heaps
  BY <1>2, Constants DEF Heaps, Ptr
<1>4. In(h) = {} /\ Top(h) = Nil /\ Root \in Node
  BY <1>2, Constants, Sides DEF In, Top
<1>5. Wired(h)
  BY <1>2, <1>3, <1>4, Sides DEF Wired
<1>6. PICK D, H : D = [n \in Ptr |-> {}] /\ H = [n \in Ptr |-> 0]
  OBVIOUS
<1>7. Nil \in Ptr
  BY DEF Ptr
<1>8. Below(h, D)
  BY <1>4, <1>6, <1>7 DEF Below
<1>9. Sorted(h, D) /\ Ranked(h, D)
  BY <1>4 DEF Sorted, Ranked
<1>10. Leveled(h, H, Root, 1, 0)
  BY <1>4, <1>6, <1>7 DEF Leveled
<1>11. h.key[Root] = NoKey
  BY <1>2, <1>4
<1> QED
  BY <1>1, <1>4, <1>5, <1>8, <1>9, <1>10, <1>11, FS_EmptySet DEF Tree, Certified

LEMMA InitOk == Init => IInv
BY NewTreeIs DEF Init, IInv

LEMMA InsertStep ==
    ASSUME IInv, NEW k \in Key, AvlInsert(k)
    PROVE  Adds(heap, heap', k, RanksKept) /\ IInv'
<1>1. length < MaxLength /\ length' = length + 1 /\ heap' = Inserted(heap, k)
  BY DEF AvlInsert
<1>2. Tree(heap, RanksKept) /\ length = Cardinality(In(heap))
  BY DEF IInv
<1>3. Adds(heap, heap', k, RanksKept)
  <2>1. RanksKept => MaxLength < RankRange
    BY DEF RanksKept
  <2>2. Cardinality(In(heap)) < MaxLength
    BY <1>1, <1>2
  <2>3. Adds(heap, Inserted(heap, k), k, RanksKept)
    BY <1>2, <2>1, <2>2, InsertedIs
  <2> QED
    BY <1>1, <2>3
<1>4. PICK n \in Node \ heap.used : Tree(heap', RanksKept) /\ heap'.used = heap.used \cup {n}
  BY <1>3 DEF Adds
<1>5. In(heap') = In(heap) \cup {n} /\ n \notin In(heap) /\ IsFiniteSet(In(heap))
  <2>1. n # Root
    BY <1>2 DEF Tree, Certified, Wired
  <2> QED
    BY <1>2, <1>4, <2>1, TreeSize DEF In
<1>6. Cardinality(In(heap')) = Cardinality(In(heap)) + 1
  BY <1>5, FS_AddElement
<1> QED
  BY <1>1, <1>2, <1>3, <1>4, <1>6 DEF IInv

LEMMA DeleteStep ==
    ASSUME IInv, NEW k \in Key, AvlDelete(k)
    PROVE  Removes(heap, heap', k, RanksKept) /\ IInv'
<1>1. Found(heap, k) /\ length' = length - 1 /\ heap' = Deleted(heap, k)
  BY DEF AvlDelete
<1>2. Tree(heap, RanksKept) /\ length = Cardinality(In(heap))
  BY DEF IInv
<1>3. Removes(heap, heap', k, RanksKept)
  <2>1. RanksKept => MaxLength < RankRange
    BY DEF RanksKept
  <2>2. Removes(heap, Deleted(heap, k), k, RanksKept)
    BY <1>1, <1>2, <2>1, DeletedIs
  <2> QED
    BY <1>1, <2>2
<1>4. PICK z \in In(heap) : Tree(heap', RanksKept) /\ heap'.used = heap.used \ {z}
  BY <1>3 DEF Removes
<1>5. In(heap') = In(heap) \ {z} /\ IsFiniteSet(In(heap))
  BY <1>2, <1>4, TreeSize DEF In
<1>6. Cardinality(In(heap')) = Cardinality(In(heap)) - 1
  BY <1>5, FS_RemoveElement
<1> QED
  BY <1>1, <1>2, <1>3, <1>4, <1>6 DEF IInv

LEMMA FailSteps ==
    ASSUME IInv, NEW k \in Key, AvlInsertNoMemory(k) \/ AvlDeleteMiss(k)
    PROVE  SameButRank(heap, heap') /\ IInv'
<1>1. Tree(heap, RanksKept) /\ length = Cardinality(In(heap))
  BY DEF IInv
<1>2. PICK D, H : Certified(heap, D, H, RanksKept)
  BY <1>1 DEF Tree
<1>3. Wired(heap) /\ heap \in Heaps
  BY <1>2 DEF Certified, Wired
<1>4. length' = length
  BY DEF AvlInsertNoMemory, AvlDeleteMiss
<1>5. CASE AvlInsertNoMemory(k)
  <2>1. heap' = RankUp(heap, InsertPath(heap, k), k) /\ OutOfMemory
    BY <1>5 DEF AvlInsertNoMemory
  <2>2. PICK ns : heap' = AddRank(heap, ns, 1)
    BY <2>1 DEF RankUp
  <2>3. SameButRank(heap, heap')
    BY <1>3, <2>2, AddRankIs DEF SameButRank
  <2>4. ~RanksKept
    BY <2>1 DEF RanksKept
  <2>5. Certified(heap', D, H, RanksKept)
    <3>1. Wired(heap') /\ Below(heap', D) /\ Sorted(heap', D) /\ Leveled(heap', H, Root, 1, 0)
      BY <1>2, <1>3, <2>3, RankOnly DEF Certified
    <3>2. heap'.key[Root] = NoKey
      BY <1>2, <2>3 DEF Certified, SameButRank
    <3> QED
      BY <2>4, <3>1, <3>2 DEF Certified
  <2>6. In(heap') = In(heap)
    BY <2>3 DEF SameButRank, In
  <2> QED
    BY <1>1, <1>4, <2>3, <2>5, <2>6 DEF IInv, Tree
<1>6. CASE AvlDeleteMiss(k)
  <2>1. PICK path : path = Search(heap, k)
    OBVIOUS
  <2>2. /\ path # << >> /\ ~Found(heap, k)
        /\ (IF k < heap.key[Last(path)] THEN -1 ELSE 1) \in Misses
        /\ heap' = UndoRanks(RankDown(heap, path, k), path)
    BY <1>6, <2>1 DEF AvlDeleteMiss
  <2>3. RanksKept => MaxLength < RankRange /\ k < heap.key[Last(path)]
    BY <2>2 DEF RanksKept
  <2>4. SameButRank(heap, heap') /\ Tree(heap', RanksKept)
    BY <1>1, <2>1, <2>2, <2>3, MissIs
  <2>5. In(heap') = In(heap)
    BY <2>4 DEF SameButRank, In
  <2> QED
    BY <1>1, <1>4, <2>4, <2>5 DEF IInv
<1> QED
  BY <1>5, <1>6

LEMMA FreeStep ==
    ASSUME AvlTreeFree
    PROVE  IInv'
<1>1. heap' = NewTree /\ length' = 0
  BY DEF AvlTreeFree
<1> QED
  BY <1>1, NewTreeIs DEF IInv

LEMMA NextOk == IInv /\ [Next]_vars => IInv'
<1>1. SUFFICES ASSUME IInv, [Next]_vars PROVE IInv'
  OBVIOUS
<1>2. ASSUME NEW k \in Key, AvlInsert(k) PROVE IInv'
  BY <1>1, <1>2, InsertStep
<1>3. ASSUME NEW k \in Key, AvlInsertNoMemory(k) \/ AvlDeleteMiss(k) PROVE IInv'
  BY <1>1, <1>3, FailSteps
<1>4. ASSUME NEW k \in Key, AvlDelete(k) PROVE IInv'
  BY <1>1, <1>4, DeleteStep
<1>5. CASE AvlTreeFree
  BY <1>5, FreeStep
<1>6. CASE UNCHANGED vars
  BY <1>1, <1>6 DEF vars, IInv
<1> QED
  BY <1>1, <1>2, <1>3, <1>4, <1>5, <1>6 DEF Next

(* In every reachable state there are subtrees and heights that fit the    *)
(* pointers, keys, balance factors and ranks, and length counts the nodes, *)
(* whatever avl_insert, avl_delete and avl_tree_free are called with.      *)
THEOREM TreeInvariant == Spec => []IInv
BY InitOk, NextOk, PTL DEF Spec

-----------------------------------------------------------------------------
(* Balance factors stay in -1..1 and ranks in their thirty bits, whatever  *)
(* rotations, deletions and failed operations add to them; every pointer   *)
(* is to a node or null, and no operation exceeds the bound on nodes.      *)
THEOREM TreeTypeCorrect == Spec => []TypeOK
<1>1. IInv => TypeOK
  <2>1. SUFFICES ASSUME IInv PROVE TypeOK
    OBVIOUS
  <2>2. heap \in Heaps
    BY <2>1 DEF IInv, Tree, Certified, Wired
  <2>3. length \in 0..MaxLength
    BY <2>1, TreeSize DEF IInv
  <2> QED
    BY <2>2, <2>3 DEF TypeOK, Heaps, Ptr
<1> QED
  BY <1>1, TreeInvariant, PTL

(* Parents and children point to each other, and no node in use hangs on   *)
(* a freed one: Link is called in the right order by every rotation.       *)
THEOREM TreeIsLinked == Spec => []Linked
<1>1. IInv => Linked
  <2>1. SUFFICES ASSUME IInv PROVE Linked
    OBVIOUS
  <2>2. Wired(heap) /\ InTree = In(heap)
    BY <2>1 DEF IInv, Tree, Certified, InTree, In
  <2> QED
    BY <2>2 DEF Linked, Wired
<1> QED
  BY <1>1, TreeInvariant, PTL
-----------------------------------------------------------------------------
(* The functions that the properties compute on the tree, and what D and H *)
(* say of them.  Nodes that are not in use have no children.               *)
LEMMA KidsOf ==
    ASSUME NEW h, NEW D, Wired(h), Below(h, D)
    PROVE  /\ Root \in Node /\ Root # Nil /\ Nil \in Ptr /\ Nil \notin Node /\ Root \notin In(h) /\ In(h) \subseteq Node
           /\ \A n \in Node : h.kid[n][-1] \in Ptr /\ h.kid[n][1] \in Ptr
           /\ \A n \in In(h) : h.kid[n][-1] \in In(h) \cup {Nil} /\ h.kid[n][1] \in In(h) \cup {Nil}
           /\ h.kid[Root][-1] = Nil /\ h.kid[Root][1] = Top(h) /\ Top(h) \in In(h) \cup {Nil}
           /\ \A n \in Node : n \notin In(h) /\ n # Root => h.kid[n][-1] = Nil /\ h.kid[n][1] = Nil
           /\ \A n \in Ptr : n = Nil \/ n = Root \/ n \in In(h) \/ (n \in Node /\ n \notin In(h) /\ n # Root)
<1>1. Root \in Node /\ Root # Nil /\ Nil \in Ptr /\ Nil \notin Node /\ Root \notin In(h) /\ In(h) \subseteq Node
  BY Constants DEF In, Wired, Heaps, Ptr
<1>2. \A n \in Node : h.kid[n][-1] \in Ptr /\ h.kid[n][1] \in Ptr
  BY Sides DEF Wired, Heaps
<1>3. \A n \in h.used : \A d \in Side : h.kid[n][d] \in In(h) \cup {Nil}
  BY DEF Wired
<1>4. \A n \in In(h) : n \in h.used
  BY DEF In
<1>5. \A n \in In(h) : h.kid[n][-1] \in In(h) \cup {Nil} /\ h.kid[n][1] \in In(h) \cup {Nil}
  BY <1>3, <1>4, Sides
<1>6. h.kid[Root][-1] = Nil /\ h.kid[Root][1] = Top(h) /\ Top(h) \in In(h) \cup {Nil}
  BY <1>3, Sides DEF Top, Wired
<1>7. \A n \in Node : n \notin In(h) /\ n # Root => h.kid[n][-1] = Nil /\ h.kid[n][1] = Nil
  <2>1. \A n \in Node : n \notin In(h) /\ n # Root => \A d \in Side : h.kid[n][d] = Nil
    BY DEF Wired, In
  <2> QED
    BY <2>1, Sides
<1> QED
  BY <1>1, <1>2, <1>5, <1>6, <1>7 DEF Ptr

LEMMA MaxOfTwo ==
    ASSUME NEW a \in Nat, NEW b \in Nat
    PROVE  Max({a, b}) = IF a >= b THEN a ELSE b
<1>1. PICK n \in Nat : n = a + b
  OBVIOUS
<1>2. {a, b} \in SUBSET (0..n) /\ {a, b} # {}
  BY <1>1
<1>3. Max({a, b}) \in {a, b} /\ \A k \in {a, b} : Max({a, b}) >= k
  BY <1>2, Greatest
<1> QED
  BY <1>3

(* f is what Heights chooses; sizes and orders likewise.                   *)
HeightEq(h, f) ==
    f = [n \in Node \cup {Nil} |-> IF n = Nil THEN 0 ELSE 1 + Max({f[h.kid[n][-1]], f[h.kid[n][1]]})]

LEMMA HeightsExist ==
    ASSUME NEW h, NEW D, NEW H, Wired(h), Below(h, D), Leveled(h, H, Root, 1, 0)
    PROVE  \E f : HeightEq(h, f)
<1>1. PICK f : f = [n \in Ptr |-> IF n = Nil THEN 0 ELSE IF n \in In(h) THEN H[n]
                                  ELSE IF n = Root THEN 1 + H[Top(h)] ELSE 1]
  OBVIOUS
<1>2. H \in [Ptr -> Nat] /\ H[Nil] = 0
  BY DEF Leveled
<1>3. \A n \in In(h) \cup {Nil} : n \in Ptr /\ f[n] = H[n] /\ H[n] \in Nat
  BY <1>1, <1>2, KidsOf DEF Ptr
<1>4. ASSUME NEW n \in Ptr
      PROVE  f[n] = IF n = Nil THEN 0 ELSE 1 + Max({f[h.kid[n][-1]], f[h.kid[n][1]]})
  <2>1. CASE n = Nil
    BY <1>1, <2>1
  <2>2. CASE n \in In(h)
    <3>1. PICK l, r : l = h.kid[n][-1] /\ r = h.kid[n][1] /\ l \in In(h) \cup {Nil} /\ r \in In(h) \cup {Nil}
      BY <2>2, KidsOf
    <3>2. Poised(h.bal[n], H[n], -1, 1, H[l], H[r])
      <4>1. 0 = 0 /\ -1 # 1
        OBVIOUS
      <4> QED
        BY <2>2, <3>1, <4>1, LeveledAt, Sides
    <3>3. h.bal[n] \in -1..1
      BY <2>2, KidsOf DEF Wired, Heaps
    <3>4. H[l] \in Nat /\ H[r] \in Nat
      BY <1>3, <3>1
    <3>5. H[n] = 1 + (IF H[l] >= H[r] THEN H[l] ELSE H[r])
      BY <3>2, <3>3, <3>4 DEF Poised
    <3>6. f[n] = H[n] /\ f[l] = H[l] /\ f[r] = H[r] /\ n # Nil
      BY <1>3, <2>2, <3>1, KidsOf
    <3> QED
      BY <3>1, <3>4, <3>5, <3>6, MaxOfTwo
  <2>3. CASE n = Root
    <3>1. h.kid[n][-1] = Nil /\ h.kid[n][1] = Top(h) /\ Top(h) \in In(h) \cup {Nil} /\ n # Nil /\ n \notin In(h)
      BY <2>3, KidsOf
    <3>2. f[Nil] = 0 /\ f[Top(h)] = H[Top(h)] /\ H[Top(h)] \in Nat /\ f[n] = 1 + H[Top(h)]
      BY <1>1, <1>2, <1>3, <2>3, <3>1
    <3>3. Max({0, H[Top(h)]}) = H[Top(h)]
      BY <3>2, MaxOfTwo
    <3> QED
      BY <3>1, <3>2, <3>3
  <2>4. CASE n \in Node /\ n \notin In(h) /\ n # Root
    <3>1. h.kid[n][-1] = Nil /\ h.kid[n][1] = Nil /\ n # Nil
      BY <2>4, KidsOf
    <3>2. f[Nil] = 0 /\ f[n] = 1
      BY <1>1, <1>2, <1>3, <2>4, <3>1
    <3>3. Max({0, 0}) = 0
      BY MaxOfTwo
    <3> QED
      BY <3>1, <3>2, <3>3
  <2> QED
    BY <2>1, <2>2, <2>3, <2>4, KidsOf
<1>5. f = [n \in Ptr |-> f[n]]
  BY <1>1
<1>6. f = [n \in Ptr |-> IF n = Nil THEN 0 ELSE 1 + Max({f[h.kid[n][-1]], f[h.kid[n][1]]})]
  BY <1>4, <1>5
<1> QED
  BY <1>6 DEF HeightEq, Ptr

LEMMA HeightsAre ==
    ASSUME NEW h, NEW D, NEW H, Wired(h), Below(h, D), Leveled(h, H, Root, 1, 0)
    PROVE  \A n \in In(h) \cup {Nil} : Heights(h)[n] = H[n]
<1>1. PICK f : f = CHOOSE g : HeightEq(h, g)
  OBVIOUS
<1>2. HeightEq(h, f)
  <2>1. \E g : HeightEq(h, g)
    BY HeightsExist
  <2> QED
    BY <1>1, <2>1
<1>3. f = Heights(h)
  BY <1>1 DEF Heights, HeightEq
<1>4. H \in [Ptr -> Nat] /\ H[Nil] = 0
  BY DEF Leveled
<1>5. f[Nil] = 0 /\ \A n \in In(h) : f[n] = 1 + Max({f[h.kid[n][-1]], f[h.kid[n][1]]})
  BY <1>2, KidsOf DEF HeightEq, Ptr
<1>6. PICK S : S = {n \in In(h) \cup {Nil} : f[n] = H[n]}
  OBVIOUS
<1>7. ASSUME NEW n \in In(h), \A d \in Side : h.kid[n][d] \in S PROVE n \in S
  <2>1. PICK l, r : l = h.kid[n][-1] /\ r = h.kid[n][1] /\ l \in S /\ r \in S /\ l \in Ptr /\ r \in Ptr
    BY <1>7, Sides, KidsOf
  <2>2. f[l] = H[l] /\ f[r] = H[r] /\ H[l] \in Nat /\ H[r] \in Nat
    BY <1>4, <1>6, <2>1
  <2>3. Poised(h.bal[n], H[n], -1, 1, H[l], H[r])
    <3>1. 0 = 0 /\ -1 # 1
      OBVIOUS
    <3> QED
      BY <2>1, <3>1, LeveledAt, Sides
  <2>4. h.bal[n] \in -1..1
    BY KidsOf DEF Wired, Heaps
  <2>5. H[n] = 1 + (IF H[l] >= H[r] THEN H[l] ELSE H[r])
    BY <2>2, <2>3, <2>4 DEF Poised
  <2>6. f[n] = 1 + Max({H[l], H[r]})
    BY <1>5, <2>1, <2>2
  <2> QED
    BY <1>6, <2>2, <2>5, <2>6, MaxOfTwo
<1>8. Nil \in S
  BY <1>4, <1>5, <1>6
<1>9. \A n \in In(h) : n \in S
  BY <1>7, <1>8, TreeInduction
<1> QED
  BY <1>3, <1>4, <1>5, <1>6, <1>9

(* Every balance factor is the difference in height of the two subtrees,   *)
(* after every sequence of insertions and deletions: the cases of          *)
(* avl_insert and of the climb in avl_delete are complete and right.       *)
THEOREM TreeIsBalanced == Spec => []Balanced
<1>1. IInv => Balanced
  <2>1. SUFFICES ASSUME IInv, NEW n \in InTree
                 PROVE  /\ heap.bal[n] = Heights(heap)[heap.kid[n][1]] - Heights(heap)[heap.kid[n][-1]]
                        /\ heap.bal[n] \in -1..1
    BY DEF Balanced
  <2>2. PICK D, H : Wired(heap) /\ Below(heap, D) /\ Leveled(heap, H, Root, 1, 0)
    BY <2>1 DEF IInv, Tree, Certified
  <2>3. n \in In(heap) /\ n \in Node
    BY <2>2, KidsOf DEF InTree, In
  <2>4. PICK l, r : /\ l = heap.kid[n][-1] /\ r = heap.kid[n][1] /\ l \in In(heap) \cup {Nil} /\ r \in In(heap) \cup {Nil}
    BY <2>2, <2>3, KidsOf
  <2>5. Poised(heap.bal[n], H[n], -1, 1, H[l], H[r]) /\ H[l] \in Nat /\ H[r] \in Nat
    <3>1. 0 = 0 /\ -1 # 1
      OBVIOUS
    <3> QED
      BY <2>2, <2>3, <2>4, <3>1, LeveledAt, Sides
  <2>6. heap.bal[n] \in -1..1
    BY <2>2, <2>3 DEF Wired, Heaps
  <2>7. Heights(heap)[l] = H[l] /\ Heights(heap)[r] = H[r]
    BY <2>2, <2>4, HeightsAre
  <2>8. heap.bal[n] = H[r] - H[l]
    BY <2>5, <2>6 DEF Poised
  <2> QED
    BY <2>4, <2>6, <2>7, <2>8
<1> QED
  BY <1>1, TreeInvariant, PTL
-----------------------------------------------------------------------------
SizeEq(h, f) ==
    f = [n \in Node \cup {Nil} |-> IF n = Nil THEN 0 ELSE f[h.kid[n][-1]] + f[h.kid[n][1]] + 1]

LEMMA SizesExist ==
    ASSUME NEW h, NEW D, Wired(h), Below(h, D)
    PROVE  \E f : SizeEq(h, f)
<1>1. PICK f : f = [n \in Ptr |-> IF n = Nil THEN 0 ELSE IF n \in In(h) THEN Cardinality(D[n])
                                  ELSE IF n = Root THEN Cardinality(D[Top(h)]) + 1 ELSE 1]
  OBVIOUS
<1>2. Cardinality(D[Nil]) = 0 /\ \A n \in Ptr : Cardinality(D[n]) \in Nat
  <2>1. D[Nil] = {} /\ \A n \in Ptr : Cardinality(D[n]) \in 0..MaxLength
    BY SubtreeSizes DEF Below
  <2> QED
    BY <2>1, FS_EmptySet, Constants
<1>3. \A n \in In(h) \cup {Nil} : n \in Ptr /\ f[n] = Cardinality(D[n]) /\ Cardinality(D[n]) \in Nat
  BY <1>1, <1>2, KidsOf DEF Ptr
<1>4. ASSUME NEW n \in Ptr
      PROVE  f[n] = IF n = Nil THEN 0 ELSE f[h.kid[n][-1]] + f[h.kid[n][1]] + 1
  <2>1. CASE n = Nil
    BY <1>1, <2>1
  <2>2. CASE n \in In(h)
    <3>1. PICK l, r : l = h.kid[n][-1] /\ r = h.kid[n][1] /\ l \in In(h) \cup {Nil} /\ r \in In(h) \cup {Nil}
      BY <2>2, KidsOf
    <3>2. Cardinality(D[n]) = Cardinality(D[l]) + Cardinality(D[r]) + 1
      BY <2>2, <3>1, SubtreeSizes
    <3>3. f[n] = Cardinality(D[n]) /\ f[l] = Cardinality(D[l]) /\ f[r] = Cardinality(D[r]) /\ n # Nil
      BY <1>3, <2>2, <3>1, KidsOf
    <3> QED
      BY <3>1, <3>2, <3>3
  <2>3. CASE n = Root
    <3>1. h.kid[n][-1] = Nil /\ h.kid[n][1] = Top(h) /\ Top(h) \in In(h) \cup {Nil} /\ n # Nil /\ n \notin In(h)
      BY <2>3, KidsOf
    <3>2. f[Nil] = 0 /\ f[Top(h)] = Cardinality(D[Top(h)]) /\ Cardinality(D[Top(h)]) \in Nat
          /\ f[n] = Cardinality(D[Top(h)]) + 1
      BY <1>1, <1>2, <1>3, <2>3, <3>1
    <3> QED
      BY <3>1, <3>2
  <2>4. CASE n \in Node /\ n \notin In(h) /\ n # Root
    <3>1. h.kid[n][-1] = Nil /\ h.kid[n][1] = Nil /\ n # Nil
      BY <2>4, KidsOf
    <3>2. f[Nil] = 0 /\ f[n] = 1
      BY <1>1, <1>2, <1>3, <2>4, <3>1
    <3> QED
      BY <3>1, <3>2
  <2> QED
    BY <2>1, <2>2, <2>3, <2>4, KidsOf
<1>5. f = [n \in Ptr |-> f[n]]
  BY <1>1
<1>6. f = [n \in Ptr |-> IF n = Nil THEN 0 ELSE f[h.kid[n][-1]] + f[h.kid[n][1]] + 1]
  BY <1>4, <1>5
<1> QED
  BY <1>6 DEF SizeEq, Ptr

LEMMA SizesAre ==
    ASSUME NEW h, NEW D, Wired(h), Below(h, D)
    PROVE  \A n \in In(h) \cup {Nil} : Sizes(h)[n] = Cardinality(D[n])
<1>1. PICK f : f = CHOOSE g : SizeEq(h, g)
  OBVIOUS
<1>2. SizeEq(h, f)
  <2>1. \E g : SizeEq(h, g)
    BY SizesExist
  <2> QED
    BY <1>1, <2>1
<1>3. f = Sizes(h)
  BY <1>1 DEF Sizes, SizeEq
<1>4. Cardinality(D[Nil]) = 0
  BY FS_EmptySet DEF Below
<1>5. f[Nil] = 0 /\ \A n \in In(h) : f[n] = f[h.kid[n][-1]] + f[h.kid[n][1]] + 1
  BY <1>2, KidsOf DEF SizeEq, Ptr
<1>6. PICK S : S = {n \in In(h) \cup {Nil} : f[n] = Cardinality(D[n])}
  OBVIOUS
<1>7. ASSUME NEW n \in In(h), \A d \in Side : h.kid[n][d] \in S PROVE n \in S
  <2>1. PICK l, r : l = h.kid[n][-1] /\ r = h.kid[n][1] /\ l \in S /\ r \in S
    BY <1>7, Sides
  <2>2. f[l] = Cardinality(D[l]) /\ f[r] = Cardinality(D[r])
    BY <1>6, <2>1
  <2>3. Cardinality(D[n]) = Cardinality(D[l]) + Cardinality(D[r]) + 1
    BY <2>1, SubtreeSizes
  <2>4. f[n] = f[l] + f[r] + 1
    BY <1>5, <2>1
  <2> QED
    BY <1>6, <2>2, <2>3, <2>4
<1>8. Nil \in S
  BY <1>4, <1>5, <1>6
<1>9. \A n \in In(h) : n \in S
  BY <1>7, <1>8, TreeInduction
<1> QED
  BY <1>3, <1>4, <1>5, <1>6, <1>9

(* Every rank is one more than the number of nodes on the left, although   *)
(* avl_insert and avl_delete change ranks on the way down, rotations add   *)
(* and subtract them, and a deleted node may be another than the one the   *)
(* search went to: as long as avl_node_new does not fail and no search for *)
(* an absent key ends on the right of a node.                              *)
THEOREM RanksAreCounts ==
    ASSUME RanksKept
    PROVE  Spec => []RanksCount
<1>1. IInv => RanksCount
  <2>1. SUFFICES ASSUME IInv, NEW n \in InTree
                 PROVE  heap.rank[n] = Sizes(heap)[heap.kid[n][-1]] + 1
    BY DEF RanksCount
  <2>2. PICK D : Wired(heap) /\ Below(heap, D) /\ Ranked(heap, D)
    BY <2>1 DEF IInv, Tree, Certified
  <2>3. n \in In(heap)
    BY DEF InTree, In
  <2>4. heap.kid[n][-1] \in In(heap) \cup {Nil}
    BY <2>2, <2>3, KidsOf
  <2>5. Sizes(heap)[heap.kid[n][-1]] = Cardinality(D[heap.kid[n][-1]])
    BY <2>2, <2>4, SizesAre
  <2> QED
    BY <2>2, <2>3, <2>5 DEF Ranked
<1> QED
  BY <1>1, TreeInvariant, PTL
-----------------------------------------------------------------------------
(* The keys in order.                                                      *)
Keys == Key \cup {NoKey}

Ascending(s) == \A i \in 1..(Len(s) - 1) : s[i] <= s[i + 1]

Between(l, k, r) ==
    /\ \A i \in 1..Len(l) : l[i] <= k
    /\ \A i \in 1..Len(r) : k <= r[i]

LEMMA JoinIs ==
    ASSUME NEW l \in Seq(Keys), NEW r \in Seq(Keys), NEW k \in Keys, NEW s, s = l \o <<k>> \o r
    PROVE  /\ s \in Seq(Keys) /\ Len(s) = Len(l) + Len(r) + 1 /\ Len(l) \in Nat /\ Len(r) \in Nat
           /\ \A i \in 1..Len(s) : s[i] = IF i <= Len(l) THEN l[i]
                                          ELSE IF i = Len(l) + 1 THEN k ELSE r[i - (Len(l) + 1)]
<1>1. PICK m, t : m = <<k>> /\ t = l \o m
  OBVIOUS
<1>2. m \in Seq(Keys) /\ Len(m) = 1 /\ m[1] = k
  BY <1>1
<1>3. Len(l) \in Nat /\ Len(r) \in Nat
  BY LenProperties
<1>4. t \in Seq(Keys) /\ Len(t) = Len(l) + 1
      /\ \A i \in 1..(Len(l) + 1) : t[i] = IF i <= Len(l) THEN l[i] ELSE m[i - Len(l)]
  BY <1>1, <1>2, ConcatProperties
<1>5. s = t \o r
  BY <1>1
<1>6. s \in Seq(Keys) /\ Len(s) = Len(t) + Len(r)
      /\ \A i \in 1..(Len(t) + Len(r)) : s[i] = IF i <= Len(t) THEN t[i] ELSE r[i - Len(t)]
  BY <1>4, <1>5, ConcatProperties
<1>7. ASSUME NEW i \in 1..Len(s)
      PROVE  s[i] = IF i <= Len(l) THEN l[i] ELSE IF i = Len(l) + 1 THEN k ELSE r[i - (Len(l) + 1)]
  <2>1. s[i] = IF i <= Len(l) + 1 THEN t[i] ELSE r[i - (Len(l) + 1)]
    BY <1>4, <1>6
  <2>2. CASE i <= Len(l)
    <3>1. i \in 1..(Len(l) + 1) /\ i <= Len(l) + 1
      BY <1>3, <2>2
    <3> QED
      BY <1>4, <2>1, <2>2, <3>1
  <2>3. CASE i = Len(l) + 1
    <3>1. i \in 1..(Len(l) + 1) /\ i <= Len(l) + 1 /\ ~(i <= Len(l)) /\ i - Len(l) = 1
      BY <1>3, <2>3
    <3> QED
      BY <1>2, <1>4, <2>1, <2>3, <3>1
  <2>4. CASE i > Len(l) + 1
    <3>1. ~(i <= Len(l) + 1) /\ ~(i <= Len(l)) /\ i # Len(l) + 1
      BY <1>3, <2>4
    <3> QED
      BY <2>1, <3>1
  <2> QED
    BY <1>3, <2>2, <2>3, <2>4
<1> QED
  BY <1>3, <1>4, <1>6, <1>7

LEMMA JoinAscending ==
    ASSUME NEW l \in Seq(Keys), NEW r \in Seq(Keys), NEW k \in Keys, NEW s, s = l \o <<k>> \o r,
           Ascending(l), Ascending(r), Between(l, k, r)
    PROVE  Ascending(s)
<1>1. /\ Len(s) = Len(l) + Len(r) + 1 /\ Len(l) \in Nat /\ Len(r) \in Nat
      /\ \A i \in 1..Len(s) : s[i] = IF i <= Len(l) THEN l[i]
                                     ELSE IF i = Len(l) + 1 THEN k ELSE r[i - (Len(l) + 1)]
  BY JoinIs
<1>2. ASSUME NEW i \in 1..(Len(s) - 1) PROVE s[i] <= s[i + 1]
  <2>1. i \in 1..Len(s) /\ i + 1 \in 1..Len(s)
    BY <1>1
  <2>2. CASE i < Len(l)
    <3>1. i \in 1..(Len(l) - 1) /\ i <= Len(l) /\ i + 1 <= Len(l)
      BY <1>1, <2>2
    <3>2. s[i] = l[i] /\ s[i + 1] = l[i + 1]
      BY <1>1, <2>1, <3>1
    <3> QED
      BY <3>1, <3>2 DEF Ascending
  <2>3. CASE i = Len(l)
    <3>1. i \in 1..Len(l) /\ i <= Len(l) /\ ~(i + 1 <= Len(l)) /\ i + 1 = Len(l) + 1
      BY <1>1, <2>3
    <3>2. s[i] = l[i] /\ s[i + 1] = k
      BY <1>1, <2>1, <3>1
    <3> QED
      BY <2>3, <3>1, <3>2 DEF Between
  <2>4. CASE i = Len(l) + 1
    <3>1. 1 \in 1..Len(r) /\ ~(i <= Len(l)) /\ ~(i + 1 <= Len(l)) /\ i + 1 # Len(l) + 1
          /\ (i + 1) - (Len(l) + 1) = 1
      BY <1>1, <2>4
    <3>2. s[i] = k /\ s[i + 1] = r[1]
      BY <1>1, <2>1, <2>4, <3>1
    <3> QED
      BY <3>1, <3>2 DEF Between
  <2>5. CASE i > Len(l) + 1
    <3>1. PICK j : j = i - (Len(l) + 1)
      OBVIOUS
    <3>2. /\ j \in 1..(Len(r) - 1) /\ (i + 1) - (Len(l) + 1) = j + 1
          /\ ~(i <= Len(l)) /\ ~(i + 1 <= Len(l)) /\ i # Len(l) + 1 /\ i + 1 # Len(l) + 1
      BY <1>1, <2>5, <3>1
    <3>3. s[i] = r[j] /\ s[i + 1] = r[j + 1]
      BY <1>1, <2>1, <3>1, <3>2
    <3> QED
      BY <3>2, <3>3 DEF Ascending
  <2> QED
    BY <1>1, <2>2, <2>3, <2>4, <2>5
<1> QED
  BY <1>2 DEF Ascending

Joined(h, f, n) == f[h.kid[n][-1]] \o <<h.key[n]>> \o f[h.kid[n][1]]

OrderEq(h, f) == f = [n \in Node \cup {Nil} |-> IF n = Nil THEN << >> ELSE Joined(h, f, n)]

(* f is right for subtrees of up to i nodes.                               *)
OrderUpTo(h, D, f, i) ==
    /\ f \in [Ptr -> Seq(Keys)] /\ f[Nil] = << >>
    /\ \A n \in In(h) : Cardinality(D[n]) <= i => f[n] = Joined(h, f, n)

LEMMA JoinedIn ==
    ASSUME NEW h, NEW D, Wired(h), Below(h, D), NEW f \in [Ptr -> Seq(Keys)], NEW n \in Node
    PROVE  Joined(h, f, n) \in Seq(Keys)
<1>1. PICK l, r, k : l = f[h.kid[n][-1]] /\ r = f[h.kid[n][1]] /\ k = h.key[n]
  OBVIOUS
<1>2. l \in Seq(Keys) /\ r \in Seq(Keys) /\ k \in Keys
  BY <1>1, KidsOf DEF Wired, Heaps, Keys
<1> QED
  BY <1>1, <1>2, JoinIs DEF Joined

LEMMA OrderNext ==
    ASSUME NEW h, NEW D, Wired(h), Below(h, D), NEW f, NEW i \in Nat, OrderUpTo(h, D, f, i)
    PROVE  \E g : OrderUpTo(h, D, g, i + 1)
<1>1. PICK g : g = [n \in Ptr |-> IF n \in In(h) /\ Cardinality(D[n]) = i + 1 THEN Joined(h, f, n) ELSE f[n]]
  OBVIOUS
<1>2. f \in [Ptr -> Seq(Keys)] /\ f[Nil] = << >> /\ Nil \in Ptr /\ Nil \notin In(h)
  BY KidsOf DEF OrderUpTo
<1>3. g[Nil] = << >>
  BY <1>1, <1>2
<1>4. g \in [Ptr -> Seq(Keys)]
  <2>1. \A n \in In(h) : Joined(h, f, n) \in Seq(Keys)
    BY <1>2, JoinedIn, KidsOf
  <2> QED
    BY <1>1, <1>2, <2>1
<1>5. ASSUME NEW n \in In(h), Cardinality(D[n]) <= i + 1 PROVE g[n] = Joined(h, g, n)
  <2>1. n \in Ptr /\ Cardinality(D[n]) \in Nat
    <3>1. n \in Ptr
      BY KidsOf DEF Ptr
    <3>2. Cardinality(D[n]) \in 0..MaxLength
      BY <3>1, SubtreeSizes
    <3> QED
      BY <3>1, <3>2, Constants
  <2>2. ASSUME NEW d \in Side PROVE g[h.kid[n][d]] = f[h.kid[n][d]]
    <3>1. h.kid[n][d] \in Ptr
      BY KidsOf, Sides
    <3>2. Cardinality(D[h.kid[n][d]]) < Cardinality(D[n]) /\ Cardinality(D[h.kid[n][d]]) \in 0..MaxLength
      BY <3>1, SubtreeSizes
    <3>3. Cardinality(D[h.kid[n][d]]) # i + 1
      BY <1>5, <2>1, <3>2, Constants
    <3> QED
      BY <1>1, <3>1, <3>3
  <2>3. g[h.kid[n][-1]] = f[h.kid[n][-1]] /\ g[h.kid[n][1]] = f[h.kid[n][1]]
    BY <2>2, Sides
  <2>4. Joined(h, g, n) = Joined(h, f, n)
    BY <2>3 DEF Joined
  <2>5. CASE Cardinality(D[n]) = i + 1
    BY <1>1, <2>1, <2>4, <2>5
  <2>6. CASE Cardinality(D[n]) # i + 1
    <3>1. Cardinality(D[n]) <= i
      BY <1>5, <2>1, <2>6
    <3>2. f[n] = Joined(h, f, n)
      BY <3>1 DEF OrderUpTo
    <3> QED
      BY <1>1, <2>1, <2>4, <2>6, <3>2
  <2> QED
    BY <2>5, <2>6
<1> QED
  BY <1>3, <1>4, <1>5 DEF OrderUpTo

LEMMA OrdersExist ==
    ASSUME NEW h, NEW D, Wired(h), Below(h, D)
    PROVE  \E f : OrderEq(h, f) /\ f \in [Ptr -> Seq(Keys)]
<1> DEFINE I == {i \in Nat : \E f : OrderUpTo(h, D, f, i)}
<1>1. 0 \in I
  <2>1. PICK f : f = [n \in Ptr |-> << >>]
    OBVIOUS
  <2>2. f \in [Ptr -> Seq(Keys)] /\ f[Nil] = << >>
    BY <2>1, KidsOf
  <2>3. \A n \in In(h) : ~(Cardinality(D[n]) <= 0)
    <3>1. ASSUME NEW n \in In(h) PROVE ~(Cardinality(D[n]) <= 0)
      <4>1. /\ h.kid[n][1] \in Ptr /\ n \in Ptr
        BY KidsOf DEF Ptr
      <4>2. /\ Cardinality(D[h.kid[n][1]]) \in Nat /\ Cardinality(D[n]) \in Nat
        BY <4>1, SubtreeSizes, Constants
      <4>3. Cardinality(D[h.kid[n][1]]) < Cardinality(D[n])
        BY SubtreeSizes, Sides
      <4> QED
        BY <4>2, <4>3
    <3> QED
      BY <3>1
  <2>4. OrderUpTo(h, D, f, 0)
    BY <2>2, <2>3 DEF OrderUpTo
  <2> QED
    BY <2>4
<1>2. ASSUME NEW i \in Nat, i \in I PROVE i + 1 \in I
  BY <1>2, OrderNext
<1> HIDE DEF I
<1>3. MaxLength \in I
  BY <1>1, <1>2, AllNumbers, Constants
<1>4. PICK f : OrderUpTo(h, D, f, MaxLength)
  BY <1>3 DEF I
<1>5. f \in [Ptr -> Seq(Keys)] /\ f[Nil] = << >> /\ \A n \in In(h) : f[n] = Joined(h, f, n)
  <2>1. \A n \in In(h) : n \in Ptr
    BY KidsOf DEF Ptr
  <2>2. \A n \in In(h) : Cardinality(D[n]) \in 0..MaxLength
    BY <2>1, SubtreeSizes
  <2>3. \A n \in In(h) : Cardinality(D[n]) <= MaxLength
    BY <2>2, Constants
  <2> QED
    BY <1>4, <2>3 DEF OrderUpTo
<1>6. PICK g : g = [n \in Ptr |-> IF n \in In(h) \cup {Nil} THEN f[n] ELSE Joined(h, f, n)]
  OBVIOUS
<1>7. \A n \in Node : Joined(h, g, n) = Joined(h, f, n)
  <2>1. \A n \in Node : h.kid[n][-1] \in In(h) \cup {Nil} /\ h.kid[n][1] \in In(h) \cup {Nil}
    BY KidsOf
  <2>2. \A n \in In(h) \cup {Nil} : n \in Ptr /\ g[n] = f[n]
    BY <1>6, KidsOf DEF Ptr
  <2> QED
    BY <2>1, <2>2 DEF Joined
<1>8. \A n \in Ptr : g[n] = IF n = Nil THEN << >> ELSE Joined(h, g, n)
  BY <1>5, <1>6, <1>7, KidsOf DEF Ptr
<1>9. g = [n \in Ptr |-> g[n]]
  BY <1>6
<1>10. g = [n \in Ptr |-> IF n = Nil THEN << >> ELSE Joined(h, g, n)]
  BY <1>8, <1>9
<1>11. g \in [Ptr -> Seq(Keys)]
  <2>1. \A n \in Node : Joined(h, f, n) \in Seq(Keys)
    BY <1>5, JoinedIn
  <2> QED
    BY <1>5, <1>6, <2>1 DEF Ptr
<1> QED
  BY <1>10, <1>11 DEF OrderEq, Ptr

(* s lists as many keys as there are nodes, all of them keys of the nodes  *)
(* ns, in ascending order.                                                 *)
ListsKeys(h, ns, s) ==
    /\ s \in Seq(Keys) /\ Len(s) = Cardinality(ns) /\ Ascending(s)
    /\ \A i \in 1..Len(s) : \E m \in ns : s[i] = h.key[m]

LEMMA ListsJoined ==
    ASSUME NEW h, NEW D, Wired(h), Below(h, D), Sorted(h, D), NEW n \in In(h),
           NEW l, NEW r, l = h.kid[n][-1], r = h.kid[n][1],
           NEW f, ListsKeys(h, D[l], f[l]), ListsKeys(h, D[r], f[r])
    PROVE  ListsKeys(h, D[n], Joined(h, f, n))
<1>1. PICK a, b, k, s : a = f[l] /\ b = f[r] /\ k = h.key[n] /\ s = a \o <<k>> \o b
  OBVIOUS
<1>2. a \in Seq(Keys) /\ b \in Seq(Keys) /\ k \in Keys
  BY Zenon, <1>1, KidsOf DEF ListsKeys, Wired, Heaps, Keys
<1>3. /\ s \in Seq(Keys) /\ Len(s) = Len(a) + Len(b) + 1 /\ Len(a) \in Nat /\ Len(b) \in Nat
      /\ \A i \in 1..Len(s) : s[i] = IF i <= Len(a) THEN a[i]
                                     ELSE IF i = Len(a) + 1 THEN k ELSE b[i - (Len(a) + 1)]
  <2>1. s = a \o <<k>> \o b
    BY ZenonT(60), <1>1
  <2> QED
    BY <1>2, <2>1, JoinIs
<1>4. D[n] = {n} \cup D[l] \cup D[r] /\ Cardinality(D[n]) = Cardinality(D[l]) + Cardinality(D[r]) + 1
  BY SMTT(30), SubtreeSizes DEF Below
<1>5. Len(s) = Cardinality(D[n])
  BY Zenon, <1>1, <1>3, <1>4 DEF ListsKeys
<1>6. Ascending(s)
  <2>1. Between(a, k, b)
    BY ZenonT(60), <1>1 DEF ListsKeys, Sorted, Between
  <2>2. Ascending(a) /\ Ascending(b)
    BY Zenon, <1>1 DEF ListsKeys
  <2>3. s = a \o <<k>> \o b
    BY <1>1
  <2> QED
    BY <1>2, <2>1, <2>2, <2>3, JoinAscending
<1>7. ASSUME NEW i \in 1..Len(s) PROVE \E m \in D[n] : s[i] = h.key[m]
  <2>1. CASE i <= Len(a)
    <3>1. i \in 1..Len(a) /\ s[i] = a[i]
      BY <1>3, <2>1
    <3>2. \E m \in D[l] : a[i] = h.key[m]
      BY Zenon, <1>1, <3>1 DEF ListsKeys
    <3> QED
      BY <1>4, <3>1, <3>2
  <2>2. CASE i = Len(a) + 1
    <3>1. ~(i <= Len(a))
      BY <1>3, <2>2
    <3>2. s[i] = k
      BY <1>3, <2>2, <3>1
    <3> QED
      BY Zenon, <1>1, <1>4, <3>2
  <2>3. CASE i > Len(a) + 1
    <3>1. PICK j : j = i - (Len(a) + 1)
      OBVIOUS
    <3>2. j \in 1..Len(b) /\ ~(i <= Len(a)) /\ i # Len(a) + 1
      BY <1>3, <2>3, <3>1
    <3>3. s[i] = b[j]
      BY <1>3, <3>1, <3>2
    <3>4. \E m \in D[r] : b[j] = h.key[m]
      BY Zenon, <1>1, <3>2 DEF ListsKeys
    <3> QED
      BY <1>4, <3>3, <3>4
  <2> QED
    BY <1>3, <2>1, <2>2, <2>3
<1>8. Joined(h, f, n) = s
  BY Zenon, <1>1 DEF Joined
<1> QED
  BY <1>3, <1>5, <1>6, <1>7, <1>8 DEF ListsKeys

LEMMA InOrderIs ==
    ASSUME NEW h, NEW D, Wired(h), Below(h, D), Sorted(h, D)
    PROVE  ListsKeys(h, In(h), InOrder(h))
<1>1. PICK f : f = CHOOSE g : OrderEq(h, g)
  OBVIOUS
<1>2. OrderEq(h, f)
  <2>1. \E g : OrderEq(h, g)
    BY OrdersExist
  <2> QED
    BY <1>1, <2>1
<1>3. f = InOrders(h)
  BY <1>1 DEF InOrders, OrderEq, Joined
<1>4. f[Nil] = << >> /\ \A n \in In(h) : f[n] = Joined(h, f, n)
  BY <1>2, KidsOf DEF OrderEq, Ptr
<1>5. PICK S : S = {n \in In(h) \cup {Nil} : ListsKeys(h, D[n], f[n])}
  OBVIOUS
<1>6. Nil \in S
  <2>1. << >> \in Seq(Keys) /\ Len(<< >>) = 0 /\ Cardinality(D[Nil]) = 0
    BY EmptySeq, FS_EmptySet DEF Below
  <2>2. \A i \in 1..0 : FALSE
    OBVIOUS
  <2>3. \A i \in 1..(0 - 1) : FALSE
    OBVIOUS
  <2> QED
    BY <1>4, <1>5, <2>1, <2>2, <2>3 DEF ListsKeys, Ascending
<1>7. ASSUME NEW n \in In(h), \A d \in Side : h.kid[n][d] \in S PROVE n \in S
  <2>1. PICK l, r : l = h.kid[n][-1] /\ r = h.kid[n][1] /\ l \in S /\ r \in S
    BY <1>7, Sides
  <2>2. ListsKeys(h, D[l], f[l]) /\ ListsKeys(h, D[r], f[r])
    BY <1>5, <2>1
  <2>3. ListsKeys(h, D[n], Joined(h, f, n))
    BY <2>1, <2>2, ListsJoined
  <2> QED
    BY <1>4, <1>5, <2>3
<1>8. \A n \in In(h) : n \in S
  BY <1>6, <1>7, TreeInduction
<1>9. Top(h) \in In(h) \cup {Nil} /\ D[Top(h)] = In(h)
  BY KidsOf DEF Below
<1> QED
  BY <1>3, <1>5, <1>6, <1>8, <1>9 DEF InOrder

(* A walk in order visits every node that is allocated, as many as length  *)
(* says, and meets the keys in order: neither a rotation nor the trade of  *)
(* keys in avl_delete loses a subtree or disturbs the order.               *)
THEOREM TreeIsOrdered == Spec => []Ordered
<1>1. IInv => Ordered
  <2>1. SUFFICES ASSUME IInv PROVE Ordered
    OBVIOUS
  <2>2. PICK D : Wired(heap) /\ Below(heap, D) /\ Sorted(heap, D)
    BY <2>1 DEF IInv, Tree, Certified
  <2>3. ListsKeys(heap, In(heap), InOrder(heap)) /\ length = Cardinality(In(heap)) /\ InTree = In(heap)
    BY <2>1, <2>2, InOrderIs DEF IInv, InTree, In
  <2> QED
    BY <2>3 DEF Ordered, ListsKeys, Ascending
<1> QED
  BY <1>1, TreeInvariant, PTL
-----------------------------------------------------------------------------
(* The bag.                                                                *)
KeyedNodes(h, k) == {n \in h.used : h.key[n] = k}

LEMMA CountIs ==
    ASSUME NEW h, NEW rk, Tree(h, rk)
    PROVE  \A k \in Key : /\ IsFiniteSet(KeyedNodes(h, k))
                          /\ Cardinality(KeyedNodes(h, k)) \in Nat
                          /\ Count(h)[k] = Cardinality(KeyedNodes(h, k))
                          /\ KeyedNodes(h, k) \subseteq h.used
<1>1. h.used \subseteq Node
  BY TreeSize
<1>2. \A k \in Key : KeyedNodes(h, k) \subseteq h.used
  BY DEF KeyedNodes
<1>3. \A k \in Key : IsFiniteSet(KeyedNodes(h, k)) /\ Cardinality(KeyedNodes(h, k)) \in Nat
  BY <1>1, <1>2, NodesFinite, FS_CardinalityType
<1>4. \A k \in Key : Count(h)[k] = Cardinality(KeyedNodes(h, k))
  BY DEF Count, KeyedNodes
<1> QED
  BY <1>2, <1>3, <1>4

CountsChange(h, g, k, i) == \A j \in Key : Count(g)[j] = IF j = k THEN Count(h)[j] + i ELSE Count(h)[j]

LEMMA AddsCounts ==
    ASSUME NEW h, NEW g, NEW k \in Key, NEW rk, Tree(h, rk), Adds(h, g, k, rk)
    PROVE  CountsChange(h, g, k, 1)
<1>1. PICK n \in Node \ h.used : /\ Tree(g, rk) /\ g.used = h.used \cup {n} /\ g.key[n] = k
                                 /\ \A m \in h.used : g.key[m] = h.key[m]
  BY DEF Adds
<1>2. ASSUME NEW j \in Key
      PROVE  Count(g)[j] = IF j = k THEN Count(h)[j] + 1 ELSE Count(h)[j]
  <2>1. PICK A, B : A = KeyedNodes(h, j) /\ B = KeyedNodes(g, j)
    OBVIOUS
  <2>2. IsFiniteSet(A) /\ n \notin A
    BY <1>1, <2>1, CountIs
  <2>3. B = IF j = k THEN A \cup {n} ELSE A
    BY <1>1, <2>1 DEF KeyedNodes
  <2>4. Cardinality(A \cup {n}) = Cardinality(A) + 1
    BY <2>2, FS_AddElement
  <2>5. Count(h)[j] = Cardinality(A) /\ Count(g)[j] = Cardinality(B)
    BY <1>1, <2>1, CountIs
  <2> QED
    BY <2>3, <2>4, <2>5
<1> QED
  BY <1>2 DEF CountsChange

(* x has the key of z and z is gone: the nodes that still have key j.      *)
LEMMA RemovesCounts ==
    ASSUME NEW h, NEW g, NEW k \in Key, NEW rk, Tree(h, rk), Removes(h, g, k, rk)
    PROVE  Count(h)[k] > 0 /\ CountsChange(h, g, k, -1)
<1>1. PICK x \in In(h), z \in In(h) :
          /\ h.key[x] = k /\ Tree(g, rk) /\ g.used = h.used \ {z}
          /\ \A m \in g.used : g.key[m] = IF m = x THEN h.key[z] ELSE h.key[m]
  BY DEF Removes
<1>2. x \in h.used /\ z \in h.used
  BY DEF In
<1>3. PICK K : K = [j \in Key |-> KeyedNodes(h, j)]
  OBVIOUS
<1>4. \A j \in Key : IsFiniteSet(K[j]) /\ Cardinality(K[j]) \in Nat /\ Count(h)[j] = Cardinality(K[j])
  BY <1>3, CountIs
<1>5. x \in K[k] /\ \A j \in Key : (x \in K[j] => j = k) /\ (z \in K[j] <=> j = h.key[z])
  BY <1>1, <1>2, <1>3 DEF KeyedNodes
<1>6. \A j \in Key : \A m : m \in K[j] => Cardinality(K[j] \ {m}) = Cardinality(K[j]) - 1
  BY <1>4, FS_RemoveElement
<1>7. Count(h)[k] > 0
  <2>1. IsFiniteSet(K[k] \ {x}) /\ Cardinality(K[k] \ {x}) = Cardinality(K[k]) - 1
    BY <1>4, <1>5, <1>6, FS_RemoveElement
  <2>2. Cardinality(K[k] \ {x}) \in Nat
    BY <2>1, FS_CardinalityType
  <2> QED
    BY <1>4, <2>1, <2>2
<1>8. ASSUME NEW j \in Key
      PROVE  Count(g)[j] = IF j = k THEN Count(h)[j] + (-1) ELSE Count(h)[j]
  <2>1. PICK B : B = KeyedNodes(g, j)
    OBVIOUS
  <2>2. Count(g)[j] = Cardinality(B)
    BY <1>1, <2>1, CountIs
  <2>3. \A m : m \in B <=> m \in h.used /\ m # z /\ (IF m = x THEN h.key[z] = j ELSE h.key[m] = j)
    BY <1>1, <2>1 DEF KeyedNodes
  <2>4. \A m : m \in K[j] <=> m \in h.used /\ h.key[m] = j
    BY <1>3 DEF KeyedNodes
  <2>5. Cardinality(K[j]) + (-1) = Cardinality(K[j]) - 1
    BY <1>4
  <2>6. CASE j = k
    <3>1. CASE x = z \/ h.key[z] = k
      <4>1. B = K[j] \ {z} /\ z \in K[j]
        BY <1>1, <1>2, <2>3, <2>4, <2>6, <3>1
      <4> QED
        BY <1>4, <1>6, <2>2, <2>5, <2>6, <4>1
    <3>2. CASE x # z /\ h.key[z] # k
      <4>1. B = K[j] \ {x} /\ x \in K[j]
        BY <1>1, <1>2, <2>3, <2>4, <2>6, <3>2
      <4> QED
        BY <1>4, <1>6, <2>2, <2>5, <2>6, <4>1
    <3> QED
      BY <3>1, <3>2
  <2>7. CASE j # k
    <3>1. CASE h.key[z] = j
      <4>1. z \in K[j] /\ x # z /\ x \notin K[j]
        BY <1>1, <1>5, <2>7, <3>1
      <4>2. B = (K[j] \ {z}) \cup {x}
        BY <1>1, <1>2, <2>3, <2>4, <2>7, <3>1, <4>1
      <4>3. IsFiniteSet(K[j] \ {z}) /\ Cardinality(K[j] \ {z}) = Cardinality(K[j]) - 1
        BY <1>4, <4>1, FS_RemoveElement
      <4>4. Cardinality(B) = Cardinality(K[j] \ {z}) + 1
        BY <4>1, <4>2, <4>3, FS_AddElement
      <4> QED
        BY <1>4, <2>2, <2>7, <4>3, <4>4
    <3>2. CASE h.key[z] # j
      <4>1. B = K[j]
        BY <1>1, <1>2, <2>3, <2>4, <2>7, <3>2
      <4> QED
        BY <1>4, <2>2, <2>7, <4>1
    <3> QED
      BY <3>1, <3>2
  <2> QED
    BY <2>6, <2>7
<1> QED
  BY <1>7, <1>8 DEF CountsChange

LEMMA BagInit ==
    Count(NewTree) = [k \in Key |-> 0]
<1>1. PICK h : h = NewTree
  OBVIOUS
<1>2. h.used = {Root} /\ h.key[Root] = NoKey
  BY <1>1, Constants DEF NewTree
<1>3. ASSUME NEW k \in Key PROVE Cardinality({n \in h.used : h.key[n] = k}) = 0
  <2>1. k # NoKey
    BY KeyAssumption DEF NoKey
  <2>2. {n \in h.used : h.key[n] = k} = {}
    BY <1>2, <2>1
  <2> QED
    BY <2>2, FS_EmptySet
<1> QED
  BY <1>1, <1>3 DEF Count

LEMMA BagInsert ==
    ASSUME IInv, NEW k \in Key, AvlInsert(k)
    PROVE  Bag!Insert(k)
<1>1. Tree(heap, RanksKept) /\ Adds(heap, heap', k, RanksKept)
  BY InsertStep DEF IInv
<1>2. CountsChange(heap, heap', k, 1)
  BY <1>1, AddsCounts
<1>3. Count(heap') = [Count(heap) EXCEPT ![k] = @ + 1]
  <2>1. Count(heap) = [j \in Key |-> Count(heap)[j]] /\ Count(heap') = [j \in Key |-> Count(heap')[j]]
    BY DEF Count
  <2> HIDE DEF Count
  <2> QED
    BY <1>2, <2>1 DEF CountsChange
<1> QED
  BY <1>3 DEF Bag!Insert, Count

LEMMA BagDelete ==
    ASSUME IInv, NEW k \in Key, AvlDelete(k)
    PROVE  Bag!Delete(k)
<1>1. Tree(heap, RanksKept) /\ Removes(heap, heap', k, RanksKept)
  BY DeleteStep DEF IInv
<1>2. Count(heap)[k] > 0 /\ CountsChange(heap, heap', k, -1)
  BY <1>1, RemovesCounts
<1>3. \A j \in Key : Count(heap)[j] \in Nat
  BY <1>1, CountIs
<1>4. Count(heap') = [Count(heap) EXCEPT ![k] = @ - 1]
  <2>1. Count(heap) = [j \in Key |-> Count(heap)[j]] /\ Count(heap') = [j \in Key |-> Count(heap')[j]]
    BY DEF Count
  <2>2. Count(heap)[k] + (-1) = Count(heap)[k] - 1
    BY <1>3
  <2> QED
    BY <1>2, <2>1, <2>2 DEF CountsChange
<1> QED
  BY <1>2, <1>4 DEF Bag!Delete, Count

LEMMA BagSame ==
    ASSUME IInv, NEW k \in Key, AvlInsertNoMemory(k) \/ AvlDeleteMiss(k)
    PROVE  UNCHANGED Count(heap)
<1>1. SameButRank(heap, heap')
  BY FailSteps
<1> QED
  BY <1>1 DEF SameButRank, Count

(* Every operation on the tree is the bag's operation on the same key.     *)
THEOREM TreeIsBag == Spec => BagSpec
<1>1. Init => Bag!Init
  BY BagInit DEF Init, Bag!Init
<1>2. IInv /\ [Next]_vars => [Bag!Next]_(Count(heap))
  <2>1. SUFFICES ASSUME IInv, [Next]_vars PROVE Bag!Next \/ UNCHANGED Count(heap)
    OBVIOUS
  <2>2. ASSUME NEW k \in Key, AvlInsert(k) PROVE Bag!Next
    <3>1. Bag!Insert(k)
      BY <2>1, <2>2, BagInsert
    <3> QED
      BY <3>1 DEF Bag!Next
  <2>3. ASSUME NEW k \in Key, AvlDelete(k) PROVE Bag!Next
    <3>1. Bag!Delete(k)
      BY <2>1, <2>3, BagDelete
    <3> QED
      BY <3>1 DEF Bag!Next
  <2>4. ASSUME NEW k \in Key, AvlInsertNoMemory(k) \/ AvlDeleteMiss(k) PROVE UNCHANGED Count(heap)
    BY <2>1, <2>4, BagSame
  <2>5. CASE AvlTreeFree
    <3>1. heap' = NewTree
      BY <2>5 DEF AvlTreeFree
    <3>2. Count(heap') = [k \in Key |-> 0]
      BY <3>1, BagInit
    <3>3. Bag!Clear
      BY <3>2 DEF Bag!Clear, Count
    <3> QED
      BY <3>3 DEF Bag!Next
  <2>6. CASE UNCHANGED vars
    BY <2>6 DEF vars, Count
  <2> QED
    BY <2>1, <2>2, <2>3, <2>4, <2>5, <2>6 DEF Next
<1>3. IInv /\ [Next]_vars => [SameOperation]_vars
  <2>1. SUFFICES ASSUME IInv, NEW k \in Key
                 PROVE  /\ Bag!Insert(k) \/ ~AvlInsert(k)
                        /\ Bag!Delete(k) \/ ~AvlDelete(k)
                        /\ UNCHANGED Count(heap) \/ ~(AvlInsertNoMemory(k) \/ AvlDeleteMiss(k))
    BY DEF SameOperation
  <2>2. AvlInsert(k) => Bag!Insert(k)
    BY <2>1, BagInsert
  <2>3. AvlDelete(k) => Bag!Delete(k)
    BY <2>1, BagDelete
  <2>4. AvlInsertNoMemory(k) \/ AvlDeleteMiss(k) => UNCHANGED Count(heap)
    BY <2>1, BagSame
  <2> QED
    BY <2>2, <2>3, <2>4
<1> QED
  BY <1>1, <1>2, <1>3, TreeInvariant, PTL DEF Spec, BagSpec, Bag!Spec
-----------------------------------------------------------------------------
(* The queries: the places of the nodes in the order of the keys.          *)
(* The nodes ns of a subtree have places in the sequence s of their keys:  *)
(* P[n] is the place of n, A[i] the node at place i.                       *)
Numbered(h, D, ns, P, A, s) ==
    /\ \A n \in ns : P[n] \in 1..Len(s) /\ A[P[n]] = n /\ s[P[n]] = h.key[n]
    /\ \A i \in 1..Len(s) : A[i] \in ns /\ P[A[i]] = i
    /\ \A n \in ns : \A m \in D[h.kid[n][-1]] : P[m] < P[n]
    /\ \A n \in ns : \A m \in D[h.kid[n][1]] : P[n] < P[m]

(* The place of a child, from that of its parent and the ranks W.          *)
Stepped(h, ns, P, W) ==
    \A n \in ns :
        /\ h.kid[n][-1] # Nil => P[h.kid[n][-1]] = (P[n] - W[n]) + W[h.kid[n][-1]]
        /\ h.kid[n][1] # Nil => P[h.kid[n][1]] = P[n] + W[h.kid[n][1]]

Weights(h, D, W) == \A n \in In(h) : W[n] = Cardinality(D[h.kid[n][-1]]) + 1 /\ W[n] \in Nat

(* The numbering of the subtrees of l and r carries over to n above them.  *)
NumbersJoined(D, n, l, r, a, P1, P2, A1, A2, P, A) ==
    /\ P = [m \in D[n] |-> IF m \in D[l] THEN P1[m] ELSE IF m = n THEN a + 1 ELSE P2[m] + (a + 1)]
    /\ \A i \in Nat : A[i] = IF i <= a THEN A1[i] ELSE IF i = a + 1 THEN n ELSE A2[i - (a + 1)]

LEMMA JoinedPlaces ==
    ASSUME NEW h, NEW D, Wired(h), Below(h, D), NEW n \in In(h),
           NEW l, NEW r, l = h.kid[n][-1], r = h.kid[n][1],
           NEW t \in Seq(Keys), NEW u \in Seq(Keys), NEW s, s = t \o <<h.key[n]>> \o u,
           h.key[n] \in Keys,
           NEW P1, NEW A1, NEW P2, NEW A2, Numbered(h, D, D[l], P1, A1, t), Numbered(h, D, D[r], P2, A2, u),
           NEW P, NEW A, NumbersJoined(D, n, l, r, Len(t), P1, P2, A1, A2, P, A)
    PROVE  Numbered(h, D, D[n], P, A, s)
<1>1. PICK a \in Nat, b \in Nat : a = Len(t) /\ b = Len(u)
  BY LenProperties
<1>2. /\ Len(s) = a + b + 1
      /\ \A i \in 1..(a + b + 1) : s[i] = IF i <= a THEN t[i] ELSE IF i = a + 1 THEN h.key[n] ELSE u[i - (a + 1)]
  BY <1>1, JoinIs
<1>3. /\ D[n] = {n} \cup D[l] \cup D[r] /\ n \notin D[l] /\ n \notin D[r] /\ D[l] \cap D[r] = {}
  BY DEF Below
<1>4. /\ \A m \in D[l] : P1[m] \in 1..a /\ A1[P1[m]] = m /\ t[P1[m]] = h.key[m]
      /\ \A i \in 1..a : A1[i] \in D[l] /\ P1[A1[i]] = i
  BY <1>1 DEF Numbered
<1>5. /\ \A m \in D[r] : P2[m] \in 1..b /\ A2[P2[m]] = m /\ u[P2[m]] = h.key[m]
      /\ \A i \in 1..b : A2[i] \in D[r] /\ P2[A2[i]] = i
  BY <1>1 DEF Numbered
<1>6. /\ \A m \in D[l] : P[m] = P1[m]
      /\ P[n] = a + 1
      /\ \A m \in D[r] : P[m] = P2[m] + (a + 1)
  BY <1>1, <1>3 DEF NumbersJoined
<1>7. \A i \in Nat : A[i] = IF i <= a THEN A1[i] ELSE IF i = a + 1 THEN n ELSE A2[i - (a + 1)]
  BY <1>1 DEF NumbersJoined
<1>8. ASSUME NEW m \in D[l] PROVE P[m] \in 1..a /\ P[m] \in 1..Len(s) /\ A[P[m]] = m /\ s[P[m]] = h.key[m]
  <2>1. P[m] \in 1..a /\ P[m] = P1[m] /\ A1[P[m]] = m /\ t[P[m]] = h.key[m]
    BY <1>4, <1>6
  <2>2. P[m] \in 1..(a + b + 1) /\ P[m] <= a /\ P[m] \in Nat
    BY <2>1
  <2> QED
    BY <1>2, <1>7, <2>1, <2>2
<1>9. P[n] = a + 1 /\ P[n] \in 1..Len(s) /\ A[P[n]] = n /\ s[P[n]] = h.key[n]
  <2>1. a + 1 \in 1..(a + b + 1) /\ ~(a + 1 <= a) /\ a + 1 \in Nat
    OBVIOUS
  <2> QED
    BY <1>2, <1>6, <1>7, <2>1
<1>10. ASSUME NEW m \in D[r]
       PROVE  P[m] \in (a + 2)..(a + b + 1) /\ P[m] \in 1..Len(s) /\ A[P[m]] = m /\ s[P[m]] = h.key[m]
  <2>1. PICK j \in 1..b : j = P2[m] /\ A2[j] = m /\ u[j] = h.key[m] /\ P[m] = j + (a + 1)
    BY <1>5, <1>6
  <2>2. /\ j + (a + 1) \in (a + 2)..(a + b + 1) /\ j + (a + 1) \in 1..(a + b + 1) /\ ~(j + (a + 1) <= a)
        /\ j + (a + 1) # a + 1 /\ (j + (a + 1)) - (a + 1) = j /\ j + (a + 1) \in Nat
    OBVIOUS
  <2> QED
    BY <1>2, <1>7, <2>1, <2>2
<1>11. \A m \in D[n] : P[m] \in 1..Len(s) /\ A[P[m]] = m /\ s[P[m]] = h.key[m]
  BY <1>3, <1>8, <1>9, <1>10
<1>12. ASSUME NEW i \in 1..Len(s) PROVE A[i] \in D[n] /\ P[A[i]] = i
  <2>1. i \in Nat /\ i \in 1..(a + b + 1)
    BY <1>2
  <2>2. CASE i <= a
    <3>1. i \in 1..a /\ A[i] = A1[i]
      BY <1>7, <2>1, <2>2
    <3>2. A1[i] \in D[l] /\ P1[A1[i]] = i
      BY <1>4, <3>1
    <3> QED
      BY <1>3, <1>6, <3>1, <3>2
  <2>3. CASE i = a + 1
    <3>1. A[i] = n
      BY <1>7, <2>1, <2>3
    <3> QED
      BY <1>3, <1>6, <2>3, <3>1
  <2>4. CASE i > a + 1
    <3>1. PICK j \in 1..b : j = i - (a + 1) /\ i = j + (a + 1)
      BY <2>1, <2>4
    <3>2. A[i] = A2[j]
      BY <1>7, <2>1, <2>4, <3>1
    <3>3. A2[j] \in D[r] /\ P2[A2[j]] = j
      BY <1>5
    <3> QED
      BY <1>3, <1>6, <3>1, <3>2, <3>3
  <2> QED
    BY <2>1, <2>2, <2>3, <2>4
<1>13. ASSUME NEW q \in D[n]
       PROVE  /\ \A m \in D[h.kid[q][-1]] : P[m] < P[q]
              /\ \A m \in D[h.kid[q][1]] : P[q] < P[m]
  <2>1. CASE q = n
    <3>1. \A m \in D[l] : P[m] < a + 1
      BY <1>8
    <3>2. \A m \in D[r] : a + 1 < P[m]
      BY <1>10
    <3> QED
      BY <1>9, <2>1, <3>1, <3>2
  <2>5. q \in In(h)
    BY NodeIs
  <2>2. D[h.kid[q][-1]] \subseteq D[q] /\ D[h.kid[q][1]] \subseteq D[q]
    BY <2>5 DEF Below
  <2>3. CASE q \in D[l]
    <3>1. D[q] \subseteq D[l]
      <4>1. l # Nil
        BY <2>3 DEF Below
      <4>2. l \in In(h)
        BY <4>1, KidIs, Sides
      <4> QED
        BY <2>3, <4>2 DEF Below
    <3>2. /\ \A m \in D[h.kid[q][-1]] : m \in D[l] /\ P1[m] < P1[q]
          /\ \A m \in D[h.kid[q][1]] : m \in D[l] /\ P1[q] < P1[m]
      BY <1>3, <2>2, <2>3, <3>1 DEF Numbered
    <3> QED
      BY <1>6, <2>3, <3>2
  <2>4. CASE q \in D[r]
    <3>1. D[q] \subseteq D[r]
      <4>1. r # Nil
        BY <2>4 DEF Below
      <4>2. r \in In(h)
        BY <4>1, KidIs, Sides
      <4> QED
        BY <2>4, <4>2 DEF Below
    <3>2. /\ \A m \in D[h.kid[q][-1]] : m \in D[r] /\ P2[m] < P2[q]
          /\ \A m \in D[h.kid[q][1]] : m \in D[r] /\ P2[q] < P2[m]
      BY <1>3, <2>2, <2>4, <3>1 DEF Numbered
    <3>3. \A m \in D[r] : P2[m] \in Int
      BY <1>5
    <3>4. ASSUME NEW m \in D[r] PROVE P[m] = P2[m] + (a + 1) /\ P2[m] \in Int
      BY <1>6, <3>3
    <3>5. ASSUME NEW m \in D[h.kid[q][-1]] PROVE P[m] < P[q]
      <4>1. P2[m] < P2[q] /\ m \in D[r]
        BY <3>2
      <4> QED
        BY <2>4, <3>4, <4>1
    <3>6. ASSUME NEW m \in D[h.kid[q][1]] PROVE P[q] < P[m]
      <4>1. P2[q] < P2[m] /\ m \in D[r]
        BY <3>2
      <4> QED
        BY <2>4, <3>4, <4>1
    <3> QED
      BY <3>5, <3>6
  <2> QED
    BY <1>3, <2>1, <2>3, <2>4
<1> QED
  BY <1>11, <1>12, <1>13 DEF Numbered


(* In a sequence in ascending order, later keys are larger.                *)
LEMMA AscendingAll ==
    ASSUME NEW s \in Seq(Keys), Ascending(s)
    PROVE  \A i, j \in 1..Len(s) : i <= j => s[i] <= s[j]
<1>1. ASSUME NEW i \in 1..Len(s), NEW j \in 1..Len(s), i <= j PROVE s[i] <= s[j]
  <2>1. PICK n \in Nat, k \in Nat : n = Len(s) /\ k = j - i
    BY <1>1, LenProperties
  <2>0. ASSUME NEW m \in 1..n PROVE s[m] \in Nat
    <3>1. s[m] \in Keys
      BY <2>1, ElementOfSeq
    <3>2. Keys \subseteq Nat
      BY KeyAssumption DEF Keys, NoKey
    <3> QED
      BY <3>1, <3>2
  <2>2. \A m \in 1..n : s[m] \in Nat
    BY <2>0
  <2>3. PICK f : f = [m \in 0..k |-> s[i + m]]
    OBVIOUS
  <2>4. PICK T : T = {x \in Nat : s[i] <= x}
    OBVIOUS
  <2>5. f[0] \in T
    BY <2>1, <2>2, <2>3, <2>4
  <2>6. ASSUME NEW m \in 1..k, f[m - 1] \in T PROVE f[m] \in T
    <3>1. m \in 0..k /\ m - 1 \in 0..k /\ i + m \in 1..n /\ i + (m - 1) \in 1..(n - 1)
          /\ i + (m - 1) \in 1..n /\ (i + (m - 1)) + 1 = i + m
      BY <2>1
    <3>2. s[i + (m - 1)] <= s[i + m]
      BY <2>1, <3>1 DEF Ascending
    <3>3. f[m] = s[i + m] /\ f[m - 1] = s[i + (m - 1)] /\ f[m] \in Nat /\ f[m - 1] \in Nat /\ s[i] \in Nat
      BY <2>1, <2>2, <2>3, <3>1
    <3>4. s[i] <= f[m - 1]
      BY <2>4, <2>6
    <3> QED
      BY <2>4, <3>2, <3>3, <3>4
  <2>7. \A m \in 0..k : f[m] \in T
    BY <2>5, <2>6, LoopStays
  <2>8. k \in 0..k /\ f[k] = s[j]
    BY <2>1, <2>3
  <2> QED
    BY <2>4, <2>7, <2>8
<1> QED
  BY <1>1

LEMMA JoinedSteps ==
    ASSUME NEW h, NEW D, Wired(h), Below(h, D), NEW n \in In(h),
           NEW l, NEW r, l = h.kid[n][-1], r = h.kid[n][1], NEW W, Weights(h, D, W),
           NEW P1, NEW P2, NEW A1, NEW A2, NEW P, NEW A, NEW a, a = Cardinality(D[l]),
           NumbersJoined(D, n, l, r, a, P1, P2, A1, A2, P, A),
           Stepped(h, D[l], P1, W), l # Nil => P1[l] = W[l], \A m \in D[l] : P1[m] \in Int,
           Stepped(h, D[r], P2, W), r # Nil => P2[r] = W[r], \A m \in D[r] : P2[m] \in Int
    PROVE  Stepped(h, D[n], P, W) /\ P[n] = W[n]
<1>1. /\ D[n] = {n} \cup D[l] \cup D[r] /\ n \notin D[l] /\ n \notin D[r] /\ D[l] \cap D[r] = {}
  BY DEF Below
<1>2. /\ \A m \in D[l] : P[m] = P1[m]
      /\ P[n] = a + 1
      /\ \A m \in D[r] : P[m] = P2[m] + (a + 1)
  BY <1>1 DEF NumbersJoined
<1>3. P[n] = W[n] /\ W[n] \in Nat /\ a + 1 \in Nat
  BY <1>2 DEF Weights
<1>4. ASSUME NEW q \in In(h), NEW d \in Side, h.kid[q][d] # Nil
      PROVE  h.kid[q][d] \in In(h) /\ h.kid[q][d] \in D[q] /\ W[h.kid[q][d]] \in Nat /\ W[q] \in Nat
  BY <1>4, KidIs DEF Weights
<1>5. ASSUME NEW c, c \in {l, r}, c # Nil PROVE c \in In(h) /\ c \in D[c] /\ W[c] \in Nat
  <2>1. c \in In(h)
    BY <1>4, <1>5, Sides
  <2> QED
    BY <2>1, NodeIs DEF Weights
<1>6. ASSUME NEW c \in {l, r}, NEW q \in D[c], NEW d \in Side, h.kid[q][d] # Nil
      PROVE  q \in In(h) /\ h.kid[q][d] \in D[c]
  <2>1. c # Nil
    BY <1>6 DEF Below
  <2>2. c \in In(h) /\ q \in In(h)
    BY <1>5, <2>1, NodeIs
  <2>3. D[q] \subseteq D[c]
    BY <2>2 DEF Below
  <2> QED
    BY <1>4, <1>6, <2>2, <2>3
<1>7. ASSUME NEW q \in D[n]
      PROVE  /\ h.kid[q][-1] # Nil => P[h.kid[q][-1]] = (P[q] - W[q]) + W[h.kid[q][-1]]
             /\ h.kid[q][1] # Nil => P[h.kid[q][1]] = P[q] + W[h.kid[q][1]]
  <2>1. CASE q = n
    <3>1. ASSUME l # Nil PROVE P[l] = (P[n] - W[n]) + W[l]
      BY <1>2, <1>3, <1>5, <3>1
    <3>2. ASSUME r # Nil PROVE P[r] = P[n] + W[r]
      BY <1>2, <1>3, <1>5, <3>2
    <3> QED
      BY <2>1, <3>1, <3>2
  <2>2. CASE q \in D[l]
    <3>1. h.kid[q][-1] # Nil => h.kid[q][-1] \in D[l] /\ P1[h.kid[q][-1]] = (P1[q] - W[q]) + W[h.kid[q][-1]]
      BY <1>6, <2>2, Sides DEF Stepped
    <3>2. h.kid[q][1] # Nil => h.kid[q][1] \in D[l] /\ P1[h.kid[q][1]] = P1[q] + W[h.kid[q][1]]
      BY <1>6, <2>2, Sides DEF Stepped
    <3> QED
      BY <1>2, <2>2, <3>1, <3>2
  <2>3. CASE q \in D[r]
    <3>1. ASSUME h.kid[q][-1] # Nil PROVE P[h.kid[q][-1]] = (P[q] - W[q]) + W[h.kid[q][-1]]
      <4>1. PICK c : c = h.kid[q][-1] /\ c \in D[r] /\ c # Nil /\ W[c] \in Nat /\ W[q] \in Nat
        BY <1>4, <1>6, <2>3, <3>1, Sides
      <4>2. P2[c] = (P2[q] - W[q]) + W[c]
        BY <2>3, <4>1 DEF Stepped
      <4>3. P[c] = P2[c] + (a + 1) /\ P[q] = P2[q] + (a + 1) /\ P2[q] \in Int /\ P2[c] \in Int
        BY <1>2, <2>3, <4>1
      <4> QED
        BY <1>3, <4>1, <4>2, <4>3
    <3>2. ASSUME h.kid[q][1] # Nil PROVE P[h.kid[q][1]] = P[q] + W[h.kid[q][1]]
      <4>1. PICK c : c = h.kid[q][1] /\ c \in D[r] /\ c # Nil /\ W[c] \in Nat
        BY <1>4, <1>6, <2>3, <3>2, Sides
      <4>2. P2[c] = P2[q] + W[c]
        BY <2>3, <4>1 DEF Stepped
      <4>3. P[c] = P2[c] + (a + 1) /\ P[q] = P2[q] + (a + 1) /\ P2[q] \in Int /\ P2[c] \in Int
        BY <1>2, <2>3, <4>1
      <4> QED
        BY <1>3, <4>1, <4>2, <4>3
    <3> QED
      BY <3>1, <3>2
  <2> QED
    BY <1>1, <2>1, <2>2, <2>3
<1> QED
  BY <1>3, <1>7 DEF Stepped

(* All of this for the subtree of n, whose keys in order are t.            *)
Placed(h, D, n, t, P, A, W) ==
    /\ t \in Seq(Keys) /\ Len(t) = Cardinality(D[n])
    /\ Numbered(h, D, D[n], P, A, t)
    /\ Stepped(h, D[n], P, W)
    /\ n # Nil => P[n] = W[n]

LEMMA PlacedAbove ==
    ASSUME NEW h, NEW D, Wired(h), Below(h, D), Sorted(h, D), NEW W, Weights(h, D, W), NEW n \in In(h),
           NEW l, NEW r, l = h.kid[n][-1], r = h.kid[n][1], NEW t, NEW u,
           \E P, A : Placed(h, D, l, t, P, A, W), \E P, A : Placed(h, D, r, u, P, A, W)
    PROVE  \E P, A : Placed(h, D, n, t \o <<h.key[n]>> \o u, P, A, W)
<1>1. PICK P1, A1 : Placed(h, D, l, t, P1, A1, W)
  OBVIOUS
<1>2. PICK P2, A2 : Placed(h, D, r, u, P2, A2, W)
  OBVIOUS
<1>3. PICK a : a = Len(t) /\ a = Cardinality(D[l])
  BY <1>1 DEF Placed
<1>4. PICK P, A : NumbersJoined(D, n, l, r, a, P1, P2, A1, A2, P, A)
  <2>1. PICK P : P = [m \in D[n] |-> IF m \in D[l] THEN P1[m] ELSE IF m = n THEN a + 1 ELSE P2[m] + (a + 1)]
    OBVIOUS
  <2>2. PICK A : A = [i \in Nat |-> IF i <= a THEN A1[i] ELSE IF i = a + 1 THEN n ELSE A2[i - (a + 1)]]
    OBVIOUS
  <2>3. \A i \in Nat : A[i] = IF i <= a THEN A1[i] ELSE IF i = a + 1 THEN n ELSE A2[i - (a + 1)]
    BY <2>2
  <2> QED
    BY <2>1, <2>3 DEF NumbersJoined
<1>5. PICK s : s = t \o <<h.key[n]>> \o u
  OBVIOUS
<1>6. h.key[n] \in Keys /\ t \in Seq(Keys) /\ u \in Seq(Keys)
  BY <1>1, <1>2 DEF Placed, Sorted, Keys
<1>7. s \in Seq(Keys) /\ Len(s) = Cardinality(D[n])
  <2>1. s \in Seq(Keys) /\ Len(s) = Len(t) + Len(u) + 1
    BY <1>5, <1>6, JoinIs
  <2>2. Cardinality(D[n]) = Cardinality(D[l]) + Cardinality(D[r]) + 1
    BY SubtreeSizes
  <2> QED
    BY <1>1, <1>2, <2>1, <2>2 DEF Placed
<1>8. Numbered(h, D, D[n], P, A, s)
  <2>1. Numbered(h, D, D[l], P1, A1, t) /\ Numbered(h, D, D[r], P2, A2, u)
    BY <1>1, <1>2 DEF Placed
  <2> QED
    BY <1>3, <1>4, <1>5, <1>6, <2>1, JoinedPlaces
<1>9. Stepped(h, D[n], P, W) /\ P[n] = W[n]
  <2>1. /\ Stepped(h, D[l], P1, W) /\ (l # Nil => P1[l] = W[l]) /\ \A m \in D[l] : P1[m] \in 1..Len(t)
        /\ Stepped(h, D[r], P2, W) /\ (r # Nil => P2[r] = W[r]) /\ \A m \in D[r] : P2[m] \in 1..Len(u)
    BY <1>1, <1>2 DEF Placed, Numbered
  <2>2. /\ \A m \in D[l] : P1[m] \in Int
        /\ \A m \in D[r] : P2[m] \in Int
    BY <2>1
  <2>3. a = Cardinality(D[l])
    BY <1>3
  <2>4. NumbersJoined(D, n, l, r, a, P1, P2, A1, A2, P, A)
    BY <1>4
  <2>5. /\ Stepped(h, D[l], P1, W) /\ (l # Nil => P1[l] = W[l])
        /\ Stepped(h, D[r], P2, W) /\ (r # Nil => P2[r] = W[r])
    BY <2>1
  <2> HIDE <1>1, <1>2, <1>3
  <2> QED
    BY <2>2, <2>3, <2>4, <2>5, JoinedSteps
<1> QED
  BY <1>5, <1>7, <1>8, <1>9 DEF Placed

(* The places in the whole tree.                                           *)
Placing(h, D, P, A, s) ==
    /\ Numbered(h, D, In(h), P, A, s)
    /\ s \in Seq(Keys) /\ Len(s) = Cardinality(In(h)) /\ Len(s) \in 0..MaxLength
    /\ \A i, j \in 1..Len(s) : i <= j => s[i] <= s[j]

LEMMA PlacesExist ==
    ASSUME NEW h, NEW D, Wired(h), Below(h, D), Sorted(h, D), NEW W, Weights(h, D, W)
    PROVE  \E P, A : /\ Placing(h, D, P, A, InOrder(h))
                     /\ Stepped(h, In(h), P, W) /\ (Top(h) # Nil => P[Top(h)] = W[Top(h)])
<1>1. PICK f : f = CHOOSE g : OrderEq(h, g)
  OBVIOUS
<1>2. OrderEq(h, f)
  <2>1. \E g : OrderEq(h, g)
    BY OrdersExist
  <2> QED
    BY <1>1, <2>1
<1>3. f = InOrders(h)
  BY <1>1 DEF InOrders, OrderEq, Joined
<1>4. f[Nil] = << >> /\ \A n \in In(h) : f[n] = Joined(h, f, n)
  BY <1>2, KidsOf DEF OrderEq, Ptr
<1>5. PICK S : S = {n \in In(h) \cup {Nil} : \E P, A : Placed(h, D, n, f[n], P, A, W)}
  OBVIOUS
<1>6. Nil \in S
  <2>1. << >> \in Seq(Keys) /\ Len(<< >>) = 0 /\ Cardinality(D[Nil]) = 0 /\ D[Nil] = {}
    BY EmptySeq, FS_EmptySet DEF Below
  <2>2. \A i \in 1..0 : FALSE
    OBVIOUS
  <2>3. PICK P : P = [i \in {} |-> 0]
    OBVIOUS
  <2>4. Numbered(h, D, {}, P, P, << >>) /\ Stepped(h, {}, P, W)
    BY <2>1, <2>2 DEF Numbered, Stepped
  <2>5. Placed(h, D, Nil, << >>, P, P, W)
    BY <2>1, <2>4 DEF Placed
  <2> QED
    BY <1>4, <1>5, <2>5
<1>7. ASSUME NEW n \in In(h), \A d \in Side : h.kid[n][d] \in S PROVE n \in S
  <2>1. PICK l, r : l = h.kid[n][-1] /\ r = h.kid[n][1] /\ l \in S /\ r \in S
    BY <1>7, Sides
  <2>2. (\E P, A : Placed(h, D, l, f[l], P, A, W)) /\ (\E P, A : Placed(h, D, r, f[r], P, A, W))
    BY <1>5, <2>1
  <2>3. \E P, A : Placed(h, D, n, f[l] \o <<h.key[n]>> \o f[r], P, A, W)
    BY <2>1, <2>2, PlacedAbove
  <2>4. f[n] = f[l] \o <<h.key[n]>> \o f[r]
    BY <1>4, <2>1 DEF Joined
  <2> QED
    BY <1>5, <2>3, <2>4
<1>8. \A n \in In(h) : n \in S
  BY <1>6, <1>7, TreeInduction
<1>9. Top(h) \in In(h) \cup {Nil} /\ D[Top(h)] = In(h)
  BY KidsOf DEF Below
<1>10. PICK s : s = InOrder(h) /\ s = f[Top(h)]
  BY <1>3 DEF InOrder
<1>11. PICK P, A : Placed(h, D, Top(h), s, P, A, W)
  BY <1>5, <1>6, <1>8, <1>9, <1>10
<1>12. Ascending(s) /\ s \in Seq(Keys)
  BY <1>10, InOrderIs DEF ListsKeys
<1>13. \A i, j \in 1..Len(s) : i <= j => s[i] <= s[j]
  BY <1>12, AscendingAll
<1>14. Len(s) = Cardinality(In(h)) /\ Cardinality(In(h)) \in 0..MaxLength
  <2>1. Top(h) \in Ptr
    BY <1>9, KidsOf DEF Ptr
  <2> QED
    BY <1>9, <1>11, <2>1, SubtreeSizes DEF Placed
<1>15. Placing(h, D, P, A, s)
  BY <1>9, <1>11, <1>12, <1>13, <1>14 DEF Placing, Placed
<1> QED
  BY <1>9, <1>10, <1>11, <1>15 DEF Placed

(* What the first node of a loop has and every turn passes on, all its     *)
(* nodes have; S holds pairs of a turn and a node.                         *)
LEMMA PathStaysAt ==
    ASSUME NEW h, NEW n, NEW next, NEW path, Path(h, path, n, next), NEW S, <<1, n>> \in S,
           \A i \in Nat \ {0} : \A m \in In(h) : <<i, m>> \in S /\ next[m] # Nil => <<i + 1, next[m]>> \in S
    PROVE  \A i \in 1..Len(path) : <<i, path[i]>> \in S
<1>0. Len(path) \in Nat \ {0}
  BY DEF Path
<1>1. PICK l \in Nat : l = Len(path) - 1 /\ Len(path) = l + 1
  BY <1>0
<1>2. /\ Len(path) = l + 1 /\ path[1] = n
      /\ \A i \in 1..l : path[i + 1] = next[path[i]] /\ next[path[i]] # Nil
      /\ \A i \in 1..(l + 1) : path[i] \in In(h)
  BY <1>1 DEF Path
<1>3. PICK I : I = {i \in Nat : i <= l => <<i + 1, path[i + 1]>> \in S}
  OBVIOUS
<1>4. 0 \in I
  BY <1>2, <1>3
<1>5. ASSUME NEW i \in Nat, i \in I PROVE i + 1 \in I
  <2>1. SUFFICES ASSUME i + 1 <= l PROVE <<(i + 1) + 1, path[(i + 1) + 1]>> \in S
    BY <1>3
  <2>2. i + 1 \in 1..l /\ i + 1 \in 1..(l + 1) /\ i <= l /\ i + 1 \in Nat \ {0}
    BY <2>1
  <2>3. <<i + 1, path[i + 1]>> \in S
    BY <1>3, <1>5, <2>2
  <2>4. path[i + 1] \in In(h) /\ next[path[i + 1]] # Nil /\ path[(i + 1) + 1] = next[path[i + 1]]
    BY <1>2, <2>2
  <2> QED
    BY <2>2, <2>3, <2>4
<1>6. \A i \in Nat : i \in I
  BY <1>4, <1>5, AllNumbers
<1>7. ASSUME NEW i \in 1..(l + 1) PROVE <<i, path[i]>> \in S
  <2>1. i - 1 \in Nat /\ i - 1 <= l /\ (i - 1) + 1 = i
    BY <1>7
  <2> QED
    BY <1>3, <1>6, <2>1
<1> QED
  BY <1>2, <1>7

LEMMA PathStays ==
    ASSUME NEW h, NEW n, NEW next, NEW path, Path(h, path, n, next), NEW S, n \in S,
           \A m \in In(h) : m \in S /\ next[m] # Nil => next[m] \in S
    PROVE  Last(path) \in In(h) /\ Last(path) \in S
<1>1. PICK T : T = (Nat \X S)
  OBVIOUS
<1>2. <<1, n>> \in T
  BY <1>1
<1>3. \A i \in Nat \ {0} : \A m \in In(h) : <<i, m>> \in T /\ next[m] # Nil => <<i + 1, next[m]>> \in T
  BY <1>1
<1>4. \A i \in 1..Len(path) : <<i, path[i]>> \in T
  BY <1>2, <1>3, PathStaysAt
<1>5. \A i \in 1..Len(path) : path[i] \in S
  BY <1>1, <1>4
<1>6. Len(path) \in 1..Len(path) /\ Last(path) = path[Len(path)] /\ Last(path) \in In(h)
  BY DEF Path
<1> QED
  BY <1>5, <1>6

(* Q numbers the nodes in order, from side a to side b.                    *)
Oriented(h, D, Q, a, b) ==
    /\ a \in Side /\ b \in Side /\ a = -b /\ b = -a /\ a # b
    /\ \A n \in In(h) : Q[n] \in Int
    /\ \A n, m \in In(h) : Q[n] = Q[m] => n = m
    /\ \A n \in In(h) : \A m \in D[h.kid[n][a]] : Q[m] < Q[n]
    /\ \A n \in In(h) : \A m \in D[h.kid[n][b]] : Q[n] < Q[m]

(* A subtree is an interval of the numbers.                                *)
Convex(h, D, Q, n) ==
    \A x, y \in D[n] : \A m \in In(h) : Q[x] <= Q[m] /\ Q[m] <= Q[y] => m \in D[n]

LEMMA OrientedParts ==
    ASSUME NEW h, NEW D, Wired(h), Below(h, D), NEW Q, NEW a, NEW b, Oriented(h, D, Q, a, b), NEW n \in In(h),
           NEW l, NEW r, l = h.kid[n][a], r = h.kid[n][b]
    PROVE  /\ D[n] = {n} \cup D[l] \cup D[r] /\ D[n] \subseteq In(h)
           /\ l # Nil => l \in In(h) /\ h.up[l] = n
           /\ r # Nil => r \in In(h) /\ h.up[r] = n
           /\ \A m \in D[l] : Q[m] < Q[n] /\ m \in In(h)
           /\ \A m \in D[r] : Q[n] < Q[m] /\ m \in In(h)
           /\ \A m \in In(h) : Q[m] \in Int
<1>1. (a = -1 /\ b = 1) \/ (a = 1 /\ b = -1)
  BY Sides DEF Oriented
<1>2. D[n] = {n} \cup D[l] \cup D[r]
  BY <1>1 DEF Below
<1>3. D[n] \subseteq In(h)
  BY NodeIs
<1>4. a \in Side /\ b \in Side
  BY DEF Oriented
<1>5. /\ l # Nil => l \in In(h) /\ h.up[l] = n
      /\ r # Nil => r \in In(h) /\ h.up[r] = n
  BY <1>4, KidIs
<1> QED
  BY <1>2, <1>3, <1>5 DEF Oriented

LEMMA AllConvex ==
    ASSUME NEW h, NEW D, Wired(h), Below(h, D), NEW Q, NEW a, NEW b, Oriented(h, D, Q, a, b)
    PROVE  \A n \in In(h) : Convex(h, D, Q, n)
<1>1. PICK S : S = {n \in In(h) \cup {Nil} : Convex(h, D, Q, n) => \A k \in D[n] : Convex(h, D, Q, k)}
  OBVIOUS
<1>2. Nil \in S
  BY <1>1 DEF Below
<1>3. ASSUME NEW n \in In(h), \A d \in Side : h.kid[n][d] \in S PROVE n \in S
  <2>1. SUFFICES ASSUME Convex(h, D, Q, n), NEW k \in D[n] PROVE Convex(h, D, Q, k)
    BY <1>1
  <2>2. PICK l, r : l = h.kid[n][a] /\ r = h.kid[n][b]
    OBVIOUS
  <2>3. /\ D[n] = {n} \cup D[l] \cup D[r] /\ D[n] \subseteq In(h)
        /\ \A m \in D[l] : Q[m] < Q[n] /\ m \in In(h)
        /\ \A m \in D[r] : Q[n] < Q[m] /\ m \in In(h)
        /\ \A m \in In(h) : Q[m] \in Int
    BY <2>2, OrientedParts
  <2>4. l \in S /\ r \in S
    BY <1>3, <2>2 DEF Oriented
  <2>5. Convex(h, D, Q, l)
    <3>1. SUFFICES ASSUME NEW x \in D[l], NEW y \in D[l], NEW m \in In(h), Q[x] <= Q[m], Q[m] <= Q[y]
                   PROVE  m \in D[l]
      BY DEF Convex
    <3>2. m \in D[n]
      BY <2>1, <2>3, <3>1 DEF Convex
    <3>3. Q[m] < Q[n]
      BY <2>3, <3>1
    <3> QED
      BY <2>3, <3>2, <3>3
  <2>6. Convex(h, D, Q, r)
    <3>1. SUFFICES ASSUME NEW x \in D[r], NEW y \in D[r], NEW m \in In(h), Q[x] <= Q[m], Q[m] <= Q[y]
                   PROVE  m \in D[r]
      BY DEF Convex
    <3>2. m \in D[n]
      BY <2>1, <2>3, <3>1 DEF Convex
    <3>3. Q[n] < Q[m]
      BY <2>3, <3>1
    <3> QED
      BY <2>3, <3>2, <3>3
  <2>7. /\ \A m \in D[l] : Convex(h, D, Q, m)
        /\ \A m \in D[r] : Convex(h, D, Q, m)
    BY <1>1, <2>4, <2>5, <2>6
  <2> QED
    BY <2>1, <2>3, <2>7
<1>4. \A n \in In(h) : n \in S
  BY <1>2, <1>3, TreeInduction
<1>5. Top(h) \in S /\ D[Top(h)] = In(h)
  <2>1. Top(h) \in In(h) \cup {Nil}
    BY KidsOf
  <2> QED
    BY <1>2, <1>4, <2>1 DEF Below
<1>6. Convex(h, D, Q, Top(h))
  BY <1>5 DEF Convex
<1> QED
  BY <1>1, <1>5, <1>6

(* The end of a subtree on side a is its first node.                       *)
LEMMA FarEnd ==
    ASSUME NEW h, NEW D, Wired(h), Below(h, D), NEW Q, NEW a, NEW b, Oriented(h, D, Q, a, b), NEW c \in In(h)
    PROVE  EndOf(h, c, a) \in D[c] /\ \A m \in D[c] : Q[EndOf(h, c, a)] <= Q[m]
<1>1. PICK next, path, x : /\ next = [m \in Node |-> h.kid[m][a]] /\ path = Follow(c, next)
                           /\ x = Last(path) /\ x = EndOf(h, c, a)
  BY DEF EndOf
<1>2. \A m \in In(h) : m \in Node /\ next[m] = h.kid[m][a] /\ a \in Side
  BY <1>1, KidsOf DEF Oriented
<1>3. Downward(h, next)
  BY <1>2 DEF Downward
<1>4. Path(h, path, c, next) /\ next[x] = Nil
  BY <1>1, <1>3, DescentIs
<1>5. PICK S : S = {p \in D[c] : \A m \in D[c] : m \in D[p] \/ \A y \in D[p] : Q[y] < Q[m]}
  OBVIOUS
<1>6. c \in S
  BY <1>5, NodeIs
<1>7. ASSUME NEW p \in In(h), p \in S, next[p] # Nil PROVE next[p] \in S
  <2>1. PICK l, r : l = h.kid[p][a] /\ r = h.kid[p][b]
    OBVIOUS
  <2>2. l = next[p] /\ l # Nil
    BY <1>2, <1>7, <2>1
  <2>6. /\ D[p] = {p} \cup D[l] \cup D[r] /\ D[p] \subseteq In(h)
        /\ l # Nil => l \in In(h)
        /\ \A m \in D[l] : Q[m] < Q[p] /\ m \in In(h)
        /\ \A m \in D[r] : Q[p] < Q[m] /\ m \in In(h)
        /\ \A m \in In(h) : Q[m] \in Int
    BY <2>1, OrientedParts
  <2>3. /\ D[p] = {p} \cup D[l] \cup D[r] /\ D[p] \subseteq In(h)
        /\ l \in In(h)
        /\ \A m \in D[l] : Q[m] < Q[p] /\ m \in In(h)
        /\ \A m \in D[r] : Q[p] < Q[m] /\ m \in In(h)
        /\ \A m \in In(h) : Q[m] \in Int
    BY <2>2, <2>6
  <2>4. l \in D[l] /\ D[p] \subseteq D[c]
    BY <1>5, <1>7, <2>3, NodeIs DEF Below
  <2>5. ASSUME NEW m \in D[c], m \notin D[l], NEW y \in D[l] PROVE Q[y] < Q[m]
    <3>1. CASE m \notin D[p]
      BY <1>5, <1>7, <2>3, <3>1
    <3>2. CASE m \in D[p]
      BY <2>3, <2>5, <3>2
    <3> QED
      BY <3>1, <3>2
  <2> QED
    BY <1>5, <2>2, <2>3, <2>4, <2>5
<1>8. x \in In(h) /\ x \in S
  <2>1. \A p \in In(h) : p \in S /\ next[p] # Nil => next[p] \in S
    BY <1>7
  <2>2. Path(h, path, c, next)
    BY <1>4
  <2>3. Last(path) \in In(h) /\ Last(path) \in S
    BY <1>6, <2>1, <2>2, PathStays
  <2> QED
    BY <1>1, <2>3
<1>9. h.kid[x][a] = Nil /\ D[Nil] = {}
  BY <1>2, <1>4, <1>8 DEF Below
<1>10. /\ D[x] = {x} \cup D[h.kid[x][b]]
       /\ \A m \in D[h.kid[x][b]] : Q[x] < Q[m] /\ m \in In(h)
       /\ \A m \in In(h) : Q[m] \in Int
  <2>1. D[x] = {x} \cup D[h.kid[x][a]] \cup D[h.kid[x][b]]
    BY <1>8, OrientedParts
  <2>2. /\ \A m \in D[h.kid[x][b]] : Q[x] < Q[m] /\ m \in In(h)
        /\ \A m \in In(h) : Q[m] \in Int
    BY <1>8, OrientedParts
  <2> QED
    BY <1>9, <2>1, <2>2
<1>11. x \in D[x] /\ x \in D[c] /\ D[c] \subseteq In(h)
  BY <1>5, <1>8, NodeIs
<1>12. ASSUME NEW m \in D[c] PROVE Q[x] <= Q[m]
  <2>1. CASE m \notin D[x]
    BY <1>5, <1>8, <1>10, <1>11, <2>1
  <2>2. CASE m \in D[x]
    BY <1>8, <1>10, <2>2
  <2> QED
    BY <2>1, <2>2
<1> QED
  BY <1>1, <1>11, <1>12

LEMMA ParentIs ==
    ASSUME NEW h, NEW D, Wired(h), Below(h, D), Sorted(h, D), h.key[Root] = NoKey, NEW n \in In(h)
    PROVE  /\ HasParent(h, n) <=> h.up[n] \in In(h)
           /\ ~HasParent(h, n) => n = Top(h)
           /\ h.up[n] \in In(h) => /\ \E d \in Side : h.kid[h.up[n]][d] = n
                                   /\ Cardinality(D[n]) < Cardinality(D[h.up[n]])
<1>1. h.up[n] \in h.used /\ \E d \in Side : h.kid[h.up[n]][d] = n
  BY DEF Wired
<1>2. n # Nil /\ Nil \notin h.used
  <2>1. h.used \subseteq Node
    BY DEF Wired, Heaps
  <2> QED
    BY <2>1, NodeIs, KidsOf
<1>3. h.up[n] \in In(h) \/ h.up[n] = Root
  BY <1>1 DEF In
<1>4. h.up[n] \in In(h) => h.key[h.up[n]] # NoKey
  BY KeyAssumption DEF Sorted, NoKey
<1>5. HasParent(h, n) <=> h.up[n] \in In(h)
  BY <1>1, <1>2, <1>3, <1>4 DEF HasParent, In
<1>6. h.up[n] = Root => n = Top(h)
  <2>1. SUFFICES ASSUME h.up[n] = Root PROVE n = Top(h)
    OBVIOUS
  <2>2. PICK d \in Side : h.kid[Root][d] = n
    BY <1>1, <2>1
  <2>3. h.kid[Root][-1] = Nil
    BY KidsOf
  <2> QED
    BY <1>2, <2>2, <2>3, Sides DEF Top
<1>7. h.up[n] \in In(h) => Cardinality(D[n]) < Cardinality(D[h.up[n]])
  BY <1>1, SubtreeSizes
<1> QED
  BY <1>1, <1>3, <1>5, <1>6, <1>7

(* x comes next after n in the order of Q, or n is the last and x is Nil.  *)
Successor(h, Q, n, x) ==
    \/ x = Nil /\ \A m \in In(h) : Q[m] <= Q[n]
    \/ x \in In(h) /\ Q[n] < Q[x] /\ \A m \in In(h) : Q[m] <= Q[n] \/ Q[x] <= Q[m]

LEMMA ClimbEnds ==
    ASSUME NEW h, NEW D, Wired(h), Below(h, D), Sorted(h, D), h.key[Root] = NoKey,
           NEW Q, NEW a, NEW b, Oriented(h, D, Q, a, b), NEW n \in In(h), h.kid[n][b] = Nil
    PROVE  Successor(h, Q, n, Ascend(h, n, b))
<1>1. PICK next, path, x : /\ next = [m \in Node |-> IF HasParent(h, m) /\ h.kid[h.up[m]][-b] # m
                                                   THEN h.up[m] ELSE Nil]
                           /\ path = Follow(n, next) /\ x = Last(path)
                           /\ Ascend(h, n, b) = IF HasParent(h, x) THEN h.up[x] ELSE Nil
  BY DEF Ascend
<1>2. In(h) \subseteq Node /\ Nil \notin In(h) /\ Root \notin In(h) /\ -b = a
      /\ \A m \in In(h) : D[m] \subseteq In(h) /\ m \in D[m]
  BY KidsOf, NodeIs DEF Oriented
<1>3. ASSUME NEW m \in In(h)
      PROVE  /\ next[m] # Nil => next[m] = h.up[m] /\ h.up[m] \in In(h) /\ h.kid[h.up[m]][b] = m
             /\ next[m] = Nil /\ HasParent(h, m) => h.up[m] \in In(h) /\ h.kid[h.up[m]][a] = m
  <2>1. HasParent(h, m) => h.up[m] \in In(h) /\ \E d \in Side : h.kid[h.up[m]][d] = m
    BY ParentIs
  <2>2. next[m] = IF HasParent(h, m) /\ h.kid[h.up[m]][a] # m THEN h.up[m] ELSE Nil
    BY <1>1, <1>2
  <2>3. \A d \in Side : d = a \/ d = b
    BY Sides DEF Oriented
  <2>4. HasParent(h, m) => h.up[m] # Nil
    BY <1>2, <2>1
  <2>5. CASE HasParent(h, m) /\ h.kid[h.up[m]][a] # m
    BY <2>1, <2>2, <2>3, <2>4, <2>5
  <2>6. CASE ~(HasParent(h, m) /\ h.kid[h.up[m]][a] # m)
    BY <2>1, <2>2, <2>6
  <2> QED
    BY <2>5, <2>6
<1>4. PICK M, l : l = MaxLength /\ M = [m \in In(h) |-> (l + 1) - Cardinality(D[m])]
  OBVIOUS
<1>5. Measured(h, next, M)
  <2>1. l \in Nat /\ \A m \in In(h) : Cardinality(D[m]) \in 1..l
    <3>1. ASSUME NEW m \in In(h) PROVE Cardinality(D[m]) \in 1..l
      <4>1. IsFiniteSet(D[m]) /\ Cardinality(D[m]) \in 0..l
        BY <1>2, <1>4, SubtreeSizes DEF Ptr
      <4>2. D[m] # {}
        BY <1>2
      <4>3. Cardinality(D[m]) # 0
        BY <4>1, <4>2, FS_EmptySet
      <4> QED
        BY <4>1, <4>3, <1>4, Constants
    <3> QED
      BY <1>4, <3>1, Constants
  <2>2. \A m \in In(h) : M[m] \in 1..l
    BY <1>4, <2>1
  <2>3. ASSUME NEW m \in In(h), next[m] # Nil PROVE next[m] \in In(h) /\ M[next[m]] < M[m]
    <3>1. PICK p : p = h.up[m] /\ p = next[m] /\ p \in In(h)
      BY <1>3, <2>3
    <3>2. Cardinality(D[m]) < Cardinality(D[p])
      BY <3>1, ParentIs
    <3>3. Cardinality(D[m]) \in Int /\ Cardinality(D[p]) \in Int /\ l \in Int
      BY <2>1, <3>1
    <3> QED
      BY <1>4, <3>1, <3>2, <3>3
  <2> QED
    BY <1>2, <1>4, <2>2, <2>3 DEF Measured
<1>6. Path(h, path, n, next) /\ next[x] = Nil
  BY <1>1, <1>5, FollowIs
<1>7. PICK S : S = {p \in In(h) : n \in D[p] /\ \A m \in D[p] : Q[m] <= Q[n]}
  OBVIOUS
<1>8. n \in S
  <2>1. /\ D[n] = {n} \cup D[h.kid[n][a]] \cup D[h.kid[n][b]]
        /\ \A m \in D[h.kid[n][a]] : Q[m] < Q[n] /\ m \in In(h)
        /\ \A m \in In(h) : Q[m] \in Int
    BY OrientedParts
  <2>2. D[h.kid[n][b]] = {}
    BY DEF Below
  <2>3. \A m \in D[n] : Q[m] <= Q[n]
    BY <2>1, <2>2
  <2> QED
    BY <1>2, <1>7, <2>3
<1>9. ASSUME NEW p \in In(h), p \in S, next[p] # Nil PROVE next[p] \in S
  <2>1. PICK u : u = next[p] /\ u \in In(h) /\ h.kid[u][b] = p
    BY <1>3, <1>9
  <2>2. /\ D[u] = {u} \cup D[h.kid[u][a]] \cup D[p]
        /\ \A m \in D[h.kid[u][a]] : Q[m] < Q[u] /\ m \in In(h)
        /\ \A m \in D[p] : Q[u] < Q[m] /\ m \in In(h)
        /\ \A m \in In(h) : Q[m] \in Int
    BY <2>1, OrientedParts
  <2>3. n \in D[p] /\ \A m \in D[p] : Q[m] <= Q[n]
    BY <1>7, <1>9
  <2>4. Q[u] < Q[n] /\ n \in D[u]
    BY <2>2, <2>3
  <2>5. \A m \in D[u] : Q[m] <= Q[n]
    BY <2>1, <2>2, <2>3, <2>4
  <2> QED
    BY <1>7, <2>1, <2>4, <2>5
<1>10. x \in In(h) /\ n \in D[x] /\ \A m \in D[x] : Q[m] <= Q[n]
  <2>1. \A p \in In(h) : p \in S /\ next[p] # Nil => next[p] \in S
    BY <1>9
  <2>2. Path(h, path, n, next)
    BY <1>6
  <2>3. Last(path) \in In(h) /\ Last(path) \in S
    BY <1>8, <2>1, <2>2, PathStays
  <2> QED
    BY <1>1, <1>7, <2>3
<1>11. CASE ~HasParent(h, x)
  <2>1. D[x] = In(h)
    BY <1>10, <1>11, ParentIs DEF Below
  <2> QED
    BY <1>1, <1>10, <1>11, <2>1 DEF Successor
<1>12. CASE HasParent(h, x)
  <2>1. PICK u : u = h.up[x] /\ u \in In(h) /\ h.kid[u][a] = x /\ Ascend(h, n, b) = u
    BY <1>1, <1>3, <1>6, <1>10, <1>12
  <2>2. /\ D[u] = {u} \cup D[x] \cup D[h.kid[u][b]]
        /\ \A m \in D[x] : Q[m] < Q[u] /\ m \in In(h)
        /\ \A m \in D[h.kid[u][b]] : Q[u] < Q[m] /\ m \in In(h)
        /\ \A m \in In(h) : Q[m] \in Int
    BY <2>1, OrientedParts
  <2>3. Q[n] < Q[u] /\ n \in D[u] /\ u \in D[u]
    BY <1>2, <1>10, <2>1, <2>2
  <2>4. Convex(h, D, Q, u)
    BY <2>1, AllConvex
  <2>5. ASSUME NEW m \in In(h), ~(Q[m] <= Q[n]) PROVE Q[u] <= Q[m]
    <3>1. CASE m \in D[u]
      BY <1>10, <2>1, <2>2, <2>5, <3>1
    <3>2. CASE m \notin D[u]
      <4>1. Q[n] <= Q[m] /\ Q[m] \in Int /\ Q[u] \in Int
        BY <2>1, <2>2, <2>5
      <4>2. ~(Q[m] <= Q[u])
        BY <2>3, <2>4, <3>2, <4>1 DEF Convex
      <4> QED
        BY <4>1, <4>2
    <3> QED
      BY <3>1, <3>2
  <2> QED
    BY <2>1, <2>3, <2>5 DEF Successor
<1> QED
  BY <1>11, <1>12

(* avl_get_next and avl_get_prev.                                          *)
LEMMA NeighbourNext ==
    ASSUME NEW h, NEW D, Wired(h), Below(h, D), Sorted(h, D), h.key[Root] = NoKey,
           NEW Q, NEW a, NEW b, Oriented(h, D, Q, a, b), NEW n \in In(h)
    PROVE  Successor(h, Q, n, Neighbour(h, n, b))
<1>1. CASE h.kid[n][b] = Nil
  BY <1>1, ClimbEnds DEF Neighbour
<1>2. CASE h.kid[n][b] # Nil
  <2>1. PICK c, x : c = h.kid[n][b] /\ x = Neighbour(h, n, b) /\ x = EndOf(h, c, a)
    BY <1>2 DEF Neighbour, Oriented
  <2>2. /\ D[n] = {n} \cup D[h.kid[n][a]] \cup D[c]
        /\ c # Nil => c \in In(h)
        /\ \A m \in D[h.kid[n][a]] : Q[m] < Q[n] /\ m \in In(h)
        /\ \A m \in D[c] : Q[n] < Q[m] /\ m \in In(h)
        /\ \A m \in In(h) : Q[m] \in Int
    BY <2>1, OrientedParts
  <2>3. x \in D[c] /\ \A m \in D[c] : Q[x] <= Q[m]
    BY <1>2, <2>1, <2>2, FarEnd
  <2>4. x \in In(h) /\ Q[n] < Q[x] /\ x \in D[n] /\ n \in D[n]
    BY <2>2, <2>3
  <2>5. Convex(h, D, Q, n)
    BY AllConvex
  <2>6. ASSUME NEW m \in In(h), ~(Q[m] <= Q[n]) PROVE Q[x] <= Q[m]
    <3>1. CASE m \in D[n]
      <4>1. m \in D[c]
        BY <2>2, <2>6, <3>1
      <4> QED
        BY <2>3, <4>1
    <3>2. CASE m \notin D[n]
      <4>1. Q[n] <= Q[m] /\ Q[m] \in Int /\ Q[x] \in Int
        BY <2>2, <2>4, <2>6
      <4>2. ~(Q[m] <= Q[x])
        BY <2>4, <2>5, <3>2, <4>1 DEF Convex
      <4> QED
        BY <4>1, <4>2
    <3> QED
      BY <3>1, <3>2
  <2> QED
    BY <2>1, <2>4, <2>6 DEF Successor
<1> QED
  BY <1>1, <1>2

(* Nodes and places correspond one to one.                                 *)
Matched(h, P, A, s, l) ==
    /\ \A m \in In(h) : P[m] \in 1..l /\ A[P[m]] = m /\ s[P[m]] = h.key[m]
    /\ \A i \in 1..l : A[i] \in In(h) /\ P[A[i]] = i
    /\ l \in Nat /\ l = Len(s) /\ l <= MaxLength /\ MaxLength \in Nat

LEMMA PlacesMatch ==
    ASSUME NEW h, NEW D, NEW P, NEW A, NEW s, Placing(h, D, P, A, s)
    PROVE  Matched(h, P, A, s, Len(s))
<1>1. Len(s) \in Nat /\ Len(s) <= MaxLength /\ MaxLength \in Nat
  BY Constants DEF Placing
<1>2. Numbered(h, D, In(h), P, A, s)
  BY DEF Placing
<1> QED
  BY <1>1, <1>2 DEF Numbered, Matched

LEMMA PlacesOriented ==
    ASSUME NEW h, NEW D, Wired(h), Below(h, D), NEW P, NEW A, NEW s, Placing(h, D, P, A, s)
    PROVE  /\ Oriented(h, D, P, -1, 1)
           /\ Oriented(h, D, [n \in In(h) |-> 0 - P[n]], 1, -1)
<1>1. PICK l \in Nat : l = Len(s)
  BY Constants DEF Placing
<1>2. /\ \A n \in In(h) : P[n] \in 1..l /\ A[P[n]] = n /\ s[P[n]] = h.key[n]
      /\ \A i \in 1..l : A[i] \in In(h) /\ P[A[i]] = i
      /\ \A n \in In(h) : \A m \in D[h.kid[n][-1]] : P[m] < P[n]
      /\ \A n \in In(h) : \A m \in D[h.kid[n][1]] : P[n] < P[m]
  BY <1>1 DEF Placing, Numbered
<1>3. /\ \A n \in In(h) : P[n] \in Int
      /\ \A n, m \in In(h) : P[n] = P[m] => n = m
  BY <1>2
<1>4. Oriented(h, D, P, -1, 1)
  BY <1>2, <1>3, Sides DEF Oriented
<1>5. PICK Q : Q = [n \in In(h) |-> 0 - P[n]]
  OBVIOUS
<1>6. \A n \in In(h) : Q[n] = 0 - P[n] /\ Q[n] \in Int
  BY <1>3, <1>5
<1>7. \A n, m \in In(h) : Q[n] = Q[m] => n = m
  BY <1>3, <1>6
<1>8. \A n \in In(h) : \A d \in Side : D[h.kid[n][d]] \subseteq In(h)
  BY KidsOf, Sides DEF Below, Ptr
<1>9. /\ \A n \in In(h) : \A m \in D[h.kid[n][1]] : Q[m] < Q[n]
      /\ \A n \in In(h) : \A m \in D[h.kid[n][-1]] : Q[n] < Q[m]
  <2>1. ASSUME NEW n \in In(h), NEW m \in D[h.kid[n][1]] PROVE Q[m] < Q[n]
    <3>1. m \in In(h) /\ P[n] < P[m]
      BY <1>2, <1>8, Sides
    <3> QED
      BY <1>3, <1>6, <3>1
  <2>2. ASSUME NEW n \in In(h), NEW m \in D[h.kid[n][-1]] PROVE Q[n] < Q[m]
    <3>1. m \in In(h) /\ P[m] < P[n]
      BY <1>2, <1>8, Sides
    <3> QED
      BY <1>3, <1>6, <3>1
  <2> QED
    BY <2>1, <2>2
<1>10. Oriented(h, D, Q, 1, -1)
  BY <1>6, <1>7, <1>9, Sides DEF Oriented
<1> QED
  BY <1>4, <1>5, <1>10

LEMMA NeighbourIs ==
    ASSUME NEW h, NEW D, Wired(h), Below(h, D), Sorted(h, D), h.key[Root] = NoKey,
           NEW P, NEW A, NEW s, Placing(h, D, P, A, s), NEW n \in In(h), NEW d \in Side
    PROVE  /\ Neighbour(h, n, d) = IF P[n] + d \in 1..Len(s) THEN A[P[n] + d] ELSE Nil
           /\ P[n] + d \in 1..Len(s) => A[P[n] + d] \in In(h) /\ A[P[n] + d] # Nil
<1>1. PICK l, x : l = Len(s) /\ x = Neighbour(h, n, d) /\ Matched(h, P, A, s, l)
  BY PlacesMatch
<1>2. /\ \A m \in In(h) : P[m] \in 1..l /\ A[P[m]] = m
      /\ \A i \in 1..l : A[i] \in In(h) /\ P[A[i]] = i
      /\ l \in Nat
  BY <1>1 DEF Matched
<1>3. Nil \notin In(h)
  BY KidsOf
<1>4. CASE d = 1
  <2>1. Oriented(h, D, P, -1, 1)
    BY PlacesOriented
  <2>2. Successor(h, P, n, x)
    BY <1>1, <1>4, <2>1, NeighbourNext
  <2>3. CASE P[n] + 1 \in 1..l
    <3>1. PICK m \in In(h) : m = A[P[n] + 1] /\ P[m] = P[n] + 1
      BY <1>2, <2>3
    <3>2. ~(P[m] <= P[n])
      BY <1>2, <3>1
    <3>3. x \in In(h) /\ P[n] < P[x] /\ P[x] <= P[m]
      BY <2>2, <3>2 DEF Successor
    <3>4. P[x] = P[m]
      BY <1>2, <3>1, <3>3
    <3>5. x = m
      BY <1>2, <3>3, <3>4
    <3> QED
      BY <1>1, <1>3, <1>4, <2>3, <3>1, <3>5
  <2>4. CASE ~(P[n] + 1 \in 1..l)
    <3>1. P[n] = l
      BY <1>2, <2>4
    <3>2. ASSUME x \in In(h), P[n] < P[x] PROVE FALSE
      BY <1>2, <3>1, <3>2
    <3> QED
      BY <1>1, <1>4, <2>2, <2>4, <3>2 DEF Successor
  <2> QED
    BY <2>3, <2>4
<1>5. CASE d = -1
  <2>1. PICK Q : Q = [m \in In(h) |-> 0 - P[m]] /\ Oriented(h, D, Q, 1, -1)
    BY PlacesOriented
  <2>2. Successor(h, Q, n, x) /\ \A m \in In(h) : Q[m] = 0 - P[m]
    BY <1>1, <1>5, <2>1, NeighbourNext
  <2>3. CASE P[n] - 1 \in 1..l
    <3>1. PICK m \in In(h) : m = A[P[n] - 1] /\ P[m] = P[n] - 1
      BY <1>2, <2>3
    <3>2. ~(Q[m] <= Q[n])
      BY <1>2, <2>2, <3>1
    <3>3. x \in In(h) /\ Q[n] < Q[x] /\ Q[x] <= Q[m]
      BY <2>2, <3>2 DEF Successor
    <3>4. P[x] = P[m]
      BY <1>2, <2>2, <3>1, <3>3
    <3>5. x = m
      BY <1>2, <3>3, <3>4
    <3>6. P[n] + d = P[n] - 1
      BY <1>2, <1>5
    <3> QED
      BY <1>1, <1>3, <2>3, <3>1, <3>5, <3>6
  <2>4. CASE ~(P[n] - 1 \in 1..l)
    <3>1. P[n] = 1 /\ P[n] + d = P[n] - 1
      BY <1>2, <1>5, <2>4
    <3>2. ASSUME x \in In(h), Q[n] < Q[x] PROVE FALSE
      BY <1>2, <2>2, <3>1, <3>2
    <3> QED
      BY <1>1, <2>2, <2>4, <3>1, <3>2 DEF Successor
  <2> QED
    BY <2>3, <2>4
<1> QED
  BY <1>4, <1>5, Sides

LEMMA FirstIs ==
    ASSUME NEW h, NEW D, Wired(h), Below(h, D), NEW P, NEW A, NEW s, Placing(h, D, P, A, s)
    PROVE  GetFirst(h) = IF Len(s) = 0 THEN Nil ELSE A[1]
<1>1. /\ \A m \in In(h) : P[m] \in 1..Len(s) /\ A[P[m]] = m
      /\ \A i \in 1..Len(s) : A[i] \in In(h) /\ P[A[i]] = i
      /\ Len(s) \in Nat
  BY PlacesMatch DEF Matched
<1>2. D[Top(h)] = In(h) /\ D[Nil] = {} /\ (Top(h) \in In(h) \/ Top(h) = Nil) /\ Nil \notin In(h)
  BY KidsOf DEF Below
<1>3. CASE Top(h) = Nil
  <2>1. \A i \in 1..Len(s) : FALSE
    BY <1>1, <1>2, <1>3
  <2>2. Len(s) = 0
    BY <1>1, <2>1
  <2> QED
    BY <1>3, <2>2 DEF GetFirst
<1>4. CASE Top(h) # Nil
  <2>1. PICK x : x = GetFirst(h) /\ x = EndOf(h, Top(h), -1)
    BY <1>4 DEF GetFirst
  <2>6. Oriented(h, D, P, -1, 1) /\ Top(h) \in In(h)
    BY <1>2, <1>4, PlacesOriented
  <2>7. x \in D[Top(h)] /\ \A m \in D[Top(h)] : P[x] <= P[m]
    BY <2>1, <2>6, FarEnd
  <2>2. x \in In(h) /\ \A m \in In(h) : P[x] <= P[m]
    BY <1>2, <2>7
  <2>3. 1 \in 1..Len(s) /\ Len(s) # 0
    BY <1>1, <2>2
  <2>4. P[x] <= P[A[1]] /\ P[A[1]] = 1
    BY <1>1, <2>2, <2>3
  <2>5. P[x] = 1
    BY <1>1, <2>2, <2>4
  <2> QED
    BY <1>1, <2>1, <2>2, <2>3, <2>5
<1> QED
  BY <1>3, <1>4

LEMMA WalkIs ==
    ASSUME NEW h, NEW D, Wired(h), Below(h, D), Sorted(h, D), h.key[Root] = NoKey,
           NEW P, NEW A, NEW s, Placing(h, D, P, A, s)
    PROVE  Walk(h) = s
<1>1. PICK l : l \in Nat /\ l = Len(s) /\ Matched(h, P, A, s, l)
  BY PlacesMatch DEF Matched
<1>2. /\ \A m \in In(h) : P[m] \in 1..l /\ A[P[m]] = m /\ s[P[m]] = h.key[m]
      /\ \A i \in 1..l : A[i] \in In(h) /\ P[A[i]] = i
      /\ l <= MaxLength /\ MaxLength \in Nat
  BY <1>1 DEF Matched
<1>3. PICK x, next, path : /\ x = GetFirst(h) /\ next = [n \in Node |-> Neighbour(h, n, 1)]
                           /\ path = IF x = Nil THEN << >> ELSE Follow(x, next)
                           /\ Walk(h) = [i \in DOMAIN path |-> h.key[path[i]]]
  BY DEF Walk
<1>4. In(h) \subseteq Node /\ Nil \notin In(h) /\ Root \notin In(h)
  BY KidsOf
<1>5. s \in Seq(Keys) /\ s = [i \in 1..l |-> s[i]]
  BY <1>1 DEF Placing
<1>6. CASE l = 0
  <2>1. path = << >>
    BY <1>1, <1>3, <1>6, FirstIs
  <2>2. DOMAIN path = 1..l
    BY <1>6, <2>1
  <2>3. Walk(h) = [i \in 1..l |-> h.key[path[i]]] /\ \A i \in 1..l : FALSE
    BY <1>3, <1>6, <2>2
  <2> QED
    BY <1>5, <2>3
<1>7. CASE l # 0
  <2>1. 1 \in 1..l /\ x = A[1] /\ x \in In(h) /\ P[x] = 1 /\ path = Follow(x, next)
    BY <1>1, <1>2, <1>3, <1>4, <1>7, FirstIs
  <2>2. ASSUME NEW m \in In(h)
        PROVE  /\ next[m] = IF P[m] + 1 \in 1..l THEN A[P[m] + 1] ELSE Nil
               /\ P[m] + 1 \in 1..l => A[P[m] + 1] # Nil
    BY <1>1, <1>3, <1>4, NeighbourIs, Sides
  <2>3. PICK M, k : k = MaxLength /\ M = [m \in In(h) |-> (k + 1) - P[m]]
    OBVIOUS
  <2>4. ASSUME NEW m \in In(h), next[m] # Nil
        PROVE  next[m] \in In(h) /\ P[next[m]] = P[m] + 1
    BY <1>2, <2>2, <2>4
  <2>5. Measured(h, next, M)
    <3>1. ASSUME NEW m \in In(h) PROVE M[m] \in 1..k
      <4>1. M[m] = (k + 1) - P[m] /\ P[m] \in 1..l /\ l <= k /\ k \in Nat
        BY <1>2, <2>3
      <4> QED
        BY <1>1, <4>1
    <3>2. ASSUME NEW m \in In(h), next[m] # Nil PROVE next[m] \in In(h) /\ M[next[m]] < M[m]
      <4>1. next[m] \in In(h) /\ P[next[m]] = P[m] + 1
        BY <2>4, <3>2
      <4> QED
        BY <1>2, <2>3, <4>1
    <3> QED
      BY <1>4, <2>3, <3>1, <3>2 DEF Measured
  <2>6. Path(h, path, x, next) /\ next[Last(path)] = Nil
    BY <2>1, <2>5, FollowIs
  <2>7. PICK S : S = {y \in (Nat \X In(h)) : P[y[2]] = y[1]}
    OBVIOUS
  <2>8. <<1, x>> \in S
    BY <2>1, <2>7
  <2>9. ASSUME NEW i \in Nat \ {0}, NEW m \in In(h), <<i, m>> \in S, next[m] # Nil
        PROVE  <<i + 1, next[m]>> \in S
    BY <2>4, <2>7, <2>9
  <2>10. \A i \in 1..Len(path) : <<i, path[i]>> \in S
    <3>1. \A i \in Nat \ {0} : \A m \in In(h) : <<i, m>> \in S /\ next[m] # Nil => <<i + 1, next[m]>> \in S
      BY <2>9
    <3> QED
      BY <2>6, <2>8, <3>1, PathStaysAt
  <2>11. PICK k2 \in Nat \ {0} : k2 = Len(path) /\ DOMAIN path = 1..k2 /\ path[k2] = Last(path)
    BY <2>6 DEF Path
  <2>12. \A i \in 1..k2 : path[i] \in In(h) /\ P[path[i]] = i
    BY <2>7, <2>10, <2>11
  <2>13. k2 = l
    <3>1. k2 \in 1..k2 /\ path[k2] \in In(h) /\ P[path[k2]] = k2
      BY <2>11, <2>12
    <3>2. next[path[k2]] = Nil
      BY <2>6, <2>11
    <3>3. ~(k2 + 1 \in 1..l)
      BY <2>2, <3>1, <3>2
    <3>4. k2 \in 1..l
      BY <1>2, <3>1
    <3> QED
      BY <1>1, <3>3, <3>4
  <2>14. \A i \in 1..l : h.key[path[i]] = s[i]
    BY <1>2, <2>12, <2>13
  <2>15. Walk(h) = [i \in 1..l |-> h.key[path[i]]]
    BY <1>3, <2>11, <2>13
  <2> QED
    BY <1>5, <2>14, <2>15
<1> QED
  BY <1>6, <1>7

(* Every subtree has a number of nodes.                                    *)
LEMMA WeightsExist ==
    ASSUME NEW h, NEW D, Wired(h), Below(h, D)
    PROVE  \E W : Weights(h, D, W)
<1>1. PICK W : W = [n \in In(h) |-> Cardinality(D[h.kid[n][-1]]) + 1]
  OBVIOUS
<1>2. ASSUME NEW n \in In(h) PROVE W[n] = Cardinality(D[h.kid[n][-1]]) + 1 /\ W[n] \in Nat
  <2>1. h.kid[n][-1] \in Ptr
    BY KidsOf DEF Ptr
  <2>2. Cardinality(D[h.kid[n][-1]]) \in Nat
    BY <2>1, SubtreeSizes, Constants
  <2> QED
    BY <1>1, <2>2
<1> QED
  BY <1>2 DEF Weights

(* Walking forward meets every key in order, and next and prev undo each   *)
(* other, whatever the ranks say (avl_get_first, avl_get_next and          *)
(* avl_get_prev).                                                          *)
THEOREM TreeIsWalked == Spec => []WalksInOrder
<1>1. IInv => WalksInOrder
  <2>1. SUFFICES ASSUME IInv PROVE WalksInOrder
    OBVIOUS
  <2>2. PICK D, H : Certified(heap, D, H, RanksKept)
    BY <2>1 DEF IInv, Tree
  <2>3. Wired(heap) /\ Below(heap, D) /\ Sorted(heap, D) /\ heap.key[Root] = NoKey
    BY <2>2 DEF Certified
  <2>4. PICK W : Weights(heap, D, W)
    BY <2>3, WeightsExist
  <2>5. PICK s, P, A : s = InOrder(heap) /\ Placing(heap, D, P, A, s)
    BY <2>3, <2>4, PlacesExist
  <2>6. Walk(heap) = s
    BY <2>3, <2>5, WalkIs
  <2>7. ASSUME NEW n \in In(heap), NEW d \in Side, NEW m, m = Neighbour(heap, n, d), m # Nil
        PROVE  Neighbour(heap, m, -d) = n
    <3>1. P[n] + d \in 1..Len(s) /\ m = A[P[n] + d]
      BY <2>3, <2>5, <2>7, NeighbourIs
    <3>2. /\ m \in In(heap) /\ P[m] = P[n] + d /\ P[n] \in 1..Len(s) /\ A[P[n]] = n
      <4>1. Matched(heap, P, A, s, Len(s))
        BY <2>5, PlacesMatch
      <4> QED
        BY <3>1, <4>1 DEF Matched
    <3>3. -d \in Side /\ d \in Int /\ -d = 0 - d
      BY Sides
    <3>4. Neighbour(heap, m, -d) = IF P[m] + -d \in 1..Len(s) THEN A[P[m] + -d] ELSE Nil
      BY <2>3, <2>5, <3>2, <3>3, NeighbourIs
    <3>5. P[m] + -d = P[n]
      BY <3>2, <3>3
    <3> QED
      BY <3>2, <3>4, <3>5
  <2> QED
    BY <2>5, <2>6, <2>7 DEF WalksInOrder, InTree, In
<1> QED
  BY <1>1, TreeInvariant, PTL
(* The places, when ranks count: every rank says how to get from a node's  *)
(* place to those of its children.                                         *)
Ranking(h, D, P, A, s) ==
    /\ Wired(h) /\ Below(h, D) /\ Sorted(h, D) /\ h.key[Root] = NoKey
    /\ Placing(h, D, P, A, s)
    /\ Stepped(h, In(h), P, h.rank)
    /\ Top(h) # Nil => P[Top(h)] = h.rank[Top(h)]
    /\ \A n \in In(h) : h.rank[n] \in Nat

LEMMA RankingExists ==
    ASSUME NEW h, NEW D, Wired(h), Below(h, D), Sorted(h, D), h.key[Root] = NoKey, Ranked(h, D)
    PROVE  \E P, A : Ranking(h, D, P, A, InOrder(h))
<1>1. ASSUME NEW n \in In(h) PROVE h.rank[n] = Cardinality(D[h.kid[n][-1]]) + 1 /\ h.rank[n] \in Nat
  <2>1. h.kid[n][-1] \in Ptr
    BY KidsOf DEF Ptr
  <2>2. Cardinality(D[h.kid[n][-1]]) \in Nat
    BY <2>1, SubtreeSizes, Constants
  <2>3. h.rank[n] = Cardinality(D[h.kid[n][-1]]) + 1
    BY DEF Ranked
  <2> QED
    BY <2>2, <2>3
<1>2. Weights(h, D, h.rank)
  BY <1>1 DEF Weights
<1>3. PICK P, A : /\ Placing(h, D, P, A, InOrder(h))
                  /\ Stepped(h, In(h), P, h.rank) /\ (Top(h) # Nil => P[Top(h)] = h.rank[Top(h)])
  BY <1>2, PlacesExist
<1> QED
  BY <1>1, <1>3 DEF Ranking

(* The node looked for, whose place is t, is below c.n.                    *)
Cursors == [n : Ptr, m : Int]

Hunts(h, D, P, A, l, t, c, i) ==
    /\ c \in Cursors
    /\ \/ c.n = Nil /\ t \notin 1..l
       \/ /\ c.n \in In(h) /\ c.m = (t - P[c.n]) + h.rank[c.n]
          /\ t \in 1..l => A[t] \in D[c.n]
          /\ c.m = h.rank[c.n] \/ Cardinality(D[c.n]) + i <= MaxLength

LEMMA RankStepIs ==
    ASSUME NEW h, NEW c, NEW n, NEW m, NEW w, n = c.n, m = c.m, w = h.rank[n],
           n = Nil \/ (m \in Int /\ w \in Int)
    PROVE  /\ n = Nil \/ m = w => RankStep(h, c) = c
           /\ n # Nil /\ m < w => RankStep(h, c) = [c EXCEPT !.n = h.kid[n][-1]]
           /\ n # Nil /\ m > w => RankStep(h, c) = [n |-> h.kid[n][1], m |-> m - w]
<1>1. RankStep(h, c) = CASE n = Nil \/ m = w -> c
                         [] n # Nil /\ m < w -> [c EXCEPT !.n = h.kid[n][-1]]
                         [] n # Nil /\ m > w -> [n |-> h.kid[n][1], m |-> m - w]
  BY DEF RankStep
<1>2. CASE n = Nil
  BY <1>1, <1>2
<1>3. CASE n # Nil /\ m = w
  <2>1. ~(m < w) /\ ~(m > w)
    BY <1>3
  <2> QED
    BY <1>1, <1>3, <2>1
<1>4. CASE n # Nil /\ m < w
  <2>1. m # w /\ ~(m > w)
    BY <1>4
  <2> QED
    BY <1>1, <1>4, <2>1
<1>5. CASE n # Nil /\ m > w
  <2>1. m # w /\ ~(m < w)
    BY <1>5
  <2> QED
    BY <1>1, <1>5, <2>1
<1> QED
  BY <1>2, <1>3, <1>4, <1>5

LEMMA HuntGoesOn ==
    ASSUME NEW h, NEW D, NEW P, NEW A, NEW s, Ranking(h, D, P, A, s), NEW l, l = Len(s), NEW t \in Int,
           NEW c, NEW i \in Nat, Hunts(h, D, P, A, l, t, c, i)
    PROVE  Hunts(h, D, P, A, l, t, RankStep(h, c), i + 1)
<1>1. PICK n, m, k : n = c.n /\ m = c.m /\ k = MaxLength
  OBVIOUS
<1>2. /\ Wired(h) /\ Below(h, D)
      /\ \A q \in In(h) : P[q] \in 1..l /\ A[P[q]] = q
      /\ \A q \in 1..l : A[q] \in In(h) /\ P[A[q]] = q
      /\ l \in Nat /\ k \in Nat
      /\ \A q \in In(h) : h.rank[q] \in Nat
  <2>1. Matched(h, P, A, s, l)
    BY PlacesMatch DEF Ranking
  <2> QED
    BY <1>1, <2>1 DEF Ranking, Matched
<1>3. Nil \notin In(h)
  BY <1>2, KidsOf
<1>4. c \in Cursors /\ n \in Ptr /\ m \in Int
  BY <1>1 DEF Hunts, Cursors
<1>5. CASE n = Nil \/ m = h.rank[n]
  <2>0. n = Nil \/ (m \in Int /\ h.rank[n] \in Int)
    BY <1>2, <1>4, <1>5
  <2>1. RankStep(h, c) = c
    BY <1>1, <1>5, <2>0, RankStepIs
  <2>2. n # Nil => m = h.rank[n]
    BY <1>5
  <2> QED
    BY <1>1, <1>3, <2>1, <2>2 DEF Hunts
<1>6. CASE n # Nil /\ m # h.rank[n]
  <2>1. /\ n \in In(h) /\ m = (t - P[n]) + h.rank[n]
        /\ t \in 1..l => A[t] \in D[n]
        /\ Cardinality(D[n]) + i <= k
    BY <1>1, <1>6 DEF Hunts
  <2>2. PICK a, b, p, w, u : /\ a = h.kid[n][-1] /\ b = h.kid[n][1] /\ p = P[n] /\ w = h.rank[n]
                             /\ u = Cardinality(D[n])
    OBVIOUS
  <2>3. p \in Int /\ w \in Int /\ t # p /\ (t \in 1..l => A[t] # n)
    BY <1>2, <1>6, <2>1, <2>2
  <2>4. /\ D[n] = {n} \cup D[a] \cup D[b]
        /\ \A q \in D[a] : P[q] < p /\ q \in In(h)
        /\ \A q \in D[b] : p < P[q] /\ q \in In(h)
    <3>1. Oriented(h, D, P, -1, 1)
      BY <1>2, PlacesOriented DEF Ranking
    <3> QED
      BY <1>2, <2>1, <2>2, <3>1, OrientedParts
  <2>5. /\ a # Nil => a \in In(h) /\ P[a] = (p - w) + h.rank[a]
        /\ b # Nil => b \in In(h) /\ P[b] = p + h.rank[b]
        /\ a \in Ptr /\ b \in Ptr
    <3>1. Stepped(h, In(h), P, h.rank)
      BY DEF Ranking
    <3> QED
      BY <1>2, <2>1, <2>2, <3>1, KidsOf DEF Stepped, Ptr
  <2>6. D[Nil] = {} /\ u \in Int
        /\ (a # Nil => Cardinality(D[a]) < u /\ Cardinality(D[a]) \in Int)
        /\ (b # Nil => Cardinality(D[b]) < u /\ Cardinality(D[b]) \in Int)
    <3>1. Cardinality(D[a]) < u /\ Cardinality(D[b]) < u
      BY <1>2, <2>1, <2>2, SubtreeSizes, Sides
    <3>2. Cardinality(D[a]) \in 0..k /\ Cardinality(D[b]) \in 0..k /\ Cardinality(D[n]) \in 0..k
      BY <1>1, <1>2, <1>4, <2>5, SubtreeSizes
    <3> QED
      BY <1>2, <2>2, <3>1, <3>2 DEF Below
  <2>7. CASE m < w
    <3>1. PICK e : e = RankStep(h, c) /\ e = [c EXCEPT !.n = a]
      BY <1>1, <1>4, <1>6, <2>2, <2>3, <2>7, RankStepIs
    <3>2. e \in Cursors /\ e.n = a /\ e.m = m
      BY <1>1, <1>4, <2>5, <3>1 DEF Cursors
    <3>3. t < p
      BY <2>1, <2>2, <2>3, <2>7
    <3>4. t \in 1..l => A[t] \in D[a]
      BY <1>2, <2>1, <2>3, <2>4, <3>3
    <3>5. CASE a = Nil
      BY <2>6, <3>1, <3>2, <3>4, <3>5 DEF Hunts
    <3>6. CASE a # Nil
      <4>1. m = (t - P[a]) + h.rank[a]
        <5>1. PICK pa, ra : pa = P[a] /\ ra = h.rank[a] /\ ra \in Nat /\ pa = (p - w) + ra
          BY <1>2, <2>5, <3>6
        <5>2. m = (t - p) + w
          BY <2>1, <2>2
        <5> QED
          BY <2>3, <5>1, <5>2
      <4>2. Cardinality(D[a]) + (i + 1) <= k
        BY <1>2, <2>1, <2>2, <2>6, <3>6
      <4> QED
        BY <1>1, <2>5, <3>1, <3>2, <3>4, <3>6, <4>1, <4>2 DEF Hunts
    <3> QED
      BY <3>5, <3>6
  <2>8. CASE m > w
    <3>1. PICK e : e = RankStep(h, c) /\ e = [n |-> b, m |-> m - w]
      BY <1>1, <1>4, <1>6, <2>2, <2>3, <2>8, RankStepIs
    <3>2. e \in Cursors /\ e.n = b /\ e.m = m - w
      BY <1>4, <2>3, <2>5, <3>1 DEF Cursors
    <3>3. t > p
      BY <2>1, <2>2, <2>3, <2>8
    <3>4. t \in 1..l => A[t] \in D[b]
      BY <1>2, <2>1, <2>3, <2>4, <3>3
    <3>5. CASE b = Nil
      BY <2>6, <3>1, <3>2, <3>4, <3>5 DEF Hunts
    <3>6. CASE b # Nil
      <4>1. m - w = (t - P[b]) + h.rank[b]
        <5>1. PICK pb, rb : pb = P[b] /\ rb = h.rank[b] /\ rb \in Nat /\ pb = p + rb
          BY <1>2, <2>5, <3>6
        <5>2. m = (t - p) + w
          BY <2>1, <2>2
        <5> QED
          BY <2>3, <5>1, <5>2
      <4>2. Cardinality(D[b]) + (i + 1) <= k
        BY <1>2, <2>1, <2>2, <2>6, <3>6
      <4> QED
        BY <1>1, <2>5, <3>1, <3>2, <3>4, <3>6, <4>1, <4>2 DEF Hunts
    <3> QED
      BY <3>5, <3>6
  <2> QED
    BY <1>4, <1>6, <2>2, <2>3, <2>7, <2>8
<1> QED
  BY <1>5, <1>6

LEMMA NodeOfRankIs ==
    ASSUME NEW h, NEW D, NEW P, NEW A, NEW s, Ranking(h, D, P, A, s), NEW t \in Int
    PROVE  NodeOfRank(h, t) = IF t \in 1..Len(s) THEN A[t] ELSE Nil
<1>1. PICK l, z : l = MaxLength /\ z = Len(s) /\ l \in Nat /\ Matched(h, P, A, s, z)
  BY PlacesMatch, Constants DEF Ranking
<1>2. PICK c : c = [n |-> Top(h), m |-> t]
  OBVIOUS
<1>3. Hunts(h, D, P, A, z, t, c, 0)
  <2>1. /\ Top(h) \in Ptr /\ (Top(h) = Nil \/ Top(h) \in In(h)) /\ D[Top(h)] = In(h) /\ D[Nil] = {}
        /\ Nil \notin In(h)
    BY KidsOf DEF Ranking, Ptr, Below
  <2>2. c \in Cursors /\ c.n = Top(h) /\ c.m = t
    BY <1>2, <2>1 DEF Cursors
  <2>3. \A i \in 1..z : A[i] \in In(h)
    BY <1>1 DEF Matched
  <2>4. CASE Top(h) = Nil
    BY <2>1, <2>2, <2>3, <2>4 DEF Hunts
  <2>5. CASE Top(h) # Nil
    <3>1. P[Top(h)] = h.rank[Top(h)] /\ h.rank[Top(h)] \in Nat
      BY <2>1, <2>5 DEF Ranking
    <3>2. Cardinality(D[Top(h)]) \in 0..l
      BY <1>1, <2>1, SubtreeSizes DEF Ranking
    <3>3. Cardinality(D[Top(h)]) + 0 <= MaxLength
      BY <1>1, <3>2
    <3>4. t = (t - P[Top(h)]) + h.rank[Top(h)]
      BY <3>1
    <3> QED
      BY <2>1, <2>2, <2>3, <2>5, <3>3, <3>4 DEF Hunts
  <2> QED
    BY <2>4, <2>5
<1> DEFINE Eq(f) == f = [i \in 0..MaxLength |-> IF i = 0 THEN c ELSE RankStep(h, f[i - 1])]
<1>4. \E f : Eq(f)
  <2>1. PICK T, F : /\ T = {e \in Cursors : \E i \in Nat : Hunts(h, D, P, A, z, t, e, i)}
                    /\ F = [i \in 1..l |-> [e \in T |-> RankStep(h, e)]]
    OBVIOUS
  <2>2. c \in T /\ F \in [1..l -> [T -> T]]
    <3>1. ASSUME NEW e \in T PROVE RankStep(h, e) \in T
      <4>1. PICK i \in Nat : Hunts(h, D, P, A, z, t, e, i)
        BY <2>1
      <4>2. Hunts(h, D, P, A, z, t, RankStep(h, e), i + 1)
        BY <1>1, <4>1, HuntGoesOn
      <4>3. i + 1 \in Nat /\ RankStep(h, e) \in Cursors
        BY <4>2 DEF Hunts
      <4> QED
        BY <2>1, <4>2, <4>3
    <3>2. c \in T
      <4>1. c \in Cursors /\ 0 \in Nat
        BY <1>3 DEF Hunts
      <4> QED
        BY <1>3, <2>1, <4>1
    <3> QED
      BY <2>1, <3>1, <3>2
  <2>3. PICK g : IsLoop(g, l, T, c, F)
    BY <1>1, <2>2, LoopExists
  <2>4. \A i \in 0..l : i # 0 => i \in 1..l /\ i - 1 \in 0..l
    BY <1>1
  <2>5. \A i \in 0..l : i # 0 => F[i][g[i - 1]] = RankStep(h, g[i - 1])
    BY <2>1, <2>3, <2>4 DEF IsLoop
  <2>6. \A i \in 0..l : g[i] = IF i = 0 THEN c ELSE RankStep(h, g[i - 1])
    BY <2>3, <2>4, <2>5 DEF IsLoop
  <2> QED
    BY <1>1, <2>3, <2>6 DEF IsLoop
<1>5. PICK at : at = CHOOSE f : Eq(f)
  OBVIOUS
<1>6. Eq(at)
  <2> HIDE DEF Eq
  <2> QED
    BY <1>4, <1>5
<1>7. at[0] = c /\ \A i \in 1..l : at[i] = RankStep(h, at[i - 1])
  <2>1. \A i \in 1..l : i \in 0..MaxLength /\ i # 0
    BY <1>1
  <2> QED
    BY <1>1, <1>6, <2>1
<1>8. NodeOfRank(h, t) = at[l].n
  <2> DEFINE e == CHOOSE f : Eq(f)
  <2>1. NodeOfRank(h, t) = e[MaxLength].n
    BY <1>2 DEF NodeOfRank
  <2> HIDE DEF Eq
  <2> QED
    BY <1>1, <1>5, <2>1
<1>9. PICK S : S = {i \in Nat : i <= l => Hunts(h, D, P, A, z, t, at[i], i)}
  OBVIOUS
<1>10. 0 \in S
  BY <1>3, <1>7, <1>9
<1>11. ASSUME NEW i \in Nat, i \in S PROVE i + 1 \in S
  <2>1. SUFFICES ASSUME i + 1 <= l PROVE Hunts(h, D, P, A, z, t, at[i + 1], i + 1)
    BY <1>9
  <2>2. i + 1 \in 1..l /\ (i + 1) - 1 = i /\ i <= l
    BY <1>1, <2>1
  <2>3. at[i + 1] = RankStep(h, at[i])
    BY <1>7, <2>2
  <2>4. Hunts(h, D, P, A, z, t, at[i], i)
    BY <1>9, <1>11, <2>2
  <2> QED
    BY <1>1, <2>3, <2>4, HuntGoesOn
<1>12. l \in S
  BY <1>1, <1>10, <1>11, AllNumbers
<1>13. PICK e : e = at[l] /\ Hunts(h, D, P, A, z, t, e, l) /\ NodeOfRank(h, t) = e.n
  BY <1>1, <1>8, <1>9, <1>12
<1>14. CASE e.n = Nil
  <2>1. Nil \notin In(h)
    BY KidsOf DEF Ranking
  <2> QED
    BY <1>1, <1>13, <1>14, <2>1 DEF Hunts
<1>15. CASE e.n # Nil
  <2>1. PICK n : n = e.n /\ n \in In(h)
    BY <1>13, <1>15 DEF Hunts
  <2>2. Cardinality(D[n]) \in 1..l
    <3>1. n \in D[n] /\ n \in Ptr
      BY <2>1, NodeIs DEF Ranking, Ptr
    <3>2. IsFiniteSet(D[n]) /\ Cardinality(D[n]) \in 0..l
      BY <1>1, <3>1, SubtreeSizes DEF Ranking
    <3>3. Cardinality(D[n]) # 0
      BY <3>1, <3>2, FS_EmptySet
    <3> QED
      BY <1>1, <3>2, <3>3
  <2>3. ~(Cardinality(D[n]) + l <= MaxLength)
    BY <1>1, <2>2
  <2>4. e.m = h.rank[n] /\ e.m = (t - P[n]) + h.rank[n]
    BY <1>13, <1>15, <2>1, <2>3 DEF Hunts
  <2>5. P[n] \in 1..z /\ A[P[n]] = n /\ h.rank[n] \in Nat /\ z \in Nat
    BY <1>1, <2>1 DEF Matched, Ranking
  <2>6. t = P[n]
    BY <2>4, <2>5
  <2> QED
    BY <1>1, <1>13, <2>1, <2>5, <2>6
<1> QED
  BY <1>14, <1>15

(* avl_get_by_index.                                                       *)
LEMMA ByIndexIs ==
    ASSUME NEW h, NEW D, NEW P, NEW A, NEW s, Ranking(h, D, P, A, s), NEW i \in Nat
    PROVE  GetByIndex(h, i) = IF i < Len(s) THEN s[i + 1] ELSE NoKey
<1>1. PICK l \in Nat : l = Len(s) /\ Matched(h, P, A, s, l)
  BY PlacesMatch DEF Matched, Ranking
<1>2. NodeOfRank(h, i + 1) = IF i + 1 \in 1..l THEN A[i + 1] ELSE Nil
  BY <1>1, NodeOfRankIs
<1>3. i + 1 \in 1..l <=> i < l
  BY <1>1
<1>4. CASE i < l
  <2>1. A[i + 1] \in In(h) /\ P[A[i + 1]] = i + 1 /\ s[P[A[i + 1]]] = h.key[A[i + 1]]
    BY <1>1, <1>3, <1>4 DEF Matched
  <2>2. A[i + 1] # Nil
    BY <2>1, KidsOf DEF Ranking
  <2> QED
    BY <1>1, <1>2, <1>3, <1>4, <2>1, <2>2 DEF GetByIndex
<1>5. CASE ~(i < l)
  BY <1>1, <1>2, <1>3, <1>5 DEF GetByIndex
<1> QED
  BY <1>4, <1>5

(* The keys at i places of s, from the place high on backwards.            *)
Backward(s, high, i) == [j \in 1..i |-> s[(high - j) + 1]]

LEMMA BackwardIs ==
    ASSUME NEW s \in Seq(Keys), NEW high \in 0..Len(s), NEW i \in 0..high
    PROVE  /\ Backward(s, high, i) \in Seq(Keys) /\ Len(Backward(s, high, i)) = i
           /\ \A j \in 1..i : Backward(s, high, i)[j] = s[(high - j) + 1]
<1>1. Len(s) \in Nat /\ i \in Nat
  BY LenProperties
<1>2. ASSUME NEW j \in 1..i PROVE s[(high - j) + 1] \in Keys
  <2>1. (high - j) + 1 \in 1..Len(s)
    BY <1>1
  <2> QED
    BY <2>1, ElementOfSeq
<1>3. PICK q : q = Backward(s, high, i)
  OBVIOUS
<1>4. q \in [1..i -> Keys] /\ \A j \in 1..i : q[j] = s[(high - j) + 1]
  BY <1>2, <1>3 DEF Backward
<1>5. q \in Seq(Keys)
  BY <1>1, <1>4, SeqDef
<1>6. DOMAIN q = 1..i /\ DOMAIN q = 1..Len(q) /\ Len(q) \in Nat
  BY <1>4, <1>5, LenProperties
<1>7. Len(q) = i
  BY <1>1, <1>6
<1> QED
  BY <1>3, <1>4, <1>5, <1>7

LEMMA BackwardGrows ==
    ASSUME NEW s \in Seq(Keys), NEW high \in 0..Len(s), NEW i \in 0..high, i + 1 \in 0..high
    PROVE  Append(Backward(s, high, i), s[high - i]) = Backward(s, high, i + 1)
<1>1. Len(s) \in Nat /\ i \in Nat /\ high - i \in 1..Len(s) /\ i + 1 \in Nat
  BY LenProperties
<1>2. PICK q, k, r : q = Backward(s, high, i) /\ k = s[high - i] /\ r = Backward(s, high, i + 1)
  OBVIOUS
<1>3. k \in Keys
  BY <1>1, <1>2, ElementOfSeq
<1>4. q \in Seq(Keys) /\ Len(q) = i /\ \A j \in 1..i : q[j] = s[(high - j) + 1]
  BY <1>2, BackwardIs
<1>5. r \in Seq(Keys) /\ Len(r) = i + 1 /\ \A j \in 1..(i + 1) : r[j] = s[(high - j) + 1]
  BY <1>2, BackwardIs
<1>9. PICK t : t = Append(q, k)
  OBVIOUS
<1>6. /\ t = Append(q, k) /\ t \in Seq(Keys) /\ Len(t) = i + 1
      /\ \A j \in 1..i : t[j] = q[j]
      /\ t[i + 1] = k
  <2>1. /\ Append(q, k) \in Seq(Keys) /\ Len(Append(q, k)) = Len(q) + 1
        /\ \A j \in 1..Len(q) : Append(q, k)[j] = q[j]
        /\ Append(q, k)[Len(q) + 1] = k
    BY <1>3, <1>4, AppendProperties
  <2> QED
    BY <1>4, <1>9, <2>1
<1>7. ASSUME NEW j \in 1..Len(t) PROVE t[j] = r[j]
  <2>1. j \in 1..(i + 1)
    BY <1>6
  <2>2. CASE j = i + 1
    <3>1. (high - j) + 1 = high - i
      BY <1>1, <2>2
    <3> QED
      BY <1>2, <1>5, <1>6, <2>1, <2>2, <3>1
  <2>3. CASE j # i + 1
    <3>1. j \in 1..i
      BY <1>1, <2>1, <2>3
    <3> QED
      BY <1>4, <1>5, <1>6, <2>1, <3>1
  <2> QED
    BY <2>2, <2>3
<1>8. t = r
  BY <1>5, <1>6, <1>7, SeqEqual
<1> QED
  BY <1>2, <1>6, <1>8

(* After i turns of avl_iterate_index_range.                               *)
Visited(A, s, high, i) ==
    [n |-> IF high - i \in 1..Len(s) THEN A[high - i] ELSE Nil, keys |-> Backward(s, high, i)]

LEMMA VisitIs ==
    ASSUME NEW h, NEW D, NEW P, NEW A, NEW s, Ranking(h, D, P, A, s), NEW high \in 0..Len(s),
           NEW i \in 0..high, i + 1 \in 0..high
    PROVE  Visit(h, Visited(A, s, high, i)) = Visited(A, s, high, i + 1)
<1>1. PICK l \in Nat : l = Len(s) /\ Matched(h, P, A, s, l)
  BY PlacesMatch DEF Matched, Ranking
<1>2. s \in Seq(Keys)
  BY DEF Ranking, Placing
<1>3. PICK p : p = high - i /\ p \in 1..l /\ high - (i + 1) = p - 1 /\ p - 1 \in Int /\ p + -1 = p - 1
  BY <1>1
<1>4. PICK n : n = A[p] /\ n \in In(h) /\ P[n] = p /\ h.key[n] = s[p]
  BY <1>1, <1>3 DEF Matched
<1>5. Neighbour(h, n, -1) = IF p - 1 \in 1..l THEN A[p - 1] ELSE Nil
  <2>1. Neighbour(h, n, -1) = IF P[n] + -1 \in 1..Len(s) THEN A[P[n] + -1] ELSE Nil
    BY <1>4, NeighbourIs, Sides DEF Ranking
  <2> QED
    BY <1>1, <1>3, <1>4, <2>1
<1>6. PICK c : c = Visited(A, s, high, i) /\ c.n = n /\ c.keys = Backward(s, high, i)
  <2>1. PICK c : c = Visited(A, s, high, i)
    OBVIOUS
  <2>2. c = [n |-> A[p], keys |-> Backward(s, high, i)]
    BY <1>1, <1>3, <2>1 DEF Visited
  <2> QED
    BY <1>4, <2>1, <2>2
<1>7. Append(c.keys, h.key[n]) = Backward(s, high, i + 1)
  BY <1>2, <1>3, <1>4, <1>6, BackwardGrows
<1>8. Visit(h, c) = [n |-> Neighbour(h, n, -1), keys |-> Append(c.keys, h.key[n])]
  BY <1>6 DEF Visit
<1>9. Visited(A, s, high, i + 1) = [n |-> IF p - 1 \in 1..l THEN A[p - 1] ELSE Nil, keys |-> Backward(s, high, i + 1)]
  BY <1>1, <1>3 DEF Visited
<1> QED
  BY <1>5, <1>6, <1>7, <1>8, <1>9

LEMMA RangeVisits ==
    ASSUME NEW h, NEW D, NEW P, NEW A, NEW s, Ranking(h, D, P, A, s),
           NEW high \in 1..Len(s), NEW low \in 0..high
    PROVE  IterateIndexRange(h, low, high) = Reverse(SubSeq(s, low + 1, high))
<1>1. PICK l, k : l = Len(s) /\ l \in Nat /\ Matched(h, P, A, s, l) /\ k = high - low
  BY PlacesMatch DEF Matched, Ranking
<1>2. s \in Seq(Keys) /\ k \in Nat /\ k \in 0..high /\ high \in 0..Len(s) /\ low \in Nat /\ high \in Nat
  BY <1>1 DEF Ranking, Placing
<1>3. PICK c : c = [n |-> NodeOfRank(h, high), keys |-> << >>]
  OBVIOUS
<1>4. c = Visited(A, s, high, 0)
  <2>1. NodeOfRank(h, high) = IF high \in 1..Len(s) THEN A[high] ELSE Nil
    BY <1>2, NodeOfRankIs
  <2>2. Backward(s, high, 0) \in Seq(Keys) /\ Len(Backward(s, high, 0)) = 0
    BY <1>2, BackwardIs
  <2>3. Backward(s, high, 0) = << >>
    BY <2>2, EmptySeq
  <2>4. high - 0 = high
    BY <1>2
  <2> QED
    BY <1>3, <2>1, <2>3, <2>4 DEF Visited
<1>5. ASSUME NEW i \in 1..k
      PROVE  Visited(A, s, high, i) = Visit(h, Visited(A, s, high, i - 1)) /\ i - 1 \in 0..k
  <2>1. i - 1 \in 0..high /\ (i - 1) + 1 = i /\ i \in 0..high /\ i - 1 \in 0..k
    BY <1>1, <1>2
  <2> QED
    BY <1>2, <2>1, VisitIs
<1> DEFINE Eq(f) == f = [i \in 0..(high - low) |-> IF i = 0 THEN c ELSE Visit(h, f[i - 1])]
<1>6. \E f : Eq(f)
  <2>1. PICK f : f = [i \in 0..k |-> Visited(A, s, high, i)]
    OBVIOUS
  <2>2. ASSUME NEW i \in 0..k PROVE f[i] = IF i = 0 THEN c ELSE Visit(h, f[i - 1])
    <3>1. CASE i = 0
      BY <1>4, <2>1, <3>1
    <3>2. CASE i # 0
      <4>1. i \in 1..k
        BY <1>2, <3>2
      <4> QED
        BY <1>5, <2>1, <3>2, <4>1
    <3> QED
      BY <3>1, <3>2
  <2> QED
    BY <1>1, <2>1, <2>2
<1>7. PICK at : at = CHOOSE f : Eq(f)
  OBVIOUS
<1>8. Eq(at)
  <2> HIDE DEF Eq
  <2> QED
    BY <1>6, <1>7
<1>9. at[0] = c /\ \A i \in 1..k : at[i] = Visit(h, at[i - 1])
  <2>1. 0 \in 0..(high - low) /\ \A i \in 1..k : i \in 0..(high - low) /\ i # 0
    BY <1>1, <1>2
  <2> QED
    BY <1>8, <2>1
<1>10. IterateIndexRange(h, low, high) = at[k].keys
  <2> DEFINE e == CHOOSE f : Eq(f)
  <2>1. IterateIndexRange(h, low, high) = e[high - low].keys
    BY <1>3 DEF IterateIndexRange
  <2> HIDE DEF Eq
  <2> QED
    BY <1>1, <1>7, <2>1
<1>11. PICK S : S = {i \in Nat : i <= k => at[i] = Visited(A, s, high, i)}
  OBVIOUS
<1>12. 0 \in S
  BY <1>4, <1>9, <1>11
<1>13. ASSUME NEW i \in Nat, i \in S PROVE i + 1 \in S
  <2>1. SUFFICES ASSUME i + 1 <= k PROVE at[i + 1] = Visited(A, s, high, i + 1)
    BY <1>11
  <2>2. i + 1 \in 1..k /\ (i + 1) - 1 = i /\ i <= k
    BY <1>2, <2>1
  <2>3. at[i + 1] = Visit(h, at[i]) /\ Visited(A, s, high, i + 1) = Visit(h, Visited(A, s, high, i))
    BY <1>5, <1>9, <2>2
  <2> QED
    BY <1>11, <1>13, <2>2, <2>3
<1>14. at[k] = Visited(A, s, high, k)
  <2>1. k \in S
    BY <1>2, <1>12, <1>13, AllNumbers
  <2> QED
    BY <1>2, <1>11, <2>1
<1>15. IterateIndexRange(h, low, high) = Backward(s, high, k)
  BY <1>10, <1>14 DEF Visited
<1>16. Reverse(SubSeq(s, low + 1, high)) = Backward(s, high, k)
  <2>1. PICK q : q = SubSeq(s, low + 1, high)
    OBVIOUS
  <2>2. \A i \in (low + 1)..high : s[i] \in Keys
    <3>1. \A i \in (low + 1)..high : i \in 1..Len(s)
      BY <1>1, <1>2
    <3> QED
      BY <1>2, <3>1, ElementOfSeq
  <2>3. low + 1 \in Int /\ high \in Int
    BY <1>2
  <2>4. /\ Len(q) = IF low + 1 <= high THEN (high - (low + 1)) + 1 ELSE 0
        /\ \A i \in 1..((high - (low + 1)) + 1) : q[i] = s[((low + 1) + i) - 1]
    BY <2>1, <2>2, <2>3, SubSeqProperties
  <2>5. Len(q) = k /\ \A i \in 1..k : q[i] = s[((low + 1) + i) - 1]
    <3>1. (high - (low + 1)) + 1 = k /\ (low + 1 <= high \/ k = 0)
      BY <1>1, <1>2
    <3> QED
      BY <2>4, <3>1
  <2>6. ASSUME NEW j \in 1..k PROVE q[(k - j) + 1] = s[(high - j) + 1]
    <3>1. (k - j) + 1 \in 1..k /\ ((low + 1) + ((k - j) + 1)) - 1 = (high - j) + 1
      BY <1>1, <1>2
    <3> QED
      BY <2>5, <3>1
  <2> QED
    BY <2>1, <2>5, <2>6 DEF Reverse, Backward
<1> QED
  BY <1>15, <1>16

(* Where the ways to two nodes part.                                       *)
Forked(h, D, m, x, q) ==
    /\ q \in In(h) /\ m \in D[q] /\ x \in D[q]
    /\ \/ q = m \/ q = x
       \/ m \in D[h.kid[q][-1]] /\ x \in D[h.kid[q][1]]
       \/ m \in D[h.kid[q][1]] /\ x \in D[h.kid[q][-1]]

LEMMA Fork ==
    ASSUME NEW h, NEW D, Wired(h), Below(h, D), NEW m \in In(h), NEW x \in In(h)
    PROVE  \E q : Forked(h, D, m, x, q)
<1>1. PICK S : S = {n \in In(h) \cup {Nil} : \A u, v \in D[n] : \E q : Forked(h, D, u, v, q)}
  OBVIOUS
<1>2. Nil \in S
  BY <1>1 DEF Below
<1>3. ASSUME NEW n \in In(h), \A d \in Side : h.kid[n][d] \in S PROVE n \in S
  <2>1. SUFFICES ASSUME NEW u \in D[n], NEW v \in D[n] PROVE \E q : Forked(h, D, u, v, q)
    BY <1>1
  <2>2. PICK l, r : l = h.kid[n][-1] /\ r = h.kid[n][1] /\ l \in S /\ r \in S
    BY <1>3, Sides
  <2>3. D[n] = {n} \cup D[l] \cup D[r]
    BY <2>2 DEF Below
  <2>4. CASE u \in D[l] /\ v \in D[l]
    BY <1>1, <2>2, <2>4
  <2>5. CASE u \in D[r] /\ v \in D[r]
    BY <1>1, <2>2, <2>5
  <2>6. CASE u = n \/ v = n \/ (u \in D[l] /\ v \in D[r]) \/ (u \in D[r] /\ v \in D[l])
    <3>1. Forked(h, D, u, v, n)
      BY <2>1, <2>2, <2>6 DEF Forked
    <3> QED
      BY <3>1
  <2> QED
    BY <2>1, <2>3, <2>4, <2>5, <2>6
<1>4. \A n \in In(h) : n \in S
  BY <1>2, <1>3, TreeInduction
<1>5. D[Top(h)] = In(h) /\ (Top(h) \in In(h) \/ Top(h) = Nil)
  BY KidsOf DEF Below
<1>6. Top(h) \in S
  BY <1>2, <1>4, <1>5
<1> QED
  BY <1>1, <1>5, <1>6

(* The path of a search, from the top down to x.                           *)
Searched(h, D, k, path, x) ==
    /\ Sought(h, D, k, path, x) /\ x = Last(path)
    /\ DOMAIN path = 1..Len(path) /\ path[1] = Top(h)
    /\ \A j \in 1..Len(path) : \A i \in 1..j : path[j] \in D[path[i]]

LEMMA SearchedIs ==
    ASSUME NEW h, NEW D, Wired(h), Below(h, D), Top(h) # Nil, NEW k
    PROVE  Searched(h, D, k, Search(h, k), Last(Search(h, k)))
<1>1. PICK next, path, x : /\ next = [q \in Node |-> IF k = h.key[q] THEN Nil ELSE h.kid[q][SearchSide(h, q, k)]]
                           /\ path = Search(h, k) /\ x = Last(path)
  OBVIOUS
<1>2. path = Follow(Top(h), next)
  BY <1>1 DEF Search, SearchSide
<1>3. \A q \in In(h) : next[q] # Nil => \E d \in Side : next[q] = h.kid[q][d]
  <2>1. In(h) \subseteq Node
    BY KidsOf
  <2>2. \A q \in In(h) : SearchSide(h, q, k) \in Side
    BY Sides DEF SearchSide
  <2>3. \A q \in In(h) : next[q] # Nil => next[q] = h.kid[q][SearchSide(h, q, k)]
    BY <1>1, <2>1
  <2> QED
    BY <2>2, <2>3
<1>4. Downward(h, next)
  BY <1>3 DEF Downward
<1>5. Path(h, path, Top(h), next)
  BY <1>2, <1>4, OnPath
<1>6. \A j \in 1..Len(path) : \A i \in 1..j : path[j] \in D[path[i]]
  BY <1>4, <1>5, PathOrder
<1>7. path[1] = Top(h) /\ DOMAIN path = 1..Len(path)
  BY <1>5, LenProperties DEF Path
<1>8. Sought(h, D, k, path, x)
  BY <1>1, SearchIs
<1> QED
  BY <1>1, <1>6, <1>7, <1>8 DEF Searched

(* The search ends at x next to where k belongs: all nodes before x have   *)
(* smaller keys and all behind it larger ones, unless x has the key k.     *)
Divided(h, P, k, x) ==
    \A m \in In(h) : m # x => \/ h.key[m] < k /\ P[m] < P[x]
                              \/ k < h.key[m] /\ P[x] < P[m]

LEMMA SearchDivides ==
    ASSUME NEW h, NEW D, NEW P, NEW A, NEW s, Ranking(h, D, P, A, s),
           NEW k \in Key, NEW path, NEW x, Sought(h, D, k, path, x), h.key[x] # k
    PROVE  Divided(h, P, k, x)
<1>1. /\ Wired(h) /\ Below(h, D) /\ x \in In(h)
      /\ \A m \in In(h) : h.key[m] \in Nat /\ P[m] \in Int
      /\ k \in Nat
  <2>1. Key \subseteq Nat
    BY KeyAssumption
  <2>2. \A m \in In(h) : h.key[m] \in Key
    BY DEF Ranking, Sorted
  <2>3. \A m \in In(h) : P[m] \in Int
    BY PlacesMatch DEF Ranking, Matched
  <2> QED
    BY <2>1, <2>2, <2>3 DEF Ranking, Sought
<1>2. ASSUME NEW q \in In(h)
      PROVE  /\ \A m \in D[h.kid[q][-1]] : P[m] < P[q] /\ h.key[m] <= h.key[q] /\ m \in In(h)
             /\ \A m \in D[h.kid[q][1]] : P[q] < P[m] /\ h.key[q] <= h.key[m] /\ m \in In(h)
             /\ D[h.kid[q][-1]] \cap D[h.kid[q][1]] = {}
             /\ D[q] = {q} \cup D[h.kid[q][-1]] \cup D[h.kid[q][1]]
  <2>1. Oriented(h, D, P, -1, 1)
    BY PlacesOriented DEF Ranking
  <2>2. /\ \A m \in D[h.kid[q][-1]] : P[m] < P[q] /\ m \in In(h)
        /\ \A m \in D[h.kid[q][1]] : P[q] < P[m] /\ m \in In(h)
    BY <1>1, <2>1, OrientedParts
  <2>3. /\ \A m \in D[h.kid[q][-1]] : h.key[m] <= h.key[q]
        /\ \A m \in D[h.kid[q][1]] : h.key[q] <= h.key[m]
    BY DEF Ranking, Sorted
  <2>4. /\ D[h.kid[q][-1]] \cap D[h.kid[q][1]] = {}
        /\ D[q] = {q} \cup D[h.kid[q][-1]] \cup D[h.kid[q][1]]
    BY <1>1 DEF Below
  <2> QED
    BY <2>2, <2>3, <2>4
<1>3. ASSUME NEW q \in In(h), q # x, x \in D[q]
      PROVE  \/ k < h.key[q] /\ x \in D[h.kid[q][-1]] /\ P[x] < P[q]
             \/ h.key[q] < k /\ x \in D[h.kid[q][1]] /\ P[q] < P[x]
  <2>1. k # h.key[q] /\ x \in D[h.kid[q][SearchSide(h, q, k)]]
    BY <1>3 DEF Sought
  <2>2. CASE k < h.key[q]
    <3>1. SearchSide(h, q, k) = -1
      BY <2>2 DEF SearchSide
    <3> QED
      BY <1>2, <2>1, <2>2, <3>1
  <2>3. CASE ~(k < h.key[q])
    <3>1. SearchSide(h, q, k) = 1 /\ h.key[q] < k
      BY <1>1, <2>1, <2>3 DEF SearchSide
    <3> QED
      BY <1>2, <2>1, <3>1
  <2> QED
    BY <2>2, <2>3
<1>4. ASSUME NEW m \in D[x], m # x
      PROVE  \/ h.key[m] < k /\ P[m] < P[x]
             \/ k < h.key[m] /\ P[x] < P[m]
  <2>1. h.kid[x][SearchSide(h, x, k)] = Nil /\ D[Nil] = {}
    BY <1>1 DEF Sought, Below
  <2>2. CASE k < h.key[x]
    <3>1. SearchSide(h, x, k) = -1
      BY <2>2 DEF SearchSide
    <3>2. m \in D[h.kid[x][1]]
      BY <1>1, <1>2, <1>4, <2>1, <3>1
    <3>3. P[x] < P[m] /\ h.key[x] <= h.key[m] /\ m \in In(h)
      BY <1>1, <1>2, <3>2
    <3> QED
      BY <1>1, <2>2, <3>3
  <2>3. CASE ~(k < h.key[x])
    <3>1. SearchSide(h, x, k) = 1 /\ h.key[x] < k
      BY <1>1, <2>3 DEF SearchSide
    <3>2. m \in D[h.kid[x][-1]]
      BY <1>1, <1>2, <1>4, <2>1, <3>1
    <3>3. P[m] < P[x] /\ h.key[m] <= h.key[x] /\ m \in In(h)
      BY <1>1, <1>2, <3>2
    <3> QED
      BY <1>1, <3>1, <3>3
  <2> QED
    BY <2>2, <2>3
<1>5. ASSUME NEW m \in In(h), m # x
      PROVE  \/ h.key[m] < k /\ P[m] < P[x]
             \/ k < h.key[m] /\ P[x] < P[m]
  <2>1. PICK q : Forked(h, D, m, x, q)
    BY <1>1, Fork
  <2>2. q \in In(h) /\ x \in D[q] /\ m \in D[q]
    BY <2>1 DEF Forked
  <2>3. CASE q = x
    BY <1>4, <1>5, <2>2, <2>3
  <2>4. CASE q = m
    <3>1. \/ k < h.key[m] /\ P[x] < P[m]
          \/ h.key[m] < k /\ P[m] < P[x]
      BY <1>3, <1>5, <2>2, <2>4
    <3> QED
      BY <3>1
  <2>5. CASE q # x /\ q # m
    <3>1. CASE k < h.key[q] /\ x \in D[h.kid[q][-1]] /\ P[x] < P[q]
      <4>1. m \in D[h.kid[q][1]]
        BY <1>2, <2>1, <2>2, <2>5, <3>1 DEF Forked
      <4>2. P[q] < P[m] /\ h.key[q] <= h.key[m]
        BY <1>2, <2>2, <4>1
      <4> QED
        BY <1>1, <2>2, <3>1, <4>2
    <3>2. CASE h.key[q] < k /\ x \in D[h.kid[q][1]] /\ P[q] < P[x]
      <4>1. m \in D[h.kid[q][-1]]
        BY <1>2, <2>1, <2>2, <2>5, <3>2 DEF Forked
      <4>2. P[m] < P[q] /\ h.key[m] <= h.key[q]
        BY <1>2, <2>2, <4>1
      <4> QED
        BY <1>1, <2>2, <3>2, <4>2
    <3> QED
      BY <1>3, <2>2, <2>5, <3>1, <3>2
  <2> QED
    BY <2>3, <2>4, <2>5
<1> QED
  BY <1>5 DEF Divided

(* The same about the sequence of keys.                                    *)
Parted(s, l, k, p, y) ==
    /\ l \in Nat /\ l = Len(s) /\ p \in 1..l /\ k \in Nat /\ y \in Nat /\ s[p] = y
    /\ \A i \in 1..l : s[i] \in Nat
    /\ \A i, j \in 1..l : i <= j => s[i] <= s[j]
    /\ y # k => \A i \in 1..l : (i < p => s[i] < k) /\ (p < i => k < s[i])

LEMMA SearchParts ==
    ASSUME NEW h, NEW D, NEW P, NEW A, NEW s, Ranking(h, D, P, A, s),
           NEW k \in Key, NEW path, NEW x, Sought(h, D, k, path, x)
    PROVE  Parted(s, Len(s), k, P[x], h.key[x])
<1>1. PICK l : l = Len(s) /\ l \in Nat /\ Matched(h, P, A, s, l)
  BY PlacesMatch DEF Matched, Ranking
<1>2. P[x] \in 1..l /\ s[P[x]] = h.key[x] /\ x \in In(h)
  BY <1>1 DEF Matched, Sought
<1>3. \A m \in In(h) : h.key[m] \in Nat
  BY KeyAssumption DEF Ranking, Sorted
<1>4. ASSUME NEW i \in 1..l PROVE A[i] \in In(h) /\ P[A[i]] = i /\ s[i] = h.key[A[i]]
  BY <1>1 DEF Matched
<1>5. k \in Nat /\ h.key[x] \in Nat /\ \A i \in 1..l : s[i] \in Nat
  BY <1>2, <1>3, <1>4, KeyAssumption
<1>6. \A i, j \in 1..l : i <= j => s[i] <= s[j]
  BY <1>1 DEF Ranking, Placing
<1>7. ASSUME h.key[x] # k, NEW i \in 1..l PROVE (i < P[x] => s[i] < k) /\ (P[x] < i => k < s[i])
  <2>1. Divided(h, P, k, x)
    BY <1>7, SearchDivides
  <2>2. CASE i = P[x]
    BY <1>2, <2>2
  <2>3. CASE i # P[x]
    <3>1. PICK m \in In(h) : m = A[i] /\ P[m] = i /\ s[i] = h.key[m] /\ m # x
      BY <1>4, <2>3
    <3>2. (s[i] < k /\ i < P[x]) \/ (k < s[i] /\ P[x] < i)
      BY <2>1, <3>1 DEF Divided
    <3> QED
      BY <1>2, <3>2
  <2> QED
    BY <2>2, <2>3
<1> QED
  BY <1>1, <1>2, <1>5, <1>6, <1>7 DEF Parted

LEMMA EmptyTree ==
    ASSUME NEW h, NEW D, NEW P, NEW A, NEW s, Ranking(h, D, P, A, s)
    PROVE  /\ Top(h) = Nil <=> Len(s) = 0
           /\ s \in Seq(Keys) /\ DOMAIN s = 1..Len(s) /\ Len(s) \in Nat
<1>1. PICK l : l = Len(s) /\ l \in Nat /\ Matched(h, P, A, s, l)
  BY PlacesMatch DEF Matched, Ranking
<1>2. D[Top(h)] = In(h) /\ D[Nil] = {} /\ (Top(h) \in In(h) \/ Top(h) = Nil) /\ Nil \notin In(h)
  BY KidsOf DEF Below, Ranking
<1>3. CASE Top(h) = Nil
  <2>1. \A i \in 1..l : FALSE
    BY <1>1, <1>2, <1>3 DEF Matched
  <2>2. l = 0
    BY <1>1, <2>1
  <2> QED
    BY <1>1, <1>3, <2>2, LenProperties DEF Ranking, Placing
<1>4. CASE Top(h) # Nil
  <2>1. P[Top(h)] \in 1..l
    BY <1>1, <1>2, <1>4 DEF Matched
  <2>2. l # 0
    BY <1>1, <2>1
  <2> QED
    BY <1>1, <1>4, <2>2, LenProperties DEF Ranking, Placing
<1> QED
  BY <1>3, <1>4

(* avl_get_by_key.                                                         *)
LEMMA ByKeyIs ==
    ASSUME NEW h, NEW D, NEW P, NEW A, NEW s, Ranking(h, D, P, A, s), NEW k \in Key
    PROVE  /\ Found(h, k) <=> \E i \in 1..Len(s) : s[i] = k
           /\ GetByKey(h, k) = IF \E i \in 1..Len(s) : s[i] = k THEN k ELSE NoKey
<1>1. PICK path, x, l : path = Search(h, k) /\ x = Last(path) /\ l = Len(s)
  OBVIOUS
<1>2. CASE Top(h) = Nil
  <2>1. path = << >>
    BY <1>1, <1>2, FoundIs DEF Ranking
  <2>2. \A i \in 1..l : FALSE
    BY <1>1, <1>2, EmptyTree
  <2> QED
    BY <1>1, <2>1, <2>2 DEF GetByKey, Found
<1>3. CASE Top(h) # Nil
  <2>1. Sought(h, D, k, path, x) /\ path # << >>
    BY <1>1, <1>3, FoundIs DEF Ranking
  <2>2. Parted(s, l, k, P[x], h.key[x])
    BY <1>1, <2>1, SearchParts
  <2>3. Found(h, k) <=> h.key[x] = k
    BY <1>1, <2>1 DEF Found
  <2>4. h.key[x] = k <=> \E i \in 1..l : s[i] = k
    <3>1. CASE h.key[x] = k
      BY <2>2, <3>1 DEF Parted
    <3>2. CASE h.key[x] # k
      <4>1. ASSUME NEW i \in 1..l PROVE s[i] # k
        <5>1. P[x] \in 1..l /\ l \in Nat /\ k \in Nat /\ s[i] \in Nat
          BY <2>2 DEF Parted
        <5>2. i < P[x] \/ P[x] < i \/ i = P[x]
          BY <5>1
        <5>3. (i < P[x] => s[i] < k) /\ (P[x] < i => k < s[i]) /\ s[P[x]] = h.key[x]
          BY <2>2, <3>2 DEF Parted
        <5> QED
          BY <3>2, <5>1, <5>2, <5>3
      <4> QED
        BY <3>2, <4>1
    <3> QED
      BY <3>1, <3>2
  <2> QED
    BY <1>1, <2>3, <2>4 DEF GetByKey
<1> QED
  BY <1>2, <1>3

(* The nodes met on a path that lie before x.                              *)
MetBefore(Q, path, x, met) ==
    /\ met \subseteq 1..Len(path)
    /\ \A i \in 1..Len(path) : i \in met <=> Q[path[i]] < Q[x]

(* The node before x is the last one met from which the search went on     *)
(* towards x, when x has no child on that side.                            *)
LEMMA NearestMet ==
    ASSUME NEW h, NEW D, Wired(h), Below(h, D), NEW Q, NEW a, NEW b, Oriented(h, D, Q, a, b),
           NEW k, NEW path, NEW x, Searched(h, D, k, path, x),
           NEW met, MetBefore(Q, path, x, met),
           NEW m \in In(h), Q[m] + 1 = Q[x], h.kid[x][a] = Nil
    PROVE  met # {} /\ path[Max(met)] = m
<1>1. /\ x \in In(h) /\ \A q \in In(h) : q \in ToSet(path) <=> x \in D[q]
      /\ \A i \in 1..Len(path) : path[i] \in In(h)
      /\ Len(path) \in Nat \ {0} /\ x = path[Len(path)]
  BY DEF Searched, Sought
<1>0. met \subseteq 1..Len(path) /\ \A i \in 1..Len(path) : i \in met <=> Q[path[i]] < Q[x]
  BY DEF MetBefore
<1>2. \A q \in In(h) : Q[q] \in Int
  BY DEF Oriented
<1>3. ASSUME NEW q \in In(h)
      PROVE  /\ D[q] = {q} \cup D[h.kid[q][a]] \cup D[h.kid[q][b]]
             /\ \A u \in D[h.kid[q][a]] : Q[u] < Q[q] /\ u \in In(h)
             /\ \A u \in D[h.kid[q][b]] : Q[q] < Q[u] /\ u \in In(h)
  BY OrientedParts
<1>4. Q[m] < Q[x] /\ m # x
  BY <1>1, <1>2
<1>5. x \in D[m]
  <2>1. PICK q : Forked(h, D, m, x, q)
    BY <1>1, Fork
  <2>2. q \in In(h) /\ m \in D[q] /\ x \in D[q]
    BY <2>1 DEF Forked
  <2>3. CASE q = m
    BY <2>2, <2>3
  <2>4. CASE q = x
    <3>1. m \in D[h.kid[x][b]]
      BY <1>1, <1>3, <1>4, <2>2, <2>4 DEF Below
    <3>2. Q[x] < Q[m]
      BY <1>1, <1>3, <3>1
    <3> QED
      BY <1>1, <1>2, <1>4, <3>2
  <2>5. CASE q # m /\ q # x
    <3>1. (a = -1 /\ b = 1) \/ (a = 1 /\ b = -1)
      BY Sides DEF Oriented
    <3>2. (m \in D[h.kid[q][a]] /\ x \in D[h.kid[q][b]]) \/ (m \in D[h.kid[q][b]] /\ x \in D[h.kid[q][a]])
      BY <2>1, <2>5, <3>1 DEF Forked
    <3>3. (Q[m] < Q[q] /\ Q[q] < Q[x]) \/ (Q[q] < Q[m] /\ Q[x] < Q[q])
      BY <1>3, <2>2, <3>2
    <3> QED
      BY <1>1, <1>2, <2>2, <3>3
  <2> QED
    BY <2>3, <2>4, <2>5
<1>6. PICK j \in 1..Len(path) : path[j] = m
  <2>1. m \in ToSet(path)
    BY <1>1, <1>5
  <2> QED
    BY <2>1 DEF ToSet, Searched
<1>7. j \in met
  BY <1>0, <1>4, <1>6
<1>8. PICK t \in 1..Len(path) : t = Max(met) /\ t \in met /\ t >= j
  <2>1. PICK n \in Nat : n = Len(path)
    BY <1>1
  <2>2. met \in SUBSET (0..n) /\ met # {}
    BY <1>0, <1>7, <2>1
  <2>3. Max(met) \in met /\ \A i \in met : Max(met) >= i
    BY <2>2, Greatest
  <2> QED
    BY <1>0, <1>7, <2>3
<1>9. PICK y : y = path[t] /\ y \in In(h) /\ Q[y] < Q[x] /\ y \in D[m] /\ x \in D[y]
  <2>1. path[t] \in In(h) /\ Q[path[t]] < Q[x]
    BY <1>0, <1>1, <1>8
  <2>2. j \in 1..t /\ t \in 1..Len(path) /\ Len(path) \in 1..Len(path) /\ t \in 1..Len(path)
    BY <1>1, <1>8
  <2>3. path[t] \in D[path[j]] /\ path[Len(path)] \in D[path[t]]
    BY <1>1, <2>2 DEF Searched
  <2> QED
    BY <1>1, <1>6, <2>1, <2>3
<1>10. y = m
  <2>1. SUFFICES ASSUME y # m PROVE FALSE
    OBVIOUS
  <2>2. CASE y \in D[h.kid[m][b]]
    <3>1. Q[m] < Q[y]
      BY <1>3, <2>2
    <3> QED
      BY <1>1, <1>2, <1>9, <3>1
  <2>3. CASE y \in D[h.kid[m][a]]
    <3>1. PICK c : c = h.kid[m][a] /\ c \in In(h)
      <4>1. h.kid[m][a] # Nil
        BY <2>3 DEF Below
      <4> QED
        BY <4>1, OrientedParts
    <3>2. x \in D[c]
      BY <1>9, <2>3, <3>1 DEF Below
    <3>3. Q[x] < Q[m]
      BY <1>3, <3>1, <3>2
    <3> QED
      BY <1>1, <1>2, <1>4, <3>3
  <2> QED
    BY <1>3, <1>9, <2>1, <2>2, <2>3
<1> QED
  BY <1>7, <1>8, <1>9, <1>10

LEMMA MaxBelow ==
    ASSUME NEW s, NEW l, NEW k, NEW p, NEW y, Parted(s, l, k, p, y),
           NEW below, below = {i \in 1..l : s[i] <= k}
    PROVE  /\ y <= k => below # {} /\ s[Max(below)] = y
           /\ k < y /\ p = 1 => below = {}
           /\ k < y /\ p # 1 => below # {} /\ Max(below) = p - 1
<1>1. /\ l \in Nat /\ p \in 1..l /\ k \in Nat /\ y \in Nat /\ s[p] = y
      /\ \A i \in 1..l : s[i] \in Nat
      /\ \A i, j \in 1..l : i <= j => s[i] <= s[j]
  BY DEF Parted
<1>2. y # k => \A i \in 1..l : (i < p => s[i] < k) /\ (p < i => k < s[i])
  BY DEF Parted
<1>3. below # {} => Max(below) \in below /\ \A i \in below : Max(below) >= i
  <2>1. below \in SUBSET (0..l)
    OBVIOUS
  <2> QED
    BY <1>1, <2>1, Greatest
<1>4. ASSUME y <= k PROVE below # {} /\ s[Max(below)] = y
  <2>1. p \in below
    BY <1>1, <1>4
  <2>2. PICK t : t = Max(below) /\ t \in 1..l /\ s[t] <= k /\ t >= p
    BY <1>3, <2>1
  <2>3. y <= s[t] /\ s[t] \in Nat
    BY <1>1, <2>2
  <2>4. CASE y = k
    BY <1>1, <2>1, <2>2, <2>3, <2>4
  <2>5. CASE y # k
    <3>1. ~(p < t)
      BY <1>1, <1>2, <2>2, <2>3, <2>5
    <3>2. t = p
      BY <1>1, <2>2, <3>1
    <3> QED
      BY <1>1, <2>1, <2>2, <3>2
  <2> QED
    BY <2>4, <2>5
<1>5. ASSUME k < y, NEW i \in below PROVE i < p
  <2>1. i \in 1..l /\ s[i] <= k /\ s[i] \in Nat /\ y # k
    BY <1>1, <1>5
  <2>2. i # p /\ ~(p < i)
    BY <1>1, <1>2, <1>5, <2>1
  <2> QED
    BY <1>1, <2>1, <2>2
<1>6. ASSUME k < y, p = 1 PROVE below = {}
  <2>1. \A i \in below : FALSE
    BY <1>5, <1>6
  <2> QED
    BY <2>1
<1>7. ASSUME k < y, p # 1 PROVE below # {} /\ Max(below) = p - 1
  <2>1. p - 1 \in 1..l /\ p - 1 < p /\ y # k
    BY <1>1, <1>7
  <2>2. s[p - 1] < k /\ s[p - 1] \in Nat
    BY <1>1, <1>2, <2>1
  <2>3. p - 1 \in below
    BY <1>1, <2>1, <2>2
  <2>4. PICK t : t = Max(below) /\ t \in 1..l /\ t < p /\ t >= p - 1
    BY <1>3, <1>5, <1>7, <2>3
  <2> QED
    BY <1>1, <2>3, <2>4
<1> QED
  BY <1>4, <1>6, <1>7

LEMMA MinAbove ==
    ASSUME NEW s, NEW l, NEW k, NEW p, NEW y, Parted(s, l, k, p, y),
           NEW above, above = {i \in 1..l : s[i] >= k}
    PROVE  /\ k <= y => above # {} /\ s[Min(above)] = y
           /\ y < k /\ p = l => above = {}
           /\ y < k /\ p # l => above # {} /\ Min(above) = p + 1
<1>1. /\ l \in Nat /\ p \in 1..l /\ k \in Nat /\ y \in Nat /\ s[p] = y
      /\ \A i \in 1..l : s[i] \in Nat
      /\ \A i, j \in 1..l : i <= j => s[i] <= s[j]
  BY DEF Parted
<1>2. y # k => \A i \in 1..l : (i < p => s[i] < k) /\ (p < i => k < s[i])
  BY DEF Parted
<1>3. above # {} => Min(above) \in above /\ \A i \in above : Min(above) <= i
  <2>1. above \in SUBSET Nat
    OBVIOUS
  <2> QED
    BY <2>1, Least
<1>4. ASSUME k <= y PROVE above # {} /\ s[Min(above)] = y
  <2>1. p \in above
    BY <1>1, <1>4
  <2>2. PICK t : t = Min(above) /\ t \in 1..l /\ s[t] >= k /\ t <= p
    BY <1>3, <2>1
  <2>3. s[t] <= y /\ s[t] \in Nat
    BY <1>1, <2>2
  <2>4. CASE y = k
    BY <1>1, <2>1, <2>2, <2>3, <2>4
  <2>5. CASE y # k
    <3>1. ~(t < p)
      BY <1>1, <1>2, <2>2, <2>3, <2>5
    <3>2. t = p
      BY <1>1, <2>2, <3>1
    <3> QED
      BY <1>1, <2>1, <2>2, <3>2
  <2> QED
    BY <2>4, <2>5
<1>5. ASSUME y < k, NEW i \in above PROVE p < i
  <2>1. i \in 1..l /\ s[i] >= k /\ s[i] \in Nat /\ y # k
    BY <1>1, <1>5
  <2>2. i # p /\ ~(i < p)
    BY <1>1, <1>2, <1>5, <2>1
  <2> QED
    BY <1>1, <2>1, <2>2
<1>6. ASSUME y < k, p = l PROVE above = {}
  <2>1. \A i \in above : FALSE
    BY <1>1, <1>5, <1>6
  <2> QED
    BY <2>1
<1>7. ASSUME y < k, p # l PROVE above # {} /\ Min(above) = p + 1
  <2>1. p + 1 \in 1..l /\ p < p + 1 /\ y # k
    BY <1>1, <1>7
  <2>2. k < s[p + 1] /\ s[p + 1] \in Nat
    BY <1>1, <1>2, <2>1
  <2>3. p + 1 \in above
    BY <1>1, <2>1, <2>2
  <2>4. PICK t : t = Min(above) /\ t \in 1..l /\ p < t /\ t <= p + 1
    BY <1>3, <1>5, <1>7, <2>3
  <2> QED
    BY <1>1, <2>3, <2>4
<1> QED
  BY <1>4, <1>6, <1>7

(* The last node on a path.                                                *)
LEMMA MetLast ==
    ASSUME NEW path, NEW n \in Nat \ {0}, NEW met \in SUBSET (1..n), n \in met
    PROVE  Max(met) = n
<1>1. met \in SUBSET (0..n) /\ met # {}
  OBVIOUS
<1>2. Max(met) \in met /\ Max(met) >= n
  BY <1>1, Greatest
<1>3. PICK t : t = Max(met)
  OBVIOUS
<1>4. t \in 1..n /\ t >= n
  BY <1>2, <1>3
<1> QED
  BY <1>3, <1>4

(* avl_get_item_by_key_most.                                               *)
LEMMA MostIs ==
    ASSUME NEW h, NEW D, NEW P, NEW A, NEW s, Ranking(h, D, P, A, s), NEW k \in Key,
           NEW below, below = {i \in DOMAIN s : s[i] <= k}
    PROVE  GetMost(h, k) = IF below = {} THEN NoKey ELSE s[Max(below)]
<1>1. PICK path, x, met, l : /\ path = Search(h, k) /\ x = Last(path) /\ l = Len(s)
                             /\ met = {i \in DOMAIN path : h.key[path[i]] <= k}
  OBVIOUS
<1>2. GetMost(h, k) = IF met = {} THEN NoKey ELSE h.key[path[Max(met)]]
  BY <1>1 DEF GetMost, LastMet
<1>3. below = {i \in 1..l : s[i] <= k}
  BY <1>1, EmptyTree
<1>4. CASE Top(h) = Nil
  <2>1. path = << >>
    BY <1>1, <1>4, FoundIs DEF Ranking
  <2>2. met = {}
    BY <1>1, <2>1
  <2>3. below = {}
    BY <1>1, <1>3, <1>4, EmptyTree
  <2> QED
    BY <1>2, <2>2, <2>3
<1>5. CASE Top(h) # Nil
  <2>1. Searched(h, D, k, path, x)
    BY <1>1, <1>5, SearchedIs DEF Ranking
  <2>2. Sought(h, D, k, path, x)
    BY <2>1 DEF Searched
  <2>3. PICK p, y : p = P[x] /\ y = h.key[x] /\ Parted(s, l, k, p, y)
    BY <1>1, <2>2, SearchParts
  <2>4. /\ p \in 1..l /\ l \in Nat /\ k \in Nat /\ y \in Nat /\ s[p] = y
    BY <2>3 DEF Parted
  <2>5. PICK n : n = Len(path) /\ n \in Nat \ {0} /\ path[n] = x /\ DOMAIN path = 1..n
    BY <2>1, <2>2 DEF Searched, Sought
  <2>6. met \in SUBSET (1..n)
    BY <1>1, <2>5
  <2>7. CASE y <= k
    <3>1. n \in met
      BY <1>1, <2>3, <2>5, <2>7
    <3>2. Max(met) = n
      BY <2>5, <2>6, <3>1, MetLast
    <3>3. below # {} /\ s[Max(below)] = y
      BY <1>3, <2>3, <2>7, MaxBelow
    <3> QED
      BY <1>2, <2>3, <2>5, <3>1, <3>2, <3>3
  <2>8. CASE k < y
    <3>1. ASSUME NEW i \in 1..n PROVE i \in met <=> P[path[i]] < P[x]
      <4>1. path[i] \in In(h) /\ h.key[path[i]] \in Nat /\ P[path[i]] \in Int
        <5>1. path[i] \in In(h)
          BY <2>2, <2>5 DEF Sought
        <5>2. h.key[path[i]] \in Nat
          BY <5>1, KeyAssumption DEF Ranking, Sorted
        <5> QED
          BY <5>1, <5>2, PlacesMatch DEF Ranking, Matched
      <4>2. Divided(h, P, k, x)
        BY <2>2, <2>3, <2>4, <2>8, SearchDivides
      <4>3. i \in met <=> h.key[path[i]] <= k
        BY <1>1, <2>5
      <4>4. CASE path[i] = x
        BY <2>3, <2>4, <2>8, <4>3, <4>4
      <4>5. CASE path[i] # x
        BY <2>3, <2>4, <4>1, <4>2, <4>3, <4>5 DEF Divided
      <4> QED
        BY <4>4, <4>5
    <3>2. CASE p = 1
      <4>1. ASSUME NEW i \in met PROVE FALSE
        <5>1. i \in 1..n /\ path[i] \in In(h)
          BY <2>2, <2>5, <2>6 DEF Sought
        <5>2. P[path[i]] \in 1..l /\ P[path[i]] < P[x]
          BY <1>1, <3>1, <5>1, PlacesMatch DEF Ranking, Matched
        <5> QED
          BY <2>3, <2>4, <3>2, <5>2
      <4>2. met = {}
        BY <4>1
      <4>3. below = {}
        BY <1>3, <2>3, <2>8, <3>2, MaxBelow
      <4> QED
        BY <1>2, <4>2, <4>3
    <3>3. CASE p # 1
      <4>1. below # {} /\ Max(below) = p - 1
        BY <1>3, <2>3, <2>8, <3>3, MaxBelow
      <4>2. p - 1 \in 1..l /\ (p - 1) + 1 = p
        BY <2>4, <3>3
      <4>3. PICK m \in In(h) : m = A[p - 1] /\ P[m] = p - 1 /\ h.key[m] = s[p - 1]
        BY <1>1, <4>2, PlacesMatch DEF Ranking, Matched
      <4>4. h.kid[x][-1] = Nil
        <5>1. SearchSide(h, x, k) = -1 /\ k # y
          BY <2>3, <2>4, <2>8 DEF SearchSide
        <5> QED
          BY <2>2, <2>3, <5>1 DEF Sought
      <4>5. Oriented(h, D, P, -1, 1) /\ Wired(h) /\ Below(h, D)
        BY PlacesOriented DEF Ranking
      <4>6. P[m] + 1 = P[x]
        BY <2>3, <4>2, <4>3
      <4>7. MetBefore(P, path, x, met)
        BY <2>5, <2>6, <3>1 DEF MetBefore
      <4>8. met # {} /\ path[Max(met)] = m
        <5>1. PICK a, b : a = -1 /\ b = 1
          OBVIOUS
        <5>2. Oriented(h, D, P, a, b) /\ h.kid[x][a] = Nil
          BY <4>4, <4>5, <5>1
        <5> QED
          BY <2>1, <4>3, <4>5, <4>6, <4>7, <5>2, NearestMet
      <4> QED
        BY <1>2, <4>1, <4>3, <4>8, ZenonT(30)
    <3> QED
      BY <3>2, <3>3
  <2> QED
    BY <2>4, <2>7, <2>8
<1> QED
  BY <1>4, <1>5

(* avl_get_item_by_key_least.                                              *)
LEMMA LeastIs ==
    ASSUME NEW h, NEW D, NEW P, NEW A, NEW s, Ranking(h, D, P, A, s), NEW k \in Key,
           NEW above, above = {i \in DOMAIN s : s[i] >= k}
    PROVE  GetLeast(h, k) = IF above = {} THEN NoKey ELSE s[Min(above)]
<1>1. PICK path, x, met, l : /\ path = Search(h, k) /\ x = Last(path) /\ l = Len(s)
                             /\ met = {i \in DOMAIN path : h.key[path[i]] >= k}
  OBVIOUS
<1>2. GetLeast(h, k) = IF met = {} THEN NoKey ELSE h.key[path[Max(met)]]
  BY <1>1 DEF GetLeast, LastMet
<1>3. above = {i \in 1..l : s[i] >= k}
  BY <1>1, EmptyTree
<1>4. CASE Top(h) = Nil
  <2>1. path = << >>
    BY <1>1, <1>4, FoundIs DEF Ranking
  <2>2. met = {}
    BY <1>1, <2>1
  <2>3. above = {}
    BY <1>1, <1>3, <1>4, EmptyTree
  <2> QED
    BY <1>2, <2>2, <2>3
<1>5. CASE Top(h) # Nil
  <2>1. Searched(h, D, k, path, x)
    BY <1>1, <1>5, SearchedIs DEF Ranking
  <2>2. Sought(h, D, k, path, x)
    BY <2>1 DEF Searched
  <2>3. PICK p, y : p = P[x] /\ y = h.key[x] /\ Parted(s, l, k, p, y)
    BY <1>1, <2>2, SearchParts
  <2>4. /\ p \in 1..l /\ l \in Nat /\ k \in Nat /\ y \in Nat /\ s[p] = y
    BY <2>3 DEF Parted
  <2>5. PICK n : n = Len(path) /\ n \in Nat \ {0} /\ path[n] = x /\ DOMAIN path = 1..n
    BY <2>1, <2>2 DEF Searched, Sought
  <2>6. met \in SUBSET (1..n)
    BY <1>1, <2>5
  <2>7. CASE k <= y
    <3>1. n \in met
      BY <1>1, <2>3, <2>4, <2>5, <2>7
    <3>2. Max(met) = n
      BY <2>5, <2>6, <3>1, MetLast
    <3>3. above # {} /\ s[Min(above)] = y
      BY <1>3, <2>3, <2>7, MinAbove
    <3> QED
      BY <1>2, <2>3, <2>5, <3>1, <3>2, <3>3
  <2>8. CASE y < k
    <3>1. ASSUME NEW i \in 1..n PROVE i \in met <=> P[x] < P[path[i]]
      <4>1. path[i] \in In(h) /\ h.key[path[i]] \in Nat /\ P[path[i]] \in Int
        <5>1. path[i] \in In(h)
          BY <2>2, <2>5 DEF Sought
        <5>2. h.key[path[i]] \in Nat
          BY <5>1, KeyAssumption DEF Ranking, Sorted
        <5> QED
          BY <5>1, <5>2, PlacesMatch DEF Ranking, Matched
      <4>2. Divided(h, P, k, x)
        BY <2>2, <2>3, <2>4, <2>8, SearchDivides
      <4>3. i \in met <=> h.key[path[i]] >= k
        BY <1>1, <2>5
      <4>4. CASE path[i] = x
        BY <2>3, <2>4, <2>8, <4>3, <4>4
      <4>5. CASE path[i] # x
        BY <2>3, <2>4, <4>1, <4>2, <4>3, <4>5 DEF Divided
      <4> QED
        BY <4>4, <4>5
    <3>2. CASE p = l
      <4>1. ASSUME NEW i \in met PROVE FALSE
        <5>1. i \in 1..n /\ path[i] \in In(h)
          BY <2>2, <2>5, <2>6 DEF Sought
        <5>2. P[path[i]] \in 1..l /\ P[x] < P[path[i]]
          BY <1>1, <3>1, <5>1, PlacesMatch DEF Ranking, Matched
        <5> QED
          BY <2>3, <2>4, <3>2, <5>2
      <4>2. met = {}
        BY <4>1
      <4>3. above = {}
        BY <1>3, <2>3, <2>8, <3>2, MinAbove
      <4> QED
        BY <1>2, <4>2, <4>3
    <3>3. CASE p # l
      <4>1. above # {} /\ Min(above) = p + 1
        BY <1>3, <2>3, <2>8, <3>3, MinAbove
      <4>2. p + 1 \in 1..l
        BY <2>4, <3>3
      <4>3. PICK m \in In(h) : m = A[p + 1] /\ P[m] = p + 1 /\ h.key[m] = s[p + 1]
        BY <1>1, <4>2, PlacesMatch DEF Ranking, Matched
      <4>4. h.kid[x][1] = Nil
        <5>1. SearchSide(h, x, k) = 1 /\ k # y
          BY <2>3, <2>4, <2>8 DEF SearchSide
        <5> QED
          BY <2>2, <2>3, <5>1 DEF Sought
      <4>5. PICK Q : Q = [q \in In(h) |-> 0 - P[q]] /\ Oriented(h, D, Q, 1, -1) /\ Wired(h) /\ Below(h, D)
        BY PlacesOriented DEF Ranking
      <4>6. /\ \A q \in In(h) : Q[q] = 0 - P[q] /\ P[q] \in Int
            /\ x \in In(h) /\ \A i \in 1..n : path[i] \in In(h)
        BY <2>2, <2>5, <4>5, PlacesMatch DEF Ranking, Matched, Sought
      <4>7. Q[m] + 1 = Q[x]
        BY <2>3, <2>4, <4>3, <4>6
      <4>8. MetBefore(Q, path, x, met)
        <5>1. \A i \in 1..n : Q[path[i]] < Q[x] <=> P[x] < P[path[i]]
          BY <4>6
        <5> QED
          BY <2>5, <2>6, <3>1, <5>1 DEF MetBefore
      <4>9. met # {} /\ path[Max(met)] = m
        <5>1. PICK a, b : a = 1 /\ b = -1
          OBVIOUS
        <5>2. Oriented(h, D, Q, a, b) /\ h.kid[x][a] = Nil
          BY <4>4, <4>5, <5>1
        <5> QED
          BY <2>1, <4>3, <4>5, <4>7, <4>8, <5>2, NearestMet
      <4> QED
        BY <1>2, <4>1, <4>3, <4>9, ZenonT(30)
    <3> QED
      BY <3>2, <3>3
  <2> QED
    BY <2>4, <2>7, <2>8
<1> QED
  BY <1>4, <1>5

(* The index of a node and the sequence of keys say the same: the          *)
(* searches by index, by key and by nearest key, and the index ranges.     *)
THEOREM QueriesAreRight ==
    ASSUME RanksKept
    PROVE  Spec => []QueriesAgree
<1>1. IInv => QueriesAgree
  <2>1. SUFFICES ASSUME IInv PROVE QueriesAgree
    OBVIOUS
  <2>2. PICK D, H : Certified(heap, D, H, RanksKept)
    BY <2>1 DEF IInv, Tree
  <2>3. Wired(heap) /\ Below(heap, D) /\ Sorted(heap, D) /\ Ranked(heap, D) /\ heap.key[Root] = NoKey
    BY <2>2 DEF Certified
  <2>4. PICK s, P, A : s = InOrder(heap) /\ Ranking(heap, D, P, A, s)
    BY <2>3, RankingExists
  <2>5. DOMAIN s = 1..Len(s) /\ length = Len(s)
    <3>1. Len(s) = Cardinality(In(heap))
      BY <2>4 DEF Ranking, Placing
    <3> QED
      BY <2>1, <2>4, <3>1, EmptyTree DEF IInv
  <2>6. ASSUME NEW i \in 0..MaxLength
        PROVE  GetByIndex(heap, i) = IF i < Len(s) THEN s[i + 1] ELSE NoKey
    BY <2>4, ByIndexIs
  <2>7. ASSUME NEW k \in Key, NEW below, NEW above,
               below = {i \in DOMAIN s : s[i] <= k}, above = {i \in DOMAIN s : s[i] >= k}
        PROVE  /\ GetByKey(heap, k) = IF below \cap above = {} THEN NoKey ELSE k
               /\ GetMost(heap, k) = IF below = {} THEN NoKey ELSE s[Max(below)]
               /\ GetLeast(heap, k) = IF above = {} THEN NoKey ELSE s[Min(above)]
    <3>1. GetMost(heap, k) = IF below = {} THEN NoKey ELSE s[Max(below)]
      BY <2>4, <2>7, MostIs
    <3>2. GetLeast(heap, k) = IF above = {} THEN NoKey ELSE s[Min(above)]
      BY <2>4, <2>7, LeastIs
    <3>3. GetByKey(heap, k) = IF \E i \in 1..Len(s) : s[i] = k THEN k ELSE NoKey
      BY <2>4, ByKeyIs
    <3>4. ASSUME NEW i \in 1..Len(s) PROVE s[i] \in Nat /\ k \in Nat
      <4>1. s[i] \in Keys
        BY <2>4, <3>4, EmptyTree, ElementOfSeq
      <4>2. Keys \subseteq Nat /\ Key \subseteq Nat
        BY KeyAssumption DEF Keys, NoKey
      <4> QED
        BY <4>1, <4>2
    <3>5. ASSUME NEW i \in 1..Len(s) PROVE s[i] = k <=> i \in below /\ i \in above
      <4>1. i \in below /\ i \in above <=> s[i] <= k /\ s[i] >= k
        BY <2>5, <2>7
      <4> QED
        BY <3>4, <4>1
    <3>6. below \cap above = {} <=> ~ \E i \in 1..Len(s) : s[i] = k
      BY <2>5, <2>7, <3>5
    <3> QED
      BY <3>1, <3>2, <3>3, <3>6
  <2>8. ASSUME NEW high \in 1..length, NEW low \in 0..high
        PROVE  IterateIndexRange(heap, low, high) = Reverse(SubSeq(s, low + 1, high))
    BY <2>4, <2>5, RangeVisits
  <2>9. \A i \in 0..MaxLength :
           GetByIndex(heap, i) = IF i < Len(InOrder(heap)) THEN InOrder(heap)[i + 1] ELSE NoKey
    BY <2>4, <2>6, Zenon
  <2>10. ASSUME NEW k \in Key
         PROVE  LET below == {i \in DOMAIN InOrder(heap) : InOrder(heap)[i] <= k}
                    above == {i \in DOMAIN InOrder(heap) : InOrder(heap)[i] >= k}
                IN  /\ GetByKey(heap, k) = IF below \cap above = {} THEN NoKey ELSE k
                    /\ GetMost(heap, k) = IF below = {} THEN NoKey ELSE InOrder(heap)[Max(below)]
                    /\ GetLeast(heap, k) = IF above = {} THEN NoKey ELSE InOrder(heap)[Min(above)]
    <3>1. PICK below, above : below = {i \in DOMAIN s : s[i] <= k} /\ above = {i \in DOMAIN s : s[i] >= k}
      OBVIOUS
    <3>2. /\ GetByKey(heap, k) = IF below \cap above = {} THEN NoKey ELSE k
          /\ GetMost(heap, k) = IF below = {} THEN NoKey ELSE s[Max(below)]
          /\ GetLeast(heap, k) = IF above = {} THEN NoKey ELSE s[Min(above)]
      BY <2>7, <3>1
    <3>3. s = InOrder(heap)
      BY <2>4
    <3> QED
      BY <3>1, <3>2, <3>3, Zenon
  <2>11. \A high \in 1..length : \A low \in 0..high :
            IterateIndexRange(heap, low, high) = Reverse(SubSeq(InOrder(heap), low + 1, high))
    BY <2>4, <2>8, Zenon
  <2> QED
    BY <2>9, <2>10, <2>11, Zenon DEF QueriesAgree
<1> QED
  BY <1>1, TreeInvariant, PTL

(* avl_get_index_by_key counts its way down: at the end m is the place of  *)
(* the node reached.                                                       *)
LEMMA PositionIs ==
    ASSUME NEW h, NEW D, NEW P, NEW A, NEW s, Ranking(h, D, P, A, s),
           NEW k \in Key, NEW path, NEW x, Searched(h, D, k, path, x)
    PROVE  Position(h, path, k) = P[x]
<1>1. PICK l : /\ l = Len(path) /\ l \in Nat \ {0} /\ DOMAIN path = 1..l /\ path[l] = x
               /\ \A i \in 1..l : path[i] \in In(h)
  BY DEF Searched, Sought
<1>2. \A q \in In(h) : P[q] \in Int /\ h.rank[q] \in Nat
  BY PlacesMatch DEF Ranking, Matched
<1> DEFINE Up(f, i) == (IF k < h.key[path[i - 1]] THEN f[i - 1] - h.rank[path[i - 1]] ELSE f[i - 1])
                          + h.rank[path[i]]
           Eq(f) == f = [i \in DOMAIN path |-> IF i = 1 THEN h.rank[path[1]] ELSE Up(f, i)]
<1>3. P[path[1]] = h.rank[path[1]]
  <2>1. path[1] = Top(h) /\ path[1] \in In(h)
    BY <1>1 DEF Searched
  <2> QED
    BY <2>1, KidsOf DEF Ranking
<1>4. ASSUME NEW i \in 1..l, i # 1
      PROVE  /\ i - 1 \in 1..l
             /\ P[path[i]] = (IF k < h.key[path[i - 1]] THEN P[path[i - 1]] - h.rank[path[i - 1]]
                              ELSE P[path[i - 1]]) + h.rank[path[i]]
  <2>1. i - 1 \in 1..(l - 1) /\ i - 1 \in 1..l /\ (i - 1) + 1 = i
    BY <1>1, <1>4
  <2>2. PICK q : q = path[i - 1] /\ q \in In(h) /\ path[i] = h.kid[q][SearchSide(h, q, k)] /\ path[i] # Nil
    <3>1. path[(i - 1) + 1] = h.kid[path[i - 1]][SearchSide(h, path[i - 1], k)] /\ path[(i - 1) + 1] # Nil
      BY <1>1, <2>1 DEF Searched, Sought
    <3> QED
      BY <1>1, <2>1, <3>1
  <2>3. /\ h.kid[q][-1] # Nil => P[h.kid[q][-1]] = (P[q] - h.rank[q]) + h.rank[h.kid[q][-1]]
        /\ h.kid[q][1] # Nil => P[h.kid[q][1]] = P[q] + h.rank[h.kid[q][1]]
    BY <2>2 DEF Ranking, Stepped
  <2>4. CASE k < h.key[q]
    <3>1. path[i] = h.kid[q][-1]
      BY <2>2, <2>4 DEF SearchSide
    <3> QED
      BY <2>1, <2>2, <2>3, <2>4, <3>1
  <2>5. CASE ~(k < h.key[q])
    <3>1. path[i] = h.kid[q][1]
      BY <2>2, <2>5 DEF SearchSide
    <3> QED
      BY <2>1, <2>2, <2>3, <2>5, <3>1
  <2> QED
    BY <2>4, <2>5
<1>5. \E f : Eq(f)
  <2>1. PICK f : f = [i \in 1..l |-> P[path[i]]]
    OBVIOUS
  <2>2. ASSUME NEW i \in 1..l PROVE f[i] = IF i = 1 THEN h.rank[path[1]] ELSE Up(f, i)
    <3>1. CASE i = 1
      BY <1>3, <2>1, <3>1
    <3>2. CASE i # 1
      <4>1. i - 1 \in 1..l /\ f[i - 1] = P[path[i - 1]] /\ f[i] = P[path[i]]
        BY <1>4, <2>1, <3>2
      <4> QED
        BY <1>4, <3>2, <4>1
    <3> QED
      BY <3>1, <3>2
  <2>3. f = [i \in 1..l |-> IF i = 1 THEN h.rank[path[1]] ELSE Up(f, i)]
    <3> HIDE DEF Up
    <3> QED
      BY <2>1, <2>2
  <2> QED
    BY <1>1, <2>3
<1>6. PICK f : f = CHOOSE g : Eq(g)
  OBVIOUS
<1>7. Eq(f)
  <2> HIDE DEF Eq
  <2> QED
    BY <1>5, <1>6
<1>8. f[1] = h.rank[path[1]] /\ \A i \in 1..l : i # 1 => f[i] = Up(f, i)
  <2>1. 1 \in 1..l
    BY <1>1
  <2> HIDE DEF Up
  <2> QED
    BY <1>1, <1>7, <2>1
<1>9. Position(h, path, k) = f[l]
  <2> DEFINE e == CHOOSE g : Eq(g)
  <2>1. Position(h, path, k) = e[Len(path)]
    BY DEF Position
  <2> HIDE DEF Eq
  <2> QED
    BY <1>1, <1>6, <2>1
<1>10. PICK S : S = {i \in Nat : i + 1 <= l => f[i + 1] = P[path[i + 1]]}
  OBVIOUS
<1>11. 0 \in S
  BY <1>3, <1>8, <1>10
<1>12. ASSUME NEW i \in Nat, i \in S PROVE i + 1 \in S
  <2>1. SUFFICES ASSUME (i + 1) + 1 <= l PROVE f[(i + 1) + 1] = P[path[(i + 1) + 1]]
    BY <1>10
  <2>2. PICK j : j = (i + 1) + 1 /\ j \in 1..l /\ j # 1 /\ j - 1 = i + 1 /\ i + 1 <= l
    BY <1>1, <2>1
  <2>3. f[j - 1] = P[path[j - 1]]
    BY <1>10, <1>12, <2>2
  <2>4. f[j] = Up(f, j)
    BY <1>8, <2>2
  <2>5. f[j] = P[path[j]]
    BY <1>4, <2>2, <2>3, <2>4
  <2> QED
    BY <2>2, <2>5
<1>13. f[l] = P[path[l]]
  <2>1. l - 1 \in Nat /\ (l - 1) + 1 = l /\ l <= l
    BY <1>1
  <2>2. l - 1 \in S
    BY <1>11, <1>12, <2>1, AllNumbers
  <2> QED
    BY <1>10, <2>1, <2>2
<1> QED
  BY <1>1, <1>9, <1>13

(* A set that holds all the numbers up to each of its members.             *)
LEMMA InitialSegment ==
    ASSUME NEW l \in Nat, NEW S \in SUBSET (1..l), \A i \in S : \A j \in 1..i : j \in S
    PROVE  /\ Cardinality(S) \in 0..l
           /\ \A i \in 1..l : i \in S <=> i <= Cardinality(S)
<1>1. CASE S = {}
  <2>1. Cardinality(S) = 0
    BY <1>1, FS_EmptySet
  <2> QED
    BY <1>1, <2>1
<1>2. CASE S # {}
  <2>1. S \in SUBSET (0..l)
    OBVIOUS
  <2>2. Max(S) \in S /\ \A i \in S : Max(S) >= i
    BY <1>2, <2>1, Greatest
  <2>3. PICK t : t = Max(S)
    OBVIOUS
  <2>4. t \in S /\ t \in 1..l /\ \A i \in S : t >= i
    BY <2>2, <2>3
  <2>5. S = 1..t
    <3>1. \A i \in S : i \in 1..t
      BY <2>4
    <3>2. \A i \in 1..t : i \in S
      BY <2>4
    <3> QED
      BY <3>1, <3>2
  <2>6. Cardinality(S) = t
    <3>1. Cardinality(1..t) = t
      BY <2>4, FS_Interval
    <3> QED
      BY <2>5, <3>1
  <2> QED
    BY <2>4, <2>5, <2>6
<1> QED
  BY <1>1, <1>2

(* The keys before k are at the places 1, ..., c, and those up to k at the *)
(* places 1, ..., e.                                                       *)
Split(s, l, k, c, e) ==
    /\ l \in Nat /\ c \in 0..l /\ e \in 0..l /\ c <= e
    /\ \A i \in 1..l : (s[i] < k <=> i <= c) /\ (s[i] = k <=> c < i /\ i <= e) /\ s[i] \in Nat

LEMMA SplitIs ==
    ASSUME NEW h, NEW D, NEW P, NEW A, NEW s, Ranking(h, D, P, A, s), NEW k \in Key,
           NEW lt, NEW le, lt = {i \in DOMAIN s : s[i] < k}, le = {i \in DOMAIN s : s[i] <= k}
    PROVE  Split(s, Len(s), k, Cardinality(lt), Cardinality(le))
<1>1. PICK l \in Nat : l = Len(s) /\ DOMAIN s = 1..l
  BY EmptyTree
<1>2. k \in Nat /\ \A i \in 1..l : s[i] \in Nat
  <2>1. Keys \subseteq Nat /\ Key \subseteq Nat
    BY KeyAssumption DEF Keys, NoKey
  <2>2. \A i \in 1..l : s[i] \in Keys
    BY <1>1, EmptyTree, ElementOfSeq
  <2> QED
    BY <2>1, <2>2
<1>3. \A i, j \in 1..l : i <= j => s[i] <= s[j]
  BY <1>1 DEF Ranking, Placing
<1>4. lt \in SUBSET (1..l) /\ le \in SUBSET (1..l)
  BY <1>1
<1>5. ASSUME NEW i \in lt, NEW j \in 1..i PROVE j \in lt
  <2>1. i \in 1..l /\ j \in 1..l /\ j <= i /\ s[i] < k
    BY <1>1, <1>5
  <2>2. s[j] <= s[i]
    BY <1>3, <2>1
  <2> QED
    BY <1>1, <1>2, <2>1, <2>2
<1>6. ASSUME NEW i \in le, NEW j \in 1..i PROVE j \in le
  <2>1. i \in 1..l /\ j \in 1..l /\ j <= i /\ s[i] <= k
    BY <1>1, <1>6
  <2>2. s[j] <= s[i]
    BY <1>3, <2>1
  <2> QED
    BY <1>1, <1>2, <2>1, <2>2
<1>7. PICK c : c = Cardinality(lt) /\ c \in 0..l /\ \A i \in 1..l : i \in lt <=> i <= c
  BY <1>4, <1>5, InitialSegment
<1>8. PICK e : e = Cardinality(le) /\ e \in 0..l /\ \A i \in 1..l : i \in le <=> i <= e
  BY <1>4, <1>6, InitialSegment
<1>9. \A i \in 1..l : (i \in lt <=> s[i] < k) /\ (i \in le <=> s[i] <= k)
  BY <1>1
<1>10. c <= e
  <2>1. CASE c = 0
    BY <1>8, <2>1
  <2>2. CASE c # 0
    <3>1. c \in 1..l /\ c <= c
      BY <1>7, <2>2
    <3>2. s[c] < k
      BY <1>7, <1>9, <3>1
    <3>3. s[c] <= k
      BY <1>2, <3>1, <3>2
    <3> QED
      BY <1>8, <1>9, <3>1, <3>3
  <2> QED
    BY <2>1, <2>2
<1>11. ASSUME NEW i \in 1..l
       PROVE  (s[i] < k <=> i <= c) /\ (s[i] = k <=> c < i /\ i <= e) /\ s[i] \in Nat
  <2>1. (s[i] < k <=> i <= c) /\ (s[i] <= k <=> i <= e)
    BY <1>7, <1>8, <1>9
  <2>2. s[i] = k <=> s[i] <= k /\ ~(s[i] < k)
    BY <1>2
  <2>3. c < i <=> ~(i <= c)
    BY <1>7
  <2> QED
    BY <1>2, <2>1, <2>2, <2>3
<1> QED
  BY <1>1, <1>7, <1>8, <1>10, <1>11 DEF Split

(* The run of equal keys around x, on the side d.                          *)
LEMMA EqualRunIs ==
    ASSUME NEW h, NEW D, NEW P, NEW A, NEW s, Ranking(h, D, P, A, s), NEW k,
           NEW c, NEW e, Split(s, Len(s), k, c, e),
           NEW x \in In(h), h.key[x] = k, NEW d \in Side
    PROVE  /\ P[x] \in (c + 1)..e
           /\ EqualRun(h, x, k, d) = IF d = 1 THEN e - P[x] ELSE P[x] - (c + 1)
<1>1. PICK l \in Nat : l = Len(s) /\ Matched(h, P, A, s, l)
  BY PlacesMatch DEF Matched, Ranking
<1>2. /\ \A m \in In(h) : P[m] \in 1..l /\ A[P[m]] = m /\ s[P[m]] = h.key[m]
      /\ \A i \in 1..l : A[i] \in In(h) /\ P[A[i]] = i
      /\ l <= MaxLength /\ MaxLength \in Nat
  BY <1>1 DEF Matched
<1>3. /\ c \in 0..l /\ e \in 0..l /\ \A i \in 1..l : s[i] = k <=> c < i /\ i <= e
  BY <1>1 DEF Split
<1>4. In(h) \subseteq Node /\ Nil \notin In(h) /\ (d = 1 \/ d = -1)
  BY KidsOf, Sides DEF Ranking
<1>5. P[x] \in (c + 1)..e
  BY <1>2, <1>3
<1>6. PICK next, path : /\ next = [m \in Node |-> LET q == Neighbour(h, m, d) IN
                                                  IF q # Nil /\ h.key[q] = k THEN q ELSE Nil]
                        /\ path = Follow(x, next) /\ EqualRun(h, x, k, d) = Len(path) - 1
  BY DEF EqualRun
<1>7. ASSUME NEW m \in In(h)
      PROVE  /\ P[m] + d \in (c + 1)..e => /\ next[m] \in In(h) /\ next[m] # Nil
                                           /\ P[next[m]] = P[m] + d
             /\ P[m] + d \notin (c + 1)..e => next[m] = Nil
  <2>1. PICK q, p : q = Neighbour(h, m, d) /\ p = P[m] + d
    OBVIOUS
  <2>2. next[m] = IF q # Nil /\ h.key[q] = k THEN q ELSE Nil
    BY <1>4, <1>6, <2>1
  <2>3. q = IF p \in 1..l THEN A[p] ELSE Nil
    BY <1>1, <2>1, NeighbourIs DEF Ranking
  <2>4. CASE p \in 1..l
    <3>1. q = A[p] /\ q \in In(h) /\ q # Nil /\ P[q] = p /\ h.key[q] = s[p]
      BY <1>2, <1>4, <2>3, <2>4
    <3>2. s[p] = k <=> p \in (c + 1)..e
      BY <1>3, <2>4
    <3> QED
      BY <2>1, <2>2, <3>1, <3>2
  <2>5. CASE p \notin 1..l
    <3>1. p \notin (c + 1)..e
      BY <1>3, <2>5
    <3> QED
      BY <2>1, <2>2, <2>3, <2>5, <3>1
  <2> QED
    BY <2>4, <2>5
<1>8. ASSUME NEW m \in In(h), next[m] # Nil
      PROVE  next[m] \in In(h) /\ P[next[m]] = P[m] + d /\ P[next[m]] \in (c + 1)..e
  BY <1>7, <1>8
<1>9. Path(h, path, x, next) /\ next[Last(path)] = Nil
  <2>1. PICK M, t : t = MaxLength /\ M = [m \in In(h) |-> IF d = 1 THEN (t + 1) - P[m] ELSE P[m]]
    OBVIOUS
  <2>2. ASSUME NEW m \in In(h) PROVE M[m] \in 1..t
    <3>1. M[m] = (IF d = 1 THEN (t + 1) - P[m] ELSE P[m]) /\ P[m] \in 1..l /\ l <= t /\ t \in Nat
      BY <1>2, <2>1
    <3> QED
      BY <1>1, <3>1
  <2>3. ASSUME NEW m \in In(h), next[m] # Nil PROVE next[m] \in In(h) /\ M[next[m]] < M[m]
    <3>1. PICK p, q : p = P[m] /\ q = P[next[m]] /\ next[m] \in In(h) /\ q = p + d /\ p \in Int /\ t \in Nat
      BY <1>2, <1>8, <2>1, <2>3
    <3>2. /\ M[m] = IF d = 1 THEN (t + 1) - p ELSE p
          /\ M[next[m]] = IF d = 1 THEN (t + 1) - q ELSE q
      BY <2>1, <3>1
    <3> QED
      BY <1>4, <3>1, <3>2
  <2>4. Measured(h, next, M)
    <3>1. In(h) \subseteq Node \ {Root} /\ t = MaxLength
      BY <2>1, KidsOf DEF Ranking
    <3> QED
      BY <2>2, <2>3, <3>1 DEF Measured
  <2> QED
    BY <1>6, <2>4, FollowIs
<1>10. PICK W : W = [i \in Nat |-> IF d = 1 THEN P[x] + (i - 1) ELSE P[x] - (i - 1)]
  OBVIOUS
<1>11. PICK p \in Int : p = P[x]
  BY <1>2
<1>12. ASSUME NEW i \in Nat PROVE W[i + 1] = W[i] + d
  <2>1. i + 1 \in Nat
    OBVIOUS
  <2> QED
    BY <1>4, <1>10, <1>11, <2>1
<1>13. PICK S : S = {y \in (Nat \X In(h)) : P[y[2]] = W[y[1]] /\ P[y[2]] \in (c + 1)..e}
  OBVIOUS
<1>14. <<1, x>> \in S
  BY <1>5, <1>10, <1>11, <1>13
<1>15. \A i \in Nat \ {0} : \A m \in In(h) : <<i, m>> \in S /\ next[m] # Nil => <<i + 1, next[m]>> \in S
  <2>1. SUFFICES ASSUME NEW i \in Nat \ {0}, NEW m \in In(h), <<i, m>> \in S, next[m] # Nil
                 PROVE  <<i + 1, next[m]>> \in S
    OBVIOUS
  <2>2. P[m] = W[i] /\ W[i + 1] = W[i] + d
    BY <1>12, <1>13, <2>1
  <2>3. next[m] \in In(h) /\ P[next[m]] = W[i + 1] /\ P[next[m]] \in (c + 1)..e
    BY <1>8, <2>1, <2>2
  <2> QED
    BY <1>13, <2>3
<1>16. \A i \in 1..Len(path) : <<i, path[i]>> \in S
  BY <1>9, <1>14, <1>15, PathStaysAt
<1>17. PICK n \in Nat \ {0} : n = Len(path) /\ path[n] = Last(path) /\ path[n] \in In(h)
  BY <1>9 DEF Path
<1>18. P[path[n]] = W[n] /\ W[n] \in (c + 1)..e
  <2>1. <<n, path[n]>> \in S
    BY <1>16, <1>17
  <2> QED
    BY <1>13, <2>1
<1>19. W[n] + d \notin (c + 1)..e
  BY <1>7, <1>9, <1>17, <1>18
<1>20. CASE d = 1
  <2>1. W[n] = p + (n - 1) /\ n - 1 = e - p
    <3>1. W[n] = p + (n - 1)
      BY <1>10, <1>11, <1>20
    <3>2. W[n] = e
      BY <1>3, <1>18, <1>19, <1>20
    <3> QED
      BY <1>3, <1>11, <1>17, <3>1, <3>2
  <2> QED
    BY <1>5, <1>6, <1>11, <1>17, <1>20, <2>1
<1>21. CASE d = -1
  <2>1. n - 1 = p - (c + 1)
    <3>1. W[n] = p - (n - 1)
      BY <1>10, <1>11, <1>21
    <3>2. W[n] = c + 1
      BY <1>3, <1>18, <1>19, <1>21
    <3> QED
      BY <1>3, <1>11, <1>17, <3>1, <3>2
  <2> QED
    BY <1>5, <1>6, <1>11, <1>17, <1>21, <2>1
<1> QED
  BY <1>4, <1>20, <1>21

(* avl_get_index_by_key gives a node and its index, or else the index      *)
(* before the place where k belongs.                                       *)
Indexed(h, P, k, c, e, n, j) ==
    /\ IndexByKey(h, k) = <<n, j>> /\ j \in Int
    /\ Found(h, k) => n \in In(h) /\ n # Nil /\ h.key[n] = k /\ P[n] = j + 1
    /\ ~Found(h, k) => n = Nil /\ j = c - 1 /\ c = e

LEMMA IndexIs ==
    ASSUME NEW h, NEW D, NEW P, NEW A, NEW s, Ranking(h, D, P, A, s), NEW k \in Key,
           NEW c, NEW e, Split(s, Len(s), k, c, e), Top(h) # Nil
    PROVE  \E n, j : Indexed(h, P, k, c, e, n, j)
<1>1. PICK path, x, l : path = Search(h, k) /\ x = Last(path) /\ l = Len(s)
  OBVIOUS
<1>2. Searched(h, D, k, path, x) /\ Sought(h, D, k, path, x)
  <2>1. Searched(h, D, k, path, x)
    BY <1>1, SearchedIs DEF Ranking
  <2> QED
    BY <2>1 DEF Searched
<1>3. PICK p, y : p = P[x] /\ y = h.key[x] /\ Parted(s, l, k, p, y)
  BY <1>1, <1>2, SearchParts
<1>4. /\ l \in Nat /\ p \in 1..l /\ k \in Nat /\ y \in Nat /\ s[p] = y
      /\ y # k => \A i \in 1..l : (i < p => s[i] < k) /\ (p < i => k < s[i])
  BY <1>3 DEF Parted
<1>5. /\ c \in 0..l /\ e \in 0..l /\ c <= e
      /\ \A i \in 1..l : (s[i] < k <=> i <= c) /\ (s[i] = k <=> c < i /\ i <= e) /\ s[i] \in Nat
  BY <1>1 DEF Split
<1>6. PICK m : m = Position(h, path, k) /\ m = p
  BY <1>2, <1>3, PositionIs
<1>7. IndexByKey(h, k) = CASE k = y -> <<x, m - 1>>
                           [] k < y -> <<Nil, m - 2>>
                           [] k > y -> <<Nil, m - 1>>
  BY <1>1, <1>3, <1>6 DEF IndexByKey
<1>8. Found(h, k) <=> y = k
  <2>1. path # << >>
    BY <1>1, FoundIs DEF Ranking
  <2> QED
    BY <1>1, <1>3, <2>1 DEF Found
<1>9. x \in In(h) /\ x # Nil
  BY <1>2, KidsOf DEF Sought, Ranking
<1>10. CASE y = k
  <2>1. ~(k < y) /\ ~(k > y)
    BY <1>4, <1>10
  <2>2. IndexByKey(h, k) = <<x, p - 1>>
    BY <1>6, <1>7, <1>10, <2>1
  <2>3. p - 1 \in Int /\ p = (p - 1) + 1
    BY <1>4
  <2>4. Indexed(h, P, k, c, e, x, p - 1)
    BY <1>3, <1>8, <1>9, <1>10, <2>2, <2>3 DEF Indexed
  <2> QED
    BY <2>4
<1>11. CASE y # k
  <2>1. c = e
    <3>1. SUFFICES ASSUME c # e PROVE FALSE
      OBVIOUS
    <3>2. e \in 1..l /\ s[e] = k
      BY <1>4, <1>5, <3>1
    <3>3. e < p \/ p < e \/ e = p
      BY <1>4, <3>2
    <3> QED
      BY <1>4, <1>5, <1>11, <3>2, <3>3
  <2>2. CASE k < y
    <3>1. k # y /\ ~(k > y)
      BY <1>4, <2>2
    <3>2. IndexByKey(h, k) = <<Nil, p - 2>>
      BY <1>6, <1>7, <2>2, <3>1
    <3>3. p = c + 1
      <4>1. ~(p <= c)
        BY <1>4, <1>5, <2>2
      <4>2. p # 1 => p - 1 <= c
        <5>1. p # 1 => p - 1 \in 1..l /\ p - 1 < p
          BY <1>4
        <5> QED
          BY <1>4, <1>5, <1>11, <5>1
      <4> QED
        BY <1>4, <1>5, <4>1, <4>2
    <3>4. p - 2 = c - 1 /\ p - 2 \in Int
      BY <1>4, <1>5, <3>3
    <3>5. Indexed(h, P, k, c, e, Nil, p - 2)
      BY <1>8, <1>11, <2>1, <3>2, <3>4 DEF Indexed
    <3> QED
      BY <3>5
  <2>3. CASE k > y
    <3>1. k # y /\ ~(k < y)
      BY <1>4, <2>3
    <3>2. IndexByKey(h, k) = <<Nil, p - 1>>
      BY <1>6, <1>7, <2>3, <3>1
    <3>3. p = c
      <4>1. p <= c
        BY <1>4, <1>5, <2>3
      <4>2. ~(p < c)
        <5>1. SUFFICES ASSUME p < c PROVE FALSE
          OBVIOUS
        <5>2. c \in 1..l /\ c <= c
          BY <1>4, <1>5, <5>1
        <5>3. s[c] < k /\ k < s[c] /\ s[c] \in Nat
          BY <1>4, <1>5, <1>11, <5>1, <5>2
        <5> QED
          BY <1>4, <5>3
      <4> QED
        BY <1>4, <1>5, <4>1, <4>2
    <3>4. p - 1 = c - 1 /\ p - 1 \in Int
      BY <1>4, <1>5, <3>3
    <3>5. Indexed(h, P, k, c, e, Nil, p - 1)
      BY <1>8, <1>11, <2>1, <3>2, <3>4 DEF Indexed
    <3> QED
      BY <3>5
  <2> QED
    BY <1>4, <1>11, <2>2, <2>3
<1> QED
  BY <1>10, <1>11

(* avl_get_span_by_key and avl_get_span_by_two_keys.                       *)
LEMMA SpanIs ==
    ASSUME NEW h, NEW D, NEW P, NEW A, NEW s, Ranking(h, D, P, A, s), NEW k \in Key,
           NEW c, NEW e, Split(s, Len(s), k, c, e), Top(h) # Nil
    PROVE  SpanByKey(h, k) = IF Found(h, k) THEN <<c, e>> ELSE <<c - 1, c - 1>>
<1>1. PICK n, j : Indexed(h, P, k, c, e, n, j)
  BY IndexIs
<1>2. c \in Int /\ e \in Int /\ j \in Int
  BY <1>1 DEF Split, Indexed
<1>3. PICK at : at = IndexByKey(h, k) /\ at[1] = n /\ at[2] = j
  BY <1>1 DEF Indexed
<1>4. SpanByKey(h, k) = IF n = Nil THEN <<j, j>>
                        ELSE <<j - EqualRun(h, n, k, -1), j + EqualRun(h, n, k, 1) + 1>>
  BY <1>3 DEF SpanByKey
<1>5. CASE Found(h, k)
  <2>1. n \in In(h) /\ n # Nil /\ h.key[n] = k /\ P[n] = j + 1
    BY <1>1, <1>5 DEF Indexed
  <2>2. EqualRun(h, n, k, -1) = P[n] - (c + 1) /\ EqualRun(h, n, k, 1) = e - P[n]
    BY <2>1, EqualRunIs, Sides
  <2>3. j - EqualRun(h, n, k, -1) = c /\ j + EqualRun(h, n, k, 1) + 1 = e
    BY <1>2, <2>1, <2>2
  <2> QED
    BY <1>4, <1>5, <2>1, <2>3
<1>6. CASE ~Found(h, k)
  BY <1>1, <1>4, <1>6 DEF Indexed
<1> QED
  BY <1>5, <1>6

LEMMA TwoKeySpanIs ==
    ASSUME NEW h, NEW D, NEW P, NEW A, NEW s, Ranking(h, D, P, A, s), Top(h) # Nil,
           NEW k \in Key, NEW c, NEW e, Split(s, Len(s), k, c, e),
           NEW k2 \in Key, NEW c2, NEW e2, Split(s, Len(s), k2, c2, e2), k <= k2
    PROVE  SpanByTwoKeys(h, k, k2) = <<c, IF Found(h, k2) THEN e2 - 1 ELSE e2>>
<1>1. PICK n, j : Indexed(h, P, k, c, e, n, j)
  BY IndexIs
<1>2. PICK n2, j2 : Indexed(h, P, k2, c2, e2, n2, j2)
  BY IndexIs
<1>3. c \in Int /\ j \in Int /\ c2 \in Int /\ e2 \in Int /\ j2 \in Int
  BY <1>1, <1>2 DEF Split, Indexed
<1>4. PICK lo, hi : /\ lo = IndexByKey(h, k) /\ lo[1] = n /\ lo[2] = j
                    /\ hi = IndexByKey(h, k2) /\ hi[1] = n2 /\ hi[2] = j2
  BY <1>1, <1>2 DEF Indexed
<1>5. ~(k > k2)
  BY KeyAssumption
<1>6. SpanByTwoKeys(h, k, k2) = << IF n = Nil THEN j + 1 ELSE j - EqualRun(h, n, k, -1),
                                   IF n2 = Nil THEN j2 + 1 ELSE j2 + EqualRun(h, n2, k2, 1) >>
  BY <1>4, <1>5 DEF SpanByTwoKeys
<1>7. (IF n = Nil THEN j + 1 ELSE j - EqualRun(h, n, k, -1)) = c
  <2>1. CASE Found(h, k)
    <3>1. n \in In(h) /\ n # Nil /\ h.key[n] = k /\ P[n] = j + 1
      BY <1>1, <2>1 DEF Indexed
    <3>2. EqualRun(h, n, k, -1) = P[n] - (c + 1)
      BY <3>1, EqualRunIs, Sides
    <3> QED
      BY <1>3, <3>1, <3>2
  <2>2. CASE ~Found(h, k)
    <3>1. n = Nil /\ j = c - 1
      BY <1>1, <2>2 DEF Indexed
    <3> QED
      BY <1>3, <3>1
  <2> QED
    BY <2>1, <2>2
<1>8. (IF n2 = Nil THEN j2 + 1 ELSE j2 + EqualRun(h, n2, k2, 1)) = IF Found(h, k2) THEN e2 - 1 ELSE e2
  <2>1. CASE Found(h, k2)
    <3>1. n2 \in In(h) /\ n2 # Nil /\ h.key[n2] = k2 /\ P[n2] = j2 + 1
      BY <1>2, <2>1 DEF Indexed
    <3>2. EqualRun(h, n2, k2, 1) = e2 - P[n2]
      BY <3>1, EqualRunIs, Sides
    <3> QED
      BY <1>3, <2>1, <3>1, <3>2
  <2>2. CASE ~Found(h, k2)
    <3>1. n2 = Nil /\ j2 = c2 - 1 /\ c2 = e2
      BY <1>2, <2>2 DEF Indexed
    <3> QED
      BY <1>3, <2>2, <3>1
  <2> QED
    BY <2>1, <2>2
<1> QED
  BY <1>6, <1>7, <1>8

(* The spans of equal keys and of two keys are those of the sequence of    *)
(* keys: avl_get_index_by_key counts its way down, and the neighbours with *)
(* the same key are the other places of the run.                           *)
THEOREM SpansAreRight ==
    ASSUME RanksKept
    PROVE  Spec => []Spans
<1>1. IInv => Spans
  <2>1. SUFFICES ASSUME IInv, length > 0 PROVE Spans
    BY DEF Spans
  <2>2. PICK D, H : Certified(heap, D, H, RanksKept)
    BY <2>1 DEF IInv, Tree
  <2>3. Wired(heap) /\ Below(heap, D) /\ Sorted(heap, D) /\ Ranked(heap, D) /\ heap.key[Root] = NoKey
    BY <2>2 DEF Certified
  <2> DEFINE s == InOrder(heap)
  <2>4. PICK P, A : Ranking(heap, D, P, A, s)
    BY <2>3, RankingExists
  <2> HIDE DEF s
  <2>5. DOMAIN s = 1..Len(s) /\ Len(s) \in Nat /\ length = Len(s) /\ Top(heap) # Nil
    <3>1. Len(s) = Cardinality(In(heap)) /\ length = Cardinality(In(heap))
      BY <2>1, <2>4 DEF Ranking, Placing, IInv
    <3>2. Len(s) # 0 /\ DOMAIN s = 1..Len(s) /\ Len(s) \in Nat
      BY <2>1, <2>4, <3>1, EmptyTree
    <3> QED
      BY <2>4, <3>1, <3>2, EmptyTree
  <2> DEFINE Lt(k) == Cardinality({i \in DOMAIN s : s[i] < k})
             Le(k) == Cardinality({i \in DOMAIN s : s[i] <= k})
  <2>6. ASSUME NEW k \in Key PROVE Split(s, Len(s), k, Lt(k), Le(k))
    BY <2>4, SplitIs
  <2>7. ASSUME NEW k \in Key, NEW one, one = SpanByKey(heap, k)
        PROVE  {i \in 0..(length - 1) : s[i + 1] = k} = one[1]..(one[2] - 1)
    <3>1. PICK c, e, l : c = Lt(k) /\ e = Le(k) /\ l = Len(s)
      OBVIOUS
    <3> HIDE DEF Lt, Le
    <3>2. Split(s, l, k, c, e)
      BY <2>6, <3>1
    <3>3. one = IF Found(heap, k) THEN <<c, e>> ELSE <<c - 1, c - 1>>
      BY <2>4, <2>5, <2>7, <3>1, <3>2, SpanIs
    <3>4. Found(heap, k) <=> \E i \in 1..l : s[i] = k
      BY <2>4, <3>1, ByKeyIs
    <3>5. /\ l \in Nat /\ c \in 0..l /\ e \in 0..l /\ c <= e /\ length = l
          /\ \A i \in 1..l : s[i] = k <=> c < i /\ i <= e
      BY <2>5, <3>1, <3>2 DEF Split
    <3>6. \A i \in 0..(l - 1) : i + 1 \in 1..l /\ (s[i + 1] = k <=> c <= i /\ i < e)
      BY <3>5
    <3>7. CASE Found(heap, k)
      <4>1. one[1] = c /\ one[2] = e
        BY <3>3, <3>7
      <4>2. {i \in 0..(l - 1) : s[i + 1] = k} = c..(e - 1)
        BY <3>5, <3>6
      <4> QED
        BY <3>5, <4>1, <4>2
    <3>8. CASE ~Found(heap, k)
      <4>1. one[1] = c - 1 /\ one[2] = c - 1
        BY <3>3, <3>8
      <4>2. {i \in 0..(l - 1) : s[i + 1] = k} = {}
        BY <3>4, <3>6, <3>8
      <4>3. (c - 1)..((c - 1) - 1) = {}
        BY <3>5
      <4> QED
        BY <3>5, <4>1, <4>2, <4>3
    <3> QED
      BY <3>7, <3>8
  <2>8. ASSUME NEW k \in Key, NEW k2 \in Key, k <= k2
        PROVE  SpanByTwoKeys(heap, k, k2) = <<Lt(k), IF Found(heap, k2) THEN Le(k2) - 1 ELSE Le(k2)>>
    <3> HIDE DEF Lt, Le
    <3>1. Split(s, Len(s), k, Lt(k), Le(k)) /\ Split(s, Len(s), k2, Lt(k2), Le(k2))
      BY <2>6
    <3> QED
      BY <2>4, <2>5, <2>8, <3>1, TwoKeySpanIs
  <2>9. ASSUME NEW k1 \in Key
        PROVE  /\ {i \in 0..(length - 1) : s[i + 1] = k1} = SpanByKey(heap, k1)[1]..(SpanByKey(heap, k1)[2] - 1)
               /\ \A k2 \in Key : k1 <= k2 =>
                     SpanByTwoKeys(heap, k1, k2) =
                        <<Lt(k1), IF Found(heap, k2) THEN Le(k2) - 1 ELSE Le(k2)>>
    <3> HIDE DEF Lt, Le
    <3>1. {i \in 0..(length - 1) : s[i + 1] = k1} = SpanByKey(heap, k1)[1]..(SpanByKey(heap, k1)[2] - 1)
      BY <2>7, Zenon
    <3>2. \A k2 \in Key : k1 <= k2 =>
             SpanByTwoKeys(heap, k1, k2) = <<Lt(k1), IF Found(heap, k2) THEN Le(k2) - 1 ELSE Le(k2)>>
      BY <2>8, Zenon
    <3> QED
      BY <3>1, <3>2
  <2> QED
    BY <2>9 DEF s, Spans
<1> QED
  BY <1>1, TreeInvariant, PTL
=============================================================================
