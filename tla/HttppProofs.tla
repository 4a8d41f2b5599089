---------------------------- MODULE HttppProofs ----------------------------
(***************************************************************************)
(* Proofs about Httpp, for every set of requests, responses, bodies,       *)
(* defaults, settings and parameters.  The first part is about UrlQuery:   *)
(* its functions return NULL or a string, and a sequence of keys with      *)
(* their values, for every string.                                         *)
(*                                                                         *)
(* The trees are bags in which each record occurs once: Tree(D), for a     *)
(* finite set D of records with different names.                           *)
(*                                                                         *)
(* The last part follows a form through UrlEncode, parse_query and         *)
(* url_unescape into the parameters.                                       *)
(***************************************************************************)
EXTENDS Httpp, LoopTheorems, FiniteSetTheorems, SequenceTheorems

-----------------------------------------------------------------------------
(* A string or NULL.                                                       *)
Maybe == {{}} \cup {{v} : v \in Seq(Nat)}

LEMMA CStringIs ==
    ASSUME NEW s \in Seq(Nat)
    PROVE  CString(s) \in Seq(Nat)
<1> DEFINE nuls == {i \in DOMAIN s : s[i] = Nul}
<1>1. DOMAIN s = 1..Len(s) /\ Len(s) \in Nat
  BY LenProperties
<1>2. CASE nuls = {}
  BY <1>2 DEF CString
<1>3. CASE nuls # {}
  <2>1. Min(nuls) \in 1..Len(s)
    <3>1. nuls \in SUBSET Nat
      BY <1>1
    <3>2. Min(nuls) \in nuls
      BY <1>3, <3>1, Least
    <3> QED
      BY <1>1, <3>2
  <2>2. CString(s) = SubSeq(s, 1, Min(nuls) - 1)
    BY <1>3 DEF CString
  <2>3. 1 \in 1..(Len(s) + 1) /\ Min(nuls) - 1 \in 0..Len(s)
    BY <1>1, <2>1
  <2> HIDE DEF nuls
  <2> QED
    BY <1>1, <2>2, <2>3, SubSeqProperties
<1> QED
  BY <1>2, <1>3

(* Hex digits have values; others have none.                               *)
LEMMA HexIs ==
    ASSUME NEW c \in Nat, Hex(c) # -1
    PROVE  Hex(c) \in Nat
BY DEF Hex, Digits

(* One character, or the code of one, in front of a string or NULL.        *)
LEMMA InFront ==
    ASSUME NEW c \in Nat, NEW m \in Maybe
    PROVE  {<<c>> \o r : r \in m} \in Maybe
<1>1. CASE m = {}
  <2>1. {<<c>> \o r : r \in m} = {}
    BY <1>1
  <2> QED
    BY <2>1 DEF Maybe
<1>2. CASE \E v \in Seq(Nat) : m = {v}
  <2>1. PICK v \in Seq(Nat) : m = {v}
    BY <1>2
  <2>2. {<<c>> \o r : r \in m} = {<<c>> \o v}
    BY <2>1
  <2>3. <<c>> \o v \in Seq(Nat)
    OBVIOUS
  <2> QED
    BY <2>2, <2>3 DEF Maybe
<1> QED
  BY <1>1, <1>2 DEF Maybe

(* What is made of a string from i on depends on what is made of it        *)
(* further on.                                                             *)
LEMMA UnescapeSame ==
    ASSUME NEW s \in Seq(Nat), NEW i \in Nat, NEW f, NEW g,
           \A j \in (i + 1)..(Len(s) + 1) : f[j] = g[j]
    PROVE  UnescapeFrom(s, i, f) = UnescapeFrom(s, i, g)
<1>1. Len(s) \in Nat
  BY LenProperties
<1>2. i <= Len(s) => f[i + 1] = g[i + 1]
  BY <1>1
<1>3. i + 2 <= Len(s) => f[i + 3] = g[i + 3]
  BY <1>1
<1>4. CASE i <= Len(s)
  <2>1. {<<s[i]>> \o r : r \in f[i + 1]} = {<<s[i]>> \o r : r \in g[i + 1]}
    BY <1>2, <1>4
  <2>2. {<<Space>> \o r : r \in f[i + 1]} = {<<Space>> \o r : r \in g[i + 1]}
    BY <1>2, <1>4
  <2>3. i + 2 <= Len(s) => {<<16 * Hex(s[i + 1]) + Hex(s[i + 2])>> \o r : r \in f[i + 3]}
                             = {<<16 * Hex(s[i + 1]) + Hex(s[i + 2])>> \o r : r \in g[i + 3]}
    BY <1>3
  <2> QED
    BY <1>1, <1>4, <2>1, <2>2, <2>3 DEF UnescapeFrom
<1>5. CASE ~(i <= Len(s))
  <2>1. i > Len(s)
    BY <1>1, <1>5
  <2> QED
    BY <1>5, <2>1 DEF UnescapeFrom
<1> QED
  BY <1>4, <1>5

LEMMA UnescapeIs ==
    ASSUME NEW s \in Seq(Nat), NEW i \in Nat \ {0}, NEW f,
           \A j \in (i + 1)..(Len(s) + 1) : f[j] \in Maybe
    PROVE  UnescapeFrom(s, i, f) \in Maybe
<1>1. Len(s) \in Nat /\ \A j \in 1..Len(s) : s[j] \in Nat
  BY LenProperties, ElementOfSeq
<1>2. {<< >>} \in Maybe /\ {} \in Maybe
  <2>1. << >> \in Seq(Nat)
    OBVIOUS
  <2> QED
    BY <2>1 DEF Maybe
<1>3. CASE i <= Len(s)
  <2>1. s[i] \in Nat /\ f[i + 1] \in Maybe
    BY <1>1, <1>3
  <2>2. {<<s[i]>> \o r : r \in f[i + 1]} \in Maybe /\ {<<Space>> \o r : r \in f[i + 1]} \in Maybe
    <3>1. Space \in Nat
      BY DEF Space
    <3> QED
      BY <2>1, <3>1, InFront
  <2>3. ASSUME i + 2 <= Len(s), Hex(s[i + 1]) # -1, Hex(s[i + 2]) # -1
        PROVE  {<<16 * Hex(s[i + 1]) + Hex(s[i + 2])>> \o r : r \in f[i + 3]} \in Maybe
    <3>1. s[i + 1] \in Nat /\ s[i + 2] \in Nat /\ f[i + 3] \in Maybe
      BY <1>1, <2>3
    <3>2. Hex(s[i + 1]) \in Nat /\ Hex(s[i + 2]) \in Nat
      BY <2>3, <3>1, HexIs
    <3>3. 16 * Hex(s[i + 1]) + Hex(s[i + 2]) \in Nat
      BY <3>2
    <3> QED
      BY <3>1, <3>3, InFront
  <2> QED
    BY <1>1, <1>2, <1>3, <2>2, <2>3 DEF UnescapeFrom
<1>4. CASE ~(i <= Len(s))
  <2>1. i > Len(s)
    BY <1>1, <1>4
  <2> QED
    BY <1>2, <1>4, <2>1 DEF UnescapeFrom
<1> QED
  BY <1>3, <1>4

(* There is a function from that satisfies its definition in url_unescape, *)
(* by induction from the end of the string.                                *)
LEMMA UnescapeLoop ==
    ASSUME NEW s \in Seq(Nat)
    PROVE  \E from : /\ UrlUnescape(s) = from[1]
                     /\ \A i \in 1..(Len(s) + 1) : from[i] = UnescapeFrom(s, i, from)
<1>1. PICK l \in Nat : l = Len(s)
  BY LenProperties
<1> DEFINE Is(g, a) == \A i \in a..(l + 1) : g[i] = UnescapeFrom(s, i, g)
           I == {k \in Nat : k <= l + 1 => \E g : Is(g, l + 2 - k)}
<1>2. 0 \in I
  OBVIOUS
<1>3. ASSUME NEW k \in Nat, k \in I PROVE k + 1 \in I
  <2>1. SUFFICES ASSUME k + 1 <= l + 1 PROVE \E g : Is(g, l + 2 - (k + 1))
    OBVIOUS
  <2>2. PICK g : Is(g, l + 2 - k)
    BY <1>3, <2>1
  <2>3. PICK a \in Nat : a = l + 2 - (k + 1) /\ a + 1 = l + 2 - k /\ a <= l + 1
    BY <2>1
  <2>4. PICK h : h = [i \in a..(l + 1) |-> IF i = a THEN UnescapeFrom(s, a, g) ELSE g[i]]
    OBVIOUS
  <2>5. ASSUME NEW i \in a..(l + 1)
        PROVE  h[i] = UnescapeFrom(s, i, h)
    <3>1. \A j \in (i + 1)..(l + 1) : j \in a..(l + 1) /\ j # a
      BY <2>3, <2>5
    <3>2. \A j \in (i + 1)..(Len(s) + 1) : h[j] = g[j]
      BY <1>1, <2>4, <3>1
    <3>3. i \in Nat
      BY <2>3
    <3>4. UnescapeFrom(s, i, h) = UnescapeFrom(s, i, g)
      BY <3>2, <3>3, UnescapeSame
    <3>5. CASE i = a
      BY <2>4, <3>4, <3>5
    <3>6. CASE i # a
      <4>1. i \in (l + 2 - k)..(l + 1)
        BY <2>3, <3>6
      <4>2. h[i] = g[i]
        BY <2>4, <3>6
      <4> QED
        BY <2>2, <3>4, <4>1, <4>2
    <3> QED
      BY <3>5, <3>6
  <2> QED
    BY <2>3, <2>5
<1>4. PICK g : Is(g, 1)
  <2>1. l + 1 \in I
    <3> HIDE DEF I
    <3> QED
      BY <1>2, <1>3, AllNumbers
  <2>2. l + 1 <= l + 1 /\ l + 2 - (l + 1) = 1
    OBVIOUS
  <2> QED
    BY <2>1, <2>2
<1> DEFINE Eq(f) == f = [i \in 1..(Len(s) + 1) |-> UnescapeFrom(s, i, f)]
<1>5. \E f : Eq(f)
  <2>1. PICK f : f = [i \in 1..(l + 1) |-> g[i]]
    OBVIOUS
  <2>2. ASSUME NEW i \in 1..(l + 1) PROVE f[i] = UnescapeFrom(s, i, f)
    <3>1. \A j \in (i + 1)..(Len(s) + 1) : j \in 1..(l + 1)
      BY <1>1
    <3>2. UnescapeFrom(s, i, f) = UnescapeFrom(s, i, g)
      <4>1. \A j \in (i + 1)..(Len(s) + 1) : f[j] = g[j]
        BY <2>1, <3>1
      <4>2. i \in Nat
        OBVIOUS
      <4> QED
        BY <4>1, <4>2, UnescapeSame
    <3> QED
      BY <1>4, <2>1, <3>2
  <2> QED
    BY <1>1, <2>1, <2>2
<1>6. PICK from : from = CHOOSE f : Eq(f)
  OBVIOUS
<1>7. Eq(from)
  <2> HIDE DEF Eq
  <2> QED
    BY <1>5, <1>6
<1>8. UrlUnescape(s) = from[1]
  BY <1>6 DEF UrlUnescape
<1>9. \A i \in 1..(Len(s) + 1) : from[i] = UnescapeFrom(s, i, from)
  BY <1>7
<1> QED
  BY <1>8, <1>9

(* url_unescape returns a string or NULL.                                  *)
LEMMA UrlUnescapeIs ==
    ASSUME NEW s \in Seq(Nat)
    PROVE  UrlUnescape(s) \in Maybe
<1>1. PICK l \in Nat : l = Len(s)
  BY LenProperties
<1>7. PICK from : /\ UrlUnescape(s) = from[1]
                  /\ \A i \in 1..(Len(s) + 1) : from[i] = UnescapeFrom(s, i, from)
  BY UnescapeLoop
<1> DEFINE J == {k \in Nat : \A i \in 1..(l + 1) : i + k >= l + 2 => from[i] \in Maybe}
<1>9. 0 \in J
  OBVIOUS
<1>10. ASSUME NEW k \in Nat, k \in J PROVE k + 1 \in J
  <2>1. SUFFICES ASSUME NEW i \in 1..(l + 1), i + (k + 1) >= l + 2 PROVE from[i] \in Maybe
    OBVIOUS
  <2>2. \A j \in (i + 1)..(l + 1) : j \in 1..(l + 1) /\ j + k >= l + 2
    BY <2>1
  <2>3. \A j \in (i + 1)..(Len(s) + 1) : from[j] \in Maybe
    BY <1>1, <1>10, <2>2
  <2>4. from[i] = UnescapeFrom(s, i, from)
    BY <1>1, <1>7
  <2>5. i \in Nat \ {0}
    OBVIOUS
  <2> QED
    BY <2>3, <2>4, <2>5, UnescapeIs
<1>11. l + 1 \in J
  <2> HIDE DEF J
  <2> QED
    BY <1>9, <1>10, AllNumbers
<1>12. 1 \in 1..(l + 1) /\ 1 + (l + 1) >= l + 2
  OBVIOUS
<1> QED
  BY <1>7, <1>11, <1>12

(* A key with its value, and what parse_query has found so far.            *)
Elements == Seq(Nat) \X Maybe
Found(s) == [start : 1..(Len(s) + 1), mid : 0..Len(s), out : Seq(Elements)]

LEMMA PartIs ==
    ASSUME NEW s \in Seq(Nat), NEW a \in Nat \ {0}, NEW b \in Nat, b <= Len(s)
    PROVE  SubSeq(s, a, b) \in Seq(Nat)
<1>1. \A i \in a..b : s[i] \in Nat
  BY LenProperties, ElementOfSeq
<1>2. a \in Int /\ b \in Int
  OBVIOUS
<1> QED
  BY <1>1, <1>2, SubSeqProperties

(* A string without what strcmp does not see of it, or NULL.               *)
LEMMA MaybeCString ==
    ASSUME NEW m \in Maybe
    PROVE  {CString(v) : v \in m} \in Maybe
<1>1. CASE m = {}
  <2>1. {CString(v) : v \in m} = {}
    BY <1>1
  <2> QED
    BY <2>1 DEF Maybe
<1>2. CASE \E v \in Seq(Nat) : m = {v}
  <2>1. PICK v \in Seq(Nat) : m = {v}
    BY <1>2
  <2>2. {CString(x) : x \in m} = {CString(v)}
    BY <2>1
  <2> QED
    BY <2>2, CStringIs DEF Maybe
<1> QED
  BY <1>1, <1>2 DEF Maybe

LEMMA QueryElementIs ==
    ASSUME NEW s \in Seq(Nat), NEW start \in 1..(Len(s) + 1), NEW mid \in 0..Len(s),
           NEW end \in 1..(Len(s) + 1)
    PROVE  QueryElement(s, start, mid, end) \in Seq(Elements)
<1>1. Len(s) \in Nat
  BY LenProperties
<1>2. CASE start >= end \/ mid = 0 \/ mid = start \/ mid + 1 = end
  <2>1. << >> \in Seq(Elements)
    OBVIOUS
  <2> QED
    BY <1>2, <2>1 DEF QueryElement
<1>3. CASE ~(start >= end \/ mid = 0 \/ mid = start \/ mid + 1 = end)
  <2>1. SubSeq(s, start, mid - 1) \in Seq(Nat)
    <3>1. start \in Nat \ {0} /\ mid - 1 \in Nat /\ mid - 1 <= Len(s)
      BY <1>1, <1>3
    <3> QED
      BY <3>1, PartIs
  <2>2. SubSeq(s, mid + 1, end - 1) \in Seq(Nat)
    <3>1. mid + 1 \in Nat \ {0} /\ end - 1 \in Nat /\ end - 1 <= Len(s)
      BY <1>1, <1>3
    <3> QED
      BY <3>1, PartIs
  <2>3. PICK k, m : /\ k = CString(SubSeq(s, start, mid - 1))
                    /\ m = {CString(v) : v \in UrlUnescape(SubSeq(s, mid + 1, end - 1))}
    OBVIOUS
  <2>4. k \in Seq(Nat) /\ m \in Maybe
    BY <2>1, <2>2, <2>3, CStringIs, UrlUnescapeIs, MaybeCString
  <2>5. QueryElement(s, start, mid, end) = << <<k, m>> >>
    BY <1>3, <2>3 DEF QueryElement
  <2>6. <<k, m>> \in Elements
    BY <2>4 DEF Elements
  <2> QED
    BY <2>5, <2>6
<1> QED
  BY <1>2, <1>3

LEMMA QueryStepIs ==
    ASSUME NEW s \in Seq(Nat), NEW i \in 1..Len(s), NEW p \in Found(s)
    PROVE  QueryStep(s, i, p) \in Found(s)
<1>1. Len(s) \in Nat
  BY LenProperties
<1>2. CASE s[i] = Amp
  <2>1. PICK q : q = QueryElement(s, p.start, p.mid, i)
    OBVIOUS
  <2>2. q \in Seq(Elements)
    <3>1. p.start \in 1..(Len(s) + 1) /\ p.mid \in 0..Len(s) /\ i \in 1..(Len(s) + 1)
      BY <1>1 DEF Found
    <3> QED
      BY <2>1, <3>1, QueryElementIs
  <2>3. p.out \in Seq(Elements)
    BY DEF Found
  <2>4. p.out \o q \in Seq(Elements)
    BY <2>2, <2>3
  <2>5. i + 1 \in 1..(Len(s) + 1) /\ 0 \in 0..Len(s)
    BY <1>1
  <2>6. QueryStep(s, i, p) = [start |-> i + 1, mid |-> 0, out |-> p.out \o q]
    BY <1>2, <2>1 DEF QueryStep, Amp, Equals
  <2> QED
    BY <2>4, <2>5, <2>6 DEF Found
<1>3. CASE s[i] = Equals
  <2>1. QueryStep(s, i, p) = [p EXCEPT !.mid = i]
    BY <1>3 DEF QueryStep, Amp, Equals
  <2>2. i \in 0..Len(s)
    BY <1>1
  <2> QED
    BY <2>1, <2>2 DEF Found
<1>4. CASE s[i] # Amp /\ s[i] # Equals
  <2>1. QueryStep(s, i, p) = p
    BY <1>4 DEF QueryStep
  <2> QED
    BY <2>1
<1> QED
  BY <1>2, <1>3, <1>4

(* What parse_query has found after each character.                        *)
QueryLoop(s, after) ==
    /\ after[0] = [start |-> 1, mid |-> 0, out |-> << >>]
    /\ \A i \in 1..Len(s) : after[i] = QueryStep(s, i, after[i - 1])
    /\ after[Len(s)] \in Found(s)

LEMMA ParseQueryLoop ==
    ASSUME NEW s \in Seq(Nat)
    PROVE  \E after :
              /\ QueryLoop(s, after)
              /\ ParseQuery(s) =
                    IF s = << >> \/ s[1] = Nul THEN << >>
                    ELSE after[Len(s)].out \o QueryElement(s, after[Len(s)].start, after[Len(s)].mid, Len(s) + 1)
<1>1. PICK l \in Nat : l = Len(s)
  BY LenProperties
<1>2. PICK p0 : p0 = [start |-> 1, mid |-> 0, out |-> << >>]
  OBVIOUS
<1>3. p0 \in Found(s)
  <2>1. 1 \in 1..(Len(s) + 1) /\ 0 \in 0..Len(s) /\ << >> \in Seq(Elements)
    BY <1>1
  <2> QED
    BY <1>2, <2>1 DEF Found
<1> DEFINE Eq(f) == f = [i \in 0..Len(s) |->
                           IF i = 0 THEN [start |-> 1, mid |-> 0, out |-> << >>]
                           ELSE QueryStep(s, i, f[i - 1])]
<1>4. \E f : Eq(f)
  <2>1. PICK T, F : T = Found(s) /\ F = [i \in 1..l |-> [p \in T |-> QueryStep(s, i, p)]]
    OBVIOUS
  <2>2. p0 \in T /\ F \in [1..l -> [T -> T]]
    BY <1>1, <1>3, <2>1, QueryStepIs
  <2>3. PICK g : IsLoop(g, l, T, p0, F)
    BY <2>2, LoopExists
  <2>4. \A i \in 0..l : i # 0 => i \in 1..l /\ i - 1 \in 0..l
    OBVIOUS
  <2>5. \A i \in 0..l : i # 0 => F[i][g[i - 1]] = QueryStep(s, i, g[i - 1])
    BY <2>1, <2>3, <2>4 DEF IsLoop
  <2>6. \A i \in 0..l : g[i] = IF i = 0 THEN p0 ELSE QueryStep(s, i, g[i - 1])
    BY <2>3, <2>4, <2>5 DEF IsLoop
  <2> QED
    BY <1>1, <1>2, <2>3, <2>6 DEF IsLoop
<1>5. PICK after : after = CHOOSE f : Eq(f)
  OBVIOUS
<1>6. Eq(after)
  <2> HIDE DEF Eq
  <2> QED
    BY <1>4, <1>5
<1>7. after[l] \in Found(s)
  <2>1. after[0] \in Found(s)
    BY <1>1, <1>2, <1>3, <1>6
  <2>2. ASSUME NEW i \in 1..l, after[i - 1] \in Found(s) PROVE after[i] \in Found(s)
    <3>1. after[i] = QueryStep(s, i, after[i - 1])
      <4>1. i \in 0..Len(s) /\ i # 0
        BY <1>1
      <4> QED
        BY <1>6, <4>1
    <3> QED
      BY <1>1, <2>2, <3>1, QueryStepIs
  <2> HIDE DEF Eq
  <2>3. \A i \in 0..l : after[i] \in Found(s)
    BY <2>1, <2>2, LoopStays
  <2> QED
    BY <2>3
<1>12. ParseQuery(s) =
         IF s = << >> \/ s[1] = Nul THEN << >>
         ELSE after[Len(s)].out \o QueryElement(s, after[Len(s)].start, after[Len(s)].mid, Len(s) + 1)
  <2> DEFINE c == CHOOSE f : Eq(f)
  <2>1. ParseQuery(s) = IF s = << >> \/ s[1] = Nul THEN << >>
                        ELSE c[Len(s)].out \o QueryElement(s, c[Len(s)].start, c[Len(s)].mid, Len(s) + 1)
    BY DEF ParseQuery
  <2> HIDE DEF Eq
  <2> QED
    BY <1>5, <2>1
<1>13. after[0] = [start |-> 1, mid |-> 0, out |-> << >>]
  BY <1>1, <1>6
<1>14. ASSUME NEW i \in 1..Len(s) PROVE after[i] = QueryStep(s, i, after[i - 1])
  <2>1. i \in 0..Len(s) /\ i # 0
    BY <1>1
  <2> QED
    BY <1>6, <2>1
<1> QED
  BY <1>1, <1>7, <1>12, <1>13, <1>14 DEF QueryLoop

(* parse_query finds keys and values.                                      *)
LEMMA ParseQueryIs ==
    ASSUME NEW s \in Seq(Nat)
    PROVE  ParseQuery(s) \in Seq(Elements)
<1>1. PICK l \in Nat : l = Len(s)
  BY LenProperties
<1>6. PICK after :
        /\ QueryLoop(s, after)
        /\ ParseQuery(s) =
              IF s = << >> \/ s[1] = Nul THEN << >>
              ELSE after[Len(s)].out \o QueryElement(s, after[Len(s)].start, after[Len(s)].mid, Len(s) + 1)
  BY ParseQueryLoop
<1>7. after[l] \in Found(s)
  BY <1>1, <1>6 DEF QueryLoop
<1>8. PICK q : q = QueryElement(s, after[l].start, after[l].mid, l + 1)
  OBVIOUS
<1>9. q \in Seq(Elements)
  <2>1. /\ after[l].start \in 1..(Len(s) + 1) /\ after[l].mid \in 0..Len(s)
        /\ l + 1 \in 1..(Len(s) + 1)
    BY <1>1, <1>7 DEF Found
  <2> QED
    BY <1>8, <2>1, QueryElementIs
<1>10. after[l].out \o q \in Seq(Elements) /\ << >> \in Seq(Elements)
  <2>1. after[l].out \in Seq(Elements)
    BY <1>7 DEF Found
  <2> QED
    BY <1>9, <2>1
<1>11. ParseQuery(s) = IF s = << >> \/ s[1] = Nul THEN << >> ELSE after[l].out \o q
  BY <1>1, <1>6, <1>8
<1> QED
  BY <1>10, <1>11

-----------------------------------------------------------------------------

Tree(D) == [v \in D |-> 1]
Different(D) == \A v, w \in D : v.name = w.name => v = w
HasBlocks(D) == \A v \in D : Blocks(v) \in Nat
Named(D, name) == {v \in D : v.name = name}

LEMMA TreeSet ==
    ASSUME NEW D
    PROVE  BagToSet(Tree(D)) = D
BY DEF BagToSet, Tree

LEMMA EmptyTree == EmptyBag = Tree({})
BY DEF EmptyBag, SetToBag, Tree

LEMMA TreeAdd ==
    ASSUME NEW D, NEW v, v \notin D
    PROVE  AvlInsert(Tree(D), v) = Tree(D \cup {v})
BY DEF AvlInsert, (+), SetToBag, Tree

LEMMA TreeRemove ==
    ASSUME NEW D, NEW v \in D
    PROVE  AvlRemove(Tree(D), v) = Tree(D \ {v})
BY DEF AvlRemove, (-), SetToBag, Tree

LEMMA FindIs ==
    ASSUME NEW D, NEW name
    PROVE  AvlFind(Tree(D), name) = Named(D, name)
BY TreeSet DEF AvlFind, Named

(* At most one record has a name, and the search finds it.                 *)
LEMMA FindOne ==
    ASSUME NEW D, Different(D), NEW v \in D
    PROVE  /\ AvlFind(Tree(D), v.name) = {v}
           /\ (CHOOSE w \in AvlFind(Tree(D), v.name) : TRUE) = v
<1>1. AvlFind(Tree(D), v.name) = {v}
  BY FindIs DEF Named, Different
<1>2. (CHOOSE w \in {v} : TRUE) = v
  OBVIOUS
<1> QED
  BY <1>1, <1>2

LEMMA DeleteIs ==
    ASSUME NEW D, Different(D), NEW name
    PROVE  AvlDelete(Tree(D), name) = Tree(D \ Named(D, name))
<1>1. CASE Named(D, name) = {}
  <2>1. D \ Named(D, name) = D
    BY <1>1
  <2> QED
    BY <1>1, <2>1, FindIs DEF AvlDelete
<1>2. CASE Named(D, name) # {}
  <2>1. PICK v \in D : v.name = name
    BY <1>2 DEF Named
  <2>2. AvlFind(Tree(D), name) = {v} /\ (CHOOSE w \in AvlFind(Tree(D), name) : TRUE) = v
    BY <2>1, FindOne
  <2>3. AvlDelete(Tree(D), name) = AvlRemove(Tree(D), v)
    BY <2>2 DEF AvlDelete
  <2>4. Named(D, name) = {v}
    BY <2>2, FindIs
  <2> QED
    BY <2>3, <2>4, TreeRemove
<1> QED
  BY <1>1, <1>2

-----------------------------------------------------------------------------
(* The blocks of one record, and of all of a tree.                         *)
BlocksOf(v) == {v} \X (1..1) \X (1..Blocks(v))
AllBlocks(D) == UNION {BlocksOf(v) : v \in D}

LEMMA BlocksOfCount ==
    ASSUME NEW v, Blocks(v) \in Nat
    PROVE  IsFiniteSet(BlocksOf(v)) /\ Cardinality(BlocksOf(v)) = Blocks(v)
<1>1. PICK n \in Nat : n = Blocks(v)
  OBVIOUS
<1>2. PICK f : f = [i \in 1..n |-> <<v, 1, i>>]
  OBVIOUS
<1>3. BlocksOf(v) = {<<v, 1, i>> : i \in 1..n}
  <2>1. \A x \in BlocksOf(v) : \E i \in 1..n : x = <<v, 1, i>>
    BY <1>1 DEF BlocksOf
  <2>2. \A i \in 1..n : <<v, 1, i>> \in BlocksOf(v)
    BY <1>1 DEF BlocksOf
  <2> QED
    BY <2>1, <2>2
<1>4. f \in Bijection(1..n, BlocksOf(v))
  BY <1>2, <1>3 DEF Bijection, Injection, Surjection, IsInjective
<1>5. IsFiniteSet(1..n) /\ Cardinality(1..n) = n
  <2>1. 1 \in Int /\ n \in Int
    OBVIOUS
  <2>2. IsFiniteSet(1..n) /\ Cardinality(1..n) = IF 1 > n THEN 0 ELSE n - 1 + 1
    BY <2>1, FS_Interval
  <2> QED
    BY <2>2
<1> QED
  BY <1>1, <1>4, <1>5, FS_Bijection DEF ExistsBijection

LEMMA TreeBlocksIs ==
    ASSUME NEW D
    PROVE  TreeBlocks(Tree(D)) = Cardinality(AllBlocks(D))
<1>1. BagToSet(Tree(D)) = D
  BY TreeSet
<1>2. \A v \in D : Tree(D)[v] = 1
  BY DEF Tree
<1>3. \A v \in D : {v} \X (1..Tree(D)[v]) \X (1..Blocks(v)) = BlocksOf(v)
  BY <1>2 DEF BlocksOf
<1>4. {{v} \X (1..Tree(D)[v]) \X (1..Blocks(v)) : v \in D} = {BlocksOf(v) : v \in D}
  BY <1>3
<1> QED
  BY <1>1, <1>4 DEF TreeBlocks, AllBlocks

LEMMA AllBlocksFinite ==
    ASSUME NEW D, IsFiniteSet(D), HasBlocks(D)
    PROVE  IsFiniteSet(AllBlocks(D)) /\ TreeBlocks(Tree(D)) \in Nat
<1>1. PICK S, f : S = {BlocksOf(v) : v \in D} /\ f = [v \in D |-> BlocksOf(v)]
  OBVIOUS
<1>2. f \in Surjection(D, S)
  BY <1>1 DEF Surjection
<1>3. IsFiniteSet(S)
  BY <1>2, FS_Surjection
<1>4. \A T \in S : IsFiniteSet(T)
  BY <1>1, BlocksOfCount DEF HasBlocks
<1>5. IsFiniteSet(UNION S)
  BY <1>3, <1>4, FS_UNION
<1> QED
  BY <1>1, <1>5, FS_CardinalityType, TreeBlocksIs DEF AllBlocks

(* A record more has its blocks more.                                      *)
LEMMA TreeBlocksAdd ==
    ASSUME NEW D, IsFiniteSet(D), HasBlocks(D), NEW v, v \notin D, Blocks(v) \in Nat
    PROVE  TreeBlocks(Tree(D \cup {v})) = TreeBlocks(Tree(D)) + Blocks(v)
<1>1. AllBlocks(D \cup {v}) = AllBlocks(D) \cup BlocksOf(v)
  BY DEF AllBlocks
<1>2. AllBlocks(D) \cap BlocksOf(v) = {}
  <2>1. \A b \in AllBlocks(D) : b[1] \in D
    BY DEF AllBlocks, BlocksOf
  <2>2. \A b \in BlocksOf(v) : b[1] = v
    BY DEF BlocksOf
  <2> QED
    BY <2>1, <2>2
<1>3. IsFiniteSet(AllBlocks(D)) /\ IsFiniteSet(BlocksOf(v))
  BY AllBlocksFinite, BlocksOfCount
<1>4. Cardinality(AllBlocks(D) \cup BlocksOf(v))
        = Cardinality(AllBlocks(D)) + Cardinality(BlocksOf(v))
             - Cardinality(AllBlocks(D) \cap BlocksOf(v))
  BY <1>3, FS_Union
<1>5. Cardinality(AllBlocks(D) \cap BlocksOf(v)) = 0
  BY <1>2, FS_EmptySet
<1>6. Cardinality(AllBlocks(D)) \in Nat /\ Cardinality(BlocksOf(v)) = Blocks(v)
  BY <1>3, FS_CardinalityType, BlocksOfCount
<1>7. Cardinality(AllBlocks(D) \cup BlocksOf(v)) = Cardinality(AllBlocks(D)) + Blocks(v)
  BY <1>4, <1>5, <1>6
<1> QED
  BY <1>1, <1>7, TreeBlocksIs

LEMMA TreeBlocksNone == TreeBlocks(Tree({})) = 0
<1>1. AllBlocks({}) = {}
  BY DEF AllBlocks
<1> QED
  BY <1>1, TreeBlocksIs, FS_EmptySet

(* A record less has its blocks less.                                      *)
LEMMA TreeBlocksRemove ==
    ASSUME NEW D, IsFiniteSet(D), HasBlocks(D), NEW v \in D
    PROVE  TreeBlocks(Tree(D \ {v})) = TreeBlocks(Tree(D)) - Blocks(v)
<1>1. PICK E : E = D \ {v}
  OBVIOUS
<1>2. D = E \cup {v} /\ v \notin E /\ HasBlocks(E) /\ Blocks(v) \in Nat
  BY <1>1 DEF HasBlocks
<1>3. IsFiniteSet(E)
  BY <1>1, FS_RemoveElement
<1>4. TreeBlocks(Tree(D)) = TreeBlocks(Tree(E)) + Blocks(v)
  BY <1>2, <1>3, TreeBlocksAdd
<1>5. TreeBlocks(Tree(E)) \in Nat
  BY <1>2, <1>3, AllBlocksFinite
<1> QED
  BY <1>1, <1>2, <1>4, <1>5

-----------------------------------------------------------------------------
(* What the trees hold: variables with one value, parameters with some.    *)
ReqTypes == Methods \cup {"none", "unknown"}
Word == STRING \cup ReqTypes \cup InternalNames \cup {NULL, "NONE", "?"}
Var == [name : Word, value : {<<x>> : x \in Word \ {NULL}}]
Param == [name : Text, value : Seq(Text) \ {<< >>}]

Contents(V) == {D \in SUBSET V : IsFiniteSet(D) /\ Different(D)}
TreesOf(V) == {Tree(D) : D \in Contents(V)}

(* The parser's states, and those in which no block is unaccounted for.    *)
States == [refc : 0..MaxRefs, req_type : ReqTypes, uri : Word,
           vars : TreesOf(Var), queryvars : TreesOf(Param), postvars : TreesOf(Param),
           heap : Int, lost : [uri : Nat, key : Nat]]
Good == {s \in States : Accounted(s)}

LEMMA VarBlocks ==
    ASSUME NEW v \in Var
    PROVE  Blocks(v) = 4 /\ v.value[1] \in Word \ {NULL} /\ v.value = <<v.value[1]>>
<1>1. PICK x \in Word \ {NULL} : v.value = <<x>>
  BY DEF Var
<1>2. Len(v.value) = 1 /\ v.value[1] = x
  BY <1>1
<1> QED
  BY <1>1, <1>2 DEF Blocks

LEMMA ParamBlocks ==
    ASSUME NEW v \in Param
    PROVE  Blocks(v) = 3 + Len(v.value) /\ Blocks(v) \in Nat /\ Len(v.value) \in Nat \ {0}
<1>1. v.value \in Seq(Text) /\ v.value # << >>
  BY DEF Param
<1>2. Len(v.value) \in Nat /\ Len(v.value) # 0
  BY <1>1, EmptySeq, LenProperties
<1> QED
  BY <1>2 DEF Blocks

LEMMA ContentsHaveBlocks ==
    ASSUME NEW D, D \in Contents(Var) \/ D \in Contents(Param)
    PROVE  IsFiniteSet(D) /\ Different(D) /\ HasBlocks(D) /\ TreeBlocks(Tree(D)) \in Nat
<1>1. IsFiniteSet(D) /\ Different(D)
  BY DEF Contents
<1>2. HasBlocks(D)
  <2>1. CASE D \in Contents(Var)
    <3>1. D \subseteq Var
      BY <2>1 DEF Contents
    <3> QED
      BY <3>1, VarBlocks DEF HasBlocks
  <2>2. CASE D \in Contents(Param)
    <3>1. D \subseteq Param
      BY <2>2 DEF Contents
    <3> QED
      BY <3>1, ParamBlocks DEF HasBlocks
  <2> QED
    BY <2>1, <2>2
<1> QED
  BY <1>1, <1>2, AllBlocksFinite

(* Taking the record of a name out of a tree, and putting one in.          *)
LEMMA ContentsWithout ==
    ASSUME NEW V, NEW D \in Contents(V), NEW name
    PROVE  /\ D \ Named(D, name) \in Contents(V)
           /\ \A v \in D \ Named(D, name) : v.name # name
<1>1. IsFiniteSet(D \ Named(D, name))
  BY FS_Difference DEF Contents
<1> QED
  BY <1>1 DEF Contents, Different, Named

LEMMA ContentsWith ==
    ASSUME NEW V, NEW D \in Contents(V), NEW v \in V, \A w \in D : w.name # v.name
    PROVE  D \cup {v} \in Contents(V) /\ v \notin D
<1>1. IsFiniteSet(D \cup {v})
  BY FS_AddElement DEF Contents
<1>2. Different(D \cup {v})
  BY DEF Contents, Different
<1> QED
  BY <1>1, <1>2 DEF Contents

-----------------------------------------------------------------------------
(* The fields of a state, and the sums its heap is made of.                *)
LEMMA GoodFields ==
    ASSUME NEW s \in Good
    PROVE  /\ s.refc \in 0..MaxRefs /\ s.req_type \in ReqTypes /\ s.uri \in Word
           /\ s.heap \in Int /\ s.lost.uri \in Nat /\ s.lost.key \in Nat
           /\ \E D \in Contents(Var) : s.vars = Tree(D)
           /\ \E D \in Contents(Param) : s.queryvars = Tree(D)
           /\ \E D \in Contents(Param) : s.postvars = Tree(D)
           /\ TreeBlocks(s.vars) \in Nat /\ TreeBlocks(s.queryvars) \in Nat
           /\ TreeBlocks(s.postvars) \in Nat
<1>1. s \in States
  BY DEF Good
<1>2. /\ s.refc \in 0..MaxRefs /\ s.req_type \in ReqTypes /\ s.uri \in Word
      /\ s.heap \in Int /\ s.lost \in [uri : Nat, key : Nat]
      /\ s.vars \in TreesOf(Var) /\ s.queryvars \in TreesOf(Param) /\ s.postvars \in TreesOf(Param)
  BY <1>1 DEF States
<1>3. PICK D \in Contents(Var) : s.vars = Tree(D)
  BY <1>2 DEF TreesOf
<1>4. PICK Q \in Contents(Param) : s.queryvars = Tree(Q)
  BY <1>2 DEF TreesOf
<1>5. PICK P \in Contents(Param) : s.postvars = Tree(P)
  BY <1>2 DEF TreesOf
<1>6. TreeBlocks(Tree(D)) \in Nat /\ TreeBlocks(Tree(Q)) \in Nat /\ TreeBlocks(Tree(P)) \in Nat
  BY ContentsHaveBlocks
<1> QED
  BY <1>2, <1>3, <1>4, <1>5, <1>6

(* What two states may differ in: the variables, or one of the trees of    *)
(* parameters, and the heap.                                               *)
SameBut(s, r, f) ==
    /\ r.refc = s.refc /\ r.req_type = s.req_type /\ r.uri = s.uri /\ r.lost.uri = s.lost.uri
    /\ f # "vars" => r.vars = s.vars
    /\ f # "queryvars" => r.queryvars = s.queryvars
    /\ f # "postvars" => r.postvars = s.postvars

(* E in place of D in the tree of variables.                               *)
WithVars(s, D, E) == [s EXCEPT !.vars = Tree(E),
                               !.heap = s.heap + (TreeBlocks(Tree(E)) - TreeBlocks(Tree(D)))]

LEMMA VarsChange ==
    ASSUME NEW s \in Good, NEW D \in Contents(Var), s.vars = Tree(D), NEW E \in Contents(Var),
           NEW r, r = WithVars(s, D, E)
    PROVE  r \in Good /\ SameBut(s, r, "vars") /\ r.vars = Tree(E)
<1>1. s \in States /\ Accounted(s)
  BY DEF Good
<1>2. PICK h : h = s.heap + (TreeBlocks(Tree(E)) - TreeBlocks(Tree(D)))
  OBVIOUS
<1>3. TreeBlocks(Tree(D)) \in Nat /\ TreeBlocks(Tree(E)) \in Nat
  BY ContentsHaveBlocks
<1>4. h \in Int
  BY <1>2, <1>3, GoodFields
<1>5. r = [s EXCEPT !.vars = Tree(E), !.heap = h]
  BY <1>2 DEF WithVars
<1>6. Tree(E) \in TreesOf(Var)
  BY DEF TreesOf
<1>7. r \in States
  BY <1>1, <1>4, <1>5, <1>6 DEF States
<1>8. /\ r.vars = Tree(E) /\ r.heap = h /\ r.queryvars = s.queryvars /\ r.postvars = s.postvars
      /\ r.refc = s.refc /\ r.req_type = s.req_type /\ r.uri = s.uri /\ r.lost = s.lost
  BY <1>1, <1>5 DEF States
<1>9. Accounted(r)
  <2>1. PICK u \in Nat : u = IF s.uri = NULL THEN 0 ELSE 1
    OBVIOUS
  <2>2. s.heap = TreeBlocks(Tree(D)) + TreeBlocks(s.queryvars) + TreeBlocks(s.postvars)
                   + u + s.lost.uri + s.lost.key
    BY <1>1, <2>1 DEF Accounted
  <2>3. h = TreeBlocks(Tree(E)) + TreeBlocks(s.queryvars) + TreeBlocks(s.postvars)
              + u + s.lost.uri + s.lost.key
    BY <1>2, <1>3, <2>2, GoodFields
  <2> QED
    BY <1>8, <2>1, <2>3 DEF Accounted
<1> QED
  BY <1>7, <1>8, <1>9 DEF Good, SameBut

-----------------------------------------------------------------------------
LEMMA GetVarIs ==
    ASSUME NEW s, NEW D \in Contents(Var), s.vars = Tree(D), NEW name
    PROVE  /\ Named(D, name) = {} => GetVar(s, name) = NULL
           /\ \A v \in D : v.name = name => GetVar(s, name) = v.value[1]
<1>1. Different(D)
  BY DEF Contents
<1>2. ASSUME Named(D, name) = {} PROVE GetVar(s, name) = NULL
  BY <1>2, FindIs DEF GetVar
<1>3. ASSUME NEW v \in D, v.name = name PROVE GetVar(s, name) = v.value[1]
  <2>1. AvlFind(s.vars, name) = {v} /\ (CHOOSE w \in AvlFind(s.vars, name) : TRUE) = v
    BY <1>1, <1>3, FindOne
  <2> QED
    BY <2>1 DEF GetVar
<1> QED
  BY <1>2, <1>3

(* httpp_setvar gives the name the value, unless it is NULL, and all other *)
(* names keep theirs.                                                      *)
VarSet(s, r, name, value) ==
    /\ r \in Good /\ SameBut(s, r, "vars")
    /\ \A n : GetVar(r, n) = IF n = name /\ value # NULL THEN value ELSE GetVar(s, n)

(* The variables without those of a name, with another one or without.     *)
LEMMA GetVarOthers ==
    ASSUME NEW s, NEW r, NEW name, NEW D \in Contents(Var), s.vars = Tree(D),
           NEW E \in Contents(Var), r.vars = Tree(E),
           \A v \in Var : v.name # name => (v \in D <=> v \in E)
    PROVE  \A n : n # name => GetVar(r, n) = GetVar(s, n)
<1>1. SUFFICES ASSUME NEW n, n # name PROVE GetVar(r, n) = GetVar(s, n)
  OBVIOUS
<1>2. D \subseteq Var /\ E \subseteq Var
  BY DEF Contents
<1>3. CASE Named(D, n) = {}
  <2>1. Named(E, n) = {}
    BY <1>1, <1>2, <1>3 DEF Named
  <2> QED
    BY <1>3, <2>1, GetVarIs
<1>4. CASE Named(D, n) # {}
  <2>1. PICK v \in D : v.name = n
    BY <1>4 DEF Named
  <2>2. v \in E
    BY <1>1, <1>2, <2>1
  <2>3. GetVar(s, n) = v.value[1]
    BY <2>1, GetVarIs
  <2>4. GetVar(r, n) = v.value[1]
    BY <2>1, <2>2, GetVarIs
  <2> QED
    BY <2>3, <2>4
<1> QED
  BY <1>3, <1>4

(* What a tree without the name, and one with a new record, weighs.        *)
LEMMA WithoutBlocks ==
    ASSUME NEW D \in Contents(Var), NEW name
    PROVE  TreeBlocks(Tree(D \ Named(D, name)))
             = TreeBlocks(Tree(D)) - (IF Named(D, name) = {} THEN 0 ELSE 4)
<1>1. IsFiniteSet(D) /\ Different(D) /\ HasBlocks(D) /\ TreeBlocks(Tree(D)) \in Nat
  BY ContentsHaveBlocks
<1>2. CASE Named(D, name) = {}
  <2>1. D \ Named(D, name) = D
    BY <1>2
  <2> QED
    BY <1>1, <1>2, <2>1
<1>3. CASE Named(D, name) # {}
  <2>1. PICK v \in D : v.name = name
    BY <1>3 DEF Named
  <2>2. Named(D, name) = {v}
    BY <1>1, <2>1 DEF Named, Different
  <2>3. TreeBlocks(Tree(D \ {v})) = TreeBlocks(Tree(D)) - Blocks(v)
    BY <1>1, TreeBlocksRemove
  <2>4. Blocks(v) = 4
    BY VarBlocks DEF Contents
  <2> QED
    BY <1>3, <2>2, <2>3, <2>4
<1> QED
  BY <1>2, <1>3

LEMMA SetVarIs ==
    ASSUME NEW s \in Good, NEW name \in Word, NEW value \in Word
    PROVE  VarSet(s, SetVar(s, name, value), name, value)
<1>1. CASE value = NULL
  <2>1. SetVar(s, name, value) = s
    BY <1>1 DEF SetVar
  <2> QED
    BY <1>1, <2>1 DEF VarSet, SameBut
<1>2. CASE value # NULL
  <2>1. PICK D \in Contents(Var) : s.vars = Tree(D)
    BY GoodFields
  <2>2. PICK new, F, E : /\ new = [name |-> name, value |-> <<value>>]
                         /\ F = D \ Named(D, name) /\ E = F \cup {new}
    OBVIOUS
  <2>3. new \in Var /\ new.name = name /\ new.value[1] = value /\ Blocks(new) = 4
    <3>1. new \in Var /\ new.name = name /\ new.value = <<value>>
      BY <1>2, <2>2 DEF Var
    <3> QED
      BY <3>1, VarBlocks
  <2>4. F \in Contents(Var) /\ \A v \in F : v.name # name
    BY <2>2, ContentsWithout
  <2>5. E \in Contents(Var) /\ new \notin F
    BY <2>2, <2>3, <2>4, ContentsWith
  <2>6. PICK k \in Nat : k = IF Named(D, name) = {} THEN 0 ELSE 4
    OBVIOUS
  <2>7. TreeBlocks(Tree(E)) - TreeBlocks(Tree(D)) = 4 - k
    <3>1. TreeBlocks(Tree(F)) = TreeBlocks(Tree(D)) - k
      BY <2>2, <2>6, WithoutBlocks
    <3>2. TreeBlocks(Tree(E)) = TreeBlocks(Tree(F)) + 4
      <4>1. IsFiniteSet(F) /\ HasBlocks(F)
        BY <2>4, ContentsHaveBlocks
      <4> QED
        BY <2>2, <2>3, <2>5, <4>1, TreeBlocksAdd
    <3>3. TreeBlocks(Tree(D)) \in Nat
      BY ContentsHaveBlocks
    <3> QED
      BY <3>1, <3>2, <3>3
  <2>8. SetVar(s, name, value) = [s EXCEPT !.vars = Tree(E), !.heap = s.heap + (4 - k)]
    <3>1. s \in States /\ s.heap \in Int
      BY GoodFields DEF Good
    <3>2. AvlInsert(Tree(F), new) = Tree(E)
      BY <2>2, <2>5, TreeAdd
    <3>3. CASE Named(D, name) = {}
      <4>1. GetVar(s, name) = NULL
        BY <2>1, <3>3, GetVarIs
      <4>2. F = D /\ k = 0
        BY <2>2, <2>6, <3>3
      <4>3. SetVar(s, name, value) = [s EXCEPT !.vars = AvlInsert(s.vars, new), !.heap = s.heap + 4]
        BY <1>2, <2>2, <4>1 DEF SetVar
      <4>4. s.heap + 4 = s.heap + (4 - k)
        BY <4>2
      <4> QED
        BY <2>1, <3>2, <4>2, <4>3, <4>4
    <3>4. CASE Named(D, name) # {}
      <4>1. PICK v \in D : v.name = name
        BY <3>4 DEF Named
      <4>2. v \in Var
        BY DEF Contents
      <4>3. GetVar(s, name) # NULL
        BY <2>1, <4>1, <4>2, GetVarIs, VarBlocks
      <4>4. Different(D)
        BY DEF Contents
      <4>5. Blocks(CHOOSE w \in AvlFind(s.vars, name) : TRUE) = 4
        BY <2>1, <4>1, <4>2, <4>4, FindOne, VarBlocks
      <4>6. AvlDelete(s.vars, name) = Tree(F)
        BY <2>1, <2>2, <4>4, DeleteIs
      <4>7. PICK s1 : s1 = [s EXCEPT !.vars = Tree(F), !.heap = s.heap - 4]
        OBVIOUS
      <4>8. s1.vars = Tree(F) /\ s1.heap = s.heap - 4
        BY <3>1, <4>7 DEF States
      <4>9. SetVar(s, name, value) = [s1 EXCEPT !.vars = AvlInsert(s1.vars, new), !.heap = s1.heap + 4]
        <5>1. AvlFind(s.vars, name) # {}
          BY <2>1, <3>4, FindIs
        <5>2. DeleteVar(s, name) = s1
          BY <4>5, <4>6, <4>7, <5>1 DEF DeleteVar
        <5> QED
          BY <1>2, <2>2, <4>3, <5>2 DEF SetVar
      <4>10. SetVar(s, name, value) = [s1 EXCEPT !.vars = Tree(E), !.heap = (s.heap - 4) + 4]
        BY <3>2, <4>8, <4>9
      <4>11. (s.heap - 4) + 4 = s.heap + (4 - k)
        BY <2>6, <3>1, <3>4
      <4> QED
        BY <4>7, <4>10, <4>11
    <3> QED
      BY <3>3, <3>4
  <2>9. PICK r : r = SetVar(s, name, value)
    OBVIOUS
  <2>10. r \in Good /\ SameBut(s, r, "vars") /\ r.vars = Tree(E)
    <3>1. r = WithVars(s, D, E)
      BY <2>7, <2>8, <2>9 DEF WithVars
    <3> QED
      BY <2>1, <2>5, <3>1, VarsChange
  <2>11. GetVar(r, name) = value
    BY <2>2, <2>3, <2>5, <2>10, GetVarIs
  <2>12. \A n : n # name => GetVar(r, n) = GetVar(s, n)
    <3>1. \A v \in Var : v.name # name => (v \in D <=> v \in E)
      BY <2>2, <2>3 DEF Named
    <3> QED
      BY <2>1, <2>5, <2>10, <3>1, GetVarOthers
  <2> QED
    BY <1>2, <2>9, <2>10, <2>11, <2>12 DEF VarSet
<1> QED
  BY <1>1, <1>2

(* httpp_deletevar.                                                        *)
LEMMA DeleteVarIs ==
    ASSUME NEW s \in Good, NEW name \in Word
    PROVE  DeleteVar(s, name) \in Good
<1>1. PICK D \in Contents(Var) : s.vars = Tree(D)
  BY GoodFields
<1>2. PICK E : E = D \ Named(D, name)
  OBVIOUS
<1>3. E \in Contents(Var)
  BY <1>2, ContentsWithout
<1>4. Different(D) /\ AvlDelete(s.vars, name) = Tree(E)
  BY <1>1, <1>2, DeleteIs DEF Contents
<1>5. AvlFind(s.vars, name) = Named(D, name)
  BY <1>1, FindIs
<1>6. s \in States /\ s.heap \in Int /\ TreeBlocks(Tree(D)) \in Nat
  BY GoodFields, ContentsHaveBlocks DEF Good
<1>7. PICK h : h = s.heap + (TreeBlocks(Tree(E)) - TreeBlocks(Tree(D)))
  OBVIOUS
<1>8. TreeBlocks(Tree(E)) = TreeBlocks(Tree(D)) - (IF Named(D, name) = {} THEN 0 ELSE 4)
  BY <1>2, WithoutBlocks
<1>9. h = IF Named(D, name) = {} THEN s.heap ELSE s.heap - 4
  BY <1>6, <1>7, <1>8
<1>10. Named(D, name) # {} => Blocks(CHOOSE v \in AvlFind(s.vars, name) : TRUE) = 4
  <2>1. SUFFICES ASSUME NEW v \in D, v.name = name
                 PROVE  Blocks(CHOOSE w \in AvlFind(s.vars, name) : TRUE) = 4
    BY DEF Named
  <2>2. v \in Var
    BY DEF Contents
  <2> QED
    BY <1>1, <1>4, <2>1, <2>2, FindOne, VarBlocks
<1>11. DeleteVar(s, name) = [s EXCEPT !.vars = Tree(E), !.heap = h]
  BY <1>4, <1>5, <1>9, <1>10 DEF DeleteVar
<1>12. DeleteVar(s, name) = WithVars(s, D, E)
  BY <1>7, <1>11 DEF WithVars
<1> QED
  BY <1>1, <1>3, <1>12, VarsChange

-----------------------------------------------------------------------------
(* The two trees of parameters.                                            *)
ParamTrees == {"queryvars", "postvars"}

WithParams(s, f, D, E) ==
    [s EXCEPT ![f] = Tree(E), !.heap = s.heap + (TreeBlocks(Tree(E)) - TreeBlocks(Tree(D)))]

LEMMA ParamsChange ==
    ASSUME NEW s \in Good, NEW f \in ParamTrees, NEW D \in Contents(Param), s[f] = Tree(D),
           NEW E \in Contents(Param), NEW r, r = WithParams(s, f, D, E)
    PROVE  r \in Good /\ SameBut(s, r, f) /\ r[f] = Tree(E)
<1>1. s \in States /\ Accounted(s)
  BY DEF Good
<1>2. PICK h : h = s.heap + (TreeBlocks(Tree(E)) - TreeBlocks(Tree(D)))
  OBVIOUS
<1>3. TreeBlocks(Tree(D)) \in Nat /\ TreeBlocks(Tree(E)) \in Nat
  BY ContentsHaveBlocks
<1>4. h \in Int
  BY <1>2, <1>3, GoodFields
<1>5. r = [s EXCEPT ![f] = Tree(E), !.heap = h]
  BY <1>2 DEF WithParams
<1>6. Tree(E) \in TreesOf(Param)
  BY DEF TreesOf
<1>7. PICK u \in Nat : u = IF s.uri = NULL THEN 0 ELSE 1
  OBVIOUS
<1>8. s.heap = TreeBlocks(s.vars) + TreeBlocks(s.queryvars) + TreeBlocks(s.postvars)
                 + u + s.lost.uri + s.lost.key
  BY <1>1, <1>7 DEF Accounted
<1>9. CASE f = "queryvars"
  <2>1. r = [s EXCEPT !.queryvars = Tree(E), !.heap = h] /\ s.queryvars = Tree(D)
    BY <1>5, <1>9
  <2>2. r \in States
    BY <1>1, <1>4, <1>6, <2>1 DEF States
  <2>3. /\ r.queryvars = Tree(E) /\ r.heap = h /\ r.vars = s.vars /\ r.postvars = s.postvars
        /\ r.refc = s.refc /\ r.req_type = s.req_type /\ r.uri = s.uri /\ r.lost = s.lost
    BY <1>1, <2>1 DEF States
  <2>4. h = TreeBlocks(s.vars) + TreeBlocks(Tree(E)) + TreeBlocks(s.postvars)
              + u + s.lost.uri + s.lost.key
    BY <1>2, <1>3, <1>8, <2>1, GoodFields
  <2>5. Accounted(r)
    BY <1>7, <2>3, <2>4 DEF Accounted
  <2> QED
    BY <1>9, <2>2, <2>3, <2>5 DEF Good, SameBut
<1>10. CASE f = "postvars"
  <2>1. r = [s EXCEPT !.postvars = Tree(E), !.heap = h] /\ s.postvars = Tree(D)
    BY <1>5, <1>10
  <2>2. r \in States
    BY <1>1, <1>4, <1>6, <2>1 DEF States
  <2>3. /\ r.postvars = Tree(E) /\ r.heap = h /\ r.vars = s.vars /\ r.queryvars = s.queryvars
        /\ r.refc = s.refc /\ r.req_type = s.req_type /\ r.uri = s.uri /\ r.lost = s.lost
    BY <1>1, <2>1 DEF States
  <2>4. h = TreeBlocks(s.vars) + TreeBlocks(s.queryvars) + TreeBlocks(Tree(E))
              + u + s.lost.uri + s.lost.key
    BY <1>2, <1>3, <1>8, <2>1, GoodFields
  <2>5. Accounted(r)
    BY <1>7, <2>3, <2>4 DEF Accounted
  <2> QED
    BY <1>10, <2>2, <2>3, <2>5 DEF Good, SameBut
<1> QED
  BY <1>9, <1>10 DEF ParamTrees

LEMMA ParamTree ==
    ASSUME NEW s \in Good, NEW f \in ParamTrees
    PROVE  \E D \in Contents(Param) : s[f] = Tree(D)
<1>1. CASE f = "queryvars"
  BY <1>1, GoodFields
<1>2. CASE f = "postvars"
  BY <1>2, GoodFields
<1> QED
  BY <1>1, <1>2 DEF ParamTrees

(* The values of a name in a tree of parameters.                           *)
ValuesIn(D, name, vals) ==
    /\ Named(D, name) = {} => vals = << >>
    /\ \A v \in D : v.name = name => vals = v.value
    /\ vals \in Seq(Text)

LEMMA ParamValuesIs ==
    ASSUME NEW s, NEW f, NEW D \in Contents(Param), s[f] = Tree(D), NEW name
    PROVE  ValuesIn(D, name, ParamValues(s, f, name))
<1>1. Different(D) /\ D \subseteq Param
  BY DEF Contents
<1>2. ASSUME Named(D, name) = {} PROVE ParamValues(s, f, name) = << >>
  BY <1>2, FindIs DEF ParamValues
<1>3. ASSUME NEW v \in D, v.name = name
      PROVE  ParamValues(s, f, name) = v.value /\ v.value \in Seq(Text)
  <2>1. AvlFind(s[f], name) = {v} /\ (CHOOSE w \in AvlFind(s[f], name) : TRUE) = v
    BY <1>1, <1>3, FindOne
  <2>2. v.value \in Seq(Text)
    BY <1>1 DEF Param
  <2> QED
    BY <2>1, <2>2 DEF ParamValues
<1>4. ParamValues(s, f, name) \in Seq(Text)
  <2>1. CASE Named(D, name) = {}
    <3>1. << >> \in Seq(Text)
      OBVIOUS
    <3> QED
      BY <1>2, <2>1, <3>1
  <2>2. CASE Named(D, name) # {}
    <3>1. PICK v \in D : v.name = name
      BY <2>2 DEF Named
    <3> QED
      BY <1>3, <3>1
  <2> QED
    BY <2>1, <2>2
<1> QED
  BY <1>2, <1>3, <1>4 DEF ValuesIn

(* The values a begin those of b.                                          *)
Begins(a, b) == Len(a) <= Len(b) /\ \A i \in 1..Len(a) : b[i] = a[i]

LEMMA BeginsItself ==
    ASSUME NEW a \in Seq(Text)
    PROVE  Begins(a, a)
<1>1. Len(a) \in Nat
  BY LenProperties
<1> QED
  BY <1>1 DEF Begins

LEMMA BeginsLonger ==
    ASSUME NEW a \in Seq(Text), NEW b \in Seq(Text), NEW c \in Seq(Text), Begins(a, b), Begins(b, c)
    PROVE  Begins(a, c)
<1>1. Len(a) \in Nat /\ Len(b) \in Nat /\ Len(c) \in Nat
  BY LenProperties
<1>2. \A i \in 1..Len(a) : i \in 1..Len(b)
  BY <1>1 DEF Begins
<1> QED
  BY <1>1, <1>2 DEF Begins

LEMMA BeginsAppend ==
    ASSUME NEW a \in Seq(Text), NEW x \in Text
    PROVE  Begins(a, Append(a, x))
<1>1. Len(a) \in Nat
  BY LenProperties
<1>2. Len(Append(a, x)) = Len(a) + 1 /\ \A i \in 1..Len(a) : Append(a, x)[i] = a[i]
  BY AppendProperties
<1> QED
  BY <1>1, <1>2 DEF Begins

LEMMA BeginsPrefix ==
    ASSUME NEW a \in Seq(Text), NEW b \in Seq(Text), Begins(a, b)
    PROVE  IsPrefix(a, b)
<1>1. Len(a) \in Nat /\ Len(b) \in Nat
  BY LenProperties
<1>2. SubSeq(a, 1, Len(a)) = a
  BY SubSeqFull
<1>3. SubSeq(b, 1, Len(a)) = a
  <2>1. SubSeq(b, 1, Len(a)) = [i \in 1..Len(a) |-> b[i]]
    BY <1>1
  <2>2. a = [i \in 1..Len(a) |-> a[i]]
    OBVIOUS
  <2> QED
    BY <1>1, <2>1, <2>2 DEF Begins
<1> QED
  BY <1>2, <1>3 DEF IsPrefix, Begins

-----------------------------------------------------------------------------
(* _httpp_set_param_nocopy with a value that did not unescape.             *)
LEMMA KeyLost ==
    ASSUME NEW s \in Good, NEW r,
           r = [s EXCEPT !.heap = s.heap + 1, !.lost = [s.lost EXCEPT !.key = s.lost.key + 1]]
    PROVE  /\ r \in Good
           /\ \A f : SameBut(s, r, f)
           /\ \A f \in ParamTrees : r[f] = s[f]
<1>1. s \in States /\ Accounted(s)
  BY DEF Good
<1>2. s.heap \in Int /\ s.lost \in [uri : Nat, key : Nat]
  BY <1>1 DEF States
<1>3. PICK h, l : h = s.heap + 1 /\ l = [s.lost EXCEPT !.key = s.lost.key + 1]
  OBVIOUS
<1>4. h \in Int /\ l \in [uri : Nat, key : Nat] /\ l.uri = s.lost.uri /\ l.key = s.lost.key + 1
  BY <1>2, <1>3
<1>5. r = [s EXCEPT !.heap = h, !.lost = l]
  BY <1>3
<1>6. r \in States
  BY <1>1, <1>4, <1>5 DEF States
<1>7. /\ r.vars = s.vars /\ r.heap = h /\ r.queryvars = s.queryvars /\ r.postvars = s.postvars
      /\ r.refc = s.refc /\ r.req_type = s.req_type /\ r.uri = s.uri /\ r.lost = l
  BY <1>1, <1>5 DEF States
<1>8. Accounted(r)
  <2>1. PICK u \in Nat : u = IF s.uri = NULL THEN 0 ELSE 1
    OBVIOUS
  <2>2. s.heap = TreeBlocks(s.vars) + TreeBlocks(s.queryvars) + TreeBlocks(s.postvars)
                   + u + s.lost.uri + s.lost.key
    BY <1>1, <2>1 DEF Accounted
  <2>3. h = TreeBlocks(s.vars) + TreeBlocks(s.queryvars) + TreeBlocks(s.postvars)
              + u + l.uri + l.key
    BY <1>3, <1>4, <2>2, GoodFields
  <2> QED
    BY <1>7, <2>1, <2>3 DEF Accounted
<1>9. \A f \in ParamTrees : r[f] = s[f]
  BY <1>7 DEF ParamTrees
<1> QED
  BY <1>4, <1>6, <1>7, <1>8, <1>9 DEF Good, SameBut

(* A parameter was set: its tree alone may have changed.  One was added:   *)
(* all values there were are still there.                                  *)
ParamSet(s, r, f) == r \in Good /\ SameBut(s, r, f)
ParamAdded(s, r, f) ==
    ParamSet(s, r, f) /\ \A n \in Text : Begins(ParamValues(s, f, n), ParamValues(r, f, n))

(* D with new in place of the record of its name.                          *)
Replaced(D, new) == (D \ Named(D, new.name)) \cup {new}

LEMMA NewParam ==
    ASSUME NEW D \in Contents(Param), NEW new \in Param, NEW E,
           E = Replaced(D, new)
    PROVE  /\ E \in Contents(Param)
           /\ Named(D, new.name) = {} =>
                 /\ AvlInsert(Tree(D), new) = Tree(E)
                 /\ TreeBlocks(Tree(E)) - TreeBlocks(Tree(D)) = Blocks(new)
           /\ \A old \in D : old.name = new.name =>
                 /\ AvlInsert(AvlRemove(Tree(D), old), new) = Tree(E)
                 /\ TreeBlocks(Tree(E)) - TreeBlocks(Tree(D)) = Blocks(new) - Blocks(old)
<1>1. PICK F : F = D \ Named(D, new.name)
  OBVIOUS
<1>2. F \in Contents(Param) /\ \A v \in F : v.name # new.name
  BY <1>1, ContentsWithout
<1>3. E \in Contents(Param) /\ new \notin F /\ E = F \cup {new}
  BY <1>1, <1>2, ContentsWith DEF Replaced
<1>4. AvlInsert(Tree(F), new) = Tree(E)
  BY <1>3, TreeAdd
<1>5. Blocks(new) \in Nat
  BY ParamBlocks
<1>6. /\ IsFiniteSet(F) /\ HasBlocks(F) /\ TreeBlocks(Tree(F)) \in Nat
      /\ IsFiniteSet(D) /\ Different(D) /\ HasBlocks(D) /\ TreeBlocks(Tree(D)) \in Nat
  BY <1>2, ContentsHaveBlocks
<1>7. TreeBlocks(Tree(E)) = TreeBlocks(Tree(F)) + Blocks(new)
  BY <1>3, <1>5, <1>6, TreeBlocksAdd
<1>8. ASSUME Named(D, new.name) = {}
      PROVE  /\ AvlInsert(Tree(D), new) = Tree(E)
             /\ TreeBlocks(Tree(E)) - TreeBlocks(Tree(D)) = Blocks(new)
  <2>1. F = D
    BY <1>1, <1>8
  <2> QED
    BY <1>4, <1>5, <1>6, <1>7, <2>1
<1>9. ASSUME NEW old \in D, old.name = new.name
      PROVE  /\ AvlInsert(AvlRemove(Tree(D), old), new) = Tree(E)
             /\ TreeBlocks(Tree(E)) - TreeBlocks(Tree(D)) = Blocks(new) - Blocks(old)
  <2>1. F = D \ {old}
    BY <1>1, <1>6, <1>9 DEF Named, Different
  <2>2. AvlRemove(Tree(D), old) = Tree(F)
    BY <2>1, TreeRemove
  <2>3. TreeBlocks(Tree(F)) = TreeBlocks(Tree(D)) - Blocks(old)
    BY <1>6, <2>1, TreeBlocksRemove
  <2>4. Blocks(old) \in Nat
    BY <1>6 DEF HasBlocks
  <2>5. TreeBlocks(Tree(E)) - TreeBlocks(Tree(D)) = Blocks(new) - Blocks(old)
    BY <1>5, <1>6, <1>7, <2>3, <2>4
  <2> QED
    BY <1>4, <2>2, <2>5
<1> QED
  BY <1>3, <1>8, <1>9

(* The values of the other parameters stay; those of the name are now new's. *)
LEMMA ParamValuesChange ==
    ASSUME NEW s, NEW r, NEW f, NEW D \in Contents(Param), s[f] = Tree(D),
           NEW new \in Param, NEW E \in Contents(Param), r[f] = Tree(E),
           E = Replaced(D, new)
    PROVE  /\ ParamValues(r, f, new.name) = new.value
           /\ \A n : n # new.name => ParamValues(r, f, n) = ParamValues(s, f, n)
<1>1. \A n : ValuesIn(D, n, ParamValues(s, f, n))
  BY ParamValuesIs
<1>2. \A n : ValuesIn(E, n, ParamValues(r, f, n))
  BY ParamValuesIs
<1>3. ParamValues(r, f, new.name) = new.value
  <2>1. new \in E
    BY DEF Replaced
  <2> QED
    BY <1>2, <2>1 DEF ValuesIn
<1>4. ASSUME NEW n, n # new.name PROVE ParamValues(r, f, n) = ParamValues(s, f, n)
  <2>1. Named(E, n) = Named(D, n)
    BY <1>4 DEF Named, Replaced
  <2>2. CASE Named(D, n) = {}
    BY <1>1, <1>2, <2>1, <2>2 DEF ValuesIn
  <2>3. CASE Named(D, n) # {}
    <3>1. PICK v : v \in Named(D, n)
      BY <2>3
    <3>2. v \in D /\ v \in E /\ v.name = n
      BY <2>1, <3>1 DEF Named
    <3> QED
      BY <1>1, <1>2, <3>2 DEF ValuesIn
  <2> QED
    BY <2>2, <2>3
<1> QED
  BY <1>3, <1>4

(* _httpp_set_param_nocopy with a value: the tree gets one record, new.    *)
LEMMA ParamStored ==
    ASSUME NEW s \in Good, NEW f \in ParamTrees, NEW D \in Contents(Param), s[f] = Tree(D),
           NEW new \in Param, NEW E, E = Replaced(D, new),
           NEW r, r = WithParams(s, f, D, E),
           Begins(ParamValues(s, f, new.name), new.value)
    PROVE  /\ ParamAdded(s, r, f)
           /\ ParamValues(r, f, new.name) = new.value
           /\ \A n : n # new.name => ParamValues(r, f, n) = ParamValues(s, f, n)
<1>1. E \in Contents(Param)
  BY NewParam
<1>2. r \in Good /\ SameBut(s, r, f) /\ r[f] = Tree(E)
  BY <1>1, ParamsChange
<1>3. /\ ParamValues(r, f, new.name) = new.value
      /\ \A n : n # new.name => ParamValues(r, f, n) = ParamValues(s, f, n)
  BY <1>1, <1>2, ParamValuesChange
<1>4. \A n : ParamValues(s, f, n) \in Seq(Text)
  BY ParamValuesIs DEF ValuesIn
<1>5. \A n : Begins(ParamValues(s, f, n), ParamValues(r, f, n))
  BY <1>3, <1>4, BeginsItself
<1> QED
  BY <1>2, <1>3, <1>5 DEF ParamAdded, ParamSet

(* The same, with other values before.                                     *)
LEMMA ParamReplaced ==
    ASSUME NEW s \in Good, NEW f \in ParamTrees, NEW D \in Contents(Param), s[f] = Tree(D),
           NEW new \in Param, NEW E, E = Replaced(D, new),
           NEW r, r = WithParams(s, f, D, E)
    PROVE  ParamSet(s, r, f)
<1>1. E \in Contents(Param)
  BY NewParam
<1> QED
  BY <1>1, ParamsChange DEF ParamSet

(* A block more for the name and one for each value, which the heap then   *)
(* has; what is stored replaces the tree and the heap.                     *)
Taken(s, c) == [s EXCEPT !.heap = @ + 1 + c]
Stores(s, s1, f) == \A T, h : [s1 EXCEPT ![f] = T, !.heap = h] = [s EXCEPT ![f] = T, !.heap = h]

LEMMA TakenOver ==
    ASSUME NEW s \in Good, NEW f \in ParamTrees, NEW c \in Nat
    PROVE  /\ Taken(s, c)[f] = s[f] /\ Taken(s, c).heap = s.heap + 1 + c
           /\ Stores(s, Taken(s, c), f)
<1>1. s \in States
  BY DEF Good
<1>2. Taken(s, c).heap = s.heap + 1 + c
  BY <1>1 DEF States, Taken
<1>3. CASE f = "queryvars"
  BY <1>1, <1>3 DEF States, Taken, Stores
<1>4. CASE f = "postvars"
  BY <1>1, <1>4 DEF States, Taken, Stores
<1> QED
  BY <1>2, <1>3, <1>4 DEF ParamTrees

(* One more value, for one name.                                           *)
ValueAdded(s, r, f, name, val) ==
    /\ ParamValues(r, f, name) = Append(ParamValues(s, f, name), val)
    /\ \A n : n # name => ParamValues(r, f, n) = ParamValues(s, f, n)

LEMMA SetParamNocopyIs ==
    ASSUME NEW s \in Good, NEW f \in ParamTrees, NEW name \in Text, NEW value \in Maybe,
           NEW replace \in BOOLEAN
    PROVE  /\ ParamSet(s, SetParamNocopy(s, f, name, value, replace), f)
           /\ ~replace => ParamAdded(s, SetParamNocopy(s, f, name, value, replace), f)
           /\ ~replace => \A v \in value : ValueAdded(s, SetParamNocopy(s, f, name, value, replace), f, name, v)
<1>1. PICK r : r = SetParamNocopy(s, f, name, value, replace)
  OBVIOUS
<1>2. PICK D \in Contents(Param) : s[f] = Tree(D)
  BY ParamTree
<1>3. s.heap \in Int /\ Different(D) /\ D \subseteq Param
  BY GoodFields DEF Contents
<1>4. \A n : ValuesIn(D, n, ParamValues(s, f, n))
  BY <1>2, ParamValuesIs
<1>5. PICK c, s1 : c = Cardinality(value) /\ s1 = [s EXCEPT !.heap = @ + 1 + c]
  OBVIOUS
<1>6. CASE value = {}
  <2>1. c = 0
    BY <1>5, <1>6, FS_EmptySet
  <2>2. r = [s1 EXCEPT !.lost.key = @ + 1]
    BY <1>1, <1>5, <1>6 DEF SetParamNocopy
  <2>3. s \in States /\ s1.lost = s.lost
    BY <1>5 DEF Good, States
  <2>4. r = [s EXCEPT !.heap = s.heap + 1, !.lost = [s.lost EXCEPT !.key = s.lost.key + 1]]
    <3>1. s.heap + 1 + c = s.heap + 1
      BY <1>3, <2>1
    <3>2. s1 = [s EXCEPT !.heap = s.heap + 1]
      BY <1>5, <3>1
    <3>3. r = [s1 EXCEPT !.lost = [s.lost EXCEPT !.key = s.lost.key + 1]]
      BY <2>2, <2>3
    <3> QED
      BY <3>2, <3>3
  <2>5. r \in Good /\ SameBut(s, r, f) /\ r[f] = s[f]
    BY <2>4, KeyLost
  <2>6. \A n : ParamValues(r, f, n) = ParamValues(s, f, n)
    BY <2>5 DEF ParamValues
  <2>7. \A n : Begins(ParamValues(s, f, n), ParamValues(r, f, n))
    BY <1>4, <2>6, BeginsItself DEF ValuesIn
  <2>8. \A v \in value : ValueAdded(s, r, f, name, v)
    BY <1>6
  <2>9. ParamAdded(s, r, f) /\ ParamSet(s, r, f)
    BY <2>5, <2>7 DEF ParamSet, ParamAdded
  <2> QED
    BY <1>1, <2>8, <2>9
<1>7. CASE value # {}
  <2>1. PICK val \in Text : value = {val}
    BY <1>7 DEF Maybe, Text
  <2>2. c = 1 /\ (CHOOSE v \in value : TRUE) = val
    BY <1>5, <2>1, FS_Singleton
  <2>3. s1[f] = Tree(D) /\ s1.heap = s.heap + 2 /\ Stores(s, s1, f)
    <3>1. s1 = Taken(s, 1)
      BY <1>5, <2>2 DEF Taken
    <3>2. s1[f] = s[f] /\ s1.heap = s.heap + 1 + 1 /\ Stores(s, s1, f)
      BY <3>1, TakenOver
    <3> QED
      BY <1>2, <1>3, <3>2
  <2>4. PICK new : new = [name |-> name, value |-> <<val>>]
    OBVIOUS
  <2>5. new \in Param /\ new.name = name /\ new.value = <<val>> /\ Blocks(new) = 4
    <3>1. <<val>> \in Seq(Text) /\ <<val>> # << >> /\ Len(<<val>>) = 1
      BY <2>1
    <3>2. new \in Param /\ new.name = name /\ new.value = <<val>>
      BY <2>4, <3>1 DEF Param
    <3> QED
      BY <3>1, <3>2 DEF Blocks
  <2>6. AvlFind(s1[f], name) = Named(D, name)
    BY <2>3, FindIs
  <2>7. CASE Named(D, name) = {}
    <3>1. PICK E : E = Replaced(D, new)
      OBVIOUS
    <3>2. r = [s1 EXCEPT ![f] = AvlInsert(@, new), !.heap = @ + 2]
      BY <1>1, <1>5, <1>7, <2>2, <2>4, <2>6, <2>7 DEF SetParamNocopy
    <3>3. AvlInsert(Tree(D), new) = Tree(E) /\ TreeBlocks(Tree(E)) - TreeBlocks(Tree(D)) = 4
      BY <2>5, <2>7, <3>1, NewParam
    <3>4. (s.heap + 2) + 2 = s.heap + (TreeBlocks(Tree(E)) - TreeBlocks(Tree(D)))
      BY <1>3, <3>3
    <3>5. r = WithParams(s, f, D, E)
      <4>1. r = [s1 EXCEPT ![f] = Tree(E), !.heap = (s.heap + 2) + 2]
        BY <2>3, <3>2, <3>3
      <4> QED
        BY <2>3, <3>4, <4>1 DEF WithParams, Stores
    <3>6. Begins(ParamValues(s, f, new.name), new.value)
      <4>1. ParamValues(s, f, new.name) = << >>
        BY <1>4, <2>5, <2>7 DEF ValuesIn
      <4> QED
        BY <2>5, <4>1 DEF Begins
    <3>7. /\ ParamAdded(s, r, f) /\ ParamValues(r, f, name) = <<val>>
          /\ \A n : n # name => ParamValues(r, f, n) = ParamValues(s, f, n)
      BY <1>2, <2>5, <3>1, <3>5, <3>6, ParamStored
    <3>8. ValueAdded(s, r, f, name, val)
      <4>1. ParamValues(s, f, name) = << >> /\ Append(<< >>, val) = <<val>>
        BY <1>4, <2>7 DEF ValuesIn
      <4> QED
        BY <3>7, <4>1 DEF ValueAdded
    <3> QED
      BY <1>1, <2>1, <3>7, <3>8 DEF ParamAdded
  <2>8. CASE Named(D, name) # {}
    <3>1. PICK old \in D : old.name = name
      BY <2>8 DEF Named
    <3>2. (CHOOSE v \in AvlFind(s1[f], name) : TRUE) = old
      <4>1. (CHOOSE v \in AvlFind(Tree(D), old.name) : TRUE) = old
        BY <1>3, FindOne
      <4> QED
        BY <2>3, <3>1, <4>1
    <3>3. old \in Param /\ Blocks(old) \in Nat
      BY <1>3, ParamBlocks
    <3>4. CASE replace
      <4>1. PICK E : E = Replaced(D, new)
        OBVIOUS
      <4>2. r = [s1 EXCEPT ![f] = AvlInsert(AvlRemove(@, old), new), !.heap = @ + 2 - Blocks(old)]
        BY <1>1, <1>5, <1>7, <2>2, <2>4, <2>6, <2>8, <3>2, <3>4 DEF SetParamNocopy
      <4>3. /\ AvlInsert(AvlRemove(Tree(D), old), new) = Tree(E)
            /\ TreeBlocks(Tree(E)) - TreeBlocks(Tree(D)) = 4 - Blocks(old)
        BY <2>5, <3>1, <4>1, NewParam
      <4>4. (s.heap + 2) + 2 - Blocks(old) = s.heap + (TreeBlocks(Tree(E)) - TreeBlocks(Tree(D)))
        BY <1>3, <3>3, <4>3
      <4>5. r = WithParams(s, f, D, E)
        <5>1. r = [s1 EXCEPT ![f] = Tree(E), !.heap = (s.heap + 2) + 2 - Blocks(old)]
          BY <2>3, <4>2, <4>3
        <5> QED
          BY <2>3, <4>4, <5>1 DEF WithParams, Stores
      <4> QED
        BY <1>1, <1>2, <2>5, <3>4, <4>1, <4>5, ParamReplaced
    <3>5. CASE ~replace
      <4>1. PICK more, E : more = [old EXCEPT !.value = Append(@, val)] /\ E = Replaced(D, more)
        OBVIOUS
      <4>2. /\ more \in Param /\ more.name = name /\ more.value = Append(old.value, val)
            /\ Blocks(more) = Blocks(old) + 1 /\ old.value \in Seq(Text)
        <5>1. old.value \in Seq(Text) /\ old.name \in Text
          BY <3>3 DEF Param
        <5>2. /\ Append(old.value, val) \in Seq(Text) /\ Append(old.value, val) # << >>
              /\ Len(Append(old.value, val)) = Len(old.value) + 1
          BY <5>1, AppendProperties
        <5>3. more \in Param /\ more.name = name /\ more.value = Append(old.value, val)
          BY <3>1, <3>3, <4>1, <5>2 DEF Param
        <5>4. Len(old.value) \in Nat
          BY <5>1, LenProperties
        <5> QED
          BY <5>1, <5>2, <5>3, <5>4 DEF Blocks
      <4>3. r = [s1 EXCEPT ![f] = AvlInsert(AvlRemove(@, old), more), !.heap = @ - 1]
        BY <1>1, <1>5, <1>7, <2>2, <2>6, <2>8, <3>2, <3>5, <4>1 DEF SetParamNocopy
      <4>4. /\ AvlInsert(AvlRemove(Tree(D), old), more) = Tree(E)
            /\ TreeBlocks(Tree(E)) - TreeBlocks(Tree(D)) = (Blocks(old) + 1) - Blocks(old)
        <5>1. /\ AvlInsert(AvlRemove(Tree(D), old), more) = Tree(E)
              /\ TreeBlocks(Tree(E)) - TreeBlocks(Tree(D)) = Blocks(more) - Blocks(old)
          <6>1. more \in Param /\ old.name = more.name /\ E = Replaced(D, more)
            BY <3>1, <4>1, <4>2
          <6> HIDE DEF Replaced
          <6> QED
            BY <6>1, NewParam
        <5> QED
          BY <4>2, <5>1
      <4>5. (s.heap + 2) - 1 = s.heap + (TreeBlocks(Tree(E)) - TreeBlocks(Tree(D)))
        BY <1>3, <3>3, <4>4
      <4>6. r = WithParams(s, f, D, E)
        <5>1. r = [s1 EXCEPT ![f] = Tree(E), !.heap = (s.heap + 2) - 1]
          BY <2>3, <4>3, <4>4
        <5> QED
          BY <2>3, <4>5, <5>1 DEF WithParams, Stores
      <4>7. Begins(ParamValues(s, f, more.name), more.value)
        <5>1. ParamValues(s, f, more.name) = old.value
          BY <1>4, <3>1, <4>2 DEF ValuesIn
        <5> QED
          BY <4>2, <5>1, BeginsAppend
      <4>8. /\ ParamAdded(s, r, f) /\ ParamValues(r, f, name) = Append(old.value, val)
            /\ \A n : n # name => ParamValues(r, f, n) = ParamValues(s, f, n)
        <5>1. /\ ParamAdded(s, r, f) /\ ParamValues(r, f, more.name) = more.value
              /\ \A n : n # more.name => ParamValues(r, f, n) = ParamValues(s, f, n)
          <6>1. more \in Param /\ E = Replaced(D, more)
            BY <4>1, <4>2
          <6> QED
            BY <1>2, <4>6, <4>7, <6>1, ParamStored
        <5> QED
          BY <4>2, <5>1
      <4>9. ValueAdded(s, r, f, name, val)
        <5>1. ParamValues(s, f, name) = old.value
          BY <1>4, <3>1 DEF ValuesIn
        <5> QED
          BY <4>8, <5>1 DEF ValueAdded
      <4> QED
        BY <1>1, <2>1, <4>8, <4>9 DEF ParamAdded
    <3> QED
      BY <3>4, <3>5
  <2> QED
    BY <2>7, <2>8
<1> QED
  BY <1>6, <1>7

-----------------------------------------------------------------------------
(* The loops.  Each is a function that satisfies its definition, and keeps *)
(* to the good states.                                                     *)
Line == [name : STRING, value : Strings]

LEMMA Words == STRING \subseteq Word /\ \A w \in Word : Lowercase(w) \in Word
BY LowerOfAssumption DEF Word, Lowercase

LEMMA SetHeaderIs ==
    ASSUME NEW s \in Good, NEW l \in Line
    PROVE  /\ SetHeader(s, l) \in Good /\ SameBut(s, SetHeader(s, l), "vars")
           /\ \A n : GetVar(SetHeader(s, l), n) =
                       IF n = Lowercase(l.name) /\ l.value # "" THEN l.value ELSE GetVar(s, n)
<1>1. Lowercase(l.name) \in Word /\ l.value \in Word /\ l.value # NULL
  BY Words DEF Line, Strings
<1>2. CASE l.value = ""
  <2>1. SetHeader(s, l) = s
    BY <1>2 DEF SetHeader
  <2> QED
    BY <1>2, <2>1 DEF SameBut
<1>3. CASE l.value # ""
  <2>1. SetHeader(s, l) = SetVar(s, Lowercase(l.name), l.value)
    BY <1>3 DEF SetHeader
  <2>2. VarSet(s, SetHeader(s, l), Lowercase(l.name), l.value)
    BY <1>1, <2>1, SetVarIs
  <2> QED
    BY <1>1, <1>3, <2>2 DEF VarSet
<1> QED
  BY <1>2, <1>3

LEMMA ParseHeadersLoop ==
    ASSUME NEW s \in Good, NEW lines \in Seq(Line)
    PROVE  \E after : /\ after[0] = s /\ ParseHeaders(s, lines) = after[Len(lines)]
                     /\ \A i \in 1..Len(lines) : after[i] = SetHeader(after[i - 1], lines[i])
<1>1. PICK l \in Nat : l = Len(lines)
  BY LenProperties
<1> DEFINE Eq(f) == f = [i \in 0..Len(lines) |-> IF i = 0 THEN s ELSE SetHeader(f[i - 1], lines[i])]
<1>2. \E f : Eq(f)
  <2>1. PICK T, F : T = Good /\ F = [i \in 1..l |-> [p \in T |-> SetHeader(p, lines[i])]]
    OBVIOUS
  <2>2. s \in T /\ F \in [1..l -> [T -> T]]
    <3>1. ASSUME NEW i \in 1..l, NEW p \in Good PROVE SetHeader(p, lines[i]) \in Good
      <4>1. lines[i] \in Line
        BY <1>1
      <4> QED
        BY <4>1, SetHeaderIs
    <3> QED
      BY <2>1, <3>1
  <2>3. PICK g : IsLoop(g, l, T, s, F)
    BY <2>2, LoopExists
  <2>4. \A i \in 0..l : i # 0 => i \in 1..l /\ i - 1 \in 0..l
    OBVIOUS
  <2>5. \A i \in 0..l : i # 0 => F[i][g[i - 1]] = SetHeader(g[i - 1], lines[i])
    BY <2>1, <2>3, <2>4 DEF IsLoop
  <2>6. \A i \in 0..l : g[i] = IF i = 0 THEN s ELSE SetHeader(g[i - 1], lines[i])
    BY <2>3, <2>4, <2>5 DEF IsLoop
  <2> QED
    BY <1>1, <2>3, <2>6 DEF IsLoop
<1>3. PICK after : after = CHOOSE f : Eq(f)
  OBVIOUS
<1>4. Eq(after)
  <2> HIDE DEF Eq
  <2> QED
    BY <1>2, <1>3
<1>5. after[0] = s
  BY <1>1, <1>4
<1>6. \A i \in 1..l : after[i] = SetHeader(after[i - 1], lines[i])
  <2>1. \A i \in 1..l : i \in 0..Len(lines) /\ i # 0
    BY <1>1
  <2> QED
    BY <1>4, <2>1
<1>7. ParseHeaders(s, lines) = after[Len(lines)]
  <2> DEFINE c == CHOOSE f : Eq(f)
  <2>1. ParseHeaders(s, lines) = c[Len(lines)]
    BY DEF ParseHeaders
  <2> HIDE DEF Eq
  <2> QED
    BY <1>3, <2>1
<1> QED
  BY <1>1, <1>5, <1>6, <1>7

Default == [name : STRING, value : Seq(STRING)]

LEMMA SetAllLoop ==
    ASSUME NEW s \in Good, NEW d \in Default
    PROVE  \E after : /\ after[0] = s /\ SetAll(s, d) = after[Len(d.value)]
                     /\ \A i \in 1..Len(d.value) : after[i] = SetVar(after[i - 1], d.name, d.value[i])
<1>1. PICK l \in Nat : l = Len(d.value)
  BY LenProperties DEF Default
<1> DEFINE Eq(f) == f = [i \in 0..Len(d.value) |-> IF i = 0 THEN s ELSE SetVar(f[i - 1], d.name, d.value[i])]
<1>2. \E f : Eq(f)
  <2>1. PICK T, F : T = Good /\ F = [i \in 1..l |-> [p \in T |-> SetVar(p, d.name, d.value[i])]]
    OBVIOUS
  <2>2. s \in T /\ F \in [1..l -> [T -> T]]
    <3>1. ASSUME NEW i \in 1..l, NEW p \in Good PROVE SetVar(p, d.name, d.value[i]) \in Good
      <4>1. d.name \in STRING /\ d.value[i] \in STRING
        BY <1>1, ElementOfSeq DEF Default
      <4> QED
        BY <4>1, SetVarIs, Words DEF VarSet
    <3> QED
      BY <2>1, <3>1
  <2>3. PICK g : IsLoop(g, l, T, s, F)
    BY <2>2, LoopExists
  <2>4. \A i \in 0..l : i # 0 => i \in 1..l /\ i - 1 \in 0..l
    OBVIOUS
  <2>5. \A i \in 0..l : i # 0 => F[i][g[i - 1]] = SetVar(g[i - 1], d.name, d.value[i])
    BY <2>1, <2>3, <2>4 DEF IsLoop
  <2>6. \A i \in 0..l : g[i] = IF i = 0 THEN s ELSE SetVar(g[i - 1], d.name, d.value[i])
    BY <2>3, <2>4, <2>5 DEF IsLoop
  <2> QED
    BY <1>1, <2>3, <2>6 DEF IsLoop
<1>3. PICK after : after = CHOOSE f : Eq(f)
  OBVIOUS
<1>4. Eq(after)
  <2> HIDE DEF Eq
  <2> QED
    BY <1>2, <1>3
<1>5. after[0] = s
  BY <1>1, <1>4
<1>6. \A i \in 1..l : after[i] = SetVar(after[i - 1], d.name, d.value[i])
  <2>1. \A i \in 1..l : i \in 0..Len(d.value) /\ i # 0
    BY <1>1
  <2> QED
    BY <1>4, <2>1
<1>7. SetAll(s, d) = after[Len(d.value)]
  <2> DEFINE c == CHOOSE f : Eq(f)
  <2>1. SetAll(s, d) = c[Len(d.value)]
    BY DEF SetAll
  <2> HIDE DEF Eq
  <2> QED
    BY <1>3, <2>1
<1> QED
  BY <1>1, <1>5, <1>6, <1>7

LEMMA SetAllIs ==
    ASSUME NEW s \in Good, NEW d \in Default
    PROVE  SetAll(s, d) \in Good
<1>1. PICK after : /\ after[0] = s /\ SetAll(s, d) = after[Len(d.value)]
                   /\ \A i \in 1..Len(d.value) : after[i] = SetVar(after[i - 1], d.name, d.value[i])
  BY SetAllLoop
<1>2. PICK l \in Nat : l = Len(d.value)
  BY LenProperties DEF Default
<1>3. ASSUME NEW i \in 1..l, after[i - 1] \in Good PROVE after[i] \in Good
  <2>1. d.name \in STRING /\ d.value[i] \in STRING
    BY <1>2, ElementOfSeq DEF Default
  <2> QED
    <3>1. d.name \in Word /\ d.value[i] \in Word
      BY <2>1, Words
    <3>2. VarSet(after[i - 1], after[i], d.name, d.value[i])
      BY <1>1, <1>2, <1>3, <3>1, SetVarIs
    <3> QED
      BY <3>2 DEF VarSet
<1>4. \A i \in 0..l : after[i] \in Good
  BY <1>1, <1>3, LoopStays
<1> QED
  BY <1>1, <1>2, <1>4

LEMMA InitializeLoop ==
    ASSUME NEW s \in Good, NEW ds \in Seq(Default)
    PROVE  \E after : /\ after[0] = s /\ Initialize(s, ds) = after[Len(ds)]
                     /\ \A i \in 1..Len(ds) : after[i] = SetAll(after[i - 1], ds[i])
<1>1. PICK l \in Nat : l = Len(ds)
  BY LenProperties
<1> DEFINE Eq(f) == f = [i \in 0..Len(ds) |-> IF i = 0 THEN s ELSE SetAll(f[i - 1], ds[i])]
<1>2. \E f : Eq(f)
  <2>1. PICK T, F : T = Good /\ F = [i \in 1..l |-> [p \in T |-> SetAll(p, ds[i])]]
    OBVIOUS
  <2>2. s \in T /\ F \in [1..l -> [T -> T]]
    <3>1. ASSUME NEW i \in 1..l, NEW p \in Good PROVE SetAll(p, ds[i]) \in Good
      <4>1. ds[i] \in Default
        BY <1>1
      <4> QED
        BY <4>1, SetAllIs
    <3> QED
      BY <2>1, <3>1
  <2>3. PICK g : IsLoop(g, l, T, s, F)
    BY <2>2, LoopExists
  <2>4. \A i \in 0..l : i # 0 => i \in 1..l /\ i - 1 \in 0..l
    OBVIOUS
  <2>5. \A i \in 0..l : i # 0 => F[i][g[i - 1]] = SetAll(g[i - 1], ds[i])
    BY <2>1, <2>3, <2>4 DEF IsLoop
  <2>6. \A i \in 0..l : g[i] = IF i = 0 THEN s ELSE SetAll(g[i - 1], ds[i])
    BY <2>3, <2>4, <2>5 DEF IsLoop
  <2> QED
    BY <1>1, <2>3, <2>6 DEF IsLoop
<1>3. PICK after : after = CHOOSE f : Eq(f)
  OBVIOUS
<1>4. Eq(after)
  <2> HIDE DEF Eq
  <2> QED
    BY <1>2, <1>3
<1>5. after[0] = s
  BY <1>1, <1>4
<1>6. \A i \in 1..l : after[i] = SetAll(after[i - 1], ds[i])
  <2>1. \A i \in 1..l : i \in 0..Len(ds) /\ i # 0
    BY <1>1
  <2> QED
    BY <1>4, <2>1
<1>7. Initialize(s, ds) = after[Len(ds)]
  <2> DEFINE c == CHOOSE f : Eq(f)
  <2>1. Initialize(s, ds) = c[Len(ds)]
    BY DEF Initialize
  <2> HIDE DEF Eq
  <2> QED
    BY <1>3, <2>1
<1> QED
  BY <1>1, <1>5, <1>6, <1>7

LEMMA InitializeIs ==
    ASSUME NEW s \in Good, NEW ds \in Seq(Default)
    PROVE  Initialize(s, ds) \in Good
<1>1. PICK after : /\ after[0] = s /\ Initialize(s, ds) = after[Len(ds)]
                   /\ \A i \in 1..Len(ds) : after[i] = SetAll(after[i - 1], ds[i])
  BY InitializeLoop
<1>2. PICK l \in Nat : l = Len(ds)
  BY LenProperties
<1>3. ASSUME NEW i \in 1..l, after[i - 1] \in Good PROVE after[i] \in Good
  <2>1. ds[i] \in Default
    BY <1>2
  <2> QED
    BY <1>1, <1>2, <1>3, <2>1, SetAllIs
<1>4. \A i \in 0..l : after[i] \in Good
  BY <1>1, <1>3, LoopStays
<1> QED
  BY <1>1, <1>2, <1>4

LEMMA ParamAddedBoth ==
    ASSUME NEW s \in Good, NEW r \in Good, NEW q, NEW f \in ParamTrees,
           ParamAdded(s, r, f), ParamAdded(r, q, f)
    PROVE  ParamAdded(s, q, f)
<1>1. q \in Good /\ SameBut(s, q, f)
  BY DEF ParamAdded, ParamSet, SameBut
<1>2. ASSUME NEW x \in Good, NEW n PROVE ParamValues(x, f, n) \in Seq(Text)
  BY ParamTree, ParamValuesIs DEF ValuesIn
<1>3. ASSUME NEW n \in Text PROVE Begins(ParamValues(s, f, n), ParamValues(q, f, n))
  <2>1. /\ ParamValues(s, f, n) \in Seq(Text) /\ ParamValues(r, f, n) \in Seq(Text)
        /\ ParamValues(q, f, n) \in Seq(Text)
    BY <1>1, <1>2
  <2>2. /\ Begins(ParamValues(s, f, n), ParamValues(r, f, n))
        /\ Begins(ParamValues(r, f, n), ParamValues(q, f, n))
    BY DEF ParamAdded
  <2> QED
    BY <2>1, <2>2, BeginsLonger
<1> QED
  BY <1>1, <1>3 DEF ParamAdded, ParamSet

LEMMA ParamAddedNone ==
    ASSUME NEW s \in Good, NEW f \in ParamTrees
    PROVE  ParamAdded(s, s, f)
<1>1. \A n : ParamValues(s, f, n) \in Seq(Text)
  BY ParamTree, ParamValuesIs DEF ValuesIn
<1>2. \A n : Begins(ParamValues(s, f, n), ParamValues(s, f, n))
  BY <1>1, BeginsItself
<1> QED
  BY <1>2 DEF ParamAdded, ParamSet, SameBut

LEMMA AddParamIs ==
    ASSUME NEW s \in Good, NEW f \in ParamTrees, NEW e \in Elements
    PROVE  ParamAdded(s, AddParam(s, f, e), f) /\ AddParam(s, f, e) \in Good
<1>1. e[1] \in Text /\ e[2] \in Maybe
  BY DEF Elements, Text
<1>2. ParamAdded(s, SetParamNocopy(s, f, e[1], e[2], FALSE), f)
  BY <1>1, SetParamNocopyIs
<1> QED
  BY <1>2 DEF AddParam, ParamAdded, ParamSet

LEMMA ParseQueryIntoLoop ==
    ASSUME NEW s \in Good, NEW f \in ParamTrees, NEW query \in Text,
           NEW es \in Seq(Elements), es = ParseQuery(query)
    PROVE  \E after : /\ after[0] = s /\ ParseQueryInto(s, f, query) = after[Len(es)]
                     /\ \A i \in 1..Len(es) : after[i] = AddParam(after[i - 1], f, es[i])
<1>1. PICK l \in Nat : l = Len(es)
  BY LenProperties
<1> DEFINE Eq(h) == h = [i \in 0..Len(es) |-> IF i = 0 THEN s ELSE AddParam(h[i - 1], f, es[i])]
<1>2. \E h : Eq(h)
  <2>1. PICK T, F : T = Good /\ F = [i \in 1..l |-> [p \in T |-> AddParam(p, f, es[i])]]
    OBVIOUS
  <2>2. s \in T /\ F \in [1..l -> [T -> T]]
    <3>1. ASSUME NEW i \in 1..l, NEW p \in Good PROVE AddParam(p, f, es[i]) \in Good
      <4>1. es[i] \in Elements
        BY <1>1
      <4> QED
        BY <4>1, AddParamIs
    <3> QED
      BY <2>1, <3>1
  <2>3. PICK g : IsLoop(g, l, T, s, F)
    BY <2>2, LoopExists
  <2>4. \A i \in 0..l : i # 0 => i \in 1..l /\ i - 1 \in 0..l
    OBVIOUS
  <2>5. \A i \in 0..l : i # 0 => F[i][g[i - 1]] = AddParam(g[i - 1], f, es[i])
    BY <2>1, <2>3, <2>4 DEF IsLoop
  <2>6. \A i \in 0..l : g[i] = IF i = 0 THEN s ELSE AddParam(g[i - 1], f, es[i])
    BY <2>3, <2>4, <2>5 DEF IsLoop
  <2> QED
    BY <1>1, <2>3, <2>6 DEF IsLoop
<1>3. PICK after : after = CHOOSE h : Eq(h)
  OBVIOUS
<1>4. Eq(after)
  <2> HIDE DEF Eq
  <2> QED
    BY <1>2, <1>3
<1>5. after[0] = s
  BY <1>1, <1>4
<1>6. \A i \in 1..l : after[i] = AddParam(after[i - 1], f, es[i])
  <2>1. \A i \in 1..l : i \in 0..Len(es) /\ i # 0
    BY <1>1
  <2> QED
    BY <1>4, <2>1
<1>7. ParseQueryInto(s, f, query) = after[Len(es)]
  <2> DEFINE c == CHOOSE h : Eq(h)
  <2>1. ParseQueryInto(s, f, query) = c[Len(es)]
    BY DEF ParseQueryInto
  <2> HIDE DEF Eq
  <2> QED
    BY <1>3, <2>1
<1> QED
  BY <1>1, <1>5, <1>6, <1>7

(* parse_query adds parameters and takes none away.                        *)
LEMMA ParseQueryIntoIs ==
    ASSUME NEW s \in Good, NEW f \in ParamTrees, NEW query \in Text
    PROVE  ParamAdded(s, ParseQueryInto(s, f, query), f)
<1>1. PICK es \in Seq(Elements) : es = ParseQuery(query)
  BY ParseQueryIs DEF Text
<1>2. PICK after : /\ after[0] = s /\ ParseQueryInto(s, f, query) = after[Len(es)]
                   /\ \A i \in 1..Len(es) : after[i] = AddParam(after[i - 1], f, es[i])
  BY <1>1, ParseQueryIntoLoop
<1>3. PICK l \in Nat : l = Len(es)
  BY LenProperties
<1>4. PICK T : T = {r \in Good : ParamAdded(s, r, f)}
  OBVIOUS
<1>5. after[0] \in T
  BY <1>2, <1>4, ParamAddedNone
<1>6. ASSUME NEW i \in 1..l, after[i - 1] \in T PROVE after[i] \in T
  <2>1. PICK r, q : r = after[i - 1] /\ q = after[i]
    OBVIOUS
  <2>2. es[i] \in Elements
    BY <1>3
  <2>3. r \in Good /\ ParamAdded(s, r, f)
    BY <1>4, <1>6, <2>1
  <2>4. q = AddParam(r, f, es[i])
    BY <1>2, <1>3, <2>1
  <2>5. ParamAdded(r, q, f) /\ q \in Good
    BY <2>2, <2>3, <2>4, AddParamIs
  <2>6. ParamAdded(s, q, f)
    BY <2>3, <2>5, ParamAddedBoth
  <2> QED
    BY <1>4, <2>1, <2>5, <2>6
<1>7. \A i \in 0..l : after[i] \in T
  BY <1>5, <1>6, LoopStays
<1> QED
  BY <1>2, <1>3, <1>4, <1>7

-----------------------------------------------------------------------------
(* Line j gives a header a value, and so do those among lines 1 to i.      *)
Gives(lines, j, n) == Lowercase(lines[j].name) = n /\ lines[j].value # ""

(* The variables after the first i lines: a header has the value the last  *)
(* of them gave it.                                                        *)
HeadersSet(s, r, lines, i) ==
    /\ r \in Good /\ SameBut(s, r, "vars")
    /\ \A n : (\A j \in 1..i : ~Gives(lines, j, n)) => GetVar(r, n) = GetVar(s, n)
    /\ \A n : \A j \in 1..i :
          Gives(lines, j, n) /\ (\A k \in 1..i : Gives(lines, k, n) => k <= j)
             => GetVar(r, n) = lines[j].value

LEMMA ParseHeadersIs ==
    ASSUME NEW s \in Good, NEW lines \in Seq(Line)
    PROVE  HeadersSet(s, ParseHeaders(s, lines), lines, Len(lines))
<1>1. PICK after : /\ after[0] = s /\ ParseHeaders(s, lines) = after[Len(lines)]
                   /\ \A i \in 1..Len(lines) : after[i] = SetHeader(after[i - 1], lines[i])
  BY ParseHeadersLoop
<1>2. PICK l \in Nat : l = Len(lines)
  BY LenProperties
<1>3. PICK I : I = {i \in Nat : i <= l => HeadersSet(s, after[i], lines, i)}
  OBVIOUS
<1>4. 0 \in I
  <2>1. HeadersSet(s, s, lines, 0)
    BY DEF HeadersSet, SameBut
  <2> QED
    BY <1>1, <1>3, <2>1
<1>5. ASSUME NEW i \in Nat, i \in I PROVE i + 1 \in I
  <2>1. SUFFICES ASSUME i + 1 <= l PROVE HeadersSet(s, after[i + 1], lines, i + 1)
    BY <1>3
  <2>2. i + 1 \in 1..l /\ (i + 1) - 1 = i /\ i <= l
    BY <2>1
  <2>3. PICK p, r, a : p = after[i] /\ r = after[i + 1] /\ a = lines[i + 1]
    OBVIOUS
  <2>4. HeadersSet(s, p, lines, i)
    BY <1>3, <1>5, <2>2, <2>3
  <2>5. a \in Line /\ r = SetHeader(p, a)
    BY <1>1, <1>2, <2>2, <2>3
  <2>6. p \in Good /\ SameBut(s, p, "vars")
    BY <2>4 DEF HeadersSet
  <2>7. /\ r \in Good /\ SameBut(p, r, "vars")
        /\ \A n : GetVar(r, n) = IF n = Lowercase(a.name) /\ a.value # "" THEN a.value ELSE GetVar(p, n)
    BY <2>5, <2>6, SetHeaderIs
  <2>8. SameBut(s, r, "vars")
    BY <2>6, <2>7 DEF SameBut
  <2>9. \A n : Gives(lines, i + 1, n) <=> n = Lowercase(a.name) /\ a.value # ""
    BY <2>3 DEF Gives
  <2>10. \A j \in 1..(i + 1) : j = i + 1 \/ j \in 1..i
    OBVIOUS
  <2>11. \A j \in 1..i : j \in 1..(i + 1) /\ ~(i + 1 <= j)
    OBVIOUS
  <2>12. i + 1 \in 1..(i + 1)
    OBVIOUS
  <2>13. ASSUME NEW n, \A j \in 1..(i + 1) : ~Gives(lines, j, n)
         PROVE  GetVar(r, n) = GetVar(s, n)
    <3>1. GetVar(r, n) = GetVar(p, n)
      BY <2>7, <2>9, <2>12, <2>13
    <3>2. \A j \in 1..i : ~Gives(lines, j, n)
      BY <2>11, <2>13
    <3> QED
      BY <2>4, <3>1, <3>2 DEF HeadersSet
  <2>14. ASSUME NEW n, NEW j \in 1..(i + 1), Gives(lines, j, n),
                \A k \in 1..(i + 1) : Gives(lines, k, n) => k <= j
         PROVE  GetVar(r, n) = lines[j].value
    <3>1. CASE j = i + 1
      BY <2>3, <2>7, <2>9, <2>14, <3>1
    <3>2. CASE j \in 1..i
      <4>1. ~Gives(lines, i + 1, n)
        BY <2>11, <2>12, <2>14, <3>2
      <4>2. GetVar(r, n) = GetVar(p, n)
        BY <2>7, <2>9, <4>1
      <4>3. \A k \in 1..i : Gives(lines, k, n) => k <= j
        BY <2>11, <2>14
      <4> QED
        BY <2>4, <2>14, <3>2, <4>2, <4>3 DEF HeadersSet
    <3> QED
      BY <2>10, <3>1, <3>2
  <2> QED
    BY <2>3, <2>7, <2>8, <2>13, <2>14 DEF HeadersSet
<1>6. \A i \in Nat : i \in I
  BY <1>4, <1>5, AllNumbers
<1> QED
  BY <1>1, <1>2, <1>3, <1>6

(* split_headers takes the lines up to a number m, which are just those    *)
(* that count.                                                             *)
Counts(r, i) ==
    /\ i + 1 <= MAX_HEADERS
    /\ \A j \in 1..i : r.rest[j] # Blank
    /\ i < Len(r.rest) \/ ~r.cut

Split(r, m) ==
    /\ m \in 0..Len(r.rest)
    /\ HeaderLines(r) = SubSeq(r.rest, 1, m)
    /\ \A i \in DOMAIN r.rest : i <= m <=> Counts(r, i)

LEMMA HeaderLinesAre ==
    ASSUME NEW r, r.rest \in Seq(Line), r.cut \in BOOLEAN
    PROVE  \E m \in Nat : Split(r, m)
<1>1. PICK l \in Nat : l = Len(r.rest) /\ DOMAIN r.rest = 1..l
  BY LenProperties
<1>2. PICK blanks : blanks = {i \in DOMAIN r.rest : r.rest[i] = Blank}
  OBVIOUS
<1>3. PICK n : n = CASE blanks # {} -> Min(blanks) - 1
                     [] blanks = {} /\ r.cut /\ r.rest # << >> -> Len(r.rest) - 1
                     [] OTHER -> Len(r.rest)
  OBVIOUS
<1>4. n \in 0..l /\ \A i \in 1..l : i <= n <=> /\ \A j \in 1..i : r.rest[j] # Blank
                                               /\ i < l \/ ~r.cut
  <2>1. CASE blanks # {}
    <3>1. Min(blanks) \in blanks /\ \A k \in blanks : Min(blanks) <= k
      <4>1. blanks \in SUBSET Nat
        BY <1>1, <1>2
      <4> QED
        BY <2>1, <4>1, Least
    <3>2. PICK b : b = Min(blanks)
      OBVIOUS
    <3>3. b \in 1..l /\ r.rest[b] = Blank /\ n = b - 1
      BY <1>1, <1>2, <1>3, <2>1, <3>1, <3>2
    <3>4. \A j \in 1..l : j < b => r.rest[j] # Blank
      <4>1. SUFFICES ASSUME NEW j \in 1..l, j < b, r.rest[j] = Blank PROVE FALSE
        OBVIOUS
      <4>2. j \in blanks
        BY <1>1, <1>2, <4>1
      <4>3. b <= j
        BY <3>1, <3>2, <4>2
      <4> QED
        BY <3>3, <4>1, <4>3
    <3>5. ASSUME NEW i \in 1..l, i <= n
          PROVE  (\A j \in 1..i : r.rest[j] # Blank) /\ i < l
      <4>1. \A j \in 1..i : j \in 1..l /\ j < b
        BY <3>3, <3>5
      <4>2. i < l
        BY <3>3, <3>5
      <4> QED
        BY <3>4, <4>1, <4>2
    <3>6. ASSUME NEW i \in 1..l, ~(i <= n) PROVE ~(\A j \in 1..i : r.rest[j] # Blank)
      <4>1. b \in 1..i
        BY <3>3, <3>6
      <4> QED
        BY <3>3, <4>1
    <3>7. n \in 0..l
      BY <3>3
    <3> QED
      BY <3>5, <3>6, <3>7
  <2>2. CASE blanks = {}
    <3>1. \A j \in 1..l : r.rest[j] # Blank
      BY <1>1, <1>2, <2>2
    <3>2. \A i \in 1..l : \A j \in 1..i : j \in 1..l
      OBVIOUS
    <3>3. \A i \in 1..l : \A j \in 1..i : r.rest[j] # Blank
      BY <3>1, <3>2
    <3>4. r.rest = << >> <=> l = 0
      BY <1>1, EmptySeq
    <3>5. n = IF r.cut /\ l # 0 THEN l - 1 ELSE l
      BY <1>1, <1>3, <2>2, <3>4
    <3>6. n \in 0..l /\ \A i \in 1..l : i <= n <=> i < l \/ ~r.cut
      BY <3>5
    <3> QED
      BY <3>3, <3>6
  <2> QED
    BY <2>1, <2>2
<1>5. PICK m : m = Min({n, MAX_HEADERS - 1})
  OBVIOUS
<1>6. m \in 0..l /\ \A i \in 1..l : i <= m <=> i <= n /\ i + 1 <= MAX_HEADERS
  <2>1. n \in Nat /\ MAX_HEADERS - 1 \in Nat
    BY <1>4, MaxHeadersAssumption
  <2>2. {n, MAX_HEADERS - 1} \in SUBSET Nat /\ {n, MAX_HEADERS - 1} # {}
    BY <2>1
  <2>3. m \in {n, MAX_HEADERS - 1} /\ \A k \in {n, MAX_HEADERS - 1} : m <= k
    BY <1>5, <2>2, Least
  <2>4. (m = n \/ m = MAX_HEADERS - 1) /\ m <= n /\ m <= MAX_HEADERS - 1
    BY <2>3
  <2> QED
    BY <1>4, <2>1, <2>4, MaxHeadersAssumption
<1>7. HeaderLines(r) = SubSeq(r.rest, 1, m)
  BY <1>2, <1>3, <1>5 DEF HeaderLines
<1>8. \A i \in DOMAIN r.rest : i <= m <=> Counts(r, i)
  BY <1>1, <1>4, <1>6 DEF Counts
<1> QED
  BY <1>1, <1>6, <1>7, <1>8 DEF Split

(* After the header lines of a request the headers are as it says.         *)
HeadersAgree(s, q, r) ==
    /\ q \in Good /\ SameBut(s, q, "vars")
    /\ \A n : IF Said(r, n) = {} THEN GetVar(q, n) = GetVar(s, n)
              ELSE GetVar(q, n) = r.rest[Max(Said(r, n))].value

LEMMA HeadersParsed ==
    ASSUME NEW s \in Good, NEW r, r.rest \in Seq(Line), r.cut \in BOOLEAN
    PROVE  HeadersAgree(s, ParseHeaders(s, HeaderLines(r)), r)
<1>1. PICK m \in Nat : Split(r, m)
  BY HeaderLinesAre
<1>2. PICK l \in Nat : l = Len(r.rest) /\ DOMAIN r.rest = 1..l
  BY LenProperties
<1>3. PICK lines, q : lines = HeaderLines(r) /\ q = ParseHeaders(s, lines)
  OBVIOUS
<1>4. m \in 0..l /\ lines = SubSeq(r.rest, 1, m) /\ \A i \in 1..l : i <= m <=> Counts(r, i)
  BY <1>1, <1>2, <1>3 DEF Split
<1>5. lines \in Seq(Line) /\ Len(lines) = m /\ \A i \in 1..m : lines[i] = r.rest[i]
  <2>1. m <= l
    BY <1>4
  <2>2. \A i \in 1..m : i \in 1..l
    BY <2>1
  <2>3. \A i \in 1..m : r.rest[i] \in Line
    BY <1>2, <2>2
  <2>4. lines = [i \in 1..m |-> r.rest[i]]
    BY <1>2, <1>4, <2>1
  <2> QED
    BY <2>3, <2>4
<1>6. HeadersSet(s, q, lines, m)
  BY <1>3, <1>5, ParseHeadersIs
<1>7. \A n : Said(r, n) = {j \in 1..m : Gives(lines, j, n)}
  <2>1. \A n : \A j \in 1..l : Says(r, j, n) <=> j <= m /\ Gives(r.rest, j, n)
    BY <1>4 DEF Says, Counts, Gives
  <2>2. \A n : \A j \in 1..m : Gives(lines, j, n) <=> Gives(r.rest, j, n)
    BY <1>5 DEF Gives
  <2>3. \A j \in 1..l : j <= m <=> j \in 1..m
    OBVIOUS
  <2>4. \A j \in 1..m : j \in 1..l
    BY <1>4
  <2> QED
    BY <1>2, <2>1, <2>2, <2>3, <2>4 DEF Said
<1>8. ASSUME NEW n, Said(r, n) = {} PROVE GetVar(q, n) = GetVar(s, n)
  <2>1. \A j \in 1..m : ~Gives(lines, j, n)
    BY <1>7, <1>8
  <2> QED
    BY <1>6, <2>1 DEF HeadersSet
<1>9. ASSUME NEW n, Said(r, n) # {} PROVE GetVar(q, n) = r.rest[Max(Said(r, n))].value
  <2>1. PICK S : S = Said(r, n)
    OBVIOUS
  <2>2. S \in SUBSET (0..m) /\ S # {}
    BY <1>7, <1>9, <2>1
  <2>3. Max(S) \in S /\ \A k \in S : Max(S) >= k
    BY <2>2, Greatest
  <2>4. PICK j : j = Max(S)
    OBVIOUS
  <2>5. j \in 1..m /\ Gives(lines, j, n)
    BY <1>7, <2>1, <2>3, <2>4
  <2>6. \A k \in 1..m : Gives(lines, k, n) => k <= j
    <3>1. \A k \in 1..m : Gives(lines, k, n) => k \in S
      BY <1>7, <2>1
    <3> QED
      BY <2>3, <2>4, <2>5, <3>1
  <2>7. GetVar(q, n) = lines[j].value
    BY <1>6, <2>5, <2>6 DEF HeadersSet
  <2> QED
    BY <1>5, <2>1, <2>4, <2>5, <2>7
<1>10. q \in Good /\ SameBut(s, q, "vars")
  BY <1>6 DEF HeadersSet
<1> QED
  BY <1>3, <1>8, <1>9, <1>10 DEF HeadersAgree

-----------------------------------------------------------------------------
LEMMA RequestFields ==
    ASSUME NEW r \in Requests
    PROVE  /\ r.n \in Nat /\ r.method \in STRING /\ r.uri \in Word /\ r.uri # NULL
           /\ r.version \in Seq(Strings) /\ r.query \in SUBSET Text
           /\ r.rest \in Seq(Line) /\ r.cut \in BOOLEAN
<1>1. r \in [n : Nat, method : STRING, uri : Strings, version : Seq(Strings),
             query : SUBSET Text, form : SUBSET Seq(Text \X Text), rest : Lines, cut : BOOLEAN]
  BY RequestsAssumption
<1>2. Lines = Seq(Line)
  BY DEF Lines, Line
<1>3. /\ r.n \in Nat /\ r.method \in STRING /\ r.uri \in Strings /\ r.version \in Seq(Strings)
      /\ r.query \in SUBSET Text /\ r.rest \in Lines /\ r.cut \in BOOLEAN
  BY <1>1
<1> QED
  BY <1>2, <1>3, Words DEF Strings

LEMMA OwnNames ==
    /\ "__rawuri" \in Word /\ "__queryargs" \in Word /\ "__protocol" \in Word
    /\ "__version" \in Word /\ "__req_type" \in Word /\ "__uri" \in Word
    /\ "__errorcode" \in Word /\ "__errormessage" \in Word /\ "NONE" \in Word /\ "?" \in Word
BY DEF Word, InternalNames

LEMMA SameGetVar ==
    ASSUME NEW s, NEW r, r.vars = s.vars
    PROVE  \A n : GetVar(r, n) = GetVar(s, n)
BY DEF GetVar

LEMMA SameParamValues ==
    ASSUME NEW s \in Good, NEW r \in Good, r.queryvars = s.queryvars
    PROVE  \A n : ParamValues(r, "queryvars", n) = ParamValues(s, "queryvars", n)
<1>1. r["queryvars"] = s["queryvars"]
  BY DEF Good, States
<1> QED
  BY <1>1 DEF ParamValues

(* Setting parser->uri.                                                    *)
WithUri(s, u) ==
    [s EXCEPT !.uri = u, !.heap = s.heap + 1,
              !.lost = [s.lost EXCEPT !.uri = IF s.uri = NULL THEN s.lost.uri ELSE s.lost.uri + 1]]

LEMMA UriSet ==
    ASSUME NEW s \in Good, NEW u \in Word, u # NULL, NEW t, t = WithUri(s, u)
    PROVE  /\ t \in Good /\ t.uri = u /\ t.req_type = s.req_type
           /\ t.vars = s.vars /\ t.queryvars = s.queryvars /\ t.postvars = s.postvars
<1>1. s \in States /\ Accounted(s)
  BY DEF Good
<1>2. s.heap \in Int /\ s.lost \in [uri : Nat, key : Nat]
  BY <1>1 DEF States
<1>3. PICK k, h, l : /\ k = (IF s.uri = NULL THEN s.lost.uri ELSE s.lost.uri + 1)
                    /\ h = s.heap + 1 /\ l = [s.lost EXCEPT !.uri = k]
  OBVIOUS
<1>4. k \in Nat
  BY <1>2, <1>3
<1>5. h \in Int /\ l \in [uri : Nat, key : Nat] /\ l.uri = k /\ l.key = s.lost.key
  BY <1>2, <1>3, <1>4
<1>6. t = [s EXCEPT !.uri = u, !.heap = h, !.lost = l]
  BY <1>3 DEF WithUri
<1>7. t \in States
  BY <1>1, <1>5, <1>6 DEF States
<1>8. /\ t.vars = s.vars /\ t.heap = h /\ t.queryvars = s.queryvars /\ t.postvars = s.postvars
      /\ t.refc = s.refc /\ t.req_type = s.req_type /\ t.uri = u /\ t.lost = l
  BY <1>1, <1>6 DEF States
<1>9. Accounted(t)
  <2>1. PICK b \in Nat : b = IF s.uri = NULL THEN 0 ELSE 1
    OBVIOUS
  <2>2. s.heap = TreeBlocks(s.vars) + TreeBlocks(s.queryvars) + TreeBlocks(s.postvars)
                   + b + s.lost.uri + s.lost.key
    BY <1>1, <2>1 DEF Accounted
  <2>3. k = s.lost.uri + b
    BY <1>2, <1>3, <2>1
  <2>4. h = TreeBlocks(s.vars) + TreeBlocks(s.queryvars) + TreeBlocks(s.postvars)
              + 1 + l.uri + l.key
    BY <1>3, <1>5, <2>2, <2>3, GoodFields
  <2> QED
    BY <1>8, <2>4 DEF Accounted
<1> QED
  BY <1>7, <1>8, <1>9 DEF Good

(* What httpp_parse does with the uri.                                     *)
UriTaken(s, t, r) ==
    /\ t \in Good /\ t.uri = r.uri /\ t.req_type = s.req_type /\ t.postvars = s.postvars
    /\ \A n : \/ GetVar(t, n) = GetVar(s, n)
              \/ n \in {"__rawuri", "__queryargs"} /\ r.query # {}
    /\ \A n \in Text : Begins(ParamValues(s, "queryvars", n), ParamValues(t, "queryvars", n))

LEMMA TakeUriIs ==
    ASSUME NEW s \in Good, NEW r \in Requests
    PROVE  UriTaken(s, TakeUri(s, r), r)
<1>1. r.uri \in Word /\ r.uri # NULL /\ r.query \in SUBSET Text
  BY RequestFields
<1> DEFINE Query(q) == ParseQueryInto(SetVar(SetVar(s, "__rawuri", r.uri), "__queryargs", "?"),
                                      "queryvars", q)
<1>2. PICK s1 : s1 = IF r.query = {} THEN s ELSE Query(CHOOSE q \in r.query : TRUE)
  OBVIOUS
<1>3. /\ s1 \in Good /\ s1.uri = s.uri /\ s1.req_type = s.req_type /\ s1.postvars = s.postvars
      /\ \A n : \/ GetVar(s1, n) = GetVar(s, n)
                \/ n \in {"__rawuri", "__queryargs"} /\ r.query # {}
      /\ \A n \in Text : Begins(ParamValues(s, "queryvars", n), ParamValues(s1, "queryvars", n))
  <2> "queryvars" \in ParamTrees
    BY DEF ParamTrees
  <2>1. CASE r.query = {}
    <3>1. s1 = s
      BY <1>2, <2>1
    <3>2. ParamAdded(s, s, "queryvars")
      BY ParamAddedNone
    <3> QED
      BY <3>1, <3>2 DEF ParamAdded
  <2>2. CASE r.query # {}
    <3>1. PICK q \in Text : q = CHOOSE x \in r.query : TRUE
      BY <1>1, <2>2
    <3>2. PICK a, b : a = SetVar(s, "__rawuri", r.uri) /\ b = SetVar(a, "__queryargs", "?")
      OBVIOUS
    <3>3. VarSet(s, a, "__rawuri", r.uri)
      BY <1>1, <3>2, OwnNames, SetVarIs
    <3>4. a \in Good
      BY <3>3 DEF VarSet
    <3>5. VarSet(a, b, "__queryargs", "?")
      BY <3>2, <3>4, OwnNames, SetVarIs
    <3>6. b \in Good
      BY <3>5 DEF VarSet
    <3>7. s1 = ParseQueryInto(b, "queryvars", q)
      BY <1>2, <2>2, <3>1, <3>2
    <3>8. ParamAdded(b, s1, "queryvars")
      BY <3>6, <3>7, ParseQueryIntoIs
    <3> HIDE DEF Query
    <3>9. SameBut(s, a, "vars") /\ SameBut(a, b, "vars") /\ SameBut(b, s1, "queryvars") /\ s1 \in Good
      BY <3>3, <3>5, <3>8 DEF VarSet, ParamAdded, ParamSet
    <3>10. /\ s1.uri = s.uri /\ s1.req_type = s.req_type /\ s1.postvars = s.postvars
           /\ s1.vars = b.vars /\ b.queryvars = s.queryvars
      BY <3>9 DEF SameBut
    <3>11. \A n : GetVar(s1, n) = GetVar(b, n)
      BY <3>10, SameGetVar
    <3>12. \A n : n \notin {"__rawuri", "__queryargs"} => GetVar(b, n) = GetVar(s, n)
      BY <3>3, <3>5 DEF VarSet
    <3>13. \A n : ParamValues(b, "queryvars", n) = ParamValues(s, "queryvars", n)
      BY <3>6, <3>10, SameParamValues
    <3>14. \A n \in Text : Begins(ParamValues(s, "queryvars", n), ParamValues(s1, "queryvars", n))
      BY <3>8, <3>13 DEF ParamAdded
    <3> QED
      BY <2>2, <3>9, <3>10, <3>11, <3>12, <3>14
  <2> QED
    BY <2>1, <2>2
<1>4. PICK t : t = WithUri(s1, r.uri)
  OBVIOUS
<1>5. TakeUri(s, r) = t
  <2>1. TakeUri(s, r) = [s1 EXCEPT !.uri = r.uri, !.heap = @ + 1,
                                   !.lost.uri = IF s.uri = NULL THEN @ ELSE @ + 1]
    BY <1>2 DEF TakeUri
  <2>2. s1 \in States
    BY <1>3 DEF Good
  <2> HIDE DEF Query
  <2> QED
    BY <1>3, <1>4, <2>1, <2>2 DEF States, WithUri
<1> HIDE DEF Query
<1>6. /\ t \in Good /\ t.uri = r.uri /\ t.req_type = s1.req_type
      /\ t.vars = s1.vars /\ t.queryvars = s1.queryvars /\ t.postvars = s1.postvars
  BY <1>1, <1>3, <1>4, UriSet
<1>7. /\ \A n : GetVar(t, n) = GetVar(s1, n)
      /\ \A n : ParamValues(t, "queryvars", n) = ParamValues(s1, "queryvars", n)
  BY <1>3, <1>6, SameGetVar, SameParamValues
<1> QED
  BY <1>3, <1>5, <1>6, <1>7 DEF UriTaken

(* Setting the request type.                                               *)
LEMMA MethodSet ==
    ASSUME NEW s \in Good, NEW m \in ReqTypes, NEW t, t = [s EXCEPT !.req_type = m]
    PROVE  /\ t \in Good /\ t.req_type = m /\ t.vars = s.vars
           /\ t.queryvars = s.queryvars /\ t.postvars = s.postvars
<1>1. s \in States /\ Accounted(s)
  BY DEF Good
<1>2. t \in States
  BY <1>1 DEF States
<1>3. /\ t.vars = s.vars /\ t.heap = s.heap /\ t.queryvars = s.queryvars /\ t.postvars = s.postvars
      /\ t.req_type = m /\ t.uri = s.uri /\ t.lost = s.lost
  BY <1>1 DEF States
<1>4. Accounted(t)
  BY <1>1, <1>3 DEF Accounted
<1> QED
  BY <1>2, <1>3, <1>4 DEF Good

(* What httpp_parse did with a request it refused.                         *)
Kept(s, t, r) ==
    /\ \A n : \/ GetVar(t, n) = GetVar(s, n)
              \/ n \in {"__rawuri", "__queryargs"} /\ r.query # {}
              \/ n \in {"__protocol", "__version"} /\ t.req_type = "unknown"
    /\ t.postvars = s.postvars
    /\ \A n \in Text : Begins(ParamValues(s, "queryvars", n), ParamValues(t, "queryvars", n))

(* And with one it took: the library's own variables, as far as no header  *)
(* line has their names, and the headers.                                  *)
Own(t, r) == [n \in {"__uri", "__req_type", "__protocol", "__version"} |->
                CASE n = "__uri" -> t.uri
                  [] n = "__req_type" -> t.req_type
                  [] n = "__protocol" -> r.version[1]
                  [] n = "__version" -> r.version[2]]

TakenOn(t, r) ==
    /\ t.uri = r.uri /\ t.req_type = Lowercase(r.method)
    /\ \A n : Said(r, n) # {} => GetVar(t, n) = r.rest[Max(Said(r, n))].value
    /\ \A n \in DOMAIN Own(t, r) : Said(r, n) = {} => GetVar(t, n) = Own(t, r)[n]

LEMMA MethodIs ==
    ASSUME NEW w
    PROVE  /\ StrToMethod(w) \in ReqTypes
           /\ StrToMethod(w) # "unknown" => StrToMethod(w) = Lowercase(w) /\ StrToMethod(w) # NULL
<1>1. NULL \notin Methods
  BY DEF NULL, Methods
<1> QED
  BY <1>1 DEF StrToMethod, ReqTypes

(* The version, if it is in order.                                         *)
VersionTaken(s, t, r) ==
    /\ t \in Good /\ SameBut(s, t, "vars")
    /\ GetVar(t, "__protocol") = r.version[1] /\ GetVar(t, "__version") = r.version[2]
    /\ \A n : n \notin {"__protocol", "__version"} => GetVar(t, n) = GetVar(s, n)

LEMMA TakeVersionIs ==
    ASSUME NEW s \in Good, NEW r \in Requests, VersionOk(r)
    PROVE  VersionTaken(s, TakeVersion(s, r), r)
<1>1. r.version[1] \in Strings /\ r.version[2] \in Strings
  <2>1. r.version \in Seq(Strings) /\ Len(r.version) = 2
    BY RequestFields DEF VersionOk
  <2>2. 1 \in 1..Len(r.version) /\ 2 \in 1..Len(r.version)
    BY <2>1
  <2> QED
    BY <2>1, <2>2, ElementOfSeq
<1>2. PICK x, y : x = r.version[1] /\ y = r.version[2]
  OBVIOUS
<1>3. x \in Word /\ x # NULL /\ y \in Word /\ y # NULL
  BY <1>1, <1>2, Words DEF Strings
<1>4. PICK a, t : a = SetVar(s, "__protocol", x) /\ t = SetVar(a, "__version", y)
  OBVIOUS
<1>5. VarSet(s, a, "__protocol", x)
  BY <1>3, <1>4, OwnNames, SetVarIs
<1>6. a \in Good
  BY <1>5 DEF VarSet
<1>7. VarSet(a, t, "__version", y)
  BY <1>3, <1>4, <1>6, OwnNames, SetVarIs
<1>8. t \in Good /\ SameBut(s, t, "vars")
  BY <1>5, <1>7 DEF VarSet, SameBut
<1>9. GetVar(t, "__version") = y
  BY <1>3, <1>7 DEF VarSet
<1>10. GetVar(t, "__protocol") = x
  <2>1. GetVar(t, "__protocol") = GetVar(a, "__protocol")
    BY <1>7 DEF VarSet
  <2> QED
    BY <1>3, <1>5, <2>1 DEF VarSet
<1>11. \A n : n \notin {"__protocol", "__version"} => GetVar(t, n) = GetVar(s, n)
  BY <1>5, <1>7 DEF VarSet
<1>12. TakeVersion(s, r) = t
  BY <1>2, <1>4 DEF TakeVersion
<1> QED
  BY <1>2, <1>8, <1>9, <1>10, <1>11, <1>12 DEF VersionTaken

(* httpp_parse, whichever way it returns.                                  *)
LEMMA ParseIs ==
    ASSUME NEW s \in Good, NEW r \in Requests
    PROVE  /\ Parse(s, r).s \in Good /\ Parse(s, r).ok \in BOOLEAN
           /\ Parse(s, r).ok => TakenOn(Parse(s, r).s, r)
           /\ ~Parse(s, r).ok => Kept(s, Parse(s, r).s, r)
<1>1. PICK s1, s2, s3 : /\ s1 = [s EXCEPT !.req_type = StrToMethod(r.method)]
                        /\ s2 = TakeUri(s1, r) /\ s3 = TakeVersion(s2, r)
  OBVIOUS
<1>2. PICK s4, s5, s6 : /\ s4 = SetVar(s3, "__req_type", s3.req_type)
                        /\ s5 = SetVar(s4, "__uri", s3.uri)
                        /\ s6 = ParseHeaders(s5, HeaderLines(r))
  OBVIOUS
<1>3. PICK m : m = StrToMethod(r.method)
  OBVIOUS
<1>4. m \in ReqTypes /\ (m # "unknown" => m = Lowercase(r.method) /\ m # NULL)
  BY <1>3, MethodIs
<1>5. /\ s1 \in Good /\ s1.req_type = m /\ s1.vars = s.vars
      /\ s1.queryvars = s.queryvars /\ s1.postvars = s.postvars
  BY <1>1, <1>3, <1>4, MethodSet
<1>6. /\ \A n : GetVar(s1, n) = GetVar(s, n)
      /\ \A n : ParamValues(s1, "queryvars", n) = ParamValues(s, "queryvars", n)
  BY <1>5, SameGetVar, SameParamValues
<1>7. UriTaken(s1, s2, r)
  BY <1>1, <1>5, TakeUriIs
<1>8. s2 \in Good /\ s2.req_type = m /\ s2.uri = r.uri /\ s2.postvars = s.postvars
  BY <1>5, <1>7 DEF UriTaken
<1>9. r.n \in Nat
  BY RequestFields
<1>10. "queryvars" \in ParamTrees
  BY DEF ParamTrees
<1>11. Kept(s, s, r)
  <2>1. ParamAdded(s, s, "queryvars")
    BY <1>10, ParamAddedNone
  <2> QED
    BY <2>1 DEF Kept, ParamAdded
<1>12. Kept(s, s1, r)
  BY <1>5, <1>6, <1>11 DEF Kept
<1>13. Kept(s, s2, r)
  BY <1>6, <1>7, <1>8 DEF Kept, UriTaken
<1>14. CASE r.n > 3
  <2>1. Parse(s, r) = [s |-> s, ok |-> FALSE]
    BY <1>9, <1>14 DEF Parse
  <2> QED
    BY <1>11, <2>1
<1>15. CASE r.n < 2
  <2>1. Parse(s, r) = [s |-> s1, ok |-> FALSE]
    BY <1>1, <1>9, <1>15 DEF Parse
  <2> QED
    BY <1>5, <1>12, <2>1
<1>16. CASE r.n \in 2..3 /\ ~VersionOk(r)
  <2>1. Parse(s, r) = [s |-> s2, ok |-> FALSE]
    BY <1>1, <1>9, <1>16 DEF Parse
  <2> QED
    BY <1>8, <1>13, <2>1
<1>17. ASSUME r.n = 3, VersionOk(r)
       PROVE  /\ VersionTaken(s2, s3, r) /\ s3 \in Good
              /\ s3.req_type = m /\ s3.uri = r.uri /\ s3.postvars = s.postvars
              /\ s3.queryvars = s2.queryvars
  <2>1. VersionTaken(s2, s3, r)
    BY <1>1, <1>8, <1>17, TakeVersionIs
  <2> QED
    BY <1>8, <2>1 DEF VersionTaken, SameBut
<1>18. CASE r.n = 3 /\ VersionOk(r) /\ m = "unknown"
  <2>1. Parse(s, r) = [s |-> s3, ok |-> FALSE]
    BY <1>1, <1>5, <1>9, <1>18 DEF Parse
  <2>2. \A n : ParamValues(s3, "queryvars", n) = ParamValues(s2, "queryvars", n)
    BY <1>8, <1>17, <1>18, SameParamValues
  <2>3. \A n : n \notin {"__protocol", "__version"} => GetVar(s3, n) = GetVar(s2, n)
    BY <1>17, <1>18 DEF VersionTaken
  <2>4. s2.req_type = "unknown" /\ s3.req_type = "unknown" /\ s3.postvars = s.postvars
    BY <1>8, <1>17, <1>18
  <2>5. Kept(s, s3, r)
    BY <1>13, <2>2, <2>3, <2>4 DEF Kept
  <2> QED
    BY <1>17, <1>18, <2>1, <2>5
<1>19. CASE r.n = 3 /\ VersionOk(r) /\ m # "unknown"
  <2>1. Parse(s, r) = [s |-> s6, ok |-> TRUE]
    BY <1>1, <1>2, <1>5, <1>9, <1>19 DEF Parse
  <2>2. VersionTaken(s2, s3, r) /\ s3 \in Good /\ s3.req_type = m /\ s3.uri = r.uri
    BY <1>17, <1>19
  <2>3. r.uri \in Word /\ r.uri # NULL /\ m \in Word /\ m # NULL
    BY <1>4, <1>19, RequestFields DEF Word
  <2>4. VarSet(s3, s4, "__req_type", m)
    BY <1>2, <2>2, <2>3, OwnNames, SetVarIs
  <2>5. s4 \in Good
    BY <2>4 DEF VarSet
  <2>6. VarSet(s4, s5, "__uri", r.uri)
    BY <1>2, <2>2, <2>3, <2>5, OwnNames, SetVarIs
  <2>7. s5 \in Good
    BY <2>6 DEF VarSet
  <2>8. HeadersAgree(s5, s6, r)
    BY <1>2, <2>7, RequestFields, HeadersParsed
  <2>9. s6 \in Good /\ s6.uri = r.uri /\ s6.req_type = m
    BY <2>2, <2>4, <2>6, <2>8 DEF HeadersAgree, VarSet, SameBut
  <2>10. GetVar(s5, "__uri") = r.uri
    BY <2>3, <2>6 DEF VarSet
  <2>11. \A n : n # "__uri" => GetVar(s5, n) = GetVar(s4, n)
    BY <2>6 DEF VarSet
  <2>12. GetVar(s4, "__req_type") = m
    BY <2>3, <2>4 DEF VarSet
  <2>13. \A n : n # "__req_type" => GetVar(s4, n) = GetVar(s3, n)
    BY <2>4 DEF VarSet
  <2>14. GetVar(s3, "__protocol") = r.version[1] /\ GetVar(s3, "__version") = r.version[2]
    BY <2>2 DEF VersionTaken
  <2>15. /\ GetVar(s5, "__req_type") = m
         /\ GetVar(s5, "__protocol") = r.version[1] /\ GetVar(s5, "__version") = r.version[2]
    BY <2>11, <2>12, <2>13, <2>14
  <2>16. ASSUME NEW n \in DOMAIN Own(s6, r) PROVE GetVar(s5, n) = Own(s6, r)[n]
    BY <2>9, <2>10, <2>15 DEF Own
  <2>17. \A n \in DOMAIN Own(s6, r) : Said(r, n) = {} => GetVar(s6, n) = Own(s6, r)[n]
    BY <2>8, <2>16 DEF HeadersAgree
  <2>18. TakenOn(s6, r)
    BY <1>4, <1>19, <2>8, <2>9, <2>17 DEF TakenOn, HeadersAgree
  <2> QED
    BY <2>1, <2>9, <2>18
<1>20. r.n > 3 \/ r.n < 2 \/ (r.n \in 2..3 /\ ~VersionOk(r)) \/ (r.n = 3 /\ VersionOk(r))
  <2>1. VersionOk(r) => r.n >= 3
    BY Zenon DEF VersionOk
  <2> QED
    BY <1>9, <2>1
<1> QED
  BY <1>14, <1>15, <1>16, <1>18, <1>19, <1>20

-----------------------------------------------------------------------------
LEMMA ParseResponseIs ==
    ASSUME NEW s \in Good, NEW r \in Responses
    PROVE  ParseResponse(s, r).s \in Good
<1>1. /\ r.code \in Word /\ r.message \in Word /\ r.uri \in Word
      /\ r.rest \in Seq(Line) /\ r.cut \in BOOLEAN
  <2>1. r \in [n : Nat, code : STRING, success : BOOLEAN, message : STRING, uri : STRING,
               rest : Lines, cut : BOOLEAN]
    BY ResponsesAssumption
  <2>2. Lines = Seq(Line)
    BY DEF Lines, Line
  <2>3. /\ r.code \in STRING /\ r.message \in STRING /\ r.uri \in STRING
        /\ r.rest \in Lines /\ r.cut \in BOOLEAN
    BY <2>1
  <2> QED
    BY <2>2, <2>3, Words
<1>2. PICK s1 : s1 = SetVar(s, "__errorcode", r.code)
  OBVIOUS
<1>3. PICK s2 : s2 = IF r.success THEN s1 ELSE SetVar(s1, "__errormessage", r.message)
  OBVIOUS
<1>4. PICK s3 : s3 = SetVar(s2, "__uri", r.uri)
  OBVIOUS
<1>5. PICK s4 : s4 = SetVar(s3, "__req_type", "NONE")
  OBVIOUS
<1>6. s1 \in Good
  BY <1>1, <1>2, OwnNames, SetVarIs DEF VarSet
<1>7. s2 \in Good
  <2>1. SetVar(s1, "__errormessage", r.message) \in Good
    BY <1>1, <1>6, OwnNames, SetVarIs DEF VarSet
  <2> QED
    BY <1>3, <1>6, <2>1
<1>8. s3 \in Good
  BY <1>1, <1>4, <1>7, OwnNames, SetVarIs DEF VarSet
<1>9. s4 \in Good
  BY <1>5, <1>8, OwnNames, SetVarIs DEF VarSet
<1>10. ParseHeaders(s4, HeaderLines(r)) \in Good
  BY <1>1, <1>9, HeadersParsed DEF HeadersAgree
<1>11. ParseResponse(s, r) = IF r.n < 3 THEN [s |-> s, ok |-> FALSE]
                             ELSE [s |-> ParseHeaders(s4, HeaderLines(r)), ok |-> TRUE]
  BY <1>2, <1>3, <1>4, <1>5 DEF ParseResponse
<1> QED
  BY <1>10, <1>11

LEMMA ParsePostdataIs ==
    ASSUME NEW s \in Good, NEW b \in Bodies
    PROVE  ParsePostdata(s, b).s \in Good
<1>1. b \in Text /\ "postvars" \in ParamTrees
  BY BodiesAssumption DEF ParamTrees
<1>2. ParseQueryInto(s, "postvars", b) \in Good
  BY <1>1, ParseQueryIntoIs DEF ParamAdded, ParamSet
<1> QED
  BY <1>2 DEF ParsePostdata

LEMMA SetParamIs ==
    ASSUME NEW s \in Good, NEW f \in ParamTrees, NEW x \in Params
    PROVE  SetParam(s, f, x[1], x[2]) \in Good
<1>1. x[1] \in Text /\ x[2] \in Text
  BY ParamsAssumption
<1>2. PICK value : value = {CString(v) : v \in UrlUnescape(x[2])}
  OBVIOUS
<1>3. value \in Maybe
  BY <1>1, <1>2, UrlUnescapeIs, MaybeCString DEF Text
<1>4. ParamSet(s, SetParamNocopy(s, f, x[1], value, TRUE), f)
  BY <1>1, <1>3, SetParamNocopyIs
<1> QED
  BY <1>2, <1>4 DEF SetParam, ParamSet

LEMMA AddrefIs ==
    ASSUME NEW s \in Good, s.refc < MaxRefs
    PROVE  [s EXCEPT !.refc = @ + 1] \in Good
<1>1. s \in States /\ Accounted(s)
  BY DEF Good
<1>2. PICK t : t = [s EXCEPT !.refc = @ + 1]
  OBVIOUS
<1>3. s.refc + 1 \in 0..MaxRefs
  BY GoodFields, BoundAssumption
<1>4. t \in States
  BY <1>1, <1>2, <1>3 DEF States
<1>5. /\ t.vars = s.vars /\ t.heap = s.heap /\ t.queryvars = s.queryvars /\ t.postvars = s.postvars
      /\ t.uri = s.uri /\ t.lost = s.lost
  BY <1>1, <1>2 DEF States
<1>6. Accounted(t)
  BY <1>1, <1>5 DEF Accounted
<1> QED
  BY <1>2, <1>4, <1>6 DEF Good

LEMMA NoneListed == Tree({}) \in TreesOf(Var) /\ Tree({}) \in TreesOf(Param)
<1>1. IsFiniteSet({}) /\ Different({})
  BY FS_EmptySet DEF Different
<1> QED
  BY <1>1 DEF TreesOf, Contents

(* httpp_release.                                                          *)
LEMMA ReleaseIs ==
    ASSUME NEW s \in Good, s.refc > 0
    PROVE  Release(s) \in Good
<1>1. s \in States /\ Accounted(s)
  BY DEF Good
<1>2. CASE s.refc > 1
  <2>1. PICK t : t = [s EXCEPT !.refc = @ - 1]
    OBVIOUS
  <2>2. s.refc - 1 \in 0..MaxRefs
    BY <1>2, GoodFields, BoundAssumption
  <2>3. t \in States
    BY <1>1, <2>1, <2>2 DEF States
  <2>4. /\ t.vars = s.vars /\ t.heap = s.heap /\ t.queryvars = s.queryvars
        /\ t.postvars = s.postvars /\ t.uri = s.uri /\ t.lost = s.lost
    BY <1>1, <2>1 DEF States
  <2>5. Accounted(t)
    BY <1>1, <2>4 DEF Accounted
  <2>6. Release(s) = t
    BY <1>2, <2>1 DEF Release
  <2> QED
    BY <2>3, <2>5, <2>6 DEF Good
<1>3. CASE ~(s.refc > 1)
  <2>1. PICK u \in Nat : u = IF s.uri = NULL THEN 0 ELSE 1
    OBVIOUS
  <2>2. PICK h : h = s.heap - u - TreeBlocks(s.vars) - TreeBlocks(s.queryvars)
                       - TreeBlocks(s.postvars)
    OBVIOUS
  <2>3. PICK e : e = Tree({})
    OBVIOUS
  <2>4. PICK t : t = [s EXCEPT !.refc = 0, !.uri = NULL, !.req_type = "none", !.vars = e,
                               !.queryvars = e, !.postvars = e, !.heap = h]
    OBVIOUS
  <2>5. Release(s) = t
    BY <1>3, <2>1, <2>2, <2>3, <2>4, EmptyTree DEF Release
  <2>6. s.heap = TreeBlocks(s.vars) + TreeBlocks(s.queryvars) + TreeBlocks(s.postvars)
                   + u + s.lost.uri + s.lost.key
    BY <1>1, <2>1 DEF Accounted
  <2>7. h = s.lost.uri + s.lost.key /\ h \in Int
    BY <2>2, <2>6, GoodFields
  <2>8. "none" \in ReqTypes /\ NULL \in Word /\ 0 \in 0..MaxRefs
    BY BoundAssumption DEF ReqTypes, Word
  <2>9. t \in States
    BY <1>1, <2>3, <2>4, <2>7, <2>8, NoneListed DEF States
  <2>10. t.vars = e /\ t.queryvars = e /\ t.postvars = e /\ t.uri = NULL /\ t.heap = h /\ t.lost = s.lost
    BY <1>1, <2>4 DEF States
  <2>11. TreeBlocks(e) = 0
    BY <2>3, TreeBlocksNone
  <2>12. h = 0 + 0 + 0 + 0 + s.lost.uri + s.lost.key
    BY <2>7, GoodFields
  <2>13. Accounted(t)
    BY <2>10, <2>11, <2>12 DEF Accounted
  <2> QED
    BY <2>5, <2>9, <2>13 DEF Good
<1> QED
  BY <1>2, <1>3

-----------------------------------------------------------------------------
(* The inductive invariant: the trees hold records of different names, and *)
(* the heap is what they, the uri and the lost blocks add up to.           *)
IInv == hp \in Good /\ calls \in 0..MaxCalls

LEMMA InitIInv == Init => IInv
<1>1. SUFFICES ASSUME Init PROVE IInv
  OBVIOUS
<1>2. PICK e : e = Tree({})
  OBVIOUS
<1>3. hp = [refc |-> 1, req_type |-> "none", uri |-> NULL, vars |-> e, queryvars |-> e,
            postvars |-> e, heap |-> 0, lost |-> [uri |-> 0, key |-> 0]]
  BY <1>1, <1>2, EmptyTree DEF Init
<1>4. "none" \in ReqTypes /\ NULL \in Word /\ 1 \in 0..MaxRefs
  BY BoundAssumption DEF ReqTypes, Word
<1>5. e \in TreesOf(Var) /\ e \in TreesOf(Param)
  BY <1>2, NoneListed
<1>6. hp \in States
  BY <1>3, <1>4, <1>5 DEF States
<1>7. TreeBlocks(e) = 0
  BY <1>2, TreeBlocksNone
<1>8. Accounted(hp)
  BY <1>3, <1>7 DEF Accounted
<1>9. calls \in 0..MaxCalls
  BY <1>1, BoundAssumption DEF Init
<1> QED
  BY <1>6, <1>8, <1>9 DEF IInv, Good

LEMMA CallKeeps ==
    ASSUME IInv, NEW op, NEW arg, NEW result, NEW ok, Call(op, arg, result, ok), result \in Good
    PROVE  IInv'
<1>1. hp' = result /\ calls' = calls + 1 /\ calls < MaxCalls
  BY DEF Call
<1>2. calls' \in 0..MaxCalls
  BY <1>1, BoundAssumption DEF IInv
<1> QED
  BY <1>1, <1>2 DEF IInv

LEMMA NextIInv == IInv /\ [Next]_vars => IInv'
<1>1. SUFFICES ASSUME IInv, [Next]_vars PROVE IInv'
  OBVIOUS
<1>2. hp \in Good
  BY <1>1 DEF IInv
<1>3. CASE HttppInitialize
  <2>1. PICK d \in Defaults : Call("initialize", {}, Initialize(hp, d), TRUE)
    BY <1>3 DEF HttppInitialize
  <2>2. d \in Seq(Default)
    BY DefaultsAssumption DEF Default
  <2> QED
    BY <1>1, <1>2, <2>1, <2>2, InitializeIs, CallKeeps
<1>4. CASE HttppParse
  <2>1. PICK r \in Requests : Call("parse", {r}, Parse(hp, r).s, Parse(hp, r).ok)
    BY <1>4 DEF HttppParse
  <2>2. Parse(hp, r).s \in Good
    BY <1>2, ParseIs
  <2> QED
    BY <1>1, <2>1, <2>2, CallKeeps
<1>5. CASE HttppParseResponse
  <2>1. PICK r \in Responses : Call("response", {}, ParseResponse(hp, r).s, ParseResponse(hp, r).ok)
    BY <1>5 DEF HttppParseResponse
  <2> QED
    BY <1>1, <1>2, <2>1, ParseResponseIs, CallKeeps
<1>6. CASE HttppParsePostdata
  <2>1. PICK b \in Bodies : Call("postdata", {}, ParsePostdata(hp, b).s, ParsePostdata(hp, b).ok)
    BY <1>6 DEF HttppParsePostdata
  <2> QED
    BY <1>1, <1>2, <2>1, ParsePostdataIs, CallKeeps
<1>7. CASE HttppSetVar
  <2>1. PICK x \in Settings : Call("setvar", {}, SetVar(hp, x[1], x[2]), TRUE)
    BY <1>7 DEF HttppSetVar
  <2>2. x[1] \in Word /\ x[2] \in Word
    BY SettingsAssumption, Words
  <2>3. SetVar(hp, x[1], x[2]) \in Good
    BY <1>2, <2>2, SetVarIs DEF VarSet
  <2> QED
    BY <1>1, <2>1, <2>3, CallKeeps
<1>8. CASE HttppDeleteVar
  <2>1. PICK x \in Settings : Call("deletevar", {}, DeleteVar(hp, x[1]), TRUE)
    BY <1>8 DEF HttppDeleteVar
  <2>2. x[1] \in Word
    BY SettingsAssumption, Words
  <2> QED
    BY <1>1, <1>2, <2>1, <2>2, DeleteVarIs, CallKeeps
<1>9. CASE HttppSetQueryParam
  <2>1. PICK x \in Params : Call("setparam", {}, SetParam(hp, "queryvars", x[1], x[2]), TRUE)
    BY <1>9 DEF HttppSetQueryParam
  <2>2. SetParam(hp, "queryvars", x[1], x[2]) \in Good
    BY <1>2, SetParamIs DEF ParamTrees
  <2> QED
    BY <1>1, <2>1, <2>2, CallKeeps
<1>10. CASE HttppSetPostParam
  <2>1. PICK x \in Params : Call("setparam", {}, SetParam(hp, "postvars", x[1], x[2]), TRUE)
    BY <1>10 DEF HttppSetPostParam
  <2>2. SetParam(hp, "postvars", x[1], x[2]) \in Good
    BY <1>2, SetParamIs DEF ParamTrees
  <2> QED
    BY <1>1, <2>1, <2>2, CallKeeps
<1>11. CASE HttppAddref
  <2>1. hp.refc < MaxRefs /\ Call("addref", {}, [hp EXCEPT !.refc = @ + 1], TRUE)
    BY <1>11 DEF HttppAddref
  <2>2. [hp EXCEPT !.refc = @ + 1] \in Good
    BY <1>2, <2>1, AddrefIs
  <2> QED
    BY <1>1, <2>1, <2>2, CallKeeps
<1>12. CASE HttppRelease
  <2>1. hp.refc > 0 /\ hp' = Release(hp) /\ calls' = calls
    BY <1>12 DEF HttppRelease
  <2> QED
    BY <1>1, <1>2, <2>1, ReleaseIs DEF IInv
<1>13. CASE UNCHANGED vars
  BY <1>1, <1>13 DEF IInv, vars
<1> QED
  BY <1>1, <1>3, <1>4, <1>5, <1>6, <1>7, <1>8, <1>9, <1>10, <1>11, <1>12, <1>13 DEF Next

(* Whatever is parsed, set, added and deleted, in whatever order: the      *)
(* trees hold records of different names with values, and the heap is what *)
(* they, the uri and the two kinds of lost blocks add up to.               *)
THEOREM ParserSafe == Spec => []IInv
<1>1. Init => IInv
  BY InitIInv
<1>2. IInv /\ [Next]_vars => IInv'
  BY NextIInv
<1> QED
  BY <1>1, <1>2, PTL DEF Spec

LEMMA IInvTypeOK == IInv => TypeOK
<1>1. SUFFICES ASSUME IInv PROVE TypeOK
  OBVIOUS
<1>2. hp \in Good /\ calls \in 0..MaxCalls
  BY <1>1 DEF IInv
<1>3. PICK D \in Contents(Var) : hp.vars = Tree(D)
  BY <1>2, GoodFields
<1>4. D \subseteq Var
  BY DEF Contents
<1>5. ASSUME NEW t \in Trees, NEW v \in BagToSet(hp[t]) PROVE hp[t][v] \in Nat /\ v.value # << >>
  <2>1. PICK E : hp[t] = Tree(E) /\ \A w \in E : w.value # << >>
    <3>1. CASE t = "vars"
      <4>1. hp[t] = Tree(D)
        BY <1>2, <1>3, <3>1
      <4>2. ASSUME NEW w \in D PROVE w.value # << >>
        <5>1. w.value = <<w.value[1]>>
          BY <1>4, VarBlocks
        <5> QED
          BY <5>1
      <4> QED
        BY <4>1, <4>2
    <3>2. CASE t \in ParamTrees
      <4>1. PICK P \in Contents(Param) : hp[t] = Tree(P)
        BY <1>2, <3>2, ParamTree
      <4>2. \A w \in P : w.value # << >>
        BY DEF Contents, Param
      <4> QED
        BY <4>1, <4>2
    <3> QED
      BY <3>1, <3>2 DEF Trees, ParamTrees
  <2>2. v \in E /\ Tree(E)[v] = 1
    BY <2>1, TreeSet DEF Tree
  <2> QED
    BY <2>1, <2>2
<1>6. ASSUME NEW v \in BagToSet(hp.vars) PROVE v.value # <<NULL>>
  <2>1. v \in Var
    BY <1>3, <1>4, TreeSet
  <2>2. v.value[1] # NULL
    BY <2>1, VarBlocks
  <2> QED
    BY <2>2
<1>7. hp.heap \in Nat
  <2>1. PICK u \in Nat : u = IF hp.uri = NULL THEN 0 ELSE 1
    OBVIOUS
  <2>2. hp.heap = TreeBlocks(hp.vars) + TreeBlocks(hp.queryvars) + TreeBlocks(hp.postvars)
                    + u + hp.lost.uri + hp.lost.key
    BY <1>2, <2>1 DEF Good, Accounted
  <2> QED
    BY <1>2, <2>2, GoodFields
<1>8. /\ hp.refc \in 0..MaxRefs /\ hp.req_type \in Methods \cup {"none", "unknown"}
      /\ hp.lost.uri \in Nat /\ hp.lost.key \in Nat
  BY <1>2, GoodFields DEF ReqTypes
<1> QED
  BY <1>2, <1>5, <1>6, <1>7, <1>8 DEF TypeOK

(* The parser is type-correct: every record in a tree has a value, and no  *)
(* variable is NULL.                                                       *)
THEOREM ParserTypeCorrect == Spec => []TypeOK
BY ParserSafe, IInvTypeOK, PTL

(* Blocks are lost only where parser->uri is overwritten and where         *)
(* _httpp_set_param_nocopy returns early; the last httpp_release frees all *)
(* the others.                                                             *)
THEOREM LeaksNowhereElse == Spec => []LeaksOnlyThere
<1>1. IInv => LeaksOnlyThere
  BY DEF IInv, Good, LeaksOnlyThere
<1> QED
  BY <1>1, ParserSafe, PTL

-----------------------------------------------------------------------------
(* The array of httpp_get_any_key is longer than the names in it.          *)
GrowIf(len, i) == IF i - 1 = len - 1 THEN len + Grow ELSE len

LEMMA ArrayLengthIs ==
    ASSUME NEW n \in Nat
    PROVE  ArrayLength(n) > n
<1>1. Grow \in Nat /\ Grow > 1
  BY GrowAssumption
<1> DEFINE Eq(f) == f = [i \in 0..n |-> IF i = 0 THEN Grow
                                        ELSE IF i - 1 = f[i - 1] - 1 THEN f[i - 1] + Grow
                                        ELSE f[i - 1]]
<1>2. \E f : Eq(f)
  <2>1. PICK F : F = [i \in 1..n |-> [p \in Nat |-> GrowIf(p, i)]]
    OBVIOUS
  <2>2. Grow \in Nat /\ F \in [1..n -> [Nat -> Nat]]
    BY <1>1, <2>1 DEF GrowIf
  <2>3. PICK g : IsLoop(g, n, Nat, Grow, F)
    BY <2>2, LoopExists
  <2>4. \A i \in 0..n : i # 0 => i \in 1..n /\ i - 1 \in 0..n
    OBVIOUS
  <2>5. \A i \in 0..n : i # 0 => F[i][g[i - 1]] = GrowIf(g[i - 1], i)
    BY <2>1, <2>3, <2>4 DEF IsLoop
  <2>6. \A i \in 0..n : g[i] = IF i = 0 THEN Grow ELSE GrowIf(g[i - 1], i)
    BY <2>3, <2>4, <2>5 DEF IsLoop
  <2>7. g = [i \in 0..n |-> IF i = 0 THEN Grow ELSE GrowIf(g[i - 1], i)]
    BY <2>3, <2>6 DEF IsLoop
  <2>8. Eq(g)
    BY <2>7 DEF GrowIf
  <2> QED
    BY <2>8
<1>3. PICK len : len = CHOOSE f : Eq(f)
  OBVIOUS
<1>4. Eq(len)
  <2> HIDE DEF Eq
  <2> QED
    BY <1>2, <1>3
<1>5. ArrayLength(n) = len[n]
  <2> DEFINE c == CHOOSE f : Eq(f)
  <2>1. ArrayLength(n) = c[n]
    BY DEF ArrayLength
  <2> HIDE DEF Eq
  <2> QED
    BY <1>3, <2>1
<1>6. len[0] = Grow
  BY <1>4
<1>7. \A i \in 1..n : len[i] = GrowIf(len[i - 1], i)
  <2>1. \A i \in 1..n : i \in 0..n /\ i # 0
    OBVIOUS
  <2> QED
    BY <1>4, <2>1 DEF GrowIf
<1> HIDE DEF Eq
<1>8. PICK I : I = {i \in Nat : i <= n => len[i] \in Nat /\ len[i] > i}
  OBVIOUS
<1>9. 0 \in I
  BY <1>1, <1>6, <1>8
<1>10. ASSUME NEW i \in Nat, i \in I PROVE i + 1 \in I
  <2>1. SUFFICES ASSUME i + 1 <= n PROVE len[i + 1] \in Nat /\ len[i + 1] > i + 1
    BY <1>8
  <2>2. i + 1 \in 1..n /\ (i + 1) - 1 = i /\ i <= n
    BY <2>1
  <2>3. PICK k : k = len[i]
    OBVIOUS
  <2>4. k \in Nat /\ k > i
    BY <1>8, <1>10, <2>2, <2>3
  <2>5. len[i + 1] = GrowIf(k, i + 1)
    BY <1>7, <2>2, <2>3
  <2> QED
    BY <1>1, <2>4, <2>5 DEF GrowIf
<1>11. \A i \in Nat : i \in I
  BY <1>9, <1>10, AllNumbers
<1> QED
  BY <1>5, <1>8, <1>11

LEMMA SpaceTree ==
    ASSUME NEW s \in Good, NEW ns \in {"VAR", "HEADER", "QUERY_STRING", "POST_BODY"}
    PROVE  \E D : s[TreeOf(ns)] = Tree(D) /\ IsFiniteSet(D) /\ Different(D)
<1>1. \E D : s["vars"] = Tree(D) /\ IsFiniteSet(D) /\ Different(D)
  <2>1. PICK D \in Contents(Var) : s.vars = Tree(D)
    BY GoodFields
  <2>2. IsFiniteSet(D) /\ Different(D)
    BY DEF Contents
  <2> QED
    BY <2>1, <2>2
<1>2. \A f \in ParamTrees : \E D : s[f] = Tree(D) /\ IsFiniteSet(D) /\ Different(D)
  BY ParamTree DEF Contents
<1>3. TreeOf(ns) = "vars" \/ TreeOf(ns) \in ParamTrees
  BY DEF TreeOf, ParamTrees
<1> QED
  BY <1>1, <1>2, <1>3

LEMMA KeysListedIn ==
    ASSUME NEW s, NEW ns, NEW D, s[TreeOf(ns)] = Tree(D), IsFiniteSet(D), Different(D)
    PROVE  /\ \A name \in DOMAIN AnyKey(s, ns) :
                 AnyKey(s, ns)[name] = 1 /\ Cardinality(GetAnyVar(s, ns, name)) = 1
           /\ ArrayLength(Cardinality(DOMAIN AnyKey(s, ns))) > Cardinality(DOMAIN AnyKey(s, ns))
<1>1. BagToSet(s[TreeOf(ns)]) = D
  BY TreeSet
<1>2. PICK L : L = {w \in D : Listed(ns, w.name)}
  OBVIOUS
<1>3. PICK names : names = {v.name : v \in L}
  OBVIOUS
<1>4. AnyKey(s, ns) = [name \in names |->
          Cardinality(UNION {{v} \X (1..s[TreeOf(ns)][v]) : v \in AvlFind(s[TreeOf(ns)], name)})]
  BY <1>1, <1>2, <1>3 DEF AnyKey
<1>5. ASSUME NEW name \in names
      PROVE  AnyKey(s, ns)[name] = 1 /\ Cardinality(GetAnyVar(s, ns, name)) = 1
  <2>1. PICK v \in D : v.name = name /\ Listed(ns, name)
    BY <1>2, <1>3
  <2>2. AvlFind(s[TreeOf(ns)], name) = {v}
    BY <2>1, FindOne
  <2>3. s[TreeOf(ns)][v] = 1
    BY DEF Tree
  <2>4. UNION {{w} \X (1..s[TreeOf(ns)][w]) : w \in AvlFind(s[TreeOf(ns)], name)} = {<<v, 1>>}
    <3>1. {{w} \X (1..s[TreeOf(ns)][w]) : w \in AvlFind(s[TreeOf(ns)], name)} = {{v} \X (1..1)}
      BY <2>2, <2>3
    <3>2. 1..1 = {1}
      OBVIOUS
    <3>3. {v} \X {1} = {<<v, 1>>}
      OBVIOUS
    <3>4. {v} \X (1..1) = {<<v, 1>>}
      BY <3>2, <3>3
    <3>5. UNION {{<<v, 1>>}} = {<<v, 1>>}
      OBVIOUS
    <3> QED
      BY <3>1, <3>4, <3>5
  <2>5. Cardinality({<<v, 1>>}) = 1 /\ Cardinality({v}) = 1
    BY FS_Singleton
  <2>6. GetAnyVar(s, ns, name) = {v}
    BY <2>1, <2>2 DEF GetAnyVar
  <2> QED
    BY <1>4, <2>4, <2>5, <2>6
<1>6. DOMAIN AnyKey(s, ns) = names
  BY <1>4
<1>7. Cardinality(names) \in Nat
  <2>1. IsFiniteSet(L)
    BY <1>2, FS_Subset
  <2>2. PICK f : f = [v \in L |-> v.name]
    OBVIOUS
  <2>3. f \in Surjection(L, names)
    BY <1>3, <2>2 DEF Surjection
  <2>4. IsFiniteSet(names)
    BY <2>1, <2>3, FS_Surjection
  <2> QED
    BY <2>4, FS_CardinalityType
<1>8. ArrayLength(Cardinality(names)) > Cardinality(names)
  BY <1>7, ArrayLengthIs
<1> QED
  BY <1>5, <1>6, <1>8

(* httpp_get_any_key lists each name of a namespace once, httpp_get_any_var *)
(* finds just one variable of it, and the array has room for the NULL at   *)
(* its end, whatever was done to the parser before.                        *)
THEOREM KeysAreListed == Spec => []KeysListed
<1>1. IInv => KeysListed
  <2>1. SUFFICES ASSUME IInv, NEW ns \in {"VAR", "HEADER", "QUERY_STRING", "POST_BODY"}
                 PROVE  /\ \A name \in DOMAIN AnyKey(hp, ns) :
                              /\ AnyKey(hp, ns)[name] = 1
                              /\ Cardinality(GetAnyVar(hp, ns, name)) = 1
                        /\ ArrayLength(Cardinality(DOMAIN AnyKey(hp, ns)))
                             > Cardinality(DOMAIN AnyKey(hp, ns))
    BY DEF KeysListed
  <2>2. PICK D : hp[TreeOf(ns)] = Tree(D) /\ IsFiniteSet(D) /\ Different(D)
    BY <2>1, SpaceTree DEF IInv
  <2> QED
    BY <2>2, KeysListedIn
<1> QED
  BY <1>1, ParserSafe, PTL

-----------------------------------------------------------------------------
(* What the parser holds of the last request, if it took it.               *)
LastAgrees == \A r \in last.arg : last.op = "parse" /\ last.ok => TakenOn(hp, r)

LEMMA NextLastAgrees == IInv /\ LastAgrees /\ [Next]_vars => LastAgrees'
<1>1. SUFFICES ASSUME IInv, LastAgrees, [Next]_vars PROVE LastAgrees'
  OBVIOUS
<1>2. CASE HttppParse
  <2>1. PICK r \in Requests : Call("parse", {r}, Parse(hp, r).s, Parse(hp, r).ok)
    BY <1>2 DEF HttppParse
  <2>2. hp' = Parse(hp, r).s /\ last' = [op |-> "parse", arg |-> {r}, ok |-> Parse(hp, r).ok]
    BY <2>1 DEF Call
  <2>3. Parse(hp, r).ok => TakenOn(Parse(hp, r).s, r)
    BY <1>1, ParseIs DEF IInv
  <2>4. last'.arg = {r} /\ (last'.ok => TakenOn(hp', r))
    BY <2>2, <2>3
  <2> QED
    BY <2>4 DEF LastAgrees
<1>3. CASE HttppInitialize \/ HttppParseResponse \/ HttppParsePostdata \/ HttppSetVar
           \/ HttppDeleteVar \/ HttppSetQueryParam \/ HttppSetPostParam \/ HttppAddref \/ HttppRelease
  <2>1. last'.arg = {}
    BY <1>3 DEF HttppInitialize, HttppParseResponse, HttppParsePostdata, HttppSetVar, HttppDeleteVar,
                HttppSetQueryParam, HttppSetPostParam, HttppAddref, HttppRelease, Call
  <2> QED
    BY <2>1 DEF LastAgrees
<1>4. CASE UNCHANGED vars
  BY <1>1, <1>4 DEF LastAgrees, vars
<1> QED
  BY <1>1, <1>2, <1>3, <1>4 DEF Next

LEMMA LastAgreesIs == LastAgrees => RequestAgrees
<1>1. SUFFICES ASSUME LastAgrees, NEW r \in last.arg, last.op = "parse", last.ok
               PROVE  /\ hp.uri = r.uri /\ hp.req_type = Lowercase(r.method)
                      /\ \A n \in {m \in {Lowercase(r.rest[i].name) : i \in DOMAIN r.rest} : Said(r, m) # {}} :
                            GetVar(hp, n) = r.rest[Max(Said(r, n))].value
                      /\ \A n \in DOMAIN Own(hp, r) \
                                    {m \in {Lowercase(r.rest[i].name) : i \in DOMAIN r.rest} : Said(r, m) # {}} :
                            GetVar(hp, n) = Own(hp, r)[n]
  BY Zenon DEF RequestAgrees, Own
<1>2. TakenOn(hp, r)
  BY <1>1 DEF LastAgrees
<1>3. \A n : Said(r, n) # {} => n \in {Lowercase(r.rest[i].name) : i \in DOMAIN r.rest}
  BY DEF Said, Says
<1> QED
  BY <1>2, <1>3 DEF TakenOn

(* After a successful httpp_parse the variables agree with the request:    *)
(* headers have the values of their last lines within MAX_HEADERS, and the *)
(* library's own variables, where no header line took their names, what    *)
(* the first line said.                                                    *)
THEOREM RequestIsKept == Spec => []RequestAgrees
<1>1. Init => LastAgrees
  BY DEF Init, LastAgrees
<1>2. IInv /\ LastAgrees /\ [Next]_vars => LastAgrees'
  BY NextLastAgrees
<1>3. LastAgrees => RequestAgrees
  BY LastAgreesIs
<1> QED
  BY <1>1, <1>2, <1>3, ParserSafe, PTL DEF Spec

-----------------------------------------------------------------------------
(* A step of FailedParseKeeps.                                             *)
KeepsStep ==
    \A r \in last'.arg :
        calls' > calls /\ last'.op = "parse" /\ ~last'.ok =>
            /\ \A v \in BagToSet(hp.vars) \cup BagToSet(hp'.vars) :
                  \/ GetVar(hp', v.name) = GetVar(hp, v.name)
                  \/ v.name \in {"__rawuri", "__queryargs"} /\ r.query # {}
                  \/ v.name \in {"__protocol", "__version"} /\ hp'.req_type = "unknown"
            /\ hp'.postvars = hp.postvars
            /\ \A v \in BagToSet(hp.queryvars) :
                  IsPrefix(v.value, ParamValues(hp', "queryvars", v.name))

LEMMA NextKeeps == IInv /\ [Next]_vars => [KeepsStep]_vars
<1>1. SUFFICES ASSUME IInv, Next PROVE KeepsStep
  OBVIOUS
<1>2. CASE HttppParse
  <2>1. PICK r \in Requests : Call("parse", {r}, Parse(hp, r).s, Parse(hp, r).ok)
    BY <1>2 DEF HttppParse
  <2>2. hp' = Parse(hp, r).s /\ last' = [op |-> "parse", arg |-> {r}, ok |-> Parse(hp, r).ok]
    BY <2>1 DEF Call
  <2>3. last'.arg = {r} /\ (~last'.ok => Kept(hp, hp', r)) /\ hp \in Good /\ hp' \in Good
    BY <1>1, <2>2, ParseIs DEF IInv
  <2>4. SUFFICES ASSUME Kept(hp, hp', r)
                 PROVE  /\ \A v \in BagToSet(hp.vars) \cup BagToSet(hp'.vars) :
                              \/ GetVar(hp', v.name) = GetVar(hp, v.name)
                              \/ v.name \in {"__rawuri", "__queryargs"} /\ r.query # {}
                              \/ v.name \in {"__protocol", "__version"} /\ hp'.req_type = "unknown"
                        /\ hp'.postvars = hp.postvars
                        /\ \A v \in BagToSet(hp.queryvars) :
                              IsPrefix(v.value, ParamValues(hp', "queryvars", v.name))
    BY <2>3 DEF KeepsStep
  <2>5. ASSUME NEW v \in BagToSet(hp.queryvars)
        PROVE  IsPrefix(v.value, ParamValues(hp', "queryvars", v.name))
    <3>1. "queryvars" \in ParamTrees /\ hp.queryvars = hp["queryvars"]
      BY <2>3 DEF ParamTrees, Good, States
    <3>2. PICK D \in Contents(Param) : hp["queryvars"] = Tree(D)
      BY <2>3, <3>1, ParamTree
    <3>3. PICK E \in Contents(Param) : hp'["queryvars"] = Tree(E)
      BY <2>3, <3>1, ParamTree
    <3>4. v \in D /\ v \in Param
      BY <2>5, <3>1, <3>2, TreeSet DEF Contents
    <3>5. PICK a, b : a = ParamValues(hp, "queryvars", v.name) /\ b = ParamValues(hp', "queryvars", v.name)
      OBVIOUS
    <3>6. ValuesIn(D, v.name, a) /\ ValuesIn(E, v.name, b)
      BY <3>2, <3>3, <3>5, ParamValuesIs
    <3>7. a = v.value /\ a \in Seq(Text) /\ b \in Seq(Text)
      BY <3>4, <3>6 DEF ValuesIn
    <3>8. v.name \in Text
      BY <3>4 DEF Param
    <3>9. Begins(a, b)
      BY <2>4, <3>5, <3>8 DEF Kept
    <3> QED
      BY <3>5, <3>7, <3>9, BeginsPrefix
  <2> QED
    BY <2>4, <2>5 DEF Kept
<1>3. CASE HttppInitialize \/ HttppParseResponse \/ HttppParsePostdata \/ HttppSetVar
           \/ HttppDeleteVar \/ HttppSetQueryParam \/ HttppSetPostParam \/ HttppAddref \/ HttppRelease
  <2>1. last'.arg = {}
    BY <1>3 DEF HttppInitialize, HttppParseResponse, HttppParsePostdata, HttppSetVar, HttppDeleteVar,
                HttppSetQueryParam, HttppSetPostParam, HttppAddref, HttppRelease, Call
  <2> QED
    BY <2>1 DEF KeepsStep
<1> QED
  BY <1>1, <1>2, <1>3 DEF Next

(* A httpp_parse that fails leaves the headers, "__uri", "__req_type" and  *)
(* the parameters of the body as they were, and takes no query parameter   *)
(* or value away, whatever the parser held.                                *)
THEOREM RefusedKeeps == Spec => FailedParseKeeps
<1>1. IInv /\ [Next]_vars => [KeepsStep]_vars
  BY NextKeeps
<1> QED
  BY <1>1, ParserSafe, PTL DEF Spec, FailedParseKeeps, KeepsStep

-----------------------------------------------------------------------------
(* Forms.  First, sequences that are joined, and where the parts are.      *)

(* The parts of ss joined, one after the other: g[i] is made of the first  *)
(* i of them.                                                              *)
Joins(g, ss, S) ==
    /\ g \in [0..Len(ss) -> Seq(S)] /\ g[0] = << >>
    /\ \A i \in 1..Len(ss) : g[i] = g[i - 1] \o ss[i]

LEMMA FlattenLoop ==
    ASSUME NEW S, NEW ss \in Seq(Seq(S))
    PROVE  \E g : Joins(g, ss, S) /\ FlattenSeq(ss) = g[Len(ss)]
<1>1. PICK l \in Nat : l = Len(ss)
  BY LenProperties
<1>2. PICK T, F : T = Seq(S) /\ F = [i \in 1..l |-> [p \in T |-> p \o ss[i]]]
  OBVIOUS
<1>3. << >> \in T /\ F \in [1..l -> [T -> T]]
  <2>1. ASSUME NEW i \in 1..l, NEW p \in Seq(S) PROVE p \o ss[i] \in Seq(S)
    <3>1. ss[i] \in Seq(S)
      BY <1>1, ElementOfSeq
    <3> QED
      BY <3>1
  <2>2. << >> \in Seq(S)
    OBVIOUS
  <2> QED
    BY <1>2, <2>1, <2>2
<1>4. PICK g : IsLoop(g, l, T, << >>, F)
  BY <1>3, LoopExists
<1>5. \A i \in 1..l : g[i - 1] \in T /\ g[i] = g[i - 1] \o ss[i]
  <2>1. \A i \in 1..l : i - 1 \in 0..l
    OBVIOUS
  <2> QED
    BY <1>2, <1>4, <2>1 DEF IsLoop
<1>6. Joins(g, ss, S)
  BY <1>1, <1>2, <1>4, <1>5 DEF IsLoop, Joins
<1> DEFINE Eq(f) == f = [i \in 1..Len(ss) |-> IF i = 1 THEN ss[i] ELSE f[i - 1] \o ss[i]]
<1>7. l # 0 => g[1] = ss[1]
  <2>1. SUFFICES ASSUME l # 0 PROVE g[1] = ss[1]
    OBVIOUS
  <2>2. 1 \in 1..l /\ 1 - 1 = 0
    BY <2>1
  <2>3. g[1] = << >> \o ss[1]
    BY <1>4, <1>5, <2>2 DEF IsLoop
  <2>4. ss[1] \in Seq(S)
    BY <1>1, <2>2, ElementOfSeq
  <2> QED
    BY <2>3, <2>4
<1>8. \E f : Eq(f)
  <2>1. PICK f : f = [i \in 1..l |-> g[i]]
    OBVIOUS
  <2>2. \A i \in 1..l : i # 1 => i - 1 \in 1..l
    OBVIOUS
  <2>3. ASSUME NEW i \in 1..l PROVE f[i] = IF i = 1 THEN ss[i] ELSE f[i - 1] \o ss[i]
    <3>1. CASE i = 1
      <4>1. l # 0
        BY <3>1
      <4> QED
        BY <1>7, <2>1, <3>1, <4>1
    <3>2. CASE i # 1
      <4>1. f[i] = g[i] /\ f[i - 1] = g[i - 1]
        BY <2>1, <2>2, <3>2
      <4> QED
        BY <1>5, <3>2, <4>1
    <3> QED
      BY <3>1, <3>2
  <2>4. f = [i \in 1..l |-> f[i]]
    BY <2>1
  <2>5. f = [i \in 1..l |-> IF i = 1 THEN ss[i] ELSE f[i - 1] \o ss[i]]
    BY <2>3, <2>4
  <2> QED
    BY <1>1, <2>5
<1>9. PICK f : f = CHOOSE h : Eq(h)
  OBVIOUS
<1>10. Eq(f)
  <2> HIDE DEF Eq
  <2> QED
    BY <1>8, <1>9
<1>11. PICK I : I = {i \in Nat : i \in 1..l => f[i] = g[i]}
  OBVIOUS
<1>12. 0 \in I
  BY <1>11
<1>13. ASSUME NEW i \in Nat, i \in I PROVE i + 1 \in I
  <2>1. SUFFICES ASSUME i + 1 \in 1..l PROVE f[i + 1] = g[i + 1]
    BY <1>11
  <2>2. f[i + 1] = IF i + 1 = 1 THEN ss[i + 1] ELSE f[(i + 1) - 1] \o ss[i + 1]
    BY <1>1, <1>10, <2>1
  <2>3. CASE i = 0
    <3>1. i + 1 = 1 /\ l # 0
      BY <2>1, <2>3
    <3> QED
      BY <1>7, <2>2, <3>1
  <2>4. CASE i # 0
    <3>1. i \in 1..l /\ (i + 1) - 1 = i /\ i + 1 # 1
      BY <2>1, <2>4
    <3>2. f[i] = g[i]
      BY <1>11, <1>13, <3>1
    <3>3. g[i + 1] = g[(i + 1) - 1] \o ss[i + 1]
      BY <1>5, <2>1
    <3> QED
      BY <2>2, <3>1, <3>2, <3>3
  <2> QED
    BY <2>3, <2>4
<1>14. \A i \in 1..l : f[i] = g[i]
  <2>1. \A i \in Nat : i \in I
    BY <1>12, <1>13, AllNumbers
  <2> QED
    BY <1>11, <2>1
<1>15. FlattenSeq(ss) = g[l]
  <2>1. CASE l = 0
    <3>1. ss = << >>
      BY <1>1, <2>1, EmptySeq
    <3>2. FlattenSeq(ss) = ss
      BY <1>1, <2>1 DEF FlattenSeq
    <3> QED
      BY <1>4, <2>1, <3>1, <3>2 DEF IsLoop
  <2>2. CASE l # 0
    <3> DEFINE c == CHOOSE h : Eq(h)
    <3>1. FlattenSeq(ss) = c[Len(ss)]
      BY <1>1, <2>2 DEF FlattenSeq
    <3> HIDE DEF Eq
    <3>2. FlattenSeq(ss) = f[l]
      BY <1>1, <1>9, <3>1
    <3>3. l \in 1..l
      BY <2>2
    <3> QED
      BY <1>14, <3>2, <3>3
  <2> QED
    BY <2>1, <2>2
<1> QED
  BY <1>1, <1>6, <1>15

(* Where the parts are: part i is behind the first i - 1.                  *)
PartAt(t, part, at) ==
    /\ at + Len(part) <= Len(t)
    /\ \A j \in 1..Len(part) : t[at + j] = part[j]

(* b behind a is c.                                                        *)
Behind(a, b, c) ==
    /\ Len(a) \in Nat /\ Len(b) \in Nat /\ Len(c) = Len(a) + Len(b)
    /\ \A j \in 1..Len(a) : c[j] = a[j]
    /\ \A j \in 1..Len(b) : c[Len(a) + j] = b[j]

LEMMA ConcatBehind ==
    ASSUME NEW S, NEW a \in Seq(S), NEW b \in Seq(S)
    PROVE  Behind(a, b, a \o b)
<1>1. Len(a) \in Nat /\ Len(b) \in Nat
  BY LenProperties
<1>2. PICK c : c = a \o b
  OBVIOUS
<1>3. /\ Len(c) = Len(a) + Len(b)
      /\ \A j \in 1..(Len(a) + Len(b)) : c[j] = IF j <= Len(a) THEN a[j] ELSE b[j - Len(a)]
  BY <1>2, ConcatProperties
<1>4. \A j \in 1..Len(a) : j \in 1..(Len(a) + Len(b)) /\ j <= Len(a)
  BY <1>1
<1>5. \A j \in 1..Len(b) : /\ Len(a) + j \in 1..(Len(a) + Len(b)) /\ ~(Len(a) + j <= Len(a))
                           /\ (Len(a) + j) - Len(a) = j
  BY <1>1
<1>6. \A j \in 1..Len(a) : c[j] = a[j]
  BY <1>3, <1>4
<1>7. \A j \in 1..Len(b) : c[Len(a) + j] = b[j]
  BY <1>3, <1>5
<1> QED
  BY <1>1, <1>2, <1>3, <1>6, <1>7 DEF Behind

LEMMA JoinedParts ==
    ASSUME NEW S, NEW ss \in Seq(Seq(S)), NEW g, Joins(g, ss, S), NEW i \in 1..Len(ss)
    PROVE  /\ Len(g[i - 1]) \in Nat /\ Len(g[i]) = Len(g[i - 1]) + Len(ss[i])
           /\ PartAt(g[Len(ss)], ss[i], Len(g[i - 1]))
<1>1. PICK l \in Nat : l = Len(ss)
  BY LenProperties
<1>2. \A k \in 1..l : /\ k - 1 \in 0..l /\ k \in 0..l /\ ss[k] \in Seq(S)
                      /\ g[k - 1] \in Seq(S) /\ g[k] \in Seq(S) /\ g[k] = g[k - 1] \o ss[k]
  <2>1. \A k \in 1..l : k - 1 \in 0..l /\ k \in 0..l
    OBVIOUS
  <2> QED
    BY <1>1, <2>1, ElementOfSeq DEF Joins
<1>3. ASSUME NEW k \in 1..l
      PROVE  Behind(g[k - 1], ss[k], g[k])
  <2>1. g[k - 1] \in Seq(S) /\ ss[k] \in Seq(S) /\ g[k] = g[k - 1] \o ss[k]
    BY <1>2
  <2> QED
    BY <2>1, ConcatBehind
<1>4. PICK I : I = {d \in Nat : i + d <= l => PartAt(g[i + d], ss[i], Len(g[i - 1]))}
  OBVIOUS
<1>5. 0 \in I
  <2>1. i \in 1..l /\ i + 0 = i
    BY <1>1
  <2>2. Behind(g[i - 1], ss[i], g[i])
    BY <1>3, <2>1
  <2>3. PartAt(g[i], ss[i], Len(g[i - 1]))
    BY <2>2 DEF PartAt, Behind
  <2> QED
    BY <1>4, <2>1, <2>3
<1>6. ASSUME NEW d \in Nat, d \in I PROVE d + 1 \in I
  <2>1. SUFFICES ASSUME i + (d + 1) <= l PROVE PartAt(g[i + (d + 1)], ss[i], Len(g[i - 1]))
    BY <1>4
  <2>2. PICK k \in 1..l : k = i + (d + 1) /\ k - 1 = i + d
    BY <1>1, <2>1
  <2>3. PartAt(g[k - 1], ss[i], Len(g[i - 1]))
    BY <1>4, <1>6, <2>1, <2>2
  <2>4. i \in 1..l
    BY <1>1
  <2>5. PICK a, n : a = Len(g[i - 1]) /\ n = Len(ss[i])
    OBVIOUS
  <2>6. a \in Nat /\ n \in Nat /\ a + n <= Len(g[k - 1])
    <3>1. Behind(g[i - 1], ss[i], g[i])
      BY <1>3, <2>4
    <3> QED
      BY <2>3, <2>5, <3>1 DEF PartAt, Behind
  <2>7. /\ Len(g[k - 1]) \in Nat /\ Len(g[k]) \in Nat /\ Len(g[k - 1]) <= Len(g[k])
        /\ \A j \in 1..Len(g[k - 1]) : g[k][j] = g[k - 1][j]
    <3>1. Behind(g[k - 1], ss[k], g[k])
      BY <1>3
    <3>2. \A j \in 1..Len(g[k - 1]) : g[k][j] = g[k - 1][j]
      BY <3>1 DEF Behind
    <3>3. Len(g[k - 1]) \in Nat /\ Len(ss[k]) \in Nat /\ Len(g[k]) = Len(g[k - 1]) + Len(ss[k])
      BY <3>1 DEF Behind
    <3>4. Len(g[k]) \in Nat /\ Len(g[k - 1]) <= Len(g[k])
      <4>1. PICK x, y, z : x = Len(g[k - 1]) /\ y = Len(ss[k]) /\ z = Len(g[k])
        OBVIOUS
      <4>2. x \in Nat /\ y \in Nat /\ z = x + y
        BY <3>3, <4>1
      <4>3. z \in Nat /\ x <= z
        BY <4>2
      <4> QED
        BY <4>1, <4>3
    <3> QED
      BY <3>2, <3>3, <3>4
  <2>8. \A j \in 1..n : a + j \in 1..Len(g[k - 1])
    BY <2>6, <2>7
  <2>9. \A j \in 1..n : g[k][a + j] = g[k - 1][a + j]
    BY <2>7, <2>8
  <2>10. \A j \in 1..n : g[k - 1][a + j] = ss[i][j]
    BY <2>3, <2>5 DEF PartAt
  <2>11. a + n <= Len(g[k])
    BY <2>6, <2>7
  <2>12. PartAt(g[k], ss[i], a)
    BY <2>5, <2>9, <2>10, <2>11 DEF PartAt
  <2> QED
    BY <2>2, <2>5, <2>12
<1>7. PartAt(g[l], ss[i], Len(g[i - 1]))
  <2>1. PICK e \in Nat : e = l - i /\ i + e = l /\ i + e <= l
    BY <1>1
  <2>2. \A d \in Nat : d \in I
    BY <1>5, <1>6, AllNumbers
  <2>3. e \in I
    BY <2>2
  <2>4. PartAt(g[i + e], ss[i], Len(g[i - 1]))
    BY <1>4, <2>1, <2>3
  <2> QED
    BY <2>1, <2>4
<1>8. Behind(g[i - 1], ss[i], g[i])
  BY <1>1, <1>3
<1> QED
  BY <1>1, <1>7, <1>8 DEF Behind

(* The two halves of a character.                                          *)
LEMMA Halves ==
    ASSUME NEW c \in 1..255
    PROVE  /\ c \div 16 \in 0..15 /\ c % 16 \in 0..15
           /\ 16 * (c \div 16) + (c % 16) = c
OBVIOUS

LEMMA HexDigitIs ==
    ASSUME NEW n \in 0..15
    PROVE  HexDigit(n) \in (48..57) \cup (65..70) /\ Hex(HexDigit(n)) = n
<1>1. CASE n < 10
  <2>1. HexDigit(n) = 48 + n /\ 48 + n \in 48..57 /\ (48 + n) - 48 = n
    BY <1>1 DEF HexDigit
  <2> QED
    BY <2>1 DEF Hex, Digits
<1>2. CASE ~(n < 10)
  <2>1. HexDigit(n) = 55 + n /\ 55 + n \in 65..70 /\ (55 + n) - 55 = n /\ 55 + n \notin 48..57
    BY <1>2 DEF HexDigit
  <2> QED
    BY <2>1 DEF Hex, Digits
<1> QED
  BY <1>1, <1>2

(* What a character is escaped to.                                         *)
Alike == Digits \cup Upper \cup Lower
Parted == {Nul, Amp, Equals}

LEMMA EscapeCases ==
    ASSUME NEW c \in 1..255
    PROVE  \/ c = Space /\ Escape(c) = <<Plus>>
           \/ c \in Alike /\ Escape(c) = <<c>>
           \/ Escape(c) = <<Percent, HexDigit(c \div 16), HexDigit(c % 16)>>
BY DEF Escape, Alike

LEMMA EscapeIs ==
    ASSUME NEW c \in 1..255
    PROVE  /\ Escape(c) \in Seq(Nat) /\ Len(Escape(c)) \in {1, 3}
           /\ \A j \in 1..Len(Escape(c)) : Escape(c)[j] \notin Parted
<1>1. CASE Escape(c) = <<Plus>>
  BY <1>1 DEF Plus, Parted, Nul, Amp, Equals
<1>2. CASE c \in Alike /\ Escape(c) = <<c>>
  <2>1. c \notin Parted
    BY <1>2 DEF Alike, Digits, Upper, Lower, Parted, Nul, Amp, Equals
  <2> QED
    BY <1>2, <2>1
<1>3. CASE Escape(c) = <<Percent, HexDigit(c \div 16), HexDigit(c % 16)>>
  <2>1. PICK x, y : x = HexDigit(c \div 16) /\ y = HexDigit(c % 16)
    OBVIOUS
  <2>2. x \in (48..57) \cup (65..70) /\ y \in (48..57) \cup (65..70)
    BY <2>1, Halves, HexDigitIs
  <2>3. x \in Nat /\ y \in Nat /\ x \notin Parted /\ y \notin Parted
    BY <2>2 DEF Parted, Nul, Amp, Equals
  <2>4. Percent \in Nat /\ Percent \notin Parted
    BY DEF Percent, Parted, Nul, Amp, Equals
  <2>5. Escape(c) = <<Percent, x, y>>
    BY <1>3, <2>1
  <2>6. PICK e : e = <<Percent, x, y>>
    OBVIOUS
  <2>7. e \in Seq(Nat) /\ Len(e) = 3 /\ e[1] = Percent /\ e[2] = x /\ e[3] = y
    BY <2>3, <2>4, <2>6
  <2>8. \A j \in 1..3 : j = 1 \/ j = 2 \/ j = 3
    OBVIOUS
  <2>9. \A j \in 1..3 : e[j] \notin Parted
    BY <2>3, <2>4, <2>7, <2>8
  <2> QED
    BY <2>5, <2>6, <2>7, <2>9
<1> QED
  BY <1>1, <1>2, <1>3, EscapeCases

(* url_unescape takes the escaped character back.                          *)
LEMMA UnescapeOne ==
    ASSUME NEW c \in 1..255, NEW s \in Seq(Nat), NEW at \in Nat, PartAt(s, Escape(c), at), NEW f
    PROVE  UnescapeFrom(s, at + 1, f) = {<<c>> \o r : r \in f[at + Len(Escape(c)) + 1]}
<1>1. PICK l \in Nat : l = Len(s)
  BY LenProperties
<1>2. PICK i \in Nat : i = at + 1
  OBVIOUS
<1>3. CASE c = Space /\ Escape(c) = <<Plus>>
  <2>1. PICK e : e = <<Plus>> /\ Len(e) = 1 /\ e[1] = Plus /\ e = Escape(c)
    BY <1>3
  <2>2. i <= l /\ s[i] = Plus
    <3>1. PartAt(s, e, at) /\ 1 \in 1..Len(e)
      BY <2>1
    <3>2. s[at + 1] = e[1] /\ at + Len(e) <= Len(s)
      BY <3>1 DEF PartAt
    <3> QED
      BY <1>1, <1>2, <2>1, <3>2
  <2>3. ~(i > Len(s)) /\ i <= Len(s)
    BY <1>1, <2>2
  <2>4. s[i] = Plus /\ s[i] # Percent /\ s[i] # Hash /\ s[i] # Nul
    BY <2>2 DEF Plus, Percent, Hash, Nul
  <2>5. UnescapeFrom(s, i, f) = {<<Space>> \o r : r \in f[i + 1]}
    BY <2>3, <2>4 DEF UnescapeFrom
  <2>6. i + 1 = at + Len(Escape(c)) + 1
    BY <1>2, <2>1
  <2> QED
    BY <1>2, <1>3, <2>5, <2>6
<1>4. CASE c \in Alike /\ Escape(c) = <<c>>
  <2>1. PICK e : e = <<c>> /\ Len(e) = 1 /\ e[1] = c /\ e = Escape(c)
    BY <1>4
  <2>2. i <= l /\ s[i] = c
    <3>1. PartAt(s, e, at) /\ 1 \in 1..Len(e)
      BY <2>1
    <3>2. s[at + 1] = e[1] /\ at + Len(e) <= Len(s)
      BY <3>1 DEF PartAt
    <3> QED
      BY <1>1, <1>2, <2>1, <3>2
  <2>3. ~(i > Len(s)) /\ i <= Len(s)
    BY <1>1, <2>2
  <2>4. c # Percent /\ c # Plus /\ c # Hash /\ c # Nul
    BY <1>4 DEF Alike, Digits, Upper, Lower, Percent, Plus, Hash, Nul
  <2>5. UnescapeFrom(s, i, f) = {<<s[i]>> \o r : r \in f[i + 1]}
    BY <2>2, <2>3, <2>4 DEF UnescapeFrom
  <2>6. i + 1 = at + Len(Escape(c)) + 1
    BY <1>2, <2>1
  <2> QED
    BY <1>2, <2>2, <2>5, <2>6
<1>5. CASE Escape(c) = <<Percent, HexDigit(c \div 16), HexDigit(c % 16)>>
  <2>1. PICK x, y : x = HexDigit(c \div 16) /\ y = HexDigit(c % 16)
    OBVIOUS
  <2>2. Hex(x) = c \div 16 /\ Hex(y) = c % 16
    BY <2>1, Halves, HexDigitIs
  <2>3. Hex(x) # -1 /\ Hex(y) # -1 /\ 16 * Hex(x) + Hex(y) = c
    <3>1. PICK h, g : h = Hex(x) /\ g = Hex(y)
      OBVIOUS
    <3>2. h \in 0..15 /\ g \in 0..15 /\ 16 * h + g = c
      BY <2>2, <3>1, Halves
    <3>3. h # -1 /\ g # -1
      BY <3>2
    <3> QED
      BY <3>1, <3>2, <3>3
  <2>4. PICK e : e = <<Percent, x, y>> /\ e = Escape(c)
    BY <1>5, <2>1
  <2>5. Len(e) = 3 /\ e[1] = Percent /\ e[2] = x /\ e[3] = y
    BY <2>4
  <2>6. 1 \in 1..3 /\ 2 \in 1..3 /\ 3 \in 1..3
    OBVIOUS
  <2>7. at + 3 <= l /\ s[at + 1] = Percent /\ s[at + 2] = x /\ s[at + 3] = y
    BY <1>1, <2>4, <2>5, <2>6 DEF PartAt
  <2>8. at + 1 = i /\ at + 2 = i + 1 /\ at + 3 = i + 2 /\ i + 3 = at + Len(Escape(c)) + 1
    BY <1>2, <2>4, <2>5
  <2>9. ~(i > Len(s)) /\ i <= Len(s) /\ i + 2 <= Len(s)
    BY <1>1, <2>7, <2>8
  <2>10. UnescapeFrom(s, i, f) = {<<16 * Hex(s[i + 1]) + Hex(s[i + 2])>> \o r : r \in f[i + 3]}
    <3>1. s[i] = Percent /\ Hex(s[i + 1]) # -1 /\ Hex(s[i + 2]) # -1
      BY <2>3, <2>7, <2>8
    <3>2. s[i] # Plus /\ s[i] # Hash /\ s[i] # Nul
      BY <3>1 DEF Plus, Percent, Hash, Nul
    <3> QED
      BY <2>9, <3>1, <3>2 DEF UnescapeFrom
  <2>11. 16 * Hex(s[i + 1]) + Hex(s[i + 2]) = c
    BY <2>3, <2>7, <2>8
  <2> QED
    BY <1>2, <2>8, <2>10, <2>11
<1> QED
  BY <1>3, <1>4, <1>5, EscapeCases

LEMMA IsSequence ==
    ASSUME NEW S, NEW n \in Nat, NEW s, s = [i \in 1..n |-> s[i]], \A i \in 1..n : s[i] \in S
    PROVE  s \in Seq(S) /\ Len(s) = n
<1>1. s \in [1..n -> S]
  OBVIOUS
<1> QED
  BY <1>1

LEMMA EscapeUnparted ==
    ASSUME NEW c \in 1..255
    PROVE  Escape(c) \in Seq(Nat \ Parted)
<1>1. PICK e, n : e = Escape(c) /\ n = Len(e)
  OBVIOUS
<1>2. e \in Seq(Nat) /\ n \in Nat /\ \A j \in 1..n : e[j] \notin Parted
  <2>1. e \in Seq(Nat) /\ \A j \in 1..n : e[j] \notin Parted
    BY <1>1, EscapeIs
  <2> QED
    BY <1>1, <2>1, LenProperties
<1>3. \A j \in 1..n : e[j] \in Nat \ Parted
  BY <1>1, <1>2, ElementOfSeq
<1>4. e = [j \in 1..n |-> e[j]]
  BY <1>1, <1>2
<1>5. PICK S : S = Nat \ Parted
  OBVIOUS
<1>6. \A j \in 1..n : e[j] \in S
  BY <1>3, <1>5
<1>7. e \in Seq(S)
  BY <1>2, <1>4, <1>6, IsSequence
<1> QED
  BY <1>1, <1>5, <1>7

(* A value escaped, and where its characters have gone.                    *)
EscapedAt(g, v, s) ==
    /\ s = g[Len(v)] /\ g[0] = << >>
    /\ \A i \in 1..Len(v) : /\ Len(g[i - 1]) \in Nat
                            /\ Len(g[i]) = Len(g[i - 1]) + Len(Escape(v[i]))
                            /\ PartAt(s, Escape(v[i]), Len(g[i - 1]))

LEMMA EscapeAllLoop ==
    ASSUME NEW v \in Seq(1..255)
    PROVE  \E g : EscapeAll(v) \in Seq(Nat \ Parted) /\ EscapedAt(g, v, EscapeAll(v))
<1>1. PICK n \in Nat : n = Len(v) /\ DOMAIN v = 1..n
  BY LenProperties
<1>2. PICK S, ss : S = Nat \ Parted /\ ss = [i \in 1..n |-> Escape(v[i])]
  OBVIOUS
<1>3. \A i \in 1..n : v[i] \in 1..255
  BY <1>1, ElementOfSeq
<1>4. ss \in Seq(Seq(S)) /\ Len(ss) = n /\ \A i \in 1..n : ss[i] = Escape(v[i])
  <2>1. \A i \in 1..n : Escape(v[i]) \in Seq(S)
    BY <1>2, <1>3, EscapeUnparted
  <2>2. ss \in Seq(Seq(S))
    <3>1. \A i \in 1..n : ss[i] \in Seq(S)
      BY <1>2, <2>1
    <3>2. ss = [i \in 1..n |-> ss[i]]
      BY <1>2
    <3> QED
      BY <3>1, <3>2, IsSequence
  <2> QED
    BY <1>2, <2>2
<1>5. EscapeAll(v) = FlattenSeq(ss)
  BY <1>1, <1>2 DEF EscapeAll
<1>6. PICK g : Joins(g, ss, S) /\ FlattenSeq(ss) = g[n]
  BY <1>4, FlattenLoop
<1>7. EscapeAll(v) \in Seq(S)
  <2>1. n \in 0..Len(ss)
    BY <1>4
  <2> QED
    BY <1>5, <1>6, <2>1 DEF Joins
<1>8. ASSUME NEW i \in 1..n
      PROVE  /\ Len(g[i - 1]) \in Nat /\ Len(g[i]) = Len(g[i - 1]) + Len(Escape(v[i]))
             /\ PartAt(EscapeAll(v), Escape(v[i]), Len(g[i - 1]))
  <2>1. /\ Len(g[i - 1]) \in Nat /\ Len(g[i]) = Len(g[i - 1]) + Len(ss[i])
        /\ PartAt(g[Len(ss)], ss[i], Len(g[i - 1]))
    <3>1. i \in 1..Len(ss)
      BY <1>4
    <3> QED
      BY <1>4, <1>6, <3>1, JoinedParts
  <2> QED
    BY <1>4, <1>5, <1>6, <2>1
<1> QED
  BY <1>1, <1>2, <1>5, <1>6, <1>7, <1>8 DEF EscapedAt, Joins

(* url_unescape inverts the escaping of values.                            *)
LEMMA UnescapeAll ==
    ASSUME NEW v \in Seq(1..255)
    PROVE  UrlUnescape(EscapeAll(v)) = {v}
<1>1. PICK n \in Nat : n = Len(v)
  BY LenProperties
<1>2. PICK s : s = EscapeAll(v)
  OBVIOUS
<1>3. PICK g : s \in Seq(Nat \ Parted) /\ EscapedAt(g, v, s)
  BY <1>2, EscapeAllLoop
<1>4. s \in Seq(Nat)
  BY <1>3, SeqMonotonic
<1>5. PICK l \in Nat : l = Len(s)
  BY <1>4, LenProperties
<1>6. PICK from : /\ UrlUnescape(s) = from[1]
                  /\ \A i \in 1..(Len(s) + 1) : from[i] = UnescapeFrom(s, i, from)
  BY <1>4, UnescapeLoop
<1>7. PICK at : at = [k \in 0..n |-> Len(g[k])]
  OBVIOUS
<1>8. /\ at[0] = 0 /\ at[n] = l
      /\ \A k \in 1..n : /\ at[k - 1] \in Nat /\ at[k] = at[k - 1] + Len(Escape(v[k]))
                         /\ PartAt(s, Escape(v[k]), at[k - 1])
  <2>1. \A k \in 1..n : k \in 0..n /\ k - 1 \in 0..n
    OBVIOUS
  <2>2. \A k \in 1..n : at[k] = Len(g[k]) /\ at[k - 1] = Len(g[k - 1])
    BY <1>7, <2>1
  <2>3. at[0] = 0 /\ at[n] = l
    <3>1. 0 \in 0..n /\ n \in 0..n /\ Len(<< >>) = 0
      OBVIOUS
    <3>2. g[0] = << >> /\ s = g[n]
      BY <1>1, <1>3 DEF EscapedAt
    <3> QED
      BY <1>5, <1>7, <3>1, <3>2
  <2> QED
    BY <1>1, <1>3, <2>2, <2>3 DEF EscapedAt
<1>9. PICK I : I = {d \in Nat : d <= n => from[at[n - d] + 1] = {SubSeq(v, n - d + 1, n)}}
  OBVIOUS
<1>10. 0 \in I
  <2>1. SubSeq(v, n + 1, n) = << >>
    BY SubSeqEmpty
  <2>2. l + 1 \in 1..(Len(s) + 1) /\ l + 1 > Len(s)
    BY <1>5
  <2>3. from[l + 1] = UnescapeFrom(s, l + 1, from)
    BY <1>6, <2>2
  <2>4. UnescapeFrom(s, l + 1, from) = {<< >>}
    <3>1. ~(l + 1 <= Len(s))
      BY <1>5
    <3> QED
      BY <2>2, <3>1 DEF UnescapeFrom
  <2>5. n - 0 = n
    OBVIOUS
  <2> QED
    BY <1>8, <1>9, <2>1, <2>3, <2>4, <2>5
<1>11. ASSUME NEW d \in Nat, d \in I PROVE d + 1 \in I
  <2>1. SUFFICES ASSUME d + 1 <= n
                 PROVE  from[at[n - (d + 1)] + 1] = {SubSeq(v, n - (d + 1) + 1, n)}
    BY <1>9
  <2>2. PICK k \in 1..n : k = n - d /\ k - 1 = n - (d + 1) /\ d <= n
    BY <2>1
  <2>3. from[at[k] + 1] = {SubSeq(v, k + 1, n)}
    BY <1>9, <1>11, <2>2
  <2>4. PICK a \in Nat : a = at[k - 1]
    BY <1>8
  <2>5. at[k] = a + Len(Escape(v[k])) /\ PartAt(s, Escape(v[k]), a)
    BY <1>8, <2>4
  <2>6. v[k] \in 1..255
    BY <1>1, ElementOfSeq
  <2>7. UnescapeFrom(s, a + 1, from) = {<<v[k]>> \o r : r \in from[a + Len(Escape(v[k])) + 1]}
    BY <1>4, <2>5, <2>6, UnescapeOne
  <2>8. from[a + 1] = UnescapeFrom(s, a + 1, from)
    <3>1. Len(Escape(v[k])) \in Nat
      BY <2>6, EscapeIs
    <3>2. a + Len(Escape(v[k])) <= Len(s)
      BY <2>5 DEF PartAt
    <3>3. a + 1 \in 1..(Len(s) + 1)
      BY <1>5, <3>1, <3>2
    <3> QED
      BY <1>6, <3>3
  <2>9. from[a + 1] = {<<v[k]>> \o r : r \in {SubSeq(v, k + 1, n)}}
    BY <2>3, <2>5, <2>7, <2>8
  <2>10. from[a + 1] = {<<v[k]>> \o SubSeq(v, k + 1, n)}
    BY <2>9
  <2>11. SubSeq(v, k, n) = <<v[k]>> \o SubSeq(v, k + 1, n)
    <3>1. k \in 1..Len(v) /\ n \in k..Len(v)
      BY <1>1
    <3> QED
      BY <3>1, SubSeqRecursiveFirst
  <2>12. n - (d + 1) + 1 = k
    BY <2>2
  <2> QED
    BY <2>2, <2>4, <2>10, <2>11, <2>12
<1>12. \A d \in Nat : d \in I
  BY <1>10, <1>11, AllNumbers
<1>13. from[1] = {SubSeq(v, 1, n)}
  <2>1. n \in I
    BY <1>12
  <2>2. from[at[n - n] + 1] = {SubSeq(v, n - n + 1, n)}
    BY <1>9, <2>1
  <2>3. n - n = 0 /\ 0 + 1 = 1
    OBVIOUS
  <2> QED
    BY <1>8, <2>2, <2>3
<1> QED
  BY <1>1, <1>2, <1>6, <1>13, SubSeqFull

(* An empty value is nothing, and the others are something.                *)
LEMMA EscapeAllNone ==
    ASSUME NEW v \in Seq(1..255)
    PROVE  EscapeAll(v) = << >> <=> v = << >>
<1>1. PICK n \in Nat : n = Len(v)
  BY LenProperties
<1>2. PICK s, g : s = EscapeAll(v) /\ s \in Seq(Nat \ Parted) /\ EscapedAt(g, v, s)
  BY EscapeAllLoop
<1>3. CASE v = << >>
  BY <1>2, <1>3 DEF EscapedAt
<1>4. CASE v # << >>
  <2>1. 1 \in 1..n
    BY <1>1, <1>4, EmptySeq
  <2>2. PartAt(s, Escape(v[1]), Len(g[1 - 1])) /\ Len(g[1 - 1]) \in Nat
    BY <1>1, <1>2, <2>1 DEF EscapedAt
  <2>3. Len(g[1 - 1]) + Len(Escape(v[1])) <= Len(s)
    BY <2>2 DEF PartAt
  <2>4. Len(Escape(v[1])) \in {1, 3}
    <3>1. v[1] \in 1..255
      BY <1>1, <2>1, ElementOfSeq
    <3> QED
      BY <3>1, EscapeIs
  <2>5. s # << >>
    <3>1. SUFFICES ASSUME s = << >> PROVE FALSE
      OBVIOUS
    <3>2. Len(s) = 0
      BY <3>1
    <3>3. PICK x, y : x = Len(g[1 - 1]) /\ y = Len(Escape(v[1]))
      OBVIOUS
    <3>4. x \in Nat /\ y \in {1, 3} /\ x + y <= 0
      BY <2>2, <2>3, <2>4, <3>2, <3>3
    <3> QED
      BY <3>4
  <2> QED
    BY <1>2, <1>4, <2>5
<1> QED
  BY <1>3, <1>4

-----------------------------------------------------------------------------
(* A name, '=' and an escaped value in a query, from start to end.         *)
ElementAt(s, start, mid, end, key, value) ==
    /\ start \in Nat \ {0} /\ mid \in Nat /\ end \in Nat /\ Len(key) \in Nat /\ Len(value) \in Nat
    /\ mid = start + Len(key) /\ end = mid + Len(value) /\ end <= Len(s)
    /\ \A j \in 1..Len(key) : s[start - 1 + j] = key[j]
    /\ s[mid] = Equals
    /\ \A j \in 1..Len(value) : s[mid + j] = value[j]

Unparted(t) == t \in Seq(Nat \ Parted)

LEMMA UnpartedIs ==
    ASSUME NEW t, Unparted(t)
    PROVE  t \in Seq(Nat) /\ \A j \in 1..Len(t) : t[j] \in Nat /\ t[j] \notin Parted
<1>1. PICK S : S = Nat \ Parted /\ t \in Seq(S)
  BY DEF Unparted
<1>2. t \in Seq(Nat)
  BY <1>1, SeqMonotonic
<1>3. \A j \in 1..Len(t) : t[j] \in S
  BY <1>1, ElementOfSeq
<1> QED
  BY <1>1, <1>2, <1>3

(* Other characters than '&' and '=' change nothing.                       *)
Quiet(s, a, n) == a + n <= Len(s) /\ \A j \in 1..n : s[a + j] \notin Parted

LEMMA QueryQuiet ==
    ASSUME NEW s \in Seq(Nat), NEW after, QueryLoop(s, after),
           NEW a \in Nat, NEW n \in Nat, Quiet(s, a, n)
    PROVE  after[a + n] = after[a]
<1>1. PICK l \in Nat : l = Len(s)
  BY LenProperties
<1>2. PICK I : I = {k \in Nat : k <= n => after[a + k] = after[a]}
  OBVIOUS
<1>3. 0 \in I
  BY <1>2
<1>4. ASSUME NEW k \in Nat, k \in I PROVE k + 1 \in I
  <2>1. SUFFICES ASSUME k + 1 <= n PROVE after[a + (k + 1)] = after[a]
    BY <1>2
  <2>2. PICK i \in 1..Len(s) : i = a + (k + 1) /\ i - 1 = a + k
    BY <1>1, <2>1 DEF Quiet
  <2>3. k + 1 \in 1..n /\ k <= n
    BY <2>1
  <2>4. s[i] \notin Parted
    BY <2>2, <2>3 DEF Quiet
  <2>5. s[i] # Amp /\ s[i] # Equals
    BY <2>4 DEF Parted
  <2>6. after[i] = QueryStep(s, i, after[i - 1])
    BY DEF QueryLoop
  <2>7. after[i] = after[i - 1]
    BY <2>5, <2>6 DEF QueryStep
  <2>8. after[a + k] = after[a]
    BY <1>2, <1>4, <2>3
  <2> QED
    BY <2>2, <2>7, <2>8
<1>5. n \in I
  BY <1>3, <1>4, AllNumbers
<1> QED
  BY <1>2, <1>5

(* What parse_query knows of an element at its end.                        *)
LEMMA ElementParsed ==
    ASSUME NEW s \in Seq(Nat), NEW after, QueryLoop(s, after),
           NEW start, NEW mid, NEW end, NEW key, NEW value,
           ElementAt(s, start, mid, end, key, value), Unparted(key), Unparted(value),
           NEW out, after[start - 1] = [start |-> start, mid |-> 0, out |-> out]
    PROVE  after[end] = [start |-> start, mid |-> mid, out |-> out]
<1>1. PICK l \in Nat : l = Len(s)
  BY LenProperties
<1>2. PICK m \in Nat, n \in Nat : m = Len(key) /\ n = Len(value)
  BY DEF ElementAt
<1>3. PICK a \in Nat : a = start - 1
  BY DEF ElementAt
<1>4. mid = a + m + 1 /\ end = mid + n /\ end <= l /\ mid \in Nat /\ start = a + 1
  BY <1>1, <1>2, <1>3 DEF ElementAt
<1>5. \A j \in 1..m : s[a + j] \notin Parted
  <2>1. \A j \in 1..m : s[a + j] = key[j]
    BY <1>2, <1>3 DEF ElementAt
  <2> QED
    BY <1>2, <2>1, UnpartedIs
<1>6. \A j \in 1..n : s[mid + j] \notin Parted
  <2>1. \A j \in 1..n : s[mid + j] = value[j]
    BY <1>2 DEF ElementAt
  <2> QED
    BY <1>2, <2>1, UnpartedIs
<1>7. after[a + m] = after[a]
  <2>1. Quiet(s, a, m)
    BY <1>1, <1>4, <1>5 DEF Quiet
  <2> QED
    BY <2>1, QueryQuiet
<1>8. after[mid] = [start |-> start, mid |-> mid, out |-> out]
  <2>1. mid \in 1..Len(s) /\ mid - 1 = a + m
    BY <1>1, <1>4
  <2>2. after[mid] = QueryStep(s, mid, after[mid - 1])
    BY <2>1 DEF QueryLoop
  <2>3. s[mid] = Equals /\ s[mid] # Amp
    BY DEF ElementAt, Equals, Amp
  <2>4. after[mid - 1] = [start |-> start, mid |-> 0, out |-> out]
    BY <1>3, <1>7, <2>1
  <2>5. QueryStep(s, mid, after[mid - 1]) = [after[mid - 1] EXCEPT !.mid = mid]
    BY <2>3 DEF QueryStep
  <2> QED
    BY <2>2, <2>4, <2>5
<1>9. after[mid + n] = after[mid]
  <2>1. Quiet(s, mid, n)
    BY <1>1, <1>4, <1>6 DEF Quiet
  <2> QED
    BY <1>4, <2>1, QueryQuiet
<1> QED
  BY <1>4, <1>8, <1>9

(* strcmp sees all of a string without NULs.                               *)
LEMMA CStringWhole ==
    ASSUME NEW t, \A j \in DOMAIN t : t[j] # Nul
    PROVE  CString(t) = t
<1>1. {j \in DOMAIN t : t[j] = Nul} = {}
  OBVIOUS
<1> QED
  BY <1>1 DEF CString

LEMMA SubSeqIs ==
    ASSUME NEW s \in Seq(Nat), NEW t \in Seq(Nat), NEW a \in Nat, a + Len(t) <= Len(s),
           \A j \in 1..Len(t) : s[a + j] = t[j]
    PROVE  SubSeq(s, a + 1, a + Len(t)) = t
<1>1. PICK l \in Nat, n \in Nat : l = Len(s) /\ n = Len(t)
  BY LenProperties
<1>2. \A i \in (a + 1)..(a + n) : s[i] \in Nat
  <2>1. \A i \in (a + 1)..(a + n) : i \in 1..l
    BY <1>1
  <2> QED
    BY <1>1, <2>1, ElementOfSeq
<1>3. a + 1 \in Int /\ a + n \in Int
  OBVIOUS
<1>4. PICK u, x, y : u = SubSeq(s, x, y) /\ x = a + 1 /\ y = a + n
  OBVIOUS
<1>5. /\ u \in Seq(Nat)
      /\ Len(u) = IF a + 1 <= a + n THEN (a + n) - (a + 1) + 1 ELSE 0
      /\ \A i \in 1..((a + n) - (a + 1) + 1) : u[i] = s[(a + 1) + i - 1]
  <2>1. x \in Int /\ y \in Int /\ \A i \in x..y : s[i] \in Nat
    BY <1>2, <1>3, <1>4
  <2>2. /\ u \in Seq(Nat) /\ Len(u) = (IF x <= y THEN y - x + 1 ELSE 0)
        /\ \A i \in 1..(y - x + 1) : u[i] = s[x + i - 1]
    BY <1>4, <2>1, SubSeqProperties
  <2> QED
    BY <1>4, <2>2
<1>6. Len(u) = n
  BY <1>5
<1>7. \A i \in 1..n : i \in 1..((a + n) - (a + 1) + 1) /\ (a + 1) + i - 1 = a + i
  OBVIOUS
<1>8. \A i \in 1..n : u[i] = t[i]
  <2>1. \A i \in 1..n : u[i] = s[a + i]
    BY <1>5, <1>7
  <2> QED
    BY <1>1, <2>1
<1>9. u = t
  BY <1>1, <1>5, <1>6, <1>8, SeqEqual
<1> QED
  BY <1>1, <1>4, <1>9

(* What is found of a name with a value: nothing, if the value is empty.   *)
Pair(key, value) == IF value = << >> THEN << >> ELSE << <<key, {value}>> >>

LEMMA ElementGives ==
    ASSUME NEW s \in Seq(Nat), NEW start, NEW mid, NEW end, NEW key, NEW v \in Seq(1..255),
           ElementAt(s, start, mid, end, key, EscapeAll(v)), Unparted(key), key # << >>
    PROVE  QueryElement(s, start, mid, end + 1) = Pair(key, v)
<1>1. PICK value : value = EscapeAll(v) /\ Unparted(value)
  BY EscapeAllLoop DEF Unparted
<1>2. PICK l \in Nat, m \in Nat, n \in Nat : l = Len(s) /\ m = Len(key) /\ n = Len(value)
  BY <1>1, LenProperties DEF ElementAt
<1>3. PICK a \in Nat : a = start - 1
  BY DEF ElementAt
<1>4. mid = a + m + 1 /\ end = mid + n /\ end <= l /\ mid \in Nat /\ start = a + 1
  BY <1>1, <1>2, <1>3 DEF ElementAt
<1>5. key \in Seq(Nat) /\ value \in Seq(Nat)
  BY <1>1, UnpartedIs
<1>6. m # 0 /\ (n = 0 <=> v = << >>)
  <2>1. m # 0
    BY <1>2, <1>5, EmptySeq
  <2>2. n = 0 <=> value = << >>
    BY <1>2, <1>5, EmptySeq
  <2>3. value = << >> <=> v = << >>
    BY <1>1, EscapeAllNone
  <2> QED
    BY <2>1, <2>2, <2>3
<1>7. CASE v = << >>
  <2>1. mid + 1 = end + 1
    BY <1>4, <1>6, <1>7
  <2>2. QueryElement(s, start, mid, end + 1) = << >>
    BY <2>1 DEF QueryElement
  <2> QED
    BY <1>7, <2>2 DEF Pair
<1>8. CASE v # << >>
  <2>1. ~(start >= end + 1) /\ mid # 0 /\ mid # start /\ mid + 1 # end + 1
    BY <1>4, <1>6, <1>8
  <2>2. SubSeq(s, start, mid - 1) = key
    <3>1. \A j \in 1..Len(key) : s[a + j] = key[j]
      BY <1>3 DEF ElementAt
    <3>2. a + Len(key) <= Len(s)
      BY <1>2, <1>4
    <3>3. SubSeq(s, a + 1, a + Len(key)) = key
      BY <1>5, <3>1, <3>2, SubSeqIs
    <3>4. mid - 1 = a + Len(key)
      BY <1>2, <1>4
    <3> QED
      BY <1>4, <3>3, <3>4
  <2>3. SubSeq(s, mid + 1, (end + 1) - 1) = value
    <3>1. \A j \in 1..Len(value) : s[mid + j] = value[j]
      BY <1>1 DEF ElementAt
    <3>2. mid + Len(value) <= Len(s)
      BY <1>2, <1>4
    <3>3. SubSeq(s, mid + 1, mid + Len(value)) = value
      BY <1>4, <1>5, <3>1, <3>2, SubSeqIs
    <3>4. (end + 1) - 1 = mid + Len(value)
      BY <1>2, <1>4
    <3> QED
      BY <3>3, <3>4
  <2>4. CString(key) = key
    <3>1. \A j \in 1..Len(key) : key[j] # Nul
      BY UnpartedIs DEF Parted
    <3>2. DOMAIN key = 1..Len(key)
      BY <1>5
    <3> QED
      BY <3>1, <3>2, CStringWhole
  <2>5. {CString(x) : x \in UrlUnescape(value)} = {v}
    <3>1. UrlUnescape(value) = {v}
      BY <1>1, UnescapeAll
    <3>2. \A j \in DOMAIN v : v[j] # Nul
      <4>1. \A j \in 1..Len(v) : v[j] \in 1..255
        BY ElementOfSeq
      <4>2. DOMAIN v = 1..Len(v)
        OBVIOUS
      <4>3. \A c \in 1..255 : c # Nul
        BY DEF Nul
      <4> QED
        BY <4>1, <4>2, <4>3
    <3>3. CString(v) = v
      BY <3>2, CStringWhole
    <3> QED
      BY <3>1, <3>3
  <2>6. QueryElement(s, start, mid, end + 1)
          = << <<CString(SubSeq(s, start, mid - 1)),
                 {CString(x) : x \in UrlUnescape(SubSeq(s, mid + 1, (end + 1) - 1))}>> >>
    BY <2>1 DEF QueryElement
  <2> QED
    BY <1>8, <2>2, <2>3, <2>4, <2>5, <2>6 DEF Pair
<1> QED
  BY <1>7, <1>8

-----------------------------------------------------------------------------
(* What IsForm says of a field.                                            *)
LEMMA FormIs ==
    ASSUME NEW form \in Seq(Text \X Text), IsForm(form), NEW i \in 1..Len(form)
    PROVE  /\ Unparted(form[i][1]) /\ form[i][1] # << >> /\ form[i][1] \in Text
           /\ form[i][2] \in Seq(1..255) /\ form[i][2] \in Text
<1>1. form[i] \in Text \X Text /\ i \in DOMAIN form
  BY ElementOfSeq
<1>2. PICK k, v, S : k = form[i][1] /\ v = form[i][2] /\ S = Nat \ Parted
  OBVIOUS
<1>3. k \in Seq(Nat) /\ v \in Seq(Nat)
  BY <1>1, <1>2 DEF Text
<1>4. PICK m \in Nat, n \in Nat : m = Len(k) /\ n = Len(v) /\ DOMAIN k = 1..m /\ DOMAIN v = 1..n
  BY <1>3, LenProperties
<1>5. k # << >> /\ \A j \in 1..m : k[j] \notin Parted
  BY <1>1, <1>2, <1>4 DEF IsForm, Parted
<1>6. \A j \in 1..n : v[j] \in 1..255
  BY <1>1, <1>2, <1>4 DEF IsForm
<1>7. k \in Seq(S)
  <2>1. \A j \in 1..m : k[j] \in S
    BY <1>2, <1>3, <1>4, <1>5, ElementOfSeq
  <2>2. k = [j \in 1..m |-> k[j]]
    BY <1>3, <1>4
  <2> QED
    BY <2>1, <2>2, IsSequence
<1>8. v \in Seq(1..255)
  <2>1. v = [j \in 1..n |-> v[j]]
    BY <1>3, <1>4
  <2> QED
    BY <1>6, <2>1, IsSequence
<1> QED
  BY <1>2, <1>3, <1>5, <1>7, <1>8 DEF Unparted, Text

(* A part made of two.                                                     *)
LEMMA PartsOf ==
    ASSUME NEW s, NEW at \in Nat, NEW a, NEW b, NEW c, PartAt(s, c, at), Behind(a, b, c), Len(s) \in Nat
    PROVE  PartAt(s, a, at) /\ PartAt(s, b, at + Len(a)) /\ Len(c) = Len(a) + Len(b)
<1>1. PICK l \in Nat, m \in Nat, n \in Nat : l = Len(s) /\ m = Len(a) /\ n = Len(b) /\ Len(c) = m + n
  BY DEF Behind
<1>2. at + (m + n) <= l
  BY <1>1 DEF PartAt
<1>3. \A j \in 1..(m + n) : s[at + j] = c[j]
  BY <1>1 DEF PartAt
<1>4. \A j \in 1..m : j \in 1..(m + n) /\ c[j] = a[j]
  BY <1>1 DEF Behind
<1>5. \A j \in 1..n : m + j \in 1..(m + n) /\ c[m + j] = b[j] /\ (at + m) + j = at + (m + j)
  BY <1>1 DEF Behind
<1>6. \A j \in 1..m : s[at + j] = a[j]
  BY <1>3, <1>4
<1>7. \A j \in 1..n : s[(at + m) + j] = b[j]
  BY <1>3, <1>5
<1>8. at + m <= l /\ (at + m) + n <= l
  BY <1>2
<1> QED
  BY <1>1, <1>6, <1>7, <1>8 DEF PartAt

(* What an encoded form has for an element.                                *)
IsPart(part, before, key, value) == part = before \o key \o <<Equals>> \o value

LEMMA PartElement ==
    ASSUME NEW s \in Seq(Nat), NEW a \in Nat, NEW before \in Seq(Nat), NEW key, NEW value,
           Unparted(key), Unparted(value), NEW part, PartAt(s, part, a),
           IsPart(part, before, key, value)
    PROVE  /\ ElementAt(s, a + Len(before) + 1, a + Len(before) + 1 + Len(key), a + Len(part), key, value)
           /\ PartAt(s, before, a) /\ part \in Seq(Nat)
<1>1. key \in Seq(Nat) /\ value \in Seq(Nat) /\ <<Equals>> \in Seq(Nat) /\ Len(s) \in Nat
  <2>1. <<Equals>> \in Seq(Nat)
    BY DEF Equals
  <2> QED
    BY <2>1, UnpartedIs, LenProperties
<1>2. PICK x, y, e : x = before \o key /\ e = <<Equals>> /\ y = x \o e /\ part = y \o value
  BY DEF IsPart
<1>3. x \in Seq(Nat) /\ y \in Seq(Nat) /\ e \in Seq(Nat) /\ part \in Seq(Nat)
  BY <1>1, <1>2
<1>4. Behind(y, value, part) /\ Behind(x, e, y) /\ Behind(before, key, x)
  BY <1>1, <1>2, <1>3, ConcatBehind
<1>5. PartAt(s, y, a) /\ PartAt(s, value, a + Len(y)) /\ Len(part) = Len(y) + Len(value)
  BY <1>1, <1>4, PartsOf
<1>6. PartAt(s, x, a) /\ PartAt(s, e, a + Len(x)) /\ Len(y) = Len(x) + Len(e)
  BY <1>1, <1>4, <1>5, PartsOf
<1>7. PartAt(s, before, a) /\ PartAt(s, key, a + Len(before)) /\ Len(x) = Len(before) + Len(key)
  BY <1>1, <1>4, <1>6, PartsOf
<1>8. PICK b \in Nat, m \in Nat, n \in Nat, l \in Nat :
        b = Len(before) /\ m = Len(key) /\ n = Len(value) /\ l = Len(s)
  BY <1>1, LenProperties
<1>9. Len(e) = 1 /\ e[1] = Equals
  BY <1>2
<1>10. PICK mid \in Nat : mid = a + b + 1 + m
  OBVIOUS
<1>11. Len(x) = b + m /\ Len(y) = b + m + 1 /\ Len(part) = b + m + 1 + n
  BY <1>5, <1>6, <1>7, <1>8, <1>9
<1>12. a + Len(y) = mid /\ a + Len(part) = mid + n /\ a + Len(x) + 1 = mid
  <2>1. PICK p, q, r : p = Len(x) /\ q = Len(y) /\ r = Len(part)
    OBVIOUS
  <2>2. a + q = mid /\ a + r = mid + n /\ a + p + 1 = mid
    BY <1>10, <1>11, <2>1
  <2> QED
    BY <2>1, <2>2
<1>13. mid + n <= l /\ \A j \in 1..n : s[mid + j] = value[j]
  <2>1. PartAt(s, value, mid)
    BY <1>5, <1>12
  <2> QED
    BY <1>8, <2>1 DEF PartAt
<1>14. s[mid] = Equals
  <2>1. 1 \in 1..Len(e)
    BY <1>9
  <2>2. s[a + Len(x) + 1] = e[1]
    BY <1>6, <2>1 DEF PartAt
  <2> QED
    BY <1>9, <1>12, <2>2
<1>15. \A j \in 1..m : s[a + b + j] = key[j]
  <2>1. PartAt(s, key, a + b)
    BY <1>7, <1>8
  <2> QED
    BY <1>8, <2>1 DEF PartAt
<1>16. PICK start \in Nat : start = a + b + 1
  OBVIOUS
<1>17. \A j \in 1..m : s[start - 1 + j] = key[j]
  <2>1. start - 1 = a + b
    BY <1>16
  <2> QED
    BY <1>15, <2>1
<1>18. start # 0 /\ mid = start + m /\ mid + n \in Nat
  BY <1>10, <1>16
<1>19. ElementAt(s, start, mid, mid + n, key, value)
  BY <1>8, <1>13, <1>14, <1>17, <1>18 DEF ElementAt
<1> QED
  BY <1>3, <1>7, <1>8, <1>10, <1>12, <1>16, <1>19

(* Where the elements of an encoded form are: element i ends at at[i].     *)
Start(at, i) == at[i - 1] + (IF i = 1 THEN 1 ELSE 2)
EncodedAt(s, at, form) ==
    /\ s \in Seq(Nat) /\ at[0] = 0 /\ at[Len(form)] = Len(s)
    /\ \A i \in 1..Len(form) :
          /\ at[i - 1] \in Nat
          /\ ElementAt(s, Start(at, i), Start(at, i) + Len(form[i][1]), at[i],
                       form[i][1], EscapeAll(form[i][2]))
          /\ i # 1 => s[at[i - 1] + 1] = Amp

LEMMA EncodedIs ==
    ASSUME NEW form \in Seq(Text \X Text), IsForm(form)
    PROVE  \E at : EncodedAt(UrlEncode(form), at, form)
<1>1. PICK n \in Nat : n = Len(form) /\ DOMAIN form = 1..n
  BY LenProperties
<1>2. PICK before : before = [i \in 1..n |-> IF i = 1 THEN << >> ELSE <<Amp>>]
  OBVIOUS
<1>3. PICK ss : ss = [i \in 1..n |->
                        before[i] \o form[i][1] \o <<Equals>> \o EscapeAll(form[i][2])]
  OBVIOUS
<1>4. UrlEncode(form) = FlattenSeq(ss)
  <2>1. ss = [i \in DOMAIN form |->
                (IF i = 1 THEN << >> ELSE <<Amp>>) \o form[i][1] \o <<Equals>> \o EscapeAll(form[i][2])]
    BY <1>1, <1>2, <1>3
  <2> QED
    BY <2>1 DEF UrlEncode
<1>5. ASSUME NEW i \in 1..n
      PROVE  /\ before[i] \in Seq(Nat) /\ Len(before[i]) = (IF i = 1 THEN 0 ELSE 1)
             /\ (i # 1 => before[i] = <<Amp>>)
             /\ Unparted(form[i][1]) /\ Unparted(EscapeAll(form[i][2]))
             /\ ss[i] = before[i] \o form[i][1] \o <<Equals>> \o EscapeAll(form[i][2])
             /\ ss[i] \in Seq(Nat)
  <2>1. Unparted(form[i][1]) /\ form[i][2] \in Seq(1..255)
    BY <1>1, FormIs
  <2>2. Unparted(EscapeAll(form[i][2]))
    BY <2>1, EscapeAllLoop DEF Unparted
  <2>3. before[i] \in Seq(Nat) /\ Len(before[i]) = (IF i = 1 THEN 0 ELSE 1)
    BY <1>2 DEF Amp
  <2>4. i # 1 => before[i] = <<Amp>>
    BY <1>2
  <2>5. PICK b, k, v : b = before[i] /\ k = form[i][1] /\ v = EscapeAll(form[i][2])
    OBVIOUS
  <2>6. b \in Seq(Nat) /\ k \in Seq(Nat) /\ v \in Seq(Nat) /\ <<Equals>> \in Seq(Nat)
    <3>1. <<Equals>> \in Seq(Nat)
      BY DEF Equals
    <3> QED
      BY <2>1, <2>2, <2>3, <2>5, <3>1, UnpartedIs
  <2>7. b \o k \o <<Equals>> \o v \in Seq(Nat)
    BY <2>6
  <2>8. ss[i] = b \o k \o <<Equals>> \o v
    BY <1>3, <2>5
  <2> QED
    BY <2>1, <2>2, <2>3, <2>4, <2>5, <2>7, <2>8
<1>6. ss \in Seq(Seq(Nat)) /\ Len(ss) = n
  <2>1. \A i \in 1..n : ss[i] \in Seq(Nat)
    BY <1>5
  <2>2. ss = [i \in 1..n |-> ss[i]]
    BY <1>3
  <2> QED
    BY <2>1, <2>2, IsSequence
<1>7. PICK g : Joins(g, ss, Nat) /\ FlattenSeq(ss) = g[n]
  BY <1>6, FlattenLoop
<1>8. PICK s, at : s = UrlEncode(form) /\ at = [i \in 0..n |-> Len(g[i])]
  OBVIOUS
<1>9. s = g[n] /\ s \in Seq(Nat)
  <2>1. n \in 0..Len(ss)
    BY <1>6
  <2> QED
    BY <1>4, <1>7, <1>8, <2>1 DEF Joins
<1>10. at[0] = 0 /\ at[n] = Len(s)
  <2>1. 0 \in 0..n /\ n \in 0..n /\ g[0] = << >>
    BY <1>7 DEF Joins
  <2>2. at[0] = Len(<< >>) /\ at[n] = Len(g[n])
    BY <1>8, <2>1
  <2> QED
    BY <1>9, <2>2
<1>11. ASSUME NEW i \in 1..n
       PROVE  /\ at[i - 1] \in Nat
              /\ ElementAt(s, Start(at, i), Start(at, i) + Len(form[i][1]), at[i],
                           form[i][1], EscapeAll(form[i][2]))
              /\ i # 1 => s[at[i - 1] + 1] = Amp
  <2>1. i \in 0..n /\ i - 1 \in 0..n
    OBVIOUS
  <2>2. PICK a \in Nat : a = Len(g[i - 1]) /\ Len(g[i]) = a + Len(ss[i]) /\ PartAt(s, ss[i], a)
    <3>1. i \in 1..Len(ss)
      BY <1>6
    <3>2. /\ Len(g[i - 1]) \in Nat /\ Len(g[i]) = Len(g[i - 1]) + Len(ss[i])
          /\ PartAt(g[Len(ss)], ss[i], Len(g[i - 1]))
      BY <1>6, <1>7, <3>1, JoinedParts
    <3> QED
      BY <1>6, <1>9, <3>2
  <2>3. at[i - 1] = a /\ at[i] = a + Len(ss[i])
    BY <1>8, <2>1, <2>2
  <2>4. /\ ElementAt(s, a + Len(before[i]) + 1, a + Len(before[i]) + 1 + Len(form[i][1]),
                     a + Len(ss[i]), form[i][1], EscapeAll(form[i][2]))
        /\ PartAt(s, before[i], a)
    <3>1. PICK b, k, v, p : b = before[i] /\ k = form[i][1] /\ v = EscapeAll(form[i][2]) /\ p = ss[i]
      OBVIOUS
    <3>2. b \in Seq(Nat) /\ Unparted(k) /\ Unparted(v) /\ IsPart(p, b, k, v)
      BY <1>5, <3>1 DEF IsPart
    <3>3. PartAt(s, p, a)
      BY <2>2, <3>1
    <3>4. /\ ElementAt(s, a + Len(b) + 1, a + Len(b) + 1 + Len(k), a + Len(p), k, v)
          /\ PartAt(s, b, a)
      BY <1>9, <3>2, <3>3, PartElement
    <3> QED
      BY <3>1, <3>4
  <2>5. a + Len(before[i]) + 1 = Start(at, i)
    <3>1. Len(before[i]) = (IF i = 1 THEN 0 ELSE 1)
      BY <1>5
    <3> QED
      BY <2>3, <3>1 DEF Start
  <2>6. ASSUME i # 1 PROVE s[a + 1] = Amp
    <3>1. before[i] = <<Amp>> /\ Len(<<Amp>>) = 1 /\ <<Amp>>[1] = Amp
      BY <1>5, <2>6
    <3>2. PartAt(s, <<Amp>>, a) /\ 1 \in 1..Len(<<Amp>>)
      BY <2>4, <3>1
    <3>3. s[a + 1] = <<Amp>>[1]
      BY <3>2 DEF PartAt
    <3> QED
      BY <3>1, <3>3
  <2> QED
    BY <2>3, <2>4, <2>5, <2>6
<1> QED
  BY <1>1, <1>8, <1>9, <1>10, <1>11 DEF EncodedAt

Pairs(form) == [i \in DOMAIN form |-> Pair(form[i][1], form[i][2])]

LEMMA PairsAre ==
    ASSUME NEW form \in Seq(Text \X Text), IsForm(form)
    PROVE  /\ Pairs(form) \in Seq(Seq(Elements)) /\ Len(Pairs(form)) = Len(form)
           /\ \A i \in 1..Len(form) : Pairs(form)[i] = Pair(form[i][1], form[i][2])
<1>1. PICK n \in Nat : n = Len(form) /\ DOMAIN form = 1..n
  BY LenProperties
<1>2. PICK ps : ps = Pairs(form)
  OBVIOUS
<1>3. \A i \in 1..n : ps[i] = Pair(form[i][1], form[i][2])
  BY <1>1, <1>2 DEF Pairs
<1>4. ASSUME NEW i \in 1..n PROVE ps[i] \in Seq(Elements)
  <2>1. PICK k, v : k = form[i][1] /\ v = form[i][2]
    OBVIOUS
  <2>2. k \in Seq(Nat) /\ v \in Seq(Nat)
    BY <1>1, <2>1, FormIs DEF Text
  <2>3. <<k, {v}>> \in Elements
    BY <2>2 DEF Elements, Maybe
  <2>4. << >> \in Seq(Elements) /\ << <<k, {v}>> >> \in Seq(Elements)
    BY <2>3
  <2> QED
    BY <1>3, <2>1, <2>4 DEF Pair
<1>5. ps = [i \in 1..n |-> ps[i]]
  BY <1>1, <1>2 DEF Pairs
<1>6. ps \in Seq(Seq(Elements)) /\ Len(ps) = n
  BY <1>4, <1>5, IsSequence
<1> QED
  BY <1>1, <1>2, <1>3, <1>6

(* What parse_query knows at the end of element k + 1: those before it     *)
(* have been found.                                                        *)
KnownAt(after, at, form, D, k) ==
    after[at[k + 1]] = [start |-> Start(at, k + 1), mid |-> Start(at, k + 1) + Len(form[k + 1][1]),
                        out |-> D[k]]

LEMMA QueryParsed ==
    ASSUME NEW form \in Seq(Text \X Text), IsForm(form), NEW s, NEW at, EncodedAt(s, at, form),
           NEW after, QueryLoop(s, after), NEW D, Joins(D, Pairs(form), Elements)
    PROVE  \A k \in Nat : k + 1 <= Len(form) => KnownAt(after, at, form, D, k)
<1>1. PICK n \in Nat : n = Len(form)
  BY LenProperties
<1>2. s \in Seq(Nat) /\ at[0] = 0
  BY DEF EncodedAt
<1>3. ASSUME NEW i \in 1..n
      PROVE  /\ at[i - 1] \in Nat
             /\ ElementAt(s, Start(at, i), Start(at, i) + Len(form[i][1]), at[i],
                          form[i][1], EscapeAll(form[i][2]))
             /\ i # 1 => s[at[i - 1] + 1] = Amp
             /\ Unparted(form[i][1]) /\ form[i][1] # << >> /\ form[i][2] \in Seq(1..255)
             /\ Unparted(EscapeAll(form[i][2]))
             /\ D[i] = D[i - 1] \o Pair(form[i][1], form[i][2])
  <2>1. Unparted(form[i][1]) /\ form[i][1] # << >> /\ form[i][2] \in Seq(1..255)
    BY <1>1, FormIs
  <2>2. Unparted(EscapeAll(form[i][2]))
    BY <2>1, EscapeAllLoop DEF Unparted
  <2>3. D[i] = D[i - 1] \o Pair(form[i][1], form[i][2])
    <3>1. i \in 1..Len(Pairs(form)) /\ Pairs(form)[i] = Pair(form[i][1], form[i][2])
      BY <1>1, PairsAre
    <3> QED
      BY <3>1 DEF Joins
  <2> QED
    BY <1>1, <2>1, <2>2, <2>3 DEF EncodedAt
<1>4. ASSUME NEW i \in 1..n, NEW out,
             after[Start(at, i) - 1] = [start |-> Start(at, i), mid |-> 0, out |-> out]
      PROVE  after[at[i]] = [start |-> Start(at, i), mid |-> Start(at, i) + Len(form[i][1]), out |-> out]
  <2>1. /\ ElementAt(s, Start(at, i), Start(at, i) + Len(form[i][1]), at[i],
                     form[i][1], EscapeAll(form[i][2]))
        /\ Unparted(form[i][1]) /\ Unparted(EscapeAll(form[i][2]))
    BY <1>3
  <2> QED
    BY <1>2, <1>4, <2>1, ElementParsed
<1>5. PICK I : I = {k \in Nat : k + 1 <= n => KnownAt(after, at, form, D, k)}
  OBVIOUS
<1>6. 0 \in I
  <2>1. SUFFICES ASSUME 0 + 1 <= n PROVE KnownAt(after, at, form, D, 0)
    BY <1>5
  <2>2. 1 \in 1..n /\ 0 + 1 = 1 /\ 1 - 1 = 0
    BY <2>1
  <2>3. Start(at, 1) = 1
    BY <1>2, <2>2 DEF Start
  <2>4. D[0] = << >>
    BY DEF Joins
  <2>5. after[Start(at, 1) - 1] = [start |-> Start(at, 1), mid |-> 0, out |-> D[0]]
    BY <2>2, <2>3, <2>4 DEF QueryLoop
  <2>6. after[at[1]] = [start |-> Start(at, 1), mid |-> Start(at, 1) + Len(form[1][1]), out |-> D[0]]
    BY <1>4, <2>2, <2>5
  <2> QED
    BY <2>2, <2>6 DEF KnownAt
<1>7. ASSUME NEW k \in Nat, k \in I PROVE k + 1 \in I
  <2>1. SUFFICES ASSUME (k + 1) + 1 <= n PROVE KnownAt(after, at, form, D, k + 1)
    BY <1>5
  <2>2. PICK i \in 1..n, h \in 1..n :
          i = k + 1 /\ h = (k + 1) + 1 /\ h - 1 = i /\ i - 1 = k /\ h # 1
    BY <2>1
  <2>3. KnownAt(after, at, form, D, k)
    BY <1>5, <1>7, <2>1
  <2>4. PICK a, p, mid : a = at[i] /\ p = a + 1 /\ mid = Start(at, i) + Len(form[i][1])
    OBVIOUS
  <2>5. after[a] = [start |-> Start(at, i), mid |-> mid, out |-> D[k]]
    BY <2>2, <2>3, <2>4 DEF KnownAt
  <2>6. a \in Nat /\ s[p] = Amp
    BY <1>3, <2>2, <2>4
  <2>7. Start(at, h) = p + 1
    BY <2>2, <2>4, <2>6 DEF Start
  <2>8. p \in 1..Len(s) /\ p - 1 = a
    <3>1. ElementAt(s, Start(at, h), Start(at, h) + Len(form[h][1]), at[h],
                    form[h][1], EscapeAll(form[h][2]))
      BY <1>3
    <3>2. PICK key, value, end :
            key = form[h][1] /\ value = EscapeAll(form[h][2]) /\ end = at[h]
      OBVIOUS
    <3>3. ElementAt(s, p + 1, (p + 1) + Len(key), end, key, value)
      BY <2>7, <3>1, <3>2
    <3>4. PICK m \in Nat, e \in Nat : m = Len(key) /\ e = Len(value) /\ (p + 1) + m + e <= Len(s)
      BY <3>3 DEF ElementAt
    <3>5. Len(s) \in Nat /\ p \in Nat
      BY <1>2, <2>4, <2>6, LenProperties
    <3>6. p \in 1..Len(s)
      <4>1. PICK l \in Nat : l = Len(s) /\ (p + 1) + m + e <= l
        BY <3>4, <3>5
      <4>2. p # 0
        <5>1. a \in Nat /\ p = a + 1
          BY <2>4, <2>6
        <5> QED
          BY <5>1
      <4>3. p \in 1..l
        BY <3>5, <4>1, <4>2
      <4> QED
        BY <4>1, <4>3
    <3> QED
      BY <2>4, <2>6, <3>6
  <2>9. after[p] = QueryStep(s, p, after[a])
    BY <2>8 DEF QueryLoop
  <2>10. QueryElement(s, Start(at, i), mid, p) = Pair(form[i][1], form[i][2])
    <3>1. /\ ElementAt(s, Start(at, i), mid, a, form[i][1], EscapeAll(form[i][2]))
          /\ Unparted(form[i][1]) /\ form[i][1] # << >> /\ form[i][2] \in Seq(1..255)
      BY <1>3, <2>4
    <3> QED
      BY <1>2, <2>4, <3>1, ElementGives
  <2>11. D[i] = D[k] \o Pair(form[i][1], form[i][2])
    BY <1>3, <2>2
  <2>12. QueryStep(s, p, after[a]) = [start |-> p + 1, mid |-> 0, out |-> D[i]]
    <3>1. QueryStep(s, p, after[a])
            = [start |-> p + 1, mid |-> 0,
               out |-> after[a].out \o QueryElement(s, after[a].start, after[a].mid, p)]
      BY <2>6 DEF QueryStep, Amp, Equals
    <3>2. after[a].start = Start(at, i) /\ after[a].mid = mid /\ after[a].out = D[k]
      BY <2>5
    <3> QED
      BY <2>10, <2>11, <3>1, <3>2
  <2>13. after[Start(at, h) - 1] = [start |-> Start(at, h), mid |-> 0, out |-> D[i]]
    <3>1. Start(at, h) - 1 = p
      BY <2>7, <2>8
    <3> QED
      BY <2>7, <2>9, <2>12, <3>1
  <2>14. after[at[h]] = [start |-> Start(at, h), mid |-> Start(at, h) + Len(form[h][1]), out |-> D[i]]
    BY <1>4, <2>13
  <2> QED
    BY <2>2, <2>14 DEF KnownAt
<1>8. \A k \in Nat : k \in I
  BY <1>6, <1>7, AllNumbers
<1> QED
  BY <1>1, <1>5, <1>8

(* parse_query finds the names and values of an encoded form, in order,    *)
(* without the empty values.                                               *)
LEMMA ParseEncoded ==
    ASSUME NEW form \in Seq(Text \X Text), IsForm(form), NEW D, Joins(D, Pairs(form), Elements)
    PROVE  UrlEncode(form) \in Seq(Nat) /\ ParseQuery(UrlEncode(form)) = D[Len(form)]
<1>1. PICK n \in Nat : n = Len(form)
  BY LenProperties
<1>2. PICK s, at : s = UrlEncode(form) /\ EncodedAt(s, at, form)
  BY EncodedIs
<1>3. s \in Seq(Nat) /\ at[0] = 0 /\ at[n] = Len(s)
  BY <1>1, <1>2 DEF EncodedAt
<1>4. PICK after :
        /\ QueryLoop(s, after)
        /\ ParseQuery(s) =
              IF s = << >> \/ s[1] = Nul THEN << >>
              ELSE after[Len(s)].out \o QueryElement(s, after[Len(s)].start, after[Len(s)].mid, Len(s) + 1)
  BY <1>3, ParseQueryLoop
<1>5. CASE n = 0
  <2>1. s = << >>
    BY <1>3, <1>5, EmptySeq
  <2>2. ParseQuery(s) = << >>
    BY <1>4, <2>1
  <2>3. D[0] = << >>
    BY DEF Joins
  <2> QED
    BY <1>1, <1>2, <1>3, <1>5, <2>2, <2>3
<1>6. CASE n # 0
  <2>1. PICK k \in Nat : k + 1 = n /\ n \in 1..n /\ n - 1 = k /\ 1 \in 1..n
    <3>1. n - 1 \in Nat /\ (n - 1) + 1 = n /\ n \in 1..n /\ 1 \in 1..n
      BY <1>6
    <3> QED
      BY <3>1
  <2>2. KnownAt(after, at, form, D, k)
    BY <1>1, <1>2, <1>4, <2>1, QueryParsed
  <2>3. PICK l, start, mid : l = at[n] /\ start = Start(at, n) /\ mid = start + Len(form[n][1])
    OBVIOUS
  <2>4. after[l] = [start |-> start, mid |-> mid, out |-> D[k]] /\ l = Len(s)
    BY <1>3, <2>1, <2>2, <2>3 DEF KnownAt
  <2>5. QueryElement(s, start, mid, l + 1) = Pair(form[n][1], form[n][2])
    <3>1. ElementAt(s, start, mid, l, form[n][1], EscapeAll(form[n][2]))
      BY <1>1, <1>2, <2>1, <2>3 DEF EncodedAt
    <3>2. Unparted(form[n][1]) /\ form[n][1] # << >> /\ form[n][2] \in Seq(1..255)
      BY <1>1, <2>1, FormIs
    <3> QED
      BY <1>3, <3>1, <3>2, ElementGives
  <2>6. D[n] = D[k] \o Pair(form[n][1], form[n][2])
    <3>1. n \in 1..Len(Pairs(form)) /\ Pairs(form)[n] = Pair(form[n][1], form[n][2])
      BY <1>1, <2>1, PairsAre
    <3> QED
      BY <2>1, <3>1 DEF Joins
  <2>7. s # << >> /\ s[1] # Nul
    <3>1. PICK key, value : key = form[1][1] /\ value = EscapeAll(form[1][2])
      OBVIOUS
    <3>2. ElementAt(s, Start(at, 1), Start(at, 1) + Len(key), at[1], key, value)
      BY <1>1, <1>2, <2>1, <3>1 DEF EncodedAt
    <3>3. Start(at, 1) = 1
      <4>1. 1 - 1 = 0
        OBVIOUS
      <4> QED
        BY <1>3, <4>1 DEF Start
    <3>4. Unparted(key) /\ key # << >>
      BY <1>1, <2>1, <3>1, FormIs
    <3>5. Len(key) \in Nat /\ Len(key) # 0
      BY <3>4, UnpartedIs, EmptySeq, LenProperties
    <3>6. s[1] = key[1]
      <4>1. 1 \in 1..Len(key) /\ 1 - 1 + 1 = 1
        BY <3>5
      <4>2. ElementAt(s, 1, 1 + Len(key), at[1], key, value)
        BY <3>2, <3>3
      <4>3. s[1 - 1 + 1] = key[1]
        BY <4>1, <4>2 DEF ElementAt
      <4> QED
        BY <4>1, <4>3
    <3>7. key[1] # Nul
      <4>1. 1 \in 1..Len(key)
        BY <3>5
      <4>2. key[1] \notin Parted
        BY <3>4, <4>1, UnpartedIs
      <4> QED
        BY <4>2 DEF Parted
    <3>8. s # << >>
      <4>1. SUFFICES ASSUME s = << >> PROVE FALSE
        OBVIOUS
      <4>2. Len(s) = 0
        BY <4>1
      <4>3. PICK m \in Nat, e \in Nat : m = Len(key) /\ e = Len(value) /\ (1 + m) + e <= Len(s)
        BY <3>2, <3>3 DEF ElementAt
      <4> QED
        BY <4>2, <4>3
    <3> QED
      BY <3>6, <3>7, <3>8
  <2>8. ParseQuery(s) = after[l].out \o QueryElement(s, after[l].start, after[l].mid, l + 1)
    BY <1>4, <2>4, <2>7
  <2>9. after[l].start = start /\ after[l].mid = mid /\ after[l].out = D[k]
    BY <2>4
  <2>10. ParseQuery(s) = D[n]
    BY <2>5, <2>6, <2>8, <2>9
  <2> QED
    BY <1>1, <1>2, <1>3, <2>10
<1> QED
  BY <1>5, <1>6

-----------------------------------------------------------------------------
(* The values of a key, as far as the form gives any.                      *)
Value(e, key) == IF e[1] = key /\ e[2] # << >> THEN <<e[2]>> ELSE << >>
Values(form, key) == [i \in DOMAIN form |-> Value(form[i], key)]

LEMMA ValuesAre ==
    ASSUME NEW form \in Seq(Text \X Text), NEW key
    PROVE  /\ Values(form, key) \in Seq(Seq(Text)) /\ Len(Values(form, key)) = Len(form)
           /\ \A i \in 1..Len(form) : Values(form, key)[i] = Value(form[i], key)
           /\ FormValues(form, key) = FlattenSeq(Values(form, key))
<1>1. PICK n \in Nat : n = Len(form) /\ DOMAIN form = 1..n
  BY LenProperties
<1>2. PICK ps : ps = Values(form, key)
  OBVIOUS
<1>3. \A i \in 1..n : ps[i] = Value(form[i], key)
  BY <1>1, <1>2 DEF Values
<1>4. ASSUME NEW i \in 1..n PROVE ps[i] \in Seq(Text)
  <2>1. PICK v : v = form[i][2]
    OBVIOUS
  <2>2. v \in Text
    <3>1. form[i] \in Text \X Text
      BY <1>1, ElementOfSeq
    <3> QED
      BY <2>1, <3>1
  <2>3. << >> \in Seq(Text) /\ <<v>> \in Seq(Text)
    BY <2>2
  <2> QED
    BY <1>3, <2>1, <2>3 DEF Value
<1>5. ps = [i \in 1..n |-> ps[i]]
  BY <1>1, <1>2 DEF Values
<1>6. ps \in Seq(Seq(Text)) /\ Len(ps) = n
  BY <1>4, <1>5, IsSequence
<1>7. FormValues(form, key) = FlattenSeq(ps)
  BY <1>2 DEF FormValues, Values, Value
<1> QED
  BY <1>1, <1>2, <1>3, <1>6, <1>7

LEMMA AddedOne ==
    ASSUME NEW s \in Good, NEW f \in ParamTrees, NEW k \in Text, NEW v \in Text
    PROVE  ValueAdded(s, AddParam(s, f, <<k, {v}>>), f, k, v)
<1>1. {v} \in Maybe /\ v \in {v}
  BY DEF Maybe, Text
<1>2. <<k, {v}>>[1] = k /\ <<k, {v}>>[2] = {v}
  OBVIOUS
<1>3. ValueAdded(s, SetParamNocopy(s, f, k, {v}, FALSE), f, k, v)
  BY <1>1, SetParamNocopyIs
<1>4. PICK e : e = <<k, {v}>>
  OBVIOUS
<1>5. e[1] = k /\ e[2] = {v}
  BY <1>2, <1>4
<1>6. AddParam(s, f, e) = SetParamNocopy(s, f, k, {v}, FALSE)
  BY <1>5 DEF AddParam
<1> QED
  BY <1>3, <1>4, <1>6

(* An encoded form adds its values to what there was.                      *)
LEMMA FormAdded ==
    ASSUME NEW s \in Good, NEW f \in ParamTrees, NEW form \in Seq(Text \X Text), IsForm(form),
           NEW key \in Text
    PROVE  ParamValues(ParseQueryInto(s, f, UrlEncode(form)), f, key)
             = ParamValues(s, f, key) \o FormValues(form, key)
<1>1. PICK n \in Nat : n = Len(form)
  BY LenProperties
<1>2. PICK ps, vs : ps = Pairs(form) /\ vs = Values(form, key)
  OBVIOUS
<1>3. ps \in Seq(Seq(Elements)) /\ Len(ps) = n /\ \A i \in 1..n : ps[i] = Pair(form[i][1], form[i][2])
  BY <1>1, <1>2, PairsAre
<1>4. /\ vs \in Seq(Seq(Text)) /\ Len(vs) = n /\ \A i \in 1..n : vs[i] = Value(form[i], key)
      /\ FormValues(form, key) = FlattenSeq(vs)
  BY <1>1, <1>2, ValuesAre
<1>5. PICK D : Joins(D, ps, Elements)
  BY <1>3, FlattenLoop
<1>6. PICK W : Joins(W, vs, Text) /\ FormValues(form, key) = W[n]
  BY <1>4, FlattenLoop
<1>7. PICK q, es : q = UrlEncode(form) /\ es = D[n]
  OBVIOUS
<1>8. q \in Text /\ es = ParseQuery(q) /\ es \in Seq(Elements)
  BY <1>1, <1>2, <1>5, <1>7, ParseEncoded, ParseQueryIs DEF Text
<1>9. PICK after : /\ after[0] = s /\ ParseQueryInto(s, f, q) = after[Len(es)]
                   /\ \A i \in 1..Len(es) : after[i] = AddParam(after[i - 1], f, es[i])
  BY <1>8, ParseQueryIntoLoop
<1>10. PICK l \in Nat : l = Len(es)
  BY <1>8, LenProperties
<1>11. \A i \in 0..l : after[i] \in Good
  <2>1. ASSUME NEW i \in 1..l, after[i - 1] \in Good PROVE after[i] \in Good
    <3>1. es[i] \in Elements
      BY <1>8, <1>10, ElementOfSeq
    <3>2. after[i] = AddParam(after[i - 1], f, es[i])
      BY <1>9, <1>10
    <3> QED
      BY <2>1, <3>1, <3>2, AddParamIs
  <2> QED
    BY <1>9, <2>1, LoopStays
<1>12. PICK at : at = [k \in 0..n |-> Len(D[k])]
  OBVIOUS
<1>13. at[0] = 0 /\ at[n] = l
  <2>1. D[0] = << >> /\ 0 \in 0..n /\ n \in 0..n
    BY <1>5 DEF Joins
  <2>2. at[0] = Len(<< >>) /\ at[n] = Len(D[n])
    BY <1>12, <2>1
  <2> QED
    BY <1>7, <1>10, <2>2
<1>14. ASSUME NEW i \in 1..n
       PROVE  /\ at[i - 1] \in Nat /\ at[i] = at[i - 1] + Len(ps[i])
              /\ PartAt(es, ps[i], at[i - 1])
  <2>1. i \in 0..n /\ i - 1 \in 0..n /\ i \in 1..Len(ps)
    BY <1>3
  <2>2. /\ Len(D[i - 1]) \in Nat /\ Len(D[i]) = Len(D[i - 1]) + Len(ps[i])
        /\ PartAt(D[Len(ps)], ps[i], Len(D[i - 1]))
    BY <1>3, <1>5, <2>1, JoinedParts
  <2>3. at[i] = Len(D[i]) /\ at[i - 1] = Len(D[i - 1])
    BY <1>12, <2>1
  <2> QED
    BY <1>3, <1>7, <2>2, <2>3
<1>15. PICK old : old = ParamValues(s, f, key) /\ old \in Seq(Text)
  BY ParamTree, ParamValuesIs DEF ValuesIn
<1>16. \A i \in 1..n : W[i] = W[i - 1] \o vs[i] /\ W[i - 1] \in Seq(Text)
  <2>1. \A i \in 1..n : i - 1 \in 0..n
    OBVIOUS
  <2> QED
    BY <1>4, <1>6, <2>1 DEF Joins
<1>17. PICK I : I = {k \in Nat : k <= n => ParamValues(after[at[k]], f, key) = old \o W[k]}
  OBVIOUS
<1>18. 0 \in I
  <2>1. W[0] = << >>
    BY <1>6 DEF Joins
  <2>2. old \o << >> = old
    BY <1>15
  <2> QED
    BY <1>9, <1>13, <1>15, <1>17, <2>1, <2>2
<1>19. ASSUME NEW k \in Nat, k \in I PROVE k + 1 \in I
  <2>1. SUFFICES ASSUME k + 1 <= n PROVE ParamValues(after[at[k + 1]], f, key) = old \o W[k + 1]
    BY <1>17
  <2>2. PICK i \in 1..n : i = k + 1 /\ i - 1 = k
    BY <2>1
  <2>3. PICK name, v : name = form[i][1] /\ v = form[i][2]
    OBVIOUS
  <2>4. name \in Text /\ v \in Text
    BY <1>1, <2>3, FormIs
  <2>5. ps[i] = Pair(name, v) /\ vs[i] = IF name = key /\ v # << >> THEN <<v>> ELSE << >>
    BY <1>3, <1>4, <2>3 DEF Value
  <2>6. PICK w : w = W[k] /\ w \in Seq(Text) /\ W[i] = w \o vs[i]
    BY <1>16, <2>2
  <2>7. PICK a \in Nat : a = at[k] /\ at[i] = a + Len(ps[i]) /\ PartAt(es, ps[i], a)
    BY <1>14, <2>2
  <2>8. ParamValues(after[a], f, key) = old \o w
    <3>1. k <= n
      BY <2>1
    <3> QED
      BY <1>17, <1>19, <2>6, <2>7, <3>1
  <2>9. CASE v = << >>
    <3>1. ps[i] = << >> /\ vs[i] = << >>
      BY <2>5, <2>9 DEF Pair
    <3>2. at[i] = a /\ W[i] = w
      BY <2>6, <2>7, <3>1
    <3> QED
      BY <2>2, <2>8, <3>2
  <2>10. CASE v # << >>
    <3>1. PICK p : p = << <<name, {v}>> >> /\ Len(p) = 1 /\ p[1] = <<name, {v}>> /\ p = ps[i]
      BY <2>5, <2>10 DEF Pair
    <3>2. at[i] = a + 1 /\ a + 1 <= l /\ es[a + 1] = <<name, {v}>>
      <4>1. PartAt(es, p, a)
        <5>1. p = ps[i]
          BY <3>1
        <5> QED
          BY <2>7, <5>1
      <4>2. es[a + 1] = p[1] /\ a + Len(p) <= Len(es)
        <5>1. 1 \in 1..Len(p)
          BY <3>1
        <5> QED
          BY <4>1, <5>1 DEF PartAt
      <4> QED
        BY <1>10, <2>7, <3>1, <4>2
    <3>3. PICK j \in 1..l : j = a + 1 /\ j - 1 = a /\ a \in 0..l
      BY <3>2
    <3>4. after[j] = AddParam(after[a], f, <<name, {v}>>)
      BY <1>9, <1>10, <3>2, <3>3
    <3>5. after[a] \in Good
      BY <1>11, <3>3
    <3>6. ValueAdded(after[a], after[j], f, name, v)
      BY <2>4, <3>4, <3>5, AddedOne
    <3>7. CASE name = key
      <4>1. ParamValues(after[j], f, key) = Append(old \o w, v)
        BY <2>8, <3>6, <3>7 DEF ValueAdded
      <4>2. W[i] = w \o <<v>>
        BY <2>5, <2>6, <2>10, <3>7
      <4>3. Append(old \o w, v) = old \o (w \o <<v>>)
        <5>1. old \in Seq(Text) /\ w \in Seq(Text) /\ v \in Text
          BY <1>15, <2>4, <2>6
        <5>2. <<v>> \in Seq(Text) /\ old \o w \in Seq(Text)
          BY <5>1
        <5>3. PICK x : x = old \o w
          OBVIOUS
        <5>4. Append(x, v) = x \o <<v>>
          BY <5>1, <5>2, <5>3, AppendIsConcat
        <5>5. x \o <<v>> = old \o (w \o <<v>>)
          BY <5>1, <5>2, <5>3, ConcatAssociative
        <5> QED
          BY <5>3, <5>4, <5>5
      <4> QED
        BY <2>2, <3>2, <3>3, <4>1, <4>2, <4>3
    <3>8. CASE name # key
      <4>1. ParamValues(after[j], f, key) = old \o w
        BY <2>8, <3>6, <3>8 DEF ValueAdded
      <4>2. W[i] = w
        BY <2>5, <2>6, <3>8
      <4> QED
        BY <2>2, <3>2, <3>3, <4>1, <4>2
    <3> QED
      BY <3>7, <3>8
  <2> QED
    BY <2>9, <2>10
<1>20. ParamValues(after[l], f, key) = old \o W[n]
  <2>1. n \in I
    BY <1>18, <1>19, AllNumbers
  <2> QED
    BY <1>13, <1>17, <2>1
<1> QED
  BY <1>6, <1>7, <1>9, <1>10, <1>15, <1>20

-----------------------------------------------------------------------------
(* What a form adds to the values of each name.                            *)
Adds(s, t, form) ==
    \A key \in Text : ParamValues(t, "queryvars", key)
                        = ParamValues(s, "queryvars", key) \o FormValues(form, key)

LEMMA UriAdds ==
    ASSUME NEW s \in Good, NEW r \in Requests, NEW form \in r.form
    PROVE  TakeUri(s, r) \in Good /\ Adds(s, TakeUri(s, r), form)
<1>1. /\ r.uri \in Word /\ r.uri # NULL /\ form \in Seq(Text \X Text)
      /\ IsForm(form) /\ r.query = {UrlEncode(form)}
  BY RequestFields, RequestsAssumption, FormsAssumption
<1> "queryvars" \in ParamTrees
  BY DEF ParamTrees
<1>2. PICK q : q = UrlEncode(form)
  OBVIOUS
<1>3. r.query = {q} /\ r.query # {} /\ (CHOOSE x \in r.query : TRUE) = q
  BY <1>1, <1>2
<1>4. PICK a, b : a = SetVar(s, "__rawuri", r.uri) /\ b = SetVar(a, "__queryargs", "?")
  OBVIOUS
<1>5. VarSet(s, a, "__rawuri", r.uri)
  BY <1>1, <1>4, OwnNames, SetVarIs
<1>6. a \in Good
  BY <1>5 DEF VarSet
<1>7. VarSet(a, b, "__queryargs", "?")
  BY <1>4, <1>6, OwnNames, SetVarIs
<1>8. b \in Good /\ b.queryvars = s.queryvars /\ b.uri = s.uri
  BY <1>5, <1>7 DEF VarSet, SameBut
<1>9. PICK s1 : s1 = ParseQueryInto(b, "queryvars", q)
  OBVIOUS
<1>10. \A key \in Text : ParamValues(s1, "queryvars", key)
                           = ParamValues(b, "queryvars", key) \o FormValues(form, key)
  BY <1>1, <1>2, <1>8, <1>9, FormAdded
<1>11. \A key : ParamValues(b, "queryvars", key) = ParamValues(s, "queryvars", key)
  BY <1>8, SameParamValues
<1>12. s1 \in Good /\ s1.uri = s.uri
  <2>1. q \in Text
    BY <1>1, <1>3, RequestFields
  <2>2. ParamAdded(b, s1, "queryvars")
    BY <1>8, <1>9, <2>1, ParseQueryIntoIs
  <2> QED
    BY <1>8, <2>2 DEF ParamAdded, ParamSet, SameBut
<1>13. TakeUri(s, r) = WithUri(s1, r.uri)
  <2>1. TakeUri(s, r) = [s1 EXCEPT !.uri = r.uri, !.heap = @ + 1,
                                   !.lost.uri = IF s.uri = NULL THEN @ ELSE @ + 1]
    BY <1>3, <1>4, <1>9 DEF TakeUri
  <2>2. s1 \in States
    BY <1>12 DEF Good
  <2> QED
    BY <1>12, <2>1, <2>2 DEF States, WithUri
<1>14. PICK t : t = WithUri(s1, r.uri)
  OBVIOUS
<1>15. t \in Good /\ t.queryvars = s1.queryvars
  BY <1>1, <1>12, <1>14, UriSet
<1>16. \A key : ParamValues(t, "queryvars", key) = ParamValues(s1, "queryvars", key)
  BY <1>12, <1>15, SameParamValues
<1> QED
  BY <1>10, <1>11, <1>13, <1>14, <1>15, <1>16 DEF Adds

LEMMA ParseAdds ==
    ASSUME NEW s \in Good, NEW r \in Requests, NEW form \in r.form, r.n \in 2..3
    PROVE  Adds(s, Parse(s, r).s, form)
<1>1. PICK s1, s2, s3 : /\ s1 = [s EXCEPT !.req_type = StrToMethod(r.method)]
                        /\ s2 = TakeUri(s1, r) /\ s3 = TakeVersion(s2, r)
  OBVIOUS
<1>2. PICK m : m = StrToMethod(r.method) /\ m \in ReqTypes
  BY MethodIs
<1>3. s1 \in Good /\ s1.req_type = m /\ s1.queryvars = s.queryvars
  BY <1>1, <1>2, MethodSet
<1>4. \A key : ParamValues(s1, "queryvars", key) = ParamValues(s, "queryvars", key)
  BY <1>3, SameParamValues
<1>5. s2 \in Good /\ Adds(s1, s2, form)
  BY <1>1, <1>3, UriAdds
<1>6. Adds(s, s2, form)
  BY <1>4, <1>5 DEF Adds
<1>7. SUFFICES Parse(s, r).s \in Good /\ Parse(s, r).s.queryvars = s2.queryvars
  <2>1. PICK t : t = Parse(s, r).s
    OBVIOUS
  <2>2. \A key : ParamValues(t, "queryvars", key) = ParamValues(s2, "queryvars", key)
    BY <1>5, <1>7, <2>1, SameParamValues
  <2> QED
    BY <1>6, <2>1, <2>2 DEF Adds
<1>8. Parse(s, r).s \in Good
  BY ParseIs
<1>9. CASE ~VersionOk(r)
  <2>1. Parse(s, r) = [s |-> s2, ok |-> FALSE]
    BY <1>1, <1>9 DEF Parse
  <2> QED
    BY <1>8, <2>1
<1>10. CASE VersionOk(r)
  <2>1. r.n = 3
    <3>1. r.n >= 3
      BY <1>10, Zenon DEF VersionOk
    <3> QED
      BY <3>1
  <2>2. VersionTaken(s2, s3, r)
    BY <1>1, <1>5, <1>10, TakeVersionIs
  <2>3. s3 \in Good /\ s3.queryvars = s2.queryvars /\ s3.uri = s2.uri /\ s3.req_type = s2.req_type
    BY <2>2 DEF VersionTaken, SameBut
  <2>4. s2.uri = r.uri /\ s2.req_type = m
    BY <1>1, <1>3, TakeUriIs DEF UriTaken
  <2>5. CASE m = "unknown"
    <3>1. Parse(s, r) = [s |-> s3, ok |-> FALSE]
      BY <1>1, <1>3, <1>10, <2>1, <2>5 DEF Parse
    <3> QED
      BY <1>8, <2>3, <3>1
  <2>6. CASE m # "unknown"
    <3>1. PICK s4, s5, s6 : /\ s4 = SetVar(s3, "__req_type", s3.req_type)
                            /\ s5 = SetVar(s4, "__uri", s3.uri)
                            /\ s6 = ParseHeaders(s5, HeaderLines(r))
      OBVIOUS
    <3>2. Parse(s, r) = [s |-> s6, ok |-> TRUE]
      BY <1>1, <1>3, <1>10, <2>1, <2>6, <3>1 DEF Parse
    <3>3. r.uri \in Word /\ r.uri # NULL /\ m \in Word /\ m # NULL
      BY <1>2, <2>6, MethodIs, RequestFields DEF Word
    <3>4. VarSet(s3, s4, "__req_type", m)
      BY <2>3, <2>4, <3>1, <3>3, OwnNames, SetVarIs
    <3>5. s4 \in Good
      BY <3>4 DEF VarSet
    <3>6. VarSet(s4, s5, "__uri", r.uri)
      BY <2>3, <2>4, <3>1, <3>3, <3>5, OwnNames, SetVarIs
    <3>7. s5 \in Good
      BY <3>6 DEF VarSet
    <3>8. HeadersAgree(s5, s6, r)
      BY <3>1, <3>7, RequestFields, HeadersParsed
    <3>9. s6.queryvars = s2.queryvars
      BY <2>3, <3>4, <3>6, <3>8 DEF HeadersAgree, VarSet, SameBut
    <3> QED
      BY <1>8, <3>2, <3>9
  <2> QED
    BY <2>5, <2>6
<1> QED
  BY <1>8, <1>9, <1>10

(* A step of ParamsDecode.                                                 *)
DecodeStep ==
    \A r \in last'.arg : \A form \in r.form :
        calls' > calls /\ last'.op = "parse" /\ r.n \in 2..3 =>
            \A i \in DOMAIN form :
                ParamValues(hp', "queryvars", form[i][1])
                  = ParamValues(hp, "queryvars", form[i][1]) \o FormValues(form, form[i][1])

LEMMA NextDecodes == IInv /\ [Next]_vars => [DecodeStep]_vars
<1>1. SUFFICES ASSUME IInv, Next PROVE DecodeStep
  OBVIOUS
<1>2. CASE HttppParse
  <2>1. PICK r \in Requests : Call("parse", {r}, Parse(hp, r).s, Parse(hp, r).ok)
    BY <1>2 DEF HttppParse
  <2>2. hp' = Parse(hp, r).s /\ last'.arg = {r} /\ hp \in Good
    BY <1>1, <2>1 DEF Call, IInv
  <2>3. SUFFICES ASSUME NEW form \in r.form, r.n \in 2..3, NEW i \in DOMAIN form
                 PROVE  ParamValues(hp', "queryvars", form[i][1])
                          = ParamValues(hp, "queryvars", form[i][1]) \o FormValues(form, form[i][1])
    BY <2>2 DEF DecodeStep
  <2>4. Adds(hp, hp', form)
    BY <2>2, <2>3, ParseAdds
  <2>5. form \in Seq(Text \X Text)
    BY RequestsAssumption
  <2>6. form[i][1] \in Text
    <3>1. i \in 1..Len(form)
      BY <2>3, <2>5
    <3>2. form[i] \in Text \X Text
      BY <2>5, <3>1, ElementOfSeq
    <3> QED
      BY <3>2
  <2> QED
    BY <2>4, <2>6 DEF Adds
<1>3. CASE HttppInitialize \/ HttppParseResponse \/ HttppParsePostdata \/ HttppSetVar
           \/ HttppDeleteVar \/ HttppSetQueryParam \/ HttppSetPostParam \/ HttppAddref \/ HttppRelease
  <2>1. last'.arg = {}
    BY <1>3 DEF HttppInitialize, HttppParseResponse, HttppParsePostdata, HttppSetVar, HttppDeleteVar,
                HttppSetQueryParam, HttppSetPostParam, HttppAddref, HttppRelease, Call
  <2> QED
    BY <2>1 DEF DecodeStep
<1> QED
  BY <1>1, <1>2, <1>3 DEF Next

(* Decoding inverts encoding, for every form: a request whose query is the *)
(* form, each value percent-escaped, adds exactly the form's values, in    *)
(* their order, to what the parser already had of each name.               *)
THEOREM FormsDecode == Spec => ParamsDecode
<1>1. IInv /\ [Next]_vars => [DecodeStep]_vars
  BY NextDecodes
<1> QED
  BY <1>1, ParserSafe, PTL DEF Spec, ParamsDecode, DecodeStep

=============================================================================
