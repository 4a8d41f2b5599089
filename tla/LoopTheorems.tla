---------------------------- MODULE LoopTheorems ----------------------------
(***************************************************************************)
(* Loops of the code are recursive functions on 0..n in the models.  These *)
(* lemmas say that such functions exist and what holds of their values,    *)
(* and what Min and Max return.                                            *)
(***************************************************************************)
EXTENDS Integers, FiniteSetsExt, WellFoundedInduction, TLAPS

(* A set of numbers with 0 and all successors has all numbers in it.       *)
LEMMA AllNumbers ==
    ASSUME NEW I, 0 \in I, \A i \in Nat : i \in I => i + 1 \in I
    PROVE  \A i \in Nat : i \in I
<1> DEFINE T == {i \in Nat : i \notin I}
<1>1. SUFFICES ASSUME T # {} PROVE FALSE
  OBVIOUS
<1>2. T \subseteq Nat
  OBVIOUS
<1>3. PICK m \in T : \A y \in T : ~(<<y, m>> \in OpToRel(<, Nat))
  BY <1>1, <1>2, WFMin, NatLessThanWellFounded
<1>4. m \in Nat /\ m # 0 /\ m - 1 \in Nat /\ m - 1 < m /\ (m - 1) + 1 = m
  OBVIOUS
<1>5. m - 1 \notin T
  BY <1>3, <1>4 DEF OpToRel
<1> QED
  BY <1>4, <1>5

(* The values of a loop stay where each step keeps them.                   *)
LEMMA LoopStays ==
    ASSUME NEW n \in Nat, NEW T, NEW f, f[0] \in T,
           \A i \in 1..n : f[i - 1] \in T => f[i] \in T
    PROVE  \A i \in 0..n : f[i] \in T
<1> DEFINE I == {i \in Nat : i <= n => f[i] \in T}
<1>1. 0 \in I
  OBVIOUS
<1>2. ASSUME NEW i \in Nat, i \in I PROVE i + 1 \in I
  <2>1. CASE i + 1 <= n
    <3>1. i + 1 \in 1..n /\ (i + 1) - 1 = i /\ i <= n
      BY <2>1
    <3> QED
      BY <1>2, <3>1
  <2> QED
    BY <2>1
<1> HIDE DEF I
<1>3. \A i \in Nat : i \in I
  BY <1>1, <1>2, AllNumbers
<1> QED
  BY <1>3 DEF I

(* g are the values of a loop that starts at s and applies F[1] to F[n].   *)
IsLoop(g, n, T, s, F) ==
    g \in [0..n -> T] /\ g[0] = s /\ \A i \in 1..n : g[i] = F[i][g[i - 1]]

(* A loop that starts in T, and whose steps stay there, has values.        *)
LEMMA LoopExists ==
    ASSUME NEW n \in Nat, NEW T, NEW s \in T, NEW F \in [1..n -> [T -> T]]
    PROVE  \E g : IsLoop(g, n, T, s, F)
<1> DEFINE I == {m \in Nat : m <= n =>
                    \E g \in [0..m -> T] : /\ g[0] = s
                                           /\ \A i \in 1..m : g[i] = F[i][g[i - 1]]}
<1>1. 0 \in I
  <2>1. [i \in 0..0 |-> s] \in [0..0 -> T] /\ [i \in 0..0 |-> s][0] = s /\ \A i \in 1..0 : FALSE
    OBVIOUS
  <2> QED
    BY <2>1
<1>2. ASSUME NEW m \in Nat, m \in I PROVE m + 1 \in I
  <2>1. SUFFICES ASSUME m + 1 <= n
                 PROVE  \E g \in [0..(m + 1) -> T] : /\ g[0] = s
                                                     /\ \A i \in 1..(m + 1) : g[i] = F[i][g[i - 1]]
    OBVIOUS
  <2>2. PICK g \in [0..m -> T] : g[0] = s /\ \A i \in 1..m : g[i] = F[i][g[i - 1]]
    BY <1>2, <2>1
  <2>3. PICK h : h = [i \in 0..(m + 1) |-> IF i <= m THEN g[i] ELSE F[m + 1][g[m]]]
    OBVIOUS
  <2>4. F[m + 1][g[m]] \in T
    <3>1. m + 1 \in 1..n /\ g[m] \in T
      BY <2>1
    <3> QED
      BY <3>1
  <2>5. h \in [0..(m + 1) -> T]
    <3>1. \A i \in 0..(m + 1) : i <= m => i \in 0..m
      OBVIOUS
    <3> QED
      BY <2>3, <2>4, <3>1
  <2>6. h[0] = s
    BY <2>2, <2>3
  <2>7. ASSUME NEW i \in 1..(m + 1) PROVE h[i] = F[i][h[i - 1]]
    <3>1. CASE i <= m
      <4>1. i \in 1..m /\ i \in 0..(m + 1) /\ i - 1 \in 0..(m + 1) /\ i - 1 <= m
        BY <3>1
      <4>2. h[i] = g[i] /\ h[i - 1] = g[i - 1]
        BY <2>3, <3>1, <4>1
      <4> QED
        BY <2>2, <4>1, <4>2
    <3>2. CASE i = m + 1
      <4>1. i \in 0..(m + 1) /\ ~(i <= m) /\ i - 1 = m /\ m \in 0..(m + 1) /\ m <= m
        BY <3>2
      <4>2. h[i] = F[m + 1][g[m]] /\ h[m] = g[m]
        BY <2>3, <4>1
      <4> QED
        BY <3>2, <4>1, <4>2
    <3> QED
      BY <3>1, <3>2
  <2> QED
    BY <2>5, <2>6, <2>7
<1> HIDE DEF I
<1>3. n \in I
  BY <1>1, <1>2, AllNumbers
<1> QED
  BY <1>3 DEF I, IsLoop

(* The least of a set of numbers.                                          *)
LEMMA Least ==
    ASSUME NEW S \in SUBSET Nat, S # {}
    PROVE  Min(S) \in S /\ \A k \in S : Min(S) <= k
<1>1. PICK m \in S : \A k \in S : ~(<<k, m>> \in OpToRel(<, Nat))
  BY WFMin, NatLessThanWellFounded
<1>2. \A k \in S : ~(k < m)
  BY <1>1 DEF OpToRel
<1>3. \A k \in S : m <= k
  BY <1>2
<1> QED
  BY <1>3 DEF Min

(* The greatest of a set of numbers up to n.                               *)
LEMMA Greatest ==
    ASSUME NEW n \in Nat, NEW S \in SUBSET (0..n), S # {}
    PROVE  Max(S) \in S /\ \A k \in S : Max(S) >= k
<1> DEFINE R == {k \in Nat : k <= n /\ n - k \in S}
<1>1. R \in SUBSET Nat
  OBVIOUS
<1>2. R # {}
  <2>1. PICK x \in S : TRUE
    OBVIOUS
  <2>2. n - x \in Nat /\ n - x <= n /\ n - (n - x) = x
    OBVIOUS
  <2> QED
    BY <2>1, <2>2
<1>3. PICK m \in R : \A k \in R : m <= k
  <2> HIDE DEF R
  <2> QED
    BY <1>1, <1>2, Least
<1>4. n - m \in S
  OBVIOUS
<1>5. ASSUME NEW k \in S PROVE n - m >= k
  <2>1. k \in Nat /\ n - k \in Nat /\ n - k <= n /\ n - (n - k) = k
    OBVIOUS
  <2>2. n - k \in R
    BY <2>1
  <2>3. m <= n - k /\ m \in Nat
    BY <1>3, <2>2
  <2> QED
    BY <2>1, <2>3
<1> QED
  BY <1>4, <1>5 DEF Max

=============================================================================
