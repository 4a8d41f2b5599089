------------------------- MODULE ChunkedStreamProofs -------------------------
(***************************************************************************)
(* What ChunkedStream promises, proved for every payload, every limit on a *)
(* chunk, every size of the buffers and every way to cut the stream.  The  *)
(* inductive invariant says where the reader is: everything between the    *)
(* two applications leads, as framing, from the reader's place to the      *)
(* writer's.                                                               *)
(*                                                                         *)
(* Framing is an automaton that reads the symbols between a writer and a   *)
(* reader of chunks: what the writer produces takes it from the end of one *)
(* chunk to the end of the next, what the reader consumes takes it along   *)
(* with read_bytes_till_header.                                            *)
(***************************************************************************)
EXTENDS ChunkedStream, SequenceTheorems, WellFoundedInduction, TLAPS

(* A place in a stream.  h is how much of a header is to come after its    *)
(* length, or 3 after the header of an empty chunk, the last one; t is how *)
(* far the next header is, the rest of this one not counted; k payload     *)
(* bytes have gone by.                                                     *)
At(h, t, k) == [h |-> h, t |-> t, k |-> k]
Places == [h : {0, 1, 2, 3}, t : Nat, k : Nat]

(* From place p, the symbol x leads to place q.                            *)
Step(p, x, q) ==
    \/ /\ p.h = 0 /\ p.t = 0
       /\ \E n \in 0..MaxChunk : x = LengthSymbol(n) /\ q = At(2, n + 2, p.k)
    \/ p.h = 2 /\ x = CR /\ q = At(1, p.t, p.k)
    \/ p.h = 1 /\ x = LF /\ q = At(IF p.t = 2 THEN 3 ELSE 0, p.t, p.k)
    \/ p.h = 0 /\ p.t > 2 /\ x = p.k + 1 /\ q = At(0, p.t - 1, p.k + 1)
    \/ p.h = 0 /\ p.t = 2 /\ x = CR /\ q = At(0, 1, p.k)
    \/ p.h = 0 /\ p.t = 1 /\ x = LF /\ q = At(0, 0, p.k)
    \/ p.h = 3 /\ ~IsPayload(x) /\ q = p

(* A run over u, from p to q.                                              *)
Run(P, u, p, q) ==
    /\ P \in [1..(Len(u) + 1) -> Places]
    /\ P[1] = p
    /\ P[Len(u) + 1] = q
    /\ \A i \in 1..Len(u) : Step(P[i], u[i], P[i + 1])

Framed(p, u, q) == \E P : Run(P, u, p, q)

-----------------------------------------------------------------------------
(* A concatenation, symbol by symbol.                                      *)
LEMMA ConcatAt ==
    ASSUME NEW u \in Seq(Int), NEW v \in Seq(Int),
           NEW m \in Nat, NEW n \in Nat, m = Len(u), n = Len(v), NEW w, w = u \o v
    PROVE  /\ w \in Seq(Int) /\ Len(w) = m + n
           /\ \A i \in 1..m : w[i] = u[i]
           /\ \A i \in 1..n : w[i + m] = v[i]
<1>1. /\ w \in Seq(Int) /\ Len(w) = m + n
      /\ \A i \in 1..(m + n) : w[i] = IF i <= m THEN u[i] ELSE v[i - m]
  BY ConcatProperties
<1>2. ASSUME NEW i \in 1..n PROVE w[i + m] = v[i]
  <2>1. i + m \in 1..(m + n) /\ ~(i + m <= m) /\ (i + m) - m = i
    OBVIOUS
  <2> QED
    BY <1>1, <2>1
<1>3. ASSUME NEW i \in 1..m PROVE w[i] = u[i]
  <2>1. i \in 1..(m + n) /\ i <= m
    OBVIOUS
  <2> QED
    BY <1>1, <2>1
<1> QED
  BY <1>1, <1>2, <1>3

(* Nothing leads nowhere.                                                  *)
LEMMA FramedEmpty ==
    ASSUME NEW p \in Places
    PROVE  Framed(p, << >>, p)
<1>1. Run([i \in 1..1 |-> p], << >>, p, p)
  BY DEF Run
<1> QED
  BY <1>1 DEF Framed

(* One run after the other.                                                *)
LEMMA FramedConcat ==
    ASSUME NEW u \in Seq(Int), NEW v \in Seq(Int), NEW p, NEW q, NEW r,
           Framed(p, u, q), Framed(q, v, r)
    PROVE  Framed(p, u \o v, r)
<1>1. PICK P : Run(P, u, p, q)
  BY DEF Framed
<1>2. PICK Q : Run(Q, v, q, r)
  BY DEF Framed
<1>3. PICK m \in Nat, n \in Nat : m = Len(u) /\ n = Len(v)
  BY LenProperties
<1>a. PICK w : w = u \o v
  OBVIOUS
<1>4. /\ w = u \o v /\ Len(w) = m + n
      /\ \A i \in 1..m : w[i] = u[i]
      /\ \A i \in 1..n : w[i + m] = v[i]
  BY <1>3, <1>a, ConcatAt
<1>5. PICK R : R = [i \in 1..(m + n + 1) |-> IF i <= m THEN P[i] ELSE Q[i - m]]
  OBVIOUS
<1>6. /\ P \in [1..(m + 1) -> Places] /\ P[1] = p /\ P[m + 1] = q
      /\ \A i \in 1..m : Step(P[i], u[i], P[i + 1])
  BY <1>1, <1>3 DEF Run
<1>7. /\ Q \in [1..(n + 1) -> Places] /\ Q[1] = q /\ Q[n + 1] = r
      /\ \A i \in 1..n : Step(Q[i], v[i], Q[i + 1])
  BY <1>2, <1>3 DEF Run
<1>8. R \in [1..(m + n + 1) -> Places]
  BY <1>5, <1>6, <1>7
<1>9. R[1] = p /\ R[m + n + 1] = r
  BY <1>5, <1>6, <1>7
<1>10. ASSUME NEW i \in 1..(m + n)
       PROVE  Step(R[i], w[i], R[i + 1])
  <2>1. CASE i < m
    <3>1. R[i] = P[i] /\ R[i + 1] = P[i + 1] /\ w[i] = u[i] /\ i \in 1..m
      BY <1>4, <1>5, <2>1
    <3> QED
      BY <1>6, <3>1
  <2>2. CASE i = m
    <3>1. R[i] = P[i] /\ R[i + 1] = Q[1] /\ w[i] = u[i] /\ i \in 1..m
      BY <1>4, <1>5, <2>2
    <3> QED
      BY <1>6, <1>7, <2>2, <3>1
  <2>3. CASE i > m
    <3>1. PICK j \in 1..n : i = j + m
      BY <2>3
    <3>2. R[i] = Q[j] /\ R[i + 1] = Q[j + 1] /\ w[i] = v[j]
      BY <1>4, <1>5, <2>3, <3>1
    <3> QED
      BY <1>7, <3>2
  <2> QED
    BY <2>1, <2>2, <2>3
<1>11. Run(R, w, p, r)
  BY <1>4, <1>8, <1>9, <1>10 DEF Run
<1> QED
  BY <1>4, <1>11 DEF Framed

(* A run can be taken apart anywhere.                                      *)
LEMMA FramedSplit ==
    ASSUME NEW u \in Seq(Int), NEW v \in Seq(Int), NEW p, NEW r, Framed(p, u \o v, r)
    PROVE  \E q \in Places : Framed(p, u, q) /\ Framed(q, v, r)
<1>3. PICK m \in Nat, n \in Nat : m = Len(u) /\ n = Len(v)
  BY LenProperties
<1>a. PICK w : w = u \o v
  OBVIOUS
<1>4. /\ w = u \o v /\ Len(w) = m + n
      /\ \A i \in 1..m : w[i] = u[i]
      /\ \A i \in 1..n : w[i + m] = v[i]
  BY <1>3, <1>a, ConcatAt
<1>5. PICK R : Run(R, w, p, r)
  BY <1>4 DEF Framed
<1>6. /\ R \in [1..(m + n + 1) -> Places] /\ R[1] = p /\ R[m + n + 1] = r
      /\ \A i \in 1..(m + n) : Step(R[i], w[i], R[i + 1])
  BY <1>4, <1>5 DEF Run
<1>7. PICK P : P = [i \in 1..(m + 1) |-> R[i]]
  OBVIOUS
<1>8. PICK Q : Q = [i \in 1..(n + 1) |-> R[i + m]]
  OBVIOUS
<1>9. Run(P, u, p, R[m + 1])
  <2>1. P \in [1..(m + 1) -> Places] /\ P[1] = p /\ P[m + 1] = R[m + 1]
    BY <1>6, <1>7
  <2>2. ASSUME NEW i \in 1..m PROVE Step(P[i], u[i], P[i + 1])
    <3>1. P[i] = R[i] /\ P[i + 1] = R[i + 1] /\ u[i] = w[i] /\ i \in 1..(m + n)
      BY <1>4, <1>7
    <3> QED
      BY <1>6, <3>1
  <2> QED
    BY <1>3, <2>1, <2>2 DEF Run
<1>10. Run(Q, v, R[m + 1], r)
  <2>1. Q \in [1..(n + 1) -> Places] /\ Q[1] = R[m + 1] /\ Q[n + 1] = r
    BY <1>6, <1>8
  <2>2. ASSUME NEW i \in 1..n PROVE Step(Q[i], v[i], Q[i + 1])
    <3>1. /\ i \in 1..(n + 1) /\ i + 1 \in 1..(n + 1) /\ i + m \in 1..(m + n)
          /\ (i + 1) + m = i + m + 1
      OBVIOUS
    <3>2. Q[i] = R[i + m] /\ Q[i + 1] = R[(i + 1) + m]
      BY <1>8, <3>1
    <3>3. v[i] = w[i + m]
      BY <1>4
    <3> QED
      BY <1>6, <3>1, <3>2, <3>3
  <2> QED
    BY <1>3, <2>1, <2>2 DEF Run
<1>11. R[m + 1] \in Places
  BY <1>6
<1> QED
  BY <1>9, <1>10, <1>11 DEF Framed

-----------------------------------------------------------------------------
(* Induction, for a set of numbers.                                        *)
LEMMA UpTo ==
    ASSUME NEW n \in Nat, NEW G, 1 \in G, \A i \in 1..n : i \in G => i + 1 \in G
    PROVE  \A i \in 1..(n + 1) : i \in G
<1> DEFINE B == {i \in 1..(n + 1) : i \notin G}
<1>1. SUFFICES ASSUME B # {} PROVE FALSE
  OBVIOUS
<1>2. B \subseteq Nat
  OBVIOUS
<1>3. PICK m \in B : \A k \in B : ~(<<k, m>> \in OpToRel(<, Nat))
  BY <1>1, <1>2, WFMin, NatLessThanWellFounded
<1>4. \A k \in B : ~(k < m)
  BY <1>2, <1>3 DEF OpToRel
<1>5. m # 1 /\ m \in 1..(n + 1) /\ m \notin G
  OBVIOUS
<1>6. m - 1 \in 1..n /\ m - 1 < m /\ (m - 1) + 1 = m
  BY <1>5
<1>7. m - 1 \in G
  BY <1>4, <1>6
<1> QED
  BY <1>5, <1>6, <1>7

(* Places are their parts.                                                 *)
LEMMA PlaceIs ==
    ASSUME NEW p \in Places
    PROVE  /\ p = At(p.h, p.t, p.k)
           /\ p.h \in {0, 1, 2, 3} /\ p.t \in Nat /\ p.k \in Nat
BY DEF Places, At

LEMMA AtIs ==
    ASSUME NEW h, NEW t, NEW k
    PROVE  At(h, t, k).h = h /\ At(h, t, k).t = t /\ At(h, t, k).k = k
BY DEF At

(* In a body come the payload bytes that are next.                         *)
LEMMA BodyRun ==
    ASSUME NEW v \in Seq(Int), NEW t \in Nat, NEW k \in Nat, NEW r,
           Framed(At(0, t, k), v, r), Len(v) + 2 <= t
    PROVE  /\ v = Bytes(k + 1, k + Len(v))
           /\ r = At(0, t - Len(v), k + Len(v))
<1>1. PICK P : Run(P, v, At(0, t, k), r)
  BY DEF Framed
<1>2. PICK n \in Nat : n = Len(v)
  BY LenProperties
<1>3. /\ P \in [1..(n + 1) -> Places] /\ P[1] = At(0, t, k) /\ P[n + 1] = r
      /\ \A i \in 1..n : Step(P[i], v[i], P[i + 1])
  BY <1>1, <1>2 DEF Run
<1> DEFINE G == {i \in 1..(n + 1) : P[i] = At(0, t - (i - 1), k + (i - 1))}
<1>4. ASSUME NEW i \in 1..n, i \in G
      PROVE  v[i] = k + i /\ i + 1 \in G
  <2>1. PICK a \in Nat, b \in Nat : a = t - (i - 1) /\ b = k + (i - 1) /\ a > 2
    BY <1>2
  <2>2. P[i] = At(0, a, b)
    BY <1>4, <2>1
  <2>3. P[i].h = 0 /\ P[i].t = a /\ P[i].k = b /\ Step(P[i], v[i], P[i + 1])
    BY <1>3, <2>2, AtIs
  <2>4. v[i] = b + 1 /\ P[i + 1] = At(0, a - 1, b + 1)
    BY <2>1, <2>3 DEF Step
  <2>5. PICK c \in Int, d \in Int : c = a - 1 /\ d = b + 1
    BY <2>1
  <2>6. c = t - ((i + 1) - 1) /\ d = k + ((i + 1) - 1) /\ d = k + i
    BY <2>1, <2>5
  <2>7. P[i + 1] = At(0, t - ((i + 1) - 1), k + ((i + 1) - 1))
    BY <2>4, <2>5, <2>6
  <2> QED
    BY <2>4, <2>5, <2>6, <2>7
<1>5. 1 \in G
  BY <1>3
<1>6. \A i \in 1..(n + 1) : i \in G
  <2> HIDE DEF G
  <2> QED
    BY <1>4, <1>5, UpTo
<1>7. \A i \in 1..n : v[i] = k + i
  BY <1>4, <1>6
<1>8. v = Bytes(k + 1, k + n)
  <2>1. v \in [1..n -> Int]
    BY <1>2, LenProperties
  <2>2. Bytes(k + 1, k + n) = [i \in 1..n |-> k + i]
    BY DEF Bytes
  <2> QED
    BY <1>7, <2>1, <2>2
<1>9. r = At(0, t - n, k + n)
  <2>1. n + 1 \in G
    BY <1>6
  <2>2. (n + 1) - 1 = n
    OBVIOUS
  <2> QED
    BY <1>3, <2>1, <2>2
<1> QED
  BY <1>2, <1>8, <1>9

(* After the last header there is no way out, and no payload.              *)
LEMMA EndRun ==
    ASSUME NEW v \in Seq(Int), NEW p \in Places, p.h = 3, NEW r, Framed(p, v, r)
    PROVE  r = p /\ \A i \in 1..Len(v) : ~IsPayload(v[i])
<1>1. PICK P : Run(P, v, p, r)
  BY DEF Framed
<1>2. PICK n \in Nat : n = Len(v)
  BY LenProperties
<1>3. /\ P \in [1..(n + 1) -> Places] /\ P[1] = p /\ P[n + 1] = r
      /\ \A i \in 1..n : Step(P[i], v[i], P[i + 1])
  BY <1>1, <1>2 DEF Run
<1> DEFINE G == {i \in 1..(n + 1) : P[i] = p}
<1>4. ASSUME NEW i \in 1..n, i \in G
      PROVE  ~IsPayload(v[i]) /\ i + 1 \in G
  <2>1. Step(p, v[i], P[i + 1])
    BY <1>3, <1>4
  <2>2. ~IsPayload(v[i]) /\ P[i + 1] = p
    BY <2>1 DEF Step
  <2> QED
    BY <2>2
<1>5. 1 \in G
  BY <1>3
<1>6. \A i \in 1..(n + 1) : i \in G
  <2> HIDE DEF G
  <2> QED
    BY <1>4, <1>5, UpTo
<1> QED
  BY <1>2, <1>3, <1>4, <1>6

(* The first symbol, and the rest.                                         *)
LEMMA FirstStep ==
    ASSUME NEW v \in Seq(Int), NEW p, NEW r, Framed(p, v, r), Len(v) > 0
    PROVE  \E q \in Places : Step(p, v[1], q) /\ Framed(q, From(v, 2), r)
<1>1. PICK P : Run(P, v, p, r)
  BY DEF Framed
<1>2. PICK n \in Nat : n = Len(v) /\ n > 0
  BY LenProperties
<1>3. /\ P \in [1..(n + 1) -> Places] /\ P[1] = p /\ P[n + 1] = r
      /\ \A i \in 1..n : Step(P[i], v[i], P[i + 1])
  BY <1>1, <1>2 DEF Run
<1>4. PICK w : w = From(v, 2)
  OBVIOUS
<1>5. Len(w) = n - 1 /\ \A i \in 1..(n - 1) : w[i] = v[i + 1]
  <2>1. \A i \in 2..n : v[i] \in Int
    BY <1>2, LenProperties
  <2>2. /\ Len(w) = IF 2 <= n THEN n - 2 + 1 ELSE 0
        /\ \A i \in 1..(n - 2 + 1) : w[i] = v[2 + i - 1]
    BY <1>2, <1>4, <2>1, SubSeqProperties, SMTT(60) DEF From
  <2> QED
    BY <1>2, <2>2
<1>6. PICK Q : Q = [i \in 1..n |-> P[i + 1]]
  OBVIOUS
<1>7. Q \in [1..((n - 1) + 1) -> Places] /\ Q[1] = P[2] /\ Q[(n - 1) + 1] = r
  BY <1>2, <1>3, <1>6
<1>8. ASSUME NEW i \in 1..(n - 1) PROVE Step(Q[i], w[i], Q[i + 1])
  <2>1. Q[i] = P[i + 1] /\ Q[i + 1] = P[(i + 1) + 1] /\ w[i] = v[i + 1] /\ i + 1 \in 1..n
    BY <1>2, <1>5, <1>6
  <2> QED
    BY <1>3, <2>1
<1>9. Run(Q, w, P[2], r)
  BY <1>5, <1>7, <1>8 DEF Run
<1>10. Step(p, v[1], P[2]) /\ P[2] \in Places
  BY <1>2, <1>3
<1> QED
  BY <1>4, <1>9, <1>10 DEF Framed

(* A header: its length, then "\r\n".                                      *)
LEMMA HeaderRun ==
    ASSUME NEW u \in Seq(Int), NEW k \in Nat, NEW r, Framed(At(0, 0, k), u, r), Len(u) > 0
    PROVE  \E n \in 0..MaxChunk :
             /\ u[1] = LengthSymbol(n)
             /\ Len(u) >= 2 => u[2] = CR
             /\ Len(u) >= 3 => u[3] = LF
             /\ Len(u) = 3 => r = At(IF n = 0 THEN 3 ELSE 0, n + 2, k)
<1>1. PICK P : Run(P, u, At(0, 0, k), r)
  BY DEF Framed
<1>2. PICK l \in Nat : l = Len(u) /\ l > 0
  BY LenProperties
<1>3. /\ P \in [1..(l + 1) -> Places] /\ P[1] = At(0, 0, k) /\ P[l + 1] = r
      /\ \A i \in 1..l : Step(P[i], u[i], P[i + 1])
  BY <1>1, <1>2 DEF Run
<1>4. P[1].h = 0 /\ P[1].t = 0 /\ P[1].k = k
  BY <1>3, AtIs
<1>5. Step(P[1], u[1], P[2])
  BY <1>2, <1>3
<1>6. PICK n \in 0..MaxChunk : u[1] = LengthSymbol(n) /\ P[2] = At(2, n + 2, k)
  BY <1>4, <1>5 DEF Step
<1>7. P[2].h = 2 /\ P[2].t = n + 2 /\ P[2].k = k
  BY <1>6, AtIs
<1>8. l >= 2 => u[2] = CR /\ P[3] = At(1, n + 2, k)
  <2>1. l >= 2 => Step(P[2], u[2], P[3])
    BY <1>2, <1>3
  <2> QED
    BY <1>7, <2>1 DEF Step
<1>9. l >= 3 => u[3] = LF /\ P[4] = At(IF n = 0 THEN 3 ELSE 0, n + 2, k)
  <2>1. l >= 3 => Step(P[3], u[3], P[4])
    BY <1>2, <1>3
  <2>2. l >= 3 => P[3].h = 1 /\ P[3].t = n + 2 /\ P[3].k = k
    BY <1>2, <1>8, AtIs
  <2>3. n + 2 = 2 <=> n = 0
    OBVIOUS
  <2> QED
    BY <2>1, <2>2, <2>3 DEF Step
<1>10. l = 3 => r = P[4]
  BY <1>3
<1>11. Len(u) = 3 => r = At(IF n = 0 THEN 3 ELSE 0, n + 2, k)
  BY <1>2, <1>9, <1>10
<1>12. (Len(u) >= 2 => u[2] = CR) /\ (Len(u) >= 3 => u[3] = LF)
  BY <1>2, <1>8, <1>9
<1> QED
  BY <1>6, <1>11, <1>12

(* The "\r\n" after a body.                                                *)
LEMMA LineEndRun ==
    ASSUME NEW u \in Seq(Int), NEW k \in Nat, NEW r, Framed(At(0, 2, k), u, r), Len(u) > 0
    PROVE  /\ u[1] = CR
           /\ Len(u) >= 2 => u[2] = LF
           /\ Len(u) = 2 => r = At(0, 0, k)
<1>1. PICK P : Run(P, u, At(0, 2, k), r)
  BY DEF Framed
<1>2. PICK l \in Nat : l = Len(u) /\ l > 0
  BY LenProperties
<1>3. /\ P \in [1..(l + 1) -> Places] /\ P[1] = At(0, 2, k) /\ P[l + 1] = r
      /\ \A i \in 1..l : Step(P[i], u[i], P[i + 1])
  BY <1>1, <1>2 DEF Run
<1>4. P[1].h = 0 /\ P[1].t = 2 /\ P[1].k = k
  BY <1>3, AtIs
<1>5. Step(P[1], u[1], P[2])
  BY <1>2, <1>3
<1>6. u[1] = CR /\ P[2] = At(0, 1, k)
  BY <1>4, <1>5 DEF Step
<1>7. P[2].h = 0 /\ P[2].t = 1 /\ P[2].k = k
  BY <1>6, AtIs
<1>8. l >= 2 => u[2] = LF /\ P[3] = At(0, 0, k)
  <2>1. l >= 2 => Step(P[2], u[2], P[3])
    BY <1>2, <1>3
  <2> QED
    BY <1>7, <2>1 DEF Step
<1> QED
  BY <1>2, <1>3, <1>6, <1>8, SMTT(60)

-----------------------------------------------------------------------------
(* What the writer produces.                                               *)
LEMMA Symbols ==
    /\ CR \in Int /\ LF \in Int /\ ~IsPayload(CR) /\ ~IsPayload(LF)
    /\ \A n \in Nat : /\ LengthSymbol(n) \in Int /\ ~IsPayload(LengthSymbol(n))
                      /\ IsLength(LengthSymbol(n)) /\ LengthOf(LengthSymbol(n)) = n
BY DEF CR, LF, IsPayload, IsLength, LengthOf, LengthSymbol

LEMMA HeaderFramed ==
    ASSUME NEW n \in 0..MaxChunk, NEW a \in Nat
    PROVE  /\ <<LengthSymbol(n), CR, LF>> \in Seq(Int)
           /\ Framed(At(0, 0, a), <<LengthSymbol(n), CR, LF>>,
                     At(IF n = 0 THEN 3 ELSE 0, n + 2, a))
<1>1. n \in Nat /\ MaxChunk \in Nat
  BY WriterAssumption
<1>2. PICK x \in Int : x = LengthSymbol(n)
  BY <1>1, Symbols
<1>3. PICK u : u = <<x, CR, LF>>
  OBVIOUS
<1>4. u \in Seq(Int) /\ Len(u) = 3 /\ u[1] = x /\ u[2] = CR /\ u[3] = LF
  BY <1>3, Symbols
<1>5. PICK h \in {0, 3} : h = IF n = 0 THEN 3 ELSE 0
  OBVIOUS
<1>6. PICK P : P = <<At(0, 0, a), At(2, n + 2, a), At(1, n + 2, a), At(h, n + 2, a)>>
  OBVIOUS
<1>7. /\ At(0, 0, a) \in Places /\ At(2, n + 2, a) \in Places /\ At(1, n + 2, a) \in Places
      /\ At(h, n + 2, a) \in Places
  BY <1>1, <1>5 DEF At, Places
<1>8. P \in [1..4 -> Places] /\ P[1] = At(0, 0, a) /\ P[2] = At(2, n + 2, a)
      /\ P[3] = At(1, n + 2, a) /\ P[4] = At(h, n + 2, a)
  BY <1>6, <1>7
<1>9. Step(P[1], u[1], P[2])
  BY <1>2, <1>4, <1>8, AtIs DEF Step
<1>10. Step(P[2], u[2], P[3])
  BY <1>4, <1>8, AtIs DEF Step
<1>11. Step(P[3], u[3], P[4])
  <2>1. h = IF n + 2 = 2 THEN 3 ELSE 0
    BY <1>1, <1>5
  <2> QED
    BY <1>4, <1>8, <2>1, AtIs DEF Step
<1>12. Run(P, u, At(0, 0, a), At(h, n + 2, a))
  <2>1. \A i \in 1..3 : Step(P[i], u[i], P[i + 1])
    BY <1>9, <1>10, <1>11
  <2> QED
    BY <1>4, <1>8, <2>1 DEF Run
<1> QED
  BY <1>2, <1>3, <1>4, <1>5, <1>12 DEF Framed

LEMMA BytesAre ==
    ASSUME NEW a \in Nat, NEW n \in Nat
    PROVE  /\ Bytes(a + 1, a + n) = [i \in 1..n |-> a + i]
           /\ Bytes(a + 1, a + n) \in Seq(Int)
           /\ Len(Bytes(a + 1, a + n)) = n
<1>1. (a + n) - (a + 1) + 1 = n
  OBVIOUS
<1>2. \A i \in 1..n : (a + 1) + i - 1 = a + i
  OBVIOUS
<1>3. Bytes(a + 1, a + n) = [i \in 1..n |-> a + i]
  BY <1>1, <1>2 DEF Bytes
<1>4. [i \in 1..n |-> a + i] \in Seq(Int) /\ Len([i \in 1..n |-> a + i]) = n
  OBVIOUS
<1> QED
  BY <1>3, <1>4

LEMMA BodyFramed ==
    ASSUME NEW a \in Nat, NEW n \in Nat
    PROVE  Framed(At(0, n + 2, a), Bytes(a + 1, a + n), At(0, 2, a + n))
<1>1. PICK u : u = Bytes(a + 1, a + n)
  OBVIOUS
<1>2. u = [i \in 1..n |-> a + i] /\ Len(u) = n
  BY <1>1, BytesAre
<1>3. PICK P : P = [i \in 1..(n + 1) |-> At(0, n + 3 - i, a + i - 1)]
  OBVIOUS
<1>4. P \in [1..(n + 1) -> Places]
  <2>1. \A i \in 1..(n + 1) : At(0, n + 3 - i, a + i - 1) \in Places
    BY DEF At, Places
  <2> QED
    BY <1>3, <2>1
<1>5. P[1] = At(0, n + 2, a) /\ P[n + 1] = At(0, 2, a + n)
  <2>1. n + 3 - 1 = n + 2 /\ a + 1 - 1 = a /\ n + 3 - (n + 1) = 2 /\ a + (n + 1) - 1 = a + n
    OBVIOUS
  <2> QED
    BY <1>3, <2>1
<1>6. ASSUME NEW i \in 1..n PROVE Step(P[i], u[i], P[i + 1])
  <2>1. PICK t \in Nat, k \in Nat : t = n + 3 - i /\ k = a + i - 1 /\ t > 2
    OBVIOUS
  <2>2. P[i] = At(0, t, k) /\ u[i] = k + 1
    BY <1>2, <1>3, <2>1
  <2>3. P[i + 1] = At(0, t - 1, k + 1)
    <3>1. n + 3 - (i + 1) = t - 1 /\ a + (i + 1) - 1 = k + 1
      BY <2>1
    <3>2. P[i + 1] = At(0, n + 3 - (i + 1), a + (i + 1) - 1)
      BY <1>3
    <3> QED
      BY <3>1, <3>2
  <2> QED
    BY <2>1, <2>2, <2>3, AtIs DEF Step
<1>7. Run(P, u, At(0, n + 2, a), At(0, 2, a + n))
  BY <1>2, <1>4, <1>5, <1>6 DEF Run
<1> QED
  BY <1>1, <1>7 DEF Framed

LEMMA LineEndFramed ==
    ASSUME NEW k \in Nat
    PROVE  <<CR, LF>> \in Seq(Int) /\ Framed(At(0, 2, k), <<CR, LF>>, At(0, 0, k))
<1>1. PICK u : u = <<CR, LF>>
  OBVIOUS
<1>2. u \in Seq(Int) /\ Len(u) = 2 /\ u[1] = CR /\ u[2] = LF
  BY <1>1, Symbols
<1>3. PICK P : P = <<At(0, 2, k), At(0, 1, k), At(0, 0, k)>>
  OBVIOUS
<1>4. At(0, 2, k) \in Places /\ At(0, 1, k) \in Places /\ At(0, 0, k) \in Places
  BY DEF At, Places
<1>5. P \in [1..3 -> Places] /\ P[1] = At(0, 2, k) /\ P[2] = At(0, 1, k) /\ P[3] = At(0, 0, k)
  BY <1>3, <1>4
<1>6. Step(P[1], u[1], P[2])
  BY <1>2, <1>5, AtIs DEF Step
<1>7. Step(P[2], u[2], P[3])
  BY <1>2, <1>5, AtIs DEF Step
<1>8. Run(P, u, At(0, 2, k), At(0, 0, k))
  <2>1. \A i \in 1..2 : Step(P[i], u[i], P[i + 1])
    BY <1>6, <1>7
  <2> QED
    BY <1>2, <1>5, <2>1 DEF Run
<1> QED
  BY <1>1, <1>2, <1>8 DEF Framed

(* A chunk leads from one header to the next.                              *)
LEMMA ChunkFramed ==
    ASSUME NEW a \in Nat, NEW n \in 1..MaxChunk
    PROVE  /\ Frame(Bytes(a + 1, a + n), FALSE) \in Seq(Int)
           /\ Framed(At(0, 0, a), Frame(Bytes(a + 1, a + n), FALSE), At(0, 0, a + n))
<1>1. n \in Nat /\ n \in 0..MaxChunk /\ n # 0 /\ a + n \in Nat
  BY WriterAssumption
<1>2. PICK b : b = Bytes(a + 1, a + n)
  OBVIOUS
<1>3. PICK hd : hd = <<LengthSymbol(n), CR, LF>>
  OBVIOUS
<1>4. b \in Seq(Int) /\ Len(b) = n
  BY <1>1, <1>2, BytesAre
<1>5. hd \in Seq(Int) /\ Framed(At(0, 0, a), hd, At(0, n + 2, a))
  BY <1>1, <1>3, HeaderFramed
<1>6. Framed(At(0, n + 2, a), b, At(0, 2, a + n))
  BY <1>1, <1>2, BodyFramed
<1>7. <<CR, LF>> \in Seq(Int) /\ Framed(At(0, 2, a + n), <<CR, LF>>, At(0, 0, a + n))
  BY <1>1, LineEndFramed
<1>8. hd \o b \in Seq(Int) /\ Framed(At(0, 0, a), hd \o b, At(0, 2, a + n))
  BY <1>4, <1>5, <1>6, FramedConcat, ConcatProperties
<1>9. /\ (hd \o b) \o <<CR, LF>> \in Seq(Int)
      /\ Framed(At(0, 0, a), (hd \o b) \o <<CR, LF>>, At(0, 0, a + n))
  BY <1>7, <1>8, FramedConcat, ConcatProperties
<1>10. Frame(b, FALSE) = (hd \o b) \o <<CR, LF>>
  BY <1>3, <1>4 DEF Frame
<1> QED
  BY <1>2, <1>9, <1>10

(* After the last header, anything without payload leads back to itself.   *)
LEMMA EndStays ==
    ASSUME NEW a \in Nat, NEW v \in Seq(Int), \A i \in 1..Len(v) : ~IsPayload(v[i])
    PROVE  Framed(At(3, 2, a), v, At(3, 2, a))
<1>1. PICK n \in Nat : n = Len(v)
  BY LenProperties
<1>2. PICK P : P = [i \in 1..(n + 1) |-> At(3, 2, a)]
  OBVIOUS
<1>3. P \in [1..(n + 1) -> Places] /\ \A i \in 1..(n + 1) : P[i] = At(3, 2, a)
  BY <1>2 DEF At, Places
<1>4. ASSUME NEW i \in 1..n PROVE Step(P[i], v[i], P[i + 1])
  <2>1. P[i] = At(3, 2, a) /\ P[i + 1] = P[i] /\ ~IsPayload(v[i])
    BY <1>1, <1>3
  <2> QED
    BY <2>1, AtIs DEF Step
<1>5. Run(P, v, At(3, 2, a), At(3, 2, a))
  BY <1>1, <1>3, <1>4 DEF Run
<1> QED
  BY <1>5 DEF Framed

(* An end mark leads to the end, and stays there.                          *)
LEMMA EndFramed ==
    ASSUME NEW a \in Nat, NEW isNull \in BOOLEAN
    PROVE  /\ Frame(<< >>, isNull) \in Seq(Int)
           /\ Framed(At(0, 0, a), Frame(<< >>, isNull), At(3, 2, a))
           /\ Framed(At(3, 2, a), Frame(<< >>, isNull), At(3, 2, a))
<1>1. PICK hd : hd = <<LengthSymbol(0), CR, LF>>
  OBVIOUS
<1>2. PICK tl : tl = IF isNull THEN <<CR, LF, CR, LF>> ELSE <<CR, LF>>
  OBVIOUS
<1>3. hd \in Seq(Int) /\ Framed(At(0, 0, a), hd, At(3, 2, a))
  <2>1. 0 \in 0..MaxChunk /\ 0 + 2 = 2
    BY WriterAssumption
  <2>2. Framed(At(0, 0, a), hd, At(3, 0 + 2, a)) /\ hd \in Seq(Int)
    BY <1>1, <2>1, HeaderFramed
  <2> QED
    BY <2>1, <2>2
<1>4. hd \in Seq(Int) /\ \A i \in 1..Len(hd) : ~IsPayload(hd[i])
  <2>1. LengthSymbol(0) \in Int /\ ~IsPayload(LengthSymbol(0))
    BY Symbols
  <2>2. Len(hd) = 3 /\ hd[1] = LengthSymbol(0) /\ hd[2] = CR /\ hd[3] = LF
    BY <1>1
  <2> QED
    BY <1>3, <2>1, <2>2, Symbols
<1>5. tl \in Seq(Int) /\ \A i \in 1..Len(tl) : ~IsPayload(tl[i])
  <2>1. CASE isNull
    <3>1. tl \in Seq(Int) /\ Len(tl) = 4 /\ tl[1] = CR /\ tl[2] = LF /\ tl[3] = CR /\ tl[4] = LF
      BY <1>2, <2>1, Symbols
    <3> QED
      BY <3>1, Symbols
  <2>2. CASE ~isNull
    <3>1. tl \in Seq(Int) /\ Len(tl) = 2 /\ tl[1] = CR /\ tl[2] = LF
      BY <1>2, <2>2, Symbols
    <3> QED
      BY <3>1, Symbols
  <2> QED
    BY <2>1, <2>2
<1>6. Framed(At(3, 2, a), tl, At(3, 2, a))
  BY <1>5, EndStays
<1>7. Framed(At(3, 2, a), hd, At(3, 2, a))
  BY <1>4, EndStays
<1>8. Frame(<< >>, isNull) = hd \o tl
  <2>1. Frame(<< >>, isNull) = (hd \o << >>) \o tl
    BY <1>1, <1>2 DEF Frame
  <2>2. hd \o << >> = hd
    BY <1>3, ConcatEmptySeq
  <2> QED
    BY <2>1, <2>2
<1>9. hd \o tl \in Seq(Int)
  BY <1>3, <1>5, ConcatProperties
<1> QED
  BY <1>3, <1>5, <1>6, <1>7, <1>8, <1>9, FramedConcat

-----------------------------------------------------------------------------
(* Payload counts: a payload symbol is the next one, others leave k alone. *)
LEMMA StepCounts ==
    ASSUME NEW p \in Places, NEW q \in Places, NEW x, Step(p, x, q)
    PROVE  \/ IsPayload(x) /\ q.k = p.k + 1 /\ x = q.k
           \/ ~IsPayload(x) /\ q.k = p.k
<1>1. p.k \in Nat /\ MaxChunk \in Nat
  BY WriterAssumption DEF Places
<1>2. CASE p.h = 0 /\ p.t = 0 /\ \E n \in 0..MaxChunk : x = LengthSymbol(n) /\ q = At(2, n + 2, p.k)
  <2>1. PICK n \in 0..MaxChunk : x = LengthSymbol(n) /\ q = At(2, n + 2, p.k)
    BY <1>2
  <2>2. n \in Nat
    BY <1>1
  <2> QED
    BY <2>1, <2>2, AtIs, Symbols
<1>3. CASE p.h = 2 /\ x = CR /\ q = At(1, p.t, p.k)
  BY <1>3, AtIs, Symbols
<1>4. CASE p.h = 1 /\ x = LF /\ q = At(IF p.t = 2 THEN 3 ELSE 0, p.t, p.k)
  BY <1>4, AtIs, Symbols
<1>5. CASE p.h = 0 /\ p.t > 2 /\ x = p.k + 1 /\ q = At(0, p.t - 1, p.k + 1)
  BY <1>1, <1>5, AtIs DEF IsPayload
<1>6. CASE p.h = 0 /\ p.t = 2 /\ x = CR /\ q = At(0, 1, p.k)
  BY <1>6, AtIs, Symbols
<1>7. CASE p.h = 0 /\ p.t = 1 /\ x = LF /\ q = At(0, 0, p.k)
  BY <1>7, AtIs, Symbols
<1>8. CASE p.h = 3 /\ ~IsPayload(x) /\ q = p
  BY <1>8
<1> QED
  BY <1>2, <1>3, <1>4, <1>5, <1>6, <1>7, <1>8 DEF Step

(* The payload of a stream from p to q is p.k + 1, ..., q.k, in order.     *)
LEMMA Counted ==
    ASSUME NEW u \in Seq(Int), NEW p, NEW q, Framed(p, u, q)
    PROVE  LET payload == {i \in 1..Len(u) : IsPayload(u[i])} IN
           /\ p.k <= q.k
           /\ {u[i] : i \in payload} = (p.k + 1)..q.k
           /\ \A i, j \in payload : i < j => u[i] < u[j]
<1>1. PICK P : Run(P, u, p, q)
  BY DEF Framed
<1>2. PICK n \in Nat : n = Len(u)
  BY LenProperties
<1>3. /\ P \in [1..(n + 1) -> Places] /\ P[1] = p /\ P[n + 1] = q
      /\ \A i \in 1..n : Step(P[i], u[i], P[i + 1])
  BY <1>1, <1>2 DEF Run
<1>4. PICK K : K = [i \in 1..(n + 1) |-> P[i].k]
  OBVIOUS
<1>5. K \in [1..(n + 1) -> Nat] /\ K[1] = p.k /\ K[n + 1] = q.k
  <2>1. \A i \in 1..(n + 1) : P[i].k \in Nat
    BY <1>3 DEF Places
  <2> QED
    BY <1>3, <1>4, <2>1
<1>6. ASSUME NEW i \in 1..n
      PROVE  \/ IsPayload(u[i]) /\ K[i + 1] = K[i] + 1 /\ u[i] = K[i + 1]
             \/ ~IsPayload(u[i]) /\ K[i + 1] = K[i]
  <2>1. P[i] \in Places /\ P[i + 1] \in Places /\ Step(P[i], u[i], P[i + 1])
    BY <1>3
  <2>2. K[i] = P[i].k /\ K[i + 1] = P[i + 1].k
    BY <1>4
  <2> QED
    BY <2>1, <2>2, StepCounts
<1>7. ASSUME NEW i \in 1..(n + 1)
      PROVE  \A j \in 1..(n + 1) : i <= j => K[i] <= K[j]
  <2> DEFINE G == {j \in 1..(n + 1) : i <= j => K[i] <= K[j]}
  <2>1. 1 \in G
    BY <1>5
  <2>2. ASSUME NEW j \in 1..n, j \in G PROVE j + 1 \in G
    <3>1. j + 1 \in 1..(n + 1) /\ j \in 1..(n + 1)
      OBVIOUS
    <3>2. PICK a \in Nat, b \in Nat, c \in Nat : a = K[i] /\ b = K[j] /\ c = K[j + 1]
      BY <1>5, <3>1
    <3>3. b <= c
      BY <1>6, <3>2
    <3>4. i <= j + 1 => a <= c
      <4>1. CASE i <= j
        BY <2>2, <3>2, <3>3, <4>1
      <4>2. CASE i = j + 1
        BY <3>2, <4>2
      <4> QED
        BY <4>1, <4>2
    <3> QED
      BY <3>1, <3>2, <3>4
  <2>3. \A j \in 1..(n + 1) : j \in G
    <3> HIDE DEF G
    <3> QED
      BY <2>1, <2>2, UpTo
  <2> QED
    BY <2>3
<1> DEFINE payload == {i \in 1..n : IsPayload(u[i])}
<1>8. p.k <= q.k
  <2>1. 1 \in 1..(n + 1) /\ n + 1 \in 1..(n + 1) /\ 1 <= n + 1
    OBVIOUS
  <2> QED
    BY <1>5, <1>7, <2>1
<1>9. ASSUME NEW i \in payload, NEW j \in payload, i < j
      PROVE  u[i] < u[j]
  <2>1. i + 1 \in 1..(n + 1) /\ j \in 1..(n + 1) /\ j + 1 \in 1..(n + 1) /\ i + 1 <= j
    BY <1>9
  <2>2. u[i] = K[i + 1] /\ u[j] = K[j] + 1
    BY <1>6
  <2>3. K[i + 1] <= K[j]
    BY <1>7, <2>1
  <2>4. K[i + 1] \in Nat /\ K[j] \in Nat
    BY <1>5, <2>1
  <2> QED
    BY <2>2, <2>3, <2>4
<1>10. ASSUME NEW i \in payload
       PROVE  u[i] \in (p.k + 1)..q.k
  <2>1. i + 1 \in 1..(n + 1) /\ i \in 1..(n + 1) /\ 1 \in 1..(n + 1) /\ n + 1 \in 1..(n + 1)
    OBVIOUS
  <2>2. u[i] = K[i + 1] /\ K[i + 1] = K[i] + 1
    BY <1>6
  <2>3. K[1] <= K[i] /\ K[i + 1] <= K[n + 1]
    BY <1>7, <2>1
  <2>4. PICK a \in Nat, b \in Nat, c \in Nat, d \in Nat :
          a = K[1] /\ b = K[i] /\ c = K[i + 1] /\ d = K[n + 1]
    BY <1>5, <2>1
  <2> QED
    BY <1>5, <2>2, <2>3, <2>4
<1>11. ASSUME NEW v \in (p.k + 1)..q.k
       PROVE  \E i \in payload : u[i] = v
  <2>1. SUFFICES ASSUME \A i \in payload : u[i] # v PROVE FALSE
    OBVIOUS
  <2>2. v \in Int /\ p.k < v /\ v <= q.k
    BY <1>5
  <2> DEFINE G == {i \in 1..(n + 1) : K[i] < v}
  <2>3. 1 \in G
    BY <1>5, <2>2
  <2>4. ASSUME NEW i \in 1..n, i \in G PROVE i + 1 \in G
    <3>1. i + 1 \in 1..(n + 1) /\ i \in 1..(n + 1)
      OBVIOUS
    <3>2. PICK b \in Nat, c \in Nat : b = K[i] /\ c = K[i + 1]
      BY <1>5, <3>1
    <3>3. c = b \/ (c = b + 1 /\ c # v)
      BY <1>6, <2>1, <3>2
    <3>4. b < v
      BY <2>4, <3>2
    <3>5. c < v
      BY <2>2, <3>3, <3>4
    <3> QED
      BY <3>1, <3>2, <3>5
  <2>5. n + 1 \in G
    <3> HIDE DEF G
    <3>1. n + 1 \in 1..(n + 1)
      OBVIOUS
    <3> QED
      BY <2>3, <2>4, <3>1, UpTo
  <2>6. q.k < v /\ q.k \in Nat
    BY <1>5, <2>5
  <2> QED
    BY <2>2, <2>6
<1>12. {u[i] : i \in payload} = (p.k + 1)..q.k
  BY <1>10, <1>11
<1> QED
  BY <1>2, <1>8, <1>9, <1>12

-----------------------------------------------------------------------------
(* What has been decoded, and the places of the two ends.                  *)
Done(s) == Len(s.out) + Len(s.decoded)
ReaderAt(s) == IF s.eof = -1 THEN At(0, s.till, Done(s)) ELSE At(3, 2, Done(s))
WriterAt == IF ends = 0 THEN At(0, 0, accepted) ELSE At(3, 2, accepted)

(* bytes_till_eof is not set, reached, or two bytes away.                  *)
EofValues == {-1, 0, 2}

ReaderStates == [raw : Seq(Int), decoded : Seq(Int), out : Seq(Int), till : Nat,
                 eof : EofValues, bad : {FALSE}]

(* The decoder's state in itself: either it is at a header or in front of  *)
(* the "\r\n" of one, or the rest of a body is to come and nothing of it   *)
(* is buffered.                                                            *)
Sound(s) ==
    /\ s \in ReaderStates
    /\ s.till # 1 /\ s.till <= MaxChunk + 2
    /\ s.till > 2 => s.raw = << >> /\ s.eof = -1
    /\ s.out \o s.decoded = Bytes(1, Done(s))

(* The decoder s, with rest to come, is on the way to place w.             *)
OnWay(s, rest, w) ==
    /\ Sound(s)
    /\ Framed(ReaderAt(s), s.raw \o rest, w)

IInv ==
    /\ accepted \in 0..N /\ ends \in 0..MaxEnds
    /\ pending \in Seq(Int) /\ wire \in Seq(Int)
    /\ OnWay(rd, wire \o pending, WriterAt)

-----------------------------------------------------------------------------
(* Sequences, cut and put together.                                        *)
LEMMA CutAt ==
    ASSUME NEW u \in Seq(Int), NEW n \in 0..Len(u)
    PROVE  /\ u = SubSeq(u, 1, n) \o From(u, n + 1)
           /\ SubSeq(u, 1, n) \in Seq(Int) /\ Len(SubSeq(u, 1, n)) = n
           /\ From(u, n + 1) \in Seq(Int) /\ Len(From(u, n + 1)) = Len(u) - n
           /\ \A i \in 1..n : SubSeq(u, 1, n)[i] = u[i]
<1>1. PICK l \in Nat : l = Len(u)
  BY LenProperties
<1>2. \A i \in 1..l : u[i] \in Int
  BY <1>1, LenProperties
<1>3. n \in Nat /\ n <= l
  BY <1>1
<1>4. SubSeq(u, 1, n) \o SubSeq(u, n + 1, l) = SubSeq(u, 1, l)
  <2>1. 1 \in 1..(Len(u) + 1) /\ n \in (1 - 1)..Len(u) /\ l \in n..Len(u)
    BY <1>1, <1>3
  <2> QED
    BY <2>1, ConcatAdjacentSubSeq
<1>5. SubSeq(u, 1, l) = u
  <2>1. /\ SubSeq(u, 1, l) \in Seq(Int)
        /\ Len(SubSeq(u, 1, l)) = IF 1 <= l THEN l - 1 + 1 ELSE 0
        /\ \A i \in 1..(l - 1 + 1) : SubSeq(u, 1, l)[i] = u[1 + i - 1]
    BY <1>2, SubSeqProperties
  <2>2. l - 1 + 1 = l /\ (IF 1 <= l THEN l - 1 + 1 ELSE 0) = l /\ \A i \in 1..l : 1 + i - 1 = i
    OBVIOUS
  <2>3. Len(SubSeq(u, 1, l)) = Len(u) /\ \A i \in 1..Len(SubSeq(u, 1, l)) : SubSeq(u, 1, l)[i] = u[i]
    BY <1>1, <2>1, <2>2
  <2> QED
    BY <2>1, <2>3, SeqEqual
<1>6. /\ SubSeq(u, 1, n) \in Seq(Int) /\ Len(SubSeq(u, 1, n)) = n
      /\ \A i \in 1..n : SubSeq(u, 1, n)[i] = u[i]
  <2>1. \A i \in 1..n : u[i] \in Int
    BY <1>2, <1>3
  <2>2. /\ SubSeq(u, 1, n) \in Seq(Int)
        /\ Len(SubSeq(u, 1, n)) = IF 1 <= n THEN n - 1 + 1 ELSE 0
        /\ \A i \in 1..(n - 1 + 1) : SubSeq(u, 1, n)[i] = u[1 + i - 1]
    BY <1>3, <2>1, SubSeqProperties
  <2>3. n - 1 + 1 = n /\ (IF 1 <= n THEN n - 1 + 1 ELSE 0) = n /\ \A i \in 1..n : 1 + i - 1 = i
    BY <1>3
  <2> QED
    BY <2>2, <2>3
<1>7. From(u, n + 1) \in Seq(Int) /\ Len(From(u, n + 1)) = l - n
  <2>1. \A i \in (n + 1)..l : u[i] \in Int
    BY <1>2, <1>3
  <2>2. /\ SubSeq(u, n + 1, l) \in Seq(Int)
        /\ Len(SubSeq(u, n + 1, l)) = IF n + 1 <= l THEN l - (n + 1) + 1 ELSE 0
    BY <1>3, <2>1, SubSeqProperties
  <2>3. (IF n + 1 <= l THEN l - (n + 1) + 1 ELSE 0) = l - n
    BY <1>3
  <2> QED
    BY <1>1, <2>2, <2>3 DEF From
<1> QED
  BY <1>1, <1>4, <1>5, <1>6, <1>7 DEF From

LEMMA Joined ==
    ASSUME NEW u \in Seq(Int), NEW v \in Seq(Int)
    PROVE  /\ u \o v \in Seq(Int) /\ Len(u \o v) = Len(u) + Len(v)
           /\ u \o << >> = u /\ << >> \o u = u
BY ConcatProperties, ConcatEmptySeq

LEMMA Regroup ==
    ASSUME NEW u \in Seq(Int), NEW v \in Seq(Int), NEW w \in Seq(Int)
    PROVE  (u \o v) \o w = u \o (v \o w)
BY ConcatAssociative, SMTT(60)

LEMMA EmptyIs ==
    ASSUME NEW u \in Seq(Int)
    PROVE  /\ << >> \in Seq(Int) /\ Len(<< >>) = 0
           /\ Len(u) \in Nat /\ (u = << >> <=> Len(u) = 0)
BY EmptySeq, LenProperties

(* The first bytes and the next ones.                                      *)
LEMMA BytesJoin ==
    ASSUME NEW a \in Nat, NEW n \in Nat
    PROVE  Bytes(1, a) \o Bytes(a + 1, a + n) = Bytes(1, a + n)
<1>1. /\ Bytes(1, a) = [i \in 1..a |-> i] /\ Bytes(1, a) \in Seq(Int) /\ Len(Bytes(1, a)) = a
      /\ Bytes(1, a + n) = [i \in 1..(a + n) |-> i] /\ Bytes(1, a + n) \in Seq(Int)
      /\ Len(Bytes(1, a + n)) = a + n
  <2>1. ASSUME NEW b \in Nat
        PROVE  Bytes(1, b) = [i \in 1..b |-> i] /\ Bytes(1, b) \in Seq(Int) /\ Len(Bytes(1, b)) = b
    <3>1. 0 + 1 = 1 /\ 0 + b = b /\ \A i \in 1..b : 0 + i = i
      OBVIOUS
    <3>2. /\ Bytes(0 + 1, 0 + b) = [i \in 1..b |-> 0 + i]
          /\ Bytes(0 + 1, 0 + b) \in Seq(Int) /\ Len(Bytes(0 + 1, 0 + b)) = b
      BY BytesAre
    <3> QED
      BY <3>1, <3>2
  <2> QED
    BY <2>1
<1>2. /\ Bytes(a + 1, a + n) = [i \in 1..n |-> a + i]
      /\ Bytes(a + 1, a + n) \in Seq(Int) /\ Len(Bytes(a + 1, a + n)) = n
  BY BytesAre
<1>3. PICK u : u = Bytes(1, a)
  OBVIOUS
<1>4. PICK v : v = Bytes(a + 1, a + n)
  OBVIOUS
<1>5. PICK w : w = u \o v
  OBVIOUS
<1>6. /\ w \in Seq(Int) /\ Len(w) = a + n
      /\ \A i \in 1..a : w[i] = u[i]
      /\ \A i \in 1..n : w[i + a] = v[i]
  <2>1. u \in Seq(Int) /\ v \in Seq(Int) /\ a = Len(u) /\ n = Len(v)
    BY <1>1, <1>2, <1>3, <1>4
  <2> QED
    BY <1>5, <2>1, ConcatAt
<1>7. ASSUME NEW i \in 1..(a + n) PROVE w[i] = Bytes(1, a + n)[i]
  <2>1. CASE i <= a
    BY <1>1, <1>3, <1>6, <2>1
  <2>2. CASE i > a
    <3>1. PICK j \in 1..n : i = j + a
      BY <2>2
    <3>2. v[j] = a + j
      BY <1>2, <1>4
    <3>3. w[i] = a + j
      BY <1>6, <3>1, <3>2
    <3>4. Bytes(1, a + n)[i] = i
      BY <1>1
    <3> QED
      BY <3>1, <3>3, <3>4
  <2> QED
    BY <2>1, <2>2
<1>8. w = Bytes(1, a + n)
  <2>1. Len(w) = Len(Bytes(1, a + n)) /\ \A i \in 1..Len(w) : w[i] = Bytes(1, a + n)[i]
    BY <1>1, <1>6, <1>7
  <2> QED
    BY <1>1, <1>6, <2>1, SeqEqual
<1> QED
  BY <1>3, <1>4, <1>5, <1>8

-----------------------------------------------------------------------------
(* A decoder's parts, and a decoder from its parts.                        *)
LEMMA StateIs ==
    ASSUME NEW s \in ReaderStates
    PROVE  /\ s.raw \in Seq(Int) /\ s.decoded \in Seq(Int) /\ s.out \in Seq(Int)
           /\ s.till \in Nat /\ s.eof \in EofValues /\ s.bad = FALSE
           /\ Len(s.raw) \in Nat /\ Len(s.decoded) \in Nat /\ Len(s.out) \in Nat
           /\ Done(s) \in Nat
<1>1. /\ s.raw \in Seq(Int) /\ s.decoded \in Seq(Int) /\ s.out \in Seq(Int)
      /\ s.till \in Nat /\ s.eof \in EofValues /\ s.bad = FALSE
  BY DEF ReaderStates
<1>2. Len(s.raw) \in Nat /\ Len(s.decoded) \in Nat /\ Len(s.out) \in Nat
  BY <1>1, LenProperties
<1>3. PICK a \in Nat, b \in Nat : a = Len(s.out) /\ b = Len(s.decoded)
  BY <1>2
<1>4. Done(s) = a + b
  BY <1>3 DEF Done
<1>5. a + b \in Nat
  OBVIOUS
<1> QED
  BY <1>1, <1>2, <1>4, <1>5

(* __copy_buffer moves bytes from what is decoded to the application, and  *)
(* leaves some only where the application's buffer is full.                *)
LEMMA Copied ==
    ASSUME NEW s, Sound(s), NEW len \in Nat, NEW r, r = CopyBuffer(s, len)
    PROVE  /\ Sound(r) /\ ReaderAt(r) = ReaderAt(s)
           /\ r.raw = s.raw /\ r.eof = s.eof /\ r.till = s.till
           /\ Len(r.out) - Len(s.out) \in 0..len
           /\ Len(r.out) - Len(s.out) < len => r.decoded = << >>
           /\ s.decoded = << >> => r.decoded = << >> /\ r.out = s.out
<1>1. /\ s \in ReaderStates /\ s.out \o s.decoded = Bytes(1, Done(s))
      /\ s.till # 1 /\ s.till <= MaxChunk + 2
      /\ s.till > 2 => s.raw = << >> /\ s.eof = -1
  BY DEF Sound
<1>2. PICK d : d = s.decoded
  OBVIOUS
<1>3. d \in Seq(Int) /\ s.out \in Seq(Int)
  BY <1>1, <1>2, StateIs
<1>4. PICK l \in Nat : l = Len(d)
  BY <1>3, LenProperties
<1>5. PICK n \in 0..l : n = Smaller(len, l)
  BY DEF Smaller
<1>6. PICK f, g : f = SubSeq(d, 1, n) /\ g = From(d, n + 1)
  OBVIOUS
<1>7. d = f \o g /\ f \in Seq(Int) /\ Len(f) = n /\ g \in Seq(Int) /\ Len(g) = l - n
  BY <1>3, <1>4, <1>6, CutAt
<1>8. r = [s EXCEPT !.out = s.out \o f, !.decoded = g]
  BY <1>2, <1>4, <1>5, <1>6 DEF CopyBuffer
<1>9. /\ r.out = s.out \o f /\ r.decoded = g /\ r.raw = s.raw /\ r.till = s.till
      /\ r.eof = s.eof /\ r.bad = s.bad
  BY <1>1, <1>8 DEF ReaderStates
<1>10. s.out \o f \in Seq(Int) /\ Len(s.out \o f) = Len(s.out) + n
  BY <1>3, <1>7, Joined
<1>11. r \in ReaderStates
  BY <1>1, <1>7, <1>8, <1>10 DEF ReaderStates
<1>12. Len(s.out) \in Nat /\ Len(r.out) = Len(s.out) + n /\ Len(r.decoded) = l - n
  BY <1>1, <1>7, <1>9, <1>10, StateIs
<1>13. Done(r) = Done(s)
  <2>1. PICK a \in Nat : a = Len(s.out)
    BY <1>12
  <2>2. Done(r) = (a + n) + (l - n) /\ Done(s) = a + l
    BY <1>2, <1>4, <1>12, <2>1 DEF Done
  <2> QED
    BY <2>2
<1>14. r.out \o r.decoded = s.out \o s.decoded
  <2>1. s.out \in Seq(Int) /\ f \in Seq(Int) /\ g \in Seq(Int)
    BY <1>3, <1>7
  <2>2. (s.out \o f) \o g = s.out \o (f \o g)
    BY <2>1, Regroup, Zenon
  <2> QED
    BY <1>2, <1>7, <1>9, <2>2
<1>15. Sound(r) /\ ReaderAt(r) = ReaderAt(s)
  BY <1>1, <1>9, <1>11, <1>13, <1>14 DEF Sound, ReaderAt
<1>16. n \in 0..len /\ (n < len => n = l)
  BY <1>5 DEF Smaller
<1>17. Len(r.out) - Len(s.out) = n
  BY <1>12
<1>18. n = l => g = << >>
  BY <1>7, EmptyIs
<1>19. d = << >> => g = << >> /\ r.out = s.out
  <2>1. d = << >> => n = 0 /\ n = l
    BY <1>3, <1>4, EmptyIs
  <2>2. n = 0 => f = << >>
    BY <1>7, EmptyIs
  <2>3. s.out \o << >> = s.out
    BY <1>3, Joined
  <2> QED
    BY <1>9, <1>18, <2>1, <2>2, <2>3
<1> QED
  BY <1>2, <1>9, <1>15, <1>16, <1>17, <1>18, <1>19

(* A body that goes straight to the application.                           *)
LEMMA BodyRead ==
    ASSUME NEW s, NEW got \in Seq(Int), NEW rest \in Seq(Int), NEW w,
           OnWay(s, got \o rest, w), s.decoded = << >>, s.till > 2,
           Len(got) + 2 <= s.till,
           NEW r, r = ReadBody(s, got)
    PROVE  OnWay(r, rest, w) /\ r.eof = s.eof /\ Len(r.out) >= Len(s.out)
<1>1. /\ s \in ReaderStates /\ s.out \o s.decoded = Bytes(1, Done(s))
      /\ s.till # 1 /\ s.till <= MaxChunk + 2 /\ s.raw = << >> /\ s.eof = -1
      /\ Framed(ReaderAt(s), s.raw \o (got \o rest), w)
  BY DEF Sound, OnWay
<1>2. PICK t \in Nat, k \in Nat, l \in Nat : t = s.till /\ k = Done(s) /\ l = Len(got)
  BY <1>1, StateIs, LenProperties
<1>3. s.raw \o (got \o rest) = got \o rest /\ s.out \in Seq(Int) /\ s.out = Bytes(1, k) /\ Len(s.out) = k
  <2>1. s.out \in Seq(Int) /\ got \o rest \in Seq(Int)
    BY <1>1, StateIs, Joined
  <2>2. s.out \o << >> = s.out /\ << >> \o (got \o rest) = got \o rest
    BY <2>1, Joined
  <2>3. Len(s.decoded) = 0 /\ Len(s.out) \in Nat
    BY <1>1, EmptyIs, StateIs
  <2> QED
    BY <1>1, <1>2, <2>1, <2>2, <2>3 DEF Done
<1>4. Framed(At(0, t, k), got \o rest, w)
  BY <1>1, <1>2, <1>3 DEF ReaderAt
<1>5. PICK q \in Places : Framed(At(0, t, k), got, q) /\ Framed(q, rest, w)
  BY <1>4, FramedSplit
<1>6. got = Bytes(k + 1, k + l) /\ q = At(0, t - l, k + l)
  BY <1>2, <1>5, BodyRun
<1>7. r = [s EXCEPT !.out = s.out \o got, !.till = s.till - l]
  BY <1>2 DEF ReadBody
<1>8. /\ r.out = s.out \o got /\ r.decoded = << >> /\ r.raw = << >> /\ r.till = t - l
      /\ r.eof = -1 /\ r.bad = s.bad
  BY <1>1, <1>2, <1>7 DEF ReaderStates
<1>9. s.out \o got \in Seq(Int) /\ Len(s.out \o got) = k + l /\ t - l \in Nat /\ t - l >= 2
  <2>1. s.out \o got \in Seq(Int) /\ Len(s.out \o got) = Len(s.out) + Len(got)
    BY <1>3, Joined
  <2>2. t - l \in Nat /\ t - l >= 2
    BY <1>2
  <2> QED
    BY <1>2, <1>3, <2>1, <2>2
<1>10. r \in ReaderStates
  BY <1>1, <1>2, <1>7, <1>9 DEF ReaderStates
<1>11. Done(r) = k + l
  <2>1. Len(r.decoded) = 0
    BY <1>8, EmptyIs
  <2> QED
    BY <1>2, <1>8, <1>9, <2>1 DEF Done
<1>12. r.out \o r.decoded = Bytes(1, k + l)
  <2>1. r.out \o << >> = r.out
    BY <1>8, <1>9, Joined
  <2> QED
    BY <1>2, <1>3, <1>6, <1>8, <2>1, BytesJoin
<1>13. Sound(r)
  <2>1. r.till # 1 /\ r.till <= MaxChunk + 2
    BY <1>1, <1>2, <1>8, <1>9, WriterAssumption
  <2> QED
    BY <1>8, <1>10, <1>11, <1>12, <2>1 DEF Sound
<1>14. Framed(ReaderAt(r), r.raw \o rest, w)
  <2>1. << >> \o rest = rest
    BY Joined
  <2>2. ReaderAt(r) = At(0, t - l, k + l)
    BY <1>8, <1>11 DEF ReaderAt
  <2> QED
    BY <1>5, <1>6, <1>8, <2>1, <2>2
<1> QED
  BY <1>1, <1>2, <1>3, <1>8, <1>9, <1>13, <1>14 DEF OnWay

(* A decoder that had given everything away, with new bytes decoded.       *)
LEMMA Rebuilt ==
    ASSUME NEW s, Sound(s), s.decoded = << >>, NEW k \in Nat, k = Done(s),
           NEW r \in ReaderStates, r.out = s.out,
           NEW l \in Nat, l = Len(r.decoded), r.decoded = Bytes(k + 1, k + l),
           r.till # 1, r.till <= MaxChunk + 2, r.till > 2 => r.raw = << >> /\ r.eof = -1,
           NEW rest \in Seq(Int), NEW w, NEW p, Framed(p, r.raw \o rest, w),
           p = IF r.eof = -1 THEN At(0, r.till, k + l) ELSE At(3, 2, k + l)
    PROVE  OnWay(r, rest, w)
<1>1. s \in ReaderStates /\ s.out \o s.decoded = Bytes(1, k)
  BY DEF Sound
<1>2. s.out \in Seq(Int)
  BY <1>1, StateIs
<1>3. PICK a \in Nat : a = Len(s.out)
  BY <1>1, StateIs
<1>4. a = k
  <2>1. Len(s.decoded) = 0
    BY EmptyIs
  <2> QED
    BY <1>3, <2>1 DEF Done
<1>5. s.out = Bytes(1, k)
  <2>1. s.out \o << >> = s.out
    BY <1>2, Joined
  <2> QED
    BY <1>1, <2>1
<1>6. Done(r) = k + l
  BY <1>3, <1>4 DEF Done
<1>7. r.out \o r.decoded = Bytes(1, k + l)
  BY <1>5, BytesJoin, ZenonT(60)
<1> QED
  BY <1>6, <1>7 DEF OnWay, Sound, ReaderAt

(* The decoder's buffers and counters, rewritten.                          *)
Rewrite(s, d, v, t, e) == [s EXCEPT !.decoded = d, !.raw = v, !.till = t, !.eof = e]
IsRewritten(r, s, d, v, t, e) ==
    /\ r \in ReaderStates /\ r.out = s.out
    /\ r.decoded = d /\ r.raw = v /\ r.till = t /\ r.eof = e

LEMMA Rewritten ==
    ASSUME NEW s \in ReaderStates, NEW d \in Seq(Int), NEW v \in Seq(Int),
           NEW t \in Nat, NEW e, e \in EofValues
    PROVE  IsRewritten(Rewrite(s, d, v, t, e), s, d, v, t, e)
BY DEF ReaderStates, Rewrite, IsRewritten

LEMMA NoBytes ==
    ASSUME NEW k \in Nat
    PROVE  << >> = Bytes(k + 1, k + 0)
<1>1. Bytes(k + 1, k + 0) \in Seq(Int) /\ Len(Bytes(k + 1, k + 0)) = 0
  BY BytesAre
<1> QED
  BY <1>1, EmptyIs

(* What follows the header of a chunk of n bytes.                          *)
AfterHeader(n, k) == At(IF n = 0 THEN 3 ELSE 0, n + 2, k)

LEMMA BodyTaken ==
    ASSUME NEW s, Sound(s), s.decoded = << >>, s.eof = -1, NEW k \in Nat, k = Done(s),
           NEW b \in Seq(Int), NEW rest \in Seq(Int), NEW n \in 0..MaxChunk, NEW w,
           Framed(AfterHeader(n, k), b \o rest, w),
           NEW r, r = TakeBody(s, b, n)
    PROVE  OnWay(r, rest, w) /\ r.out = s.out
<1>0. Framed(At(IF n = 0 THEN 3 ELSE 0, n + 2, k), b \o rest, w)
  BY DEF AfterHeader
<1>1. s \in ReaderStates /\ n \in Nat /\ n <= MaxChunk /\ MaxChunk \in Nat
  BY WriterAssumption DEF Sound
<1>2. PICK l \in Nat : l = Len(b)
  BY LenProperties
<1>3. PICK e : e = (IF n = 0 THEN 2 ELSE -1) /\ e \in EofValues
  BY DEF EofValues
<1>4. b = << >> <=> l = 0
  BY <1>2, EmptyIs
<1>5. << >> = Bytes(k + 1, k + 0) /\ << >> \in Seq(Int) /\ Len(<< >>) = 0 /\ k + 0 = k
  <2>1. << >> \in Seq(Int)
    BY EmptySeq
  <2>2. Len(<< >>) = 0 /\ k + 0 = k
    BY <2>1, EmptyIs
  <2> QED
    BY <2>1, <2>2, NoBytes
<1>6. CASE l = 0
  <2>1. PICK t \in Nat : t = n + 2
    BY <1>1
  <2>2. r = Rewrite(s, << >>, << >>, t, e)
    <3>1. r = [s EXCEPT !.raw = << >>, !.till = t, !.eof = e]
      BY <1>3, <1>4, <1>6, <2>1 DEF TakeBody
    <3> QED
      BY <1>1, <3>1 DEF ReaderStates, Rewrite
  <2>3. /\ r \in ReaderStates /\ r.out = s.out
        /\ r.decoded = << >> /\ r.raw = << >> /\ r.till = n + 2 /\ r.eof = e
    <3>1. IsRewritten(r, s, << >>, << >>, t, e)
      BY <1>1, <1>3, <1>5, <2>2, Rewritten
    <3> QED
      BY <2>1, <3>1 DEF IsRewritten
  <2>4. PICK p : p = At(IF n = 0 THEN 3 ELSE 0, n + 2, k)
    OBVIOUS
  <2>5. p = IF r.eof = -1 THEN At(0, r.till, k + l) ELSE At(3, 2, k + l)
    <3>1. k + l = k
      BY <1>6
    <3> QED
      BY <1>1, <1>3, <2>3, <2>4, <3>1
  <2>6. Framed(p, r.raw \o rest, w)
    BY <1>0, <1>4, <1>6, <2>3, <2>4
  <2>7. r.till # 1 /\ r.till <= MaxChunk + 2 /\ (r.till > 2 => r.raw = << >> /\ r.eof = -1)
    BY <1>1, <1>3, <2>3
  <2>8. l = Len(r.decoded) /\ r.decoded = Bytes(k + 1, k + l)
    BY <1>5, <1>6, <2>3
  <2> QED
    BY <2>3, <2>5, <2>6, <2>7, <2>8, Rebuilt
<1>7. CASE l > 0 /\ l <= n
  <2>1. PICK t \in Nat : t = n + 2 - l
    BY <1>1, <1>7
  <2>2. /\ r \in ReaderStates /\ r.out = s.out
        /\ r.decoded = b /\ r.raw = << >> /\ r.till = t /\ r.eof = -1
    <3>1. n # 0 /\ b # << >> /\ Len(b) <= n
      BY <1>1, <1>2, <1>4, <1>7
    <3>2. r = [s EXCEPT !.decoded = b, !.raw = << >>, !.eof = s.eof, !.till = n + 2 - Len(b)]
      BY <3>1 DEF TakeBody
    <3>3. r = Rewrite(s, b, << >>, t, -1)
      BY <1>1, <1>2, <2>1, <3>2 DEF ReaderStates, Rewrite
    <3>4. -1 \in EofValues
      BY DEF EofValues
    <3>5. IsRewritten(r, s, b, << >>, t, -1)
      BY <1>1, <1>5, <3>3, <3>4, Rewritten
    <3> QED
      BY <3>5 DEF IsRewritten
  <2>4. PICK q \in Places : Framed(At(0, n + 2, k), b, q) /\ Framed(q, rest, w)
    <3>1. Framed(At(0, n + 2, k), b \o rest, w)
      BY <1>0, <1>7
    <3> QED
      BY <3>1, FramedSplit
  <2>5. b = Bytes(k + 1, k + l) /\ q = At(0, t, k + l)
    <3>1. n + 2 \in Nat /\ Len(b) + 2 <= n + 2
      BY <1>1, <1>2, <1>7
    <3>2. b = Bytes(k + 1, k + Len(b)) /\ q = At(0, (n + 2) - Len(b), k + Len(b))
      BY <2>4, <3>1, BodyRun
    <3> QED
      BY <1>2, <2>1, <3>2
  <2>6. << >> \o rest = rest
    BY Joined
  <2>7. r.till # 1 /\ r.till <= MaxChunk + 2 /\ (r.till > 2 => r.raw = << >> /\ r.eof = -1)
    BY <1>1, <1>7, <2>1, <2>2
  <2>8. q = IF r.eof = -1 THEN At(0, r.till, k + l) ELSE At(3, 2, k + l)
    BY <2>2, <2>5
  <2>9. Framed(q, r.raw \o rest, w) /\ l = Len(r.decoded) /\ r.decoded = Bytes(k + 1, k + l)
    BY <1>2, <2>2, <2>4, <2>5, <2>6
  <2> QED
    BY <2>2, <2>7, <2>8, <2>9, Rebuilt
<1>8. CASE l > n
  <2>1. PICK d, v : d = SubSeq(b, 1, n) /\ v = From(b, n + 1)
    OBVIOUS
  <2>2. b = d \o v /\ d \in Seq(Int) /\ Len(d) = n /\ v \in Seq(Int) /\ Len(v) = l - n
    <3>1. n \in 0..Len(b)
      BY <1>1, <1>2, <1>8
    <3> QED
      BY <1>2, <2>1, <3>1, CutAt
  <2>3. PICK h \in {0, 3} : h = IF n = 0 THEN 3 ELSE 0
    OBVIOUS
  <2>4. v \o rest \in Seq(Int) /\ Framed(At(h, n + 2, k), d \o (v \o rest), w)
    <3>1. v \o rest \in Seq(Int)
      BY <2>2, Joined
    <3>2. (d \o v) \o rest = d \o (v \o rest)
      BY <2>2, Regroup, ZenonT(60)
    <3> QED
      BY <1>0, <2>2, <2>3, <3>1, <3>2
  <2>5. PICK q \in Places : Framed(At(h, n + 2, k), d, q) /\ Framed(q, v \o rest, w)
    BY <2>2, <2>4, FramedSplit
  <2>6. d = Bytes(k + 1, k + n) /\ q = At(h, 2, k + n)
    <3>1. CASE n = 0
      <4>1. d = << >>
        BY <2>2, <3>1, EmptyIs
      <4>2. At(h, n + 2, k) \in Places /\ At(h, n + 2, k).h = 3
        BY <1>1, <2>3, <3>1, AtIs DEF At, Places
      <4>3. q = At(h, n + 2, k)
        BY <2>2, <2>5, <4>2, EndRun
      <4> QED
        BY <1>5, <3>1, <4>1, <4>3
    <3>2. CASE n > 0
      <4>1. h = 0 /\ n + 2 \in Nat /\ Len(d) + 2 <= n + 2
        BY <1>1, <2>2, <2>3, <3>2
      <4>2. d = Bytes(k + 1, k + n) /\ q = At(0, (n + 2) - n, k + n)
        <5>1. d = Bytes(k + 1, k + Len(d)) /\ q = At(0, (n + 2) - Len(d), k + Len(d))
          <6>1. PICK m \in Nat : m = n + 2
            BY <4>1
          <6>2. Framed(At(0, m, k), d, q) /\ d \in Seq(Int) /\ Len(d) + 2 <= m
            BY <2>2, <2>5, <4>1, <6>1
          <6>3. d = Bytes(k + 1, k + Len(d)) /\ q = At(0, m - Len(d), k + Len(d))
            BY <6>2, BodyRun
          <6> QED
            BY <6>1, <6>3
        <5> QED
          BY <2>2, <5>1
      <4>3. (n + 2) - n = 2
        BY <1>1
      <4> QED
        BY <4>1, <4>2, <4>3
    <3> QED
      BY <1>1, <3>1, <3>2
  <2>7. CASE l - n < 2
    <3>1. r = Rewrite(s, d, v, 2, e)
      BY <1>1, <1>2, <1>3, <1>4, <1>8, <2>1, <2>2, <2>7 DEF TakeBody, Rewrite
    <3>2. /\ r.raw = v /\ r.till = 2 /\ r.eof = e /\ r.decoded = d /\ r.out = s.out
          /\ r \in ReaderStates
      <4>1. s \in ReaderStates /\ d \in Seq(Int) /\ v \in Seq(Int) /\ 2 \in Nat /\ e \in EofValues
        BY <1>1, <1>3, <2>2
      <4> QED
        <5>1. IsRewritten(r, s, d, v, 2, e)
          BY <3>1, <4>1, Rewritten
        <5> QED
          BY <5>1 DEF IsRewritten
    <3>3. r \in ReaderStates
      BY <3>2
    <3>4. q = IF r.eof = -1 THEN At(0, r.till, k + n) ELSE At(3, 2, k + n)
      BY <1>3, <2>3, <2>6, <3>2
    <3>5. r.till # 1 /\ r.till <= MaxChunk + 2 /\ (r.till > 2 => r.raw = << >> /\ r.eof = -1)
      BY <1>1, <3>2
    <3>6. Framed(q, r.raw \o rest, w) /\ n = Len(r.decoded) /\ r.decoded = Bytes(k + 1, k + n)
      BY <2>2, <2>5, <2>6, <3>2
    <3> QED
      BY <1>1, <3>2, <3>3, <3>4, <3>5, <3>6, Rebuilt
  <2>8. CASE l - n >= 2
    <3>1. PICK x, y : x = SubSeq(v, 1, 2) /\ y = From(v, 2 + 1)
      OBVIOUS
    <3>2. v = x \o y /\ x \in Seq(Int) /\ Len(x) = 2 /\ y \in Seq(Int)
      <4>1. 2 \in 0..Len(v)
        BY <1>1, <2>2, <2>8
      <4> QED
        BY <2>2, <3>1, <4>1, CutAt, ZenonT(60)
    <3>3. PICK c : c = (IF n = 0 THEN 0 ELSE -1) /\ c \in EofValues
      BY DEF EofValues
    <3>4. r = Rewrite(s, d, y, 0, c)
      <4>1. /\ Len(b) > n /\ ~(Len(b) <= n) /\ b # << >> /\ Len(v) >= 2 /\ ~(Len(v) < 2)
            /\ y = From(v, 3)
        <5>1. y = From(v, 3)
          BY <3>1
        <5> QED
          BY <1>1, <1>2, <1>4, <1>8, <2>2, <2>8, <5>1
      <4>2. r = [s EXCEPT !.decoded = d, !.raw = y, !.till = 0,
                          !.eof = IF (IF n = 0 THEN 2 ELSE s.eof) # -1 THEN 0
                                  ELSE (IF n = 0 THEN 2 ELSE s.eof)]
        BY <2>1, <4>1 DEF TakeBody
      <4>3. c = IF (IF n = 0 THEN 2 ELSE s.eof) # -1 THEN 0 ELSE (IF n = 0 THEN 2 ELSE s.eof)
        BY <3>3
      <4> QED
        BY <4>2, <4>3 DEF Rewrite
    <3>5. IsRewritten(r, s, d, y, 0, c)
      BY <1>1, <2>2, <3>2, <3>3, <3>4, Rewritten
    <3>6. /\ r \in ReaderStates /\ r.out = s.out
          /\ r.raw = y /\ r.till = 0 /\ r.eof = c /\ r.decoded = d
      BY <3>5 DEF IsRewritten
    <3>7. y \o rest \in Seq(Int) /\ Framed(q, x \o (y \o rest), w)
      <4>1. y \o rest \in Seq(Int)
        BY <3>2, Joined
      <4>2. (x \o y) \o rest = x \o (y \o rest)
        BY <3>2, Regroup, ZenonT(60)
      <4> QED
        BY <2>5, <3>2, <4>1, <4>2
    <3>8. PICK p \in Places : Framed(q, x, p) /\ Framed(p, y \o rest, w)
      BY <3>2, <3>7, FramedSplit
    <3>9. p = IF r.eof = -1 THEN At(0, r.till, k + n) ELSE At(3, 2, k + n)
      <4>1. CASE n = 0
        <5>1. q.h = 3
          BY <2>3, <2>6, <4>1, AtIs
        <5>2. p = q
          BY <3>2, <3>8, <5>1, EndRun
        <5> QED
          BY <2>3, <2>6, <3>3, <3>6, <4>1, <5>2
      <4>2. CASE n # 0
        <5>1. k + n \in Nat /\ Framed(At(0, 2, k + n), x, p) /\ Len(x) > 0
          BY <1>1, <2>3, <2>6, <3>2, <3>8, <4>2
        <5>2. p = At(0, 0, k + n)
          BY <3>2, <5>1, LineEndRun
        <5> QED
          BY <3>3, <3>6, <4>2, <5>2
      <4> QED
        BY <4>1, <4>2
    <3>10. r.till # 1 /\ r.till <= MaxChunk + 2 /\ (r.till > 2 => r.raw = << >> /\ r.eof = -1)
      BY <1>1, <3>6
    <3>11. Framed(p, r.raw \o rest, w) /\ n = Len(r.decoded) /\ r.decoded = Bytes(k + 1, k + n)
      BY <2>2, <2>6, <3>6, <3>8
    <3> QED
      BY <1>1, <3>6, <3>9, <3>10, <3>11, Rebuilt
  <2> QED
    BY <1>1, <1>2, <2>7, <2>8
<1> QED
  BY <1>1, <1>2, <1>6, <1>7, <1>8

(* A header in the raw buffer ends at its third symbol.                    *)
LEMMA HeaderEndsAt ==
    ASSUME NEW u \in Seq(Int), NEW k \in Nat, NEW q, Framed(At(0, 0, k), u, q)
    PROVE  /\ Len(u) < 3 => HeaderEnds(u) = {}
           /\ Len(u) >= 3 => 3 \in HeaderEnds(u) /\ \A i \in HeaderEnds(u) : 3 <= i
<1>1. PICK l \in Nat : l = Len(u)
  BY LenProperties
<1>2. l >= 2 => u[2] = CR
  <2>1. CASE l > 0
    BY <1>1, <2>1, HeaderRun
  <2> QED
    BY <2>1
<1>3. l >= 3 => u[3] = LF
  <2>1. CASE l > 0
    BY <1>1, <2>1, HeaderRun
  <2> QED
    BY <2>1
<1>4. CR # LF
  BY DEF CR, LF
<1>5. HeaderEnds(u) = {i \in 2..l : u[i] = LF /\ u[i - 1] = CR}
  BY <1>1 DEF HeaderEnds
<1>6. 2 \notin HeaderEnds(u)
  BY <1>2, <1>4, <1>5
<1>7. \A i \in HeaderEnds(u) : i \in 2..l /\ i # 2
  BY <1>5, <1>6
<1>8. l >= 3 => 3 \in HeaderEnds(u)
  <2>1. 3 - 1 = 2
    OBVIOUS
  <2>2. l >= 3 => 3 \in 2..l /\ u[3] = LF /\ u[3 - 1] = CR
    BY <1>2, <1>3, <2>1
  <2> QED
    BY <1>5, <2>2
<1>9. \A i \in HeaderEnds(u) : 3 <= i /\ l >= 3
  BY <1>7
<1> QED
  BY <1>1, <1>8, <1>9

(* The decoder, at a header: it waits for the rest of it or takes what     *)
(* follows.                                                                *)
LEMMA HeaderParsed ==
    ASSUME NEW s, NEW rest \in Seq(Int), NEW w, OnWay(s, rest, w),
           s.decoded = << >>, s.eof = -1, s.till = 0, NEW r, r = ParseHeader(s)
    PROVE  OnWay(r, rest, w) /\ r.out = s.out
<1>1. Sound(s) /\ s \in ReaderStates /\ Framed(ReaderAt(s), s.raw \o rest, w)
  BY DEF OnWay, Sound
<1>2. PICK k \in Nat : k = Done(s)
  BY <1>1, StateIs
<1>3. PICK u : u = s.raw
  OBVIOUS
<1>4. u \in Seq(Int) /\ Framed(At(0, 0, k), u \o rest, w)
  BY <1>1, <1>2, <1>3, StateIs DEF ReaderAt
<1>5. PICK l \in Nat : l = Len(u)
  BY <1>4, LenProperties
<1>6. PICK q \in Places : Framed(At(0, 0, k), u, q)
  BY <1>4, FramedSplit
<1>7. /\ l < 3 => HeaderEnds(u) = {}
      /\ l >= 3 => 3 \in HeaderEnds(u) /\ \A i \in HeaderEnds(u) : 3 <= i
  BY <1>4, <1>5, <1>6, HeaderEndsAt
<1>8. CASE l < 3
  <2>1. r = s
    BY <1>3, <1>7, <1>8 DEF ParseHeader
  <2> QED
    BY <2>1
<1>9. CASE l >= 3
  <2>1. PICK hd, b : hd = SubSeq(u, 1, 3) /\ b = From(u, 3 + 1)
    OBVIOUS
  <2>2. /\ u = hd \o b /\ hd \in Seq(Int) /\ Len(hd) = 3 /\ b \in Seq(Int)
        /\ \A i \in 1..3 : hd[i] = u[i]
    <3>1. 3 \in 0..Len(u)
      BY <1>5, <1>9
    <3> QED
      BY <1>4, <2>1, <3>1, CutAt, ZenonT(60)
  <2>3. b \o rest \in Seq(Int) /\ Framed(At(0, 0, k), hd \o (b \o rest), w)
    <3>1. b \o rest \in Seq(Int)
      BY <2>2, Joined
    <3>2. (hd \o b) \o rest = hd \o (b \o rest)
      BY <2>2, Regroup
    <3> QED
      BY <1>4, <2>2, <3>1, <3>2
  <2>4. PICK p \in Places : Framed(At(0, 0, k), hd, p) /\ Framed(p, b \o rest, w)
    BY <2>2, <2>3, FramedSplit
  <2>5. PICK n \in 0..MaxChunk :
          hd[1] = LengthSymbol(n) /\ p = At(IF n = 0 THEN 3 ELSE 0, n + 2, k)
    <3>1. Len(hd) > 0
      BY <2>2
    <3>2. hd \in Seq(Int) /\ Framed(At(0, 0, k), hd, p)
      BY <2>2, <2>4
    <3>3. PICK n \in 0..MaxChunk :
            /\ hd[1] = LengthSymbol(n)
            /\ Len(hd) >= 2 => hd[2] = CR
            /\ Len(hd) >= 3 => hd[3] = LF
            /\ Len(hd) = 3 => p = At(IF n = 0 THEN 3 ELSE 0, n + 2, k)
      BY <3>1, <3>2, HeaderRun
    <3>4. hd[1] = LengthSymbol(n) /\ p = At(IF n = 0 THEN 3 ELSE 0, n + 2, k)
      BY <2>2, <3>3
    <3> QED
      BY <3>4
  <2>6. u[1] = LengthSymbol(n) /\ IsLength(u[1]) /\ LengthOf(u[1]) = n
    <3>1. n \in Nat /\ 1 \in 1..3
      BY WriterAssumption
    <3>2. u[1] = LengthSymbol(n)
      BY <2>2, <2>5, <3>1
    <3>3. IsLength(LengthSymbol(n)) /\ LengthOf(LengthSymbol(n)) = n
      BY <3>1, Symbols
    <3> QED
      BY <3>2, <3>3
  <2>7. (CHOOSE j \in HeaderEnds(u) : \A i \in HeaderEnds(u) : j <= i) = 3
    <3> DEFINE least == CHOOSE j \in HeaderEnds(u) : \A i \in HeaderEnds(u) : j <= i
    <3>1. 3 \in HeaderEnds(u) /\ \A i \in HeaderEnds(u) : 3 <= i
      BY <1>7, <1>9
    <3>2. least \in HeaderEnds(u) /\ \A i \in HeaderEnds(u) : least <= i
      BY <3>1, Zenon
    <3>3. least \in Int /\ 3 <= least /\ least <= 3
      <4>1. HeaderEnds(u) \subseteq Int
        BY <1>5 DEF HeaderEnds
      <4> HIDE DEF least
      <4> QED
        BY <3>1, <3>2, <4>1
    <3> HIDE DEF least
    <3>4. least = 3
      BY <3>3
    <3> QED
      BY <3>4 DEF least
  <2>8. r = TakeBody(s, b, n)
    <3>1. HeaderEnds(u) # {} /\ b = From(u, 3 + 1)
      BY <1>7, <1>9, <2>1
    <3> QED
      BY <1>3, <2>6, <2>7, <3>1 DEF ParseHeader
  <2>9. b \in Seq(Int) /\ Framed(AfterHeader(n, k), b \o rest, w)
    BY <2>2, <2>4, <2>5 DEF AfterHeader
  <2> QED
    BY <1>1, <1>2, <2>8, <2>9, BodyTaken
<1> QED
  BY <1>8, <1>9

LEMMA EmptyRun ==
    ASSUME NEW p, NEW q, Framed(p, << >>, q)
    PROVE  q = p
<1>1. PICK P : Run(P, << >>, p, q)
  BY DEF Framed
<1>2. Len(<< >>) + 1 = 1
  OBVIOUS
<1> QED
  BY <1>1, <1>2 DEF Run

(* A decoder's place, from its counters.                                   *)
Facing(e, t, k) == IF e = -1 THEN At(0, t, k) ELSE At(3, 2, k)

(* Past the "\r\n" in front of a header, or past what ends the stream.     *)
LEMMA Skipped ==
    ASSUME NEW k \in Nat, NEW t, t \in {0, 2}, NEW x \in Seq(Int), Len(x) = t,
           NEW e, NEW q, Framed(Facing(e, t, k), x, q)
    PROVE  q = Facing(e, 0, k)
<1> DEFINE p == Facing(e, t, k)
<1>1. CASE e # -1
  <2>1. p = At(3, 2, k) /\ p \in Places /\ p.h = 3
    BY <1>1, AtIs DEF Facing, At, Places
  <2>2. q = p
    BY <2>1, EndRun
  <2> QED
    BY <1>1, <2>1, <2>2 DEF Facing
<1>2. CASE e = -1 /\ t = 2
  <2>1. Framed(At(0, 2, k), x, q) /\ Len(x) > 0 /\ Len(x) = 2
    BY <1>2 DEF Facing
  <2>2. q = At(0, 0, k)
    BY <2>1, LineEndRun
  <2> QED
    BY <1>2, <2>2 DEF Facing
<1>3. CASE e = -1 /\ t = 0
  <2>1. x = << >>
    BY <1>3, EmptyIs
  <2>2. q = p
    BY <2>1, EmptyRun
  <2> QED
    BY <1>3, <2>2
<1> QED
  BY <1>1, <1>2, <1>3

(* The decoder with its raw buffer and its counters set anew.              *)
LEMMA Moved ==
    ASSUME NEW s, Sound(s), s.decoded = << >>, NEW k \in Nat, k = Done(s),
           NEW v \in Seq(Int), NEW t, t \in {0, 2}, NEW e, e \in EofValues,
           NEW rest \in Seq(Int), NEW w, Framed(Facing(e, t, k), v \o rest, w)
    PROVE  /\ OnWay(Rewrite(s, << >>, v, t, e), rest, w)
           /\ IsRewritten(Rewrite(s, << >>, v, t, e), s, << >>, v, t, e)
<1>0. PICK r : r = Rewrite(s, << >>, v, t, e)
  OBVIOUS
<1> DEFINE p == Facing(e, t, k)
<1>1. << >> \in Seq(Int) /\ s \in ReaderStates /\ t \in Nat
  BY EmptySeq DEF Sound
<1>2. IsRewritten(r, s, << >>, v, t, e)
  BY <1>0, <1>1, Rewritten
<1>3. /\ r \in ReaderStates /\ r.out = s.out
      /\ r.decoded = << >> /\ r.raw = v /\ r.till = t /\ r.eof = e
  BY <1>2 DEF IsRewritten
<1>4. PICK l \in Nat : l = 0
  OBVIOUS
<1>5. l = Len(r.decoded) /\ r.decoded = Bytes(k + 1, k + l)
  <2>1. << >> = Bytes(k + 1, k + 0) /\ Len(<< >>) = 0
    BY <1>1, NoBytes, EmptyIs
  <2> QED
    BY <1>3, <1>4, <2>1
<1>6. p = IF r.eof = -1 THEN At(0, r.till, k + l) ELSE At(3, 2, k + l)
  <2>1. k + l = k
    BY <1>4
  <2> QED
    BY <1>3, <2>1 DEF Facing
<1>7. r.till # 1 /\ r.till <= MaxChunk + 2 /\ (r.till > 2 => r.raw = << >> /\ r.eof = -1)
  BY <1>3, WriterAssumption
<1>8. Framed(p, r.raw \o rest, w)
  BY <1>3
<1>9. OnWay(r, rest, w)
  <2> HIDE DEF p
  <2> QED
    BY <1>3, <1>5, <1>6, <1>7, <1>8, Rebuilt
<1> QED
  BY <1>0, <1>2, <1>9

(* The decoder, not in a body, with more in its raw buffer.                *)
LEMMA RawRead ==
    ASSUME NEW s, NEW got \in Seq(Int), NEW rest \in Seq(Int), NEW w,
           OnWay(s, got \o rest, w), s.decoded = << >>, s.till <= 2, Len(got) > 0,
           NEW r, r = ReadRaw(s, got)
    PROVE  OnWay(r, rest, w) /\ r.out = s.out
<1>1. /\ Sound(s) /\ s \in ReaderStates /\ s.till # 1
      /\ Framed(ReaderAt(s), s.raw \o (got \o rest), w)
  BY DEF OnWay, Sound
<1>2. PICK k \in Nat : k = Done(s)
  BY <1>1, StateIs
<1>3. PICK t : t = s.till /\ t \in {0, 2}
  <2>1. s.till \in Nat
    BY <1>1, StateIs
  <2> QED
    BY <1>1, <2>1
<1>4. PICK e : e = s.eof /\ e \in EofValues
  BY <1>1, StateIs
<1>5. PICK all : all = s.raw \o got
  OBVIOUS
<1>6. PICK p : p = Facing(e, t, k)
  OBVIOUS
<1>7. all \in Seq(Int) /\ s.raw \in Seq(Int) /\ Framed(p, all \o rest, w)
  <2>1. s.raw \in Seq(Int) /\ all \in Seq(Int)
    BY <1>1, <1>5, StateIs, Joined
  <2>2. (s.raw \o got) \o rest = s.raw \o (got \o rest)
    BY <2>1, Regroup, ZenonT(60)
  <2>3. p = ReaderAt(s)
    BY <1>2, <1>3, <1>4, <1>6 DEF ReaderAt, Facing
  <2> QED
    BY <1>1, <1>5, <2>1, <2>2, <2>3
<1>8. PICK l \in Nat : l = Len(all) /\ l > 0
  <2>1. Len(all) = Len(s.raw) + Len(got)
    BY <1>5, <1>7, Joined
  <2>2. Len(s.raw) \in Nat /\ Len(got) \in Nat /\ Len(all) \in Nat
    BY <1>7, LenProperties
  <2> QED
    BY <2>1, <2>2
<1>9. CASE l <= t
  <2>1. t = 2
    BY <1>3, <1>8, <1>9
  <2>2. CASE l = 2
    <3>1. r = Rewrite(s, << >>, << >>, 0, e)
      <4>1. r = [s EXCEPT !.raw = << >>, !.till = 0]
        BY <1>3, <1>5, <1>8, <2>1, <2>2 DEF ReadRaw
      <4> QED
        BY <1>1, <1>4, <4>1 DEF Rewrite, ReaderStates
    <3>2. PICK q \in Places : Framed(p, all, q) /\ Framed(q, rest, w)
      BY <1>7, FramedSplit
    <3>3. q = Facing(e, 0, k)
      <4>1. Framed(Facing(e, t, k), all, q) /\ Len(all) = t
        BY <1>6, <1>8, <2>1, <2>2, <3>2
      <4> QED
        BY <1>3, <1>7, <4>1, Skipped
    <3>4. << >> \in Seq(Int) /\ << >> \o rest = rest /\ 0 \in {0, 2}
      BY EmptySeq, Joined
    <3>5. Framed(Facing(e, 0, k), << >> \o rest, w)
      BY <3>2, <3>3, <3>4
    <3>6. OnWay(r, rest, w) /\ IsRewritten(r, s, << >>, << >>, 0, e)
      BY <1>1, <1>2, <1>4, <3>1, <3>4, <3>5, Moved
    <3> QED
      BY <3>6 DEF IsRewritten
  <2>3. CASE l < 2
    <3>1. PICK s1 : s1 = Rewrite(s, << >>, all, 2, e)
      OBVIOUS
    <3>2. s1 = [s EXCEPT !.raw = all, !.till = s.till]
      BY <1>1, <1>3, <1>4, <2>1, <3>1 DEF Rewrite, ReaderStates
    <3>3. /\ OnWay(s1, rest, w) /\ s1.out = s.out
          /\ s1.decoded = << >> /\ s1.raw = all /\ s1.till = 2 /\ s1.eof = e
      <4>1. Framed(Facing(e, 2, k), all \o rest, w) /\ 2 \in {0, 2}
        BY <1>6, <1>7, <2>1
      <4>2. OnWay(s1, rest, w) /\ IsRewritten(s1, s, << >>, all, 2, e)
        BY <1>1, <1>2, <1>4, <1>7, <3>1, <4>1, Moved
      <4> QED
        BY <4>2 DEF IsRewritten
    <3>4. r = ParseHeader(s1)
      <4>1. Len(all) # s.till /\ ~(Len(all) > s.till) /\ s.till # 0
        BY <1>3, <1>8, <2>1, <2>3, SMTT(60)
      <4>2. s1.till # 0
        BY <3>3
      <4> QED
        BY <1>5, <3>2, <4>1, <4>2 DEF ReadRaw
    <3>5. HeaderEnds(all) = {}
      BY <1>8, <2>3 DEF HeaderEnds
    <3>6. r = s1
      BY <3>3, <3>4, <3>5 DEF ParseHeader
    <3> QED
      BY <3>3, <3>6
  <2> QED
    BY <1>8, <1>9, <2>1, <2>2, <2>3
<1>10. CASE l > t
  <2>1. PICK x, y : x = SubSeq(all, 1, t) /\ y = From(all, t + 1)
    OBVIOUS
  <2>2. all = x \o y /\ x \in Seq(Int) /\ Len(x) = t /\ y \in Seq(Int)
    <3>1. t \in 0..Len(all)
      BY <1>3, <1>8, <1>10
    <3> QED
      BY <1>7, <2>1, <3>1, CutAt
  <2>3. y \o rest \in Seq(Int) /\ Framed(p, x \o (y \o rest), w)
    <3>1. y \o rest \in Seq(Int)
      BY <2>2, Joined
    <3>2. (x \o y) \o rest = x \o (y \o rest)
      BY <2>2, Regroup, ZenonT(60)
    <3> QED
      BY <1>7, <2>2, <3>1, <3>2
  <2>4. PICK q \in Places : Framed(p, x, q) /\ Framed(q, y \o rest, w)
    BY <2>2, <2>3, FramedSplit
  <2>5. q = Facing(e, 0, k)
    BY <1>3, <1>6, <2>2, <2>4, Skipped
  <2>6. PICK s1 : s1 = Rewrite(s, << >>, y, 0, e)
    OBVIOUS
  <2>7. s1 = [s EXCEPT !.raw = y, !.till = 0]
    BY <1>1, <1>4, <2>6 DEF Rewrite, ReaderStates
  <2>8. 0 \in {0, 2}
    OBVIOUS
  <2>9. /\ OnWay(s1, rest, w) /\ s1.out = s.out
        /\ s1.decoded = << >> /\ s1.raw = y /\ s1.till = 0 /\ s1.eof = e
    <3>1. Framed(Facing(e, 0, k), y \o rest, w)
      BY <2>4, <2>5
    <3>2. OnWay(s1, rest, w) /\ IsRewritten(s1, s, << >>, y, 0, e)
      BY <1>1, <1>2, <1>4, <2>2, <2>6, <2>8, <3>1, Moved
    <3> QED
      BY <3>2 DEF IsRewritten
  <2>10. Len(all) # s.till /\ Len(all) > s.till
    BY <1>3, <1>8, <1>10
  <2>11. CASE e = -1
    <3>1. r = ParseHeader(s1)
      BY <1>3, <1>5, <2>1, <2>7, <2>9, <2>10, <2>11 DEF ReadRaw
    <3>2. OnWay(r, rest, w) /\ r.out = s1.out
      BY <2>9, <2>11, <3>1, HeaderParsed
    <3> QED
      BY <2>9, <3>2
  <2>12. CASE e # -1
    <3>1. r = [s1 EXCEPT !.eof = 0]
      BY <1>3, <1>5, <2>1, <2>7, <2>9, <2>10, <2>12 DEF ReadRaw
    <3>2. r = Rewrite(s, << >>, y, 0, 0)
      BY <1>1, <2>6, <3>1 DEF Rewrite, ReaderStates
    <3>3. PICK c : c = 0 /\ c \in EofValues
      BY DEF EofValues
    <3>4. Framed(Facing(c, 0, k), y \o rest, w)
      BY <2>4, <2>5, <2>12, <3>3 DEF Facing
    <3>5. r = Rewrite(s, << >>, y, 0, c)
      BY <3>2, <3>3
    <3>6. OnWay(r, rest, w) /\ IsRewritten(r, s, << >>, y, 0, c)
      BY <1>1, <1>2, <2>2, <2>8, <3>3, <3>4, <3>5, Moved
    <3> QED
      BY <3>6 DEF IsRewritten
  <2> QED
    BY <2>11, <2>12
<1> QED
  BY <1>3, <1>8, <1>9, <1>10

-----------------------------------------------------------------------------
(* httpp_encoding_read: the decoder gets closer to the writer, the         *)
(* application gets more bytes, or none once it was told of the end.       *)
LEMMA ReadStep ==
    ASSUME IInv, NEW len \in 1..MaxRead, Read(len)
    PROVE  /\ wire' \in Seq(Int)
           /\ OnWay(rd', wire' \o pending, WriterAt)
           /\ Len(rd'.out) >= Len(rd.out)
           /\ Eof => rd'.out = rd.out /\ Eof'
<1>1. /\ pending \in Seq(Int) /\ wire \in Seq(Int) /\ len \in Nat /\ len > 0
      /\ Sound(rd) /\ Framed(ReaderAt(rd), rd.raw \o (wire \o pending), WriterAt)
  BY ReaderAssumption DEF IInv, OnWay
<1>2. rd \in ReaderStates /\ (rd.till > 2 => rd.eof = -1)
  BY <1>1 DEF Sound
<1>3. PICK s1 : s1 = CopyBuffer(rd, len)
  OBVIOUS
<1>4. /\ Sound(s1) /\ ReaderAt(s1) = ReaderAt(rd)
      /\ s1.raw = rd.raw /\ s1.eof = rd.eof /\ s1.till = rd.till
      /\ Len(s1.out) - Len(rd.out) \in 0..len
      /\ Len(s1.out) - Len(rd.out) < len => s1.decoded = << >>
      /\ rd.decoded = << >> => s1.decoded = << >> /\ s1.out = rd.out
  BY <1>1, <1>3, Copied, ZenonT(60)
<1>5. OnWay(s1, wire \o pending, WriterAt) /\ s1 \in ReaderStates
  BY <1>1, <1>4 DEF OnWay, Sound
<1>6. Len(rd.out) \in Nat /\ Len(s1.out) \in Nat /\ Len(s1.out) >= Len(rd.out)
  BY <1>2, <1>4, <1>5, StateIs
<1>7. PICK left \in Nat :
        /\ left = len - (Len(s1.out) - Len(rd.out))
        /\ left # 0 => s1.decoded = << >>
  <2>0. len \in Nat /\ Len(s1.out) - Len(rd.out) \in 0..len
    BY <1>1, <1>4
  <2>1. PICK moved \in 0..len : moved = Len(s1.out) - Len(rd.out)
    BY <2>0
  <2>2. len - moved \in Nat /\ (len - moved # 0 => moved < len)
    BY <2>0
  <2> QED
    BY <1>4, <2>1, <2>2
<1>8. CASE rd' = s1 /\ wire' = wire
  BY <1>1, <1>4, <1>5, <1>6, <1>8 DEF Eof
<1>9. CASE left # 0
  <2>1. PICK n \in 0..Smaller(Smaller(Wanted(s1, left), Len(wire)), MaxGive) :
          /\ rd' = IF n = 0 THEN s1
                   ELSE CopyBuffer(EncChunkedRead(s1, SubSeq(wire, 1, n)), left)
          /\ wire' = From(wire, n + 1)
    BY <1>3, <1>7, <1>9 DEF Read
  <2>2. PICK t \in Nat : t = s1.till
    BY <1>5, StateIs
  <2>3. PICK e \in Int : e = s1.eof
    <3>1. s1.eof \in EofValues
      BY <1>5, StateIs
    <3> QED
      BY <3>1 DEF EofValues
  <2>4. PICK m \in Int : m = Wanted(s1, left) /\ (t > 2 => m <= t - 2) /\ (t <= 2 /\ e # -1 => m = e)
    <3>1. Wanted(s1, left) = IF t > 2 THEN Smaller(left, t - 2)
                             ELSE IF e # -1 THEN e ELSE BufLen
      BY <2>2, <2>3 DEF Wanted
    <3> QED
      BY <3>1, ReaderAssumption DEF Smaller
  <2>5. PICK l \in Nat : l = Len(wire)
    BY <1>1, LenProperties
  <2>6. n \in Nat /\ n <= m /\ n <= l /\ n \in 0..Len(wire)
    <3>1. n \in 0..Smaller(Smaller(m, l), MaxGive)
      BY <2>4, <2>5
    <3>2. n \in Nat /\ n <= m /\ n <= l
      BY <3>1, ReaderAssumption DEF Smaller
    <3> QED
      BY <2>5, <3>2
  <2>7. PICK got, rest : got = SubSeq(wire, 1, n) /\ rest = From(wire, n + 1)
    OBVIOUS
  <2>8. wire = got \o rest /\ got \in Seq(Int) /\ Len(got) = n /\ rest \in Seq(Int)
    BY <1>1, <2>6, <2>7, CutAt
  <2>9. CASE n = 0
    <3>1. got = << >>
      BY <2>8, <2>9, EmptyIs
    <3>2. << >> \o rest = rest
      BY <2>8, Joined
    <3>3. rd' = s1 /\ wire' = wire
      BY <2>1, <2>7, <2>8, <2>9, <3>1, <3>2
    <3> QED
      BY <1>8, <3>3
  <2>10. CASE n > 0
    <3>1. s1.decoded = << >>
      BY <1>7, <1>9
    <3>2. PICK w : w = WriterAt
      OBVIOUS
    <3>3. rest \o pending \in Seq(Int) /\ OnWay(s1, got \o (rest \o pending), w)
      <4>1. rest \o pending \in Seq(Int)
        BY <1>1, <2>8, Joined
      <4>2. (got \o rest) \o pending = got \o (rest \o pending)
        BY <1>1, <2>8, Regroup, ZenonT(60)
      <4> QED
        BY <1>5, <2>8, <3>2, <4>1, <4>2
    <3>4. PICK s2 : s2 = EncChunkedRead(s1, got)
      OBVIOUS
    <3>5. OnWay(s2, rest \o pending, w) /\ Len(s2.out) >= Len(s1.out)
      <4>1. CASE t > 2
        <5>1. s2 = ReadBody(s1, got)
          BY <2>2, <3>4, <4>1 DEF EncChunkedRead
        <5>2. s1.till > 2 /\ Len(got) + 2 <= s1.till
          BY <2>2, <2>4, <2>6, <2>8, <4>1
        <5> QED
          BY <2>8, <3>1, <3>3, <5>1, <5>2, BodyRead
      <4>2. CASE t <= 2
        <5>1. s2 = ReadRaw(s1, got)
          BY <2>2, <3>4, <4>2 DEF EncChunkedRead
        <5>2. s1.till <= 2 /\ Len(got) > 0
          BY <2>2, <2>8, <2>10, <4>2
        <5>3. OnWay(s2, rest \o pending, w) /\ s2.out = s1.out
          BY <2>8, <3>1, <3>3, <5>1, <5>2, RawRead
        <5> QED
          BY <1>6, <5>3
      <4> QED
        BY <4>1, <4>2
    <3>6. Sound(s2) /\ Framed(ReaderAt(s2), s2.raw \o (rest \o pending), w) /\ s2 \in ReaderStates
      BY <3>5 DEF OnWay, Sound
    <3>7. PICK r : r = CopyBuffer(s2, left)
      OBVIOUS
    <3>8. /\ Sound(r) /\ ReaderAt(r) = ReaderAt(s2) /\ r.raw = s2.raw
          /\ Len(r.out) - Len(s2.out) \in 0..left
      BY <3>6, <3>7, Copied
    <3>9. rd' = r /\ wire' = rest
      BY <2>1, <2>7, <2>10, <3>4, <3>7
    <3>10. OnWay(r, rest \o pending, w)
      BY <3>6, <3>8 DEF OnWay
    <3>11. Len(r.out) >= Len(rd.out)
      <4>1. Len(s2.out) \in Nat /\ Len(r.out) \in Nat
        BY <3>6, <3>8, StateIs DEF Sound
      <4> QED
        BY <1>6, <3>5, <3>8, <4>1, SMTT(60)
    <3>12. ~Eof
      <4>1. CASE t > 2
        BY <1>2, <1>4, <2>2, <4>1 DEF Eof
      <4>2. CASE t <= 2
        BY <1>4, <2>3, <2>4, <2>6, <2>10, <4>2 DEF Eof
      <4> QED
        BY <4>1, <4>2
    <3> QED
      BY <2>8, <3>2, <3>9, <3>10, <3>11, <3>12
  <2> QED
    BY <2>6, <2>9, <2>10
<1>10. CASE left = 0
  <2>1. rd' = s1 /\ wire' = wire
    BY <1>3, <1>7, <1>10 DEF Read
  <2> QED
    BY <1>8, <2>1
<1> QED
  BY <1>9, <1>10

(* httpp_encoding_write: the stream stays as it is or grows by what the    *)
(* encoder made, however much of it the callback takes.                    *)
LEMMA EncodingStep ==
    ASSUME wire \in Seq(Int), pending \in Seq(Int), NEW enc \in Seq(Int), NEW acc, NEW end,
           EncodingWrite(enc, acc, end)
    PROVE  /\ wire' \in Seq(Int) /\ pending' \in Seq(Int)
           /\ \/ /\ accepted' = accepted /\ ends' = ends
                 /\ wire' \o pending' = wire \o pending
              \/ /\ accepted' = acc /\ ends' = end
                 /\ wire' \o pending' = (wire \o pending) \o enc
<1>1. PICK n1 \in 0..Len(pending) :
        LET buffer == IF EncoderRuns(n1) THEN enc ELSE Kept(pending, n1) IN
        /\ \E n2 \in 0..Len(buffer) :
              /\ wire' = wire \o Flushed(pending, n1) \o Flushed(buffer, n2)
              /\ pending' = Kept(buffer, n2)
        /\ accepted' = IF EncoderRuns(n1) THEN acc ELSE accepted
        /\ ends' = IF EncoderRuns(n1) THEN end ELSE ends
  BY DEF EncodingWrite
<1>2. PICK f, g : f = Flushed(pending, n1) /\ g = Kept(pending, n1)
  OBVIOUS
<1>3. pending = f \o g /\ f \in Seq(Int) /\ g \in Seq(Int) /\ Len(g) = Len(pending) - n1
  BY <1>2, CutAt DEF Flushed, Kept
<1>4. PICK buffer : buffer = IF EncoderRuns(n1) THEN enc ELSE g
  OBVIOUS
<1>5. buffer \in Seq(Int)
  BY <1>3, <1>4
<1>6. PICK n2 \in 0..Len(buffer) :
        wire' = wire \o f \o Flushed(buffer, n2) /\ pending' = Kept(buffer, n2)
  BY <1>1, <1>2, <1>4
<1>7. PICK x, y : x = Flushed(buffer, n2) /\ y = Kept(buffer, n2)
  OBVIOUS
<1>8. buffer = x \o y /\ x \in Seq(Int) /\ y \in Seq(Int)
  BY <1>5, <1>7, CutAt DEF Flushed, Kept
<1>9. wire' = (wire \o f) \o x /\ pending' = y
  BY <1>6, <1>7
<1>10. wire \o f \in Seq(Int) /\ wire' \in Seq(Int) /\ pending' \in Seq(Int)
  <2>1. wire \o f \in Seq(Int)
    BY <1>3, Joined
  <2> QED
    BY <1>8, <1>9, <2>1, Joined
<1>11. wire' \o pending' = (wire \o f) \o buffer
  <2>1. ((wire \o f) \o x) \o y = (wire \o f) \o (x \o y)
    <3>1. PICK z \in Seq(Int) : z = wire \o f
      BY <1>10
    <3>2. (z \o x) \o y = z \o (x \o y)
      BY <1>8, Regroup, ZenonT(60)
    <3> QED
      BY <3>1, <3>2
  <2> QED
    BY <1>8, <1>9, <2>1
<1>12. CASE EncoderRuns(n1)
  <2>1. f = pending
    <3>1. g = << >>
      <4>1. Len(g) = 0
        BY <1>3, <1>12, LenProperties DEF EncoderRuns
      <4> QED
        BY <1>3, <4>1, EmptyIs
    <3>2. f \o << >> = f
      BY <1>3, Joined
    <3> QED
      BY <1>3, <3>1, <3>2
  <2>2. accepted' = acc /\ ends' = end /\ buffer = enc
    BY <1>1, <1>4, <1>12
  <2> QED
    BY <1>10, <1>11, <2>1, <2>2
<1>13. CASE ~EncoderRuns(n1)
  <2>1. accepted' = accepted /\ ends' = ends /\ buffer = g
    BY <1>1, <1>4, <1>13
  <2>2. (wire \o f) \o g = wire \o (f \o g)
    BY <1>3, Regroup, ZenonT(60)
  <2> QED
    BY <1>3, <1>10, <1>11, <2>1, <2>2
<1> QED
  BY <1>12, <1>13

(* More at the writer's end leaves the decoder on its way.                 *)
LEMMA Grown ==
    ASSUME NEW s, NEW u \in Seq(Int), NEW w, NEW x, NEW enc \in Seq(Int),
           OnWay(s, u, w), Framed(w, enc, x)
    PROVE  OnWay(s, u \o enc, x)
<1>1. Sound(s) /\ s \in ReaderStates /\ Framed(ReaderAt(s), s.raw \o u, w)
  BY DEF OnWay, Sound
<1>2. s.raw \in Seq(Int)
  BY <1>1, StateIs
<1>3. s.raw \o u \in Seq(Int)
  BY <1>2, Joined
<1>4. Framed(ReaderAt(s), (s.raw \o u) \o enc, x)
  BY <1>1, <1>3, FramedConcat
<1>5. PICK z \in Seq(Int) : z = s.raw
  BY <1>2
<1>6. (z \o u) \o enc = z \o (u \o enc)
  BY Regroup
<1> QED
  BY <1>1, <1>4, <1>5, <1>6 DEF OnWay

(* A call of the encoder, with what it adds for the writer's counts.       *)
LEMMA EncodedStep ==
    ASSUME IInv, UNCHANGED rd, NEW enc \in Seq(Int), NEW acc, NEW end,
           EncodingWrite(enc, acc, end), acc \in 0..N, end \in 0..MaxEnds,
           Framed(WriterAt, enc, IF end = 0 THEN At(0, 0, acc) ELSE At(3, 2, acc))
    PROVE  /\ IInv'
           /\ \/ accepted' = accepted /\ ends' = ends
              \/ accepted' = acc /\ ends' = end
<1>1. /\ pending \in Seq(Int) /\ wire \in Seq(Int) /\ accepted \in 0..N /\ ends \in 0..MaxEnds
      /\ OnWay(rd, wire \o pending, WriterAt)
  BY DEF IInv
<1>2. /\ wire' \in Seq(Int) /\ pending' \in Seq(Int)
      /\ \/ /\ accepted' = accepted /\ ends' = ends
            /\ wire' \o pending' = wire \o pending
         \/ /\ accepted' = acc /\ ends' = end
            /\ wire' \o pending' = (wire \o pending) \o enc
  BY <1>1, EncodingStep
<1>3. CASE accepted' = accepted /\ ends' = ends /\ wire' \o pending' = wire \o pending
  <2>1. OnWay(rd', wire' \o pending', WriterAt')
    BY <1>1, <1>3 DEF WriterAt
  <2> QED
    BY <1>1, <1>2, <1>3, <2>1 DEF IInv
<1>4. CASE accepted' = acc /\ ends' = end /\ wire' \o pending' = (wire \o pending) \o enc
  <2>1. wire \o pending \in Seq(Int)
    BY <1>1, Joined
  <2>2. WriterAt' = IF end = 0 THEN At(0, 0, acc) ELSE At(3, 2, acc)
    BY <1>4 DEF WriterAt
  <2>3. OnWay(rd, (wire \o pending) \o enc, WriterAt')
    <3>1. PICK x : x = WriterAt'
      OBVIOUS
    <3>2. Framed(WriterAt, enc, x)
      BY <2>2, <3>1
    <3>3. OnWay(rd, (wire \o pending) \o enc, x)
      BY <1>1, <2>1, <3>2, Grown
    <3> QED
      BY <3>1, <3>3
  <2>4. OnWay(rd', wire' \o pending', WriterAt')
    BY <1>4, <2>3
  <2> QED
    BY <1>2, <1>4, <2>4 DEF IInv
<1> QED
  BY <1>2, <1>3, <1>4

(* What a call of httpp_encoding_write can do to the writer's counts.      *)
WriterMoves ==
    \/ accepted' = accepted /\ ends' = ends
    \/ ends = 0 /\ ends' = 0 /\ accepted' > accepted
    \/ ends = 0 /\ ends' = 1 /\ accepted' = accepted
    \/ ends > 0 /\ ends' > 0 /\ accepted' = accepted

LEMMA WriterStep ==
    ASSUME IInv, WriterNext, UNCHANGED rd
    PROVE  IInv' /\ WriterMoves
<1>1. /\ pending \in Seq(Int) /\ wire \in Seq(Int) /\ accepted \in 0..N /\ ends \in 0..MaxEnds
      /\ OnWay(rd, wire \o pending, WriterAt)
  BY DEF IInv
<1>2. PICK a \in Nat : a = accepted /\ a <= N /\ a \in 0..N
  BY <1>1, WriterAssumption
<1>3. ASSUME NEW len \in 1..N, Write(len) PROVE IInv' /\ WriterMoves
  <2>1. PICK n \in 1..MaxChunk : n = Cut(len) /\ a + n \in 0..N /\ a + n > a
    <3>1. len \in 1..(N - a)
      BY <1>2, <1>3 DEF Write
    <3> QED
      BY <1>2, <3>1, WriterAssumption DEF Cut, Smaller
  <2>2. PICK enc : enc = Frame(Bytes(a + 1, a + n), FALSE)
    OBVIOUS
  <2>3. enc \in Seq(Int) /\ Framed(At(0, 0, a), enc, At(0, 0, a + n))
    BY <2>2, ChunkFramed
  <2>4. ends = 0 /\ EncodingWrite(enc, a + n, 0)
    BY <1>2, <1>3, <2>1, <2>2 DEF Write
  <2>5. /\ Framed(WriterAt, enc, IF 0 = 0 THEN At(0, 0, a + n) ELSE At(3, 2, a + n))
        /\ 0 \in 0..MaxEnds
    BY <1>2, <2>3, <2>4, WriterAssumption DEF WriterAt
  <2>6. /\ IInv'
        /\ \/ accepted' = accepted /\ ends' = ends
           \/ accepted' = a + n /\ ends' = 0
    BY <2>1, <2>3, <2>4, <2>5, EncodedStep
  <2> QED
    BY <1>2, <2>1, <2>4, <2>6 DEF WriterMoves
<1>4. ASSUME WriteNoMemory PROVE IInv' /\ WriterMoves
  <2>1. wire' = wire \o pending /\ pending' = << >> /\ accepted' = accepted /\ ends' = ends
    BY <1>4 DEF WriteNoMemory
  <2>2. wire \o pending \in Seq(Int) /\ << >> \in Seq(Int)
    BY <1>1, Joined, EmptySeq
  <2>3. (wire \o pending) \o << >> = wire \o pending
    BY <2>2, Joined
  <2>4. wire' \o pending' = wire \o pending
    BY <2>1, <2>3
  <2>5. OnWay(rd', wire' \o pending', WriterAt')
    BY <1>1, <2>1, <2>4 DEF WriterAt
  <2> QED
    BY <1>1, <2>1, <2>2, <2>5 DEF IInv, WriterMoves
<1>5. ASSUME NEW how \in {"null", "empty"}, End(how) PROVE IInv' /\ WriterMoves
  <2>1. PICK isNull \in BOOLEAN : isNull = (how = "null")
    OBVIOUS
  <2>2. PICK enc : enc = Frame(<< >>, isNull)
    OBVIOUS
  <2>3. enc \in Seq(Int) /\ Framed(At(0, 0, a), enc, At(3, 2, a))
    BY <2>2, EndFramed
  <2>4. ends = 0 /\ EncodingWrite(enc, a, 1)
    BY <1>2, <1>5, <2>1, <2>2 DEF End
  <2>5. /\ Framed(WriterAt, enc, IF 1 = 0 THEN At(0, 0, a) ELSE At(3, 2, a))
        /\ 1 \in 0..MaxEnds
    BY <1>2, <2>3, <2>4, WriterAssumption DEF WriterAt
  <2>6. /\ IInv'
        /\ \/ accepted' = accepted /\ ends' = ends
           \/ accepted' = a /\ ends' = 1
    BY <1>2, <2>3, <2>4, <2>5, EncodedStep
  <2> QED
    BY <1>2, <2>4, <2>6 DEF WriterMoves
<1>6. ASSUME FlushRest PROVE IInv' /\ WriterMoves
  <2>1. PICK e \in Nat : e = ends /\ e > 0 /\ e + 1 > 0 /\ e + 1 \in 0..MaxEnds
    BY <1>6, WriterAssumption DEF FlushRest
  <2>2. PICK enc : enc = Frame(<< >>, TRUE)
    OBVIOUS
  <2>3. enc \in Seq(Int) /\ Framed(At(3, 2, a), enc, At(3, 2, a))
    BY <2>2, EndFramed
  <2>4. EncodingWrite(enc, a, e + 1)
    BY <1>2, <1>6, <2>1, <2>2 DEF FlushRest
  <2>5. Framed(WriterAt, enc, IF e + 1 = 0 THEN At(0, 0, a) ELSE At(3, 2, a))
    BY <1>2, <2>1, <2>3 DEF WriterAt
  <2>6. /\ IInv'
        /\ \/ accepted' = accepted /\ ends' = ends
           \/ accepted' = a /\ ends' = e + 1
    BY <1>2, <2>1, <2>3, <2>4, <2>5, EncodedStep
  <2> QED
    BY <1>2, <2>1, <2>6 DEF WriterMoves
<1> QED
  BY <1>3, <1>4, <1>5, <1>6 DEF WriterNext

LEMMA Initially == Init => IInv
<1>1. SUFFICES ASSUME Init PROVE IInv
  OBVIOUS
<1>2. /\ accepted = 0 /\ ends = 0 /\ pending = << >> /\ wire = << >>
      /\ rd.raw = << >> /\ rd.decoded = << >> /\ rd.out = << >> /\ rd.till = 0 /\ rd.eof = -1
  BY <1>1 DEF Init, WriterInit, ReaderInit
<1>3. << >> \in Seq(Int) /\ Len(<< >>) = 0
  BY EmptySeq
<1>4. rd \in ReaderStates
  BY <1>1, <1>3 DEF Init, ReaderInit, ReaderStates, EofValues
<1>5. << >> \o << >> = << >>
  BY <1>3, Joined
<1>6. Done(rd) = 0
  BY <1>2, <1>3 DEF Done
<1>7. Sound(rd)
  <2>1. 0 + 1 = 1 /\ 0 + 0 = 0
    OBVIOUS
  <2>2. << >> = Bytes(0 + 1, 0 + 0)
    BY NoBytes
  <2>3. << >> = Bytes(1, 0)
    BY <2>1, <2>2
  <2> QED
    BY <1>2, <1>4, <1>5, <1>6, <2>3, WriterAssumption DEF Sound
<1>8. At(0, 0, 0) \in Places
  BY DEF At, Places
<1>9. Framed(At(0, 0, 0), << >>, At(0, 0, 0))
  BY <1>8, FramedEmpty
<1>10. OnWay(rd, wire \o pending, WriterAt)
  BY <1>2, <1>5, <1>6, <1>7, <1>9 DEF OnWay, ReaderAt, WriterAt
<1> QED
  BY <1>2, <1>3, <1>10, WriterAssumption DEF IInv

(* The inductive invariant.                                                *)
THEOREM StreamSafe == Spec => []IInv
<1>1. IInv /\ [Next]_vars => IInv'
  <2>1. SUFFICES ASSUME IInv, [Next]_vars PROVE IInv'
    OBVIOUS
  <2>2. CASE WriterNext /\ UNCHANGED rd
    BY <2>1, <2>2, WriterStep
  <2>3. CASE ReaderNext /\ UNCHANGED writerVars
    <3>1. PICK len \in 1..MaxRead : Read(len)
      BY <2>3 DEF ReaderNext
    <3>2. wire' \in Seq(Int) /\ OnWay(rd', wire' \o pending, WriterAt)
      BY <2>1, <3>1, ReadStep
    <3>3. accepted' = accepted /\ ends' = ends /\ pending' = pending
      BY <2>3 DEF writerVars
    <3>4. WriterAt' = WriterAt
      BY <3>3 DEF WriterAt
    <3> QED
      BY <2>1, <3>2, <3>3, <3>4 DEF IInv
  <2>4. CASE UNCHANGED vars
    BY <2>1, <2>4 DEF vars, IInv, WriterAt
  <2> QED
    BY <2>1, <2>2, <2>3, <2>4 DEF Next
<1> QED
  BY <1>1, Initially, PTL DEF Spec

-----------------------------------------------------------------------------
(* What the application was given, and what is decoded, are the first      *)
(* bytes; there are not more of them than the writer's end has.            *)
LEMMA GivenAre ==
    ASSUME NEW s, NEW rest \in Seq(Int), NEW w, OnWay(s, rest, w)
    PROVE  /\ s.out = Bytes(1, Len(s.out)) /\ Len(s.out) \in Nat /\ Len(s.out) <= Done(s)
           /\ \A i \in 1..Len(s.out) : s.out[i] \in 1..Done(s)
           /\ \A i \in 1..Len(s.decoded) : s.decoded[i] \in 1..Done(s)
           /\ Done(s) \in Nat /\ Done(s) <= w.k
<1>1. /\ s \in ReaderStates /\ s.out \o s.decoded = Bytes(1, Done(s))
      /\ Framed(ReaderAt(s), s.raw \o rest, w)
  BY DEF OnWay, Sound
<1>2. PICK u, v : u = s.out /\ v = s.decoded
  OBVIOUS
<1>3. u \in Seq(Int) /\ v \in Seq(Int) /\ s.raw \in Seq(Int)
  BY <1>1, <1>2, StateIs
<1>4. PICK m \in Nat, n \in Nat : m = Len(u) /\ n = Len(v)
  BY <1>3, LenProperties
<1>5. PICK d \in Nat : d = Done(s) /\ d = m + n
  <2>1. Done(s) = m + n
    BY <1>2, <1>4 DEF Done
  <2>2. m + n \in Nat
    OBVIOUS
  <2> QED
    BY <2>1, <2>2
<1>6. PICK z : z = u \o v
  OBVIOUS
<1>7. z = [i \in 1..d |-> i]
  <2>1. 0 + 1 = 1 /\ 0 + d = d /\ \A i \in 1..d : 0 + i = i
    OBVIOUS
  <2>2. Bytes(0 + 1, 0 + d) = [i \in 1..d |-> 0 + i]
    BY BytesAre
  <2> QED
    BY <1>1, <1>2, <1>5, <1>6, <2>1, <2>2
<1>8. (\A i \in 1..m : z[i] = u[i]) /\ (\A i \in 1..n : z[i + m] = v[i])
  BY <1>3, <1>4, <1>6, ConcatAt
<1>9. \A i \in 1..m : u[i] = i /\ i \in 1..d
  BY <1>5, <1>7, <1>8
<1>10. \A i \in 1..n : v[i] = i + m /\ i + m \in 1..d
  BY <1>5, <1>7, <1>8
<1>11. u = Bytes(1, m)
  <2>1. 0 + 1 = 1 /\ 0 + m = m /\ \A i \in 1..m : 0 + i = i
    OBVIOUS
  <2>2. Bytes(0 + 1, 0 + m) = [i \in 1..m |-> 0 + i]
    BY BytesAre
  <2>3. u \in [1..m -> Int]
    BY <1>3, <1>4, LenProperties
  <2> QED
    BY <1>9, <2>1, <2>2, <2>3
<1>12. d <= w.k
  <2>1. s.raw \o rest \in Seq(Int)
    BY <1>3, Joined
  <2>2. ReaderAt(s).k <= w.k
    BY <1>1, <2>1, Counted
  <2>3. ReaderAt(s).k = d
    BY <1>5, AtIs DEF ReaderAt
  <2> QED
    BY <2>2, <2>3
<1>13. m <= d
  BY <1>5
<1> QED
  BY <1>2, <1>4, <1>5, <1>9, <1>10, <1>11, <1>12, <1>13

(* Once the last header is decoded the decoder is where the writer is.     *)
LEMMA EndReached ==
    ASSUME NEW s, NEW rest \in Seq(Int), NEW w, OnWay(s, rest, w), s.eof # -1
    PROVE  w = At(3, 2, Done(s))
<1>1. s \in ReaderStates /\ Framed(ReaderAt(s), s.raw \o rest, w)
  BY DEF OnWay, Sound
<1>2. s.raw \o rest \in Seq(Int) /\ Done(s) \in Nat
  BY <1>1, StateIs, Joined
<1>3. ReaderAt(s) = At(3, 2, Done(s)) /\ ReaderAt(s) \in Places /\ ReaderAt(s).h = 3
  BY <1>2, AtIs DEF ReaderAt, At, Places
<1>4. w = ReaderAt(s)
  BY <1>1, <1>2, <1>3, EndRun
<1> QED
  BY <1>3, <1>4

(* The end of a body, the "\r\n" after it, and the next header.            *)
LEMMA LineEndsAt ==
    ASSUME NEW u \in Seq(Int), NEW t \in Nat, t >= 2, NEW k \in Nat, NEW w,
           Framed(At(0, t, k), u, w), Len(u) >= t - 1
    PROVE  /\ u[t - 1] = CR
           /\ Len(u) >= t => u[t] = LF
           /\ Len(u) >= t + 1 => IsLength(u[t + 1])
<1>1. PICK l \in Nat : l = Len(u)
  BY LenProperties
<1>2. PICK b \in Nat : b = t - 2 /\ b \in 0..Len(u)
  BY <1>1
<1>3. PICK d, x : d = SubSeq(u, 1, b) /\ x = From(u, b + 1)
  OBVIOUS
<1>4. u = d \o x /\ d \in Seq(Int) /\ Len(d) = b /\ x \in Seq(Int) /\ Len(x) = l - b
  BY <1>1, <1>2, <1>3, CutAt, ZenonT(60)
<1>5. PICK m \in Nat : m = Len(x) /\ m = l - b /\ m > 0
  <2>1. l - b \in Nat /\ l - b > 0
    BY <1>1, <1>2
  <2> QED
    BY <1>4, <2>1
<1>6. \A i \in 1..m : u[i + b] = x[i]
  <2>1. d \in Seq(Int) /\ x \in Seq(Int) /\ b = Len(d) /\ m = Len(x) /\ u = d \o x
    BY <1>4, <1>5
  <2> QED
    BY <2>1, ConcatAt
<1>7. PICK q \in Places : Framed(At(0, t, k), d, q) /\ Framed(q, x, w)
  BY <1>4, FramedSplit
<1>8. PICK k1 \in Nat : k1 = k + b
  OBVIOUS
<1>9. q = At(0, 2, k1)
  <2>1. Len(d) + 2 <= t
    BY <1>2, <1>4
  <2>2. q = At(0, t - Len(d), k + Len(d))
    BY <1>4, <1>7, <2>1, BodyRun, ZenonT(60)
  <2>3. t - b = 2
    BY <1>2
  <2> QED
    BY <1>4, <1>8, <2>2, <2>3
<1>10. x[1] = CR /\ (m >= 2 => x[2] = LF)
  <2>1. Framed(At(0, 2, k1), x, w) /\ Len(x) > 0
    BY <1>5, <1>7, <1>9
  <2> QED
    BY <1>4, <1>5, <2>1, LineEndRun
<1>11. m >= 3 => IsLength(x[3])
  <2>1. SUFFICES ASSUME m >= 3 PROVE IsLength(x[3])
    OBVIOUS
  <2>2. PICK y, z : y = SubSeq(x, 1, 2) /\ z = From(x, 2 + 1)
    OBVIOUS
  <2>3. x = y \o z /\ y \in Seq(Int) /\ Len(y) = 2 /\ z \in Seq(Int) /\ Len(z) = m - 2
    <3>1. 2 \in 0..Len(x)
      BY <1>5, <2>1
    <3>2. /\ x = y \o z /\ y \in Seq(Int) /\ Len(y) = 2 /\ z \in Seq(Int)
          /\ Len(z) = Len(x) - 2
      BY <1>4, <2>2, <3>1, CutAt
    <3> QED
      BY <1>5, <3>2
  <2>4. PICK n \in Nat : n = Len(z) /\ n > 0
    BY <2>1, <2>3
  <2>5. x[3] = z[1]
    <3>1. PICK two \in Nat : two = 2 /\ two = Len(y)
      BY <2>3
    <3>2. \A i \in 1..n : x[i + two] = z[i]
      <4>1. y \in Seq(Int) /\ z \in Seq(Int) /\ two = Len(y) /\ n = Len(z) /\ x = y \o z
        BY <2>3, <2>4, <3>1
      <4> QED
        BY <4>1, ConcatAt
    <3>3. 1 \in 1..n /\ 1 + two = 3
      BY <2>4, <3>1
    <3> QED
      BY <3>2, <3>3
  <2>6. PICK p \in Places : Framed(q, y, p) /\ Framed(p, z, w)
    BY <1>7, <2>3, FramedSplit
  <2>7. p = At(0, 0, k1)
    <3>1. Framed(At(0, 2, k1), y, p) /\ Len(y) > 0 /\ Len(y) = 2
      BY <1>9, <2>3, <2>6
    <3> QED
      BY <2>3, <3>1, LineEndRun
  <2>8. Framed(At(0, 0, k1), z, w) /\ Len(z) > 0
    BY <2>4, <2>6, <2>7
  <2>9. PICK j \in 0..MaxChunk : z[1] = LengthSymbol(j)
    BY <2>3, <2>8, HeaderRun
  <2>10. j \in Nat
    BY WriterAssumption
  <2> QED
    BY <2>5, <2>9, <2>10, Symbols
<1>12. u[1 + b] = x[1] /\ (m >= 2 => u[2 + b] = x[2]) /\ (m >= 3 => u[3 + b] = x[3])
  <2>1. 1 \in 1..m /\ (m >= 2 => 2 \in 1..m) /\ (m >= 3 => 3 \in 1..m)
    BY <1>5
  <2> QED
    BY <1>6, <2>1
<1>13. 1 + b = t - 1 /\ 2 + b = t /\ 3 + b = t + 1
  BY <1>2
<1>14. (l >= t => m >= 2) /\ (l >= t + 1 => m >= 3)
  BY <1>2, <1>5
<1> QED
  BY <1>1, <1>10, <1>11, <1>12, <1>13, <1>14

-----------------------------------------------------------------------------
LEMMA RestIs ==
    ASSUME IInv
    PROVE  /\ Undecoded \in Seq(Int) /\ wire \o pending \in Seq(Int)
           /\ Framed(ReaderAt(rd), Undecoded, WriterAt)
           /\ ReaderAt(rd).k = Done(rd) /\ WriterAt.k = accepted
<1>1. /\ wire \in Seq(Int) /\ pending \in Seq(Int) /\ rd \in ReaderStates
      /\ Framed(ReaderAt(rd), rd.raw \o (wire \o pending), WriterAt)
  BY DEF IInv, OnWay, Sound
<1>2. PICK u \in Seq(Int) : u = rd.raw
  BY <1>1, StateIs
<1>3. PICK v \in Seq(Int), x \in Seq(Int) : v = wire /\ x = pending
  BY <1>1
<1>4. (u \o v) \o x = u \o (v \o x) /\ v \o x \in Seq(Int) /\ u \o (v \o x) \in Seq(Int)
  BY Regroup, Joined, SMTT(60)
<1>5. Undecoded = u \o (v \o x)
  BY <1>2, <1>3, <1>4 DEF Undecoded
<1>6. ReaderAt(rd).k = Done(rd) /\ WriterAt.k = accepted
  BY AtIs DEF ReaderAt, WriterAt
<1> QED
  BY <1>1, <1>2, <1>3, <1>4, <1>5, <1>6

LEMMA SequenceOver ==
    ASSUME NEW u \in Seq(Int), NEW S, \A i \in 1..Len(u) : u[i] \in S
    PROVE  u \in Seq(S)
<1>1. PICK n \in Nat : n = Len(u)
  BY LenProperties
<1>2. u \in [1..n -> Int]
  BY <1>1, LenProperties
<1>3. u \in [1..n -> S]
  BY <1>1, <1>2
<1> QED
  BY <1>3, SeqDef

(* Type correctness, with the bounds of read_bytes_till_header and         *)
(* bytes_till_eof: only bytes of the payload reach buf_read_decoded and    *)
(* the application.                                                        *)
THEOREM StreamTypeCorrect == Spec => []TypeOK
<1>1. IInv => TypeOK
  <2>1. SUFFICES ASSUME IInv PROVE TypeOK
    OBVIOUS
  <2>2. /\ accepted \in 0..N /\ ends \in 0..MaxEnds /\ wire \in Seq(Int) /\ pending \in Seq(Int)
        /\ OnWay(rd, wire \o pending, WriterAt) /\ Sound(rd) /\ rd \in ReaderStates
    BY <2>1 DEF IInv, OnWay, Sound
  <2>3. wire \o pending \in Seq(Int) /\ WriterAt.k = accepted
    BY <2>1, RestIs
  <2>4. PICK w : w = WriterAt
    OBVIOUS
  <2>5. /\ \A i \in 1..Len(rd.out) : rd.out[i] \in 1..Done(rd)
        /\ \A i \in 1..Len(rd.decoded) : rd.decoded[i] \in 1..Done(rd)
        /\ Done(rd) \in Nat /\ Done(rd) <= w.k
    BY <2>2, <2>3, <2>4, GivenAre
  <2>6. 1..Done(rd) \subseteq 1..N
    BY <2>2, <2>3, <2>4, <2>5, WriterAssumption
  <2>7. rd.out \in Seq(Int) /\ rd.decoded \in Seq(Int)
    BY <2>2, StateIs
  <2>8. rd.out \in Seq(1..N)
    <3>1. \A i \in 1..Len(rd.out) : rd.out[i] \in 1..N
      BY <2>5, <2>6
    <3> QED
      BY <2>7, <3>1, SequenceOver
  <2>9. rd.decoded \in Seq(1..N)
    <3>1. \A i \in 1..Len(rd.decoded) : rd.decoded[i] \in 1..N
      BY <2>5, <2>6
    <3> QED
      BY <2>7, <3>1, SequenceOver
  <2>10. rd.till \in 0..(MaxChunk + 2)
    <3>1. rd.till \in Nat /\ rd.till <= MaxChunk + 2
      BY <2>2, StateIs DEF Sound
    <3> QED
      BY <3>1, WriterAssumption
  <2>11. rd \in [raw : Seq(Int), decoded : Seq(1..N), out : Seq(1..N),
                 till : 0..(MaxChunk + 2), eof : {-1, 0, 2}, bad : BOOLEAN]
    BY <2>2, <2>8, <2>9, <2>10 DEF ReaderStates, EofValues
  <2> QED
    BY <2>2, <2>11 DEF TypeOK
<1> QED
  BY <1>1, StreamSafe, PTL

(* No byte of the payload is lost, doubled or moved, and no byte of the    *)
(* framing gets into the payload, however the two callbacks cut the        *)
(* stream.                                                                 *)
THEOREM PayloadConserved == Spec => []Conserved
<1>1. IInv => Conserved
  <2>1. SUFFICES ASSUME IInv PROVE Conserved
    OBVIOUS
  <2>2. PICK d : d = Len(rd.out) + Len(rd.decoded)
    OBVIOUS
  <2>3. d = Done(rd) /\ rd.out \o rd.decoded = Bytes(1, d)
    BY <2>1, <2>2 DEF IInv, OnWay, Sound, Done
  <2>4. PICK u : u = Undecoded
    OBVIOUS
  <2>5. PICK p, q : p = ReaderAt(rd) /\ q = WriterAt
    OBVIOUS
  <2>6. u \in Seq(Int) /\ Framed(p, u, q) /\ p.k = d /\ q.k = accepted
    BY <2>1, <2>3, <2>4, <2>5, RestIs
  <2> DEFINE payload == {i \in 1..Len(u) : IsPayload(u[i])}
  <2>7. /\ p.k <= q.k
        /\ {u[i] : i \in payload} = (p.k + 1)..q.k
        /\ \A i, j \in payload : i < j => u[i] < u[j]
    BY <2>6, Counted
  <2>8. /\ d <= accepted
        /\ {u[i] : i \in payload} = (d + 1)..accepted
        /\ \A i, j \in payload : i < j => u[i] < u[j]
    BY <2>6, <2>7
  <2> QED
    BY <2>2, <2>3, <2>4, <2>8, Zenon DEF Conserved
<1> QED
  BY <1>1, StreamSafe, PTL

(* read_bytes_till_header points to the next chunk header, whether the     *)
(* "\r\n" in front of it has arrived or not, and no header fails to parse. *)
THEOREM ReaderSynchronised == Spec => []Synchronised
<1>1. IInv => Synchronised
  <2>1. SUFFICES ASSUME IInv PROVE Synchronised
    OBVIOUS
  <2>2. Sound(rd) /\ rd \in ReaderStates
    BY <2>1 DEF IInv, OnWay, Sound
  <2>3. ~rd.bad
    BY <2>2, StateIs
  <2>4. PICK t \in Nat, k \in Nat : t = rd.till /\ k = Done(rd) /\ t # 1
    BY <2>2, StateIs DEF Sound
  <2>5. PICK u \in Seq(Int) : u = Undecoded
    BY <2>1, RestIs
  <2>6. PICK l \in Nat : l = Len(u)
    BY LenProperties
  <2>7. ASSUME rd.eof = -1, NEW i \in 1..Smaller(l, t + 1)
        PROVE  /\ i < t - 1 => IsPayload(u[i])
               /\ i = t - 1 => u[i] = CR
               /\ i = t     => u[i] = LF
               /\ i = t + 1 => IsLength(u[i])
               /\ i <= t + 1
    <3>1. Framed(At(0, t, k), u, WriterAt)
      BY <2>1, <2>4, <2>5, <2>7, RestIs DEF ReaderAt
    <3>2. i \in Nat /\ i > 0 /\ i <= l /\ i <= t + 1
      BY DEF Smaller
    <3>3. ASSUME i < t - 1 PROVE IsPayload(u[i])
      <4>1. i \in 0..Len(u)
        BY <2>6, <3>2
      <4>2. PICK v, x : v = SubSeq(u, 1, i) /\ x = From(u, i + 1)
        OBVIOUS
      <4>3. /\ u = v \o x /\ v \in Seq(Int) /\ Len(v) = i /\ x \in Seq(Int)
            /\ \A j \in 1..i : v[j] = u[j]
        BY <4>1, <4>2, CutAt
      <4>4. PICK q \in Places : Framed(At(0, t, k), v, q)
        BY <3>1, <4>3, FramedSplit
      <4>5. v = Bytes(k + 1, k + i)
        <5>1. Len(v) + 2 <= t
          BY <3>2, <3>3, <4>3
        <5>2. v = Bytes(k + 1, k + Len(v))
          BY <4>3, <4>4, <5>1, BodyRun
        <5> QED
          BY <4>3, <5>2
      <4>6. v[i] = k + i
        <5>1. Bytes(k + 1, k + i) = [j \in 1..i |-> k + j]
          BY <3>2, BytesAre
        <5> QED
          BY <3>2, <4>5, <5>1
      <4> QED
        BY <3>2, <4>3, <4>6 DEF IsPayload
    <3>4. CASE t = 0
      <4>1. i = 1 /\ Len(u) > 0 /\ Framed(At(0, 0, k), u, WriterAt)
        BY <2>6, <3>1, <3>2, <3>4
      <4>2. PICK w : w = WriterAt
        OBVIOUS
      <4>3. PICK n \in 0..MaxChunk : u[1] = LengthSymbol(n)
        BY <4>1, <4>2, HeaderRun
      <4>4. n \in Nat
        BY WriterAssumption
      <4>5. IsLength(u[i])
        BY <4>1, <4>3, <4>4, Symbols
      <4> QED
        BY <3>2, <3>4, <4>1, <4>5
    <3>5. CASE t >= 2
      <4>1. i >= t - 1 => /\ u[t - 1] = CR
                          /\ Len(u) >= t => u[t] = LF
                          /\ Len(u) >= t + 1 => IsLength(u[t + 1])
        <5>1. i >= t - 1 => Len(u) >= t - 1
          BY <2>6, <3>2
        <5>2. PICK w : w = WriterAt
          OBVIOUS
        <5> QED
          BY <3>1, <3>5, <5>1, <5>2, LineEndsAt
      <4> QED
        BY <2>6, <3>2, <3>3, <4>1
    <3> QED
      BY <2>4, <3>4, <3>5
  <2>8. Smaller(Len(Undecoded), rd.till + 1) = Smaller(l, t + 1)
    BY <2>4, <2>5, <2>6
  <2>9. ASSUME rd.eof = -1, NEW i \in 1..Smaller(Len(Undecoded), rd.till + 1)
        PROVE  LET x == Undecoded[i] IN
               CASE i < rd.till - 1 -> IsPayload(x)
                 [] i = rd.till - 1 -> x = CR
                 [] i = rd.till     -> x = LF
                 [] i = rd.till + 1 -> IsLength(x)
    <3>1. i \in 1..Smaller(l, t + 1) /\ i \in Int
      BY <2>8, <2>9
    <3>2. /\ i < t - 1 => IsPayload(u[i])
          /\ i = t - 1 => u[i] = CR
          /\ i = t     => u[i] = LF
          /\ i = t + 1 => IsLength(u[i])
          /\ i <= t + 1
      BY <2>7, <2>9, <3>1
    <3>3. i < t - 1 \/ i = t - 1 \/ i = t \/ i = t + 1
      BY <3>1, <3>2
    <3> QED
      BY <2>4, <2>5, <3>1, <3>2, <3>3
  <2> QED
    BY <2>3, <2>9 DEF Synchronised
<1> QED
  BY <1>1, StreamSafe, PTL

-----------------------------------------------------------------------------
LEMMA FirstBytes ==
    ASSUME NEW b \in Nat, NEW a \in 0..b
    PROVE  /\ Bytes(1, b) \in Seq(Int) /\ Len(Bytes(1, b)) = b
           /\ SubSeq(Bytes(1, b), 1, a) = Bytes(1, a)
<1>1. ASSUME NEW c \in Nat
      PROVE  Bytes(1, c) = [i \in 1..c |-> i] /\ Bytes(1, c) \in Seq(Int) /\ Len(Bytes(1, c)) = c
  <2>1. 0 + 1 = 1 /\ 0 + c = c /\ \A i \in 1..c : 0 + i = i
    OBVIOUS
  <2>2. /\ Bytes(0 + 1, 0 + c) = [i \in 1..c |-> 0 + i]
        /\ Bytes(0 + 1, 0 + c) \in Seq(Int) /\ Len(Bytes(0 + 1, 0 + c)) = c
    BY BytesAre
  <2> QED
    BY <2>1, <2>2
<1>2. PICK u, v : u = SubSeq(Bytes(1, b), 1, a) /\ v = Bytes(1, a)
  OBVIOUS
<1>3. a \in Nat /\ a \in 0..Len(Bytes(1, b)) /\ Bytes(1, b) \in Seq(Int) /\ Len(Bytes(1, b)) = b
  BY <1>1
<1>4. u \in Seq(Int) /\ Len(u) = a /\ \A i \in 1..a : u[i] = Bytes(1, b)[i]
  BY <1>2, <1>3, CutAt
<1>5. v \in Seq(Int) /\ Len(v) = a /\ \A i \in 1..a : v[i] = i
  BY <1>1, <1>2, <1>3
<1>6. \A i \in 1..a : Bytes(1, b)[i] = i
  BY <1>1, <1>3
<1>7. u = v
  <2>1. Len(u) = Len(v) /\ \A i \in 1..Len(u) : u[i] = v[i]
    BY <1>4, <1>5, <1>6
  <2> QED
    BY <1>4, <1>5, <2>1, SeqEqual
<1> QED
  BY <1>2, <1>3, <1>7

(* The writer's and the reader's steps are steps of the byte pipe.         *)
LEMMA WriterIsPipe ==
    ASSUME IInv, WriterNext, UNCHANGED rd
    PROVE  [Pipe!Next]_(Pipe!vars)
<1>1. IInv' /\ WriterMoves
  BY WriterStep
<1>2. PICK a \in Nat, b \in Nat : a = accepted /\ b = accepted'
  BY <1>1, WriterAssumption DEF IInv
<1>3. PICK e \in Nat, f \in Nat : e = ends /\ f = ends'
  BY <1>1, WriterAssumption DEF IInv
<1>4. rd'.out = rd.out /\ Eof' = Eof
  BY DEF Eof
<1>5. CASE accepted' = accepted /\ ends' = ends
  BY <1>4, <1>5 DEF Pipe!vars
<1>6. CASE ends = 0 /\ ends' = 0 /\ accepted' > accepted
  <2>1. Len(Bytes(1, a)) = a /\ Len(Bytes(1, b)) = b /\ SubSeq(Bytes(1, b), 1, a) = Bytes(1, a)
    <3>1. a \in 0..b /\ a \in 0..a
      BY <1>2, <1>6
    <3> QED
      BY <3>1, FirstBytes
  <2>2. ~(ends > 0) /\ ~(ends' > 0)
    BY <1>6
  <2>3. (ends' > 0) = (ends > 0)
    BY <2>2
  <2>4. /\ Len(Bytes(1, accepted')) > Len(Bytes(1, accepted))
        /\ SubSeq(Bytes(1, accepted'), 1, Len(Bytes(1, accepted))) = Bytes(1, accepted)
    BY <1>2, <1>6, <2>1
  <2>5. Pipe!Send
    BY <1>4, <2>2, <2>3, <2>4 DEF Pipe!Send
  <2> QED
    BY <2>5 DEF Pipe!Next
<1>7. CASE ends = 0 /\ ends' = 1 /\ accepted' = accepted
  <2>1. ~(ends > 0) /\ (ends' > 0) = TRUE
    BY <1>7
  <2>2. Pipe!Close
    BY <1>4, <1>7, <2>1 DEF Pipe!Close
  <2> QED
    BY <2>2 DEF Pipe!Next
<1>8. CASE ends > 0 /\ ends' > 0 /\ accepted' = accepted
  <2>1. (ends' > 0) = (ends > 0)
    BY <1>8
  <2> QED
    BY <1>4, <1>8, <2>1 DEF Pipe!vars
<1> QED
  BY <1>1, <1>5, <1>6, <1>7, <1>8 DEF WriterMoves

LEMMA ReaderIsPipe ==
    ASSUME IInv, ReaderNext, UNCHANGED writerVars
    PROVE  [Pipe!Next]_(Pipe!vars)
<1>1. accepted' = accepted /\ ends' = ends /\ pending' = pending
  BY DEF writerVars
<1>2. PICK len \in 1..MaxRead : Read(len)
  BY DEF ReaderNext
<1>3. /\ wire' \in Seq(Int)
      /\ OnWay(rd', wire' \o pending, WriterAt)
      /\ Len(rd'.out) >= Len(rd.out)
      /\ Eof => rd'.out = rd.out /\ Eof'
  BY <1>2, ReadStep
<1>4. CASE Eof
  <2>1. Eof' = Eof /\ rd'.out = rd.out
    BY <1>3, <1>4
  <2> QED
    BY <1>1, <2>1 DEF Pipe!vars
<1>5. CASE ~Eof
  <2>1. PICK s, rest, w : s = rd' /\ rest = wire' \o pending /\ w = WriterAt
    OBVIOUS
  <2>2. rest \in Seq(Int) /\ OnWay(s, rest, w)
    <3>1. wire' \in Seq(Int) /\ pending \in Seq(Int)
      BY <1>3 DEF IInv
    <3>2. wire' \o pending \in Seq(Int)
      BY <3>1, Joined
    <3> QED
      BY <1>3, <2>1, <3>2
  <2>3. /\ s.out = Bytes(1, Len(s.out)) /\ Len(s.out) \in Nat /\ Len(s.out) <= Done(s)
        /\ Done(s) \in Nat /\ Done(s) <= w.k
    BY <2>2, GivenAre
  <2>4. PICK a \in Nat : a = accepted /\ a = w.k
    <3>1. accepted \in 0..N
      BY DEF IInv
    <3>2. w.k = accepted
      BY <2>1, RestIs
    <3> QED
      BY <3>1, <3>2, WriterAssumption
  <2>5. PICK n \in Nat : n = Len(s.out) /\ n \in 0..a
    BY <2>3, <2>4
  <2>6. /\ Len(Bytes(1, a)) = a /\ SubSeq(Bytes(1, a), 1, n) = Bytes(1, n)
    BY <2>5, FirstBytes
  <2>7. PICK m \in Nat : m = Len(rd.out) /\ m <= n
    <3>1. Len(rd.out) \in Nat
      BY StateIs DEF IInv, OnWay, Sound
    <3> QED
      BY <1>3, <2>1, <2>5, <3>1
  <2>8. \E i \in Len(rd.out)..Len(Bytes(1, accepted)) :
          rd'.out = SubSeq(Bytes(1, accepted), 1, i)
    <3>1. n \in m..a /\ s.out = SubSeq(Bytes(1, a), 1, n)
      BY <2>3, <2>5, <2>6, <2>7
    <3> QED
      BY <2>1, <2>4, <2>6, <2>7, <3>1
  <2>9. ASSUME Eof' PROVE ends > 0 /\ rd'.out = Bytes(1, accepted)
    <3>1. s.decoded = << >> /\ s.eof = 0
      BY <2>1, <2>9 DEF Eof
    <3>2. w = At(3, 2, Done(s))
      BY <2>2, <3>1, EndReached
    <3>3. w.h = 3 /\ w.k = Done(s)
      BY <3>2, AtIs
    <3>4. ends # 0
      BY <2>1, <3>3, AtIs DEF WriterAt
    <3>5. ends > 0
      BY <3>4, WriterAssumption DEF IInv
    <3>6. Done(s) = n
      <4>1. Len(s.decoded) = 0
        BY <3>1, EmptyIs
      <4> QED
        BY <2>5, <4>1 DEF Done
    <3> QED
      BY <2>1, <2>3, <2>4, <2>5, <3>3, <3>5, <3>6
  <2>10. Eof' \in BOOLEAN
    BY DEF Eof
  <2>11. Pipe!Receive
    BY <1>1, <1>5, <2>8, <2>9, <2>10 DEF Pipe!Receive
  <2> QED
    BY <2>11 DEF Pipe!Next
<1> QED
  BY <1>4, <1>5

(* The chunked writer and reader implement the byte pipe: the application  *)
(* at the far end is given the bytes that were written, in order, and is   *)
(* told of the end of the stream after the last of them and not before.    *)
THEOREM StreamIsPipe == Spec => PipeSpec
<1>1. Init => Pipe!Init
  <2>1. SUFFICES ASSUME Init PROVE Pipe!Init
    OBVIOUS
  <2>2. accepted = 0 /\ ends = 0 /\ rd.out = << >> /\ rd.eof = -1
    BY <2>1 DEF Init, WriterInit, ReaderInit
  <2>3. Bytes(1, accepted) = << >>
    <3>1. Bytes(1, 0) \in Seq(Int) /\ Len(Bytes(1, 0)) = 0
      <4>1. 0 \in 0..0
        OBVIOUS
      <4> QED
        BY <4>1, FirstBytes
    <3> QED
      BY <2>2, <3>1, EmptyIs
  <2>4. (ends > 0) = FALSE
    BY <2>2
  <2>5. Eof = FALSE
    BY <2>2 DEF Eof
  <2> QED
    BY <2>2, <2>3, <2>4, <2>5 DEF Pipe!Init
<1>2. IInv /\ [Next]_vars => [Pipe!Next]_(Pipe!vars)
  <2>1. SUFFICES ASSUME IInv, [Next]_vars PROVE [Pipe!Next]_(Pipe!vars)
    OBVIOUS
  <2>2. CASE WriterNext /\ UNCHANGED rd
    BY <2>1, <2>2, WriterIsPipe
  <2>3. CASE ReaderNext /\ UNCHANGED writerVars
    BY <2>1, <2>3, ReaderIsPipe
  <2>4. CASE UNCHANGED vars
    BY <2>4 DEF vars, Pipe!vars, Eof
  <2> QED
    BY <2>1, <2>2, <2>3, <2>4 DEF Next
<1> QED
  BY <1>1, <1>2, StreamSafe, PTL DEF Spec, PipeSpec, Pipe!Spec

=============================================================================
