---------------------------- MODULE Framing_proofs ----------------------------
(***************************************************************************)
(* Proofs about the framing of packets, for all payloads, every number of  *)
(* packets and every way in which the stream is cut: what is delivered is  *)
(* what was sent, in order.                                                *)
(***************************************************************************)
EXTENDS Framing, FiniteSetTheorems, SequenceTheorems, TLAPS

-----------------------------------------------------------------------------
(* Induction and recursion over the naturals, from the order of the finite *)
(* sets by inclusion, and the stream as what a recursive function returns. *)

LEMMA LeastNumber ==
  ASSUME NEW T, T \subseteq Nat, T # {}
  PROVE  \E x \in T : \A y \in T : x <= y
<1> DEFINE R == StrictSubsetOrdering(Nat)
           U == {0..x : x \in T}
<1>1. IsWellFoundedOn(R, FiniteSubsetsOf(Nat))
  BY FS_StrictSubsetOrderingWellFounded
<1>2. U \subseteq FiniteSubsetsOf(Nat)
  <2>1. ASSUME NEW x \in T PROVE 0..x \in FiniteSubsetsOf(Nat)
    <3>1. x \in Int /\ 0 \in Int /\ 0..x \subseteq Nat
      OBVIOUS
    <3>2. IsFiniteSet(0..x)
      BY <3>1, FS_Interval
    <3>3. QED
      BY <3>1, <3>2 DEF FiniteSubsetsOf
  <2>2. QED
    BY <2>1
<1>3. U # {}
  OBVIOUS
<1>4. \A x, y \in T : y < x => <<0..y, 0..x>> \in R
  <2> SUFFICES ASSUME NEW x \in T, NEW y \in T, y < x PROVE <<0..y, 0..x>> \in R
    OBVIOUS
  <2>1. x \in Nat /\ y \in Nat /\ x \in 0..x /\ x \notin 0..y
    OBVIOUS
  <2>2. 0..y \subseteq 0..x /\ 0..y # 0..x /\ 0..x \subseteq Nat
    BY <2>1
  <2>3. QED
    BY <2>2 DEF StrictSubsetOrdering
<1>5. \A x \in T : 0..x \in U
  OBVIOUS
<1> HIDE DEF R
<1>6. PICK m \in U : \A u \in U : <<u, m>> \notin R
  BY <1>1, <1>2, <1>3, WFMin
<1>7. PICK x \in T : m = 0..x
  BY <1>6
<1>8. ASSUME NEW y \in T PROVE x <= y
  <2>1. ~(y < x)
    BY <1>4, <1>5, <1>6, <1>7
  <2>2. QED
    BY <2>1
<1>9. QED
  BY <1>8

LEMMA Induction ==
  ASSUME NEW P, 0 \in P, \A n \in Nat : n \in P => n + 1 \in P
  PROVE  Nat \subseteq P
<1> SUFFICES ASSUME Nat \ P # {} PROVE FALSE
  OBVIOUS
<1>1. PICK x \in Nat \ P : \A y \in Nat \ P : x <= y
  BY LeastNumber
<1>2. x # 0 /\ x - 1 \in Nat
  BY <1>1
<1>3. x - 1 \in P
  BY <1>1, <1>2
<1>4. QED
  BY <1>1, <1>2, <1>3

(* g starts with a and F leads from one of its values to the next.         *)
Follows(g, a, F) == g[0] = a /\ \A k \in Nat : g[k + 1] = F[k][g[k]]

LEMMA Recursion ==
  ASSUME NEW D, NEW a \in D, NEW F \in [Nat -> [D -> D]]
  PROVE  \E g \in [Nat -> D] : Follows(g, a, F)
<1> DEFINE Begun(k) == {h \in [0..k -> D] :
                          h[0] = a /\ \A i \in 0..k - 1 : h[i + 1] = F[i][h[i]]}
<1>1. \A k \in Nat : Begun(k) # {}
  <2> DEFINE P == {k \in Nat : Begun(k) # {}}
  <2>1. 0 \in P
    <3>1. [i \in 0..0 |-> a] \in Begun(0)
      OBVIOUS
    <3>2. QED
      BY <3>1
  <2>2. ASSUME NEW k \in Nat, k \in P PROVE k + 1 \in P
    <3>1. PICK h \in [0..k -> D] : h[0] = a /\ \A i \in 0..k - 1 : h[i + 1] = F[i][h[i]]
      BY <2>2
    <3> DEFINE b == F[k][h[k]]
               e == [i \in 0..k + 1 |-> IF i = k + 1 THEN b ELSE h[i]]
    <3>2. b \in D
      OBVIOUS
    <3>3. e \in [0..k + 1 -> D]
      BY <3>2
    <3>4. e[0] = a
      BY <3>1
    <3>5. ASSUME NEW i \in 0..(k + 1) - 1 PROVE e[i + 1] = F[i][e[i]]
      <4>1. CASE i = k
        <5>1. e[k + 1] = b /\ e[k] = h[k]
          OBVIOUS
        <5> HIDE DEF e
        <5>2. QED
          BY <4>1, <5>1
      <4>2. CASE i # k
        <5>1. i \in 0..k - 1 /\ i + 1 \in 0..k /\ i \in 0..k
          BY <4>2
        <5>2. e[i] = h[i] /\ e[i + 1] = h[i + 1]
          BY <5>1
        <5>3. QED
          BY <3>1, <5>1, <5>2
      <4>3. QED
        BY <4>1, <4>2
    <3>6. e \in Begun(k + 1)
      BY <3>3, <3>4, <3>5
    <3>7. Begun(k + 1) # {}
      BY <3>6
    <3> HIDE DEF e, b, Begun
    <3>8. QED
      BY <3>7
  <2> HIDE DEF P
  <2>3. Nat \subseteq P
    BY <2>1, <2>2, Induction
  <2>4. QED
    BY <2>3 DEF P
<1>2. ASSUME NEW k \in Nat, NEW l \in Nat, NEW h \in Begun(k), NEW j \in Begun(l),
             NEW n \in Nat, n <= k, n <= l
      PROVE  h[n] = j[n]
  <2> DEFINE P == {i \in Nat : i <= k /\ i <= l => h[i] = j[i]}
  <2>1. 0 \in P
    OBVIOUS
  <2>2. ASSUME NEW i \in Nat, i \in P PROVE i + 1 \in P
    <3> SUFFICES ASSUME i + 1 <= k, i + 1 <= l PROVE h[i + 1] = j[i + 1]
      OBVIOUS
    <3>1. h[i] = j[i]
      BY <2>2
    <3>2. h[i + 1] = F[i][h[i]]
      <4>1. i \in 0..k - 1
        OBVIOUS
      <4>2. QED
        BY <4>1
    <3>3. j[i + 1] = F[i][j[i]]
      <4>1. i \in 0..l - 1
        OBVIOUS
      <4>2. QED
        BY <4>1
    <3>4. QED
      BY <3>1, <3>2, <3>3
  <2> HIDE DEF P
  <2>3. n \in P
    BY <2>1, <2>2, Induction
  <2>4. QED
    BY <1>2, <2>3 DEF P
<1> DEFINE c == [k \in Nat |-> CHOOSE h : h \in Begun(k)]
           g == [k \in Nat |-> c[k][k]]
<1>3. \A k \in Nat : c[k] \in Begun(k)
  BY <1>1
<1>4. \A k \in Nat : c[k] \in [0..k -> D] /\ c[k][0] = a
                     /\ \A i \in 0..k - 1 : c[k][i + 1] = F[i][c[k][i]]
  BY <1>3
<1>5. ASSUME NEW k \in Nat PROVE c[k + 1][k] = c[k][k]
  <2>1. k + 1 \in Nat /\ k <= k + 1 /\ k <= k
    OBVIOUS
  <2>2. c[k + 1] \in Begun(k + 1) /\ c[k] \in Begun(k)
    BY <1>3, <2>1
  <2> HIDE DEF c, Begun
  <2>3. QED
    BY <1>2, <2>1, <2>2
<1> HIDE DEF c
<1>6. g \in [Nat -> D] /\ g[0] = a
  BY <1>4
<1>7. ASSUME NEW k \in Nat PROVE g[k + 1] = F[k][g[k]]
  <2>1. k \in 0..(k + 1) - 1
    OBVIOUS
  <2>2. c[k + 1][k + 1] = F[k][c[k + 1][k]]
    BY <1>4, <2>1
  <2>3. QED
    BY <1>5, <2>2
<1>8. QED
  BY <1>6, <1>7 DEF Follows

(* F[k] are the first k sequences one after the other.                     *)
Joins(F, seqs) ==
  /\ F[0] = <<>>
  /\ \A k \in 0..Len(seqs) - 1 : F[k + 1] = F[k] \o seqs[k + 1]

LEMMA Flattened ==
  ASSUME NEW S, NEW seqs \in Seq(Seq(S))
  PROVE  \E F \in [Nat -> Seq(S)] : Joins(F, seqs) /\ FlattenSeq(seqs) = F[Len(seqs)]
<1> DEFINE D == Seq(S)
           n == Len(seqs)
           Part(k) == IF k + 1 \in 1..n THEN seqs[k + 1] ELSE <<>>
           G == [k \in Nat |-> [d \in D |-> d \o Part(k)]]
<1>1. n \in Nat /\ \A i \in 1..n : seqs[i] \in D
  OBVIOUS
<1>2. \A k \in Nat : Part(k) \in D
  BY <1>1
<1> HIDE DEF Part
<1>3. G \in [Nat -> [D -> D]] /\ \A k \in Nat, d \in D : G[k][d] = d \o Part(k)
  <2>1. ASSUME NEW k \in Nat, NEW d \in D PROVE d \o Part(k) \in D
    <3>1. PICK p \in D : p = Part(k)
      BY <1>2
    <3>2. d \o p \in D
      OBVIOUS
    <3>3. QED
      BY <3>1, <3>2
  <2> HIDE DEF D
  <2>2. QED
    BY <2>1
<1>4. <<>> \in D
  OBVIOUS
<1> HIDE DEF G, D
<1>5. \E F \in [Nat -> D] : F[0] = <<>> /\ \A k \in Nat : F[k + 1] = G[k][F[k]]
  <2>1. PICK a \in D : a = <<>>
    BY <1>4
  <2>2. PICK H \in [Nat -> [D -> D]] : H = G
    BY <1>3
  <2>3. \E F \in [Nat -> D] : Follows(F, a, H)
    BY Recursion
  <2>4. QED
    BY <2>1, <2>2, <2>3 DEF Follows
<1>6. PICK F \in [Nat -> D] : F[0] = <<>> /\ \A k \in Nat : F[k + 1] = F[k] \o Part(k)
  <2>1. PICK F \in [Nat -> D] : F[0] = <<>> /\ \A k \in Nat : F[k + 1] = G[k][F[k]]
    BY <1>5
  <2>2. \A k \in Nat : F[k] \in D
    OBVIOUS
  <2>3. \A k \in Nat : G[k][F[k]] = F[k] \o Part(k)
    BY <1>3, <2>2
  <2>4. QED
    BY <2>1, <2>3
<1>7. \A k \in 0..n - 1 : F[k + 1] = F[k] \o seqs[k + 1]
  <2> SUFFICES ASSUME NEW k \in 0..n - 1 PROVE F[k + 1] = F[k] \o seqs[k + 1]
    OBVIOUS
  <2>1. k \in Nat /\ k + 1 \in 1..n
    BY <1>1
  <2>2. Part(k) = seqs[k + 1]
    BY <2>1 DEF Part
  <2>3. QED
    BY <1>6, <2>1, <2>2
<1> DEFINE E(f) == [i \in 1..n |-> IF i = 1 THEN seqs[i] ELSE f[i - 1] \o seqs[i]]
           h == [i \in 1..n |-> F[i]]
           fl == CHOOSE f : f = E(f)
<1>8. h = E(h)
  <2>1. ASSUME NEW i \in 1..n PROVE h[i] = E(h)[i]
    <3>1. CASE i = 1
      <4>1. F[1] = <<>> \o seqs[1]
        <5>1. 0 \in 0..n - 1 /\ 0 + 1 = 1
          BY <1>1, <3>1
        <5>2. F[0 + 1] = F[0] \o seqs[0 + 1]
          BY <1>7, <5>1
        <5>3. QED
          BY <1>6, <5>1, <5>2
      <4>2. seqs[1] \in Seq(S)
        BY <1>1, <3>1 DEF D
      <4>3. QED
        BY <3>1, <4>1, <4>2
    <3>2. CASE i # 1
      <4>1. i - 1 \in 0..n - 1 /\ i - 1 \in 1..n /\ (i - 1) + 1 = i
        BY <1>1, <3>2
      <4>2. F[i] = F[i - 1] \o seqs[i]
        BY <1>7, <4>1
      <4>3. QED
        BY <3>2, <4>1, <4>2
    <3>3. QED
      BY <3>1, <3>2
  <2>2. QED
    BY <2>1
<1>9. fl = E(fl)
  BY <1>8
<1>10. FlattenSeq(seqs) = IF n = 0 THEN seqs ELSE fl[n]
  BY DEF FlattenSeq
<1> HIDE DEF fl
<1>11. ASSUME NEW i \in Nat, i + 1 \in 1..n PROVE fl[i + 1] = F[i + 1]
  <2> DEFINE P == {j \in Nat : j + 1 \in 1..n => fl[j + 1] = F[j + 1]}
  <2>1. 0 \in P
    <3> SUFFICES ASSUME 1 \in 1..n PROVE fl[1] = F[1]
      OBVIOUS
    <3>1. fl[1] = seqs[1]
      BY <1>9
    <3>2. h[1] = seqs[1]
      BY <1>8
    <3>3. QED
      BY <3>1, <3>2
  <2>2. ASSUME NEW j \in Nat, j \in P PROVE j + 1 \in P
    <3> SUFFICES ASSUME (j + 1) + 1 \in 1..n PROVE fl[(j + 1) + 1] = F[(j + 1) + 1]
      OBVIOUS
    <3>1. j + 1 \in 1..n /\ j + 1 \in 0..n - 1 /\ (j + 1) + 1 # 1 /\ ((j + 1) + 1) - 1 = j + 1
      BY <1>1
    <3>2. fl[j + 1] = F[j + 1]
      BY <2>2, <3>1
    <3>3. fl[(j + 1) + 1] = fl[j + 1] \o seqs[(j + 1) + 1]
      BY <1>9, <3>1
    <3>4. F[(j + 1) + 1] = F[j + 1] \o seqs[(j + 1) + 1]
      BY <1>7, <3>1
    <3>5. QED
      BY <3>2, <3>3, <3>4
  <2> HIDE DEF P
  <2>3. i \in P
    BY <2>1, <2>2, Induction
  <2>4. QED
    BY <1>11, <2>3 DEF P
<1>12. FlattenSeq(seqs) = F[n]
  <2>1. CASE n = 0
    BY <1>6, <1>10, <2>1
  <2>2. CASE n # 0
    <3>1. n - 1 \in Nat /\ (n - 1) + 1 \in 1..n /\ (n - 1) + 1 = n
      BY <1>1, <2>2
    <3>2. fl[n] = F[n]
      BY <1>11, <3>1
    <3>3. QED
      BY <1>10, <2>2, <3>2
  <2>3. QED
    BY <2>1, <2>2
<1>13. QED
  BY <1>6, <1>7, <1>12 DEF D, Joins

-----------------------------------------------------------------------------
(* Bytes and packets.                                                      *)

Byte == 0..255

LEMMA TwoBytes ==
  ASSUME NEW t \in Nat, t < 65536
  PROVE  t % 256 \in Byte /\ t \div 256 \in Byte /\ (t % 256) + 256 * (t \div 256) = t
<1>1. t % 256 \in 0..255
  OBVIOUS
<1>2. t = 256 * (t \div 256) + (t % 256) /\ t \div 256 \in Int
  OBVIOUS
<1>3. PICK a \in Int, b \in Int : a = t \div 256 /\ b = t % 256
  BY <1>1, <1>2
<1>4. a \in 0..255
  BY <1>1, <1>2, <1>3
<1>5. QED
  BY <1>1, <1>2, <1>3, <1>4 DEF Byte

LEMMA PacketType ==
  ASSUME NEW p \in Payloads
  PROVE  /\ p \in Seq(Byte)
         /\ Packet(p) \in Seq(Byte)
         /\ Len(Packet(p)) = Len(p) + 2
         /\ Packet(p)[1] + 256 * Packet(p)[2] = Len(p) + 2
         /\ SubSeq(Packet(p), 3, Len(p) + 2) = p
<1>1. p \in Seq(Byte) /\ Len(p) + 2 < 65536 /\ Len(p) \in Nat
  BY PayloadsAssumption DEF Byte
<1>2. PICK t \in Nat : t = Len(p) + 2 /\ t < 65536
  BY <1>1
<1>3. (Len(p) + HeaderSize) % 65536 = t
  BY <1>2 DEF HeaderSize
<1>4. PICK lo \in Byte, hi \in Byte : lo = t % 256 /\ hi = t \div 256
  BY <1>2, TwoBytes
<1>5. lo + 256 * hi = t
  BY <1>2, <1>4, TwoBytes
<1>6. Packet(p) = <<lo, hi>> \o p
  BY <1>3, <1>4 DEF Packet
<1>7. <<lo, hi>> \in Seq(Byte) /\ Len(<<lo, hi>>) = 2
  OBVIOUS
<1>8. Packet(p) \in Seq(Byte) /\ Len(Packet(p)) = Len(p) + 2
  BY <1>1, <1>6, <1>7, ConcatProperties
<1>9. Packet(p)[1] = lo /\ Packet(p)[2] = hi
  BY <1>1, <1>6
<1>10. \A i \in 1..Len(p) : Packet(p)[i + 2] = p[i]
  BY <1>1, <1>6
<1>11. SubSeq(Packet(p), 3, Len(p) + 2) = p
  <2>1. PICK q \in Seq(Byte) : q = Packet(p)
    BY <1>8
  <2>2. Len(q) = Len(p) + 2 /\ \A i \in 1..Len(p) : q[i + 2] = p[i]
    BY <1>8, <1>10, <2>1
  <2>3. SubSeq(q, 3, Len(p) + 2) = p
    BY <1>1, <2>2
  <2>4. QED
    BY <2>1, <2>3
<1>12. QED
  BY <1>1, <1>2, <1>5, <1>8, <1>9, <1>11

(* Concatenation under a name that keeps the provers from unfolding it.    *)
Cat(s, t) == s \o t

LEMMA Associative ==
  ASSUME NEW S, NEW s \in Seq(S), NEW t \in Seq(S), NEW u \in Seq(S)
  PROVE  Cat(Cat(s, t), u) = Cat(s, Cat(t, u))
BY ConcatAssociative DEF Cat

(* A sequence cut in two, put together again.                              *)
LEMMA CutAndJoined ==
  ASSUME NEW S, NEW s \in Seq(S), NEW n \in 0..Len(s)
  PROVE  /\ SubSeq(s, 1, n) \in Seq(S)
         /\ SubSeq(s, n + 1, Len(s)) \in Seq(S)
         /\ SubSeq(s, 1, n) \o SubSeq(s, n + 1, Len(s)) = s
<1>1. Len(s) \in Nat /\ n \in Nat
  OBVIOUS
<1>2. SubSeq(s, 1, n) \in Seq(S) /\ SubSeq(s, n + 1, Len(s)) \in Seq(S)
  BY <1>1
<1>3. 1 \in 1..Len(s) + 1 /\ n \in 1 - 1..Len(s) /\ Len(s) \in n..Len(s)
  BY <1>1
<1>4. SubSeq(s, 1, n) \o SubSeq(s, n + 1, Len(s)) = SubSeq(s, 1, Len(s))
  BY <1>3, ConcatAdjacentSubSeq
<1>5. SubSeq(s, 1, Len(s)) = s
  BY SubSeqFull
<1>6. QED
  BY <1>2, <1>4, <1>5

(* When the bytes b, and behind them w, begin with the bytes q and b has   *)
(* as many, b begins with q.                                               *)
LEMMA FrontTakenOff ==
  ASSUME NEW S, NEW b \in Seq(S), NEW w \in Seq(S), NEW q \in Seq(S), NEW r \in Seq(S),
         b \o w = q \o r, Len(q) <= Len(b)
  PROVE  /\ SubSeq(b, 1, Len(q)) = q
         /\ SubSeq(b, Len(q) + 1, Len(b)) \o w = r
<1>1. PICK n \in 0..Len(b) : n = Len(q)
  OBVIOUS
<1>2. PICK f \in Seq(S), e \in Seq(S) :
        f = SubSeq(b, 1, n) /\ e = SubSeq(b, n + 1, Len(b)) /\ f \o e = b
  <2>1. SubSeq(b, 1, n) \in Seq(S) /\ SubSeq(b, n + 1, Len(b)) \in Seq(S)
        /\ SubSeq(b, 1, n) \o SubSeq(b, n + 1, Len(b)) = b
    BY CutAndJoined
  <2>2. QED
    BY <2>1, Zenon
<1>3. Len(f) = Len(q)
  BY <1>1, <1>2
<1>4. PICK z \in Seq(S) : z = e \o w
  BY ConcatProperties
<1>5. f \o z = q \o r
  <2>1. Cat(Cat(f, e), w) = Cat(f, Cat(e, w))
    BY Associative
  <2>2. b \o w = f \o z
    BY <1>2, <1>4, <2>1, Zenon DEF Cat
  <2>3. QED
    BY <2>2, Zenon
<1>6. \A i \in 1..Len(q) : f[i] = q[i]
  <2> SUFFICES ASSUME NEW i \in 1..Len(q) PROVE f[i] = q[i]
    OBVIOUS
  <2>1. (f \o z)[i] = f[i] /\ (q \o r)[i] = q[i]
    BY <1>3
  <2>2. QED
    BY <1>5, <2>1
<1>7. f = q
  BY <1>3, <1>6, SeqEqual
<1>8. z = r
  BY <1>5, <1>7, ConcatSimplifications
<1>9. QED
  BY <1>1, <1>2, <1>4, <1>7, <1>8

(* The packet of p is in front of r, and b, which tells that it has z      *)
(* bytes, has them all; w comes behind b.                                  *)
Complete(p, b, w, r, z) ==
  /\ b \o w = Packet(p) \o r
  /\ 2 <= Len(b)
  /\ z = b[1] + 256 * b[2]
  /\ z <= Len(b)

(* Taking z bytes off the front of b gives p and leaves r.                 *)
Unpacks(p, b, w, r, z) ==
  /\ SubSeq(b, 3, z) = p
  /\ SubSeq(b, z + 1, Len(b)) \in Seq(Byte)
  /\ SubSeq(b, z + 1, Len(b)) \o w = r

(* The header tells how long the first packet is: taking that many bytes   *)
(* off the front gives its payload and leaves what comes behind it.        *)
LEMMA Unpacked ==
  ASSUME NEW p \in Payloads, NEW b \in Seq(Byte), NEW w \in Seq(Byte), NEW r \in Seq(Byte),
         NEW z \in Int, Complete(p, b, w, r, z)
  PROVE  Unpacks(p, b, w, r, z)
<1>1. b \o w = Packet(p) \o r /\ 2 <= Len(b) /\ z = b[1] + 256 * b[2] /\ z <= Len(b)
  BY DEF Complete
<1>2. PICK q \in Seq(Byte) : /\ q = Packet(p)
                             /\ Len(q) = Len(p) + 2
                             /\ q[1] + 256 * q[2] = Len(p) + 2
                             /\ SubSeq(q, 3, Len(p) + 2) = p
  BY PacketType
<1>3. PICK l \in Nat : l = Len(p)
  BY PacketType
<1>4. (b \o w)[1] = b[1] /\ (b \o w)[2] = b[2]
  BY <1>1
<1>5. (q \o r)[1] = q[1] /\ (q \o r)[2] = q[2]
  BY <1>2, <1>3
<1>6. b \o w = q \o r
  BY <1>1, <1>2
<1>7. z = l + 2 /\ z = Len(q)
  BY <1>1, <1>2, <1>3, <1>4, <1>5, <1>6
<1>8. SubSeq(b, 1, z) = q /\ SubSeq(b, z + 1, Len(b)) \o w = r
  <2>1. Len(q) <= Len(b)
    BY <1>1, <1>7
  <2>2. SubSeq(b, 1, Len(q)) = q /\ SubSeq(b, Len(q) + 1, Len(b)) \o w = r
    BY <1>6, <2>1, FrontTakenOff
  <2>3. QED
    BY <1>7, <2>2, Zenon
<1>9. SubSeq(b, 3, z) = SubSeq(SubSeq(b, 1, z), 3, z)
  BY <1>1, <1>3, <1>7
<1>10. SubSeq(b, 3, z) = p
  BY <1>2, <1>3, <1>7, <1>8, <1>9
<1>11. SubSeq(b, z + 1, Len(b)) \in Seq(Byte)
  BY <1>1, <1>3, <1>7
<1>12. QED
  BY <1>8, <1>10, <1>11 DEF Unpacks

Begins(x, y, S) == \E r \in Seq(S) : y = x \o r

(* The first k sequences are the beginning of all of them.                 *)
LEMMA Beginning ==
  ASSUME NEW S, NEW seqs \in Seq(Seq(S)), NEW F \in [Nat -> Seq(S)], Joins(F, seqs),
         NEW k \in 0..Len(seqs)
  PROVE  Begins(F[k], F[Len(seqs)], S)
<1> DEFINE n == Len(seqs)
           Goes(m) == \E r \in Seq(S) : F[m] = F[k] \o r
           P == {d \in Nat : k + d <= n => Goes(k + d)}
<1>1. n \in Nat /\ k \in Nat /\ \A i \in 1..n : seqs[i] \in Seq(S)
  OBVIOUS
<1>2. Goes(k)
  <2>1. F[k] \in Seq(S) /\ <<>> \in Seq(S)
    BY <1>1
  <2>2. F[k] = F[k] \o <<>>
    BY <2>1, ConcatEmptySeq
  <2>3. QED
    BY <2>1, <2>2
<1>3. ASSUME NEW m \in 0..n - 1, Goes(m) PROVE Goes(m + 1)
  <2>1. PICK r \in Seq(S) : F[m] = F[k] \o r
    BY <1>3
  <2>2. PICK x \in Seq(S) : x = seqs[m + 1]
    <3>1. m + 1 \in 1..n
      BY <1>1
    <3>2. QED
      BY <1>1, <3>1
  <2>3. F[m + 1] = F[m] \o x
    BY <2>2 DEF Joins
  <2>4. PICK f \in Seq(S) : f = F[k]
    BY <1>1
  <2>5. r \o x \in Seq(S)
    BY ConcatProperties
  <2>6. Cat(Cat(f, r), x) = Cat(f, Cat(r, x))
    BY Associative
  <2>7. F[m + 1] = F[k] \o (r \o x)
    BY <2>1, <2>3, <2>4, <2>6, Zenon DEF Cat
  <2>8. QED
    BY <2>5, <2>7
<1> HIDE DEF Goes
<1>4. 0 \in P
  BY <1>1, <1>2
<1>5. ASSUME NEW d \in Nat, d \in P PROVE d + 1 \in P
  <2> SUFFICES ASSUME k + (d + 1) <= n PROVE Goes(k + (d + 1))
    OBVIOUS
  <2>1. PICK m \in 0..n - 1 : m = k + d /\ m + 1 = k + (d + 1)
    BY <1>1
  <2>2. Goes(m)
    BY <1>1, <1>5, <2>1
  <2>3. QED
    BY <1>3, <2>1, <2>2
<1> HIDE DEF P
<1>6. n - k \in Nat /\ k + (n - k) = n
  BY <1>1
<1>7. n - k \in P
  BY <1>4, <1>5, <1>6, Induction
<1>8. Goes(n)
  BY <1>1, <1>6, <1>7 DEF P
<1>9. QED
  BY <1>8 DEF Goes, Begins

-----------------------------------------------------------------------------
(* What has been delivered, what is in the buffer and what is on the way   *)
(* are, one after the other, the stream: there is an F that gives, for     *)
(* every k, the bytes of the first k packets, and the bytes of all of them *)
(* are those of the packets delivered, then the buffer, then the rest.     *)

Stream == [i \in DOMAIN sent |-> Packet(sent[i])]

NothingLost(F) ==
  /\ Len(delivered) <= Len(sent)
  /\ \A i \in 1..Len(delivered) : delivered[i] = sent[i]
  /\ F[Len(sent)] = F[Len(delivered)] \o (buffer \o onTheWay)

WholeStream == \E F \in [Nat -> Seq(Byte)] : Joins(F, Stream) /\ NothingLost(F)

IInv == TypeOK /\ WholeStream

LEMMA StreamType ==
  ASSUME sent \in Seq(Payloads)
  PROVE  /\ Len(sent) \in Nat
         /\ Stream \in Seq(Seq(Byte))
         /\ Len(Stream) = Len(sent)
         /\ \A i \in 1..Len(sent) : sent[i] \in Payloads /\ Stream[i] = Packet(sent[i])
<1>1. PICK n \in Nat : n = Len(sent) /\ DOMAIN sent = 1..n
  OBVIOUS
<1>2. \A i \in 1..n : sent[i] \in Payloads
  BY <1>1
<1>3. \A i \in 1..n : Packet(sent[i]) \in Seq(Byte)
  BY <1>2, PacketType
<1>4. Stream = [i \in 1..n |-> Packet(sent[i])]
  BY <1>1 DEF Stream
<1>5. Stream \in Seq(Seq(Byte)) /\ Len(Stream) = n /\ \A i \in 1..n : Stream[i] = Packet(sent[i])
  BY <1>3, <1>4
<1>6. QED
  BY <1>1, <1>2, <1>5

LEMMA InitInv == Init => IInv
<1> SUFFICES ASSUME Init PROVE IInv
  OBVIOUS
<1>1. sent \in Seq(Payloads)
  <2>1. PICK n \in 1..MaxPackets : sent \in [1..n -> Payloads]
    BY DEF Init
  <2>2. n \in Nat
    BY <2>1
  <2>3. QED
    BY <2>1, <2>2
<1>2. buffer = <<>> /\ delivered = <<>> /\ scanning = FALSE /\ onTheWay = FlattenSeq(Stream)
  BY DEF Init, Stream
<1>3. PICK F \in [Nat -> Seq(Byte)] : Joins(F, Stream) /\ FlattenSeq(Stream) = F[Len(Stream)]
  BY <1>1, StreamType, Flattened
<1>4. PICK n \in Nat : n = Len(sent) /\ n = Len(Stream)
  BY <1>1, StreamType
<1>5. PICK w \in Seq(Byte) : w = F[n] /\ w = onTheWay
  BY <1>2, <1>3, <1>4
<1>6. F[0] = <<>>
  BY <1>3 DEF Joins
<1>7. <<>> \o (<<>> \o w) = w
  OBVIOUS
<1>8. F[Len(sent)] = F[Len(delivered)] \o (buffer \o onTheWay)
  <2>1. Len(delivered) = 0
    BY <1>2
  <2>2. QED
    BY <1>2, <1>4, <1>5, <1>6, <1>7, <2>1, Zenon
<1>9. NothingLost(F)
  <2>1. Len(delivered) = 0 /\ Len(delivered) <= Len(sent)
    BY <1>2, <1>4
  <2>2. QED
    BY <1>8, <2>1 DEF NothingLost
<1>10. TypeOK
  <2>1. <<>> \in Seq(Byte) /\ <<>> \in Seq(Payloads)
    OBVIOUS
  <2>2. buffer \in Seq(Byte) /\ delivered \in Seq(Payloads) /\ scanning \in BOOLEAN
    BY <1>2, <2>1
  <2>3. QED
    BY <1>1, <1>5, <2>2 DEF TypeOK, Byte
<1>11. QED
  BY <1>3, <1>9, <1>10 DEF IInv, WholeStream

LEMMA ReceiveStep ==
  ASSUME IInv, Receive
  PROVE  IInv'
<1> USE DEF Byte
<1>1. TypeOK /\ buffer \in Seq(Byte) /\ onTheWay \in Seq(Byte)
  BY DEF IInv, TypeOK
<1>2. PICK F \in [Nat -> Seq(Byte)] : Joins(F, Stream) /\ NothingLost(F)
  BY DEF IInv, WholeStream
<1>3. PICK n \in 1..Len(onTheWay) :
        /\ buffer' = buffer \o SubSeq(onTheWay, 1, n)
        /\ onTheWay' = SubSeq(onTheWay, n + 1, Len(onTheWay))
  BY DEF Receive
<1>4. scanning' = TRUE /\ sent' = sent /\ delivered' = delivered
  BY DEF Receive
<1> HIDE DEF Byte
<1>5. PICK f \in Seq(Byte), e \in Seq(Byte) :
        f = SubSeq(onTheWay, 1, n) /\ e = SubSeq(onTheWay, n + 1, Len(onTheWay)) /\ f \o e = onTheWay
  <2>1. n \in 0..Len(onTheWay)
    BY <1>1
  <2>2. /\ SubSeq(onTheWay, 1, n) \in Seq(Byte)
        /\ SubSeq(onTheWay, n + 1, Len(onTheWay)) \in Seq(Byte)
        /\ SubSeq(onTheWay, 1, n) \o SubSeq(onTheWay, n + 1, Len(onTheWay)) = onTheWay
    BY <1>1, <2>1, CutAndJoined
  <2>3. QED
    BY <2>2, Zenon
<1>6. buffer' = buffer \o f /\ onTheWay' = e
  BY <1>3, <1>5, Zenon
<1>7. buffer' \in Seq(Byte) /\ onTheWay' \in Seq(Byte)
  <2>1. buffer \o f \in Seq(Byte)
    BY <1>1, ConcatProperties
  <2>2. QED
    BY <1>6, <2>1, Zenon
<1>8. buffer' \o onTheWay' = buffer \o onTheWay
  <2>1. Cat(Cat(buffer, f), e) = Cat(buffer, Cat(f, e))
    BY <1>1, Associative
  <2>2. QED
    BY <1>5, <1>6, <2>1, Zenon DEF Cat
<1>9. TypeOK'
  BY <1>1, <1>4, <1>7 DEF TypeOK, Byte
<1>10. NothingLost(F)'
  BY <1>2, <1>4, <1>8 DEF NothingLost
<1>11. Joins(F, Stream')
  BY <1>2, <1>4 DEF Stream
<1>12. QED
  BY <1>9, <1>10, <1>11 DEF IInv, WholeStream

LEMMA DeliverStep ==
  ASSUME IInv, Deliver
  PROVE  IInv'
<1>1. /\ TypeOK
      /\ buffer \in Seq(Byte) /\ onTheWay \in Seq(Byte)
      /\ sent \in Seq(Payloads) /\ delivered \in Seq(Payloads)
  BY DEF IInv, TypeOK, Byte
<1>2. PICK F \in [Nat -> Seq(Byte)] : Joins(F, Stream) /\ NothingLost(F)
  BY DEF IInv, WholeStream
<1>3. PICK k \in Nat, n \in Nat : k = Len(delivered) /\ n = Len(sent) /\ k <= n
  BY <1>1, <1>2 DEF NothingLost
<1>4. F[n] = F[k] \o (buffer \o onTheWay)
  BY <1>2, <1>3 DEF NothingLost
<1>5. 2 <= Len(buffer) /\ PacketSize <= Len(buffer)
  BY DEF Deliver, HasPacket, HasHeader, HeaderSize
<1>6. k < n
  <2> SUFFICES ASSUME k = n PROVE FALSE
    BY <1>3
  <2>1. PICK f \in Seq(Byte), x \in Seq(Byte) : f = F[k] /\ x = buffer \o onTheWay /\ 2 <= Len(x)
    <3>1. buffer \o onTheWay \in Seq(Byte) /\ 2 <= Len(buffer \o onTheWay)
      BY <1>1, <1>5
    <3>2. QED
      BY <3>1
  <2>2. f = f \o x
    BY <1>4, <2>1
  <2>3. Len(f \o x) = Len(f) + Len(x) /\ Len(f) \in Nat /\ Len(x) \in Nat
    OBVIOUS
  <2>4. QED
    BY <2>1, <2>2, <2>3
<1>7. PICK p \in Payloads : p = sent[k + 1]
  <2>1. k + 1 \in 1..n
    BY <1>6
  <2>2. QED
    BY <1>1, <1>3, <2>1, StreamType
<1>8. PICK q \in Seq(Byte) : q = Packet(p)
  BY PacketType
<1>9. F[k + 1] = F[k] \o q
  <2>1. k + 1 \in 1..n /\ k \in 0..n - 1
    BY <1>6
  <2>2. Stream[k + 1] = q /\ Len(Stream) = n
    BY <1>1, <1>3, <1>7, <1>8, <2>1, StreamType
  <2>3. QED
    BY <1>2, <2>1, <2>2 DEF Joins
<1>10. PICK r \in Seq(Byte) : F[n] = F[k + 1] \o r
  <2>1. Stream \in Seq(Seq(Byte)) /\ Len(Stream) = n
    BY <1>1, <1>3, StreamType
  <2>2. k + 1 \in 0..Len(Stream)
    BY <1>6, <2>1
  <2>3. Begins(F[k + 1], F[Len(Stream)], Byte)
    BY <1>2, <2>1, <2>2, Beginning
  <2>4. QED
    BY <2>1, <2>3 DEF Begins
<1>11. buffer \o onTheWay = q \o r
  <2>1. PICK f \in Seq(Byte) : f = F[k]
    BY <1>3
  <2>2. Cat(Cat(f, q), r) = Cat(f, Cat(q, r))
    BY Associative
  <2>3. f \o (buffer \o onTheWay) = f \o (q \o r)
    BY <1>4, <1>9, <1>10, <2>1, <2>2, Zenon DEF Cat
  <2>4. buffer \o onTheWay \in Seq(Byte)
    BY <1>1, ConcatProperties
  <2>5. q \o r \in Seq(Byte)
    BY ConcatProperties
  <2>6. PICK x \in Seq(Byte), y \in Seq(Byte) : x = buffer \o onTheWay /\ y = q \o r
    BY <2>4, <2>5, Zenon
  <2>7. f \o x = f \o y
    BY <2>3, <2>6, Zenon
  <2>8. x = y
    BY <2>7, ConcatSimplifications
  <2>9. QED
    BY <2>6, <2>8, Zenon
<1>12. PICK z \in Int : z = buffer[1] + 256 * buffer[2] /\ z = PacketSize /\ z <= Len(buffer)
  <2>1. PICK x \in Byte, y \in Byte : x = buffer[1] /\ y = buffer[2]
    <3>1. PICK b \in Seq(Byte) : b = buffer /\ 2 <= Len(b)
      BY <1>1, <1>5
    <3>2. 1 \in 1..Len(b) /\ 2 \in 1..Len(b)
      BY <3>1
    <3>3. b[1] \in Byte /\ b[2] \in Byte
      BY <3>2, ElementOfSeq
    <3>4. QED
      BY <3>1, <3>3
  <2>2. PICK z \in Int : z = x + 256 * y
    BY DEF Byte
  <2>3. z = PacketSize
    BY <2>1, <2>2 DEF PacketSize
  <2>4. QED
    BY <1>5, <2>1, <2>2, <2>3
<1>13. /\ SubSeq(buffer, 3, z) = p
       /\ SubSeq(buffer, z + 1, Len(buffer)) \in Seq(Byte)
       /\ SubSeq(buffer, z + 1, Len(buffer)) \o onTheWay = r
  <2>1. buffer \o onTheWay = Packet(p) \o r
    BY <1>8, <1>11
  <2>2. PICK b \in Seq(Byte), w \in Seq(Byte) : b = buffer /\ w = onTheWay
    BY <1>1
  <2>3. Complete(p, b, w, r, z)
    BY <1>5, <1>12, <2>1, <2>2, Zenon DEF Complete
  <2>4. Unpacks(p, b, w, r, z)
    BY <2>3, Unpacked
  <2>5. QED
    BY <2>2, <2>4, Zenon DEF Unpacks
<1>14. /\ delivered' = Append(delivered, p)
       /\ buffer' \in Seq(Byte)
       /\ buffer' \o onTheWay = r
       /\ sent' = sent /\ onTheWay' = onTheWay /\ scanning' = scanning
  <2>1. /\ delivered' = Append(delivered, SubSeq(buffer, 2 + 1, z))
        /\ buffer' = SubSeq(buffer, z + 1, Len(buffer))
        /\ sent' = sent /\ onTheWay' = onTheWay /\ scanning' = scanning
    BY <1>12 DEF Deliver, HeaderSize
  <2>2. 2 + 1 = 3
    OBVIOUS
  <2>3. QED
    BY <1>13, <2>1, <2>2
<1>15. /\ delivered' \in Seq(Payloads)
       /\ Len(delivered') = k + 1
       /\ \A i \in 1..k + 1 : delivered'[i] = sent[i]
  <2>1. \A i \in 1..k : delivered[i] = sent[i]
    BY <1>2, <1>3 DEF NothingLost
  <2>2. PICK d \in Seq(Payloads) : d = delivered /\ Len(d) = k
    BY <1>1, <1>3
  <2>3. /\ Append(d, p) \in Seq(Payloads)
        /\ Len(Append(d, p)) = k + 1
        /\ Append(d, p)[k + 1] = p
        /\ \A i \in 1..k : Append(d, p)[i] = d[i]
    <3>1. Append(d, p) \in Seq(Payloads)
      BY AppendProperties
    <3>2. Len(Append(d, p)) = Len(d) + 1
      BY AppendProperties
    <3>3. Append(d, p)[Len(d) + 1] = p
      BY AppendProperties
    <3>4. \A i \in 1..Len(d) : Append(d, p)[i] = d[i]
      BY AppendProperties
    <3>5. QED
      BY <2>2, <3>1, <3>2, <3>3, <3>4, Zenon
  <2>4. delivered' = Append(d, p)
    BY <1>14, <2>2
  <2>5. ASSUME NEW i \in 1..k + 1 PROVE delivered'[i] = sent[i]
    <3>1. CASE i = k + 1
      BY <1>7, <2>3, <2>4, <3>1
    <3>2. CASE i # k + 1
      <4>1. i \in 1..k
        BY <3>2
      <4>2. QED
        BY <2>1, <2>2, <2>3, <2>4, <4>1
    <3>3. QED
      BY <3>1, <3>2
  <2>6. QED
    BY <2>3, <2>4, <2>5
<1>16. TypeOK'
  BY <1>1, <1>14, <1>15 DEF TypeOK, Byte
<1>17. NothingLost(F)'
  <2>1. F[n] = F[k + 1] \o (buffer' \o onTheWay')
    BY <1>10, <1>14
  <2>2. k + 1 <= n
    BY <1>6
  <2>3. QED
    BY <1>3, <1>14, <1>15, <2>1, <2>2 DEF NothingLost
<1>18. Joins(F, Stream')
  BY <1>2, <1>14 DEF Stream
<1>19. QED
  BY <1>16, <1>17, <1>18 DEF IInv, WholeStream

LEMMA OtherStep ==
  ASSUME IInv, Wait \/ UNCHANGED vars
  PROVE  IInv'
<1>1. /\ sent' = sent /\ onTheWay' = onTheWay /\ buffer' = buffer /\ delivered' = delivered
      /\ scanning' \in BOOLEAN
  BY DEF IInv, TypeOK, Wait, vars
<1>2. PICK F \in [Nat -> Seq(Byte)] : Joins(F, Stream) /\ NothingLost(F)
  BY DEF IInv, WholeStream
<1>3. TypeOK'
  BY <1>1 DEF IInv, TypeOK
<1>4. NothingLost(F)'
  BY <1>1, <1>2 DEF NothingLost
<1>5. Joins(F, Stream')
  BY <1>1, <1>2 DEF Stream
<1>6. QED
  BY <1>3, <1>4, <1>5 DEF IInv, WholeStream

LEMMA Invariant == Spec => []IInv
<1>1. IInv /\ [Next]_vars => IInv'
  BY ReceiveStep, DeliverStep, OtherStep DEF Next
<1>2. QED
  BY InitInv, <1>1, PTL DEF Spec

(* Of the framing (TCPSession::ProcessIncomingData): what is kept in the   *)
(* receive buffer are bytes, and what is handed on is a payload of the     *)
(* peer's, never a piece of one or a length read as data.                  *)
THEOREM TypeCorrect == Spec => []TypeOK
<1>1. IInv => TypeOK
  BY DEF IInv
<1>2. QED
  BY Invariant, <1>1, PTL

(* However recv cuts the stream, the payloads handed to OnPacketReceived   *)
(* are the first of those the peer sent, each once and in order.           *)
THEOREM DeliveredInOrder == Spec => []DeliveredAsSent
<1>1. IInv => DeliveredAsSent
  <2> SUFFICES ASSUME IInv PROVE DeliveredAsSent
    OBVIOUS
  <2>1. sent \in Seq(Payloads) /\ delivered \in Seq(Payloads)
    BY DEF IInv, TypeOK
  <2>2. Len(delivered) <= Len(sent) /\ \A i \in 1..Len(delivered) : delivered[i] = sent[i]
    BY DEF IInv, WholeStream, NothingLost
  <2>3. PICK s \in Seq(Payloads), d \in Seq(Payloads) : s = sent /\ d = delivered
    BY <2>1
  <2>4. Len(d) <= Len(s) /\ \A i \in 1..Len(d) : d[i] = s[i]
    BY <2>2, <2>3
  <2>5. SubSeq(d, 1, Len(d)) = SubSeq(s, 1, Len(d))
    BY <2>4
  <2>6. QED
    BY <2>3, <2>4, <2>5 DEF DeliveredAsSent, IsPrefix
<1>2. QED
  BY Invariant, <1>1, PTL
=============================================================================
