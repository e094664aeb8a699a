----------------------------- MODULE BytesProofs -----------------------------
(***************************************************************************)
(* Lemmas about numbers and sequences of bytes that the proofs about       *)
(* Protocol and Blob rest on.                                              *)
(***************************************************************************)
EXTENDS Bytes, SequencesExt, WellFoundedInduction, TLAPS

(* Induction *)

LEMMA LeastNumber ==
  ASSUME NEW T, T \subseteq Nat, T # {}
  PROVE  \E x \in T : \A y \in T : x <= y
<1> DEFINE R == {p \in Nat \X Nat : p[1] < p[2]}
<1>1. IsWellFoundedOn(R, Nat)
  BY NatLessThanWellFounded DEF OpToRel
<1>2. \A x, y \in Nat : y < x => <<y, x>> \in R
  OBVIOUS
<1> HIDE DEF R
<1>3. PICK x \in T : \A y \in T : ~(<<y, x>> \in R)
  BY <1>1, WFMin
<1>4. \A y \in T : ~(y < x)
  BY <1>2, <1>3
<1>5. \A y \in T : x <= y
  BY <1>4
<1> QED
  BY <1>5

\* What holds of 0, and of n + 1 whenever it holds of n, holds up to any bound.
\* A set stands for the property, so that the provers can use it.
LEMMA UpTo ==
  ASSUME NEW N \in Nat, NEW S, 0 \in S, \A n \in 0 .. N - 1 : n \in S => n + 1 \in S
  PROVE  \A n \in 0 .. N : n \in S
<1> DEFINE T == {n \in 0 .. N : n \notin S}
<1> SUFFICES ASSUME T # {} PROVE FALSE
  OBVIOUS
<1>1. T \subseteq Nat
  OBVIOUS
<1>2. PICK x \in T : \A y \in T : x <= y
  BY <1>1, LeastNumber
<1>3. x \in 1 .. N
  BY <1>2
<1>4. x - 1 \in 0 .. N - 1 /\ x - 1 \notin T
  BY <1>2, <1>3
<1>5. x - 1 \in S
  BY <1>4
<1>6. (x - 1) + 1 \in S
  BY <1>4, <1>5
<1> QED
  BY <1>2, <1>3, <1>6

LEMMA BoundedMax ==
  ASSUME NEW T, T \subseteq Nat, T # {}, NEW K \in Nat, \A x \in T : x <= K
  PROVE  Max(T) \in T /\ \A x \in T : x <= Max(T)
<1> DEFINE U == {K - x : x \in T}
<1>1. U \subseteq Nat /\ U # {}
  <2>1. \A x \in T : K - x \in Nat
    OBVIOUS
  <2>2. PICK x \in T : TRUE
    OBVIOUS
  <2>3. K - x \in U
    BY <2>2
  <2> QED
    BY <2>1, <2>3
<1>2. PICK u \in U : \A y \in U : u <= y
  BY <1>1, LeastNumber
<1>3. PICK m \in T : u = K - m
  BY <1>2
<1>4. \A x \in T : m >= x
  <2> SUFFICES ASSUME NEW x \in T PROVE m >= x
    OBVIOUS
  <2>1. K - x \in U
    OBVIOUS
  <2>2. K - m <= K - x
    BY <1>2, <1>3, <2>1
  <2> QED
    BY <2>2
<1>5. \E x \in T : \A y \in T : x >= y
  BY <1>4
<1>6. Max(T) \in T /\ \A y \in T : Max(T) >= y
  BY <1>5 DEF Max
<1> QED
  BY <1>6

-----------------------------------------------------------------------------
(* Numbers of four bytes *)

LEMMA QuarterByByte ==
  ASSUME NEW n \in U32
  PROVE  /\ n \in Nat /\ n \div 16777216 \in 0 .. 255
         /\ n = (n % 256) + 256 * ((n \div 256) % 256)
                + 65536 * ((n \div 65536) % 256) + 16777216 * (n \div 16777216)
         /\ (n \div 16777216) % 256 = n \div 16777216
<1>1. n \in Nat /\ n \div 16777216 \in 0 .. 255
  BY DEF U32, Byte
<1>2. n = (n % 256) + 256 * (n \div 256) /\ n % 256 \in 0 .. 255
  BY <1>1
<1>3. n \div 256 = ((n \div 256) % 256) + 256 * (n \div 65536)
  BY <1>1
<1>4. n \div 65536 = ((n \div 65536) % 256) + 256 * (n \div 16777216)
  BY <1>1
<1>5. (n \div 16777216) % 256 = n \div 16777216
  BY <1>1
<1> QED
  BY <1>1, <1>2, <1>3, <1>4, <1>5

LEMMA Le32Bytes ==
  ASSUME NEW n \in U32
  PROVE  Le32(n) \in Seq(Byte) /\ Len(Le32(n)) = 4
<1>1. \A k \in Nat : k % 256 \in 0 .. 255
  OBVIOUS
<1>2. n \in Nat
  BY DEF U32
<1>3. n \div 256 \in Nat /\ n \div 65536 \in Nat /\ n \div 16777216 \in Nat
  BY <1>2
<1> QED
  BY <1>1, <1>2, <1>3 DEF Le32, Byte

\* read_u32 gives back what to_le_bytes put there.
LEMMA ReadBack ==
  ASSUME NEW n \in U32, NEW bytes, NEW at \in Nat,
         \A j \in 1 .. 4 : bytes[at + j] = Le32(n)[j]
  PROVE  ReadU32(bytes, at) = n
<1>1. /\ bytes[at + 1] = n % 256 /\ bytes[at + 2] = (n \div 256) % 256
      /\ bytes[at + 3] = (n \div 65536) % 256
      /\ bytes[at + 4] = (n \div 16777216) % 256
  BY DEF Le32
<1> QED
  BY <1>1, QuarterByByte DEF ReadU32

LEMMA SignedByte ==
  ASSUME NEW d \in Int, -128 <= d, d < 128
  PROVE  d % 256 \in Byte /\ AsI8(d % 256) = d
<1>1. CASE d < 0
  <2>1. d % 256 = d + 256
    BY <1>1
  <2> QED
    BY <1>1, <2>1 DEF AsI8, Byte
<1>2. CASE d >= 0
  <2>1. d % 256 = d
    BY <1>2
  <2> QED
    BY <1>2, <2>1 DEF AsI8, Byte
<1> QED
  BY <1>1, <1>2

LEMMA Signed == \A d \in -128 .. 127 : AsI8(d % 256) = d
<1> SUFFICES ASSUME NEW d \in -128 .. 127 PROVE AsI8(d % 256) = d
  OBVIOUS
<1> QED
  BY SignedByte

-----------------------------------------------------------------------------
(* Sequences of bytes *)

Sized(s, n) == s \in Seq(Byte) /\ Len(s) = n

\* u is s, of n bytes, followed by t, of m bytes.
Joined(u, s, n, t, m) ==
  /\ Sized(u, n + m)
  /\ \A i \in 1 .. n : u[i] = s[i]
  /\ \A j \in 1 .. m : u[n + j] = t[j]

LEMMA JoinedSeqs ==
  ASSUME NEW s \in Seq(Byte), NEW t \in Seq(Byte)
  PROVE  /\ s \o t \in Seq(Byte) /\ Len(s \o t) = Len(s) + Len(t)
         /\ \A i \in 1 .. Len(s) : (s \o t)[i] = s[i]
         /\ \A j \in 1 .. Len(t) : (s \o t)[Len(s) + j] = t[j]
<1>1. s \o t \in Seq(Byte)
  OBVIOUS
<1>2. Len(s \o t) = Len(s) + Len(t)
  OBVIOUS
<1>3. \A i \in 1 .. Len(s) : (s \o t)[i] = s[i]
  OBVIOUS
<1>4. \A j \in 1 .. Len(t) : (s \o t)[Len(s) + j] = t[j]
  OBVIOUS
<1> QED
  BY <1>1, <1>2, <1>3, <1>4

LEMMA JoinedBytes ==
  ASSUME NEW n \in Nat, NEW m \in Nat, NEW s, NEW t, Sized(s, n), Sized(t, m)
  PROVE  Joined(s \o t, s, n, t, m)
<1>1. s \in Seq(Byte) /\ t \in Seq(Byte) /\ Len(s) = n /\ Len(t) = m
  BY DEF Sized
<1>2. s \o t \in Seq(Byte)
  BY <1>1
<1>3. Len(s \o t) = n + m
  BY <1>1
<1>4. \A i \in 1 .. n : (s \o t)[i] = s[i]
  BY <1>1
<1>5. \A j \in 1 .. m : (s \o t)[n + j] = t[j]
  BY <1>1
<1> QED
  BY <1>2, <1>3, <1>4, <1>5 DEF Joined, Sized

LEMMA Le32Sized ==
  ASSUME NEW n \in U32
  PROVE  Sized(Le32(n), 4)
  BY Le32Bytes DEF Sized

\* What follows the first part is the second.
LEMMA JoinedRest ==
  ASSUME NEW n \in Nat, NEW m \in Nat, NEW u, NEW s, NEW t, Sized(t, m),
         Joined(u, s, n, t, m)
  PROVE  SubSeq(u, n + 1, n + m) = t /\ From(u, n) = t
<1>1. u \in Seq(Byte) /\ Len(u) = n + m /\ t \in Seq(Byte) /\ Len(t) = m
  BY DEF Joined, Sized
<1> DEFINE rest == SubSeq(u, n + 1, n + m)
<1>2. rest \in Seq(Byte) /\ Len(rest) = m
  BY <1>1
<1>3. \A j \in 1 .. m : rest[j] = u[n + j]
  BY <1>1
<1> HIDE DEF rest
<1>4. \A j \in 1 .. m : rest[j] = t[j]
  BY <1>3 DEF Joined
<1>5. rest = t
  BY <1>1, <1>2, <1>4
<1> QED
  BY <1>1, <1>5 DEF rest, From

LEMMA IntBytes ==
  ASSUME NEW x \in Int
  PROVE  Sized(Le32(x), 4)
<1>1. \A k \in Int : k % 256 \in 0 .. 255
  OBVIOUS
<1>2. x \div 256 \in Int /\ x \div 65536 \in Int /\ x \div 16777216 \in Int
  OBVIOUS
<1> QED
  BY <1>1, <1>2 DEF Le32, Byte, Sized

SameEitherWay(s, t, r) == (s \o t) \o r = s \o (t \o r)

LEMMA SameBytes ==
  ASSUME NEW n \in Nat, NEW s, NEW t, Sized(s, n), Sized(t, n),
         \A i \in 1 .. n : s[i] = t[i]
  PROVE  s = t
  BY DEF Sized

LEMMA ThreeParts ==
  ASSUME NEW n \in Nat, NEW m \in Nat, NEW k \in Nat, NEW s, NEW t, NEW r,
         Sized(s, n), Sized(t, m), Sized(r, k)
  PROVE  SameEitherWay(s, t, r)
<1> DEFINE st == s \o t
           tr == t \o r
           u == st \o r
           v == s \o tr
<1>1. Joined(st, s, n, t, m) /\ Joined(tr, t, m, r, k)
  BY JoinedBytes
<1> HIDE DEF st, tr
<1>2. Sized(st, n + m) /\ Sized(tr, m + k) /\ n + m \in Nat /\ m + k \in Nat
  BY <1>1 DEF Joined
<1>3. Joined(u, st, n + m, r, k) /\ Joined(v, s, n, tr, m + k)
  BY <1>2, JoinedBytes
<1> HIDE DEF u, v
<1>4. Sized(u, n + m + k) /\ Sized(v, n + m + k) /\ n + m + k \in Nat
  <2>1. n + (m + k) = n + m + k /\ n + m + k \in Nat
    OBVIOUS
  <2>2. Sized(u, n + m + k) /\ Sized(v, n + (m + k))
    BY <1>3 DEF Joined
  <2> QED
    BY <2>1, <2>2
<1>5. ASSUME NEW i \in 1 .. n + m + k
      PROVE  u[i] = v[i]
  <2>1. CASE i \in 1 .. n
    BY <1>1, <1>3, <2>1 DEF Joined
  <2>2. CASE i \in n + 1 .. n + m
    <3>1. i - n \in 1 .. m /\ i - n \in 1 .. m + k /\ i \in 1 .. n + m /\ i = n + (i - n)
      BY <2>2
    <3>2. u[i] = st[i] /\ st[n + (i - n)] = t[i - n]
      BY <1>1, <1>3, <3>1 DEF Joined
    <3>3. v[n + (i - n)] = tr[i - n] /\ tr[i - n] = t[i - n]
      BY <1>1, <1>3, <3>1 DEF Joined
    <3> QED
      BY <3>1, <3>2, <3>3
  <2>3. CASE i \in n + m + 1 .. n + m + k
    <3> DEFINE j == i - (n + m)
    <3>1. j \in 1 .. k /\ i - n \in 1 .. m + k /\ i = (n + m) + j /\ i = n + (i - n)
          /\ i - n = m + j
      BY <2>3
    <3> HIDE DEF j
    <3>2. u[(n + m) + j] = r[j]
      BY <1>3, <3>1 DEF Joined
    <3>3. v[n + (i - n)] = tr[i - n] /\ tr[m + j] = r[j]
      BY <1>1, <1>3, <3>1 DEF Joined
    <3> QED
      BY <3>1, <3>2, <3>3
  <2> QED
    BY <2>1, <2>2, <2>3
<1>6. u = v
  BY <1>4, <1>5, SameBytes
<1> QED
  BY <1>6 DEF u, v, st, tr, SameEitherWay

LEMMA CutBytes ==
  ASSUME NEW n \in Nat, NEW s, Sized(s, n), NEW k \in 0 .. n
  PROVE  Sized(Cut(s, k), k) /\ \A i \in 1 .. k : Cut(s, k)[i] = s[i]
<1>1. s \in Seq(Byte) /\ Len(s) = n
  BY DEF Sized
<1>2. Cut(s, k) \in Seq(Byte) /\ Len(Cut(s, k)) = k
  BY <1>1 DEF Cut
<1>3. \A i \in 1 .. k : Cut(s, k)[i] = s[i]
  BY <1>1 DEF Cut
<1> QED
  BY <1>2, <1>3 DEF Sized

\* All but the last of seqs have four elements.
Fours(seqs) ==
  /\ seqs \in Seq(Seq(Byte))
  /\ \A i \in 1 .. Len(seqs) - 1 : Len(seqs[i]) = 4

\* f is the first n of seqs, one after the other.
FlattenedTo(f, seqs, n) ==
  /\ f \in Seq(Byte) /\ Len(f) = 4 * (n - 1) + Len(seqs[n])
  /\ \A i \in 1 .. n : \A j \in 1 .. Len(seqs[i]) : f[4 * (i - 1) + j] = seqs[i][j]

LEMMA FlattenStep ==
  ASSUME NEW seqs, Fours(seqs), NEW n \in 1 .. Len(seqs) - 1, NEW f,
         FlattenedTo(f, seqs, n)
  PROVE  FlattenedTo(f \o seqs[n + 1], seqs, n + 1)
<1> DEFINE t == seqs[n + 1]
           g == f \o t
<1>1. Len(seqs) \in Nat /\ n \in Nat /\ n + 1 \in 1 .. Len(seqs)
  BY DEF Fours
<1>2. t \in Seq(Byte) /\ f \in Seq(Byte) /\ Len(f) = 4 * n
  <2>1. t \in Seq(Byte)
    BY <1>1 DEF Fours
  <2>2. Len(seqs[n]) = 4
    BY <1>1 DEF Fours
  <2>3. f \in Seq(Byte) /\ Len(f) = 4 * (n - 1) + Len(seqs[n])
    BY DEF FlattenedTo
  <2> QED
    BY <1>1, <2>1, <2>2, <2>3
<1> HIDE DEF t
<1>3. g \in Seq(Byte) /\ Len(g) = 4 * n + Len(t)
  BY <1>2, JoinedSeqs
<1>4. \A k \in 1 .. 4 * n : g[k] = f[k]
  BY <1>2, JoinedSeqs
<1>50. \A j \in 1 .. Len(t) : g[Len(f) + j] = t[j]
  BY <1>2, JoinedSeqs
<1> HIDE DEF g
<1>5. \A j \in 1 .. Len(t) : g[4 * n + j] = t[j]
  BY <1>2, <1>50
<1>6. ASSUME NEW i \in 1 .. n + 1, NEW j \in 1 .. Len(seqs[i])
      PROVE  g[4 * (i - 1) + j] = seqs[i][j]
  <2>1. CASE i = n + 1
    BY <1>1, <1>5, <2>1 DEF t
  <2>2. CASE i <= n
    <3>1. i \in 1 .. n /\ Len(seqs[i]) = 4
      BY <1>1, <2>2 DEF Fours
    <3>2. 4 * (i - 1) + j \in 1 .. 4 * n
      BY <1>1, <3>1
    <3> QED
      BY <1>4, <3>1, <3>2 DEF FlattenedTo
  <2> QED
    BY <1>1, <2>1, <2>2
<1>7. Len(g) = 4 * ((n + 1) - 1) + Len(seqs[n + 1])
  BY <1>1, <1>3 DEF t
<1>8. FlattenedTo(g, seqs, n + 1)
  BY <1>3, <1>6, <1>7 DEF FlattenedTo
<1> QED
  BY <1>8 DEF g, t

\* FlattenSeq puts its sequences one after the other.
LEMMA Flattened ==
  ASSUME NEW seqs, Fours(seqs), seqs # <<>>
  PROVE  FlattenedTo(FlattenSeq(seqs), seqs, Len(seqs))
<1> DEFINE N == Len(seqs)
           Step(f) == [i \in 1 .. N |->
                         IF i = 1 THEN seqs[i] ELSE f[i - 1] \o seqs[i]]
           Runs(f, n) ==
             /\ f \in [1 .. N -> Seq(Byte)]
             /\ \A i \in 1 .. n : f[i] = IF i = 1 THEN seqs[i] ELSE f[i - 1] \o seqs[i]
           S == {n \in 0 .. N : \E f : Runs(f, n)}
<1>1. N \in Nat /\ N >= 1 /\ \A i \in 1 .. N : seqs[i] \in Seq(Byte)
  BY DEF Fours
<1> HIDE DEF N, Runs
<1>2. 0 \in S
  <2>1. Runs([i \in 1 .. N |-> <<>>], 0)
    BY <1>1 DEF Runs
  <2>2. \E f : Runs(f, 0)
    BY <2>1
  <2> QED
    BY <1>1, <2>2
<1>3. ASSUME NEW n \in 0 .. N - 1, n \in S PROVE n + 1 \in S
  <2>1. PICK f : Runs(f, n)
    BY <1>3
  <2> DEFINE v == IF n + 1 = 1 THEN seqs[n + 1] ELSE f[n] \o seqs[n + 1]
             g == [f EXCEPT ![n + 1] = v]
  <2>2. n \in Nat /\ n + 1 \in 1 .. N /\ (n + 1 # 1 => n \in 1 .. N)
    BY <1>1, <1>3
  <2>3. v \in Seq(Byte)
    BY <1>1, <2>1, <2>2 DEF Runs
  <2> HIDE DEF v
  <2>4. g \in [1 .. N -> Seq(Byte)] /\ g[n + 1] = v
        /\ \A i \in 1 .. n : g[i] = f[i]
    BY <2>1, <2>2, <2>3 DEF Runs
  <2> HIDE DEF g
  <2>5. v = IF n + 1 = 1 THEN seqs[n + 1] ELSE g[n] \o seqs[n + 1]
    BY <2>2, <2>4 DEF v
  <2>6. ASSUME NEW i \in 1 .. n + 1
        PROVE  g[i] = IF i = 1 THEN seqs[i] ELSE g[i - 1] \o seqs[i]
    <3>1. CASE i = n + 1
      BY <2>2, <2>4, <2>5, <3>1
    <3>2. CASE i \in 1 .. n
      <4>1. i # 1 => i - 1 \in 1 .. n
        BY <2>2, <3>2
      <4> QED
        BY <2>1, <2>4, <3>2, <4>1 DEF Runs
    <3> QED
      BY <2>2, <3>1, <3>2
  <2>7. Runs(g, n + 1)
    BY <2>4, <2>6 DEF Runs
  <2>8. \E h : Runs(h, n + 1)
    BY <2>7
  <2> QED
    BY <1>1, <2>2, <2>8
<1>4. N \in S
  <2>1. \A n \in 0 .. N : n \in S
    BY <1>1, <1>2, <1>3, UpTo
  <2> QED
    BY <1>1, <2>1
<1>5. PICK f : Runs(f, N)
  BY <1>4
<1>6. f = Step(f)
  BY <1>5 DEF Runs
<1> DEFINE F == CHOOSE g : g = Step(g)
<1>7. F = Step(F)
  BY <1>6
<1>8. FlattenSeq(seqs) = F[N]
  BY <1>1 DEF FlattenSeq, N
<1> HIDE DEF F
<1> DEFINE Good == {n \in 0 .. N : n = 0 \/ FlattenedTo(F[n], seqs, n)}
<1>9. 0 \in Good
  BY <1>1
<1>10. ASSUME NEW n \in 0 .. N - 1, n \in Good PROVE n + 1 \in Good
  <2>1. n + 1 \in 1 .. N /\ n \in Nat
    BY <1>1, <1>10
  <2>2. F[n + 1] = IF n + 1 = 1 THEN seqs[n + 1] ELSE F[(n + 1) - 1] \o seqs[n + 1]
    BY <1>7, <2>1
  <2>3. CASE n = 0
    <3>1. F[1] = seqs[1] /\ seqs[1] \in Seq(Byte)
      BY <1>1, <2>2, <2>3
    <3>2. FlattenedTo(seqs[1], seqs, 1)
      BY <3>1 DEF FlattenedTo
    <3> QED
      BY <2>1, <2>3, <3>1, <3>2
  <2>4. CASE n # 0
    <3>1. F[n + 1] = F[n] \o seqs[n + 1]
      <4>1. n + 1 # 1 /\ (n + 1) - 1 = n
        BY <2>1, <2>4
      <4> QED
        BY <2>2, <4>1, Zenon
    <3>2. FlattenedTo(F[n], seqs, n) /\ n \in 1 .. Len(seqs) - 1
      BY <1>10, <2>1, <2>4 DEF N
    <3>3. FlattenedTo(F[n + 1], seqs, n + 1)
      BY <3>1, <3>2, FlattenStep
    <3> QED
      BY <2>1, <3>3
  <2> QED
    BY <2>3, <2>4
<1>11. N \in Good
  <2>1. \A n \in 0 .. N : n \in Good
    BY <1>1, <1>9, <1>10, UpTo
  <2> QED
    BY <1>1, <2>1
<1> QED
  BY <1>1, <1>8, <1>11 DEF N

\* A fourth byte of zeros adds nothing.
LEMMA Widened ==
  ASSUME NEW low, Sized(low, 3)
  PROVE  ReadU32(low \o <<0>>, 0) = low[1] + 256 * low[2] + 65536 * low[3]
<1> DEFINE zero == <<0>>
           u == low \o zero
<1>1. Sized(zero, 1) /\ zero[1] = 0
  BY DEF Sized, Byte
<1> HIDE DEF zero
<1>2. Joined(u, low, 3, zero, 1)
  BY <1>1, JoinedBytes
<1> HIDE DEF u
<1>3. u[0 + 1] = low[1] /\ u[0 + 2] = low[2] /\ u[0 + 3] = low[3]
  BY <1>2 DEF Joined
<1>4. u[3 + 1] = zero[1]
  BY <1>2 DEF Joined
<1>5. low[1] \in Int /\ low[2] \in Int /\ low[3] \in Int /\ u[0 + 4] = 0
  <2>1. \A i \in 1 .. 3 : low[i] \in Byte
    BY DEF Sized
  <2> QED
    BY <1>1, <1>4, <2>1 DEF Byte
<1>6. ReadU32(u, 0) = low[1] + 256 * low[2] + 65536 * low[3]
  BY <1>3, <1>5 DEF ReadU32
<1> QED
  BY <1>6 DEF u, zero
==============================================================================
