----------------------------- MODULE PasteProofs -----------------------------
(***************************************************************************)
(* What a pasted blob is read as: base64url gives back every description,  *)
(* whatever is put between its letters, and of a blob that was cut a       *)
(* beginning of it.                                                        *)
(***************************************************************************)
EXTENDS Paste, BytesProofs

-----------------------------------------------------------------------------
(* The decoder *)

Acc == {n \in Nat : n < 16777216}
State == [acc : Acc, bits : {0, 2, 4, 6}, out : Seq(Byte)]
Start == [acc |-> 0, bits |-> 0, out |-> <<>>]

LEMMA StartIsState == Start \in State
  <1>1. 0 \in Acc
  BY SMT DEF Acc
<1> QED
  BY <1>1 DEF Start, State

LEMMA CharNat ==
  /\ \A ch \in Char : ch \in Nat /\ ch \in Byte
  /\ Letter \cup Ignored \subseteq Char
  BY DEF Char, Byte, Letter, Ignored, Space, Padding

LEMMA IgnoredChar ==
  ASSUME NEW state, NEW ch \in Ignored
  PROVE  Decoded(state, ch) = state
  BY DEF Decoded

LEMMA ShiftedAcc ==
  ASSUME NEW acc \in Acc, NEW ch \in Nat
  PROVE  Shifted(acc, ch) \in Acc /\ Shifted(acc, ch) \in Nat
  BY SMT DEF Acc, Shifted

\* What a letter does, by the bits that were left over.
LetterStep(s, ch, next) ==
  /\ next \in State /\ next.acc \in Nat /\ next.acc = Shifted(s.acc, ch)
  /\ s.bits = 0 => next.bits = 6 /\ next.out = s.out
  /\ s.bits = 6 => next.bits = 4 /\ next.out = Append(s.out, (next.acc \div 16) % 256)
  /\ s.bits = 4 => next.bits = 2 /\ next.out = Append(s.out, (next.acc \div 4) % 256)
  /\ s.bits = 2 => next.bits = 0 /\ next.out = Append(s.out, next.acc % 256)

LEMMA DecodedLetter ==
  ASSUME NEW s \in State, NEW ch \in Nat, ch \notin Ignored
  PROVE  LetterStep(s, ch, Decoded(s, ch))
<1> DEFINE acc == Shifted(s.acc, ch)
           next == Decoded(s, ch)
           out == s.out
<1>1. acc \in Acc /\ acc \in Nat
  BY ShiftedAcc DEF State
<1>2. s.bits \in {0, 2, 4, 6} /\ out \in Seq(Byte)
  BY DEF State
<1> SUFFICES LetterStep(s, ch, next)
  OBVIOUS
<1>3. next = Taken(acc, s.bits + 6, out)
  BY DEF Decoded
<1> HIDE DEF acc, next, out
<1>40. LetterStep(s, ch, next) <=>
         /\ next \in State /\ next.acc \in Nat /\ next.acc = acc
         /\ s.bits = 0 => next.bits = 6 /\ next.out = out
         /\ s.bits = 6 => next.bits = 4 /\ next.out = Append(out, (next.acc \div 16) % 256)
         /\ s.bits = 4 => next.bits = 2 /\ next.out = Append(out, (next.acc \div 4) % 256)
         /\ s.bits = 2 => next.bits = 0 /\ next.out = Append(out, next.acc % 256)
  BY DEF LetterStep, acc, out
<1>4. /\ (acc \div 16) % 256 \in Byte /\ (acc \div 4) % 256 \in Byte
      /\ acc % 256 \in Byte /\ acc \div 1 = acc
  BY <1>1 DEF Byte
<1>5. CASE s.bits = 0
  <2>1. next = Taken(acc, 6, out)
    BY <1>3, <1>5
  <2>2. next = [acc |-> acc, bits |-> 6, out |-> out]
    BY <2>1 DEF Taken
  <2> QED
    BY <1>1, <1>2, <1>40, <1>5, <2>2 DEF State
<1>6. CASE s.bits = 6
  <2>1. next = Taken(acc, 12, out)
    BY <1>3, <1>6
  <2>2. 2 ^ 4 = 16 /\ 12 - 8 = 4
    OBVIOUS
  <2>3. next = [acc |-> acc, bits |-> 4, out |-> Append(out, (acc \div 2 ^ 4) % 256)]
    BY <2>1, <2>2 DEF Taken
  <2>4. next = [acc |-> acc, bits |-> 4, out |-> Append(out, (acc \div 16) % 256)]
    BY <2>2, <2>3
  <2> QED
    BY <1>1, <1>2, <1>40, <1>4, <1>6, <2>4 DEF State
<1>7. CASE s.bits = 4
  <2>1. next = Taken(acc, 10, out)
    BY <1>3, <1>7
  <2>2. 2 ^ 2 = 4 /\ 10 - 8 = 2
    OBVIOUS
  <2>3. next = [acc |-> acc, bits |-> 2, out |-> Append(out, (acc \div 2 ^ 2) % 256)]
    BY <2>1, <2>2 DEF Taken
  <2>4. next = [acc |-> acc, bits |-> 2, out |-> Append(out, (acc \div 4) % 256)]
    BY <2>2, <2>3
  <2> QED
    BY <1>1, <1>2, <1>40, <1>4, <1>7, <2>4 DEF State
<1>8. CASE s.bits = 2
  <2>1. next = Taken(acc, 8, out)
    BY <1>3, <1>8
  <2>2. 2 ^ 0 = 1 /\ 8 - 8 = 0
    OBVIOUS
  <2>3. next = [acc |-> acc, bits |-> 0, out |-> Append(out, (acc \div 2 ^ 0) % 256)]
    BY <2>1, <2>2 DEF Taken
  <2>4. next = [acc |-> acc, bits |-> 0, out |-> Append(out, acc % 256)]
    BY <1>4, <2>2, <2>3
  <2> QED
    BY <1>1, <1>2, <1>40, <1>4, <1>8, <2>4 DEF State
<1> QED
  BY <1>2, <1>5, <1>6, <1>7, <1>8

LEMMA DecodedState ==
  ASSUME NEW s \in State, NEW ch \in Char
  PROVE  Decoded(s, ch) \in State
<1>1. CASE ch \in Ignored
  BY <1>1, IgnoredChar
<1>2. CASE ch \notin Ignored
  BY <1>2, CharNat, DecodedLetter DEF LetterStep
<1> QED
  BY <1>1, <1>2

\* What the recursion of Runs says.
IsRun(f, text, n) ==
  f[n] = IF n = 0 THEN Start ELSE Decoded(f[n - 1], text[n])

LEMMA RunsAre ==
  ASSUME NEW text \in Seq(Char)
  PROVE  /\ Runs(text) \in [0 .. Len(text) -> State]
         /\ \A n \in 0 .. Len(text) : IsRun(Runs(text), text, n)
<1> DEFINE N == Len(text)
           Step(f) == [n \in 0 .. N |->
                         IF n = 0 THEN Start ELSE Decoded(f[n - 1], text[n])]
           UpToN(f, n) ==
             f \in [0 .. N -> State] /\ \A i \in 0 .. n : IsRun(f, text, i)
           S == {n \in 0 .. N : \E f : UpToN(f, n)}
<1>1. N \in Nat /\ \A n \in 1 .. N : text[n] \in Char
  OBVIOUS
<1> HIDE DEF N, UpToN
<1>2. 0 \in S
  <2>1. UpToN([n \in 0 .. N |-> Start], 0)
    BY <1>1, StartIsState DEF UpToN, IsRun
  <2>2. \E f : UpToN(f, 0)
    BY <2>1
  <2> QED
    BY <1>1, <2>2
<1>3. ASSUME NEW n \in 0 .. N - 1, n \in S PROVE n + 1 \in S
  <2>1. PICK f : UpToN(f, n)
    BY <1>3
  <2> DEFINE v == Decoded(f[n], text[n + 1])
             g == [f EXCEPT ![n + 1] = v]
  <2>2. n \in Nat /\ n \in 0 .. N /\ n + 1 \in 0 .. N /\ n + 1 \in 1 .. N
        /\ n + 1 # 0 /\ (n + 1) - 1 = n
    BY <1>1, <1>3
  <2>3. v \in State /\ f \in [0 .. N -> State]
    BY <1>1, <2>1, <2>2, DecodedState DEF UpToN
  <2> HIDE DEF v
  <2>4. g \in [0 .. N -> State] /\ g[n + 1] = v /\ \A i \in 0 .. n : g[i] = f[i]
    BY <2>2, <2>3
  <2> HIDE DEF g
  <2>5. IsRun(g, text, n + 1)
    <3>1. g[n] = f[n]
      BY <2>2, <2>4
    <3>2. g[n + 1] = Decoded(g[(n + 1) - 1], text[n + 1])
      BY <2>2, <2>4, <3>1 DEF v
    <3> QED
      BY <2>2, <3>2 DEF IsRun
  <2>6. ASSUME NEW i \in 0 .. n
        PROVE  IsRun(g, text, i)
    <3>1. IsRun(f, text, i)
      BY <2>1 DEF UpToN
    <3>2. g[i] = f[i] /\ (i # 0 => g[i - 1] = f[i - 1])
      BY <2>2, <2>4
    <3> QED
      BY <3>1, <3>2 DEF IsRun
  <2>7. \A i \in 0 .. n + 1 : i \in 0 .. n \/ i = n + 1
    BY <2>2
  <2>8. UpToN(g, n + 1)
    BY <2>4, <2>5, <2>6, <2>7 DEF UpToN
  <2>9. \E h : UpToN(h, n + 1)
    BY <2>8
  <2> QED
    BY <2>2, <2>9
<1>4. N \in S
  <2>1. \A n \in 0 .. N : n \in S
    BY <1>1, <1>2, <1>3, UpTo
  <2> QED
    BY <1>1, <2>1
<1>5. PICK f : UpToN(f, N)
  BY <1>4
<1>6. f = Step(f)
  BY <1>5 DEF UpToN, IsRun
<1> DEFINE F == CHOOSE g : g = Step(g)
<1>7. F = Step(F)
  BY <1>6
<1>8. Runs(text) = F
  BY DEF Runs, N, Start
<1> HIDE DEF F
<1>9. ASSUME NEW n \in 0 .. N
      PROVE  IsRun(F, text, n)
  BY <1>7 DEF IsRun
<1> DEFINE Good == {n \in 0 .. N : F[n] \in State}
<1>10. 0 \in Good
  <2>1. 0 \in 0 .. N
    BY <1>1
  <2> QED
    BY <1>9, <2>1, StartIsState DEF IsRun
<1>11. ASSUME NEW n \in 0 .. N - 1, n \in Good PROVE n + 1 \in Good
  <2>1. n + 1 \in 0 .. N /\ n + 1 \in 1 .. N /\ n + 1 # 0 /\ (n + 1) - 1 = n
    BY <1>1, <1>11
  <2>2. F[n + 1] = Decoded(F[n], text[n + 1])
    BY <1>9, <2>1 DEF IsRun
  <2> QED
    BY <1>1, <1>11, <2>1, <2>2, DecodedState
<1>12. \A n \in 0 .. N : F[n] \in State
  <2>1. \A n \in 0 .. N : n \in Good
    BY <1>1, <1>10, <1>11, UpTo
  <2> QED
    BY <2>1
<1>13. F \in [0 .. N -> State]
  BY <1>7, <1>12
<1> QED
  BY <1>8, <1>9, <1>13 DEF N

Out(text, n) == Runs(text)[n].out

LEMMA RunStep ==
  ASSUME NEW text \in Seq(Char), NEW n \in Nat, n < Len(text)
  PROVE  Runs(text)[n + 1] = Decoded(Runs(text)[n], text[n + 1])
<1>1. n + 1 \in 0 .. Len(text) /\ n + 1 # 0 /\ (n + 1) - 1 = n
  OBVIOUS
<1>2. IsRun(Runs(text), text, n + 1)
  BY <1>1, RunsAre
<1> QED
  BY <1>1, <1>2 DEF IsRun

LEMMA RunStart ==
  ASSUME NEW text \in Seq(Char)
  PROVE  Runs(text)[0] = Start
<1>1. 0 \in 0 .. Len(text)
  OBVIOUS
<1>2. IsRun(Runs(text), text, 0)
  BY <1>1, RunsAre
<1> QED
  BY <1>2 DEF IsRun

LEMMA RunState ==
  ASSUME NEW text \in Seq(Char), NEW n \in 0 .. Len(text)
  PROVE  Runs(text)[n] \in State
  BY RunsAre

SameText(s, a, t, b, K) ==
  a + K <= Len(s) /\ b + K <= Len(t) /\ \A j \in 1 .. K : s[a + j] = t[b + j]

SameStates(s, a, t, b, K) == \A k \in 0 .. K : Runs(s)[a + k] = Runs(t)[b + k]

\* Where two texts have the same characters, from the same state the decoder
\* passes the same states.
LEMMA SameRun ==
  ASSUME NEW s \in Seq(Char), NEW t \in Seq(Char), NEW a \in Nat, NEW b \in Nat,
         NEW K \in Nat, SameText(s, a, t, b, K), Runs(s)[a] = Runs(t)[b]
  PROVE  SameStates(s, a, t, b, K)
<1>0. a + K <= Len(s) /\ b + K <= Len(t) /\ \A j \in 1 .. K : s[a + j] = t[b + j]
  BY DEF SameText
<1> DEFINE Same == {k \in 0 .. K : Runs(s)[a + k] = Runs(t)[b + k]}
<1>1. 0 \in Same
  <2>1. 0 \in 0 .. K /\ a + 0 = a /\ b + 0 = b
    OBVIOUS
  <2> QED
    BY <2>1
<1>2. ASSUME NEW k \in 0 .. K - 1, k \in Same PROVE k + 1 \in Same
  <2>1. /\ a + k \in Nat /\ b + k \in Nat /\ a + k < Len(s) /\ b + k < Len(t)
        /\ k + 1 \in 0 .. K /\ k + 1 \in 1 .. K
        /\ a + (k + 1) = (a + k) + 1 /\ b + (k + 1) = (b + k) + 1
    BY <1>0
  <2>2. /\ Runs(s)[(a + k) + 1] = Decoded(Runs(s)[a + k], s[(a + k) + 1])
        /\ Runs(t)[(b + k) + 1] = Decoded(Runs(t)[b + k], t[(b + k) + 1])
    BY <2>1, RunStep
  <2>3. s[(a + k) + 1] = t[(b + k) + 1]
    <3>1. s[a + (k + 1)] = t[b + (k + 1)]
      BY <1>0, <2>1
    <3> QED
      BY <2>1, <3>1
  <2>4. Runs(s)[a + k] = Runs(t)[b + k]
    BY <1>2
  <2>5. Runs(s)[a + (k + 1)] = Runs(t)[b + (k + 1)]
    BY <2>1, <2>2, <2>3, <2>4
  <2> QED
    BY <2>1, <2>5
<1> HIDE DEF Same
<1>3. \A k \in 0 .. K : k \in Same
  BY <1>1, <1>2, UpTo
<1> QED
  BY <1>3 DEF Same, SameStates

AllIgnored(t, a, K) ==
  a + K <= Len(t) /\ \A j \in 1 .. K : t[a + j] \in Ignored

\* What is passed over changes nothing.
LEMMA IgnoredRun ==
  ASSUME NEW t \in Seq(Char), NEW a \in Nat, NEW K \in Nat, AllIgnored(t, a, K)
  PROVE  Runs(t)[a + K] = Runs(t)[a]
<1>0. a + K <= Len(t) /\ \A j \in 1 .. K : t[a + j] \in Ignored
  BY DEF AllIgnored
<1> DEFINE Same == {k \in 0 .. K : Runs(t)[a + k] = Runs(t)[a]}
<1>1. 0 \in Same
  <2>1. 0 \in 0 .. K /\ a + 0 = a
    OBVIOUS
  <2> QED
    BY <2>1
<1>2. ASSUME NEW k \in 0 .. K - 1, k \in Same PROVE k + 1 \in Same
  <2>1. /\ a + k \in Nat /\ a + k < Len(t) /\ k + 1 \in 0 .. K /\ k + 1 \in 1 .. K
        /\ a + (k + 1) = (a + k) + 1
    BY <1>0
  <2>2. Runs(t)[(a + k) + 1] = Decoded(Runs(t)[a + k], t[(a + k) + 1])
    BY <2>1, RunStep
  <2>3. t[(a + k) + 1] \in Ignored
    <3>1. t[a + (k + 1)] \in Ignored
      BY <1>0, <2>1
    <3> QED
      BY <2>1, <3>1
  <2>4. Runs(t)[a + (k + 1)] = Runs(t)[a]
    BY <1>2, <2>1, <2>2, <2>3, IgnoredChar
  <2> QED
    BY <2>1, <2>4
<1> HIDE DEF Same
<1>3. \A k \in 0 .. K : k \in Same
  BY <1>1, <1>2, UpTo
<1>4. K \in Same
  BY <1>3
<1> QED
  BY <1>4 DEF Same

-----------------------------------------------------------------------------
(* What a letter leaves of the bits before it *)

LEMMA ShiftedLow ==
  ASSUME NEW a \in Nat, NEW l \in Letter
  PROVE  /\ Shifted(a, l) % 4096 = 64 * (a % 64) + l
         /\ Shifted(a, l) % 1024 = 64 * (a % 16) + l
         /\ Shifted(a, l) % 256 = 64 * (a % 4) + l
<1>1. l \in 0 .. 63
  BY SMT DEF Letter
<1>2. Shifted(a, l) = (64 * a + l) % 16777216
  BY <1>1, SMT DEF Shifted
<1> DEFINE x == 64 * a + l
           q == x \div 16777216
<1>3. x \in Nat
  BY <1>1, SMT
<1> HIDE DEF x
<1>40. q \in Nat /\ Shifted(a, l) = x - 16777216 * q
  <2>1. Shifted(a, l) = x % 16777216
    BY <1>2, SMT DEF x
  <2> QED
    BY <1>3, <2>1, SMT
<1> HIDE DEF q
<1>4. Shifted(a, l) \in Nat
  BY <1>2, <1>3, SMT DEF x
<1> DEFINE s == Shifted(a, l)
<1> HIDE DEF s
<1>5. s \in Nat /\ q \in Nat /\ s = 64 * a + l - 16777216 * q
  <2>1. s \in Nat /\ s = x - 16777216 * q
    BY <1>4, <1>40, SMT DEF s
  <2>2. x = 64 * a + l
    BY SMT DEF x
  <2> QED
    BY <1>1, <1>40, <2>1, <2>2, SMT
<1>6. s % 4096 = 64 * (a % 64) + l
  BY <1>1, <1>5, SMT
<1>7. s % 1024 = 64 * (a % 16) + l
  BY <1>1, <1>5, SMT
<1>8. s % 256 = 64 * (a % 4) + l
  BY <1>1, <1>5, SMT
<1> QED
  BY <1>6, <1>7, <1>8, SMT DEF s

\* The four letters of three bytes.
Letters(x, y, z) ==
  <<x \div 4, 16 * (x % 4) + (y \div 16), 4 * (y % 16) + (z \div 64), z % 64>>

LetterOf(x, y, z, i) == ((65536 * x + 256 * y + z) \div 64 ^ (4 - i)) % 64

LEMMA LettersAre ==
  ASSUME NEW x \in Byte, NEW y \in Byte, NEW z \in Byte
  PROVE  \A i \in 1 .. 4 : /\ LetterOf(x, y, z, i) = Letters(x, y, z)[i]
                           /\ Letters(x, y, z)[i] \in Letter
<1>1. x \in 0 .. 255 /\ y \in 0 .. 255 /\ z \in 0 .. 255
  BY SMT DEF Byte
<1> DEFINE t == 65536 * x + 256 * y + z
<1>2. t \in Nat
  BY <1>1, SMT
<1>3. t \div 262144 = x \div 4
  BY <1>1, SMT
<1>4. t \div 4096 = 16 * x + (y \div 16)
  BY <1>1, SMT
<1>5. t \div 64 = 1024 * x + 4 * y + (z \div 64)
  BY <1>1, SMT
<1>6. (t \div 262144) % 64 = x \div 4 /\ x \div 4 \in 0 .. 63
  BY <1>1, <1>3, SMT
<1>7. (t \div 4096) % 64 = 16 * (x % 4) + (y \div 16) /\ 16 * (x % 4) + (y \div 16) \in 0 .. 63
  BY <1>1, <1>4, SMT
<1>8. (t \div 64) % 64 = 4 * (y % 16) + (z \div 64) /\ 4 * (y % 16) + (z \div 64) \in 0 .. 63
  BY <1>1, <1>5, SMT
<1>9. t % 64 = z % 64 /\ z % 64 \in 0 .. 63
  BY <1>1, SMT
<1> HIDE DEF t
<1>10. 64 ^ (4 - 1) = 262144
  <2>1. 64 ^ 3 = 262144 /\ 4 - 1 = 3
    BY SMT
  <2> QED
    BY <2>1, SMT
<1>11. 64 ^ (4 - 2) = 4096
  <2>1. 64 ^ 2 = 4096 /\ 4 - 2 = 2
    BY SMT
  <2> QED
    BY <2>1, SMT
<1>12. 64 ^ (4 - 3) = 64
  <2>1. 64 ^ 1 = 64 /\ 4 - 3 = 1
    BY SMT
  <2> QED
    BY <2>1, SMT
<1>13. t \div 64 ^ (4 - 4) = t
  <2>1. 64 ^ 0 = 1 /\ 4 - 4 = 0 /\ t \div 1 = t
    BY <1>2, SMT
  <2> QED
    BY <2>1, SMT
<1>14. ASSUME NEW i \in 1 .. 4 PROVE i = 1 \/ i = 2 \/ i = 3 \/ i = 4
  BY <1>14, SMT
<1> DEFINE L == Letters(x, y, z)
<1>15. L[1] = x \div 4 /\ L[2] = 16 * (x % 4) + (y \div 16)
       /\ L[3] = 4 * (y % 16) + (z \div 64) /\ L[4] = z % 64
  BY SMT DEF Letters
<1> HIDE DEF L
<1>16. ASSUME NEW i \in 1 .. 4
       PROVE  (t \div 64 ^ (4 - i)) % 64 = L[i] /\ L[i] \in 0 .. 63
  <2>1. CASE i = 1
    BY <1>6, <1>10, <1>15, <2>1, SMT
  <2>2. CASE i = 2
    BY <1>7, <1>11, <1>15, <2>2, SMT
  <2>3. CASE i = 3
    BY <1>8, <1>12, <1>15, <2>3, SMT
  <2>4. CASE i = 4
    BY <1>9, <1>13, <1>15, <2>4, SMT
  <2> QED
    BY <1>14, <2>1, <2>2, <2>3, <2>4, SMT
<1>17. \A i \in 1 .. 4 : LetterOf(x, y, z, i) = (t \div 64 ^ (4 - i)) % 64
  BY SMT DEF LetterOf, t
<1> QED
  BY <1>16, <1>17, SMT DEF L, Letter

\* b is what letter k of three bytes makes of the accumulator a.
Follows(a, b, x, y, z, k) ==
  a \in Nat /\ b \in Nat /\ b = Shifted(a, Letters(x, y, z)[k])

\* What is left of the letters of three bytes, and the bytes they give.
LEMMA FirstBack ==
  ASSUME NEW x \in Byte, NEW y \in Byte, NEW z \in Byte,
         NEW a0, NEW a1, NEW a2, Follows(a0, a1, x, y, z, 1), Follows(a1, a2, x, y, z, 2)
  PROVE  (a2 \div 16) % 256 = x /\ a2 % 16 = y \div 16
<1> DEFINE l == Letters(x, y, z)
<1>1. x \in 0 .. 255 /\ y \in 0 .. 255 /\ z \in 0 .. 255
  BY DEF Byte
<1>2. l[1] = x \div 4 /\ l[2] = 16 * (x % 4) + (y \div 16)
      /\ l[3] = 4 * (y % 16) + (z \div 64) /\ l[4] = z % 64
  BY DEF Letters
<1>3. l[1] \in Letter /\ l[2] \in Letter /\ l[3] \in Letter /\ l[4] \in Letter
  BY LettersAre
<1>0. a0 \in Nat /\ a1 \in Nat /\ a1 = Shifted(a0, l[1])
      /\ a2 \in Nat /\ a2 = Shifted(a1, l[2])
  BY DEF Follows
<1> HIDE DEF l
<1>4. a1 % 256 = 64 * (a0 % 4) + l[1]
  BY <1>0, <1>3, ShiftedLow
<1>5. a1 % 64 = l[1]
  BY <1>0, <1>1, <1>2, <1>4
<1>6. a2 % 4096 = 64 * (a1 % 64) + l[2]
  BY <1>0, <1>3, ShiftedLow
<1>7. a2 % 4096 = 16 * x + (y \div 16)
  BY <1>0, <1>1, <1>2, <1>5, <1>6
<1> QED
  BY <1>0, <1>1, <1>7

LEMMA SecondBack ==
  ASSUME NEW x \in Byte, NEW y \in Byte, NEW z \in Byte,
         NEW a2, NEW a3, Follows(a2, a3, x, y, z, 3), a2 % 16 = y \div 16
  PROVE  (a3 \div 4) % 256 = y /\ a3 % 4 = z \div 64
<1> DEFINE l == Letters(x, y, z)
<1>1. x \in 0 .. 255 /\ y \in 0 .. 255 /\ z \in 0 .. 255
  BY DEF Byte
<1>2. l[1] = x \div 4 /\ l[2] = 16 * (x % 4) + (y \div 16)
      /\ l[3] = 4 * (y % 16) + (z \div 64) /\ l[4] = z % 64
  BY DEF Letters
<1>3. l[1] \in Letter /\ l[2] \in Letter /\ l[3] \in Letter /\ l[4] \in Letter
  BY LettersAre
<1>0. a2 \in Nat /\ a3 \in Nat /\ a3 = Shifted(a2, l[3])
  BY DEF Follows
<1> HIDE DEF l
<1>4. a3 % 1024 = 64 * (a2 % 16) + l[3]
  BY <1>0, <1>3, ShiftedLow
<1>5. a3 % 1024 = 4 * y + (z \div 64)
  BY <1>0, <1>1, <1>2, <1>4
<1> QED
  BY <1>0, <1>1, <1>5

LEMMA ThirdBack ==
  ASSUME NEW x \in Byte, NEW y \in Byte, NEW z \in Byte,
         NEW a3, NEW a4, Follows(a3, a4, x, y, z, 4), a3 % 4 = z \div 64
  PROVE  a4 % 256 = z
<1> DEFINE l == Letters(x, y, z)
<1>1. x \in 0 .. 255 /\ y \in 0 .. 255 /\ z \in 0 .. 255
  BY DEF Byte
<1>2. l[1] = x \div 4 /\ l[2] = 16 * (x % 4) + (y \div 16)
      /\ l[3] = 4 * (y % 16) + (z \div 64) /\ l[4] = z % 64
  BY DEF Letters
<1>3. l[1] \in Letter /\ l[2] \in Letter /\ l[3] \in Letter /\ l[4] \in Letter
  BY LettersAre
<1>0. a3 \in Nat /\ a4 \in Nat /\ a4 = Shifted(a3, l[4])
  BY DEF Follows
<1> HIDE DEF l
<1>4. a4 % 256 = 64 * (a3 % 4) + l[4]
  BY <1>0, <1>3, ShiftedLow
<1> QED
  BY <1>0, <1>1, <1>2, <1>4

LEMMA LetterTaken ==
  \A l \in Letter : l \in Nat /\ l \notin Ignored
  BY DEF Letter, Ignored, Space, Padding

\* text[a + 1 .. a + q] is the first q of the letters l.
Spelled(text, a, q, l) ==
  a + q <= Len(text) /\ \A j \in 1 .. q : text[a + j] = l[j]

\* The decoder over the letters of three bytes, as many of them as there are.
LEMMA ChunkRun ==
  ASSUME NEW text \in Seq(Char), NEW a \in Nat, NEW q \in 1 .. 4,
         NEW x \in Byte, NEW y \in Byte, NEW z \in Byte,
         Spelled(text, a, q, Letters(x, y, z)), Runs(text)[a].bits = 0
  PROVE  /\ Out(text, a + 1) = Out(text, a)
         /\ q >= 2 => Out(text, a + 2) = Append(Out(text, a), x)
         /\ q >= 3 => Out(text, a + 3) = Append(Append(Out(text, a), x), y)
         /\ q >= 4 => /\ Out(text, a + 4) = Append(Append(Append(Out(text, a), x), y), z)
                      /\ Runs(text)[a + 4].bits = 0
<1> DEFINE l == Letters(x, y, z)
           R == Runs(text)
           acc(j) == R[a + j].acc
<1>1. \A j \in 1 .. 4 : l[j] \in Letter
  BY LettersAre
<1>2. a + q <= Len(text) /\ \A j \in 1 .. q : text[a + j] = l[j]
  BY DEF Spelled
<1> HIDE DEF l
<1>3. \A n \in 0 .. Len(text) : R[n] \in State
  BY RunState
<1>4. \A n \in 0 .. Len(text) : R[n].acc \in Nat
  BY <1>3, SMT DEF State, Acc
<1>5. \A j \in 0 .. 3 : j < q => R[a + (j + 1)] = Decoded(R[a + j], l[j + 1])
  <2> SUFFICES ASSUME NEW j \in 0 .. 3, j < q
               PROVE  R[a + (j + 1)] = Decoded(R[a + j], l[j + 1])
    OBVIOUS
  <2>1. a + j \in Nat /\ a + j < Len(text) /\ (a + j) + 1 = a + (j + 1) /\ j + 1 \in 1 .. q
    BY <1>2
  <2>2. R[(a + j) + 1] = Decoded(R[a + j], text[(a + j) + 1])
    BY <2>1, RunStep
  <2>3. text[a + (j + 1)] = l[j + 1]
    BY <1>2, <2>1
  <2> QED
    BY <2>1, <2>2, <2>3
<1>6. \A j \in 0 .. 4 : j <= q => R[a + j] \in State /\ acc(j) \in Nat
  <2> SUFFICES ASSUME NEW j \in 0 .. 4, j <= q
               PROVE  R[a + j] \in State /\ R[a + j].acc \in Nat
    OBVIOUS
  <2>1. a + j \in 0 .. Len(text)
    BY <1>2
  <2> QED
    BY <1>3, <1>4, <2>1
<1> HIDE DEF R
<1>7. a + 0 = a /\ R[a].bits = 0
  BY DEF R
\* The first letter only fills the accumulator.
<1>8. /\ R[a + 1].bits = 6 /\ R[a + 1].out = R[a].out
      /\ acc(1) = Shifted(acc(0), l[1])
  <2>1. R[a + 1] = Decoded(R[a], l[1])
    <3>1. 0 + 1 = 1 /\ 0 \in 0 .. 3 /\ 0 < q
      OBVIOUS
    <3> QED
      BY <1>5, <1>7, <3>1
  <2>2. l[1] \in Nat /\ l[1] \notin Ignored
    BY <1>1, LetterTaken
  <2>3. R[a] \in State
    <3>1. 0 \in 0 .. 4 /\ 0 <= q
      OBVIOUS
    <3> QED
      BY <1>6, <1>7, <3>1
  <2>4. LetterStep(R[a], l[1], R[a + 1])
    BY <2>1, <2>2, <2>3, DecodedLetter
  <2> QED
    BY <1>7, <2>4 DEF LetterStep
<1>9. ASSUME q >= 2
      PROVE  /\ R[a + 2].bits = 4 /\ acc(2) = Shifted(acc(1), l[2])
             /\ R[a + 2].out = Append(R[a].out, (acc(2) \div 16) % 256)
  <2>1. R[a + 2] = Decoded(R[a + 1], l[2])
    <3>1. 1 + 1 = 2 /\ 1 \in 0 .. 3 /\ 1 < q
      BY <1>9
    <3> QED
      BY <1>5, <3>1
  <2>2. l[2] \in Nat /\ l[2] \notin Ignored
    BY <1>1, LetterTaken
  <2>3. R[a + 1] \in State
    <3>1. 1 \in 0 .. 4 /\ 1 <= q
      OBVIOUS
    <3> QED
      BY <1>6, <3>1
  <2>4. LetterStep(R[a + 1], l[2], R[a + 2])
    BY <2>1, <2>2, <2>3, DecodedLetter
  <2> QED
    BY <1>8, <2>4 DEF LetterStep
<1>10. ASSUME q >= 3
       PROVE  /\ R[a + 3].bits = 2 /\ acc(3) = Shifted(acc(2), l[3])
              /\ R[a + 3].out = Append(R[a + 2].out, (acc(3) \div 4) % 256)
  <2>1. R[a + 3] = Decoded(R[a + 2], l[3])
    <3>1. 2 + 1 = 3 /\ 2 \in 0 .. 3 /\ 2 < q
      BY <1>10
    <3> QED
      BY <1>5, <3>1
  <2>2. l[3] \in Nat /\ l[3] \notin Ignored
    BY <1>1, LetterTaken
  <2>3. R[a + 2] \in State /\ R[a + 2].bits = 4
    <3>1. 2 \in 0 .. 4 /\ 2 <= q /\ q >= 2
      BY <1>10
    <3> QED
      BY <1>6, <1>9, <3>1
  <2>4. LetterStep(R[a + 2], l[3], R[a + 3])
    BY <2>1, <2>2, <2>3, DecodedLetter
  <2> QED
    BY <2>3, <2>4 DEF LetterStep
<1>11. ASSUME q >= 4
       PROVE  /\ R[a + 4].bits = 0 /\ acc(4) = Shifted(acc(3), l[4])
              /\ R[a + 4].out = Append(R[a + 3].out, acc(4) % 256)
  <2>1. R[a + 4] = Decoded(R[a + 3], l[4])
    <3>1. 3 + 1 = 4 /\ 3 \in 0 .. 3 /\ 3 < q
      BY <1>11
    <3> QED
      BY <1>5, <3>1
  <2>2. l[4] \in Nat /\ l[4] \notin Ignored
    BY <1>1, LetterTaken
  <2>3. R[a + 3] \in State /\ R[a + 3].bits = 2
    <3>1. 3 \in 0 .. 4 /\ 3 <= q /\ q >= 3
      BY <1>11
    <3> QED
      BY <1>6, <1>10, <3>1
  <2>4. LetterStep(R[a + 3], l[4], R[a + 4])
    BY <2>1, <2>2, <2>3, DecodedLetter
  <2> QED
    BY <2>3, <2>4 DEF LetterStep
<1>12. \A j \in 0 .. 4 : j <= q => acc(j) \in Nat
  BY <1>6
<1> HIDE DEF acc
<1>13. acc(0) \in Nat /\ acc(1) \in Nat
  <2>1. 0 \in 0 .. 4 /\ 0 <= q /\ 1 \in 0 .. 4 /\ 1 <= q
    OBVIOUS
  <2> QED
    BY <1>12, <2>1
<1>14. ASSUME q >= 2 PROVE acc(2) \in Nat /\ (acc(2) \div 16) % 256 = x /\ acc(2) % 16 = y \div 16
  <2>1. acc(2) \in Nat
    <3>1. 2 \in 0 .. 4 /\ 2 <= q
      BY <1>14
    <3> QED
      BY <1>12, <3>1
  <2> QED
    <3>1. Follows(acc(0), acc(1), x, y, z, 1)
      BY <1>8, <1>13 DEF Follows, l
    <3>2. Follows(acc(1), acc(2), x, y, z, 2)
      BY <1>9, <1>13, <1>14, <2>1 DEF Follows, l
    <3> QED
      BY <2>1, <3>1, <3>2, FirstBack
<1>15. ASSUME q >= 3 PROVE acc(3) \in Nat /\ (acc(3) \div 4) % 256 = y /\ acc(3) % 4 = z \div 64
  <2>1. acc(3) \in Nat
    <3>1. 3 \in 0 .. 4 /\ 3 <= q
      BY <1>15
    <3> QED
      BY <1>12, <3>1
  <2>2. q >= 2
    BY <1>15
  <2> QED
    <3>1. Follows(acc(2), acc(3), x, y, z, 3)
      BY <1>10, <1>14, <1>15, <2>1, <2>2 DEF Follows, l
    <3> QED
      BY <1>14, <2>1, <2>2, <3>1, SecondBack
<1>16. ASSUME q >= 4 PROVE acc(4) % 256 = z
  <2>1. acc(4) \in Nat
    <3>1. 4 \in 0 .. 4 /\ 4 <= q
      BY <1>16
    <3> QED
      BY <1>12, <3>1
  <2>2. q >= 2 /\ q >= 3
    BY <1>16
  <2> QED
    <3>1. Follows(acc(3), acc(4), x, y, z, 4)
      BY <1>11, <1>15, <1>16, <2>1, <2>2 DEF Follows, l
    <3> QED
      BY <1>15, <2>1, <2>2, <3>1, ThirdBack
<1>17. Out(text, a) = R[a].out /\ Out(text, a + 1) = R[a + 1].out
       /\ Out(text, a + 2) = R[a + 2].out /\ Out(text, a + 3) = R[a + 3].out
       /\ Out(text, a + 4) = R[a + 4].out
  BY DEF Out, R
<1>18. q >= 2 => Out(text, a + 2) = Append(Out(text, a), x)
  BY <1>9, <1>14, <1>17
<1>19. q >= 3 => Out(text, a + 3) = Append(Append(Out(text, a), x), y)
  <2>1. q >= 3 => q >= 2
    OBVIOUS
  <2> QED
    BY <1>10, <1>15, <1>17, <1>18, <2>1
<1>21. q >= 4 => Out(text, a + 4) = Append(Append(Append(Out(text, a), x), y), z)
  <2>1. q >= 4 => q >= 3
    OBVIOUS
  <2> QED
    BY <1>11, <1>16, <1>17, <1>19, <2>1
<1> QED
  BY <1>8, <1>11, <1>17, <1>18, <1>19, <1>21 DEF R

-----------------------------------------------------------------------------
(* The letters of a description *)

ByteAt(s, i) == IF i <= Len(s) THEN s[i] ELSE 0

\* s is the letters that the chunk with bytes x, y and z, of which c are in it, has.
Chunked(s, c, x, y, z) ==
  /\ s \in Seq(Byte) /\ Len(s) = c + 1
  /\ \A i \in 1 .. c + 1 : s[i] = Letters(x, y, z)[i]

LEMMA MinTwo ==
  ASSUME NEW a \in Nat, NEW b \in Nat
  PROVE  Min({a, b}) = IF a <= b THEN a ELSE b
<1> DEFINE m == IF a <= b THEN a ELSE b
<1>1. m \in {a, b} /\ \A y \in {a, b} : m <= y
  OBVIOUS
<1>2. Min({a, b}) \in {a, b} /\ \A y \in {a, b} : Min({a, b}) <= y
  BY <1>1 DEF Min
<1> QED
  BY <1>1, <1>2

LEMMA ChunkEncoded ==
  ASSUME NEW s \in Seq(Byte), NEW c \in 1 .. 3, Len(s) = c
  PROVE  Chunked(EncodeChunk(s), c, ByteAt(s, 1), ByteAt(s, 2), ByteAt(s, 3))
<1> DEFINE x == ByteAt(s, 1)
           y == ByteAt(s, 2)
           z == ByteAt(s, 3)
           l == Letters(x, y, z)
           t(i) == LetterOf(x, y, z, i)
           four == [i \in 1 .. 4 |-> t(i)]
<1>1. x \in Byte /\ y \in Byte /\ z \in Byte
  <2>1. 0 \in Byte
    BY DEF Byte
  <2> QED
    BY <2>1 DEF ByteAt
<1>2. EncodeChunk(s) = Cut(four, c + 1)
  BY SMT DEF EncodeChunk, ByteAt, LetterOf
<1>3. \A i \in 1 .. 4 : t(i) = l[i] /\ l[i] \in Letter
  BY <1>1, LettersAre
<1>31. \A i \in 1 .. 4 : t(i) \in Byte
  <2>1. \A v \in Letter : v \in Byte
    BY DEF Letter, Byte
  <2> QED
    BY <1>3, <2>1
<1> HIDE DEF t, l
<1>5. four \in Seq(Byte) /\ Len(four) = 4
  BY <1>31
<1>4. \A i \in 1 .. 4 : four[i] = l[i]
  BY <1>3
<1> HIDE DEF four
<1>6. Sized(four, 4) /\ c + 1 \in 0 .. 4 /\ 4 \in Nat
  BY <1>5 DEF Sized
<1>7. Sized(Cut(four, c + 1), c + 1) /\ \A i \in 1 .. c + 1 : Cut(four, c + 1)[i] = four[i]
  BY <1>6, CutBytes
<1>8. Chunked(Cut(four, c + 1), c, x, y, z)
  <2>1. \A i \in 1 .. c + 1 : i \in 1 .. 4
    OBVIOUS
  <2> QED
    BY <1>4, <1>7, <2>1 DEF Chunked, Sized, l
<1> QED
  BY <1>2, <1>8

\* How many letters chunk k has.
Chunks(n) == (n + 2) \div 3
ChunkLen(n, k) == IF k < Chunks(n) THEN 3 ELSE n - 3 * (Chunks(n) - 1)

LEMMA ChunkLens ==
  ASSUME NEW n \in Nat, n > 0
  PROVE  /\ Chunks(n) \in Nat /\ Chunks(n) >= 1
         /\ \A k \in 1 .. Chunks(n) :
              /\ ChunkLen(n, k) \in 1 .. 3 /\ 3 * k - 2 \in 1 .. n
              /\ Min({3 * k, n}) = 3 * (k - 1) + ChunkLen(n, k)
              /\ 3 * (k - 1) + ChunkLen(n, k) <= n
              /\ ChunkLen(n, k) < 3 => 3 * (k - 1) + ChunkLen(n, k) = n
              /\ k < Chunks(n) => ChunkLen(n, k) = 3
         /\ 3 * (Chunks(n) - 1) + ChunkLen(n, Chunks(n)) = n
<1> DEFINE K == (n + 2) \div 3
<1>1. K \in Nat /\ K >= 1 /\ 3 * (K - 1) < n /\ n <= 3 * K
  OBVIOUS
<1>2. K = Chunks(n)
  BY DEF Chunks
<1> HIDE DEF K
<1>3. ASSUME NEW k \in 1 .. K
      PROVE  /\ ChunkLen(n, k) \in 1 .. 3 /\ 3 * k - 2 \in 1 .. n
             /\ Min({3 * k, n}) = 3 * (k - 1) + ChunkLen(n, k)
             /\ 3 * (k - 1) + ChunkLen(n, k) <= n
             /\ ChunkLen(n, k) < 3 => 3 * (k - 1) + ChunkLen(n, k) = n
             /\ k < K => ChunkLen(n, k) = 3
  <2>1. ChunkLen(n, k) = IF k < K THEN 3 ELSE n - 3 * (K - 1)
    BY <1>2 DEF ChunkLen
  <2>2. Min({3 * k, n}) = IF 3 * k <= n THEN 3 * k ELSE n
    BY MinTwo
  <2>3. CASE k < K
    BY <1>1, <2>1, <2>2, <2>3
  <2>4. CASE k = K
    BY <1>1, <2>1, <2>2, <2>4
  <2> QED
    BY <1>1, <2>3, <2>4
<1>4. 3 * (K - 1) + ChunkLen(n, K) = n
  BY <1>1, <1>2 DEF ChunkLen
<1> QED
  BY <1>1, <1>2, <1>3, <1>4

\* text is the letters of the bytes of body.
Encodes(text, body) ==
  /\ text \in Seq(Letter)
  /\ Len(text) = 4 * (Chunks(Len(body)) - 1) + ChunkLen(Len(body), Chunks(Len(body))) + 1
  /\ \A k \in 1 .. Chunks(Len(body)) : \A j \in 1 .. ChunkLen(Len(body), k) + 1 :
       text[4 * (k - 1) + j] =
         Letters(ByteAt(body, 3 * (k - 1) + 1), ByteAt(body, 3 * (k - 1) + 2),
                 ByteAt(body, 3 * (k - 1) + 3))[j]

LEMMA Encoded ==
  ASSUME NEW body \in Seq(Byte), Len(body) > 0
  PROVE  Encodes(Base64Encode(body), body)
<1> DEFINE n == Len(body)
           K == Chunks(n)
           chunk(k) == SubSeq(body, 3 * k - 2, Min({3 * k, n}))
           seqs == [k \in 1 .. K |-> EncodeChunk(chunk(k))]
           c(k) == ChunkLen(n, k)
           B(k, j) == ByteAt(body, 3 * (k - 1) + j)
<1>1. Base64Encode(body) = FlattenSeq(seqs)
  BY DEF Base64Encode, Chunks
<1>2. n \in Nat /\ n > 0
  OBVIOUS
<1>3. K \in Nat /\ K >= 1
  BY <1>2, ChunkLens
<1>4. ASSUME NEW k \in 1 .. K
      PROVE  Chunked(EncodeChunk(chunk(k)), c(k), B(k, 1), B(k, 2), B(k, 3))
             /\ c(k) \in 1 .. 3
  <2>1. /\ c(k) \in 1 .. 3 /\ 3 * k - 2 \in 1 .. n
        /\ Min({3 * k, n}) = 3 * (k - 1) + c(k) /\ 3 * (k - 1) + c(k) <= n
        /\ c(k) < 3 => 3 * (k - 1) + c(k) = n
    BY <1>2, ChunkLens
  <2> DEFINE s == SubSeq(body, 3 * k - 2, 3 * (k - 1) + c(k))
  <2>2. chunk(k) = s
    BY <2>1
  <2> HIDE DEF c, n, chunk
  <2>3. s \in Seq(Byte) /\ Len(s) = c(k) /\ \A j \in 1 .. c(k) : s[j] = body[3 * (k - 1) + j]
    <3>1. n = Len(body) /\ k \in Nat
      BY <1>3 DEF n
    <3>2. s \in Seq(Byte)
      BY <2>1, <3>1
    <3>3. Len(s) = c(k)
      BY <2>1, <3>1
    <3>4. \A j \in 1 .. c(k) : s[j] = body[3 * (k - 1) + j]
      BY <2>1, <3>1
    <3> QED
      BY <3>2, <3>3, <3>4
  <2> HIDE DEF s
  <2>4. \A j \in 1 .. 3 : ByteAt(s, j) = B(k, j)
    <3> SUFFICES ASSUME NEW j \in 1 .. 3 PROVE ByteAt(s, j) = B(k, j)
      OBVIOUS
    <3>1. n = Len(body) /\ k \in Nat
      BY <1>3 DEF n
    <3>2. CASE j <= c(k)
      <4>1. j \in 1 .. c(k) /\ 3 * (k - 1) + j <= n
        BY <2>1, <3>1, <3>2
      <4> QED
        BY <2>3, <3>1, <3>2, <4>1 DEF ByteAt
    <3>3. CASE ~(j <= c(k))
      <4>1. ~(3 * (k - 1) + j <= n)
        BY <2>1, <3>1, <3>3
      <4> QED
        BY <2>3, <3>1, <3>3, <4>1 DEF ByteAt
    <3> QED
      BY <3>2, <3>3
  <2>5. Chunked(EncodeChunk(s), c(k), ByteAt(s, 1), ByteAt(s, 2), ByteAt(s, 3))
    BY <2>1, <2>3, ChunkEncoded
  <2> HIDE DEF B
  <2>6. ByteAt(s, 1) = B(k, 1) /\ ByteAt(s, 2) = B(k, 2) /\ ByteAt(s, 3) = B(k, 3)
    BY <2>4
  <2> QED
    BY <2>1, <2>2, <2>5, <2>6
<1>5. \A k \in 1 .. K - 1 : c(k) = 3
  <2>1. \A k \in 1 .. K - 1 : k \in 1 .. K /\ k < K
    BY <1>3
  <2> QED
    BY <1>2, <2>1, ChunkLens
<1>6. Len(seqs) = K /\ \A k \in 1 .. K : seqs[k] = EncodeChunk(chunk(k))
  BY <1>3
<1>7. \A k \in 1 .. K :
        /\ Chunked(seqs[k], c(k), B(k, 1), B(k, 2), B(k, 3))
        /\ c(k) \in 1 .. 3
  BY <1>4, <1>6
<1>8. seqs \in Seq(Seq(Byte))
  <2>1. \A k \in 1 .. K : EncodeChunk(chunk(k)) \in Seq(Byte)
    BY <1>6, <1>7 DEF Chunked
  <2> HIDE DEF chunk, K
  <2> QED
    BY <1>3, <2>1
<1> HIDE DEF seqs, chunk, c, B, K
<1>9. Fours(seqs)
  <2>1. \A k \in 1 .. K - 1 : k \in 1 .. K /\ Len(seqs[k]) = c(k) + 1
    BY <1>3, <1>7 DEF Chunked
  <2> QED
    <3>1. ASSUME NEW k \in 1 .. K - 1 PROVE Len(seqs[k]) = 4
      <4>1. c(k) = 3 /\ Len(seqs[k]) = c(k) + 1
        BY <1>5, <2>1
      <4> QED
        BY <4>1
    <3> QED
      BY <1>6, <1>8, <3>1 DEF Fours
<1> DEFINE f == FlattenSeq(seqs)
<1>10. FlattenedTo(f, seqs, K)
  <2>1. seqs # <<>>
    BY <1>3, <1>6
  <2> QED
    BY <1>6, <1>9, <2>1, Flattened
<1> HIDE DEF f
<1>11. f \in Seq(Byte) /\ Len(f) = 4 * (K - 1) + c(K) + 1
  <2>1. Len(seqs[K]) = c(K) + 1 /\ c(K) \in 1 .. 3
    BY <1>3, <1>7 DEF Chunked
  <2>2. f \in Seq(Byte) /\ Len(f) = 4 * (K - 1) + Len(seqs[K])
    BY <1>10 DEF FlattenedTo
  <2> QED
    BY <1>3, <2>1, <2>2
<1>12. ASSUME NEW k \in 1 .. K, NEW j \in 1 .. c(k) + 1
       PROVE  /\ f[4 * (k - 1) + j] = Letters(B(k, 1), B(k, 2), B(k, 3))[j]
              /\ Letters(B(k, 1), B(k, 2), B(k, 3))[j] \in Letter
  <2>1. /\ Len(seqs[k]) = c(k) + 1
        /\ seqs[k][j] = Letters(B(k, 1), B(k, 2), B(k, 3))[j]
    BY <1>7 DEF Chunked
  <2>2. f[4 * (k - 1) + j] = seqs[k][j]
    BY <1>10, <2>1 DEF FlattenedTo
  <2>3. j \in 1 .. 4
    BY <1>7
  <2>4. B(k, 1) \in Byte /\ B(k, 2) \in Byte /\ B(k, 3) \in Byte
    <3>1. \A i \in Nat : i > 0 => ByteAt(body, i) \in Byte
      <4>1. 0 \in Byte
        BY DEF Byte
      <4> QED
        BY <4>1 DEF ByteAt
    <3>2. k \in Nat /\ k >= 1
      BY <1>3
    <3>3. 3 * (k - 1) + 1 \in Nat /\ 3 * (k - 1) + 2 \in Nat /\ 3 * (k - 1) + 3 \in Nat
          /\ 3 * (k - 1) + 1 > 0 /\ 3 * (k - 1) + 2 > 0 /\ 3 * (k - 1) + 3 > 0
      BY <3>2
    <3> QED
      BY <3>1, <3>3 DEF B
  <2> QED
    BY <2>1, <2>2, <2>3, <2>4, LettersAre
<1>13. f \in Seq(Letter)
  <2>1. ASSUME NEW p \in 1 .. Len(f) PROVE f[p] \in Letter
    <3> DEFINE k == (p - 1) \div 4 + 1
               j == p - 4 * (k - 1)
    <3>1. p \in Nat /\ p >= 1 /\ c(K) \in 1 .. 3 /\ p <= 4 * (K - 1) + c(K) + 1
      BY <1>3, <1>7, <1>11
    <3>2. k \in Nat /\ k >= 1 /\ j \in 1 .. 4 /\ p = 4 * (k - 1) + j
      BY <3>1
    <3> HIDE DEF k, j
    <3>3. k <= K /\ (k = K => j <= c(K) + 1)
      BY <1>3, <3>1, <3>2
    <3>4. k \in 1 .. K
      BY <1>3, <3>2, <3>3
    <3>5. c(k) \in 1 .. 3 /\ (k # K => c(k) = 3)
      <4>1. k # K => k \in 1 .. K - 1
        BY <1>3, <3>4
      <4> QED
        BY <1>5, <1>7, <3>4, <4>1
    <3>6. j \in 1 .. c(k) + 1
      BY <3>2, <3>3, <3>5
    <3> QED
      BY <1>12, <3>2, <3>4, <3>6
  <2> QED
    BY <1>11, <2>1
<1> QED
  BY <1>1, <1>11, <1>12, <1>13 DEF Encodes, f, K, c, B

Beginnings(body) == {Cut(body, n) : n \in 0 .. Len(body)}

LEMMA CutMore ==
  ASSUME NEW body \in Seq(Byte), NEW n \in Nat, n < Len(body)
  PROVE  Append(Cut(body, n), body[n + 1]) = Cut(body, n + 1)
<1> DEFINE s == Cut(body, n)
           t == Cut(body, n + 1)
           N == Len(body)
<1>1. Sized(body, N) /\ N \in Nat /\ n \in 0 .. N /\ n + 1 \in 0 .. N /\ n + 1 \in 1 .. N
  BY DEF Sized
<1>2. Sized(s, n) /\ \A i \in 1 .. n : s[i] = body[i]
  BY <1>1, CutBytes
<1>3. Sized(t, n + 1) /\ \A i \in 1 .. n + 1 : t[i] = body[i]
  BY <1>1, CutBytes
<1>4. body[n + 1] \in Byte
  BY <1>1
<1> DEFINE b == body[n + 1]
           u == Append(s, b)
<1> HIDE DEF s, t, b
<1>5. s \in Seq(Byte) /\ Len(s) = n /\ b \in Byte
  BY <1>2, <1>4 DEF Sized, b
<1>6. u \in Seq(Byte) /\ Len(u) = n + 1 /\ u[n + 1] = b /\ \A i \in 1 .. n : u[i] = s[i]
  BY <1>5
<1> HIDE DEF u
<1>7. ASSUME NEW i \in 1 .. n + 1 PROVE u[i] = t[i]
  <2>1. CASE i = n + 1
    BY <1>3, <1>6, <2>1 DEF b
  <2>2. CASE i # n + 1
    BY <1>2, <1>3, <1>6, <2>2
  <2> QED
    BY <2>1, <2>2
<1>8. Sized(u, n + 1) /\ n + 1 \in Nat
  BY <1>6 DEF Sized
<1>9. u = t
  BY <1>3, <1>7, <1>8, SameBytes
<1> QED
  BY <1>9 DEF u, s, b, t

\* The decoder is between chunks k and k + 1.
Between(text, body, k) ==
  Runs(text)[4 * k].bits = 0 /\ Out(text, 4 * k) = Cut(body, 3 * k)

LEMMA ChunkDecoded ==
  ASSUME NEW body \in Seq(Byte), Len(body) > 0, NEW text, Encodes(text, body),
         NEW k \in Nat, k < Chunks(Len(body)), Between(text, body, k)
  PROVE  /\ \A j \in 1 .. ChunkLen(Len(body), k + 1) + 1 :
              Out(text, 4 * k + j) = Cut(body, 3 * k + (j - 1))
         /\ k + 1 < Chunks(Len(body)) => Between(text, body, k + 1)
<1> DEFINE n == Len(body)
           K == Chunks(n)
           c == ChunkLen(n, k + 1)
           a == 4 * k
           x == ByteAt(body, 3 * k + 1)
           y == ByteAt(body, 3 * k + 2)
           z == ByteAt(body, 3 * k + 3)
           O(j) == Out(text, a + j)
<1>1. n \in Nat /\ n > 0 /\ k + 1 \in 1 .. K /\ K \in Nat
  <2>1. n \in Nat /\ n > 0
    OBVIOUS
  <2> HIDE DEF n
  <2>2. Chunks(n) \in Nat
    BY <2>1, ChunkLens
  <2>3. k \in Nat /\ k < Chunks(n)
    BY DEF n
  <2> QED
    BY <2>1, <2>2, <2>3
<1>2. /\ c \in 1 .. 3 /\ 3 * k + c <= n
      /\ k + 1 < K => c = 3
      /\ ChunkLen(n, K) \in 1 .. 3
  <2>1. \A i \in 1 .. K : ChunkLen(n, i) \in 1 .. 3 /\ 3 * (i - 1) + ChunkLen(n, i) <= n
                          /\ (i < K => ChunkLen(n, i) = 3)
    BY <1>1, ChunkLens
  <2>2. (k + 1) - 1 = k /\ K \in 1 .. K
    BY <1>1
  <2> QED
    BY <1>1, <2>1, <2>2
<1>3. x \in Byte /\ y \in Byte /\ z \in Byte
  <2>1. 0 \in Byte
    BY DEF Byte
  <2> QED
    BY <2>1 DEF ByteAt
<1>4. text \in Seq(Char)
  <2>1. text \in Seq(Letter) /\ \A v \in Letter : v \in Char
    BY DEF Encodes, Letter, Char
  <2> QED
    BY <2>1
<1>5. Spelled(text, a, c + 1, Letters(x, y, z))
  <2>1. (k + 1) - 1 = k
    OBVIOUS
  <2>2. \A j \in 1 .. c + 1 : text[a + j] = Letters(x, y, z)[j]
    BY <1>1, <2>1 DEF Encodes
  <2>3. Len(text) = 4 * (K - 1) + ChunkLen(n, K) + 1
    BY DEF Encodes
  <2>4. k + 1 = K => c = ChunkLen(n, K)
    OBVIOUS
  <2> HIDE DEF c, K, n
  <2>5. a + (c + 1) <= Len(text)
    BY <1>1, <1>2, <2>3, <2>4
  <2> QED
    BY <2>2, <2>5 DEF Spelled
<1> HIDE DEF c, n, K, x, y, z
<1>6. a \in Nat /\ c + 1 \in 1 .. 4 /\ Runs(text)[a].bits = 0 /\ Out(text, a) = Cut(body, 3 * k)
  BY <1>2 DEF Between
<1>7. /\ O(1) = Out(text, a)
      /\ c + 1 >= 2 => O(2) = Append(Out(text, a), x)
      /\ c + 1 >= 3 => O(3) = Append(Append(Out(text, a), x), y)
      /\ c + 1 >= 4 => /\ O(4) = Append(Append(Append(Out(text, a), x), y), z)
                       /\ Runs(text)[a + 4].bits = 0
  BY <1>3, <1>4, <1>5, <1>6, ChunkRun
<1> DEFINE C(m) == Cut(body, 3 * k + m)
<1>8. O(1) = C(0)
  <2>1. 3 * k + 0 = 3 * k
    OBVIOUS
  <2> QED
    BY <1>6, <1>7, <2>1
<1>9. /\ x = body[3 * k + 1]
      /\ c >= 2 => y = body[3 * k + 2]
      /\ c >= 3 => z = body[3 * k + 3]
  BY <1>1, <1>2 DEF x, y, z, n, ByteAt
<1> HIDE DEF O
<1>10. O(2) = C(1)
  <2>1. 3 * k \in Nat /\ 3 * k < Len(body)
    BY <1>1, <1>2 DEF n
  <2>2. Append(Cut(body, 3 * k), body[3 * k + 1]) = Cut(body, 3 * k + 1)
    BY <2>1, CutMore
  <2>3. c + 1 >= 2
    BY <1>2
  <2>4. O(2) = Append(Cut(body, 3 * k), body[3 * k + 1])
    BY <1>6, <1>7, <1>9, <2>3
  <2> QED
    BY <2>2, <2>4
<1>11. ASSUME c >= 2 PROVE O(3) = C(2)
  <2>1. 3 * k + 1 \in Nat /\ 3 * k + 1 < Len(body) /\ (3 * k + 1) + 1 = 3 * k + 2
    BY <1>1, <1>2, <1>11 DEF n
  <2>2. Append(Cut(body, 3 * k + 1), body[(3 * k + 1) + 1]) = Cut(body, (3 * k + 1) + 1)
    BY <2>1, CutMore
  <2>3. c + 1 >= 2 /\ c + 1 >= 3
    BY <1>2, <1>11
  <2>4. O(2) = Append(Out(text, a), x) /\ O(3) = Append(O(2), y) /\ y = body[3 * k + 2]
    BY <1>7, <1>9, <1>11, <2>3
  <2> QED
    BY <1>10, <2>1, <2>2, <2>4
<1>12. ASSUME c >= 3 PROVE O(4) = C(3)
  <2>1. 3 * k + 2 \in Nat /\ 3 * k + 2 < Len(body) /\ (3 * k + 2) + 1 = 3 * k + 3
    BY <1>1, <1>2, <1>12 DEF n
  <2>2. Append(Cut(body, 3 * k + 2), body[(3 * k + 2) + 1]) = Cut(body, (3 * k + 2) + 1)
    BY <2>1, CutMore
  <2>3. c + 1 >= 3 /\ c + 1 >= 4 /\ c >= 2
    BY <1>2, <1>12
  <2>4. O(4) = Append(O(3), z) /\ z = body[3 * k + 3]
    BY <1>7, <1>9, <1>12, <2>3
  <2> QED
    BY <1>11, <2>1, <2>2, <2>3, <2>4
<1>13. ASSUME NEW j \in 1 .. c + 1 PROVE O(j) = C(j - 1)
  <2>1. j = 1 \/ j = 2 \/ (j = 3 /\ c >= 2) \/ (j = 4 /\ c >= 3)
    BY <1>2
  <2> HIDE DEF C
  <2>2. CASE j = 1
    <3>1. j - 1 = 0
      BY <2>2
    <3> QED
      BY <1>8, <2>2, <3>1
  <2>3. CASE j = 2
    <3>1. j - 1 = 1
      BY <2>3
    <3> QED
      BY <1>10, <2>3, <3>1
  <2>4. CASE j = 3 /\ c >= 2
    <3>1. j - 1 = 2
      BY <2>4
    <3> QED
      BY <1>11, <2>4, <3>1
  <2>5. CASE j = 4 /\ c >= 3
    <3>1. j - 1 = 3
      BY <2>5
    <3> QED
      BY <1>12, <2>5, <3>1
  <2> QED
    BY <2>1, <2>2, <2>3, <2>4, <2>5
<1>14. ASSUME k + 1 < K PROVE Between(text, body, k + 1)
  <2>1. c = 3 /\ c + 1 >= 4 /\ c >= 3
    BY <1>2, <1>14
  <2>2. O(4) = C(3) /\ Runs(text)[a + 4].bits = 0
    BY <1>7, <1>12, <2>1
  <2>3. a + 4 = 4 * (k + 1) /\ 3 * k + 3 = 3 * (k + 1)
    OBVIOUS
  <2> QED
    BY <2>2, <2>3 DEF Between, O
<1> QED
  BY <1>13, <1>14 DEF O, c, n, K

\* What the decoder has after any number of letters is a beginning of the body,
\* and after all of them the body if all are there.
Carried(text, body, all) ==
  /\ \A n \in 0 .. Len(text) : Out(text, n) \in Beginnings(body)
  /\ all => Out(text, Len(text)) = body

LEMMA WholeCut ==
  ASSUME NEW body \in Seq(Byte)
  PROVE  /\ Cut(body, Len(body)) = body /\ Cut(body, 0) = <<>>
         /\ <<>> \in Beginnings(body)
<1>1. Cut(body, Len(body)) = body /\ Cut(body, 0) = <<>>
  BY DEF Cut
<1> QED
  BY <1>1 DEF Beginnings

LEMMA RoundTrip ==
  ASSUME NEW body \in Seq(Byte)
  PROVE  Base64Encode(body) \in Seq(Letter) /\ Carried(Base64Encode(body), body, TRUE)
<1> DEFINE text == Base64Encode(body)
           n == Len(body)
           K == Chunks(n)
           N == Len(text)
<1>1. CASE n = 0
  <2>1. text = <<>>
    <3>1. (n + 2) \div 3 = 0
      BY <1>1
    <3> DEFINE chunk(k) == SubSeq(body, 3 * k - 2, Min({3 * k, n}))
    <3>2. text = FlattenSeq([k \in 1 .. (n + 2) \div 3 |-> EncodeChunk(chunk(k))])
      BY DEF Base64Encode
    <3> HIDE DEF chunk, n
    <3>3. [k \in 1 .. (n + 2) \div 3 |-> EncodeChunk(chunk(k))] = <<>>
      BY <3>1
    <3>4. FlattenSeq(<<>>) = <<>>
      BY DEF FlattenSeq
    <3> QED
      BY <3>2, <3>3, <3>4
  <2>2. body = <<>>
    BY <1>1
  <2>3. <<>> \in Seq(Char) /\ Len(<<>>) = 0
    OBVIOUS
  <2>4. Out(<<>>, 0) = <<>>
    <3>1. Runs(<<>>)[0] = Start
      BY <2>3, RunStart
    <3> QED
      BY <3>1 DEF Out, Start
  <2>5. <<>> \in Beginnings(body)
    BY WholeCut
  <2>6. \A i \in 0 .. Len(<<>>) : i = 0
    BY <2>3
  <2>7. Carried(<<>>, body, TRUE)
    BY <2>2, <2>3, <2>4, <2>5, <2>6 DEF Carried
  <2>8. <<>> \in Seq(Letter)
    OBVIOUS
  <2> QED
    BY <2>1, <2>7, <2>8
<1>2. CASE n > 0
  <2>1. Encodes(text, body)
    BY <1>2, Encoded
  <2>2. /\ n \in Nat /\ K \in Nat /\ K >= 1 /\ 3 * (K - 1) + ChunkLen(n, K) = n
        /\ \A k \in 1 .. K : /\ ChunkLen(n, k) \in 1 .. 3 /\ (k < K => ChunkLen(n, k) = 3)
                             /\ 3 * (k - 1) + ChunkLen(n, k) <= n
    <3>1. n \in Nat /\ n > 0
      BY <1>2
    <3> HIDE DEF n
    <3> QED
      BY <3>1, ChunkLens
  <2>3. text \in Seq(Letter) /\ N = 4 * (K - 1) + ChunkLen(n, K) + 1
    BY <2>1 DEF Encodes
  <2>4. text \in Seq(Char)
    <3>1. \A v \in Letter : v \in Char
      BY DEF Letter, Char
    <3> QED
      BY <2>3, <3>1
  <2> HIDE DEF text, n, K, N
  <2> DEFINE S == {k \in 0 .. K - 1 : Between(text, body, k)}
  <2>5. 0 \in S
    <3>1. Runs(text)[0] = Start /\ 4 * 0 = 0 /\ 3 * 0 = 0 /\ 0 \in 0 .. K - 1
      BY <2>2, <2>4, RunStart
    <3>2. Between(text, body, 0)
      BY <3>1, WholeCut DEF Between, Out, Start
    <3> QED
      BY <3>1, <3>2
  <2>6. ASSUME NEW k \in 0 .. (K - 1) - 1, k \in S PROVE k + 1 \in S
    <3>1. k \in Nat /\ k < K /\ k + 1 < K /\ k + 1 \in 0 .. K - 1
      BY <2>2, <2>6
    <3>2. Between(text, body, k + 1)
      BY <1>2, <2>1, <2>6, <3>1, ChunkDecoded DEF n, K
    <3> QED
      BY <3>1, <3>2
  <2>7. \A k \in 0 .. K - 1 : k \in S
    <3>1. K - 1 \in Nat
      BY <2>2
    <3> HIDE DEF S
    <3> QED
      BY <2>5, <2>6, <3>1, UpTo
  <2>8. ASSUME NEW k \in 0 .. K - 1, NEW j \in 1 .. ChunkLen(n, k + 1) + 1
        PROVE  Out(text, 4 * k + j) = Cut(body, 3 * k + (j - 1))
    <3>1. k \in Nat /\ k < K
      BY <2>2
    <3>2. Between(text, body, k)
      BY <2>7
    <3> QED
      BY <1>2, <2>1, <2>8, <3>1, <3>2, ChunkDecoded DEF n, K
  <2>9. ASSUME NEW p \in 0 .. N PROVE Out(text, p) \in Beginnings(body)
    <3>1. CASE p = 0
      <4>1. Out(text, 0) = <<>>
        BY <2>4, RunStart DEF Out, Start
      <4> QED
        BY <3>1, <4>1, WholeCut
    <3>2. CASE p # 0
      <4> DEFINE k == (p - 1) \div 4
                 j == p - 4 * k
      <4>1. K \in 1 .. K /\ ChunkLen(n, K) \in 1 .. 3
        BY <2>2
      <4>2. p \in Nat /\ p >= 1 /\ p <= 4 * (K - 1) + ChunkLen(n, K) + 1
        BY <2>2, <2>3, <3>2, <4>1
      <4>3. k \in Nat /\ j \in 1 .. 4 /\ p = 4 * k + j
        BY <4>2
      <4> HIDE DEF k, j
      <4>4. k <= K - 1 /\ (k = K - 1 => j <= ChunkLen(n, K) + 1)
        BY <2>2, <4>1, <4>2, <4>3
      <4>5. k \in 0 .. K - 1 /\ k + 1 \in 1 .. K /\ (k + 1) - 1 = k
        BY <2>2, <4>3, <4>4
      <4>6. /\ ChunkLen(n, k + 1) \in 1 .. 3 /\ (k + 1 < K => ChunkLen(n, k + 1) = 3)
            /\ 3 * k + ChunkLen(n, k + 1) <= n
        BY <2>2, <4>5
      <4>7. j \in 1 .. ChunkLen(n, k + 1) + 1
        <5>1. CASE k = K - 1
          <6>1. k + 1 = K
            BY <2>2, <5>1
          <6> QED
            BY <4>3, <4>4, <4>6, <5>1, <6>1
        <5>2. CASE k # K - 1
          <6>1. k + 1 < K
            BY <2>2, <4>5, <5>2
          <6> QED
            BY <4>3, <4>6, <6>1
        <5> QED
          BY <5>1, <5>2
      <4>8. Out(text, p) = Cut(body, 3 * k + (j - 1))
        BY <2>8, <4>3, <4>5, <4>7
      <4>9. 3 * k + (j - 1) \in 0 .. n
        BY <2>2, <4>3, <4>6, <4>7
      <4> QED
        BY <4>8, <4>9 DEF Beginnings, n
    <3> QED
      BY <3>1, <3>2
  <2>10. Out(text, N) = body
    <3> DEFINE c == ChunkLen(n, K)
    <3>1. K \in 1 .. K /\ c \in 1 .. 3
      BY <2>2
    <3>2. K - 1 \in 0 .. K - 1 /\ (K - 1) + 1 = K
      BY <2>2
    <3>3. c + 1 \in 1 .. ChunkLen(n, (K - 1) + 1) + 1
      BY <3>1, <3>2
    <3>4. Out(text, 4 * (K - 1) + (c + 1)) = Cut(body, 3 * (K - 1) + ((c + 1) - 1))
      BY <2>8, <3>2, <3>3
    <3> HIDE DEF c
    <3>5. 4 * (K - 1) + (c + 1) = N /\ 3 * (K - 1) + ((c + 1) - 1) = n
      BY <2>2, <2>3, <3>1 DEF c
    <3> QED
      BY <3>4, <3>5, WholeCut DEF n
  <2> QED
    BY <2>3, <2>9, <2>10 DEF Carried, N, text
<1>3. n = 0 \/ n > 0
  OBVIOUS
<1> QED
  BY <1>1, <1>2, <1>3, Zenon

-----------------------------------------------------------------------------
(* Texts as they are carried *)

Code == Letter \cup Ignored

LEMMA CodeChar ==
  /\ \A v \in Code : v \in Char /\ v # Dot
  /\ \A v \in Ignored : v \in Code
  /\ \A v \in Letter : v \in Code /\ v \in Char
  /\ Space \in Ignored /\ Space \in Char /\ Space # Dot /\ Dot \in Char
  BY DEF Code, Letter, Ignored, Space, Padding, Dot, Char

LEMMA KindChar ==
  ASSUME NEW kind \in Kinds
  PROVE  \E v \in Char : kind = <<v>> /\ v # Space /\ v # Dot
<1>1. 40 \in Char /\ 26 \in Char /\ 40 # Space /\ 26 # Space /\ 40 # Dot /\ 26 # Dot
  BY DEF Char, Space, Dot
<1> QED
  BY <1>1 DEF Kinds, Offer, Answer

LEMMA CodeText ==
  ASSUME NEW text \in Seq(Code)
  PROVE  text \in Seq(Char)
  BY CodeChar

\* t is text with ch after its first i characters.
WithInserted(t, C, text, i, ch) ==
  /\ t \in Seq(C) /\ Len(t) = Len(text) + 1
  /\ \A j \in 1 .. i : t[j] = text[j]
  /\ t[i + 1] = ch
  /\ \A j \in i + 1 .. Len(text) : t[j + 1] = text[j]

\* u is s, with n elements, followed by t, with m.
Concatenated(u, C, s, n, t, m) ==
  /\ u \in Seq(C) /\ Len(u) = n + m
  /\ \A i \in 1 .. n : u[i] = s[i]
  /\ \A j \in 1 .. m : u[n + j] = t[j]

LEMMA TwoParts ==
  ASSUME NEW C, NEW s \in Seq(C), NEW t \in Seq(C)
  PROVE  Concatenated(s \o t, C, s, Len(s), t, Len(t))
<1>1. s \o t \in Seq(C)
  OBVIOUS
<1>2. Len(s \o t) = Len(s) + Len(t)
  OBVIOUS
<1>3. \A i \in 1 .. Len(s) : (s \o t)[i] = s[i]
  OBVIOUS
<1>4. \A j \in 1 .. Len(t) : (s \o t)[Len(s) + j] = t[j]
  OBVIOUS
<1> QED
  BY <1>1, <1>2, <1>3, <1>4 DEF Concatenated

LEMMA InsertedText ==
  ASSUME NEW C, NEW text \in Seq(C), NEW i \in 0 .. Len(text), NEW ch \in C
  PROVE  WithInserted(Inserted(text, i, ch), C, text, i, ch)
<1> DEFINE a == Cut(text, i)
           b == <<ch>>
           c == From(text, i)
           ab == a \o b
           t == ab \o c
           N == Len(text)
<1>1. a \in Seq(C) /\ Len(a) = i /\ \A j \in 1 .. i : a[j] = text[j]
  BY DEF Cut
<1>2. c \in Seq(C) /\ Len(c) = N - i
  BY DEF From
<1>3. \A j \in 1 .. N - i : c[j] = text[i + j]
  BY DEF From
<1>4. b \in Seq(C) /\ Len(b) = 1 /\ b[1] = ch
  OBVIOUS
<1> HIDE DEF a, b, c
<1>5. Concatenated(ab, C, a, i, b, 1)
  <2>1. Concatenated(ab, C, a, Len(a), b, Len(b))
    BY <1>1, <1>4, TwoParts
  <2> QED
    BY <1>1, <1>4, <2>1
<1>50. ab \in Seq(C) /\ Len(ab) = i + 1
  BY <1>5 DEF Concatenated
<1>6. (\A j \in 1 .. i : ab[j] = a[j]) /\ ab[i + 1] = b[1]
  BY <1>5 DEF Concatenated
<1> HIDE DEF ab
<1>7. Concatenated(t, C, ab, i + 1, c, N - i)
  <2>1. Concatenated(t, C, ab, Len(ab), c, Len(c))
    BY <1>2, <1>50, TwoParts
  <2> QED
    BY <1>2, <1>50, <2>1
<1>8. /\ Len(t) = N + 1 /\ (\A j \in 1 .. i + 1 : t[j] = ab[j])
      /\ \A j \in 1 .. N - i : t[(i + 1) + j] = c[j]
      /\ t \in Seq(C)
  BY <1>7 DEF Concatenated
<1> HIDE DEF t
<1>9. ASSUME NEW j \in 1 .. i PROVE t[j] = text[j]
  BY <1>1, <1>6, <1>8
<1>10. t[i + 1] = ch
  BY <1>4, <1>6, <1>8
<1>11. ASSUME NEW j \in i + 1 .. N PROVE t[j + 1] = text[j]
  <2>1. j - i \in 1 .. N - i /\ (i + 1) + (j - i) = j + 1 /\ i + (j - i) = j
    OBVIOUS
  <2>2. t[(i + 1) + (j - i)] = c[j - i] /\ c[j - i] = text[i + (j - i)]
    BY <1>3, <1>8, <2>1
  <2> QED
    BY <2>1, <2>2
<1> QED
  BY <1>7, <1>8, <1>9, <1>10, <1>11 DEF t, ab, a, b, c, N, Inserted, WithInserted

LEMMA CutText ==
  ASSUME NEW C, NEW text \in Seq(C), NEW n \in 0 .. Len(text)
  PROVE  /\ Cut(text, n) \in Seq(C) /\ Len(Cut(text, n)) = n
         /\ \A j \in 1 .. n : Cut(text, n)[j] = text[j]
  BY DEF Cut

\* What is passed over changes no byte, wherever it is put.
LEMMA InsertedRun ==
  ASSUME NEW R \in Seq(Code), NEW i \in 0 .. Len(R), NEW ch \in Ignored, NEW body, NEW all,
         Carried(R, body, all)
  PROVE  Carried(Inserted(R, i, ch), body, all)
<1> DEFINE t == Inserted(R, i, ch)
           N == Len(R)
<1>1. ch \in Code
  BY CodeChar
<1>20. WithInserted(t, Code, R, i, ch)
  BY <1>1, InsertedText
<1>2. /\ t \in Seq(Code) /\ Len(t) = N + 1
      /\ \A j \in 1 .. i : t[j] = R[j]
      /\ t[i + 1] = ch
      /\ \A j \in i + 1 .. N : t[j + 1] = R[j]
  BY <1>20 DEF WithInserted
<1>3. t \in Seq(Char) /\ R \in Seq(Char) /\ N \in Nat
  BY <1>2, CodeText
<1> HIDE DEF t
<1>4. SameStates(t, 0, R, 0, i)
  <2>1. Runs(t)[0] = Runs(R)[0]
    BY <1>3, RunStart
  <2>2. 0 \in Nat /\ i \in Nat /\ 0 + i <= Len(t) /\ 0 + i <= Len(R)
    BY <1>2, <1>3
  <2>3. \A j \in 1 .. i : t[0 + j] = R[0 + j]
    <3>1. \A j \in 1 .. i : 0 + j = j
      OBVIOUS
    <3> QED
      BY <1>2, <3>1
  <2>4. SameText(t, 0, R, 0, i)
    BY <2>2, <2>3 DEF SameText
  <2> QED
    BY <1>3, <2>1, <2>2, <2>4, SameRun
<1>5. \A k \in 0 .. i : Runs(t)[k] = Runs(R)[k]
  <2>1. \A k \in 0 .. i : 0 + k = k
    OBVIOUS
  <2> QED
    BY <1>4, <2>1 DEF SameStates
<1>6. Runs(t)[i + 1] = Runs(R)[i]
  <2>1. i \in Nat /\ i < Len(t) /\ i \in 0 .. i
    BY <1>2, <1>3
  <2>2. Runs(t)[i + 1] = Decoded(Runs(t)[i], t[i + 1])
    BY <1>3, <2>1, RunStep
  <2> QED
    BY <1>2, <1>5, <2>1, <2>2, IgnoredChar
<1>7. SameStates(t, i + 1, R, i, N - i)
  <2>1. i \in Nat /\ i + 1 \in Nat /\ N - i \in Nat
        /\ (i + 1) + (N - i) <= Len(t) /\ i + (N - i) <= Len(R)
    BY <1>2, <1>3
  <2>2. ASSUME NEW j \in 1 .. N - i PROVE t[(i + 1) + j] = R[i + j]
    <3>1. i + j \in i + 1 .. N /\ (i + 1) + j = (i + j) + 1
      BY <2>1
    <3> QED
      BY <1>2, <3>1
  <2>3. SameText(t, i + 1, R, i, N - i)
    BY <2>1, <2>2 DEF SameText
  <2> QED
    BY <1>3, <1>6, <2>1, <2>3, SameRun
<1>8. ASSUME NEW n \in 0 .. Len(t) PROVE Out(t, n) \in Beginnings(body)
  <2>1. CASE n <= i
    <3>1. n \in 0 .. i /\ n \in 0 .. N
      BY <1>2, <1>3, <2>1
    <3> QED
      BY <1>5, <3>1 DEF Out, Carried
  <2>2. CASE n > i
    <3>1. n - (i + 1) \in 0 .. N - i /\ (i + 1) + (n - (i + 1)) = n
          /\ i + (n - (i + 1)) \in 0 .. N
      BY <1>2, <1>3, <2>2
    <3> DEFINE k == n - (i + 1)
    <3> HIDE DEF k
    <3>2. k \in 0 .. N - i /\ (i + 1) + k = n /\ i + k \in 0 .. N
      BY <3>1 DEF k
    <3>3. Runs(t)[n] = Runs(R)[i + k]
      BY <1>7, <3>2 DEF SameStates
    <3> QED
      BY <3>2, <3>3 DEF Out, Carried
  <2> QED
    BY <1>2, <1>3, <2>1, <2>2
<1>9. Out(t, Len(t)) = Out(R, N)
  <2>1. N - i \in 0 .. N - i /\ (i + 1) + (N - i) = Len(t) /\ i + (N - i) = N
    BY <1>2, <1>3
  <2>2. Runs(t)[(i + 1) + (N - i)] = Runs(R)[i + (N - i)]
    BY <1>7, <2>1 DEF SameStates
  <2> QED
    BY <2>1, <2>2 DEF Out
<1> QED
  BY <1>8, <1>9 DEF Carried, t

LEMMA CutRun ==
  ASSUME NEW R \in Seq(Code), NEW n \in 0 .. Len(R)
  PROVE  \A k \in 0 .. n : Out(Cut(R, n), k) = Out(R, k)
<1> DEFINE t == Cut(R, n)
<1>1. t \in Seq(Code) /\ Len(t) = n /\ \A j \in 1 .. n : t[j] = R[j]
  BY CutText
<1>2. t \in Seq(Char) /\ R \in Seq(Char)
  BY <1>1, CodeText
<1> HIDE DEF t
<1>3. \A j \in 0 .. n : 0 + j = j
  OBVIOUS
<1>4. \A j \in 1 .. n : t[0 + j] = R[0 + j]
  BY <1>1
<1>5. Runs(t)[0] = Runs(R)[0]
  BY <1>2, RunStart
<1>6. 0 \in Nat /\ n \in Nat /\ 0 + n <= Len(t) /\ 0 + n <= Len(R)
  BY <1>1
<1>7. SameText(t, 0, R, 0, n)
  BY <1>4, <1>6 DEF SameText
<1>8. SameStates(t, 0, R, 0, n)
  BY <1>2, <1>5, <1>6, <1>7, SameRun
<1> QED
  BY <1>3, <1>8 DEF SameStates, Out, t

LEMMA CutCarried ==
  ASSUME NEW R \in Seq(Code), NEW n \in 0 .. Len(R), NEW body, NEW all,
         Carried(R, body, all)
  PROVE  Carried(Cut(R, n), body, FALSE)
<1>1. Len(Cut(R, n)) = n /\ \A k \in 0 .. n : k \in 0 .. Len(R)
  BY CutText
<1> QED
  BY <1>1, CutRun DEF Carried

-----------------------------------------------------------------------------
(* What a page makes of a text *)

\* text is a blob, after f spaces, with R for its letters.
Framed(text, f, kind, R) ==
  /\ f \in Nat /\ R \in Seq(Code) /\ text \in Seq(Char) /\ Len(text) = f + 2 + Len(R)
  /\ \A j \in 1 .. f : text[j] = Space
  /\ kind = <<text[f + 1]>> /\ text[f + 2] = Dot
  /\ \A j \in 1 .. Len(R) : text[f + 2 + j] = R[j]

\* t is text from a character a on, to character b.
Part(t, text, a, b) ==
  /\ t = SubSeq(text, a, b) /\ t \in Seq(Char) /\ Len(t) = b - a + 1
  /\ \A i \in 1 .. b - a + 1 : t[i] = text[(a - 1) + i]

LEMMA PartOf ==
  ASSUME NEW text \in Seq(Char), NEW a \in 1 .. Len(text), NEW b \in 1 .. Len(text), a <= b
  PROVE  Part(SubSeq(text, a, b), text, a, b)
<1> DEFINE t == SubSeq(text, a, b)
<1>1. t \in Seq(Char)
  OBVIOUS
<1>2. Len(t) = b - a + 1
  OBVIOUS
<1>3. \A i \in 1 .. b - a + 1 : t[i] = text[(a - 1) + i]
  OBVIOUS
<1> QED
  BY <1>1, <1>2, <1>3 DEF Part

Solid(text) == {i \in DOMAIN text : text[i] # Space}
Dots(text) == {i \in DOMAIN text : text[i] = Dot}

LEMMA Ends ==
  ASSUME NEW text \in Seq(Char), Solid(text) # {}
  PROVE  /\ Min(Solid(text)) \in Solid(text) /\ \A i \in Solid(text) : Min(Solid(text)) <= i
         /\ Max(Solid(text)) \in Solid(text) /\ \A i \in Solid(text) : i <= Max(Solid(text))
         /\ Trim(text) = SubSeq(text, Min(Solid(text)), Max(Solid(text)))
<1> DEFINE S == Solid(text)
<1>1. S \subseteq Nat /\ Len(text) \in Nat /\ \A i \in S : i <= Len(text)
  BY DEF Solid
<1>2. Trim(text) = SubSeq(text, Min(S), Max(S))
  BY DEF Trim, Solid
<1> HIDE DEF S
<1>3. S # {}
  BY DEF S
<1>4. Max(S) \in S /\ \A i \in S : i <= Max(S)
  BY <1>1, <1>3, BoundedMax
<1>5. \E m \in S : \A i \in S : m <= i
  BY <1>1, <1>3, LeastNumber
<1>6. Min(S) \in S /\ \A i \in S : Min(S) <= i
  BY <1>5 DEF Min
<1> QED
  BY <1>2, <1>4, <1>6 DEF S

LEMMA Dotless ==
  ASSUME NEW text \in Seq(Char), \A i \in 1 .. Len(text) : text[i] # Dot
  PROVE  AcceptBlob(text) = Rejected
<1> DEFINE t == Trim(text)
<1>1. Dots(t) = {}
  <2>1. CASE Solid(text) = {}
    <3>1. t = <<>>
      BY <2>1 DEF Trim, Solid
    <3> QED
      BY <3>1 DEF Dots
  <2>2. CASE Solid(text) # {}
    <3> DEFINE a == Min(Solid(text))
               b == Max(Solid(text))
    <3>1. a \in Solid(text) /\ b \in Solid(text) /\ a <= b /\ t = SubSeq(text, a, b)
      BY <2>2, Ends
    <3>2. a \in 1 .. Len(text) /\ b \in 1 .. Len(text)
      BY <3>1 DEF Solid
    <3> HIDE DEF a, b, t
    <3>3. Part(t, text, a, b)
      BY <3>1, <3>2, PartOf
    <3>4. t \in Seq(Char) /\ Len(t) = b - a + 1
      BY <3>3 DEF Part
    <3>5. ASSUME NEW i \in 1 .. Len(t) PROVE t[i] # Dot
      <4>1. i \in 1 .. b - a + 1 /\ (a - 1) + i \in 1 .. Len(text)
        BY <3>1, <3>2, <3>4
      <4>2. t[i] = text[(a - 1) + i]
        BY <3>3, <4>1 DEF Part
      <4> QED
        BY <4>1, <4>2
    <3> QED
      BY <3>4, <3>5 DEF Dots
  <2> QED
    BY <2>1, <2>2
<1> QED
  BY <1>1 DEF AcceptBlob, Dots

LEMMA BeginningText ==
  ASSUME NEW body \in Seq(Byte), IsText(body), NEW s \in Beginnings(body)
  PROVE  IsText(s)
<1>1. PICK n \in 0 .. Len(body) : s = Cut(body, n)
  BY DEF Beginnings
<1>2. s \in Seq(Byte) /\ Len(s) = n /\ \A j \in 1 .. n : s[j] = body[j]
  BY <1>1, CutText
<1> QED
  BY <1>2 DEF IsText

\* The letters of a blob, cut after the last that is not a space, decode to what
\* all of them do.
LEMMA TrailingSpace ==
  ASSUME NEW R \in Seq(Code), NEW m \in 0 .. Len(R),
         \A i \in m + 1 .. Len(R) : R[i] = Space
  PROVE  Runs(R)[m] = Runs(R)[Len(R)]
<1> DEFINE K == Len(R) - m
<1>1. R \in Seq(Char)
  BY CodeText
<1>2. m \in Nat /\ K \in Nat /\ m + K = Len(R)
  OBVIOUS
<1>3. \A j \in 1 .. K : R[m + j] \in Ignored
  <2> SUFFICES ASSUME NEW j \in 1 .. K PROVE R[m + j] \in Ignored
    OBVIOUS
  <2>1. m + j \in m + 1 .. Len(R)
    OBVIOUS
  <2> QED
    BY <2>1, CodeChar
<1> HIDE DEF K
<1>30. AllIgnored(R, m, K)
  BY <1>2, <1>3 DEF AllIgnored
<1>4. Runs(R)[m + K] = Runs(R)[m]
  BY <1>1, <1>2, <1>30, IgnoredRun
<1> QED
  BY <1>2, <1>4

\* A framed blob is taken, whatever of it is there.
LEMMA FramedIsTaken ==
  ASSUME NEW text, NEW f, NEW R, NEW kind \in Kinds, Framed(text, f, kind, R),
         NEW body \in Seq(Byte), IsText(body), NEW all, Carried(R, body, all)
  PROVE  AcceptBlob(text) = Pasted(kind, Out(R, Len(R)))
<1> DEFINE N == Len(R)
           S == Solid(text)
           M == Max(S)
           t == Trim(text)
           m == M - f - 2
           e == From(t, 2)
<1>1. /\ f \in Nat /\ R \in Seq(Code) /\ N \in Nat /\ text \in Seq(Char)
      /\ Len(text) = f + 2 + N
      /\ \A j \in 1 .. f : text[j] = Space
      /\ kind = <<text[f + 1]>> /\ text[f + 2] = Dot
      /\ \A j \in 1 .. N : text[f + 2 + j] = R[j]
  BY DEF Framed
<1>2. text[f + 1] \in Char /\ text[f + 1] # Space /\ text[f + 1] # Dot
  BY <1>1, KindChar
<1>3. f + 1 \in S /\ f + 2 \in S /\ \A i \in S : i \in 1 .. Len(text) /\ f + 1 <= i
  <2>1. f + 1 \in 1 .. Len(text) /\ f + 2 \in 1 .. Len(text)
    BY <1>1
  <2>2. f + 1 \in S /\ f + 2 \in S
    BY <1>1, <1>2, <2>1, CodeChar DEF Solid
  <2>3. \A i \in S : i \in 1 .. Len(text) /\ text[i] # Space
    BY <1>1 DEF Solid
  <2>4. \A i \in S : ~(i <= f)
    BY <1>1, <2>3
  <2> QED
    BY <1>1, <2>2, <2>3, <2>4
<1>4. /\ S # {} /\ Min(S) \in S /\ (\A i \in S : Min(S) <= i)
      /\ M \in S /\ (\A i \in S : i <= M) /\ t = SubSeq(text, Min(S), M)
  BY <1>1, <1>3, Ends
<1>5. \A i \in M + 1 .. Len(text) : text[i] = Space
  <2> SUFFICES ASSUME NEW i \in M + 1 .. Len(text), text[i] # Space PROVE FALSE
    OBVIOUS
  <2>1. M \in Nat /\ i \in 1 .. Len(text)
    BY <1>1, <1>3, <1>4
  <2>2. i \in S
    BY <1>1, <2>1 DEF Solid
  <2> QED
    BY <1>4, <2>1, <2>2
<1> HIDE DEF S, M, t
<1>6. Min(S) = f + 1
  <2>1. Min(S) <= f + 1 /\ f + 1 <= Min(S) /\ Min(S) \in 1 .. Len(text)
    BY <1>3, <1>4
  <2> QED
    BY <1>1, <2>1
<1>7. M \in 1 .. Len(text) /\ f + 2 <= M /\ f + 1 \in 1 .. Len(text)
  BY <1>3, <1>4
<1>8. Part(t, text, f + 1, M)
  BY <1>1, <1>4, <1>6, <1>7, PartOf
<1>9. t \in Seq(Char) /\ Len(t) = M - f /\ \A i \in 1 .. M - f : t[i] = text[f + i]
  <2>1. M - (f + 1) + 1 = M - f /\ (f + 1) - 1 = f
    BY <1>1, <1>7
  <2> QED
    BY <1>8, <2>1 DEF Part
<1>10. m \in 0 .. N /\ M = f + 2 + m /\ M - f = m + 2
  BY <1>1, <1>7
<1> HIDE DEF m
<1>11. Len(t) = m + 2 /\ \A i \in 1 .. m + 2 : t[i] = text[f + i]
  BY <1>9, <1>10
<1>12. t[1] = text[f + 1] /\ t[2] = Dot
  BY <1>1, <1>10, <1>11
<1>13. \A j \in 1 .. m : t[2 + j] = R[j]
  <2> SUFFICES ASSUME NEW j \in 1 .. m PROVE t[2 + j] = R[j]
    OBVIOUS
  <2>1. 2 + j \in 1 .. m + 2 /\ f + (2 + j) = f + 2 + j /\ j \in 1 .. N
    <3>1. m \in Nat /\ m <= N /\ f \in Nat
      BY <1>1, <1>10
    <3> QED
      BY <1>1, <3>1
  <2>2. t[2 + j] = text[f + (2 + j)]
    BY <1>11, <2>1
  <2> QED
    BY <1>1, <2>1, <2>2
<1>14. \A j \in 1 .. N : R[j] \in Code /\ R[j] # Dot
  BY <1>1, CodeChar
<1>15. Dots(t) = {2}
  <2>1. 2 \in Dots(t)
    BY <1>9, <1>10, <1>11, <1>12 DEF Dots
  <2>2. ASSUME NEW i \in Dots(t) PROVE i = 2
    <3>1. i \in 1 .. m + 2 /\ t[i] = Dot
      BY <1>9, <1>11 DEF Dots
    <3>2. i # 1
      BY <1>2, <1>12, <3>1
    <3>3. ~(i > 2)
      <4> SUFFICES ASSUME i > 2 PROVE FALSE
        OBVIOUS
      <4>1. i - 2 \in 1 .. m /\ 2 + (i - 2) = i /\ i - 2 \in 1 .. N
        BY <1>10, <3>1
      <4>2. t[i] = R[i - 2]
        BY <1>13, <4>1
      <4> QED
        BY <1>14, <3>1, <4>1, <4>2
    <3> QED
      BY <3>1, <3>2, <3>3
  <2> QED
    BY <2>1, <2>2
<1>16. Min({2}) = 2
  BY DEF Min
<1>17. Cut(t, 2 - 1) = kind
  <2>1. 1 \in 0 .. Len(t)
    BY <1>10, <1>11
  <2>2. Cut(t, 1) \in Seq(Char) /\ Len(Cut(t, 1)) = 1 /\ Cut(t, 1)[1] = t[1]
    <3>1. /\ Cut(t, 1) \in Seq(Char) /\ Len(Cut(t, 1)) = 1
          /\ \A j \in 1 .. 1 : Cut(t, 1)[j] = t[j]
      BY <1>9, <2>1, CutText
    <3>2. 1 \in 1 .. 1
      OBVIOUS
    <3> QED
      BY <3>1, <3>2
  <2> DEFINE k == Cut(t, 1)
  <2> HIDE DEF k
  <2>3. k = <<t[1]>>
    BY <2>2 DEF k
  <2>4. 2 - 1 = 1
    OBVIOUS
  <2> QED
    BY <1>1, <1>12, <2>3, <2>4 DEF k
<1>18. e \in Seq(Char) /\ Len(e) = m /\ \A j \in 1 .. m : e[j] = R[j]
  <2>1. e \in Seq(Char)
    BY <1>9 DEF From
  <2>2. Len(e) = m
    BY <1>9, <1>10, <1>11 DEF From
  <2>3. \A j \in 1 .. m : e[j] = t[2 + j]
    BY <1>9, <1>10, <1>11 DEF From
  <2> QED
    BY <1>13, <2>1, <2>2, <2>3
<1> HIDE DEF e
<1>19. \A i \in DOMAIN e : e[i] \in Letter \cup Ignored
  <2>1. \A i \in DOMAIN e : i \in 1 .. m /\ i \in 1 .. N
    BY <1>10, <1>18
  <2> QED
    BY <1>14, <1>18, <2>1 DEF Code
<1>20. Base64Decode(e) = Out(R, N)
  <2>1. R \in Seq(Char)
    BY <1>1, CodeText
  <2>2. 0 \in Nat /\ m \in Nat /\ 0 + m <= Len(e) /\ 0 + m <= Len(R)
    BY <1>10, <1>18
  <2>3. \A j \in 1 .. m : 0 + j = j
    OBVIOUS
  <2>4. SameText(e, 0, R, 0, m)
    BY <1>18, <2>2, <2>3 DEF SameText
  <2>5. Runs(e)[0] = Runs(R)[0]
    BY <1>18, <2>1, RunStart
  <2>6. SameStates(e, 0, R, 0, m)
    BY <1>18, <2>1, <2>2, <2>4, <2>5, SameRun
  <2>7. m \in 0 .. m /\ 0 + m = m
    BY <2>2
  <2>8. Runs(e)[m] = Runs(R)[m]
    BY <2>6, <2>7 DEF SameStates
  <2>9. ASSUME NEW i \in m + 1 .. N PROVE R[i] = Space
    <3>1. i \in 1 .. N /\ f + 2 + i \in M + 1 .. Len(text)
      BY <1>1, <1>10
    <3> QED
      BY <1>1, <1>5, <3>1
  <2>10. Runs(R)[m] = Runs(R)[N]
    BY <1>1, <1>10, <2>9, TrailingSpace
  <2> QED
    BY <1>18, <2>8, <2>10 DEF Base64Decode, Out
<1>21. IsText(Base64Decode(e))
  <2>1. N \in 0 .. N
    BY <1>1
  <2>2. Out(R, N) \in Beginnings(body)
    BY <2>1 DEF Carried
  <2> QED
    BY <1>20, <2>2, BeginningText
<1>22. kind \in {Offer, Answer}
  BY DEF Kinds
<1> DEFINE dots == {i \in DOMAIN Trim(text) : Trim(text)[i] = Dot}
           enc == From(Trim(text), Min(dots))
           knd == Cut(Trim(text), Min(dots) - 1)
<1>23. AcceptBlob(text) =
         IF \/ dots = {}
            \/ \E i \in DOMAIN enc : enc[i] \notin Letter \cup Ignored
            \/ ~IsText(Base64Decode(enc))
            \/ knd \notin {Offer, Answer}
           THEN Rejected ELSE Pasted(knd, Base64Decode(enc))
  BY DEF AcceptBlob
<1>24. dots = {2} /\ enc = e /\ knd = kind
  <2>1. dots = Dots(t)
    BY DEF Dots, t
  <2> HIDE DEF dots
  <2> QED
    BY <1>15, <1>16, <1>17, <2>1 DEF t, e
<1> HIDE DEF dots, enc, knd
<1>25. dots # {}
  BY <1>24
<1> QED
  BY <1>19, <1>20, <1>21, <1>22, <1>23, <1>24, <1>25

-----------------------------------------------------------------------------
(* What an edit does to a blob *)

LEMMA Copied ==
  ASSUME NEW kind \in Kinds, NEW body \in Seq(Byte)
  PROVE  Framed(EncodeBlob(kind, body), 0, kind, Base64Encode(body))
<1> DEFINE L == Base64Encode(body)
           d == <<Dot>>
           h == kind \o d
           t == h \o L
           N == Len(L)
<1>1. L \in Seq(Code) /\ L \in Seq(Char) /\ N \in Nat
  <2>1. L \in Seq(Letter)
    BY RoundTrip
  <2> HIDE DEF L
  <2> QED
    BY <2>1, CodeChar
<1>2. PICK v \in Char : kind = <<v>>
  BY KindChar
<1>3. d \in Seq(Char) /\ Len(d) = 1 /\ d[1] = Dot /\ kind \in Seq(Char) /\ Len(kind) = 1
  BY <1>2, CodeChar
<1> HIDE DEF L, d
<1>4. Concatenated(h, Char, kind, 1, d, 1)
  <2>1. Concatenated(h, Char, kind, Len(kind), d, Len(d))
    BY <1>3, TwoParts
  <2> QED
    BY <1>3, <2>1
<1>5. h \in Seq(Char) /\ Len(h) = 2 /\ h[1] = kind[1] /\ h[2] = Dot
  <2>1. 1 \in 1 .. 1 /\ 1 + 1 = 2
    OBVIOUS
  <2> HIDE DEF h
  <2> QED
    BY <1>3, <1>4, <2>1 DEF Concatenated
<1> HIDE DEF h
<1>6. Concatenated(t, Char, h, 2, L, N)
  <2>1. Concatenated(t, Char, h, Len(h), L, N)
    BY <1>1, <1>5, TwoParts
  <2> QED
    BY <1>5, <2>1
<1> HIDE DEF t, N
<1>7. /\ t \in Seq(Char) /\ Len(t) = 0 + 2 + N /\ t[1] = kind[1] /\ t[2] = Dot
      /\ \A j \in 1 .. N : t[2 + j] = L[j]
  <2>1. 1 \in 1 .. 2 /\ 2 \in 1 .. 2 /\ 0 + 2 + N = 2 + N
    BY <1>1
  <2> QED
    BY <1>5, <1>6, <2>1 DEF Concatenated
<1>8. kind = <<t[1]>>
  BY <1>2, <1>7
<1>9. 0 + 1 = 1 /\ 0 + 2 = 2 /\ \A j \in 1 .. 0 : t[j] = Space
  OBVIOUS
<1>10. Framed(t, 0, kind, L)
  BY <1>1, <1>7, <1>8, <1>9 DEF Framed, N
<1> QED
  BY <1>10 DEF t, h, d, L, EncodeBlob

\* Nothing but spaces comes before the kind, and no dot before the one.
LEMMA FrameEnds ==
  ASSUME NEW text, NEW f, NEW R, NEW kind \in Kinds, Framed(text, f, kind, R)
  PROVE  /\ text[f + 1] # Space /\ text[f + 1] # Dot /\ f + 1 \in 1 .. Len(text)
         /\ \A j \in 1 .. f + 1 : text[j] # Dot
<1>1. /\ f \in Nat /\ Len(R) \in Nat /\ Len(text) = f + 2 + Len(R)
      /\ (\A j \in 1 .. f : text[j] = Space) /\ kind = <<text[f + 1]>>
  BY DEF Framed
<1>2. text[f + 1] # Space /\ text[f + 1] # Dot
  <2>1. PICK v \in Char : kind = <<v>> /\ v # Space /\ v # Dot
    BY KindChar
  <2>2. v = text[f + 1]
    BY <1>1, <2>1
  <2> QED
    BY <2>1, <2>2
<1>3. \A j \in 1 .. f + 1 : j \in 1 .. f \/ j = f + 1
  BY <1>1
<1> QED
  BY <1>1, <1>2, <1>3, CodeChar

LEMMA Indented ==
  ASSUME NEW text, NEW f, NEW R, NEW kind \in Kinds, Framed(text, f, kind, R),
         NEW i \in 0 .. Len(text), \A j \in 1 .. i : text[j] = Space
  PROVE  Framed(Inserted(text, i, Space), f + 1, kind, R)
<1> DEFINE t == Inserted(text, i, Space)
<1>1. /\ f \in Nat /\ R \in Seq(Code) /\ Len(R) \in Nat /\ text \in Seq(Char)
      /\ Len(text) = f + 2 + Len(R) /\ (\A j \in 1 .. f : text[j] = Space)
      /\ kind = <<text[f + 1]>> /\ text[f + 2] = Dot
      /\ \A j \in 1 .. Len(R) : text[f + 2 + j] = R[j]
  BY DEF Framed
<1>2. i <= f
  <2>1. text[f + 1] # Space
    BY FrameEnds
  <2>2. ~(f + 1 \in 1 .. i)
    BY <2>1
  <2> QED
    BY <1>1, <2>2
<1>3. WithInserted(t, Char, text, i, Space)
  BY <1>1, CodeChar, InsertedText
<1> HIDE DEF t
<1>4. /\ t \in Seq(Char) /\ Len(t) = Len(text) + 1 /\ (\A j \in 1 .. i : t[j] = text[j])
      /\ t[i + 1] = Space /\ \A j \in i + 1 .. Len(text) : t[j + 1] = text[j]
  BY <1>3 DEF WithInserted
<1>5. ASSUME NEW j \in 1 .. f + 1 PROVE t[j] = Space
  <2>1. CASE j <= i
    <3>1. j \in 1 .. i
      BY <1>1, <1>2, <2>1
    <3> QED
      BY <1>4, <3>1
  <2>2. CASE j = i + 1
    BY <1>4, <2>2
  <2>3. CASE j > i + 1
    <3>1. j - 1 \in i + 1 .. Len(text) /\ j - 1 \in 1 .. f /\ (j - 1) + 1 = j
      BY <1>1, <1>2, <2>3
    <3>2. t[(j - 1) + 1] = text[j - 1]
      BY <1>4, <3>1
    <3> QED
      BY <1>1, <3>1, <3>2
  <2> QED
    BY <1>1, <1>2, <2>1, <2>2, <2>3
<1>6. t[f + 1 + 1] = text[f + 1] /\ t[f + 1 + 2] = text[f + 2]
  <2>1. f + 1 \in i + 1 .. Len(text) /\ f + 2 \in i + 1 .. Len(text)
        /\ f + 1 + 1 = (f + 1) + 1 /\ f + 1 + 2 = (f + 2) + 1
    BY <1>1, <1>2
  <2>2. t[(f + 1) + 1] = text[f + 1] /\ t[(f + 2) + 1] = text[f + 2]
    BY <1>4, <2>1
  <2> QED
    BY <2>1, <2>2
<1>7. ASSUME NEW j \in 1 .. Len(R) PROVE t[f + 1 + 2 + j] = R[j]
  <2>1. f + 2 + j \in i + 1 .. Len(text) /\ f + 1 + 2 + j = (f + 2 + j) + 1
    BY <1>1, <1>2
  <2>2. t[(f + 2 + j) + 1] = text[f + 2 + j]
    BY <1>4, <2>1
  <2> QED
    BY <1>1, <2>1, <2>2
<1>8. f + 1 \in Nat /\ Len(t) = f + 1 + 2 + Len(R)
  BY <1>1, <1>4
<1>9. Framed(t, f + 1, kind, R)
  BY <1>1, <1>4, <1>5, <1>6, <1>7, <1>8 DEF Framed
<1> QED
  BY <1>9 DEF t

LEMMA WrappedText ==
  ASSUME NEW text, NEW f, NEW R, NEW kind \in Kinds, Framed(text, f, kind, R),
         NEW i \in 0 .. Len(text), NEW ch \in Ignored, \E j \in 1 .. i : text[j] = Dot
  PROVE  /\ i - (f + 2) \in 0 .. Len(R)
         /\ Framed(Inserted(text, i, ch), f, kind, Inserted(R, i - (f + 2), ch))
<1> DEFINE t == Inserted(text, i, ch)
           k == i - (f + 2)
           Q == Inserted(R, k, ch)
<1>1. /\ f \in Nat /\ R \in Seq(Code) /\ Len(R) \in Nat /\ text \in Seq(Char)
      /\ Len(text) = f + 2 + Len(R) /\ (\A j \in 1 .. f : text[j] = Space)
      /\ kind = <<text[f + 1]>> /\ text[f + 2] = Dot
      /\ \A j \in 1 .. Len(R) : text[f + 2 + j] = R[j]
  BY DEF Framed
<1>2. f + 2 <= i
  <2>1. PICK j \in 1 .. i : text[j] = Dot
    OBVIOUS
  <2>2. ~(j \in 1 .. f + 1)
    BY <2>1, FrameEnds
  <2> QED
    BY <1>1, <2>2
<1>3. k \in 0 .. Len(R) /\ i = f + 2 + k
  BY <1>1, <1>2
<1> HIDE DEF k
<1>4. WithInserted(t, Char, text, i, ch)
  BY <1>1, CodeChar, InsertedText
<1>5. WithInserted(Q, Code, R, k, ch)
  BY <1>1, <1>3, CodeChar, InsertedText
<1> HIDE DEF t, Q
<1>6. /\ t \in Seq(Char) /\ Len(t) = Len(text) + 1 /\ (\A j \in 1 .. i : t[j] = text[j])
      /\ t[i + 1] = ch /\ \A j \in i + 1 .. Len(text) : t[j + 1] = text[j]
  BY <1>4 DEF WithInserted
<1>7. /\ Q \in Seq(Code) /\ Len(Q) = Len(R) + 1 /\ (\A j \in 1 .. k : Q[j] = R[j])
      /\ Q[k + 1] = ch /\ \A j \in k + 1 .. Len(R) : Q[j + 1] = R[j]
  BY <1>5 DEF WithInserted
<1>8. \A j \in 1 .. f + 2 : j \in 1 .. i
  BY <1>1, <1>2
<1>9. (\A j \in 1 .. f : t[j] = Space) /\ t[f + 1] = text[f + 1] /\ t[f + 2] = Dot
  <2>1. (\A j \in 1 .. f : j \in 1 .. f + 2) /\ f + 1 \in 1 .. f + 2 /\ f + 2 \in 1 .. f + 2
    BY <1>1
  <2> QED
    BY <1>1, <1>6, <1>8, <2>1
<1>10. ASSUME NEW j \in 1 .. Len(Q) PROVE t[f + 2 + j] = Q[j]
  <2>1. CASE j <= k
    <3>1. j \in 1 .. k /\ j \in 1 .. Len(R) /\ f + 2 + j \in 1 .. i
      BY <1>1, <1>3, <1>7, <2>1
    <3> QED
      BY <1>1, <1>6, <1>7, <3>1
  <2>2. CASE j = k + 1
    <3>1. f + 2 + j = i + 1
      BY <1>1, <1>3, <2>2
    <3> QED
      BY <1>6, <1>7, <2>2, <3>1
  <2>3. CASE j > k + 1
    <3>1. /\ j - 1 \in k + 1 .. Len(R) /\ j - 1 \in 1 .. Len(R) /\ (j - 1) + 1 = j
          /\ f + 2 + (j - 1) \in i + 1 .. Len(text) /\ (f + 2 + (j - 1)) + 1 = f + 2 + j
      BY <1>1, <1>3, <1>7, <2>3
    <3>2. t[(f + 2 + (j - 1)) + 1] = text[f + 2 + (j - 1)] /\ Q[(j - 1) + 1] = R[j - 1]
      BY <1>6, <1>7, <3>1
    <3>3. text[f + 2 + (j - 1)] = R[j - 1]
      BY <1>1, <3>1
    <3> QED
      BY <3>1, <3>2, <3>3
  <2> QED
    BY <1>1, <1>3, <1>7, <2>1, <2>2, <2>3
<1>11. Len(t) = f + 2 + Len(Q)
  BY <1>1, <1>6, <1>7
<1>12. kind = <<t[f + 1]>>
  BY <1>1, <1>9
<1>13. Framed(t, f, kind, Q)
  BY <1>1, <1>6, <1>7, <1>9, <1>10, <1>11, <1>12 DEF Framed
<1> QED
  BY <1>3, <1>13 DEF t, Q, k

LEMMA CutFramed ==
  ASSUME NEW text, NEW f, NEW R, NEW kind \in Kinds, Framed(text, f, kind, R),
         NEW n \in 0 .. Len(text) - 1
  PROVE  \/ /\ n - (f + 2) \in 0 .. Len(R)
            /\ Framed(Cut(text, n), f, kind, Cut(R, n - (f + 2)))
         \/ \A i \in 1 .. Len(Cut(text, n)) : Cut(text, n)[i] # Dot
<1> DEFINE t == Cut(text, n)
           k == n - (f + 2)
           Q == Cut(R, k)
<1>1. /\ f \in Nat /\ R \in Seq(Code) /\ Len(R) \in Nat /\ text \in Seq(Char)
      /\ Len(text) = f + 2 + Len(R) /\ (\A j \in 1 .. f : text[j] = Space)
      /\ kind = <<text[f + 1]>> /\ text[f + 2] = Dot
      /\ \A j \in 1 .. Len(R) : text[f + 2 + j] = R[j]
  BY DEF Framed
<1>2. n \in 0 .. Len(text)
  BY <1>1
<1>3. t \in Seq(Char) /\ Len(t) = n /\ \A j \in 1 .. n : t[j] = text[j]
  BY <1>1, <1>2, CutText
<1> HIDE DEF t
<1>4. CASE n <= f + 1
  <2>1. \A j \in 1 .. n : j \in 1 .. f + 1
    BY <1>1, <1>4
  <2>2. \A j \in 1 .. n : t[j] # Dot
    BY <1>3, <2>1, FrameEnds
  <2> QED
    BY <1>3, <2>2 DEF t
<1>5. CASE n > f + 1
  <2>1. k \in 0 .. Len(R) /\ n = f + 2 + k
    BY <1>1, <1>2, <1>5
  <2> HIDE DEF k
  <2>2. Q \in Seq(Code) /\ Len(Q) = k /\ \A j \in 1 .. k : Q[j] = R[j]
    BY <1>1, <2>1, CutText
  <2> HIDE DEF Q
  <2>3. (\A j \in 1 .. f : t[j] = Space) /\ t[f + 1] = text[f + 1] /\ t[f + 2] = Dot
    <3>1. (\A j \in 1 .. f : j \in 1 .. n) /\ f + 1 \in 1 .. n /\ f + 2 \in 1 .. n
      BY <1>1, <1>2, <1>5
    <3> QED
      BY <1>1, <1>3, <3>1
  <2>4. ASSUME NEW j \in 1 .. Len(Q) PROVE t[f + 2 + j] = Q[j]
    <3>1. j \in 1 .. k /\ j \in 1 .. Len(R) /\ f + 2 + j \in 1 .. n
      BY <1>1, <2>1, <2>2
    <3> QED
      BY <1>1, <1>3, <2>2, <3>1
  <2>5. kind = <<t[f + 1]>> /\ Len(t) = f + 2 + Len(Q)
    BY <1>1, <1>3, <2>1, <2>2, <2>3
  <2>6. Framed(t, f, kind, Q)
    BY <1>1, <1>3, <2>2, <2>3, <2>4, <2>5 DEF Framed
  <2> QED
    BY <2>1, <2>6 DEF t, Q, k
<1> QED
  BY <1>1, <1>2, <1>4, <1>5

-----------------------------------------------------------------------------
(* What any number of edits leaves *)

\* A text from which the decoder gets a beginning of the body, and the whole
\* body if all of the text must be there.
Legible(text, kind, body, all) ==
  \E f, R : Framed(text, f, kind, R) /\ Carried(R, body, all)

Illegible(text) == text \in Seq(Char) /\ \A i \in 1 .. Len(text) : text[i] # Dot

Sound(text, kind, body, lossy) ==
  \/ Legible(text, kind, body, ~lossy)
  \/ lossy /\ Illegible(text)

LEMMA FreshIsSound ==
  ASSUME NEW kind \in Kinds, NEW body \in Seq(Byte), NEW lossy \in BOOLEAN
  PROVE  Sound(EncodeBlob(kind, body), kind, body, lossy)
<1>1. Framed(EncodeBlob(kind, body), 0, kind, Base64Encode(body))
  BY Copied
<1>2. Carried(Base64Encode(body), body, TRUE)
  BY RoundTrip
<1>3. Carried(Base64Encode(body), body, ~lossy)
  BY <1>2 DEF Carried
<1> QED
  BY <1>1, <1>3 DEF Sound, Legible

\* An insertion keeps what was legible so, and adds no dot.
LEMMA InsertionKeeps ==
  ASSUME NEW kind \in Kinds, NEW body, NEW lossy \in BOOLEAN,
         NEW text, Sound(text, kind, body, lossy),
         NEW ch \in Ignored, NEW i \in 0 .. Len(text),
         \/ ch = Space /\ \A j \in 1 .. i : text[j] = Space
         \/ \E j \in 1 .. i : text[j] = Dot
  PROVE  Sound(Inserted(text, i, ch), kind, body, lossy)
<1> DEFINE t == Inserted(text, i, ch)
<1>1. CASE Legible(text, kind, body, ~lossy)
  <2>1. PICK f, R : Framed(text, f, kind, R) /\ Carried(R, body, ~lossy)
    BY <1>1 DEF Legible
  <2>2. R \in Seq(Code)
    BY <2>1 DEF Framed
  <2>3. CASE ch = Space /\ \A j \in 1 .. i : text[j] = Space
    <3>1. Framed(t, f + 1, kind, R)
      BY <2>1, <2>3, Indented
    <3> QED
      BY <2>1, <3>1 DEF Legible, Sound
  <2>4. CASE \E j \in 1 .. i : text[j] = Dot
    <3> DEFINE k == i - (f + 2)
               Q == Inserted(R, k, ch)
    <3>1. k \in 0 .. Len(R) /\ Framed(t, f, kind, Q)
      BY <2>1, <2>4, WrappedText
    <3> HIDE DEF k, t
    <3>2. Carried(Q, body, ~lossy)
      BY <2>1, <2>2, <3>1, InsertedRun
    <3> HIDE DEF Q
    <3>3. Sound(t, kind, body, lossy)
      BY <3>1, <3>2 DEF Legible, Sound
    <3> QED
      BY <3>3 DEF t
  <2> QED
    BY <2>3, <2>4
<1>2. CASE lossy /\ Illegible(text)
  <2>1. text \in Seq(Char) /\ Len(text) \in Nat /\ \A j \in 1 .. Len(text) : text[j] # Dot
    BY <1>2 DEF Illegible
  <2>2. ch \in Char /\ ch # Dot
    BY CodeChar
  <2>3. WithInserted(t, Char, text, i, ch)
    BY <2>1, <2>2, InsertedText
  <2> HIDE DEF t
  <2>4. /\ t \in Seq(Char) /\ Len(t) = Len(text) + 1 /\ (\A j \in 1 .. i : t[j] = text[j])
        /\ t[i + 1] = ch /\ \A j \in i + 1 .. Len(text) : t[j + 1] = text[j]
    BY <2>3 DEF WithInserted
  <2>5. ASSUME NEW j \in 1 .. Len(t) PROVE t[j] # Dot
    <3>1. CASE j <= i
      <4>1. j \in 1 .. i /\ j \in 1 .. Len(text)
        BY <2>1, <2>4, <3>1
      <4> QED
        BY <2>1, <2>4, <4>1
    <3>2. CASE j = i + 1
      BY <2>2, <2>4, <3>2
    <3>3. CASE j > i + 1
      <4>1. j - 1 \in i + 1 .. Len(text) /\ j - 1 \in 1 .. Len(text) /\ (j - 1) + 1 = j
        BY <2>1, <2>4, <3>3
      <4>2. t[(j - 1) + 1] = text[j - 1]
        BY <2>4, <4>1
      <4> QED
        BY <2>1, <4>1, <4>2
    <3> QED
      BY <2>1, <2>4, <3>1, <3>2, <3>3
  <2>6. Illegible(t)
    BY <2>4, <2>5 DEF Illegible
  <2>7. Sound(t, kind, body, lossy)
    BY <1>2, <2>6 DEF Sound
  <2> QED
    BY <2>7 DEF t
<1> QED
  BY <1>1, <1>2 DEF Sound

\* A cut leaves a beginning of the letters, or no dot.
LEMMA LossKeeps ==
  ASSUME NEW kind \in Kinds, NEW body,
         NEW text, Sound(text, kind, body, TRUE), NEW n \in 0 .. Len(text) - 1
  PROVE  Sound(Cut(text, n), kind, body, TRUE)
<1> DEFINE t == Cut(text, n)
<1>1. CASE Legible(text, kind, body, FALSE)
  <2>1. PICK f, R : Framed(text, f, kind, R) /\ Carried(R, body, FALSE)
    BY <1>1 DEF Legible
  <2>2. R \in Seq(Code) /\ text \in Seq(Char) /\ Len(text) \in Nat
    BY <2>1 DEF Framed
  <2> DEFINE k == n - (f + 2)
             Q == Cut(R, k)
  <2>3. \/ k \in 0 .. Len(R) /\ Framed(t, f, kind, Q)
        \/ \A i \in 1 .. Len(t) : t[i] # Dot
    BY <2>1, CutFramed
  <2>4. t \in Seq(Char)
    <3>1. n \in 0 .. Len(text)
      BY <2>2
    <3> QED
      BY <2>2, <3>1, CutText
  <2> HIDE DEF k, t
  <2>5. CASE k \in 0 .. Len(R) /\ Framed(t, f, kind, Q)
    <3>1. Carried(Q, body, FALSE)
      BY <2>1, <2>2, <2>5, CutCarried
    <3> HIDE DEF Q
    <3>2. Sound(t, kind, body, TRUE)
      BY <2>5, <3>1 DEF Legible, Sound
    <3> QED
      BY <3>2 DEF t
  <2>6. CASE \A i \in 1 .. Len(t) : t[i] # Dot
    <3>1. Sound(t, kind, body, TRUE)
      BY <2>4, <2>6 DEF Illegible, Sound
    <3> QED
      BY <3>1 DEF t
  <2> QED
    BY <2>3, <2>5, <2>6
<1>2. CASE Illegible(text)
  <2>1. text \in Seq(Char) /\ Len(text) \in Nat /\ \A j \in 1 .. Len(text) : text[j] # Dot
    BY <1>2 DEF Illegible
  <2>2. n \in 0 .. Len(text)
    BY <2>1
  <2>3. t \in Seq(Char) /\ Len(t) = n /\ \A j \in 1 .. n : t[j] = text[j]
    BY <2>1, <2>2, CutText
  <2> HIDE DEF t
  <2>4. \A j \in 1 .. Len(t) : t[j] # Dot
    <3>1. \A j \in 1 .. Len(t) : j \in 1 .. n /\ j \in 1 .. Len(text)
      BY <2>1, <2>2, <2>3
    <3> QED
      BY <2>1, <2>3, <3>1
  <2>5. Sound(t, kind, body, TRUE)
    BY <2>3, <2>4 DEF Illegible, Sound
  <2> QED
    BY <2>5 DEF t
<1> QED
  BY <1>1, <1>2 DEF Sound

LEMMA EditKeeps ==
  ASSUME NEW kind \in Kinds, NEW body, NEW lossy \in BOOLEAN,
         NEW text, Sound(text, kind, body, lossy), NEW t \in Edits(text, lossy)
  PROVE  Sound(t, kind, body, lossy)
<1>1. CASE t \in Indents(text)
  <2>1. PICK i \in 0 .. Len(text) :
          (\A j \in 1 .. i : text[j] = Space) /\ t = Inserted(text, i, Space)
    BY <1>1 DEF Indents
  <2> QED
    BY <2>1, CodeChar, InsertionKeeps
<1>2. CASE t \in Wraps(text)
  <2>1. PICK i \in 0 .. Len(text), ch \in {Space, Padding} :
          (\E j \in 1 .. i : text[j] = Dot) /\ t = Inserted(text, i, ch)
    BY <1>2 DEF Wraps
  <2>2. ch \in Ignored
    BY DEF Ignored
  <2> QED
    BY <2>1, <2>2, InsertionKeeps
<1>3. CASE lossy /\ t \in Losses(text)
  <2>1. PICK n \in 0 .. Len(text) - 1 : t = Cut(text, n)
    BY <1>3 DEF Losses
  <2>2. lossy = TRUE
    BY <1>3
  <2> QED
    BY <2>1, <2>2, LossKeeps
<1>4. t \in Indents(text) \/ t \in Wraps(text) \/ (lossy /\ t \in Losses(text))
  BY DEF Edits
<1> QED
  BY <1>1, <1>2, <1>3, <1>4

\* What the recursion of AfterEdits says.
IsEdited(f, blob, lossy, n) ==
  f[n] = IF n = 0 THEN {blob}
                  ELSE f[n - 1] \cup UNION {Edits(t, lossy) : t \in f[n - 1]}

LEMMA AfterEditsAre ==
  ASSUME NEW blob, NEW lossy
  PROVE  \A n \in 0 .. MaxEdits : IsEdited(AfterEdits(blob, lossy), blob, lossy, n)
<1> DEFINE N == MaxEdits
           Further(T) == T \cup UNION {Edits(t, lossy) : t \in T}
           Step(f) == [n \in 0 .. N |-> IF n = 0 THEN {blob} ELSE Further(f[n - 1])]
           Is(f, n) == f[n] = IF n = 0 THEN {blob} ELSE Further(f[n - 1])
           Partly(f, n) == \A i \in 0 .. n : Is(f, i)
           S == {n \in 0 .. N : \E f : Partly(f, n)}
<1>1. N \in Nat
  BY PasteAssumption
<1>20. AfterEdits(blob, lossy) = CHOOSE f : f = Step(f)
  BY DEF AfterEdits
<1>21. \A f, n : Is(f, n) <=> IsEdited(f, blob, lossy, n)
  BY DEF IsEdited
<1> HIDE DEF N, Further
<1>2. 0 \in S
  <2>1. Is([n \in 0 .. N |-> {blob}], 0)
    BY <1>1
  <2>2. \A i \in 0 .. 0 : i = 0
    OBVIOUS
  <2>3. Partly([n \in 0 .. N |-> {blob}], 0)
    BY <2>1, <2>2
  <2> HIDE DEF Partly
  <2>4. \E f : Partly(f, 0)
    BY <2>3
  <2> QED
    BY <1>1, <2>4
<1>3. ASSUME NEW n \in 0 .. N - 1, n \in S PROVE n + 1 \in S
  <2>1. PICK f : Partly(f, n)
    BY <1>3
  <2> DEFINE v == Further(f[n])
             g == [i \in 0 .. N |-> IF i = n + 1 THEN v ELSE f[i]]
  <2>2. n \in Nat /\ n \in 0 .. N /\ n + 1 \in 0 .. N /\ n + 1 # 0 /\ (n + 1) - 1 = n
    BY <1>1, <1>3
  <2> HIDE DEF v
  <2>4. g[n + 1] = v /\ \A i \in 0 .. n : g[i] = f[i]
    BY <1>1, <2>2
  <2> HIDE DEF g
  <2>5. Is(g, n + 1)
    <3>1. g[n] = f[n]
      BY <2>2, <2>4
    <3>2. g[n + 1] = Further(g[(n + 1) - 1])
      BY <2>2, <2>4, <3>1 DEF v
    <3> QED
      BY <2>2, <3>2
  <2>6. ASSUME NEW i \in 0 .. n
        PROVE  Is(g, i)
    <3>1. Is(f, i)
      BY <2>1
    <3>2. g[i] = f[i] /\ (i # 0 => g[i - 1] = f[i - 1])
      BY <2>2, <2>4
    <3> QED
      BY <3>1, <3>2
  <2>7. \A i \in 0 .. n + 1 : i \in 0 .. n \/ i = n + 1
    BY <2>2
  <2>8. Partly(g, n + 1)
    BY <2>5, <2>6, <2>7
  <2> HIDE DEF Partly
  <2>9. \E h : Partly(h, n + 1)
    BY <2>8
  <2> QED
    BY <2>2, <2>9
<1>4. N \in S
  <2> HIDE DEF S
  <2>1. \A n \in 0 .. N : n \in S
    BY <1>1, <1>2, <1>3, UpTo
  <2> QED
    BY <1>1, <2>1
<1>5. PICK f : Partly(f, N)
  BY <1>4
<1> DEFINE h == [n \in 0 .. N |-> f[n]]
<1>6. h = Step(h)
  <2>1. ASSUME NEW n \in 0 .. N
        PROVE  h[n] = IF n = 0 THEN {blob} ELSE Further(h[n - 1])
    <3>1. Is(f, n)
      BY <1>5
    <3>2. h[n] = f[n] /\ (n # 0 => h[n - 1] = f[n - 1])
      BY <1>1
    <3> QED
      BY <3>1, <3>2
  <2> QED
    BY <2>1
<1> DEFINE F == CHOOSE g : g = Step(g)
<1>7. F = Step(F)
  BY <1>6
<1> HIDE DEF F
<1>8. \A n \in 0 .. N : Is(F, n)
  BY <1>7
<1>9. AfterEdits(blob, lossy) = F
  BY <1>20 DEF F
<1> QED
  BY <1>8, <1>9, <1>21 DEF N

\* Whatever is done to a blob and however often, it stays sound.
LEMMA PastedIsSound ==
  ASSUME NEW kind \in Kinds, NEW body \in Seq(Byte), NEW lossy \in BOOLEAN,
         NEW text \in AsPasted(kind, body, lossy)
  PROVE  Sound(text, kind, body, lossy)
<1> DEFINE blob == EncodeBlob(kind, body)
           T == AfterEdits(blob, lossy)
           S == {n \in 0 .. MaxEdits : \A t \in T[n] : Sound(t, kind, body, lossy)}
<1>1. MaxEdits \in Nat
  BY PasteAssumption
<1>2. \A n \in 0 .. MaxEdits : IsEdited(T, blob, lossy, n)
  BY AfterEditsAre
<1>3. text \in T[MaxEdits]
  BY DEF AsPasted
<1>4. Sound(blob, kind, body, lossy)
  BY FreshIsSound
<1> HIDE DEF T, blob
<1>5. 0 \in S
  <2>1. 0 \in 0 .. MaxEdits
    BY <1>1
  <2>2. T[0] = {blob}
    BY <1>2, <2>1 DEF IsEdited
  <2> QED
    BY <1>4, <2>1, <2>2
<1>6. ASSUME NEW n \in 0 .. MaxEdits - 1, n \in S PROVE n + 1 \in S
  <2>1. n \in 0 .. MaxEdits /\ n + 1 \in 0 .. MaxEdits /\ n + 1 # 0 /\ (n + 1) - 1 = n
    BY <1>1, <1>6
  <2>2. T[n + 1] = T[n] \cup UNION {Edits(t, lossy) : t \in T[n]}
    BY <1>2, <2>1 DEF IsEdited
  <2>3. \A t \in T[n] : Sound(t, kind, body, lossy)
    BY <1>6
  <2>4. ASSUME NEW u \in T[n + 1] PROVE Sound(u, kind, body, lossy)
    <3>1. CASE u \in T[n]
      BY <2>3, <3>1
    <3>2. CASE u \in UNION {Edits(t, lossy) : t \in T[n]}
      <4>1. PICK t \in T[n] : u \in Edits(t, lossy)
        BY <3>2
      <4> QED
        BY <2>3, <4>1, EditKeeps
    <3> QED
      BY <2>2, <3>1, <3>2
  <2> QED
    BY <2>1, <2>4
<1>7. MaxEdits \in S
  <2> HIDE DEF S
  <2>1. \A n \in 0 .. MaxEdits : n \in S
    BY <1>1, <1>5, <1>6, UpTo
  <2> QED
    BY <1>1, <2>1
<1> QED
  BY <1>3, <1>7

LEMMA Read ==
  ASSUME NEW kind \in Kinds, NEW body \in Seq(Byte), IsText(body),
         NEW text, NEW all, Legible(text, kind, body, all)
  PROVE  /\ \E n \in 0 .. Len(body) : AcceptBlob(text) = Pasted(kind, Cut(body, n))
         /\ all => AcceptBlob(text) = Pasted(kind, body)
<1>1. PICK f, R : Framed(text, f, kind, R) /\ Carried(R, body, all)
  BY DEF Legible
<1>2. AcceptBlob(text) = Pasted(kind, Out(R, Len(R)))
  BY <1>1, FramedIsTaken
<1>3. R \in Seq(Code)
  BY <1>1 DEF Framed
<1>4. Len(R) \in 0 .. Len(R)
  BY <1>3
<1>5. Out(R, Len(R)) \in Beginnings(body) /\ (all => Out(R, Len(R)) = body)
  BY <1>1, <1>4 DEF Carried
<1> QED
  BY <1>2, <1>5 DEF Beginnings

-----------------------------------------------------------------------------
(* The theorems *)

\* A blob that lost nothing is what it was made from, for every description of
\* whatever length, and however often it was wrapped, padded and indented.
THEOREM BlobsAlwaysArrive == Spec => []BlobsArrive
<1>1. BlobsArrive
  <2>1. ASSUME NEW kind \in Kinds, NEW body \in Bodies,
               NEW text \in AsPasted(kind, body, FALSE)
        PROVE  AcceptBlob(text) = Pasted(kind, body)
    <3>1. body \in Seq(Byte) /\ IsText(body)
      BY PasteAssumption
    <3>2. Sound(text, kind, body, FALSE)
      BY <3>1, PastedIsSound
    <3>3. Legible(text, kind, body, TRUE)
      BY <3>2 DEF Sound
    <3> QED
      BY <3>1, <3>3, Read
  <2> QED
    BY <2>1 DEF BlobsArrive
<1> QED
  BY <1>1, PTL

\* A page never takes anything but a beginning of the description, wherever and
\* however often a blob was cut.
THEOREM CutsAreBeginnings == Spec => []CutBlobs
<1>1. CutBlobs
  <2>1. ASSUME NEW kind \in Kinds, NEW body \in Bodies,
               NEW text \in AsPasted(kind, body, TRUE)
        PROVE  \/ AcceptBlob(text) = Rejected
               \/ \E n \in 0 .. Len(body) : AcceptBlob(text) = Pasted(kind, Cut(body, n))
    <3>1. body \in Seq(Byte) /\ IsText(body)
      BY PasteAssumption
    <3>2. Sound(text, kind, body, TRUE)
      BY <3>1, PastedIsSound
    <3>3. CASE Legible(text, kind, body, FALSE)
      BY <3>1, <3>3, Read
    <3>4. CASE Illegible(text)
      BY <3>4, Dotless DEF Illegible
    <3> QED
      BY <3>2, <3>3, <3>4 DEF Sound
  <2> QED
    BY <2>1 DEF CutBlobs
<1> QED
  BY <1>1, PTL
==============================================================================
