---------------------------- MODULE HandshakeProofs ----------------------------
(***************************************************************************)
(* Theorems about Protocol, Codec and Handshake: what one page writes the  *)
(* other reads, for every build, label, number and tensor, and what they   *)
(* come to say of each other by it.                                        *)
(***************************************************************************)
EXTENDS Codec, BytesProofs

(* Headers *)

Numbered(h) ==
  /\ h.version \in Byte /\ h.opcode \in Byte /\ h.codec \in Byte /\ h.flags \in Byte
  /\ h.request_id \in U32 /\ h.seq_pos \in U32

\* The bytes of a header.
Begins(bytes, h) ==
  /\ bytes[1] = h.version /\ bytes[2] = h.opcode
  /\ bytes[3] = h.codec /\ bytes[4] = h.flags
  /\ \A j \in 1 .. 4 : bytes[4 + j] = Le32(h.request_id)[j]
  /\ \A j \in 1 .. 4 : bytes[8 + j] = Le32(h.seq_pos)[j]

LEMMA HeaderBytes ==
  ASSUME NEW h, Numbered(h)
  PROVE  Sized(WriteInto(h), 12) /\ Begins(WriteInto(h), h)
<1> DEFINE a == <<h.version, h.opcode, h.codec, h.flags>>
           x == Le32(h.request_id)
           y == Le32(h.seq_pos)
           b == a \o x
           c == b \o y
<1>1. a \in Seq(Byte) /\ Len(a) = 4 /\ a[1] = h.version /\ a[2] = h.opcode
      /\ a[3] = h.codec /\ a[4] = h.flags
  BY DEF Numbered
<1>2. Sized(x, 4) /\ Sized(y, 4)
  BY Le32Sized DEF Numbered
<1> HIDE DEF a, x, y
<1>3. Joined(b, a, 4, x, 4)
  BY <1>1, <1>2, JoinedBytes DEF Sized
<1> HIDE DEF b
<1>4. Joined(c, b, 8, y, 4)
  <2>1. Sized(b, 8)
    BY <1>3 DEF Joined
  <2> QED
    BY <1>2, <2>1, JoinedBytes
<1>5. c = WriteInto(h)
  BY DEF a, b, x, y, WriteInto
<1> HIDE DEF c
<1>6. c[1] = a[1] /\ c[2] = a[2] /\ c[3] = a[3] /\ c[4] = a[4] /\ Sized(c, 12)
  BY <1>3, <1>4 DEF Joined
<1>7. \A j \in 1 .. 4 : c[4 + j] = x[j]
  BY <1>3, <1>4 DEF Joined
<1>8. \A j \in 1 .. 4 : c[8 + j] = y[j]
  BY <1>4 DEF Joined
<1>9. Begins(c, h)
  BY <1>1, <1>6, <1>7, <1>8 DEF Begins, x, y
<1> QED
  BY <1>5, <1>6, <1>9

\* A header is read as it was written, whatever follows it.
LEMMA HeaderReadBack ==
  ASSUME NEW h, Numbered(h), NEW bytes, Begins(bytes, h)
  PROVE  Fields(bytes) = Header(h.version, h.opcode, h.codec, h.flags,
                                h.request_id, h.seq_pos)
<1>1. h.request_id \in U32 /\ h.seq_pos \in U32
  BY DEF Numbered
<1>2. ReadU32(bytes, 4) = h.request_id
  BY <1>1, ReadBack DEF Begins
<1>3. ReadU32(bytes, 8) = h.seq_pos
  BY <1>1, ReadBack DEF Begins
<1> QED
  BY <1>2, <1>3 DEF Fields, Begins

LEMMA HeaderArrives ==
  ASSUME NEW version \in Byte, NEW h, Numbered(h), h.codec \in Codecs,
         NEW m \in Nat, NEW payload, Sized(payload, m)
  PROVE  LET frame == Parse(version, WriteInto(h) \o payload) IN
         /\ h.version # version => frame = Refused("VersionMismatch")
         /\ h.version = version =>
              frame = Accepted(Header(h.version, h.opcode, h.codec, h.flags,
                                      h.request_id, h.seq_pos), payload)
<1> DEFINE w == WriteInto(h)
           bytes == w \o payload
<1>1. Sized(w, 12) /\ Begins(w, h)
  BY HeaderBytes
<1> HIDE DEF w
<1>2. Joined(bytes, w, 12, payload, m)
  BY <1>1, JoinedBytes
<1> HIDE DEF bytes
<1>3. From(bytes, 12) = payload /\ Len(bytes) = 12 + m
  BY <1>2, JoinedRest DEF Joined, Sized
<1>4. Begins(bytes, h)
  <2>1. /\ bytes[1] = w[1] /\ bytes[2] = w[2] /\ bytes[3] = w[3]
        /\ bytes[4] = w[4]
    BY <1>2 DEF Joined
  <2>2. \A j \in 1 .. 4 : bytes[4 + j] = w[4 + j]
    BY <1>2 DEF Joined
  <2>3. \A j \in 1 .. 4 : bytes[8 + j] = w[8 + j]
    BY <1>2 DEF Joined
  <2> QED
    BY <1>1, <2>1, <2>2, <2>3 DEF Begins
<1>5. Fields(bytes) = Header(h.version, h.opcode, h.codec, h.flags, h.request_id,
                             h.seq_pos)
  BY <1>4, HeaderReadBack
<1>6. /\ ~(Len(bytes) < HeaderLen) /\ HeaderLen = 12
      /\ bytes[1] = h.version /\ bytes[3] \in Codecs
  BY <1>3, <1>4 DEF HeaderLen, Begins
<1>7. h.version # version => Parse(version, bytes) = Refused("VersionMismatch")
  BY <1>6 DEF Parse
<1>8. h.version = version =>
        Parse(version, bytes) = Accepted(Fields(bytes), payload)
  BY <1>3, <1>6 DEF Parse
<1> QED
  BY <1>5, <1>7, <1>8 DEF bytes, w

-----------------------------------------------------------------------------
(* Hello *)

\* What a page may say of itself.
Sayable ==
  {hello \in [dim : U32, n_layers : U32, vocab_size : U32, max_seq : U32,
              backend : Seq(Byte)] :
     IsText(hello.backend) /\ Len(hello.backend) \in U32}

HelloPayload(hello) ==
  Le32(hello.dim) \o Le32(hello.n_layers) \o Le32(hello.vocab_size)
  \o Le32(hello.max_seq) \o Le32(Len(hello.backend)) \o hello.backend

LEMMA HelloPayloadBytes ==
  ASSUME NEW hello \in Sayable, NEW body, body = HelloPayload(hello)
  PROVE  LET m == Len(hello.backend) IN
         /\ m \in Nat /\ Sized(body, 20 + m)
         /\ ReadU32(body, 0) = hello.dim /\ ReadU32(body, 4) = hello.n_layers
         /\ ReadU32(body, 8) = hello.vocab_size /\ ReadU32(body, 12) = hello.max_seq
         /\ ReadU32(body, 16) = m
         /\ SubSeq(body, 21, 20 + m) = hello.backend
<1> DEFINE n1 == Le32(hello.dim)
           n2 == Le32(hello.n_layers)
           n3 == Le32(hello.vocab_size)
           n4 == Le32(hello.max_seq)
           m == Len(hello.backend)
           n5 == Le32(m)
           t == hello.backend
           p2 == n1 \o n2
           p3 == p2 \o n3
           p4 == p3 \o n4
           p5 == p4 \o n5
           p6 == p5 \o t
<1>1. /\ hello.dim \in U32 /\ hello.n_layers \in U32 /\ hello.vocab_size \in U32
      /\ hello.max_seq \in U32 /\ m \in U32 /\ t \in Seq(Byte)
  BY DEF Sayable
<1>2. /\ Sized(n1, 4) /\ Sized(n2, 4) /\ Sized(n3, 4) /\ Sized(n4, 4) /\ Sized(n5, 4)
  BY <1>1, Le32Sized
<1>3. m \in Nat /\ Sized(t, m)
  BY <1>1 DEF Sized
<1>4. body = p6
  BY DEF HelloPayload
<1> HIDE DEF n1, n2, n3, n4, n5, t, m
<1>5. Joined(p2, n1, 4, n2, 4)
  BY <1>2, JoinedBytes
<1> HIDE DEF p2
<1>6. Sized(p2, 8)
  BY <1>5 DEF Joined
<1>7. Joined(p3, p2, 8, n3, 4)
  BY <1>2, <1>6, JoinedBytes
<1> HIDE DEF p3
<1>8. Sized(p3, 12)
  BY <1>7 DEF Joined
<1>9. Joined(p4, p3, 12, n4, 4)
  BY <1>2, <1>8, JoinedBytes
<1> HIDE DEF p4
<1>10. Sized(p4, 16)
  BY <1>9 DEF Joined
<1>11. Joined(p5, p4, 16, n5, 4)
  BY <1>2, <1>10, JoinedBytes
<1> HIDE DEF p5
<1>12. Sized(p5, 20)
  BY <1>11 DEF Joined
<1>13. Joined(p6, p5, 20, t, m)
  BY <1>3, <1>12, JoinedBytes
<1> HIDE DEF p6
<1>14. \A i \in 1 .. 20 : body[i] = p5[i]
  BY <1>4, <1>13 DEF Joined
<1>15. \A i \in 1 .. 16 : body[i] = p4[i]
  BY <1>11, <1>14 DEF Joined
<1>16. \A i \in 1 .. 12 : body[i] = p3[i]
  BY <1>9, <1>15 DEF Joined
<1>17. \A i \in 1 .. 8 : body[i] = p2[i]
  BY <1>7, <1>16 DEF Joined
<1>18. \A j \in 1 .. 4 : body[0 + j] = n1[j]
  BY <1>5, <1>17 DEF Joined
<1>19. \A j \in 1 .. 4 : body[4 + j] = n2[j]
  BY <1>5, <1>17 DEF Joined
<1>20. \A j \in 1 .. 4 : body[8 + j] = n3[j]
  BY <1>7, <1>16 DEF Joined
<1>21. \A j \in 1 .. 4 : body[12 + j] = n4[j]
  BY <1>9, <1>15 DEF Joined
<1>22. \A j \in 1 .. 4 : body[16 + j] = n5[j]
  BY <1>11, <1>14 DEF Joined
<1>23. /\ ReadU32(body, 0) = hello.dim /\ ReadU32(body, 4) = hello.n_layers
       /\ ReadU32(body, 8) = hello.vocab_size
       /\ ReadU32(body, 12) = hello.max_seq /\ ReadU32(body, 16) = m
  <2>1. ReadU32(body, 0) = hello.dim
    BY <1>1, <1>18, ReadBack DEF n1
  <2>2. ReadU32(body, 4) = hello.n_layers
    BY <1>1, <1>19, ReadBack DEF n2
  <2>3. ReadU32(body, 8) = hello.vocab_size
    BY <1>1, <1>20, ReadBack DEF n3
  <2>4. ReadU32(body, 12) = hello.max_seq
    BY <1>1, <1>21, ReadBack DEF n4
  <2>5. ReadU32(body, 16) = m
    BY <1>1, <1>22, ReadBack DEF n5
  <2> QED
    BY <2>1, <2>2, <2>3, <2>4, <2>5
<1>24. SubSeq(body, 20 + 1, 20 + m) = t /\ Sized(body, 20 + m)
  <2>1. Sized(p6, 20 + m)
    BY <1>13 DEF Joined
  <2>2. SubSeq(p6, 20 + 1, 20 + m) = t
    BY <1>3, <1>13, JoinedRest
  <2> QED
    BY <1>4, <2>1, <2>2
<1> QED
  BY <1>3, <1>23, <1>24 DEF m, t

\* Whatever a page says of itself arrives as it was said, with the id that
\* tells an announcement from a reply, where the reader has the writer's
\* protocol version; and is called a version mismatch, not nonsense, where not.
THEOREM HelloArrives ==
  ASSUME NEW version \in Byte, NEW writer \in Byte, NEW hello \in Sayable,
         NEW id \in U32
  PROVE  LET heard == DecodeHello(version, EncodeHello(writer, hello, id)) IN
         /\ writer # version => heard = Refused("VersionMismatch")
         /\ writer = version =>
              heard = Accepted(Plain(version, Hello, id, 0), hello)
<1> DEFINE h == Plain(writer, Hello, id, 0)
           body == HelloPayload(hello)
           bytes == EncodeHello(writer, hello, id)
           m == Len(hello.backend)
<1>1. /\ h.version = writer /\ h.opcode = Hello /\ h.codec = F32 /\ h.flags = 0
      /\ h.request_id = id /\ h.seq_pos = 0
  BY DEF Plain, Header
<1>2. Numbered(h) /\ h.codec \in Codecs
  <2>1. 0 \in U32
    BY DEF U32, Byte
  <2> QED
    BY <1>1, <2>1 DEF Numbered, Hello, F32, Codecs, Byte
<1>3. bytes = WriteInto(h) \o body
  BY DEF EncodeHello, HelloPayload
<1>4. /\ m \in Nat /\ Sized(body, 20 + m)
      /\ ReadU32(body, 0) = hello.dim /\ ReadU32(body, 4) = hello.n_layers
      /\ ReadU32(body, 8) = hello.vocab_size /\ ReadU32(body, 12) = hello.max_seq
      /\ ReadU32(body, 16) = m
      /\ SubSeq(body, 21, 20 + m) = hello.backend
  BY HelloPayloadBytes
<1>5. h = Header(h.version, h.opcode, h.codec, h.flags, h.request_id, h.seq_pos)
  BY DEF Plain, Header
<1> HIDE DEF h, body, m
<1> DEFINE parsed == Parse(version, bytes)
<1>6. /\ writer # version => parsed = Refused("VersionMismatch")
      /\ writer = version => parsed = Accepted(h, body)
  BY <1>1, <1>2, <1>3, <1>4, <1>5, HeaderArrives
<1> HIDE DEF bytes, parsed
<1>7. CASE writer # version
  <2>1. parsed = Refused("VersionMismatch") /\ IsRefused(parsed)
    BY <1>6, <1>7 DEF Refused, IsRefused
  <2>2. ParseAs(version, Hello, HelloFixed, bytes) = parsed
    BY <2>1 DEF ParseAs, parsed
  <2>3. DecodeHello(version, bytes) = parsed
    BY <2>1, <2>2 DEF DecodeHello
  <2> QED
    BY <1>7, <2>1, <2>3 DEF bytes
<1>8. CASE writer = version
  <2>1. /\ parsed = Accepted(h, body) /\ ~IsRefused(parsed)
        /\ parsed.header = h /\ parsed.body = body
    BY <1>6, <1>8 DEF Accepted, IsRefused
  <2>2. Len(body) = 20 + m /\ HelloFixed = 20 /\ m \in Nat
    BY <1>4 DEF Sized, HelloFixed
  <2>3. ParseAs(version, Hello, HelloFixed, bytes) = parsed
    BY <1>1, <2>1, <2>2 DEF ParseAs, parsed
  <2>4. IsText(hello.backend)
    BY DEF Sayable
  <2>5. DecodeHello(version, bytes) =
          Accepted(h, [dim |-> hello.dim, n_layers |-> hello.n_layers,
                       vocab_size |-> hello.vocab_size,
                       max_seq |-> hello.max_seq, backend |-> hello.backend])
    <3>1. SubSeq(body, HelloFixed + 1, HelloFixed + ReadU32(body, 16)) = hello.backend
      BY <1>4, <2>2
    <3>2. ~(Len(body) < HelloFixed + ReadU32(body, 16))
      BY <1>4, <2>2
    <3> QED
      BY <1>4, <2>1, <2>3, <2>4, <3>1, <3>2, Zenon DEF DecodeHello
  <2>6. hello = [dim |-> hello.dim, n_layers |-> hello.n_layers,
                 vocab_size |-> hello.vocab_size,
                 max_seq |-> hello.max_seq, backend |-> hello.backend]
    BY DEF Sayable
  <2> QED
    BY <1>8, <2>5, <2>6 DEF bytes, h
<1> QED
  BY <1>7, <1>8

-----------------------------------------------------------------------------
(* Elements of tensors *)

\* x fits 32 bits.
IsI32(x) == x \in Int /\ -2147483648 <= x /\ x < 2147483648

\* The number of the high byte of x.
LEMMA HighByte ==
  ASSUME NEW x, IsI32(x)
  PROVE  x \div 16777216 \in -128 .. 127
<1> DEFINE d == x \div 16777216
<1>1. d \in Int /\ 16777216 * d <= x /\ x < 16777216 * d + 16777216
  BY SMT DEF IsI32
<1> HIDE DEF d
<1>2. -128 <= d
  BY <1>1, SMT DEF IsI32
<1>3. d <= 127
  BY <1>1, SMT DEF IsI32
<1> QED
  BY <1>1, <1>2, <1>3, SMT DEF d

\* An f32 arrives: to_le_bytes and from_le_bytes, here of a multiple of 1/127.
LEMMA ElementReadBack ==
  ASSUME NEW x, IsI32(x),
         NEW bytes \in Seq(Byte), NEW at \in Nat, at + 4 <= Len(bytes),
         \A j \in 1 .. 4 : bytes[at + j] = Le32(x)[j]
  PROVE  FromBits(bytes, at) = x
<1> DEFINE a == x % 256
           b == (x \div 256) % 256
           c == (x \div 65536) % 256
           d == x \div 16777216
<1>0. x \in Int
  BY DEF IsI32
<1>1. /\ bytes[at + 1] = a /\ bytes[at + 2] = b /\ bytes[at + 3] = c
      /\ bytes[at + 4] = d % 256
  BY DEF Le32
<1> DEFINE p == x \div 256
           q == x \div 65536
<1>2. x = a + 256 * b + 65536 * c + 16777216 * d
  <2>1. x = 256 * p + a /\ a \in Int /\ p \in Int
    BY <1>0
  <2>2. p = 256 * q + b /\ b \in Int /\ q \in Int
    BY <1>0
  <2>3. q = 256 * d + c /\ c \in Int /\ d \in Int
    BY <1>0
  <2> HIDE DEF a, b, c, d, p, q
  <2> QED
    BY <2>1, <2>2, <2>3
<1>3. d \in -128 .. 127
  BY HighByte
<1> HIDE DEF d
<1>4. AsI8(d % 256) = d
  BY <1>3, Signed
<1> HIDE DEF a, b, c, d
<1> DEFINE low == Cut(From(bytes, at), 3)
<1>5. low[1] = a /\ low[2] = b /\ low[3] = c /\ low \in Seq(Byte) /\ Len(low) = 3
  <2> DEFINE rest == From(bytes, at)
  <2>1. rest \in Seq(Byte) /\ Len(rest) = Len(bytes) - at
    BY DEF From
  <2>2. \A i \in 1 .. 4 : rest[i] = bytes[at + i]
    BY DEF From
  <2> HIDE DEF rest
  <2>3. /\ Cut(rest, 3) \in Seq(Byte) /\ Len(Cut(rest, 3)) = 3
        /\ \A i \in 1 .. 3 : Cut(rest, 3)[i] = rest[i]
    BY <2>1 DEF Cut
  <2> QED
    BY <1>1, <2>2, <2>3 DEF rest
<1> HIDE DEF low
<1>6. Sized(low, 3)
  BY <1>5 DEF Sized
<1>7. ReadU32(low \o <<0>>, 0) = a + 256 * b + 65536 * c
  BY <1>5, <1>6, Widened
<1>8. FromBits(bytes, at) = (a + 256 * b + 65536 * c) + 16777216 * d
  BY <1>1, <1>4, <1>7, SMT DEF FromBits, low
<1> QED
  BY <1>2, <1>3, <1>8, SMT

\* What a tensor may be.
AnyTensor(t) ==
  t \in Seq(Int) /\ Len(t) \in U32 /\ \A i \in DOMAIN t : IsElement(t[i])

LEMMA ElementBound == MaxElement \in Nat /\ 127 * MaxElement < 2147483648
  BY SMT DEF MaxElement

LEMMA ElementNat == MaxElement \in Nat
  BY ElementBound

LEMMA MaxAbsIs ==
  ASSUME NEW t, AnyTensor(t)
  PROVE  /\ MaxAbs(t) \in 0 .. MaxElement
         /\ \A i \in DOMAIN t : Abs(t[i]) \in Nat /\ Abs(t[i]) <= MaxAbs(t)
<1> DEFINE T == {0} \cup {Abs(t[i]) : i \in DOMAIN t}
<1>1. \A i \in DOMAIN t : Abs(t[i]) \in Nat /\ Abs(t[i]) <= MaxElement
  <2> SUFFICES ASSUME NEW i \in DOMAIN t PROVE Abs(t[i]) \in Nat /\ Abs(t[i]) <= MaxElement
    OBVIOUS
  <2>1. t[i] \in Int /\ IsElement(t[i])
    BY DEF AnyTensor
  <2> QED
    BY <2>1, ElementNat DEF IsElement, Abs
<1>2. T \subseteq Nat /\ T # {} /\ \A x \in T : x <= MaxElement
  BY <1>1, ElementNat
<1>3. \A i \in DOMAIN t : Abs(t[i]) \in T
  OBVIOUS
<1>4. MaxAbs(t) = Max(T)
  BY DEF MaxAbs
<1> HIDE DEF T
<1>5. Max(T) \in T /\ \A x \in T : x <= Max(T)
  BY <1>2, ElementNat, BoundedMax
<1>6. MaxAbs(t) \in 0 .. MaxElement
  <2> DEFINE m == Max(T)
  <2>1. m \in T
    BY <1>5
  <2> HIDE DEF m
  <2>2. m \in Nat /\ m <= MaxElement
    BY <1>2, <2>1
  <2>3. m \in 0 .. MaxElement
    BY <2>2, ElementNat
  <2> QED
    BY <1>4, <2>3 DEF m
<1>7. \A i \in DOMAIN t : Abs(t[i]) <= MaxAbs(t)
  BY <1>3, <1>4, <1>5
<1> QED
  BY <1>1, <1>6, <1>7

-----------------------------------------------------------------------------
(* One element in a byte *)

LEMMA Distributes ==
  ASSUME NEW a \in Int, NEW b \in Int, NEW c \in Int
  PROVE  (a + b) * c = a * c + b * c /\ (a - b) * c = a * c - b * c
  OBVIOUS

\* Rounding is within half a step, and the largest element is 127 steps.
LEMMA RoundedTo ==
  ASSUME NEW n \in Nat, NEW s \in Nat \ {0}, n <= s
  PROVE  LET q == (2 * (127 * n) + s) \div (2 * s) IN
         /\ q \in 0 .. 127
         /\ 2 * (127 * n - q * s) <= s /\ 2 * (q * s - 127 * n) <= s
         /\ n = s => q = 127
         /\ n = 0 => q = 0
<1> DEFINE d == 2 * s
           m == 2 * (127 * n) + s
           q == m \div d
<1>1. d \in Nat /\ d > 0 /\ m \in Nat
  OBVIOUS
<1>2. q \in Int /\ d * q <= m /\ m < d * q + d
  <2> HIDE DEF d, m
  <2> QED
    BY <1>1
<1>3. m <= 255 * s
  OBVIOUS
<1> DEFINE p == q * s
<1>4. p \in Int /\ 2 * p <= m /\ m < 2 * p + 2 * s
  <2>1. d * q = 2 * p
    <3> HIDE DEF q
    <3> QED
      BY <1>2
  <2> QED
    BY <1>2, <2>1
<1> HIDE DEF q, m
<1>5. q >= 0
  <2>1. ASSUME q <= -1 PROVE FALSE
    <3>1. (q + 1) * s <= 0
      BY <1>2, <2>1
    <3>2. (q + 1) * s = p + s
      BY <1>2, Distributes
    <3> QED
      BY <1>1, <1>4, <3>1, <3>2
  <2> QED
    BY <1>2, <2>1
<1> HIDE DEF p
<1>6. q <= 127
  <2>1. ASSUME q >= 128 PROVE FALSE
    <3>1. (q - 128) * s >= 0
      BY <1>2, <2>1
    <3>2. (q - 128) * s = p - 128 * s
      BY <1>2, Distributes DEF p
    <3>3. p >= 128 * s
      BY <1>4, <3>1, <3>2
    <3> QED
      BY <1>1, <1>3, <1>4, <3>3
  <2> QED
    BY <1>2, <2>1
<1>7. 2 * (127 * n - p) <= s /\ 2 * (p - 127 * n) <= s
  BY <1>4 DEF m
<1>8. ASSUME n = s PROVE q = 127
  <2>1. ASSUME q <= 126 PROVE FALSE
    <3>1. (126 - q) * s >= 0
      BY <1>2, <2>1
    <3>2. (126 - q) * s = 126 * s - p
      BY <1>2, Distributes DEF p
    <3> QED
      BY <1>4, <1>8, <3>1, <3>2 DEF m
  <2> QED
    BY <1>2, <1>6, <2>1
<1>9. ASSUME n = 0 PROVE q = 0
  <2>1. ASSUME q >= 1 PROVE FALSE
    <3>1. (q - 1) * s >= 0
      BY <1>2, <2>1
    <3>2. (q - 1) * s = p - s
      BY <1>2, Distributes DEF p
    <3> QED
      BY <1>4, <1>9, <3>1, <3>2 DEF m
  <2> QED
    BY <1>2, <1>5, <2>1
<1> QED
  BY <1>2, <1>5, <1>6, <1>7, <1>8, <1>9 DEF p, q, m

\* An element v of a tensor of scale s, through a byte and back.
LEMMA ByteOfElement ==
  ASSUME NEW v \in Int, NEW s \in Nat \ {0}, Abs(v) <= s
  PROVE  LET byte == Clamp(Round(127 * v, s)) % 256
             value == AsI8(byte) * s
         IN /\ byte \in Byte
            /\ value \in Int
            /\ 2 * Abs(127 * v - value) <= s
            /\ Abs(v) = s => value = 127 * v
            /\ v = 0 => value = 0
<1> DEFINE n == Abs(v)
           q == (2 * (127 * n) + s) \div (2 * s)
<1>1. n \in Nat /\ n <= s
  BY DEF Abs
<1>2. /\ q \in 0 .. 127
      /\ 2 * (127 * n - q * s) <= s /\ 2 * (q * s - 127 * n) <= s
      /\ n = s => q = 127
      /\ n = 0 => q = 0
  BY <1>1, RoundedTo
<1>3. Abs(127 * v) = 127 * n
  BY DEF Abs
<1>4. Round(127 * v, s) = IF 127 * v < 0 THEN -q ELSE q
  BY <1>3 DEF Round
<1>5. v < 0 => n = -v
  BY DEF Abs
<1>6. v >= 0 => n = v
  BY DEF Abs
<1> HIDE DEF n, q
<1> DEFINE r == IF 127 * v < 0 THEN -q ELSE q
           byte == Clamp(r) % 256
<1>7. r \in -127 .. 127 /\ Clamp(r) = r
  BY <1>2 DEF Clamp
<1>8. byte \in Byte /\ AsI8(byte) = r
  BY <1>7, SignedByte
<1>9. r * s \in Int /\ 2 * Abs(127 * v - r * s) <= s
  <2>1. CASE v < 0
    <3>1. r = -q /\ r * s = -(q * s)
      BY <1>2, <2>1
    <3> DEFINE p == q * s
    <3>2. p \in Int
      BY <1>2
    <3> HIDE DEF p
    <3> QED
      BY <1>2, <1>5, <2>1, <3>1, <3>2 DEF Abs, p
  <2>2. CASE v >= 0
    <3>1. r = q
      BY <1>2, <2>2
    <3> DEFINE p == q * s
    <3>2. p \in Int
      BY <1>2
    <3> HIDE DEF p
    <3> QED
      BY <1>2, <1>6, <2>2, <3>1, <3>2 DEF Abs, p
  <2> QED
    BY <2>1, <2>2
<1>10. ASSUME n = s PROVE r * s = 127 * v
  <2>1. q = 127
    BY <1>2, <1>10
  <2> QED
    BY <1>5, <1>6, <1>10, <2>1
<1>11. ASSUME v = 0 PROVE r * s = 0
  <2>1. q = 0
    BY <1>2, <1>6, <1>11
  <2> QED
    BY <1>11, <2>1
<1> QED
  BY <1>4, <1>8, <1>9, <1>10, <1>11 DEF n

-----------------------------------------------------------------------------
(* Any frame *)

\* The headers there are.
Heads ==
  [version : Byte, opcode : Byte, codec : Codecs, flags : Byte,
   request_id : U32, seq_pos : U32]

LEMMA Results ==
  ASSUME NEW why, NEW header, NEW body
  PROVE  /\ IsRefused(Refused(why)) /\ ~IsRefused(Accepted(header, body))
         /\ Accepted(header, body).header = header
         /\ Accepted(header, body).body = body
  BY DEF IsRefused, Refused, Accepted

LEMMA OfHeads ==
  ASSUME NEW h \in Heads
  PROVE  /\ Numbered(h) /\ h.codec \in Codecs
         /\ h = Header(h.version, h.opcode, h.codec, h.flags, h.request_id, h.seq_pos)
<1>1. Codecs \subseteq Byte
  BY DEF Codecs, F32, Q8, Byte
<1>2. Numbered(h)
  BY <1>1 DEF Heads, Numbered
<1> QED
  BY <1>2 DEF Heads, Header

\* A header is read as it was written and the payload left as it was.
LEMMA ParsedFrame ==
  ASSUME NEW version \in Byte, NEW h \in Heads, NEW m \in Nat, NEW payload,
         Sized(payload, m)
  PROVE  Parse(version, WriteInto(h) \o payload)
           = IF h.version = version THEN Accepted(h, payload)
                                    ELSE Refused("VersionMismatch")
<1>1. /\ Numbered(h) /\ h.codec \in Codecs
      /\ h = Header(h.version, h.opcode, h.codec, h.flags, h.request_id, h.seq_pos)
  BY OfHeads
<1> DEFINE frame == Parse(version, WriteInto(h) \o payload)
<1>2. /\ h.version # version => frame = Refused("VersionMismatch")
      /\ h.version = version =>
           frame = Accepted(Header(h.version, h.opcode, h.codec, h.flags,
                                   h.request_id, h.seq_pos), payload)
  BY <1>1, HeaderArrives
<1> QED
  BY <1>1, <1>2

LEMMA ParsedAs ==
  ASSUME NEW version \in Byte, NEW h \in Heads, h.version = version,
         NEW m \in Nat, NEW payload, Sized(payload, m), NEW opcode, NEW needs \in Nat
  PROVE  ParseAs(version, opcode, needs, WriteInto(h) \o payload)
           = IF h.opcode # opcode THEN Refused("UnexpectedOpcode")
             ELSE IF m < needs THEN Refused("Truncated")
             ELSE Accepted(h, payload)
<1> DEFINE bytes == WriteInto(h) \o payload
<1>1. Parse(version, bytes) = Accepted(h, payload)
  BY ParsedFrame
<1>2. Len(payload) = m
  BY DEF Sized
<1> HIDE DEF bytes
<1>3. ParseAs(version, opcode, needs, bytes)
        = IF h.opcode # opcode THEN Refused("UnexpectedOpcode")
          ELSE IF m < needs THEN Refused("Truncated")
          ELSE Accepted(h, payload)
  BY <1>1, <1>2, Results DEF ParseAs
<1> QED
  BY <1>3 DEF bytes

\* What the opcodes are.
Opcodes ==
  /\ Hello = 0 /\ Activation = 1 /\ Token = 2 /\ Reset = 3 /\ Error = 4
  /\ Decoders = {0, 1, 2, 4}

LEMMA OpcodesAre == Opcodes
  BY DEF Opcodes, Hello, Activation, Token, Reset, Error, Decoders

\* The length the decoder of an opcode asks for.
Needs(opcode) ==
  IF opcode = Hello THEN HelloFixed
  ELSE IF opcode = Activation THEN 4
  ELSE IF opcode = Token THEN 8
  ELSE 0

\* What a frame is refused for before its payload is read, its decoder says.
LEMMA RefusedEarly ==
  ASSUME NEW opcode \in Decoders, NEW bytes,
         IsRefused(ParseAs(Reader, opcode, Needs(opcode), bytes))
  PROVE  Decode(opcode, bytes) = ParseAs(Reader, opcode, Needs(opcode), bytes)
<1>0. Opcodes
  BY OpcodesAre
<1>1. CASE opcode = Hello
  <2>1. Needs(opcode) = HelloFixed
    BY <1>1 DEF Needs
  <2>2. Decode(opcode, bytes) = DecodeHello(Reader, bytes)
    BY <1>0, <1>1 DEF Decode, Opcodes
  <2> QED
    BY <1>1, <2>1, <2>2 DEF DecodeHello
<1>2. CASE opcode = Activation
  <2>1. Needs(opcode) = 4
    BY <1>0, <1>2 DEF Needs, Opcodes
  <2>2. Decode(opcode, bytes) = DecodeActivation(Reader, bytes)
    BY <1>0, <1>2 DEF Decode, Opcodes
  <2> QED
    BY <1>2, <2>1, <2>2 DEF DecodeActivation
<1>3. CASE opcode = Token
  <2>1. Needs(opcode) = 8
    BY <1>0, <1>3 DEF Needs, Opcodes
  <2>2. Decode(opcode, bytes) = DecodeToken(Reader, bytes)
    BY <1>0, <1>3 DEF Decode, Opcodes
  <2> QED
    BY <1>3, <2>1, <2>2 DEF DecodeToken
<1>4. CASE opcode = Error
  <2>1. Needs(opcode) = 0
    BY <1>0, <1>4 DEF Needs, Opcodes
  <2>2. Decode(opcode, bytes) = DecodeError(Reader, bytes)
    BY <1>0, <1>4 DEF Decode, Opcodes
  <2> QED
    BY <1>4, <2>1, <2>2 DEF DecodeError
<1> QED
  BY <1>1, <1>2, <1>3, <1>4 DEF Decoders

LEMMA NeedsNat == \A opcode : Needs(opcode) \in Nat
  BY DEF Needs, HelloFixed

\* A frame gives the decoders of other opcodes nothing.
LEMMA OthersRefuse ==
  ASSUME Reader \in Byte, NEW h \in Heads, h.version = Reader,
         NEW m \in Nat, NEW payload, Sized(payload, m),
         NEW opcode \in Decoders, opcode # h.opcode
  PROVE  IsRefused(Decode(opcode, WriteInto(h) \o payload))
<1> DEFINE bytes == WriteInto(h) \o payload
<1>1. ParseAs(Reader, opcode, Needs(opcode), bytes) = Refused("UnexpectedOpcode")
  BY NeedsNat, ParsedAs
<1> HIDE DEF bytes
<1>2. IsRefused(Decode(opcode, bytes))
  BY <1>1, RefusedEarly, Results
<1> QED
  BY <1>2 DEF bytes

\* One that is too short gives none of them anything.
LEMMA ShortRefused ==
  ASSUME Reader \in Byte, NEW h \in Heads, h.version = Reader,
         NEW m \in Nat, NEW payload, Sized(payload, m), m < Needs(h.opcode)
  PROVE  RefusedByAll(WriteInto(h) \o payload)
<1> SUFFICES ASSUME NEW opcode \in Decoders
             PROVE  IsRefused(Decode(opcode, WriteInto(h) \o payload))
  BY DEF RefusedByAll
<1> DEFINE bytes == WriteInto(h) \o payload
<1>1. CASE opcode # h.opcode
  BY <1>1, OthersRefuse
<1>2. CASE opcode = h.opcode
  <2>1. ParseAs(Reader, opcode, Needs(opcode), bytes) = Refused("Truncated")
    BY <1>2, NeedsNat, ParsedAs
  <2> HIDE DEF bytes
  <2>2. IsRefused(Decode(opcode, bytes))
    BY <2>1, RefusedEarly, Results
  <2> QED
    BY <2>2 DEF bytes
<1> QED
  BY <1>1, <1>2

\* It is its own decoder that decides.
LEMMA ArrivesAs ==
  ASSUME Reader \in Byte, NEW h \in Heads, h.version = Reader,
         NEW m \in Nat, NEW payload, Sized(payload, m), NEW body,
         Decode(h.opcode, WriteInto(h) \o payload) = Accepted(h, body)
  PROVE  Arrives(WriteInto(h) \o payload, h, body)
<1>1. ASSUME NEW opcode \in Decoders, opcode # h.opcode
      PROVE  IsRefused(Decode(opcode, WriteInto(h) \o payload))
  BY <1>1, OthersRefuse
<1> QED
  BY <1>1 DEF Arrives

LEMMA CutInPayload ==
  ASSUME NEW h \in Heads, NEW m \in Nat, NEW payload, Sized(payload, m),
         NEW k \in 0 .. m
  PROVE  Cut(WriteInto(h) \o payload, 12 + k) = WriteInto(h) \o Cut(payload, k)
<1> DEFINE w == WriteInto(h)
           u == w \o payload
           p == Cut(payload, k)
           v == w \o p
           c == Cut(u, 12 + k)
<1>1. Sized(w, 12)
  BY OfHeads, HeaderBytes
<1>2. Sized(p, k) /\ \A i \in 1 .. k : p[i] = payload[i]
  BY CutBytes
<1> HIDE DEF w, p
<1>3. Joined(u, w, 12, payload, m)
  BY <1>1, JoinedBytes
<1>4. Joined(v, w, 12, p, k)
  BY <1>1, <1>2, JoinedBytes
<1> HIDE DEF u, v
<1>5. Sized(u, 12 + m) /\ 12 + m \in Nat /\ 12 + k \in 0 .. 12 + m
  BY <1>3 DEF Joined
<1>6. Sized(c, 12 + k) /\ \A i \in 1 .. 12 + k : c[i] = u[i]
  BY <1>5, CutBytes
<1> HIDE DEF c
<1>7. ASSUME NEW i \in 1 .. 12 + k
      PROVE  c[i] = v[i]
  <2>1. CASE i \in 1 .. 12
    BY <1>3, <1>4, <1>6, <2>1 DEF Joined
  <2>2. CASE i \notin 1 .. 12
    <3>1. i - 12 \in 1 .. k /\ i - 12 \in 1 .. m /\ i = 12 + (i - 12)
      BY <2>2
    <3>2. u[i] = payload[i - 12]
      BY <1>3, <3>1 DEF Joined
    <3>3. v[i] = p[i - 12]
      BY <1>4, <3>1 DEF Joined
    <3> QED
      BY <1>2, <1>6, <3>1, <3>2, <3>3
  <2> QED
    BY <2>1, <2>2
<1>8. Sized(v, 12 + k)
  BY <1>4 DEF Joined
<1>9. c = v
  BY <1>6, <1>7, <1>8, SameBytes
<1> QED
  BY <1>9 DEF c, u, v, p, w

LEMMA CutInHeader ==
  ASSUME NEW bytes, NEW n \in Nat, Sized(bytes, n), NEW k \in 0 .. n, k < 12
  PROVE  RefusedByAll(Cut(bytes, k))
<1> DEFINE c == Cut(bytes, k)
<1>1. Len(c) = k
  BY CutBytes DEF Sized
<1> HIDE DEF c
<1>2. Parse(Reader, c) = Refused("Truncated")
  BY <1>1 DEF Parse, HeaderLen
<1>3. ASSUME NEW opcode \in Decoders
      PROVE  IsRefused(Decode(opcode, c))
  <2>1. ParseAs(Reader, opcode, Needs(opcode), c) = Refused("Truncated")
    BY <1>2, Results DEF ParseAs
  <2> QED
    BY <2>1, RefusedEarly, Results
<1> QED
  BY <1>3 DEF RefusedByAll, c

LEMMA Frame ==
  ASSUME NEW h \in Heads, NEW m \in Nat, NEW payload, Sized(payload, m)
  PROVE  /\ Sized(WriteInto(h) \o payload, 12 + m)
         /\ (WriteInto(h) \o payload)[1] = h.version
<1> DEFINE w == WriteInto(h)
           u == w \o payload
<1>1. Sized(w, 12) /\ w[1] = h.version
  BY OfHeads, HeaderBytes DEF Begins
<1> HIDE DEF w
<1>2. Joined(u, w, 12, payload, m)
  BY <1>1, JoinedBytes
<1> HIDE DEF u
<1>3. Sized(u, 12 + m) /\ u[1] = w[1]
  BY <1>2 DEF Joined
<1> QED
  BY <1>1, <1>3 DEF u, w

\* A frame all of whose shorter payloads are refused is refused wherever it is cut.
LEMMA CutAnywhere ==
  ASSUME NEW h \in Heads, NEW m \in Nat, NEW payload, Sized(payload, m),
         \A k \in 0 .. m - 1 : RefusedByAll(WriteInto(h) \o Cut(payload, k))
  PROVE  LET bytes == WriteInto(h) \o payload IN
         \A n \in 0 .. Len(bytes) - 1 : RefusedByAll(Cut(bytes, n))
<1> DEFINE bytes == WriteInto(h) \o payload
<1> SUFFICES ASSUME NEW n \in 0 .. Len(bytes) - 1
             PROVE  RefusedByAll(Cut(bytes, n))
  OBVIOUS
<1>1. Sized(bytes, 12 + m) /\ 12 + m \in Nat
  BY Frame
<1>2. n \in 0 .. 12 + m /\ n < 12 + m
  BY <1>1 DEF Sized
<1>3. CASE n < 12
  <2> HIDE DEF bytes
  <2> QED
    BY <1>1, <1>2, <1>3, CutInHeader
<1>4. CASE ~(n < 12)
  <2>1. n - 12 \in 0 .. m /\ n - 12 \in 0 .. m - 1 /\ n = 12 + (n - 12)
    BY <1>2, <1>4
  <2>2. Cut(bytes, 12 + (n - 12)) = WriteInto(h) \o Cut(payload, n - 12)
    BY <2>1, CutInPayload
  <2>3. Cut(bytes, n) = WriteInto(h) \o Cut(payload, n - 12)
    BY <2>1, <2>2
  <2> QED
    BY <2>1, <2>3
<1> QED
  BY <1>3, <1>4

-----------------------------------------------------------------------------
(* Each frame arrives *)

\* Pages of one build version.
Met == Reader \in Byte /\ Writer = Reader

LEMMA Zero == 0 \in U32 /\ 0 \in Byte
  BY DEF U32, Byte

LEMMA PlainHead ==
  ASSUME NEW version \in Byte, NEW opcode \in Byte, NEW id \in U32, NEW pos \in U32
  PROVE  /\ Plain(version, opcode, id, pos) \in Heads
         /\ Plain(version, opcode, id, pos).opcode = opcode
         /\ Plain(version, opcode, id, pos).version = version
  BY Zero DEF Plain, Header, Heads, F32, Codecs

LEMMA SealedHead ==
  ASSUME Writer \in Byte, NEW e \in Envelopes, NEW opcode \in Byte
  PROVE  LET h == [Sealed(e) EXCEPT !.opcode = opcode] IN
         h \in Heads /\ h.opcode = opcode /\ h.version = Writer /\ h.codec = e.codec
<1>1. /\ e.opcode \in Byte /\ e.codec \in Codecs /\ e.flags \in Byte
      /\ e.request_id \in U32 /\ e.seq_pos \in U32
  BY CodecAssumption
<1> QED
  BY <1>1 DEF Sealed, Header, Heads

LEMMA OpcodeBytes ==
  Hello \in Byte /\ Activation \in Byte /\ Token \in Byte /\ Reset \in Byte /\ Error \in Byte
  BY DEF Hello, Activation, Token, Reset, Error, Byte

LEMMA SayableHellos ==
  ASSUME NEW hello \in Hellos
  PROVE  hello \in Sayable
  BY CodecAssumption DEF Sayable, Text

LEMMA HelloFrameIs ==
  ASSUME Writer \in Byte, NEW hello \in Hellos, NEW id \in Numbers
  PROVE  /\ Plain(Writer, Hello, id, 0) \in Heads
         /\ Plain(Writer, Hello, id, 0).opcode = Hello
         /\ Plain(Writer, Hello, id, 0).version = Writer
         /\ Len(hello.backend) \in Nat
         /\ Sized(HelloPayload(hello), 20 + Len(hello.backend))
         /\ ReadU32(HelloPayload(hello), 16) = Len(hello.backend)
         /\ EncodeHello(Writer, hello, id)
              = WriteInto(Plain(Writer, Hello, id, 0)) \o HelloPayload(hello)
<1>1. hello \in Sayable /\ id \in U32
  BY SayableHellos, CodecAssumption
<1>2. /\ Plain(Writer, Hello, id, 0) \in Heads
      /\ Plain(Writer, Hello, id, 0).opcode = Hello
      /\ Plain(Writer, Hello, id, 0).version = Writer
  BY <1>1, Zero, OpcodeBytes, PlainHead
<1>3. /\ Len(hello.backend) \in Nat
      /\ Sized(HelloPayload(hello), 20 + Len(hello.backend))
      /\ ReadU32(HelloPayload(hello), 16) = Len(hello.backend)
  BY <1>1, HelloPayloadBytes
<1>4. EncodeHello(Writer, hello, id)
        = WriteInto(Plain(Writer, Hello, id, 0)) \o HelloPayload(hello)
  BY DEF EncodeHello, HelloPayload
<1> QED
  BY <1>2, <1>3, <1>4

LEMMA HelloComes ==
  ASSUME Met, NEW hello \in Hellos, NEW id \in Numbers
  PROVE  Arrives(EncodeHello(Writer, hello, id), Plain(Writer, Hello, id, 0), hello)
<1> DEFINE h == Plain(Writer, Hello, id, 0)
           payload == HelloPayload(hello)
           bytes == EncodeHello(Writer, hello, id)
<1>1. Writer \in Byte /\ Reader \in Byte /\ Writer = Reader
  BY DEF Met
<1>2. /\ h \in Heads /\ h.opcode = Hello /\ h.version = Writer
      /\ Len(hello.backend) \in Nat /\ Sized(payload, 20 + Len(hello.backend))
      /\ bytes = WriteInto(h) \o payload
  BY <1>1, HelloFrameIs
<1>3. DecodeHello(Reader, bytes) = Accepted(h, hello)
  <2>1. hello \in Sayable /\ id \in U32
    BY SayableHellos, CodecAssumption
  <2>2. DecodeHello(Reader, bytes) = Accepted(Plain(Reader, Hello, id, 0), hello)
    BY <1>1, <2>1, HelloArrives
  <2> QED
    BY <1>1, <2>2
<1> HIDE DEF h, payload, bytes
<1>4. Decode(h.opcode, bytes) = Accepted(h, hello)
  BY <1>2, <1>3, OpcodesAre DEF Decode, Opcodes
<1>5. 20 + Len(hello.backend) \in Nat
  BY <1>2
<1>6. Arrives(bytes, h, hello)
  BY <1>1, <1>2, <1>4, <1>5, ArrivesAs
<1> QED
  BY <1>6 DEF bytes, h

\* Two numbers.
LEMMA TwoNumbers ==
  ASSUME NEW a \in U32, NEW b \in U32
  PROVE  LET body == Le32(a) \o Le32(b) IN
         Sized(body, 8) /\ ReadU32(body, 0) = a /\ ReadU32(body, 4) = b
<1> DEFINE x == Le32(a)
           y == Le32(b)
           body == x \o y
<1>1. Sized(x, 4) /\ Sized(y, 4)
  BY Le32Sized
<1> HIDE DEF x, y
<1>2. Joined(body, x, 4, y, 4)
  BY <1>1, JoinedBytes
<1> HIDE DEF body
<1>3. Sized(body, 8)
  BY <1>2 DEF Joined
<1>4. \A j \in 1 .. 4 : body[0 + j] = x[j]
  BY <1>2 DEF Joined
<1>5. \A j \in 1 .. 4 : body[4 + j] = y[j]
  BY <1>2 DEF Joined
<1>6. ReadU32(body, 0) = a
  BY <1>4, ReadBack DEF x
<1>7. ReadU32(body, 4) = b
  BY <1>5, ReadBack DEF y
<1> QED
  BY <1>3, <1>6, <1>7 DEF body, x, y

TokenPayload(r) == Le32(r.token_id) \o Le32(r.compute_us)

LEMMA TokenFrameIs ==
  ASSUME Writer \in Byte, NEW e \in Envelopes, NEW r \in Replies
  PROVE  LET h == [Sealed(e) EXCEPT !.opcode = Token] IN
         /\ h \in Heads /\ h.opcode = Token /\ h.version = Writer
         /\ Sized(TokenPayload(r), 8)
         /\ ReadU32(TokenPayload(r), 0) = r.token_id
         /\ ReadU32(TokenPayload(r), 4) = r.compute_us
         /\ EncodeToken(Sealed(e), r) = WriteInto(h) \o TokenPayload(r)
<1> DEFINE h == [Sealed(e) EXCEPT !.opcode = Token]
<1>1. r.token_id \in U32 /\ r.compute_us \in U32
  BY CodecAssumption DEF Replies
<1>2. h \in Heads /\ h.opcode = Token /\ h.version = Writer
  BY OpcodeBytes, SealedHead
<1>3. EncodeToken(Sealed(e), r) = WriteInto(h) \o TokenPayload(r)
  BY DEF EncodeToken, TokenPayload
<1> HIDE DEF h
<1>4. Sized(TokenPayload(r), 8) /\ ReadU32(TokenPayload(r), 0) = r.token_id
      /\ ReadU32(TokenPayload(r), 4) = r.compute_us
  BY <1>1, TwoNumbers DEF TokenPayload
<1> QED
  BY <1>2, <1>3, <1>4 DEF h

LEMMA TokenComes ==
  ASSUME Met, NEW e \in Envelopes, NEW r \in Replies
  PROVE  Arrives(EncodeToken(Sealed(e), r), [Sealed(e) EXCEPT !.opcode = Token], r)
<1> DEFINE h == [Sealed(e) EXCEPT !.opcode = Token]
           payload == TokenPayload(r)
           bytes == EncodeToken(Sealed(e), r)
<1>1. Writer \in Byte /\ Reader \in Byte /\ Writer = Reader
  BY DEF Met
<1>2. /\ h \in Heads /\ h.opcode = Token /\ h.version = Writer
      /\ Sized(payload, 8)
      /\ ReadU32(payload, 0) = r.token_id /\ ReadU32(payload, 4) = r.compute_us
      /\ bytes = WriteInto(h) \o payload
  BY <1>1, TokenFrameIs
<1> HIDE DEF h, payload, bytes
<1>3. ParseAs(Reader, Token, 8, bytes) = Accepted(h, payload)
  BY <1>1, <1>2, ParsedAs
<1>4. DecodeToken(Reader, bytes)
        = Accepted(h, [token_id |-> r.token_id, compute_us |-> r.compute_us])
  BY <1>2, <1>3, Results DEF DecodeToken
<1>5. r = [token_id |-> r.token_id, compute_us |-> r.compute_us]
  BY DEF Replies
<1>6. Decode(h.opcode, bytes) = Accepted(h, r)
  BY <1>2, <1>4, <1>5, OpcodesAre DEF Decode, Opcodes
<1>7. Arrives(bytes, h, r)
  BY <1>1, <1>2, <1>6, ArrivesAs
<1> QED
  BY <1>7 DEF bytes, h

LEMMA ResetComes ==
  ASSUME Met, NEW id \in Numbers
  PROVE  LET bytes == EncodeReset(Writer, id) IN
         /\ Parse(Reader, bytes) = Accepted(Plain(Writer, Reset, id, 0), <<>>)
         /\ RefusedByAll(bytes)
<1> DEFINE h == Plain(Writer, Reset, id, 0)
           none == <<>>
           bytes == EncodeReset(Writer, id)
<1>1. Writer \in Byte /\ Reader \in Byte /\ Writer = Reader /\ id \in U32
  BY CodecAssumption DEF Met
<1>2. h \in Heads /\ h.opcode = Reset /\ h.version = Writer
  BY <1>1, Zero, OpcodeBytes, PlainHead
<1>3. Sized(none, 0)
  BY DEF Sized
<1>4. bytes = WriteInto(h) \o none
  <2>1. WriteInto(h) \in Seq(Byte)
    BY <1>2, OfHeads, HeaderBytes DEF Sized
  <2> QED
    BY <2>1 DEF EncodeReset
<1> HIDE DEF h, none, bytes
<1>5. Parse(Reader, bytes) = Accepted(h, none)
  BY <1>1, <1>2, <1>3, <1>4, ParsedFrame
<1>6. Reset \notin Decoders
  BY OpcodesAre DEF Opcodes
<1>7. RefusedByAll(bytes)
  BY <1>1, <1>2, <1>3, <1>4, <1>6, OthersRefuse DEF RefusedByAll
<1> QED
  BY <1>5, <1>7 DEF h, none, bytes

LEMMA ErrorComes ==
  ASSUME Met, NEW id \in Numbers, NEW pos \in Numbers, NEW m \in Messages
  PROVE  Arrives(EncodeError(Writer, id, pos, m), Plain(Writer, Error, id, pos), m)
<1> DEFINE h == Plain(Writer, Error, id, pos)
           bytes == EncodeError(Writer, id, pos, m)
<1>1. /\ Writer \in Byte /\ Reader \in Byte /\ Writer = Reader /\ id \in U32
      /\ pos \in U32 /\ m \in Seq(Byte) /\ IsText(m)
  BY CodecAssumption DEF Met, Text
<1>2. h \in Heads /\ h.opcode = Error /\ h.version = Writer
  BY <1>1, OpcodeBytes, PlainHead
<1>3. Sized(m, Len(m)) /\ Len(m) \in Nat /\ ~(Len(m) < 0)
  BY <1>1 DEF Sized
<1>4. bytes = WriteInto(h) \o m
  BY DEF EncodeError
<1> HIDE DEF h, bytes
<1>5. ParseAs(Reader, Error, 0, bytes) = Accepted(h, m)
  BY <1>1, <1>2, <1>3, <1>4, ParsedAs
<1>6. DecodeError(Reader, bytes) = Accepted(h, m)
  BY <1>1, <1>5, Results DEF DecodeError
<1>7. Decode(h.opcode, bytes) = Accepted(h, m)
  BY <1>2, <1>6, OpcodesAre DEF Decode, Opcodes
<1>8. Arrives(bytes, h, m)
  BY <1>1, <1>2, <1>3, <1>4, <1>7, ArrivesAs
<1> QED
  BY <1>8 DEF bytes, h

-----------------------------------------------------------------------------
(* Activations *)

\* The elements of an F32 payload.
Exact(t) == FlattenSeq([i \in DOMAIN t |-> Bits(127 * t[i])])

LEMMA ElementBits ==
  ASSUME NEW x \in Int, IsElement(x)
  PROVE  IsI32(127 * x) /\ Sized(Bits(127 * x), 4)
<1>1. 127 * x \in Int
  OBVIOUS
<1>2. IsI32(127 * x)
  BY ElementBound, SMT DEF IsElement, IsI32
<1>3. Sized(Bits(127 * x), 4)
  BY <1>1, IntBytes DEF Bits
<1> QED
  BY <1>2, <1>3

LEMMA TensorIs ==
  ASSUME NEW t \in Tensors
  PROVE  /\ AnyTensor(t) /\ t \in Seq(Int) /\ Len(t) \in Nat /\ Len(t) \in U32
         /\ DOMAIN t = 1 .. Len(t)
         /\ \A i \in 1 .. Len(t) : t[i] \in Int /\ IsElement(t[i])
<1>1. t \in Seq(Int) /\ Len(t) \in U32 /\ \A i \in DOMAIN t : IsElement(t[i])
  BY CodecAssumption
<1>2. DOMAIN t = 1 .. Len(t) /\ Len(t) \in Nat
  BY <1>1
<1>3. AnyTensor(t)
  BY <1>1 DEF AnyTensor
<1>4. \A i \in 1 .. Len(t) : t[i] \in Int /\ IsElement(t[i])
  BY <1>1, <1>2
<1> QED
  BY <1>1, <1>2, <1>3, <1>4

\* An F32 payload is four bytes for each element.
LEMMA ExactBytes ==
  ASSUME NEW t \in Tensors
  PROVE  /\ Sized(Exact(t), 4 * Len(t))
         /\ \A i \in 1 .. Len(t) : \A j \in 1 .. 4 :
              Exact(t)[4 * (i - 1) + j] = Le32(127 * t[i])[j]
<1> DEFINE n == Len(t)
           seqs == [i \in DOMAIN t |-> Bits(127 * t[i])]
<1>1. n \in Nat /\ DOMAIN t = 1 .. n
  BY TensorIs
<1>2. \A i \in 1 .. n : Sized(Bits(127 * t[i]), 4)
  BY TensorIs, ElementBits
<1>3. /\ seqs \in Seq(Seq(Byte)) /\ Len(seqs) = n
      /\ \A i \in 1 .. n : seqs[i] = Le32(127 * t[i]) /\ Len(seqs[i]) = 4
  BY <1>1, <1>2 DEF Sized, Bits
<1>4. Exact(t) = FlattenSeq(seqs)
  BY DEF Exact
<1> HIDE DEF seqs, n
<1>5. CASE n = 0
  <2>1. seqs = <<>>
    BY <1>3, <1>5
  <2>2. Exact(t) = <<>>
    BY <1>3, <1>4, <1>5, <2>1 DEF FlattenSeq
  <2> QED
    BY <1>5, <2>2 DEF Sized, n
<1>6. CASE n # 0
  <2>1. Fours(seqs) /\ seqs # <<>>
    BY <1>1, <1>3, <1>6 DEF Fours
  <2>2. FlattenedTo(Exact(t), seqs, n)
    BY <1>3, <1>4, <2>1, Flattened
  <2>3. Len(seqs[n]) = 4
    BY <1>1, <1>3, <1>6
  <2>4. Exact(t) \in Seq(Byte) /\ Len(Exact(t)) = 4 * n
    BY <1>1, <2>2, <2>3 DEF FlattenedTo
  <2>5. ASSUME NEW i \in 1 .. n, NEW j \in 1 .. 4
        PROVE  Exact(t)[4 * (i - 1) + j] = Le32(127 * t[i])[j]
    <3>1. j \in 1 .. Len(seqs[i]) /\ seqs[i] = Le32(127 * t[i])
      BY <1>3
    <3>2. Exact(t)[4 * (i - 1) + j] = seqs[i][j]
      BY <2>2, <3>1 DEF FlattenedTo
    <3> QED
      BY <3>1, <3>2
  <2> QED
    BY <2>4, <2>5 DEF n, Sized
<1> QED
  BY <1>5, <1>6

LEMMA MaxElementBig == 127 \in 0 .. MaxElement
<1>1. MaxElement \in Nat /\ 127 <= MaxElement
  BY SMT DEF MaxElement
<1> QED
  BY <1>1

LEMMA ElementFits ==
  ASSUME NEW n \in 0 .. MaxElement
  PROVE  n \in U32
<1> DEFINE q == n \div 16777216
<1>1. n \in Nat /\ q \in Int /\ 16777216 * q <= n /\ n < 16777216 * q + 16777216
  BY ElementNat
<1>2. n <= MaxElement
  BY ElementNat
<1> HIDE DEF q
<1>3. 0 <= q /\ q <= 255
  BY <1>1, <1>2, ElementBound, SMT
<1>4. q \in Byte
  BY <1>1, <1>3 DEF Byte
<1> QED
  BY <1>1, <1>4 DEF U32, q

\* The largest element gives the scale, which no element exceeds.
LEMMA ScaleIs ==
  ASSUME NEW t \in Tensors
  PROVE  /\ Scale(t) \in Nat \ {0} /\ Scale(t) \in U32
         /\ \A i \in 1 .. Len(t) :
              /\ Abs(t[i]) <= Scale(t)
              /\ Scale(t) = MaxAbs(t) \/ (MaxAbs(t) = 0 /\ t[i] = 0)
<1>1. MaxAbs(t) \in 0 .. MaxElement
  BY TensorIs, MaxAbsIs
<1>2. \A i \in 1 .. Len(t) : Abs(t[i]) \in Nat /\ Abs(t[i]) <= MaxAbs(t)
  BY TensorIs, MaxAbsIs
<1>3. \A i \in 1 .. Len(t) : t[i] \in Int
  BY TensorIs
<1>4. Scale(t) \in Nat \ {0} /\ (MaxAbs(t) > 0 => Scale(t) = MaxAbs(t))
      /\ (~(MaxAbs(t) > 0) => Scale(t) = 127)
  BY <1>1, ElementNat DEF Scale
<1>5. Scale(t) \in U32
  <2>1. 127 \in 0 .. MaxElement
    BY MaxElementBig
  <2>2. Scale(t) \in 0 .. MaxElement
    BY <1>1, <1>4, <2>1, ElementNat
  <2> QED
    BY <2>2, ElementFits
<1>6. ASSUME NEW i \in 1 .. Len(t)
      PROVE  /\ Abs(t[i]) <= Scale(t)
             /\ Scale(t) = MaxAbs(t) \/ (MaxAbs(t) = 0 /\ t[i] = 0)
  <2>1. CASE MaxAbs(t) > 0
    BY <1>2, <1>4, <2>1
  <2>2. CASE ~(MaxAbs(t) > 0)
    <3>1. MaxAbs(t) = 0 /\ Abs(t[i]) = 0 /\ Scale(t) = 127
      BY <1>1, <1>2, <1>4, <2>2, ElementNat
    <3>2. t[i] = 0
      BY <1>3, <3>1 DEF Abs
    <3> QED
      BY <3>1, <3>2
  <2> QED
    BY <2>1, <2>2
<1> QED
  BY <1>4, <1>5, <1>6

\* The byte of an element v in a tensor of scale s.
ByteOf(v, s) == Clamp(Round(127 * v, s)) % 256

\* A Q8 payload is the scale and a byte for each element.
LEMMA QuantizedBytes ==
  ASSUME NEW t \in Tensors
  PROVE  /\ Sized(Quantize(t), 4 + Len(t))
         /\ ReadU32(Quantize(t), 0) = Scale(t)
         /\ \A i \in 1 .. Len(t) : Quantize(t)[4 + i] = ByteOf(t[i], Scale(t))
<1> DEFINE n == Len(t)
           s == Scale(t)
           x == Le32(s)
           y == [i \in DOMAIN t |-> ByteOf(t[i], s)]
           body == x \o y
<1>1. n \in Nat /\ DOMAIN t = 1 .. n /\ \A i \in 1 .. n : t[i] \in Int
  BY TensorIs
<1>2. s \in Nat \ {0} /\ s \in U32 /\ \A i \in 1 .. n : Abs(t[i]) <= s
  BY ScaleIs
<1>3. \A i \in 1 .. n : ByteOf(t[i], s) \in Byte
  <2> HIDE DEF s, n
  <2> QED
    BY <1>1, <1>2, ByteOfElement DEF ByteOf
<1>4. Quantize(t) = body
  BY DEF Quantize, ByteOf
<1>5. Sized(x, 4)
  BY <1>2, Le32Sized
<1>6. Sized(y, n) /\ \A i \in 1 .. n : y[i] = ByteOf(t[i], s)
  <2> HIDE DEF s
  <2> QED
    BY <1>1, <1>3 DEF Sized
<1> HIDE DEF x, y, n
<1>7. Joined(body, x, 4, y, n)
  BY <1>1, <1>5, <1>6, JoinedBytes
<1> HIDE DEF body
<1>8. Sized(body, 4 + n) /\ \A i \in 1 .. n : body[4 + i] = ByteOf(t[i], s)
  BY <1>6, <1>7 DEF Joined
<1>9. \A j \in 1 .. 4 : body[0 + j] = x[j]
  BY <1>7 DEF Joined
<1>10. ReadU32(body, 0) = s
  BY <1>2, <1>9, ReadBack DEF x
<1> QED
  BY <1>4, <1>8, <1>10 DEF n

\* What follows the count of an activation.
Data(codec, t) == IF codec = F32 THEN Exact(t) ELSE Quantize(t)

ActivationPayload(codec, t) == Le32(Len(t)) \o Data(codec, t)

LEMMA AfterHeader ==
  ASSUME NEW h \in Heads, NEW m \in Nat, NEW x, NEW d, Sized(x, 4), Sized(d, m)
  PROVE  (WriteInto(h) \o x) \o d = WriteInto(h) \o (x \o d)
<1> DEFINE w == WriteInto(h)
<1>1. Sized(w, 12)
  BY OfHeads, HeaderBytes
<1> HIDE DEF w
<1>2. SameEitherWay(w, x, d)
  BY <1>1, ThreeParts
<1> QED
  BY <1>2 DEF w, SameEitherWay

\* How long the data of n elements is.
DataLen(codec, n) == IF codec = F32 THEN 4 * n ELSE 4 + n

LEMMA DataBytes ==
  ASSUME NEW t \in Tensors, NEW codec
  PROVE  /\ DataLen(codec, Len(t)) \in Nat
         /\ Sized(Data(codec, t), DataLen(codec, Len(t)))
<1>1. Len(t) \in Nat
  BY TensorIs
<1>2. CASE codec = F32
  BY <1>1, <1>2, ExactBytes DEF Data, DataLen
<1>3. CASE codec # F32
  BY <1>1, <1>3, QuantizedBytes DEF Data, DataLen
<1> QED
  BY <1>2, <1>3

LEMMA ActivationFrameIs ==
  ASSUME Writer \in Byte, NEW e \in Envelopes, NEW t \in Tensors
  PROVE  LET h == [Sealed(e) EXCEPT !.opcode = Activation]
             payload == ActivationPayload(e.codec, t)
             n == Len(t) IN
         /\ h \in Heads /\ h.opcode = Activation /\ h.version = Writer
         /\ h.codec = e.codec
         /\ n \in Nat /\ DataLen(e.codec, n) \in Nat
         /\ Sized(payload, 4 + DataLen(e.codec, n))
         /\ ReadU32(payload, 0) = n /\ From(payload, 4) = Data(e.codec, t)
         /\ EncodeActivation(Sealed(e), t) = WriteInto(h) \o payload
<1> DEFINE h == [Sealed(e) EXCEPT !.opcode = Activation]
           n == Len(t)
           m == DataLen(e.codec, n)
           x == Le32(n)
           d == Data(e.codec, t)
           payload == x \o d
<1>1. h \in Heads /\ h.opcode = Activation /\ h.version = Writer /\ h.codec = e.codec
  BY OpcodeBytes, SealedHead
<1>2. n \in Nat /\ n \in U32 /\ Sized(x, 4) /\ m \in Nat /\ Sized(d, m)
  BY TensorIs, Le32Sized, DataBytes
<1>3. Sealed(e).codec = e.codec
  BY DEF Sealed, Header
<1>4. EncodeActivation(Sealed(e), t) = (WriteInto(h) \o x) \o d
  BY <1>3 DEF EncodeActivation, Data, Exact
<1> HIDE DEF h, x, d, m, n
<1>5. Sized(WriteInto(h), 12)
  BY <1>1, OfHeads, HeaderBytes
<1>6. EncodeActivation(Sealed(e), t) = WriteInto(h) \o payload
  <2>1. (WriteInto(h) \o x) \o d = WriteInto(h) \o (x \o d)
    BY <1>1, <1>2, AfterHeader
  <2> QED
    BY <1>4, <2>1
<1>7. Joined(payload, x, 4, d, m)
  BY <1>2, JoinedBytes
<1> HIDE DEF payload
<1>8. Sized(payload, 4 + m) /\ From(payload, 4) = d
  <2>1. Sized(payload, 4 + m)
    BY <1>7 DEF Joined
  <2>2. From(payload, 4) = d
    BY <1>2, <1>7, JoinedRest
  <2> QED
    BY <2>1, <2>2
<1>9. ReadU32(payload, 0) = n
  <2>1. \A j \in 1 .. 4 : payload[0 + j] = x[j]
    BY <1>7 DEF Joined
  <2> QED
    BY <1>2, <2>1, ReadBack DEF x
<1> QED
  BY <1>1, <1>2, <1>6, <1>8, <1>9 DEF h, n, m, d, x, payload, ActivationPayload

\* What the decoder makes of a tensor sent with this codec.
Received(codec, t) ==
  IF codec = F32
    THEN [i \in 1 .. (Len(Exact(t)) \div 4) |-> FromBits(Exact(t), 4 * (i - 1))]
    ELSE DequantizeQ8(Quantize(t), Len(t))

LEMMA ActivationComes ==
  ASSUME Met, NEW e \in Envelopes, NEW t \in Tensors
  PROVE  LET h == [Sealed(e) EXCEPT !.opcode = Activation]
             bytes == EncodeActivation(Sealed(e), t) IN
         /\ Arrives(bytes, h, Received(e.codec, t))
         /\ Decode(Activation, bytes) = Accepted(h, Received(e.codec, t))
<1> DEFINE h == [Sealed(e) EXCEPT !.opcode = Activation]
           n == Len(t)
           m == DataLen(e.codec, n)
           payload == ActivationPayload(e.codec, t)
           bytes == EncodeActivation(Sealed(e), t)
           body == Received(e.codec, t)
<1>1. Writer \in Byte /\ Reader \in Byte /\ Writer = Reader
  BY DEF Met
<1>2. /\ h \in Heads /\ h.opcode = Activation /\ h.version = Writer /\ h.codec = e.codec
      /\ n \in Nat /\ m \in Nat /\ Sized(payload, 4 + m)
      /\ ReadU32(payload, 0) = n /\ From(payload, 4) = Data(e.codec, t)
      /\ bytes = WriteInto(h) \o payload
  BY <1>1, ActivationFrameIs
<1>3. 4 + m \in Nat /\ ~(4 + m < 4) /\ 4 + m = PayloadLen(e.codec, n)
  BY <1>2 DEF DataLen, PayloadLen
<1>4. body = IF e.codec = F32
               THEN [i \in 1 .. (Len(Data(e.codec, t)) \div 4) |->
                       FromBits(Data(e.codec, t), 4 * (i - 1))]
               ELSE DequantizeQ8(Data(e.codec, t), n)
  BY DEF Received, Data
<1> HIDE DEF h, n, m, payload, bytes, body
<1>5. ParseAs(Reader, Activation, 4, bytes) = Accepted(h, payload)
  BY <1>1, <1>2, <1>3, ParsedAs
<1>6. HasLength(h, payload)
  BY <1>2, <1>3 DEF HasLength, Sized
<1>7. DecodeActivation(Reader, bytes) = Accepted(h, body)
  <2> DEFINE frame == ParseAs(Reader, Activation, 4, bytes)
             d == Data(e.codec, t)
  <2>1. frame = Accepted(h, payload) /\ frame.header = h /\ frame.body = payload
        /\ ~IsRefused(frame)
    BY <1>5, Results
  <2> HIDE DEF d
  <2>2. From(payload, 4) = d /\ ReadU32(payload, 0) = n /\ h.codec = e.codec
    BY <1>2 DEF d
  <2>3. body = IF e.codec = F32
               THEN [i \in 1 .. (Len(d) \div 4) |-> FromBits(d, 4 * (i - 1))]
               ELSE DequantizeQ8(d, n)
    BY <1>4 DEF d
  <2>4. DecodeActivation(Reader, bytes)
          = Accepted(h, IF e.codec = F32
                          THEN [i \in 1 .. (Len(d) \div 4) |-> FromBits(d, 4 * (i - 1))]
                          ELSE DequantizeQ8(d, n))
    BY <1>6, <2>1, <2>2, Zenon DEF DecodeActivation
  <2> QED
    BY <2>3, <2>4
<1>8. Decode(Activation, bytes) = Accepted(h, body)
  BY <1>7, OpcodesAre DEF Decode, Opcodes
<1>9. Arrives(bytes, h, body)
  BY <1>1, <1>2, <1>3, <1>8, ArrivesAs
<1> QED
  BY <1>8, <1>9 DEF h, bytes, body

LEMMA ExactReceived ==
  ASSUME NEW t \in Tensors
  PROVE  Received(F32, t) = [i \in DOMAIN t |-> 127 * t[i]]
<1> DEFINE n == Len(t)
           d == Exact(t)
<1>1. n \in Nat /\ DOMAIN t = 1 .. n
  BY TensorIs
<1>2. /\ Sized(d, 4 * n)
      /\ \A i \in 1 .. n : \A j \in 1 .. 4 : d[4 * (i - 1) + j] = Le32(127 * t[i])[j]
  BY ExactBytes
<1>3. \A i \in 1 .. n : IsI32(127 * t[i])
  BY TensorIs, ElementBits
<1> HIDE DEF d, n
<1>4. Len(d) = 4 * n /\ d \in Seq(Byte) /\ (4 * n) \div 4 = n
  BY <1>1, <1>2 DEF Sized
<1>5. ASSUME NEW i \in 1 .. n
      PROVE  FromBits(d, 4 * (i - 1)) = 127 * t[i]
  <2> DEFINE x == 127 * t[i]
             at == 4 * (i - 1)
  <2>1. at \in Nat /\ at + 4 <= Len(d)
    BY <1>1, <1>4
  <2>2. \A j \in 1 .. 4 : d[at + j] = Le32(x)[j]
    BY <1>2
  <2>3. IsI32(x)
    BY <1>3
  <2> HIDE DEF x, at
  <2>4. FromBits(d, at) = x
    BY <1>4, <2>1, <2>2, <2>3, ElementReadBack
  <2> QED
    BY <2>4 DEF x, at
<1> QED
  BY <1>1, <1>4, <1>5 DEF Received, d

LEMMA QuantizedReceived ==
  ASSUME NEW t \in Tensors, NEW codec, codec # F32
  PROVE  LET values == Received(codec, t) IN
         /\ DOMAIN values = DOMAIN t
         /\ \A i \in DOMAIN t :
              /\ 2 * Abs(127 * t[i] - values[i]) <= MaxAbs(t)
              /\ Abs(t[i]) = MaxAbs(t) => values[i] = 127 * t[i]
<1> DEFINE n == Len(t)
           s == Scale(t)
           m == MaxAbs(t)
           d == Quantize(t)
           values == Received(codec, t)
<1>1. n \in Nat /\ DOMAIN t = 1 .. n /\ \A i \in 1 .. n : t[i] \in Int
  BY TensorIs
<1>2. /\ s \in Nat \ {0}
      /\ \A i \in 1 .. n : Abs(t[i]) <= s /\ (s = m \/ (m = 0 /\ t[i] = 0))
  BY ScaleIs
<1>3. /\ ReadU32(d, 0) = s
      /\ \A i \in 1 .. n : d[4 + i] = ByteOf(t[i], s)
  BY QuantizedBytes
<1>4. values = [i \in 1 .. n |-> AsI8(d[4 + i]) * ReadU32(d, 0)]
  BY DEF Received, DequantizeQ8
<1> HIDE DEF values, d, n, s, m
<1>5. ASSUME NEW i \in 1 .. n
      PROVE  /\ 2 * Abs(127 * t[i] - values[i]) <= m
             /\ Abs(t[i]) = m => values[i] = 127 * t[i]
  <2> DEFINE v == t[i]
             r == values[i]
             b == ByteOf(v, s)
  <2>1. r = AsI8(b) * s
    BY <1>3, <1>4
  <2>2. v \in Int /\ Abs(v) <= s /\ (s = m \/ (m = 0 /\ v = 0))
    BY <1>1, <1>2
  <2> HIDE DEF v, r
  <2>3. /\ r \in Int /\ 2 * Abs(127 * v - r) <= s
        /\ Abs(v) = s => r = 127 * v
        /\ v = 0 => r = 0
    BY <1>2, <2>1, <2>2, ByteOfElement DEF ByteOf
  <2>4. CASE s = m
    BY <2>3, <2>4 DEF v, r
  <2>5. CASE m = 0 /\ v = 0
    <3>1. r = 0 /\ 127 * v = 0
      BY <2>3, <2>5
    <3>3. Abs(127 * v - r) = 0
      BY <3>1 DEF Abs
    <3>2. 2 * Abs(127 * v - r) <= m /\ r = 127 * v
      BY <2>5, <3>1, <3>3
    <3> QED
      BY <3>2 DEF v, r
  <2> QED
    BY <2>2, <2>4, <2>5
<1>6. DOMAIN values = DOMAIN t
  BY <1>1, <1>4
<1> QED
  BY <1>1, <1>5, <1>6 DEF values, m

-----------------------------------------------------------------------------
(* Cut frames *)

LEMMA CutToken ==
  ASSUME Met, NEW e \in Envelopes, NEW r \in Replies
  PROVE  LET bytes == EncodeToken(Sealed(e), r) IN
         \A n \in 0 .. Len(bytes) - 1 : RefusedByAll(Cut(bytes, n))
<1> DEFINE h == [Sealed(e) EXCEPT !.opcode = Token]
           payload == TokenPayload(r)
           bytes == EncodeToken(Sealed(e), r)
<1>1. Writer \in Byte /\ Reader \in Byte /\ Writer = Reader
  BY DEF Met
<1>2. /\ h \in Heads /\ h.opcode = Token /\ h.version = Writer
      /\ Sized(payload, 8) /\ bytes = WriteInto(h) \o payload
  BY <1>1, TokenFrameIs
<1>3. Needs(Token) = 8
  BY OpcodesAre DEF Needs, Opcodes
<1> HIDE DEF h, payload, bytes
<1>4. ASSUME NEW k \in 0 .. 8 - 1
      PROVE  RefusedByAll(WriteInto(h) \o Cut(payload, k))
  <2>1. k \in 0 .. 8 /\ k \in Nat /\ k < 8
    OBVIOUS
  <2>2. Sized(Cut(payload, k), k)
    BY <1>2, <2>1, CutBytes
  <2> QED
    BY <1>1, <1>2, <1>3, <2>1, <2>2, ShortRefused
<1>5. \A n \in 0 .. Len(bytes) - 1 : RefusedByAll(Cut(bytes, n))
  BY <1>2, <1>4, CutAnywhere
<1> QED
  BY <1>5 DEF bytes

LEMMA CutHello ==
  ASSUME Met, NEW hello \in Hellos, NEW id \in Numbers
  PROVE  LET bytes == EncodeHello(Writer, hello, id) IN
         \A n \in 0 .. Len(bytes) - 1 : RefusedByAll(Cut(bytes, n))
<1> DEFINE h == Plain(Writer, Hello, id, 0)
           payload == HelloPayload(hello)
           bytes == EncodeHello(Writer, hello, id)
           l == Len(hello.backend)
           m == 20 + l
<1>1. Writer \in Byte /\ Reader \in Byte /\ Writer = Reader
  BY DEF Met
<1>2. /\ h \in Heads /\ h.opcode = Hello /\ h.version = Writer
      /\ l \in Nat /\ Sized(payload, m) /\ ReadU32(payload, 16) = l
      /\ bytes = WriteInto(h) \o payload
  BY <1>1, HelloFrameIs
<1>3. Needs(Hello) = 20 /\ HelloFixed = 20 /\ m \in Nat
  BY <1>2 DEF Needs, HelloFixed
<1> HIDE DEF h, payload, bytes, l
<1>4. ASSUME NEW k \in 0 .. m - 1
      PROVE  RefusedByAll(WriteInto(h) \o Cut(payload, k))
  <2> DEFINE c == Cut(payload, k)
             cut == WriteInto(h) \o c
  <2>1. k \in 0 .. m /\ k \in Nat /\ k < m
    BY <1>3
  <2>2. Sized(c, k) /\ \A i \in 1 .. k : c[i] = payload[i]
    BY <1>2, <1>3, <2>1, CutBytes
  <2> HIDE DEF c
  <2>3. ASSUME k < 20 PROVE RefusedByAll(cut)
    BY <1>1, <1>2, <1>3, <2>1, <2>2, <2>3, ShortRefused
  <2>4. ASSUME ~(k < 20) PROVE RefusedByAll(cut)
    <3>1. ParseAs(Reader, Hello, HelloFixed, cut) = Accepted(h, c)
      BY <1>1, <1>2, <1>3, <2>1, <2>2, <2>4, ParsedAs
    <3>2. ReadU32(c, 16) = l
      <4>1. /\ c[16 + 1] = payload[16 + 1] /\ c[16 + 2] = payload[16 + 2]
            /\ c[16 + 3] = payload[16 + 3] /\ c[16 + 4] = payload[16 + 4]
        BY <2>1, <2>2, <2>4
      <4> QED
        BY <1>2, <4>1 DEF ReadU32
    <3>3. Len(c) < HelloFixed + ReadU32(c, 16)
      BY <1>3, <2>1, <2>2, <3>2 DEF Sized
    <3> HIDE DEF cut
    <3>4. DecodeHello(Reader, cut) = Refused("Truncated")
      BY <3>1, <3>3, Results DEF DecodeHello
    <3>5. IsRefused(Decode(Hello, cut))
      BY <3>4, Results, OpcodesAre DEF Decode, Opcodes
    <3>6. \A opcode \in Decoders : opcode # Hello => IsRefused(Decode(opcode, cut))
      BY <1>1, <1>2, <2>1, <2>2, OthersRefuse DEF cut
    <3> QED
      BY <3>5, <3>6 DEF RefusedByAll, cut
  <2> QED
    BY <2>3, <2>4 DEF c
<1> HIDE DEF m
<1>5. \A n \in 0 .. Len(bytes) - 1 : RefusedByAll(Cut(bytes, n))
  BY <1>2, <1>3, <1>4, CutAnywhere
<1> QED
  BY <1>5 DEF bytes

LEMMA CutActivation ==
  ASSUME Met, NEW e \in Envelopes, NEW t \in Tensors
  PROVE  LET bytes == EncodeActivation(Sealed(e), t) IN
         \A n \in 0 .. Len(bytes) - 1 : RefusedByAll(Cut(bytes, n))
<1> DEFINE h == [Sealed(e) EXCEPT !.opcode = Activation]
           n == Len(t)
           m == 4 + DataLen(e.codec, n)
           payload == ActivationPayload(e.codec, t)
           bytes == EncodeActivation(Sealed(e), t)
<1>1. Writer \in Byte /\ Reader \in Byte /\ Writer = Reader
  BY DEF Met
<1>2. /\ h \in Heads /\ h.opcode = Activation /\ h.version = Writer /\ h.codec = e.codec
      /\ n \in Nat /\ DataLen(e.codec, n) \in Nat /\ Sized(payload, m)
      /\ ReadU32(payload, 0) = n
      /\ bytes = WriteInto(h) \o payload
  BY <1>1, ActivationFrameIs
<1>3. Needs(Activation) = 4 /\ m \in Nat /\ m = PayloadLen(e.codec, n)
  BY <1>2, OpcodesAre DEF Needs, Opcodes, DataLen, PayloadLen
<1> HIDE DEF h, payload, bytes, n, m
<1>4. ASSUME NEW k \in 0 .. m - 1
      PROVE  RefusedByAll(WriteInto(h) \o Cut(payload, k))
  <2> DEFINE c == Cut(payload, k)
             cut == WriteInto(h) \o c
  <2>1. k \in 0 .. m /\ k \in Nat /\ k < m
    BY <1>3
  <2>2. Sized(c, k) /\ \A i \in 1 .. k : c[i] = payload[i]
    BY <1>2, <1>3, <2>1, CutBytes
  <2> HIDE DEF c
  <2>3. ASSUME k < 4 PROVE RefusedByAll(cut)
    BY <1>1, <1>2, <1>3, <2>1, <2>2, <2>3, ShortRefused
  <2>4. ASSUME ~(k < 4) PROVE RefusedByAll(cut)
    <3>1. ParseAs(Reader, Activation, 4, cut) = Accepted(h, c)
      BY <1>1, <1>2, <2>1, <2>2, <2>4, ParsedAs
    <3>2. ReadU32(c, 0) = n
      <4>1. /\ c[0 + 1] = payload[0 + 1] /\ c[0 + 2] = payload[0 + 2]
            /\ c[0 + 3] = payload[0 + 3] /\ c[0 + 4] = payload[0 + 4]
        BY <2>1, <2>2, <2>4
      <4> QED
        BY <1>2, <4>1 DEF ReadU32
    <3>3. ~HasLength(h, c)
      BY <1>2, <1>3, <2>1, <2>2, <3>2 DEF Sized, HasLength
    <3> HIDE DEF cut
    <3>4. DecodeActivation(Reader, cut) = Refused("LengthMismatch")
      BY <3>1, <3>3, Results DEF DecodeActivation
    <3>5. IsRefused(Decode(Activation, cut))
      BY <3>4, Results, OpcodesAre DEF Decode, Opcodes
    <3>6. \A opcode \in Decoders : opcode # Activation => IsRefused(Decode(opcode, cut))
      BY <1>1, <1>2, <2>1, <2>2, OthersRefuse DEF cut
    <3> QED
      BY <3>5, <3>6 DEF RefusedByAll, cut
  <2> QED
    BY <2>3, <2>4 DEF c
<1>5. \A k \in 0 .. Len(bytes) - 1 : RefusedByAll(Cut(bytes, k))
  BY <1>2, <1>3, <1>4, CutAnywhere
<1> QED
  BY <1>5 DEF bytes

-----------------------------------------------------------------------------
(* Frames of another version *)

\* A frame as EncodeHello and the others make it.
IsFrame(bytes) ==
  \E n \in Nat : n >= 12 /\ Sized(bytes, n) /\ bytes[1] = Writer

LEMMA FrameOf ==
  ASSUME NEW h \in Heads, h.version = Writer, NEW m \in Nat, NEW payload,
         Sized(payload, m)
  PROVE  IsFrame(WriteInto(h) \o payload)
<1>1. 12 + m \in Nat /\ 12 + m >= 12
  OBVIOUS
<1> QED
  BY <1>1, Frame DEF IsFrame

LEMMA AllFrames ==
  ASSUME Writer \in Byte, NEW bytes \in HelloFrames \cup TokenFrames \cup ErrorFrames
  PROVE  IsFrame(bytes)
<1>1. CASE bytes \in HelloFrames
  <2>1. PICK hello \in Hellos, id \in Numbers : bytes = EncodeHello(Writer, hello, id)
    BY <1>1 DEF HelloFrames
  <2>2. 20 + Len(hello.backend) \in Nat
    BY HelloFrameIs
  <2> QED
    BY <2>1, <2>2, HelloFrameIs, FrameOf
<1>2. CASE bytes \in TokenFrames
  <2>1. PICK e \in Envelopes, r \in Replies : bytes = EncodeToken(Sealed(e), r)
    BY <1>2 DEF TokenFrames
  <2> QED
    BY <2>1, TokenFrameIs, FrameOf
<1>3. CASE bytes \in ErrorFrames
  <2>1. PICK id \in Numbers, pos \in Numbers, m \in Messages :
          bytes = EncodeError(Writer, id, pos, m)
    BY <1>3 DEF ErrorFrames
  <2>2. id \in U32 /\ pos \in U32 /\ m \in Seq(Byte)
    BY CodecAssumption DEF Text
  <2>3. Sized(m, Len(m)) /\ Len(m) \in Nat
    BY <2>2 DEF Sized
  <2>4. /\ Plain(Writer, Error, id, pos) \in Heads
        /\ Plain(Writer, Error, id, pos).version = Writer
    BY <2>2, OpcodeBytes, PlainHead
  <2> QED
    BY <2>1, <2>3, <2>4, FrameOf DEF EncodeError
<1> QED
  BY <1>1, <1>2, <1>3

LEMMA SkewSeen ==
  ASSUME Reader # Writer, NEW bytes, IsFrame(bytes), NEW codec \in Byte,
         NEW n \in HeaderLen .. Len(bytes), NEW opcode \in Decoders
  PROVE  Decode(opcode, Cut([bytes EXCEPT ![3] = codec], n)) = Refused("VersionMismatch")
<1> DEFINE s == [bytes EXCEPT ![3] = codec]
           c == Cut(s, n)
<1>1. PICK l \in Nat : l >= 12 /\ Sized(bytes, l) /\ bytes[1] = Writer
  BY DEF IsFrame
<1>2. Sized(s, l) /\ s[1] = Writer
  <2>1. bytes \in Seq(Byte) /\ Len(bytes) = l
    BY <1>1 DEF Sized
  <2>2. s \in Seq(Byte) /\ Len(s) = l /\ s[1] = bytes[1]
    BY <1>1, <2>1
  <2> QED
    BY <1>1, <2>2 DEF Sized
<1>3. n \in 0 .. l /\ n >= 12 /\ HeaderLen = 12
  BY <1>1 DEF Sized, HeaderLen
<1> HIDE DEF s
<1>4. Sized(c, n) /\ c[1] = Writer
  BY <1>1, <1>2, <1>3, CutBytes
<1> HIDE DEF c
<1>5. Parse(Reader, c) = Refused("VersionMismatch")
  <2>1. ~(Len(c) < HeaderLen) /\ c[1] # Reader
    BY <1>3, <1>4 DEF Sized
  <2> QED
    BY <2>1 DEF Parse
<1>6. ParseAs(Reader, opcode, Needs(opcode), c) = Refused("VersionMismatch")
  BY <1>5, Results DEF ParseAs
<1>7. Decode(opcode, c) = Refused("VersionMismatch")
  BY <1>6, RefusedEarly, Results
<1> QED
  BY <1>7 DEF c, s

-----------------------------------------------------------------------------
(* The inductive invariant of the handshake *)

Ids == {Announce, Reply}

\* All in the box was written by a page of build b.
FramesOf(box, b) ==
  \A i \in DOMAIN box : \E l \in Labels, id \in Ids : box[i] = HelloFrame(b, l, id)

\* What it wrote last says l.
EndsWith(box, b, l) ==
  box # <<>> => \E id \in Ids : box[Len(box)] = HelloFrame(b, l, id)

Announcement(box, b) ==
  \E i \in DOMAIN box : \E l \in Labels : box[i] = HelloFrame(b, l, Announce)

\* Neither page has closed its end.
Up == \A q \in Page : end[q] # "none"

\* While a link is up neither page has been reloaded.
Linked == Up => \A p \in Page : met[p] = build[Peer(p)]

\* What is on its way to p is of the build its peer had as the link came up,
\* and the last of it has the label its peer shows, if the peer is still there.
FramesCurrent(p) ==
  /\ FramesOf(wire[p], met[p])
  /\ Up => EndsWith(wire[p], met[p], label[Peer(p)])

\* Nothing is sent before the channel opens.
SilentUntilOpen(p) == end[p] = "opening" => wire[Peer(p)] = <<>>

ToldRight(p) == end[p] = "open" => told[p] \in {"open", Verdict(p)}

\* An open peer has announced itself.
WillBeTold(p) ==
  Up /\ end[Peer(p)] = "open" =>
    wire[p] # <<>> \/ (end[p] = "open" /\ told[p] # "open")

\* If p does not show its peer's label it will hear of it, or will ask.
WillShow(p) ==
  end[p] = "open" /\ end[Peer(p)] = "open" /\ Verdict(p) = "agree" =>
    \/ wire[p] # <<>> \/ shown[p] = label[Peer(p)]
    \/ building[p] \/ Announcement(wire[Peer(p)], build[p])

PageInv(p) ==
  /\ FramesCurrent(p) /\ SilentUntilOpen(p)
  /\ ToldRight(p) /\ WillBeTold(p) /\ WillShow(p)

HandshakeInv == TypeOK /\ Linked /\ \A p \in Page : PageInv(p)

-----------------------------------------------------------------------------
(* Frames on the wire *)

LEMMA Pages ==
  /\ Page = {0, 1} /\ Peer(0) = 1 /\ Peer(1) = 0
  /\ \A p \in Page : Peer(p) \in Page /\ Peer(p) # p /\ Peer(Peer(p)) = p
  /\ \A p, r \in Page : r = p \/ r = Peer(p)
  BY DEF Page, Peer

LEMMA LocalHellos ==
  ASSUME NEW b \in Builds, NEW l \in Labels
  PROVE  /\ LocalHello(b, l) \in Sayable /\ b.version \in Byte /\ b.shape \in Shapes
         /\ LocalHello(b, l).backend = l
         /\ Shape(LocalHello(b, l)) = Shape(b.shape)
<1>1. b.version \in Byte /\ b.shape \in Shapes
  BY HandshakeAssumption
<1>2. l \in Seq(Byte) /\ IsText(l) /\ Len(l) \in U32
  BY HandshakeAssumption
<1>3. LocalHello(b, l) \in Sayable
  BY <1>1, <1>2 DEF LocalHello, Sayable, Shapes
<1> QED
  BY <1>1, <1>3 DEF LocalHello, Shape

LEMMA IdFacts == Announce \in U32 /\ Reply \in U32 /\ Announce # Reply
  BY DEF Announce, Reply, U32, Byte

LEMMA FrameType ==
  ASSUME NEW b \in Builds, NEW l \in Labels, NEW id \in Ids
  PROVE  HelloFrame(b, l, id) \in Seq(Byte)
<1> DEFINE hello == LocalHello(b, l)
           h == Plain(b.version, Hello, id, 0)
           w == WriteInto(h)
           body == HelloPayload(hello)
<1>1. hello \in Sayable /\ b.version \in Byte
  BY LocalHellos
<1> HIDE DEF hello
<1>2. Numbered(h)
  <2>1. 0 \in U32 /\ id \in U32
    BY IdFacts DEF U32, Byte, Ids
  <2> QED
    BY <1>1, <2>1 DEF Numbered, Plain, Header, Hello, F32, Byte
<1>3. HelloFrame(b, l, id) = w \o body
  BY DEF HelloFrame, EncodeHello, HelloPayload, hello
<1> HIDE DEF h
<1>4. Sized(w, 12)
  BY <1>2, HeaderBytes
<1> HIDE DEF w
<1>5. body \in Seq(Byte)
  BY <1>1, HelloPayloadBytes DEF Sized
<1> HIDE DEF body
<1> QED
  BY <1>3, <1>4, <1>5 DEF Sized

\* What on_frame makes of a frame of the peer.
LEMMA FrameHeard ==
  ASSUME NEW version \in Byte, NEW b \in Builds, NEW l \in Labels, NEW id \in Ids
  PROVE  LET heard == DecodeHello(version, HelloFrame(b, l, id)) IN
         /\ b.version # version => IsRefused(heard)
         /\ b.version = version =>
              /\ ~IsRefused(heard) /\ heard.body = LocalHello(b, l)
              /\ heard.header.request_id = id
<1> DEFINE heard == DecodeHello(version, HelloFrame(b, l, id))
<1>1. id \in U32 /\ b.version \in Byte /\ LocalHello(b, l) \in Sayable
  BY IdFacts, LocalHellos DEF Ids
<1>2. /\ b.version # version => heard = Refused("VersionMismatch")
      /\ b.version = version =>
           heard = Accepted(Plain(version, Hello, id, 0), LocalHello(b, l))
  BY <1>1, HelloArrives DEF HelloFrame
<1> HIDE DEF heard
<1>3. b.version # version => IsRefused(heard)
  BY <1>2 DEF Refused, IsRefused
<1>4. b.version = version =>
        /\ ~IsRefused(heard) /\ heard.body = LocalHello(b, l)
        /\ heard.header.request_id = id
  BY <1>2 DEF Accepted, IsRefused, Plain, Header
<1> QED
  BY <1>3, <1>4 DEF heard

LEMMA NoFrames ==
  ASSUME NEW b, NEW l
  PROVE  /\ FramesOf(<<>>, b) /\ EndsWith(<<>>, b, l)
         /\ <<>> \in Seq(Seq(Byte)) /\ ~Announcement(<<>>, b)
  BY DEF FramesOf, EndsWith, Announcement

LEMMA FrameAppended ==
  ASSUME NEW box \in Seq(Seq(Byte)), NEW b \in Builds, FramesOf(box, b),
         NEW l \in Labels, NEW id \in Ids
  PROVE  LET more == Append(box, HelloFrame(b, l, id)) IN
         /\ more \in Seq(Seq(Byte)) /\ more # <<>>
         /\ FramesOf(more, b) /\ EndsWith(more, b, l)
         /\ Announcement(box, b) \/ id = Announce => Announcement(more, b)
<1> DEFINE frame == HelloFrame(b, l, id)
           more == Append(box, frame)
<1>1. frame \in Seq(Byte)
  BY FrameType
<1> DEFINE Bytestrings == Seq(Byte)
<1> HIDE DEF Bytestrings
<1>2. /\ box \in Seq(Bytestrings) /\ frame \in Bytestrings
  BY <1>1 DEF Bytestrings
<1>3. frame = HelloFrame(b, l, id)
  OBVIOUS
<1> HIDE DEF frame
<1>4. /\ more \in Seq(Bytestrings) /\ more # <<>> /\ Len(more) = Len(box) + 1
      /\ more[Len(box) + 1] = frame
      /\ DOMAIN more = DOMAIN box \cup {Len(box) + 1}
      /\ \A i \in DOMAIN box : more[i] = box[i]
  BY <1>2
<1> HIDE DEF more
<1>5. FramesOf(more, b)
  BY <1>3, <1>4 DEF FramesOf
<1>6. EndsWith(more, b, l)
  BY <1>3, <1>4 DEF EndsWith
<1>7. Announcement(box, b) \/ id = Announce => Announcement(more, b)
  BY <1>3, <1>4 DEF Announcement
<1> QED
  BY <1>4, <1>5, <1>6, <1>7 DEF more, frame, Bytestrings

LEMMA FrameTaken ==
  ASSUME NEW box \in Seq(Seq(Byte)), box # <<>>, NEW b, FramesOf(box, b)
  PROVE  /\ Tail(box) \in Seq(Seq(Byte))
         /\ FramesOf(Tail(box), b)
         /\ \E m \in Labels, id \in Ids : Head(box) = HelloFrame(b, m, id)
         /\ Announcement(box, b) =>
              \/ \E m \in Labels : Head(box) = HelloFrame(b, m, Announce)
              \/ Announcement(Tail(box), b)
<1> DEFINE Bytestrings == Seq(Byte)
           n == Len(box)
           rest == Tail(box)
<1>1. box \in Seq(Bytestrings)
  OBVIOUS
<1> HIDE DEF Bytestrings
<1>2. n \in Nat /\ n # 0 /\ DOMAIN box = 1 .. n /\ Head(box) = box[1]
  BY <1>1
<1>3. rest \in Seq(Bytestrings) /\ Len(rest) = n - 1
  BY <1>1
<1>4. DOMAIN rest = 1 .. n - 1
  BY <1>1, <1>3
<1>5. \A i \in 1 .. n - 1 : rest[i] = box[i + 1]
  BY <1>1
<1> HIDE DEF n, rest
<1>6. FramesOf(rest, b)
  <2> SUFFICES ASSUME NEW i \in 1 .. n - 1
               PROVE  \E m \in Labels, id \in Ids : rest[i] = HelloFrame(b, m, id)
    BY <1>4 DEF FramesOf
  <2>1. i + 1 \in DOMAIN box /\ rest[i] = box[i + 1]
    BY <1>2, <1>5
  <2> QED
    BY <2>1 DEF FramesOf
<1>7. \E m \in Labels, id \in Ids : Head(box) = HelloFrame(b, m, id)
  BY <1>2 DEF FramesOf
<1>8. Announcement(box, b) =>
        \/ \E m \in Labels : Head(box) = HelloFrame(b, m, Announce)
        \/ Announcement(rest, b)
  <2> SUFFICES ASSUME Announcement(box, b)
               PROVE  \/ \E m \in Labels : Head(box) = HelloFrame(b, m, Announce)
                      \/ Announcement(rest, b)
    OBVIOUS
  <2>1. PICK i \in 1 .. n : \E m \in Labels : box[i] = HelloFrame(b, m, Announce)
    BY <1>2 DEF Announcement
  <2>2. CASE i = 1
    BY <1>2, <2>1, <2>2
  <2>3. CASE i # 1
    <3>1. i - 1 \in 1 .. n - 1 /\ rest[i - 1] = box[i]
      BY <1>2, <1>5, <2>3
    <3> QED
      BY <1>4, <2>1, <3>1 DEF Announcement
  <2> QED
    BY <2>2, <2>3
<1> QED
  BY <1>3, <1>6, <1>7, <1>8 DEF Bytestrings, rest

LEMMA LastTaken ==
  ASSUME NEW box \in Seq(Seq(Byte)), box # <<>>, NEW b, NEW l, EndsWith(box, b, l)
  PROVE  /\ EndsWith(Tail(box), b, l)
         /\ Tail(box) = <<>> => \E id \in Ids : Head(box) = HelloFrame(b, l, id)
<1> DEFINE Bytestrings == Seq(Byte)
           n == Len(box)
           rest == Tail(box)
<1>1. box \in Seq(Bytestrings)
  OBVIOUS
<1> HIDE DEF Bytestrings
<1>2. n \in Nat /\ n # 0 /\ Head(box) = box[1]
  BY <1>1
<1>3. rest \in Seq(Bytestrings) /\ Len(rest) = n - 1
  BY <1>1
<1>4. \A i \in 1 .. n - 1 : rest[i] = box[i + 1]
  BY <1>1
<1> HIDE DEF n, rest
<1>5. rest = <<>> => n = 1
  BY <1>2, <1>3
<1>6. rest # <<>> => n - 1 \in 1 .. n - 1
  BY <1>2, <1>3
<1>7. EndsWith(rest, b, l)
  <2> SUFFICES ASSUME rest # <<>>
               PROVE  \E id \in Ids : rest[Len(rest)] = HelloFrame(b, l, id)
    BY DEF EndsWith
  <2>1. rest[n - 1] = box[n]
    BY <1>2, <1>4, <1>6
  <2> QED
    BY <1>3, <2>1 DEF EndsWith, n
<1>8. rest = <<>> => \E id \in Ids : Head(box) = HelloFrame(b, l, id)
  BY <1>2, <1>5 DEF EndsWith, n
<1> QED
  BY <1>7, <1>8 DEF rest

-----------------------------------------------------------------------------
(* What the actions do to a box *)

\* A hello of p is in its peer's box, at the end.
LEMMA HelloSent ==
  ASSUME TypeOK, NEW p \in Page, NEW id \in Ids, label'[p] \in Labels,
         FramesOf(wire[Peer(p)], build[p]), SendHello(p, id),
         end[p] \in {"ready", "open"}, end[Peer(p)] # "none"
  PROVE  /\ wire' \in [Page -> Seq(Seq(Byte))] /\ wire'[p] = wire[p]
         /\ wire'[Peer(p)] # <<>>
         /\ FramesOf(wire'[Peer(p)], build[p])
         /\ EndsWith(wire'[Peer(p)], build[p], label'[p])
         /\ Announcement(wire[Peer(p)], build[p]) \/ id = Announce =>
              Announcement(wire'[Peer(p)], build[p])
<1> DEFINE more == Append(wire[Peer(p)], HelloFrame(build[p], label'[p], id))
<1>1. /\ wire[Peer(p)] \in Seq(Seq(Byte)) /\ build[p] \in Builds
      /\ Peer(p) \in Page /\ Peer(p) # p
  BY Pages DEF TypeOK
<1>2. /\ more \in Seq(Seq(Byte)) /\ more # <<>>
      /\ FramesOf(more, build[p]) /\ EndsWith(more, build[p], label'[p])
      /\ Announcement(wire[Peer(p)], build[p]) \/ id = Announce =>
           Announcement(more, build[p])
  BY <1>1, FrameAppended
<1>3. wire' = [wire EXCEPT ![Peer(p)] = more]
  BY DEF SendHello, Sent
<1> HIDE DEF more
<1>4. wire'[Peer(p)] = more /\ wire'[p] = wire[p]
  BY <1>1, <1>3 DEF TypeOK
<1>5. wire' \in [Page -> Seq(Seq(Byte))]
  <2> DEFINE Boxes == Seq(Seq(Byte))
  <2>1. wire \in [Page -> Boxes] /\ more \in Boxes
    BY <1>2 DEF TypeOK
  <2> HIDE DEF Boxes
  <2>2. wire' \in [Page -> Boxes]
    BY <1>1, <1>3, <2>1
  <2> QED
    BY <2>2 DEF Boxes
<1> QED
  BY <1>2, <1>4, <1>5

LEMMA ShapesEqual ==
  ASSUME NEW s \in Shapes, NEW t \in Shapes
  PROVE  Shape(s) = Shape(t) <=> s = t
  BY DEF Shape, Shapes

LEMMA UpFor ==
  ASSUME NEW p \in Page
  PROVE  /\ Up <=> end[p] # "none" /\ end[Peer(p)] # "none"
         /\ Up' <=> end'[p] # "none" /\ end'[Peer(p)] # "none"
<1>1. Peer(p) \in Page /\ \A q \in Page : q = p \/ q = Peer(p)
  BY Pages
<1> QED
  BY <1>1 DEF Up

LEMMA Verdicts ==
  ASSUME TypeOK, NEW p \in Page
  PROVE  /\ Verdict(p) \in {"agree", "mismatch", "skew"}
         /\ Linked /\ Up => Verdict(Peer(p)) = Verdict(p)
<1>1. Peer(p) \in Page /\ Peer(Peer(p)) = p
  BY Pages
<1>2. ASSUME Linked, Up
      PROVE  met[p] = build[Peer(p)] /\ met[Peer(p)] = build[p]
  BY <1>1, <1>2 DEF Linked
<1> QED
  BY <1>2 DEF Verdict

\* on_frame with a frame of the peer: the verdict is said, the label shown
\* where they agree and an announcement answered, if the peer is still there.
LEMMA FrameReceived ==
  ASSUME TypeOK, NEW p \in Page, Receive(p), NEW m \in Labels, NEW id \in Ids,
         Head(wire[p]) = HelloFrame(met[p], m, id)
  PROVE  LET rest == [wire EXCEPT ![p] = Tail(@)]
             answer == HelloFrame(build[p], label[p], Reply) IN
         /\ told' = [told EXCEPT ![p] = Verdict(p)]
         /\ Verdict(p) = "agree" =>
              /\ shown' = [shown EXCEPT ![p] = m]
              /\ id = Announce /\ end[Peer(p)] # "none" =>
                   wire' = [rest EXCEPT ![Peer(p)] = Append(@, answer)]
              /\ id # Announce \/ end[Peer(p)] = "none" => wire' = rest
         /\ Verdict(p) # "agree" => shown' = shown /\ wire' = rest
<1> DEFINE b == met[p]
           c == build[p]
           rest == [wire EXCEPT ![p] = Tail(@)]
           frame == HelloFrame(build[p], label[p], Reply)
           more == [rest EXCEPT ![Peer(p)] = Append(@, frame)]
           heard == DecodeHello(c.version, Head(wire[p]))
<1>1. b \in Builds /\ c \in Builds
  BY Pages DEF TypeOK
<1>2. b.version \in Byte /\ c.version \in Byte /\ b.shape \in Shapes /\ c.shape \in Shapes
  BY <1>1, HandshakeAssumption
<1>3. /\ b.version # c.version => IsRefused(heard)
      /\ b.version = c.version =>
           /\ ~IsRefused(heard) /\ heard.body = LocalHello(b, m)
           /\ heard.header.request_id = id
  BY <1>1, <1>2, FrameHeard
<1>4. /\ LocalHello(b, m).backend = m
      /\ SameShape(LocalHello(b, m), c.shape) <=> b.shape = c.shape
  BY <1>1, <1>2, LocalHellos, ShapesEqual DEF SameShape
<1>5. /\ end[p] = "open"
      /\ IF IsRefused(heard)
           THEN /\ told' = [told EXCEPT ![p] = "skew"]
                /\ wire' = rest
                /\ UNCHANGED shown
           ELSE OnHello(p, heard.body, heard.header.request_id)
  BY Zenon DEF Receive
<1>6. Sent(rest, p, frame) = IF end[Peer(p)] # "none" THEN more ELSE rest
  BY <1>5 DEF Sent
<1> HIDE DEF heard
<1>7. CASE b.version # c.version
  <2>1. Verdict(p) = "skew"
    BY <1>7 DEF Verdict
  <2> QED
    BY <1>3, <1>5, <1>7, <2>1
<1>8. CASE b.version = c.version /\ b.shape # c.shape
  <2>1. Verdict(p) = "mismatch"
    BY <1>8 DEF Verdict
  <2> QED
    BY <1>3, <1>4, <1>5, <1>8, <2>1 DEF OnHello
<1>9. CASE b.version = c.version /\ b.shape = c.shape
  <2>1. Verdict(p) = "agree"
    BY <1>9 DEF Verdict
  <2>2. OnHello(p, LocalHello(b, m), id) /\ SameShape(LocalHello(b, m), c.shape)
    BY <1>3, <1>4, <1>5, <1>9
  <2>3. /\ told' = [told EXCEPT ![p] = "agree"]
        /\ shown' = [shown EXCEPT ![p] = m]
        /\ wire' = IF Answered(id) THEN Sent(rest, p, frame) ELSE rest
    BY <1>4, <2>2 DEF OnHello
  <2> QED
    BY <1>6, <2>1, <2>3 DEF Answered
<1> QED
  BY <1>7, <1>8, <1>9

-----------------------------------------------------------------------------
(* Each action keeps the invariant *)

LEMMA Typed ==
  ASSUME build' \in [Page -> Builds], label' \in [Page -> Labels],
         building' \in [Page -> BOOLEAN], shown' \in [Page -> Labels \cup {NoLabel}],
         told' \in [Page -> {"open", "agree", "mismatch", "skew"}],
         met' \in [Page -> Builds],
         end' \in [Page -> {"none", "opening", "ready", "open"}],
         wire' \in [Page -> Seq(Seq(Byte))], faults' \in 0 .. MaxFaults,
         \A q \in Page : wire'[q] # <<>> => end'[q] # "none",
         Linked', \A q \in Page : PageInv(q)'
  PROVE  HandshakeInv'
  BY DEF HandshakeInv, TypeOK

\* What both pages keep, all do.
LEMMA BothKeep ==
  ASSUME NEW p \in Page, PageInv(p)', PageInv(Peer(p))'
  PROVE  \A q \in Page : PageInv(q)'
  BY Pages

\* A page closes its end: nothing is said of the peer on it any more, and what
\* the peer says was said of the build that was there.
LEMMA CloseKeeps ==
  ASSUME HandshakeInv, NEW p \in Page, Close(p), UNCHANGED met,
         build'[Peer(p)] = build[Peer(p)], told'[Peer(p)] = told[Peer(p)]
  PROVE  /\ end' \in [Page -> {"none", "opening", "ready", "open"}]
         /\ wire' \in [Page -> Seq(Seq(Byte))]
         /\ \A q \in Page : wire'[q] # <<>> => end'[q] # "none"
         /\ Linked' /\ \A q \in Page : PageInv(q)'
<1> DEFINE r == Peer(p)
<1>1. TypeOK /\ PageInv(p) /\ PageInv(r)
  BY Pages DEF HandshakeInv
<1>2. r \in Page /\ r # p /\ Peer(r) = p
  BY Pages
<1>3. /\ end'[p] = "none" /\ end'[r] = end[r] /\ wire'[p] = <<>> /\ wire'[r] = wire[r]
      /\ end' \in [Page -> {"none", "opening", "ready", "open"}]
  BY <1>1, <1>2 DEF Close, TypeOK
<1>4. wire' \in [Page -> Seq(Seq(Byte))]
  <2> DEFINE Boxes == Seq(Seq(Byte))
  <2>1. wire \in [Page -> Boxes] /\ <<>> \in Boxes
    BY <1>1 DEF TypeOK
  <2> HIDE DEF Boxes
  <2>2. wire' \in [Page -> Boxes]
    BY <2>1 DEF Close
  <2> QED
    BY <2>2 DEF Boxes
<1>5. \A q \in Page : wire'[q] # <<>> => end'[q] # "none"
  <2>1. \A q \in Page : q = p \/ q = r
    BY Pages
  <2> QED
    BY <1>1, <1>3, <2>1 DEF TypeOK
<1>6. ~Up'
  BY <1>3 DEF Up
<1>7. Linked'
  BY <1>6 DEF Linked
<1>8. PageInv(p)'
  <2>1. FramesCurrent(p)'
    BY <1>3, <1>6 DEF FramesCurrent, FramesOf
  <2>2. SilentUntilOpen(p)' /\ ToldRight(p)' /\ WillBeTold(p)' /\ WillShow(p)'
    BY <1>3, <1>6 DEF SilentUntilOpen, ToldRight, WillBeTold, WillShow
  <2> QED
    BY <2>1, <2>2 DEF PageInv
<1>9. PageInv(r)'
  <2>1. FramesCurrent(r)'
    BY <1>1, <1>3, <1>6 DEF PageInv, FramesCurrent
  <2>2. SilentUntilOpen(r)'
    BY <1>2, <1>3 DEF SilentUntilOpen
  <2>3. ToldRight(r)'
    BY <1>1, <1>3 DEF PageInv, ToldRight, Verdict
  <2>4. WillBeTold(r)' /\ WillShow(r)'
    BY <1>2, <1>3, <1>6 DEF WillBeTold, WillShow
  <2> QED
    BY <2>1, <2>2, <2>3, <2>4 DEF PageInv
<1> QED
  BY <1>3, <1>4, <1>5, <1>7, <1>8, <1>9, BothKeep

LEMMA LinkLostKeeps ==
  ASSUME HandshakeInv, NEW p \in Page, LinkLost(p)
  PROVE  HandshakeInv'
<1>1. TypeOK /\ Close(p) /\ faults' = faults + 1 /\ faults < MaxFaults
      /\ UNCHANGED <<build, label, building, shown, told, met>>
  BY DEF HandshakeInv, LinkLost
<1>2. faults' \in 0 .. MaxFaults
  BY <1>1, HandshakeAssumption DEF TypeOK
<1> QED
  BY <1>1, <1>2, CloseKeeps, Typed DEF TypeOK

LEMMA ChannelClosedKeeps ==
  ASSUME HandshakeInv, NEW p \in Page, ChannelClosed(p)
  PROVE  HandshakeInv'
<1>1. TypeOK /\ Close(p)
      /\ UNCHANGED <<build, label, building, shown, told, met, faults>>
  BY DEF HandshakeInv, ChannelClosed
<1> QED
  BY <1>1, CloseKeeps, Typed DEF TypeOK

LEMMA ReloadKeeps ==
  ASSUME HandshakeInv, NEW p \in Page, Reload(p)
  PROVE  HandshakeInv'
<1>1. TypeOK /\ Close(p) /\ UNCHANGED met /\ faults' = faults + 1 /\ faults < MaxFaults
  BY DEF HandshakeInv, Reload
<1>2. faults' \in 0 .. MaxFaults
  BY <1>1, HandshakeAssumption DEF TypeOK
<1>3. build' \in [Page -> Builds] /\ label' \in [Page -> Labels]
  BY <1>1 DEF TypeOK, Reload
<1>4. building' \in [Page -> BOOLEAN]
      /\ shown' \in [Page -> Labels \cup {NoLabel}]
      /\ told' \in [Page -> {"open", "agree", "mismatch", "skew"}]
  BY <1>1 DEF TypeOK, Reload
<1>5. build'[Peer(p)] = build[Peer(p)] /\ told'[Peer(p)] = told[Peer(p)]
  BY <1>1, Pages DEF TypeOK, Reload
<1> QED
  BY <1>1, <1>2, <1>3, <1>4, <1>5, CloseKeeps, Typed DEF TypeOK

LEMMA ConnectKeeps ==
  ASSUME HandshakeInv, Connect
  PROVE  HandshakeInv'
<1>1. TypeOK /\ UNCHANGED <<build, label, building, shown, told, wire, faults>>
  BY DEF HandshakeInv, Connect
<1>2. \A q \in Page : /\ end'[q] = "opening" /\ end[q] = "none" /\ Peer(q) \in Page
                      /\ met'[q] = build[Peer(q)] /\ wire[q] = <<>>
  BY <1>1, Pages DEF Connect, TypeOK
<1>3. /\ end' \in [Page -> {"none", "opening", "ready", "open"}]
      /\ met' \in [Page -> Builds]
  BY <1>1, Pages DEF Connect, TypeOK
<1>4. Linked'
  BY <1>1, <1>2 DEF Linked
<1>5. ASSUME NEW q \in Page
      PROVE  PageInv(q)'
  <2>1. /\ end'[q] = "opening" /\ end'[Peer(q)] = "opening"
        /\ wire'[q] = <<>> /\ wire'[Peer(q)] = <<>>
    BY <1>1, <1>2
  <2>2. FramesCurrent(q)'
    BY <2>1 DEF FramesCurrent, FramesOf, EndsWith
  <2>3. SilentUntilOpen(q)' /\ ToldRight(q)' /\ WillBeTold(q)' /\ WillShow(q)'
    BY <2>1 DEF SilentUntilOpen, ToldRight, WillBeTold, WillShow
  <2> QED
    BY <2>2, <2>3 DEF PageInv
<1> QED
  BY <1>1, <1>2, <1>3, <1>4, <1>5, Typed DEF TypeOK

LEMMA OpensKeeps ==
  ASSUME HandshakeInv, NEW p \in Page, Opens(p)
  PROVE  HandshakeInv'
<1>1. TypeOK /\ Linked /\ (\A q \in Page : PageInv(q))
      /\ UNCHANGED <<build, label, building, shown, told, met, wire, faults>>
  BY DEF HandshakeInv, Opens
<1>2. /\ end[p] = "opening" /\ end'[p] = "ready"
      /\ \A q \in Page : q # p => end'[q] = end[q]
  BY <1>1 DEF Opens, TypeOK
<1>3. end' \in [Page -> {"none", "opening", "ready", "open"}]
  BY <1>1 DEF Opens, TypeOK
<1>4. \A q \in Page : end'[q] = "none" <=> end[q] = "none"
  BY <1>2
<1>5. Up' <=> Up
  BY <1>4 DEF Up
<1>6. Linked'
  BY <1>1, <1>5 DEF Linked
<1>7. ASSUME NEW q \in Page
      PROVE  PageInv(q)'
  <2>1. PageInv(q) /\ Peer(q) \in Page
    BY <1>1, Pages
  <2>2. /\ end'[q] = "open" => end[q] = "open"
        /\ end[q] = "open" => end'[q] = "open"
        /\ end'[Peer(q)] = "open" => end[Peer(q)] = "open"
        /\ end'[q] = "opening" => end[q] = "opening"
    BY <1>2, <2>1
  <2>3. FramesCurrent(q)'
    BY <1>1, <1>5, <2>1 DEF PageInv, FramesCurrent
  <2>4. SilentUntilOpen(q)' /\ ToldRight(q)' /\ WillBeTold(q)'
    BY <1>1, <1>5, <2>1, <2>2
       DEF PageInv, SilentUntilOpen, ToldRight, WillBeTold, Verdict
  <2>5. WillShow(q)'
    BY <1>1, <2>1, <2>2 DEF PageInv, WillShow, Verdict
  <2> QED
    BY <2>3, <2>4, <2>5 DEF PageInv
<1> QED
  BY <1>1, <1>3, <1>4, <1>6, <1>7, Typed DEF TypeOK

LEMMA BeginRebuildKeeps ==
  ASSUME HandshakeInv, NEW p \in Page, BeginRebuild(p)
  PROVE  HandshakeInv'
<1>1. TypeOK /\ Linked /\ (\A q \in Page : PageInv(q))
      /\ UNCHANGED <<build, label, told, met, end, wire>>
      /\ faults' = faults + 1 /\ faults < MaxFaults
  BY DEF HandshakeInv, BeginRebuild
<1>2. /\ building'[p] = TRUE
      /\ \A q \in Page : q # p => building'[q] = building[q] /\ shown'[q] = shown[q]
  BY <1>1 DEF BeginRebuild, TypeOK
<1>3. building' \in [Page -> BOOLEAN] /\ shown' \in [Page -> Labels \cup {NoLabel}]
  BY <1>1 DEF BeginRebuild, TypeOK
<1>4. faults' \in 0 .. MaxFaults
  BY <1>1, HandshakeAssumption DEF TypeOK
<1>5. Linked'
  BY <1>1 DEF Linked, Up
<1>6. ASSUME NEW q \in Page
      PROVE  PageInv(q)'
  <2>1. PageInv(q)
    BY <1>1
  <2>2. FramesCurrent(q)' /\ SilentUntilOpen(q)' /\ ToldRight(q)' /\ WillBeTold(q)'
    BY <1>1, <2>1
       DEF PageInv, FramesCurrent, SilentUntilOpen, ToldRight, WillBeTold, Verdict, Up
  <2>3. WillShow(q)'
    <3>1. CASE q = p
      BY <1>2, <3>1 DEF WillShow
    <3>2. CASE q # p
      <4>1. building'[q] = building[q] /\ shown'[q] = shown[q]
        BY <1>2, <3>2
      <4> QED
        BY <1>1, <2>1, <4>1 DEF PageInv, WillShow, Verdict
    <3> QED
      BY <3>1, <3>2
  <2> QED
    BY <2>2, <2>3 DEF PageInv
<1> QED
  BY <1>1, <1>3, <1>4, <1>5, <1>6, Typed DEF TypeOK

LEMMA ChannelOpenKeeps ==
  ASSUME HandshakeInv, NEW p \in Page, ChannelOpen(p)
  PROVE  HandshakeInv'
<1> DEFINE r == Peer(p)
<1>1. TypeOK /\ Linked /\ PageInv(p) /\ PageInv(r)
      /\ UNCHANGED <<build, label, building, shown, met, faults>>
  BY Pages DEF HandshakeInv, ChannelOpen
<1>2. r \in Page /\ r # p /\ Peer(r) = p /\ end[p] = "ready" /\ SendHello(p, Announce)
  BY Pages DEF ChannelOpen
<1>3. /\ end'[p] = "open" /\ end'[r] = end[r] /\ told'[p] = "open" /\ told'[r] = told[r]
      /\ end' \in [Page -> {"none", "opening", "ready", "open"}]
      /\ told' \in [Page -> {"open", "agree", "mismatch", "skew"}]
  BY <1>1, <1>2 DEF ChannelOpen, TypeOK
<1>4. Up' <=> Up
  BY <1>2, <1>3, UpFor
<1>5. Linked'
  BY <1>1, <1>4 DEF Linked
<1>6. CASE end[r] # "none"
  <2>1. Up
    BY <1>2, <1>6, UpFor
  <2>2. met[r] = build[p] /\ label[p] \in Labels
    BY <1>1, <1>2, <2>1 DEF Linked, TypeOK
  <2>3. /\ wire' \in [Page -> Seq(Seq(Byte))] /\ wire'[p] = wire[p]
        /\ wire'[r] # <<>>
        /\ FramesOf(wire'[r], build[p]) /\ EndsWith(wire'[r], build[p], label[p])
    <3>1. FramesOf(wire[r], build[p]) /\ label'[p] \in Labels
      BY <1>1, <2>2 DEF PageInv, FramesCurrent
    <3> QED
      BY <1>1, <1>2, <1>6, <3>1, HelloSent DEF Ids
  <2>4. PageInv(p)'
    <3>1. FramesCurrent(p)'
      BY <1>1, <1>4, <2>3 DEF PageInv, FramesCurrent
    <3>2. SilentUntilOpen(p)' /\ ToldRight(p)'
      BY <1>3 DEF SilentUntilOpen, ToldRight
    <3>3. end'[r] = "open" => wire'[p] # <<>>
      BY <1>1, <1>2, <1>3, <2>1, <2>3 DEF PageInv, WillBeTold
    <3>4. WillBeTold(p)' /\ WillShow(p)'
      BY <3>3 DEF WillBeTold, WillShow
    <3> QED
      BY <3>1, <3>2, <3>4 DEF PageInv
  <2>5. PageInv(r)'
    <3>1. FramesCurrent(r)'
      BY <1>1, <1>2, <2>2, <2>3 DEF FramesCurrent
    <3>2. SilentUntilOpen(r)'
      BY <1>1, <1>2, <1>3, <2>3 DEF PageInv, SilentUntilOpen
    <3>3. ToldRight(r)'
      BY <1>1, <1>2, <1>3 DEF PageInv, ToldRight, Verdict
    <3>4. WillBeTold(r)' /\ WillShow(r)'
      BY <2>3 DEF WillBeTold, WillShow
    <3> QED
      BY <3>1, <3>2, <3>3, <3>4 DEF PageInv
  <2>6. \A q \in Page : wire'[q] # <<>> => end'[q] # "none"
    <3>1. \A q \in Page : q = p \/ q = r
      BY Pages
    <3> QED
      BY <1>3, <1>6, <3>1
  <2> QED
    BY <1>1, <1>3, <1>5, <2>3, <2>4, <2>5, <2>6, BothKeep, Typed DEF TypeOK
<1>7. CASE end[r] = "none"
  <2>1. wire' = wire
    BY <1>2, <1>7 DEF SendHello, Sent
  <2>2. ~Up
    BY <1>7, UpFor
  <2>3. PageInv(p)'
    <3>1. FramesCurrent(p)'
      BY <1>1, <1>4, <2>1, <2>2 DEF PageInv, FramesCurrent
    <3>2. SilentUntilOpen(p)' /\ ToldRight(p)' /\ WillBeTold(p)' /\ WillShow(p)'
      BY <1>3, <1>4, <1>7, <2>2 DEF SilentUntilOpen, ToldRight, WillBeTold, WillShow
    <3> QED
      BY <3>1, <3>2 DEF PageInv
  <2>4. PageInv(r)'
    <3>1. FramesCurrent(r)'
      BY <1>1, <1>4, <2>1, <2>2 DEF PageInv, FramesCurrent
    <3>2. SilentUntilOpen(r)' /\ ToldRight(r)' /\ WillBeTold(r)' /\ WillShow(r)'
      BY <1>3, <1>4, <1>7, <2>2 DEF SilentUntilOpen, ToldRight, WillBeTold, WillShow
    <3> QED
      BY <3>1, <3>2 DEF PageInv
  <2>5. \A q \in Page : wire'[q] # <<>> => end'[q] # "none"
    <3>1. \A q \in Page : q = p \/ q = r
      BY Pages
    <3> QED
      BY <1>1, <1>3, <2>1, <3>1 DEF TypeOK
  <2> QED
    BY <1>1, <1>3, <1>5, <2>1, <2>3, <2>4, <2>5, BothKeep, Typed DEF TypeOK
<1> QED
  BY <1>6, <1>7

LEMMA EndRebuildKeeps ==
  ASSUME HandshakeInv, NEW p \in Page, EndRebuild(p)
  PROVE  HandshakeInv'
<1> DEFINE r == Peer(p)
<1>1. TypeOK /\ Linked /\ PageInv(p) /\ PageInv(r)
      /\ UNCHANGED <<build, shown, told, met, end, faults>>
  BY Pages DEF HandshakeInv, EndRebuild
<1>2. r \in Page /\ r # p /\ Peer(r) = p /\ SendHello(p, Announce)
  BY Pages DEF EndRebuild
<1>3. /\ label' \in [Page -> Labels] /\ building' \in [Page -> BOOLEAN]
      /\ label'[r] = label[r] /\ building'[r] = building[r]
  BY <1>1, <1>2 DEF EndRebuild, TypeOK
<1>4. Up' <=> Up
  BY <1>1 DEF Up
<1>5. Linked'
  BY <1>1, <1>4 DEF Linked
<1>6. CASE end[p] \in {"ready", "open"} /\ end[r] # "none"
  <2>1. met[r] = build[p]
    <3>1. Up
      BY <1>2, <1>6, UpFor
    <3> QED
      BY <1>1, <1>2, <3>1 DEF Linked
  <2>2. /\ wire' \in [Page -> Seq(Seq(Byte))] /\ wire'[p] = wire[p]
        /\ wire'[r] # <<>>
        /\ FramesOf(wire'[r], build[p]) /\ EndsWith(wire'[r], build[p], label'[p])
        /\ Announcement(wire'[r], build[p])
    <3>1. FramesOf(wire[r], build[p]) /\ label'[p] \in Labels
      BY <1>1, <1>3, <2>1 DEF PageInv, FramesCurrent
    <3> QED
      BY <1>1, <1>2, <1>6, <3>1, HelloSent DEF Ids
  <2>3. PageInv(p)'
    <3>1. FramesCurrent(p)'
      BY <1>1, <1>3, <1>4, <2>2 DEF PageInv, FramesCurrent
    <3>2. SilentUntilOpen(p)' /\ ToldRight(p)' /\ WillBeTold(p)'
      BY <1>1, <1>4, <1>6, <2>2 DEF PageInv, SilentUntilOpen, ToldRight, WillBeTold, Verdict
    <3>3. WillShow(p)'
      BY <1>1, <2>2 DEF WillShow
    <3> QED
      BY <3>1, <3>2, <3>3 DEF PageInv
  <2>4. PageInv(r)'
    <3>1. FramesCurrent(r)'
      BY <1>1, <1>2, <2>1, <2>2 DEF FramesCurrent
    <3>2. SilentUntilOpen(r)' /\ ToldRight(r)'
      BY <1>1, <1>2, <2>2 DEF PageInv, SilentUntilOpen, ToldRight, Verdict
    <3>3. WillBeTold(r)' /\ WillShow(r)'
      BY <2>2 DEF WillBeTold, WillShow
    <3> QED
      BY <3>1, <3>2, <3>3 DEF PageInv
  <2>5. \A q \in Page : wire'[q] # <<>> => end'[q] # "none"
    <3>1. \A q \in Page : q = p \/ q = r
      BY Pages
    <3> QED
      BY <1>1, <1>6, <3>1
  <2> QED
    BY <1>1, <1>3, <1>5, <2>2, <2>3, <2>4, <2>5, BothKeep, Typed DEF TypeOK
<1>7. CASE ~(end[p] \in {"ready", "open"} /\ end[r] # "none")
  <2>1. wire' = wire
    BY <1>2, <1>7 DEF SendHello, Sent
  <2>2. ~(end[p] = "open" /\ end[r] = "open")
    BY <1>7
  <2>3. Up => wire[r] = <<>>
    <3> SUFFICES ASSUME Up PROVE wire[r] = <<>>
      OBVIOUS
    <3>1. end[p] # "none" /\ end[r] # "none"
      BY UpFor
    <3>2. end[p] = "opening"
      BY <1>1, <1>7, <3>1 DEF TypeOK
    <3> QED
      BY <1>1, <3>2 DEF PageInv, SilentUntilOpen
  <2>4. PageInv(p)'
    <3>1. FramesCurrent(p)'
      BY <1>1, <1>3, <1>4, <2>1 DEF PageInv, FramesCurrent
    <3>2. SilentUntilOpen(p)' /\ ToldRight(p)' /\ WillBeTold(p)'
      BY <1>1, <1>4, <2>1 DEF PageInv, SilentUntilOpen, ToldRight, WillBeTold, Verdict
    <3>3. WillShow(p)'
      BY <1>1, <2>2 DEF WillShow
    <3> QED
      BY <3>1, <3>2, <3>3 DEF PageInv
  <2>5. PageInv(r)'
    <3>1. FramesCurrent(r)'
      BY <1>1, <1>4, <2>1, <2>3 DEF PageInv, FramesCurrent, EndsWith
    <3>2. SilentUntilOpen(r)' /\ ToldRight(r)' /\ WillBeTold(r)'
      BY <1>1, <1>4, <2>1 DEF PageInv, SilentUntilOpen, ToldRight, WillBeTold, Verdict
    <3>3. WillShow(r)'
      BY <1>1, <1>2, <2>2 DEF WillShow
    <3> QED
      BY <3>1, <3>2, <3>3 DEF PageInv
  <2> QED
    BY <1>1, <1>3, <1>5, <2>1, <2>4, <2>5, BothKeep, Typed DEF TypeOK
<1> QED
  BY <1>6, <1>7

LEMMA ReceiveKeeps ==
  ASSUME HandshakeInv, NEW p \in Page, Receive(p)
  PROVE  HandshakeInv'
<1> DEFINE r == Peer(p)
           b == met[p]
           box == wire[p]
           answer == HelloFrame(build[p], label[p], Reply)
<1>1. TypeOK /\ Linked /\ PageInv(p) /\ PageInv(r)
      /\ UNCHANGED <<build, label, building, met, end, faults>>
  BY Pages DEF HandshakeInv, Receive
<1>2. r \in Page /\ r # p /\ Peer(r) = p /\ end[p] = "open" /\ box # <<>>
  BY Pages DEF Receive
<1>3. Up' <=> Up
  BY <1>1 DEF Up
<1>4. Up <=> end[r] # "none"
  BY <1>2, UpFor
<1>5. Up => b = build[r] /\ met[r] = build[p]
  BY <1>1, <1>2 DEF Linked
<1>6. box \in Seq(Seq(Byte)) /\ FramesOf(box, b) /\ (Up => EndsWith(box, b, label[r]))
  BY <1>1 DEF TypeOK, PageInv, FramesCurrent
<1>7. /\ Tail(box) \in Seq(Seq(Byte)) /\ FramesOf(Tail(box), b)
      /\ \E m \in Labels, id \in Ids : Head(box) = HelloFrame(b, m, id)
      /\ Announcement(box, b) =>
           \/ \E m \in Labels : Head(box) = HelloFrame(b, m, Announce)
           \/ Announcement(Tail(box), b)
  BY <1>2, <1>6, FrameTaken
<1>8. Up => /\ EndsWith(Tail(box), b, label[r])
            /\ Tail(box) = <<>> => \E id \in Ids : Head(box) = HelloFrame(b, label[r], id)
  BY <1>2, <1>6, LastTaken
<1>9. build[p] \in Builds /\ label[p] \in Labels /\ label[r] \in Labels
      /\ wire[r] \in Seq(Seq(Byte)) /\ FramesOf(wire[r], met[r])
      /\ (Up => EndsWith(wire[r], met[r], label[p]))
  BY <1>1, <1>2 DEF TypeOK, PageInv, FramesCurrent
<1>10. Up =>
        /\ Append(wire[r], answer) \in Seq(Seq(Byte)) /\ Append(wire[r], answer) # <<>>
        /\ FramesOf(Append(wire[r], answer), met[r])
        /\ EndsWith(Append(wire[r], answer), met[r], label[p])
  <2> SUFFICES ASSUME Up
               PROVE  /\ Append(wire[r], answer) \in Seq(Seq(Byte))
                      /\ Append(wire[r], answer) # <<>>
                      /\ FramesOf(Append(wire[r], answer), met[r])
                      /\ EndsWith(Append(wire[r], answer), met[r], label[p])
    OBVIOUS
  <2>1. met[r] = build[p] /\ Reply \in Ids
    BY <1>5 DEF Ids
  <2> QED
    BY <1>9, <2>1, FrameAppended
<1> DEFINE rest == Tail(box)
           more == Append(wire[r], answer)
<1>11. ASSUME NEW m \in Labels, NEW id \in Ids, Head(box) = HelloFrame(b, m, id)
       PROVE  /\ told' = [told EXCEPT ![p] = Verdict(p)]
              /\ Verdict(p) = "agree" =>
                   /\ shown' = [shown EXCEPT ![p] = m]
                   /\ id = Announce /\ Up => wire' = [wire EXCEPT ![p] = rest, ![r] = more]
                   /\ id # Announce \/ ~Up => wire' = [wire EXCEPT ![p] = rest]
              /\ Verdict(p) # "agree" =>
                   shown' = shown /\ wire' = [wire EXCEPT ![p] = rest]
  BY <1>1, <1>2, <1>4, <1>11, FrameReceived DEF TypeOK
<1> HIDE DEF rest, more, answer
<1>12. PICK m \in Labels, id \in Ids : Head(box) = HelloFrame(b, m, id)
  BY <1>7
<1>13. /\ wire'[p] = rest
       /\ (Up /\ wire'[r] = more) \/ wire'[r] = wire[r]
       /\ wire' \in [Page -> Seq(Seq(Byte))]
  <2>1. \/ wire' = [wire EXCEPT ![p] = rest]
        \/ Up /\ wire' = [wire EXCEPT ![p] = rest, ![r] = more]
    BY <1>11, <1>12
  <2> DEFINE Boxes == Seq(Seq(Byte))
  <2>2. wire \in [Page -> Boxes] /\ rest \in Boxes /\ (Up => more \in Boxes)
    BY <1>1, <1>7, <1>10 DEF TypeOK, rest, more
  <2> HIDE DEF Boxes
  <2>3. /\ wire' \in [Page -> Boxes] /\ wire'[p] = rest
        /\ (Up /\ wire'[r] = more) \/ wire'[r] = wire[r]
    BY <1>2, <2>1, <2>2
  <2> QED
    BY <2>3 DEF Boxes
<1>14. /\ told'[p] = Verdict(p) /\ told'[r] = told[r] /\ shown'[r] = shown[r]
       /\ told' \in [Page -> {"open", "agree", "mismatch", "skew"}]
       /\ shown' \in [Page -> Labels \cup {NoLabel}]
  <2>1. Verdict(p) \in {"agree", "mismatch", "skew"}
    BY <1>1, Verdicts
  <2>2. told' = [told EXCEPT ![p] = Verdict(p)]
        /\ (shown' = shown \/ shown' = [shown EXCEPT ![p] = m])
    BY <1>11, <1>12
  <2> QED
    BY <1>1, <1>2, <2>1, <2>2 DEF TypeOK
<1>15. FramesCurrent(p)' /\ FramesCurrent(r)'
  <2>1. FramesCurrent(p)'
    BY <1>1, <1>3, <1>5, <1>7, <1>8, <1>13 DEF FramesCurrent, rest
  <2>2. FramesCurrent(r)'
    BY <1>1, <1>2, <1>3, <1>9, <1>10, <1>13 DEF FramesCurrent, more
  <2> QED
    BY <2>1, <2>2
<1>16. SilentUntilOpen(p)' /\ SilentUntilOpen(r)'
  <2>1. end[r] = "opening" => rest = <<>>
    BY <1>1, <1>2 DEF PageInv, SilentUntilOpen
  <2> QED
    BY <1>1, <1>2, <1>13, <2>1 DEF SilentUntilOpen
<1>17. ToldRight(p)' /\ ToldRight(r)'
  BY <1>1, <1>14 DEF ToldRight, PageInv, Verdict
<1>18. WillBeTold(p)' /\ WillBeTold(r)'
  <2>1. Verdict(p) # "open"
    BY <1>1, Verdicts
  <2>2. wire[r] # <<>> => wire'[r] # <<>>
    BY <1>10, <1>13 DEF more
  <2> QED
    BY <1>1, <1>2, <1>3, <1>14, <2>1, <2>2 DEF WillBeTold, PageInv
<1>19. WillShow(p)'
  <2> SUFFICES ASSUME end[r] = "open", Verdict(p) = "agree", rest = <<>>
               PROVE  shown'[p] = label[r]
    BY <1>1, <1>13 DEF WillShow, Verdict
  <2>1. PICK i \in Ids : Head(box) = HelloFrame(b, label[r], i)
    BY <1>4, <1>8 DEF rest
  <2>2. shown' = [shown EXCEPT ![p] = label[r]]
    BY <1>9, <1>11, <2>1
  <2> QED
    BY <1>1, <2>2 DEF TypeOK
<1>20. WillShow(r)'
  <2> SUFFICES ASSUME end[r] = "open", Verdict(r) = "agree", wire'[r] = <<>>,
                      shown[r] # label[p], ~building[r]
               PROVE  Announcement(wire'[p], build[r])
    BY <1>1, <1>2, <1>14 DEF WillShow, Verdict
  <2>1. Up /\ b = build[r]
    BY <1>4, <1>5
  <2>2. wire[r] = <<>> /\ wire'[r] # more
    BY <1>10, <1>13, <2>1 DEF more
  <2>3. Announcement(box, b)
    BY <1>1, <1>2, <2>1, <2>2 DEF PageInv, WillShow
  <2>4. Verdict(p) = "agree"
    BY <1>1, <1>2, <2>1, Verdicts
  <2>5. ASSUME NEW n \in Labels, Head(box) = HelloFrame(b, n, Announce)
        PROVE  FALSE
    <3>1. wire' = [wire EXCEPT ![p] = rest, ![r] = more]
      BY <1>11, <2>1, <2>4, <2>5 DEF Ids
    <3> QED
      BY <1>1, <1>2, <2>2, <3>1 DEF TypeOK
  <2> QED
    BY <1>7, <1>13, <2>1, <2>3, <2>5 DEF rest
<1>21. PageInv(p)' /\ PageInv(r)'
  BY <1>15, <1>16, <1>17, <1>18, <1>19, <1>20 DEF PageInv
<1>22. Linked'
  BY <1>1, <1>3 DEF Linked
<1>23. \A q \in Page : wire'[q] # <<>> => end'[q] # "none"
  <2>1. \A q \in Page : q = p \/ q = r
    BY Pages
  <2> QED
    BY <1>1, <1>2, <1>4, <1>13, <2>1 DEF TypeOK
<1> QED
  BY <1>1, <1>13, <1>14, <1>21, <1>22, <1>23, BothKeep, Typed DEF TypeOK

-----------------------------------------------------------------------------
(* The theorems *)

LEMMA HandshakeStarts ==
  ASSUME Init
  PROVE  HandshakeInv
<1>1. \A q \in Page : wire[q] = <<>> /\ end[q] = "none" /\ Peer(q) \in Page
  BY Pages DEF Init
<1>2. TypeOK
  <2>1. wire \in [Page -> Seq(Seq(Byte))]
    BY NoFrames DEF Init
  <2> QED
    BY <1>1, <2>1, HandshakeAssumption DEF Init, TypeOK
<1>3. Linked
  BY DEF Linked, Init
<1>4. ASSUME NEW q \in Page
      PROVE  PageInv(q)
  <2>1. /\ wire[q] = <<>> /\ wire[Peer(q)] = <<>>
        /\ end[q] = "none" /\ end[Peer(q)] = "none"
    BY <1>1
  <2>2. FramesCurrent(q)
    BY <2>1, NoFrames DEF FramesCurrent
  <2>3. SilentUntilOpen(q) /\ ToldRight(q) /\ WillBeTold(q) /\ WillShow(q)
    BY <2>1 DEF SilentUntilOpen, ToldRight, WillBeTold, WillShow
  <2> QED
    BY <2>2, <2>3 DEF PageInv
<1> QED
  BY <1>2, <1>3, <1>4 DEF HandshakeInv

LEMMA HandshakeStep ==
  ASSUME HandshakeInv, [Next]_vars
  PROVE  HandshakeInv'
<1>1. CASE UNCHANGED vars
  BY <1>1 DEF vars, HandshakeInv, TypeOK, Linked, Up, PageInv, FramesCurrent,
     SilentUntilOpen, ToldRight, WillBeTold, WillShow, Verdict
<1>2. CASE Connect
  BY <1>2, ConnectKeeps
<1>3. ASSUME NEW p \in Page,
             \/ Opens(p) \/ ChannelOpen(p) \/ Receive(p)
             \/ LinkLost(p) \/ ChannelClosed(p) \/ Reload(p)
             \/ BeginRebuild(p) \/ EndRebuild(p)
      PROVE  HandshakeInv'
  BY <1>3, OpensKeeps, ChannelOpenKeeps, ReceiveKeeps, LinkLostKeeps,
     ChannelClosedKeeps, ReloadKeeps, BeginRebuildKeeps, EndRebuildKeeps
<1> QED
  BY <1>1, <1>2, <1>3 DEF Next

LEMMA HandshakeInvariant == Spec => []HandshakeInv
<1>1. Init => HandshakeInv
  BY HandshakeStarts
<1>2. HandshakeInv /\ [Next]_vars => HandshakeInv'
  BY HandshakeStep
<1> QED
  BY <1>1, <1>2, PTL DEF Spec

\* The variables keep their types and no frame is under way without a link,
\* for any builds, labels and number of faults.
THEOREM HandshakeTypeCorrect == Spec => []TypeOK
<1>1. HandshakeInv => TypeOK
  BY DEF HandshakeInv
<1> QED
  BY <1>1, HandshakeInvariant, PTL

\* When nothing is on its way, pages that agree show the backends they run
\* (send_hello, on_hello and initialise_shard).
THEOREM CardsEndCurrent == Spec => []CardsCurrent
<1>1. HandshakeInv => CardsCurrent
  <2> SUFFICES ASSUME HandshakeInv, Settled, Verdict(0) = "agree", NEW p \in Page
               PROVE  shown[p] = label[Peer(p)]
    BY DEF CardsCurrent
  <2>1. TypeOK /\ WillShow(p) /\ Peer(p) \in Page
    BY Pages DEF HandshakeInv, PageInv
  <2>2. Verdict(p) = "agree"
    <3>1. Up /\ Linked
      BY DEF Settled, Up, HandshakeInv
    <3> QED
      BY <2>1, <3>1, Pages, Verdicts
  <2>3. /\ end[p] = "open" /\ end[Peer(p)] = "open" /\ ~building[p]
        /\ wire[p] = <<>> /\ wire[Peer(p)] = <<>>
    BY <2>1 DEF Settled
  <2> QED
    BY <2>1, <2>2, <2>3, NoFrames DEF WillShow
<1> QED
  BY <1>1, HandshakeInvariant, PTL

\* What a page says of its peer on an open link is true of the build at the
\* other end of it, though that page may have gone, come back with another build
\* and paired again meanwhile, and is said before nothing is on its way (on_hello,
\* on_frame and PeerLink::close).
THEOREM VerdictsTrue == Spec => []VerdictsRight
<1>1. HandshakeInv => VerdictsRight
  <2> SUFFICES ASSUME HandshakeInv, NEW p \in Page, end[p] = "open",
                      told[p] # Verdict(p)
               PROVE  told[p] = "open" /\ ~Settled
    BY DEF VerdictsRight
  <2>1. ToldRight(p) /\ WillBeTold(p) /\ Peer(p) \in Page
    BY Pages DEF HandshakeInv, PageInv
  <2>2. told[p] = "open"
    BY <2>1 DEF ToldRight
  <2>3. ~Settled
    BY <2>1, <2>2 DEF WillBeTold, Settled, Up
  <2> QED
    BY <2>2, <2>3
<1> QED
  BY <1>1, HandshakeInvariant, PTL

-----------------------------------------------------------------------------
(* The theorems about frames *)

LEMMA Versions == TypeOK => Reader \in Byte /\ Writer \in Byte
<1> SUFFICES ASSUME TypeOK PROVE Reader \in Byte /\ Writer \in Byte
  OBVIOUS
<1>1. build[0] \in Builds /\ build[1] \in Builds
  BY DEF TypeOK, Page
<1> QED
  BY <1>1, HandshakeAssumption DEF Reader, Writer

\* What one build writes the other reads as it was, an F32 tensor exactly, for
\* any headers, numbers, descriptions, tensors and messages (protocol.rs).
THEOREM FramesAlwaysArrive == Spec => []FramesArrive
<1>1. TypeOK => FramesArrive
  <2> SUFFICES ASSUME TypeOK, Reader = Writer
               PROVE
    /\ \A h \in Hellos, id \in Numbers :
         Arrives(EncodeHello(Writer, h, id), Plain(Writer, Hello, id, 0), h)
    /\ \A e \in Envelopes, r \in Replies :
         Arrives(EncodeToken(Sealed(e), r), [Sealed(e) EXCEPT !.opcode = Token], r)
    /\ \A e \in Envelopes, t \in Tensors :
         e.codec = F32 =>
           Arrives(EncodeActivation(Sealed(e), t),
                   [Sealed(e) EXCEPT !.opcode = Activation],
                   [i \in DOMAIN t |-> 127 * t[i]])
    /\ \A id \in Numbers :
         LET bytes == EncodeReset(Writer, id) IN
         /\ Parse(Reader, bytes) = Accepted(Plain(Writer, Reset, id, 0), <<>>)
         /\ RefusedByAll(bytes)
    /\ \A id \in Numbers, pos \in Numbers, m \in Messages :
         Arrives(EncodeError(Writer, id, pos, m), Plain(Writer, Error, id, pos), m)
    BY Zenon DEF FramesArrive
  <2>1. Met
    BY Versions DEF Met
  <2>2. ASSUME NEW e \in Envelopes, NEW t \in Tensors, e.codec = F32
        PROVE  Arrives(EncodeActivation(Sealed(e), t),
                       [Sealed(e) EXCEPT !.opcode = Activation],
                       [i \in DOMAIN t |-> 127 * t[i]])
    <3>1. Arrives(EncodeActivation(Sealed(e), t),
                  [Sealed(e) EXCEPT !.opcode = Activation], Received(e.codec, t))
      BY <2>1, ActivationComes
    <3>2. Received(e.codec, t) = [i \in DOMAIN t |-> 127 * t[i]]
      BY <2>2, ExactReceived
    <3> QED
      BY <3>1, <3>2
  <2>3. \A h \in Hellos, id \in Numbers :
         Arrives(EncodeHello(Writer, h, id), Plain(Writer, Hello, id, 0), h)
    BY <2>1, HelloComes
  <2>4. \A e \in Envelopes, r \in Replies :
         Arrives(EncodeToken(Sealed(e), r), [Sealed(e) EXCEPT !.opcode = Token], r)
    BY <2>1, TokenComes
  <2>5. \A id \in Numbers :
         LET bytes == EncodeReset(Writer, id) IN
         /\ Parse(Reader, bytes) = Accepted(Plain(Writer, Reset, id, 0), <<>>)
         /\ RefusedByAll(bytes)
    BY <2>1, ResetComes
  <2>6. \A id \in Numbers, pos \in Numbers, m \in Messages :
         Arrives(EncodeError(Writer, id, pos, m), Plain(Writer, Error, id, pos), m)
    BY <2>1, ErrorComes
  <2> QED
    BY <2>2, <2>3, <2>4, <2>5, <2>6
<1> QED
  BY <1>1, HandshakeTypeCorrect, PTL

\* A frame cut at any byte, but for an error's, gives no decoder anything, for
\* any headers, numbers, descriptions and tensors (protocol.rs).
THEOREM CutsAlwaysRefused == Spec => []CutsRefused
<1>1. TypeOK => CutsRefused
  <2> SUFFICES ASSUME TypeOK, Reader = Writer,
                      NEW bytes \in HelloFrames \cup ActivationFrames \cup TokenFrames
               PROVE  \A n \in 0 .. Len(bytes) - 1 : RefusedByAll(Cut(bytes, n))
    BY DEF CutsRefused
  <2>1. Met
    BY Versions DEF Met
  <2>2. CASE bytes \in HelloFrames
    BY <2>1, <2>2, CutHello DEF HelloFrames
  <2>3. CASE bytes \in ActivationFrames
    BY <2>1, <2>3, CutActivation DEF ActivationFrames
  <2>4. CASE bytes \in TokenFrames
    BY <2>1, <2>4, CutToken DEF TokenFrames
  <2> QED
    BY <2>2, <2>3, <2>4
<1> QED
  BY <1>1, HandshakeTypeCorrect, PTL

\* A Q8 tensor comes back within half a step of each element, the largest
\* exactly and zeros as zeros, for any tensor (Quantized::encode and decode).
THEOREM QuantizedComesClose == Spec => []Q8Close
<1>1. TypeOK => Q8Close
  <2> SUFFICES ASSUME TypeOK, Reader = Writer,
                      NEW e \in Envelopes, NEW t \in Tensors, e.codec = Q8
               PROVE
      \E values \in {Decode(Activation, EncodeActivation(Sealed(e), t)).body} :
          /\ Arrives(EncodeActivation(Sealed(e), t),
                     [Sealed(e) EXCEPT !.opcode = Activation], values)
          /\ DOMAIN values = DOMAIN t
          /\ \A i \in DOMAIN t :
               /\ 2 * Abs(127 * t[i] - values[i]) <= MaxAbs(t)
               /\ Abs(t[i]) = MaxAbs(t) => values[i] = 127 * t[i]
    BY DEF Q8Close
  <2> DEFINE got == Decode(Activation, EncodeActivation(Sealed(e), t))
             values == Received(e.codec, t)
  <2>1. Met
    BY Versions DEF Met
  <2>2. /\ Arrives(EncodeActivation(Sealed(e), t),
                   [Sealed(e) EXCEPT !.opcode = Activation], values)
        /\ got = Accepted([Sealed(e) EXCEPT !.opcode = Activation], values)
    BY <2>1, ActivationComes
  <2>3. values = got.body
    BY <2>2, Results
  <2>4. e.codec # F32
    BY DEF F32, Q8
  <2>5. /\ DOMAIN values = DOMAIN t
        /\ \A i \in DOMAIN t :
             /\ 2 * Abs(127 * t[i] - values[i]) <= MaxAbs(t)
             /\ Abs(t[i]) = MaxAbs(t) => values[i] = 127 * t[i]
    BY <2>4, QuantizedReceived
  <2> HIDE DEF values, got
  <2>6. values \in {got.body}
    BY <2>3
  <2> QED
    BY <2>2, <2>5, <2>6 DEF got
<1> QED
  BY <1>1, HandshakeTypeCorrect, PTL

\* A frame of another version is called that by every decoder, whatever its
\* codec, its opcode and its length (Header::parse).
THEOREM SkewAlwaysNoticed == Spec => []SkewNoticed
<1>1. TypeOK => SkewNoticed
  <2> SUFFICES ASSUME TypeOK, Reader # Writer,
                      NEW bytes \in HelloFrames \cup TokenFrames \cup ErrorFrames,
                      NEW codec \in Numbers \cap Byte,
                      NEW n \in HeaderLen .. Len(bytes), NEW opcode \in Decoders
               PROVE  Decode(opcode, Cut([bytes EXCEPT ![3] = codec], n))
                        = Refused("VersionMismatch")
    BY DEF SkewNoticed
  <2>1. Writer \in Byte
    BY Versions
  <2>2. IsFrame(bytes)
    BY <2>1, AllFrames
  <2>3. codec \in Byte
    OBVIOUS
  <2> QED
    BY <2>2, <2>3, SkewSeen
<1> QED
  BY <1>1, HandshakeTypeCorrect, PTL
==============================================================================
