------------------------------ MODULE Protocol ------------------------------
(***************************************************************************)
(* The frames of src/src/protocol.rs, byte for byte: a header of twelve    *)
(* bytes, then the payload of its opcode.  "version" is PROTOCOL_VERSION   *)
(* of the build that reads or writes.                                      *)
(*                                                                         *)
(* An element of a tensor is an integer and an f32 a multiple of 1/127,    *)
(* so that the scale of a Q8 tensor and what it gives back are exact; that *)
(* f32 arithmetic rounds is left out.                                      *)
(***************************************************************************)
EXTENDS Bytes, FiniteSets, SequencesExt

HeaderLen == 12
HelloFixed == 20

Hello == 0
Activation == 1
Token == 2
Reset == 3
Error == 4

F32 == 0
Q8 == 1
Codecs == {F32, Q8}

FlagFinal == 1

Announce == 0
Reply == 1

Header(version, opcode, codec, flags, id, pos) ==
  [version |-> version, opcode |-> opcode, codec |-> codec, flags |-> flags,
   request_id |-> id, seq_pos |-> pos]

Plain(version, opcode, id, pos) == Header(version, opcode, F32, 0, id, pos)

Refused(why) == [refused |-> why]
IsRefused(result) == "refused" \in DOMAIN result
Accepted(header, body) == [header |-> header, body |-> body]

-----------------------------------------------------------------------------
(* Header *)

WriteInto(h) ==
  <<h.version, h.opcode, h.codec, h.flags>> \o Le32(h.request_id)
  \o Le32(h.seq_pos)

Fields(bytes) ==
  Header(bytes[1], bytes[2], bytes[3], bytes[4], ReadU32(bytes, 4),
         ReadU32(bytes, 8))

\* The version is looked at last.
ParseVersionLast(version, bytes) ==
  IF Len(bytes) < HeaderLen THEN Refused("Truncated")
  ELSE IF bytes[3] \notin Codecs THEN Refused("UnknownCodec")
  ELSE IF bytes[1] # version THEN Refused("VersionMismatch")
  ELSE Accepted(Fields(bytes), From(bytes, HeaderLen))

\* Header::parse, with the payload still to be read.
Parse(version, bytes) ==
  IF Len(bytes) < HeaderLen THEN Refused("Truncated")
  ELSE IF bytes[1] # version THEN Refused("VersionMismatch")
  ELSE IF bytes[3] \notin Codecs THEN Refused("UnknownCodec")
  ELSE Accepted(Fields(bytes), From(bytes, HeaderLen))

\* The opcode is not asked for.
ParseAsAny(version, opcode, needs, bytes) ==
  LET parsed == Parse(version, bytes)
  IN IF IsRefused(parsed) THEN parsed
     ELSE IF Len(parsed.body) < needs THEN Refused("Truncated")
     ELSE parsed

\* Header::parse, expect_opcode and the check of the length a payload needs.
ParseAs(version, opcode, needs, bytes) ==
  LET parsed == Parse(version, bytes)
  IN IF IsRefused(parsed) THEN parsed
     ELSE IF parsed.header.opcode # opcode THEN Refused("UnexpectedOpcode")
     ELSE IF Len(parsed.body) < needs THEN Refused("Truncated")
     ELSE parsed

-----------------------------------------------------------------------------
(* Tensors *)

Abs(x) == IF x < 0 THEN -x ELSE x
MaxAbs(values) == Max({0} \cup {Abs(values[i]) : i \in DOMAIN values})

\* A cast without round().
Truncate(n, d) == IF n < 0 THEN -(Abs(n) \div d) ELSE n \div d

\* round(): to the nearest integer, halves away from zero.  d > 0.
Round(n, d) ==
  LET nearest == (2 * Abs(n) + d) \div (2 * d)
  IN IF n < 0 THEN -nearest ELSE nearest

\* In 127ths: max_abs / 127, or 1.0 if the tensor is all zeros.
Scale(values) == IF MaxAbs(values) > 0 THEN MaxAbs(values) ELSE 127

Clamp(q) == IF q > 127 THEN 127 ELSE IF q < -127 THEN -127 ELSE q

Quantize(values) ==
  Le32(Scale(values))
  \o [i \in DOMAIN values |->
        Clamp(Round(127 * values[i], Scale(values))) % 256]

DequantizeQ8(bytes, count) ==
  [i \in 1 .. count |-> AsI8(bytes[4 + i]) * ReadU32(bytes, 0)]

\* The bits of an f32 whose value is x / 127, and back.
Bits(x) == Le32(x)
FromBits(bytes, at) ==
  ReadU32(Cut(From(bytes, at), 3) \o <<0>>, 0)
  + 16777216 * AsI8(bytes[at + 4])

\* Codec::payload_len
PayloadLen(codec, n) == IF codec = F32 THEN 4 + n * 4 ELSE 4 + 4 + n

-----------------------------------------------------------------------------
(* Frames *)

EncodeHello(version, hello, id) ==
  WriteInto(Plain(version, Hello, id, 0))
  \o (Le32(hello.dim) \o Le32(hello.n_layers) \o Le32(hello.vocab_size)
      \o Le32(hello.max_seq) \o Le32(Len(hello.backend)) \o hello.backend)

\* What follows the label is not looked at.
DecodeHello(version, bytes) ==
  LET frame == ParseAs(version, Hello, HelloFixed, bytes)
      length == ReadU32(frame.body, 16)
      label == SubSeq(frame.body, HelloFixed + 1, HelloFixed + length)
  IN IF IsRefused(frame) THEN frame
     ELSE IF Len(frame.body) < HelloFixed + length THEN Refused("Truncated")
     ELSE IF ~IsText(label) THEN Refused("Utf8")
     ELSE Accepted(frame.header,
                   [dim |-> ReadU32(frame.body, 0),
                    n_layers |-> ReadU32(frame.body, 4),
                    vocab_size |-> ReadU32(frame.body, 8),
                    max_seq |-> ReadU32(frame.body, 12),
                    backend |-> label])

EncodeActivation(header, values) ==
  WriteInto([header EXCEPT !.opcode = Activation]) \o Le32(Len(values))
  \o (IF header.codec = F32
        THEN FlattenSeq([i \in DOMAIN values |-> Bits(127 * values[i])])
        ELSE Quantize(values))

\* An F32 payload is taken for what there is of it.
HasSomeLength(header, body) ==
  \/ header.codec = F32
  \/ Len(body) = PayloadLen(header.codec, ReadU32(body, 0))

\* The declared count must account for every byte.
HasLength(header, body) ==
  Len(body) = PayloadLen(header.codec, ReadU32(body, 0))

\* In 127ths.
DecodeActivation(version, bytes) ==
  LET frame == ParseAs(version, Activation, 4, bytes)
      data == From(frame.body, 4)
  IN IF IsRefused(frame) THEN frame
     ELSE IF ~HasLength(frame.header, frame.body)
       THEN Refused("LengthMismatch")
     ELSE Accepted(frame.header,
                   IF frame.header.codec = F32
                     THEN [i \in 1 .. (Len(data) \div 4) |->
                             FromBits(data, 4 * (i - 1))]
                     ELSE DequantizeQ8(data, ReadU32(frame.body, 0)))

EncodeToken(header, reply) ==
  WriteInto([header EXCEPT !.opcode = Token])
  \o (Le32(reply.token_id) \o Le32(reply.compute_us))

DecodeToken(version, bytes) ==
  LET frame == ParseAs(version, Token, 8, bytes)
  IN IF IsRefused(frame) THEN frame
     ELSE Accepted(frame.header, [token_id |-> ReadU32(frame.body, 0),
                                  compute_us |-> ReadU32(frame.body, 4)])

EncodeReset(version, id) == WriteInto(Plain(version, Reset, id, 0))

EncodeError(version, id, pos, message) ==
  WriteInto(Plain(version, Error, id, pos)) \o message

DecodeError(version, bytes) ==
  LET frame == ParseAs(version, Error, 0, bytes)
  IN IF ~IsRefused(frame) /\ ~IsText(frame.body) THEN Refused("Utf8")
                                                 ELSE frame
=============================================================================
