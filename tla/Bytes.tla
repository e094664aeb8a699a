-------------------------------- MODULE Bytes --------------------------------
(***************************************************************************)
(* Byte sequences as the encoders of src/src/protocol.rs and               *)
(* src/src/web/signal.rs see them: little-endian numbers and text.         *)
(* TLC's integers end at 2^31 - 1, and so do the numbers checked here.     *)
(***************************************************************************)
EXTENDS Integers, Sequences

Byte == 0 .. 255

\* The numbers of four bytes, up to 2^32 - 1.
U32 == {n \in Nat : n \div 16777216 \in Byte}

\* n.to_le_bytes() of a u32, and of an f32 whose bits are those of n.
Le32(n) ==
  <<n % 256, (n \div 256) % 256, (n \div 65536) % 256, (n \div 16777216) % 256>>

\* read_u32: the number whose bytes begin after the first "at" of them.
ReadU32(bytes, at) ==
  bytes[at + 1] + 256 * bytes[at + 2] + 65536 * bytes[at + 3]
  + 16777216 * bytes[at + 4]

AsI8(byte) == IF byte >= 128 THEN byte - 256 ELSE byte

\* from_utf8 of the text checked here, which is ASCII.
IsText(bytes) == \A i \in DOMAIN bytes : bytes[i] < 128

From(bytes, at) == SubSeq(bytes, at + 1, Len(bytes))
Cut(bytes, n) == SubSeq(bytes, 1, n)
=============================================================================
