-------------------------------- MODULE Blob --------------------------------
(***************************************************************************)
(* The blobs of copy and paste pairing in src/src/web/signal.rs: a kind, a *)
(* dot and the session description in base64url, as the person who carries *)
(* them may hand them over.                                                *)
(*                                                                         *)
(* A character of the base64url alphabet is its number, 0 to 63.  Of the   *)
(* others there are four.                                                  *)
(***************************************************************************)
EXTENDS Bytes, FiniteSets, SequencesExt

Letter == 0 .. 63
Padding == 64
Space == 65
Dot == 66
Other == 67
Char == 0 .. 67

\* "offer" and "answer", by their first letters.
Offer == <<40>>
Answer == <<26>>

Rejected == [rejected |-> TRUE]
Pasted(kind, body) == [kind |-> kind, body |-> body]

-----------------------------------------------------------------------------
(* base64url *)

\* Two letters for the first byte of a chunk and one for each other.
EncodeChunk(chunk) ==
  LET byte(i) == IF i <= Len(chunk) THEN chunk[i] ELSE 0
      triple == 65536 * byte(1) + 256 * byte(2) + byte(3)
      letters == [i \in 1 .. 4 |-> (triple \div 64 ^ (4 - i)) % 64]
  IN Cut(letters, Len(chunk) + 1)

Base64Encode(bytes) ==
  LET chunk(k) == SubSeq(bytes, 3 * k - 2, Min({3 * k, Len(bytes)}))
  IN FlattenSeq([k \in 1 .. (Len(bytes) + 2) \div 3 |-> EncodeChunk(chunk(k))])

\* Spaces are not expected.
IgnoredUnspaced == {Padding}

\* What a decoder passes over.
Ignored == {Space, Padding}

\* Of the u32 accumulator the low 14 bits at most are ever read; 24 are kept.
Shifted(acc, ch) == (acc * 64 + ch) % 16777216

\* Eight bits make a byte.
Taken(acc, bits, out) ==
  IF bits >= 8
    THEN [acc |-> acc, bits |-> bits - 8,
          out |-> Append(out, (acc \div 2 ^ (bits - 8)) % 256)]
    ELSE [acc |-> acc, bits |-> bits, out |-> out]

\* One more character.
Decoded(state, ch) ==
  IF ch \in Ignored THEN state
                    ELSE Taken(Shifted(state.acc, ch), state.bits + 6, state.out)

\* The decoder after the first n characters of a text, for each n.
Runs(text) ==
  LET run[n \in 0 .. Len(text)] ==
        IF n = 0 THEN [acc |-> 0, bits |-> 0, out |-> <<>>]
                 ELSE Decoded(run[n - 1], text[n])
  IN run

\* The bits left over make a byte too.
Base64DecodeAll(text) ==
  LET end == Runs(text)[Len(text)]
  IN IF end.bits = 0 THEN end.out
                     ELSE Append(end.out, (end.acc * 2 ^ (8 - end.bits)) % 256)

Base64Decode(text) == Runs(text)[Len(text)].out

-----------------------------------------------------------------------------
(* Blobs *)

EncodeBlob(kind, body) == kind \o <<Dot>> \o Base64Encode(body)

Trim(text) ==
  LET solid == {i \in DOMAIN text : text[i] # Space}
  IN IF solid = {} THEN <<>> ELSE SubSeq(text, Min(solid), Max(solid))

\* decode_blob, and accept_blob's look at the kind.
AcceptBlob(text) ==
  LET trimmed == Trim(text)
      dots == {i \in DOMAIN trimmed : trimmed[i] = Dot}
      kind == Cut(trimmed, Min(dots) - 1)
      encoded == From(trimmed, Min(dots))
      body == Base64Decode(encoded)
  IN IF \/ dots = {}
        \/ \E i \in DOMAIN encoded : encoded[i] \notin Letter \cup Ignored
        \/ ~IsText(body)
        \/ kind \notin {Offer, Answer}
       THEN Rejected
       ELSE Pasted(kind, body)
=============================================================================
