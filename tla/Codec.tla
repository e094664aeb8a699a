-------------------------------- MODULE Codec --------------------------------
(***************************************************************************)
(* What the encoders and decoders of Protocol promise each other: that     *)
(* what one page writes the other reads, and that what was cut or is of    *)
(* another build is refused.  The two pages are those of Handshake; for    *)
(* TLC's sake they are looked at before they have met.                     *)
(*                                                                         *)
(* The constants are what is written: a few values of each kind for TLC,   *)
(* any set of them for the proofs.                                         *)
(***************************************************************************)
EXTENDS Handshake

CONSTANTS
  Numbers,      \* what a u32 field may hold
  Envelopes,    \* headers, all but their version
  Hellos,       \* what a page may say of itself
  Tensors,      \* activations
  Messages      \* what may be wrong

Text == {t \in Seq(Byte) : IsText(t)}

\* 127 of it still fit 32 bits.
MaxElement == 16909320
IsElement(x) == -MaxElement <= x /\ x <= MaxElement

ASSUME CodecAssumption ==
  /\ Numbers \subseteq U32
  /\ \A e \in Envelopes :
       /\ e.opcode \in Byte /\ e.codec \in Codecs /\ e.flags \in Byte
       /\ e.request_id \in U32 /\ e.seq_pos \in U32
  /\ \A h \in Hellos :
       /\ h \in [dim : U32, n_layers : U32, vocab_size : U32, max_seq : U32,
                 backend : Text]
       /\ Len(h.backend) \in U32
  /\ \A t \in Tensors :
       t \in Seq(Int) /\ Len(t) \in U32 /\ \A i \in DOMAIN t : IsElement(t[i])
  /\ Messages \subseteq Text

Strangers == faults = 0 /\ \A p \in Page : end[p] = "none"

\* What page 0 writes and page 1 reads.
Writer == build[0].version
Reader == build[1].version

-----------------------------------------------------------------------------
(* What is written *)

Sealed(e) ==
  Header(Writer, e.opcode, e.codec, e.flags, e.request_id, e.seq_pos)

Replies == [token_id : Numbers, compute_us : Numbers]

HelloFrames == {EncodeHello(Writer, h, id) : h \in Hellos, id \in Numbers}
TokenFrames == {EncodeToken(Sealed(e), r) : e \in Envelopes, r \in Replies}
ActivationFrames ==
  {EncodeActivation(Sealed(e), t) : e \in Envelopes, t \in Tensors}
ErrorFrames ==
  {EncodeError(Writer, id, pos, m) :
     id \in Numbers, pos \in Numbers, m \in Messages}

-----------------------------------------------------------------------------
(* What is read *)

Decoders == {Hello, Activation, Token, Error}
Decode(opcode, bytes) ==
  CASE opcode = Hello -> DecodeHello(Reader, bytes)
    [] opcode = Activation -> DecodeActivation(Reader, bytes)
    [] opcode = Token -> DecodeToken(Reader, bytes)
    [] opcode = Error -> DecodeError(Reader, bytes)

RefusedByAll(bytes) ==
  \A opcode \in Decoders : IsRefused(Decode(opcode, bytes))

\* The decoder of its opcode gives this, and no other gives anything.
Arrives(bytes, header, body) ==
  \A opcode \in Decoders :
    IF opcode = header.opcode
      THEN Decode(opcode, bytes) = Accepted(header, body)
      ELSE IsRefused(Decode(opcode, bytes))

-----------------------------------------------------------------------------
(* Properties *)

\* A frame gives the decoder of its opcode the header and the contents it was
\* made from, an F32 tensor exactly, and gives no other decoder anything
\* (protocol.rs:3-4: routed and validated before the payload is touched).
FramesArrive ==
  Strangers /\ Reader = Writer =>
    /\ \A h \in Hellos, id \in Numbers :
         Arrives(EncodeHello(Writer, h, id), Plain(Writer, Hello, id, 0), h)
    /\ \A e \in Envelopes, r \in Replies :
         Arrives(EncodeToken(Sealed(e), r), [Sealed(e) EXCEPT !.opcode = Token], r)
    /\ \A e \in Envelopes, t \in Tensors :
         e.codec = F32 =>
           Arrives(EncodeActivation(Sealed(e), t),
                   [Sealed(e) EXCEPT !.opcode = Activation],
                   [i \in DOMAIN t |-> 127 * t[i]])
    /\ \A id \in Numbers :
         LET bytes == EncodeReset(Writer, id) IN
         /\ Parse(Reader, bytes) = Accepted(Plain(Writer, Reset, id, 0), <<>>)
         /\ RefusedByAll(bytes)
    /\ \A id \in Numbers, pos \in Numbers, m \in Messages :
         Arrives(EncodeError(Writer, id, pos, m), Plain(Writer, Error, id, pos), m)

\* A frame cut anywhere is refused by every decoder, but for the message of an
\* error, which is only shorter (protocol.rs:491-506 tries six cuts of one).
CutsRefused ==
  Strangers /\ Reader = Writer =>
    \A bytes \in HelloFrames \cup ActivationFrames \cup TokenFrames :
      \A n \in 0 .. Len(bytes) - 1 : RefusedByAll(Cut(bytes, n))

\* A Q8 tensor comes back with as many elements, each within half a step of
\* what it was and the largest exactly (protocol.rs:452-460), so that all zeros
\* stay zeros (protocol.rs:464-472).
Q8Close ==
  Strangers /\ Reader = Writer =>
    \A e \in Envelopes, t \in Tensors :
      e.codec = Q8 =>
        \E values \in {Decode(Activation, EncodeActivation(Sealed(e), t)).body} :
          /\ Arrives(EncodeActivation(Sealed(e), t),
                     [Sealed(e) EXCEPT !.opcode = Activation], values)
          /\ DOMAIN values = DOMAIN t
          /\ \A i \in DOMAIN t :
               /\ 2 * Abs(127 * t[i] - values[i]) <= MaxAbs(t)
               /\ Abs(t[i]) = MaxAbs(t) => values[i] = 127 * t[i]

\* Every decoder calls a frame of another version just that, whatever the rest
\* of it is: a codec that version may have, another opcode, a payload of
\* another length (protocol.rs:20-22).
SkewNoticed ==
  Strangers /\ Reader # Writer =>
    \A bytes \in HelloFrames \cup TokenFrames \cup ErrorFrames :
      \A codec \in Numbers \cap Byte, n \in HeaderLen .. Len(bytes) :
        \A opcode \in Decoders :
          Decode(opcode, Cut([bytes EXCEPT ![3] = codec], n))
            = Refused("VersionMismatch")
=============================================================================
