----------------------------- MODULE MCHandshake -----------------------------
(***************************************************************************)
(* Two pages of three builds; and the frames on which Codec, and the       *)
(* descriptions on which Paste is tried: of up to four bytes, which leaves *)
(* every number of bytes in the last chunk.                                *)
(***************************************************************************)
EXTENDS Paste

MCShape == [dim |-> 128, n_layers |-> 2, vocab_size |-> 64, max_seq |-> 128]
MCDeeper == [MCShape EXCEPT !.n_layers = 258]
MCBuilds ==
  {[version |-> 3, shape |-> MCShape], [version |-> 3, shape |-> MCDeeper],
   [version |-> 4, shape |-> MCShape]}
MCLabels == {<<99, 112, 117>>, <<103>>}

MCNumbers == {0, 1, 255, 256, 16909060}
MCEnvelopes ==
  {[opcode |-> Reset, codec |-> codec, flags |-> flags,
    request_id |-> 16909060, seq_pos |-> 7] :
     codec \in Codecs, flags \in {0, FlagFinal}}
MCHellos == {LocalHello(b, l) : b \in MCBuilds, l \in MCLabels \cup {NoLabel}}
MCTensors == UNION {[1 .. n -> {-300, -1, 0, 2, 255}] : n \in 0 .. 3}
MCMessages == {<<>>, <<103, 112, 117>>}
MCBodies == UNION {[1 .. n -> {65, 127}] : n \in 0 .. 4}
=============================================================================
