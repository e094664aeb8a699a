-------------------------------- MODULE Paste --------------------------------
(***************************************************************************)
(* Copy and paste pairing: a page shows the blob of its offer or answer, a *)
(* person carries it to the other page, through programs that may indent   *)
(* it, wrap it, pad it or lose its end, and applies it there.              *)
(*                                                                         *)
(* What is carried is a blob and no other text; nothing comes between the  *)
(* letters of its kind, which is one character here.  The pages are those  *)
(* of Handshake, before they have met.                                     *)
(***************************************************************************)
EXTENDS Codec, Blob

CONSTANTS
  Bodies,       \* session descriptions
  MaxEdits      \* bound: what the programs between do to a blob

ASSUME PasteAssumption ==
  /\ \A body \in Bodies : body \in Seq(Byte) /\ IsText(body)
  /\ MaxEdits \in Nat

Kinds == {Offer, Answer}

-----------------------------------------------------------------------------
(* The programs between *)

Inserted(text, i, ch) == Cut(text, i) \o <<ch>> \o From(text, i)

\* A line is indented.
Indents(text) ==
  {Inserted(text, i, Space) :
     i \in {n \in 0 .. Len(text) : \A j \in 1 .. n : text[j] = Space}}

\* A line is broken, or padding is added.
Wraps(text) ==
  {Inserted(text, i, ch) :
     i \in {n \in 0 .. Len(text) : \E j \in 1 .. n : text[j] = Dot},
     ch \in {Space, Padding}}

Losses(text) == {Cut(text, n) : n \in 0 .. Len(text) - 1}

Edits(text, lossy) ==
  Indents(text) \cup Wraps(text) \cup IF lossy THEN Losses(text) ELSE {}

\* What may arrive, for a blob and a number of edits.
AfterEdits(blob, lossy) ==
  LET texts[n \in 0 .. MaxEdits] ==
        IF n = 0 THEN {blob}
                 ELSE texts[n - 1] \cup UNION {Edits(t, lossy) : t \in texts[n - 1]}
  IN texts

AsPasted(kind, body, lossy) == AfterEdits(EncodeBlob(kind, body), lossy)[MaxEdits]

-----------------------------------------------------------------------------
(* Properties *)

\* A blob that lost nothing is what it was made from, however it was wrapped
\* and padded (signal.rs:451-452).
BlobsArrive ==
  Strangers /\ build[0] = build[1] =>
    \A kind \in Kinds, body \in Bodies :
      \A text \in AsPasted(kind, body, FALSE) : AcceptBlob(text) = Pasted(kind, body)

\* From a blob that lost its end a page takes the beginning of the description,
\* with not a byte made of the bits left over, or nothing (signal.rs:492).
CutBlobs ==
  Strangers /\ build[0] = build[1] =>
    \A kind \in Kinds, body \in Bodies :
      \A text \in AsPasted(kind, body, TRUE) :
        \/ AcceptBlob(text) = Rejected
        \/ \E n \in 0 .. Len(body) : AcceptBlob(text) = Pasted(kind, Cut(body, n))
=============================================================================
