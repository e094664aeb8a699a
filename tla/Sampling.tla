------------------------------ MODULE Sampling ------------------------------
(***************************************************************************)
(* The pipeline and the sampler of its worker, which is looked at in the   *)
(* state in which no run has begun.                                        *)
(***************************************************************************)
EXTENDS Pipeline, Sampler

AllLogits == UNION {[1 .. n -> Values] : n \in 1 .. Vocabulary}

\* How many of the rolls draw token t.
Rolls(logits, topK, ranking, total, t) ==
  Cardinality({roll \in 0 .. total - 1 :
                 Sample(logits, FALSE, topK, ranking, roll) = t})

\* With a temperature each of the top_k largest logits' tokens is drawn as often
\* as its softmax says and no other ever is, not by the rounding of the sum
\* either; without one the largest is taken.
FairDraw(logits, topK, ranking) ==
  LET kept == SubSeq(ranking, 1, Kept(logits, topK))
      rest == Tokens(logits) \ {kept[i] : i \in DOMAIN kept}
      total == Cumulative(Weights(logits, kept))[Len(kept)]
  IN /\ \A i \in DOMAIN kept :
          /\ Rolls(logits, topK, ranking, total, kept[i]) = Exp[Logit(logits, kept[i])]
          /\ \A t \in rest : Logit(logits, t) <= Logit(logits, kept[i])
     /\ Sample(logits, FALSE, topK, ranking, total) \notin rest
     /\ \A t \in Tokens(logits) :
          Logit(logits, t) <= Logit(logits, Sample(logits, TRUE, topK, ranking, 0))

\* Whatever the logits, the cut and the order in which the sort leaves equal
\* logits, tokens are drawn fairly (tensor.rs:172-208).
DrawsInProportion ==
  run = 0 /\ nextId = 1 =>
    \A logits \in AllLogits, topK \in 0 .. Vocabulary + 1 :
      \A ranking \in Rankings(logits) : FairDraw(logits, topK, ranking)
=============================================================================
