------------------------------- MODULE Sampler -------------------------------
(***************************************************************************)
(* How the worker draws a token from its logits: argmax, softmax and       *)
(* sample of src/src/tensor.rs.                                            *)
(*                                                                         *)
(* The logits are already divided by the temperature, and a probability    *)
(* is a share of an integer total.  The generator's number is that of      *)
(* equal parts of the total, or the total itself where the rounded sum of  *)
(* the probabilities stays below it.                                       *)
(***************************************************************************)
EXTENDS Integers, Sequences, FiniteSets, SequencesExt

CONSTANTS
  Vocabulary,   \* the most tokens
  Values,       \* what a logit may be
  Exp           \* the exponential of each, in parts

ASSUME SamplerAssumption ==
  /\ Vocabulary \in Nat
  /\ Values \subseteq Int
  /\ Exp \in [Values -> Nat \ {0}]

\* Tokens count from 0.
Tokens(logits) == 0 .. Len(logits) - 1
Logit(logits, t) == logits[t + 1]

\* argmax: the first of the largest.
Argmax(logits) ==
  CHOOSE t \in Tokens(logits) : \A u \in Tokens(logits) :
    \/ Logit(logits, t) > Logit(logits, u)
    \/ Logit(logits, t) = Logit(logits, u) /\ t <= u

\* The orders sort_unstable_by may leave the tokens in.
Rankings(logits) ==
  {s \in SetToSeqs(Tokens(logits)) :
     \A i \in 1 .. Len(s) - 1 : Logit(logits, s[i]) >= Logit(logits, s[i + 1])}

\* top_k = 0 disables the cut.
Kept(logits, topK) ==
  IF topK = 0 THEN Len(logits) ELSE Min({topK, Len(logits)})

\* softmax of the tokens kept, in parts of their total.
Weights(logits, ranked) == [i \in DOMAIN ranked |-> Exp[Logit(logits, ranked[i])]]

\* The sum of the first i weights, for each i.
Cumulative(weights) ==
  LET sum[i \in 0 .. Len(weights)] == IF i = 0 THEN 0 ELSE sum[i - 1] + weights[i]
  IN sum

\* A roll on the edge of a part falls in the part before it.
FallsInOrBefore(roll, weights, i) == roll <= Cumulative(weights)[i]

FallsIn(roll, weights, i) == roll < Cumulative(weights)[i]

\* The first token whose part the roll falls in, and the last one kept if
\* there is none.
Draw(logits, ranked, roll) ==
  LET weights == Weights(logits, ranked)
      hit == {i \in DOMAIN ranked : FallsIn(roll, weights, i)}
  IN ranked[Min(hit \cup {Len(ranked)})]

Sample(logits, greedy, topK, ranking, roll) ==
  IF logits = <<>> THEN 0
  ELSE IF greedy THEN Argmax(logits)
  ELSE Draw(logits, SubSeq(ranking, 1, Kept(logits, topK)), roll)
=============================================================================
