----------------------------- MODULE MCPipeline -----------------------------
(***************************************************************************)
(* Instances of Pipeline for TLC.  The cfgs set the bounds; the ids are    *)
(* made just plentiful enough that no run lacks one.                       *)
(***************************************************************************)
EXTENDS Sampling

MCIdSpace == MaxRuns * (MaxTokens + 1) + 2

\* e is 2.
MCValues == 0 .. 2
MCExp == [v \in MCValues |-> 2 ^ v]
==============================================================================
