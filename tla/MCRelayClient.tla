---------------------------- MODULE MCRelayClient ----------------------------
(***************************************************************************)
(* Instances of RelayClient for TLC.  Pages are interchangeable; lines are *)
(* not, for a new one is chosen.  No liveness is checked under symmetry.   *)
(***************************************************************************)
EXTENDS RelayClient, TLC

Symmetry == Permutations(Tab)
==============================================================================
