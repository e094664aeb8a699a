------------------------------ MODULE MCPairing ------------------------------
(***************************************************************************)
(* Instances of Pairing for TLC.  A hang-up timer that outlives its link   *)
(* matters most in the page that offers.                                   *)
(***************************************************************************)
EXTENDS Pairing

MCTimers == [p \in Page |-> IF Initiator(p) THEN 2 ELSE 1]
==============================================================================
