------------------------- MODULE MCBroadcastPresence -------------------------
(***************************************************************************)
(* Instances of BroadcastPresence for TLC.                                 *)
(***************************************************************************)
EXTENDS BroadcastPresence

CONSTANTS t1, t2

MCTab == {t1, t2}
==============================================================================
