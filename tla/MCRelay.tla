------------------------------- MODULE MCRelay -------------------------------
(***************************************************************************)
(* Instances of Relay for TLC.  Connections are interchangeable; no        *)
(* liveness is checked under the symmetry.                                 *)
(***************************************************************************)
EXTENDS Relay, TLC

CONSTANTS r1, r2, r3

Symmetry == Permutations(Conn)

\* What three connections can ask for, up to the names of the connections, of
\* the rooms and of the two roles of a room: all one seat; a room of two, with
\* the third for a seat of it or alone; a room each, or one seat for two.
UpToNames ==
  \E c, d, e \in Conn :
    /\ Conn = {c, d, e}
    /\ place[c] = <<r1, "node0">>
    /\ \/ place[d] = <<r1, "node0">> /\ place[e] = <<r1, "node0">>
       \/ place[d] = <<r1, "node1">> /\ place[e] \in {r1, r2} \X {"node0"}
       \/ place[d] = <<r2, "node0">> /\ place[e] \in {r2, r3} \X {"node0"}

ThreeInit == Init /\ UpToNames
ThreeSpec == ThreeInit /\ [][Next]_vars
==============================================================================
