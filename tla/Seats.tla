-------------------------------- MODULE Seats --------------------------------
(***************************************************************************)
(* What the signaling relay promises: a room has two seats, a seat has at  *)
(* most one holder, a holder keeps its seat until it leaves by itself, and *)
(* what a holder sends goes to whoever holds the other seat of its room.   *)
(* Relay.tla implements it.                                                *)
(***************************************************************************)
CONSTANTS
  Conn,         \* connections; a client that comes back is another one
  RoomId,       \* names of rooms
  NoConn        \* an empty seat

Role == {"node0", "node1"}
Other(role) == IF role = "node0" THEN "node1" ELSE "node0"

VARIABLES
  seat,         \* who holds each seat
  spent,        \* the connections that have taken a seat, now or before
  sent          \* who has been sent something by whom

vars == <<seat, spent, sent>>

Init ==
  /\ seat = [room \in RoomId |-> [role \in Role |-> NoConn]]
  /\ spent = {}
  /\ sent = {}

Sit(c, room, role) ==
  /\ c \notin spent
  /\ seat[room][role] = NoConn
  /\ seat' = [seat EXCEPT ![room][role] = c]
  /\ spent' = spent \cup {c}
  /\ UNCHANGED sent

Leave(c, room, role) ==
  /\ seat[room][role] = c
  /\ seat' = [seat EXCEPT ![room][role] = NoConn]
  /\ UNCHANGED <<spent, sent>>

Forward(c, room, role) ==
  /\ seat[room][role] = c
  /\ seat[room][Other(role)] # NoConn
  /\ sent' = sent \cup {<<c, seat[room][Other(role)]>>}
  /\ UNCHANGED <<seat, spent>>

Next ==
  \E c \in Conn, room \in RoomId, role \in Role :
    Sit(c, room, role) \/ Leave(c, room, role) \/ Forward(c, room, role)

Spec == Init /\ [][Next]_vars
==============================================================================
