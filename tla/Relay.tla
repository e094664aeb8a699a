-------------------------------- MODULE Relay --------------------------------
(***************************************************************************)
(* The signaling relay, src/relay/src/main.rs.  Each connection is a task  *)
(* of a multi-threaded runtime running serve(): an action is what such a   *)
(* task does under the rooms mutex, or between two uses of it.             *)
(*                                                                         *)
(* A payload is abstracted to its sender.  The bytes of a frame, the room  *)
(* names that are refused, HTTP and TLS are left out.                      *)
(***************************************************************************)
EXTENDS Naturals, Sequences, FiniteSets, Functions

CONSTANTS
  Conn,         \* connections; a client that comes back is another one
  RoomId,       \* names of rooms
  NoConn,       \* an empty slot
  MaxRooms,     \* MAX_ROOMS
  MaxFrames,    \* MAX_FRAMES_PER_CONNECTION
  MaxTexts      \* a bound: text frames that the clients send in all

ASSUME RelayAssumption ==
  /\ NoConn \notin Conn
  /\ IsFiniteSet(Conn)
  /\ MaxRooms \in Nat \ {0}
  /\ MaxFrames \in Nat
  /\ MaxTexts \in Nat

Role == {"node0", "node1"}
Other(role) == IF role = "node0" THEN "node1" ELSE "node0"

\* Room: its two slots, each holding the outbox of a connection or nothing.
Room == [Role -> Conn \cup {NoConn}]
NewRoom == [role \in Role |-> NoConn]
IsVacant(entry) == \A role \in Role : entry[role] = NoConn

Registered(present) == [kind |-> "registered", present |-> present]
Notice(kind) == [kind |-> kind]
Text(c) == [kind |-> "text", from |-> c]

Message ==
  [kind : {"registered"}, present : BOOLEAN]
    \cup [kind : {"peer-joined", "peer-left", "role-taken", "relay-full"}]
    \cup [kind : {"text"}, from : Conn]

VARIABLES
  rooms,        \* Relay.rooms: a map from the rooms that exist to their slots
  phase,        \* how far each connection's serve() is
  place,        \* the room and role it asked for
  found,        \* the peer_present of its claim
  outbox,       \* its unbounded channel: what the writer has yet to send
  writer,       \* whether the channel's receiver still exists
  frames,       \* text frames received from it
  metrics,      \* Relay.metrics
  present,      \* client side: whether it believes it has a peer
  overtaken,    \* history: a peer-left was queued before its "registered"
  sent          \* history: who has been sent a text by whom

connVars == <<phase, place, found, frames>>
boxVars == <<outbox, writer, overtaken>>
vars == <<rooms, connVars, boxVars, metrics, present, sent>>

Phases == {"away", "claimed", "registered", "serving", "leaving", "released",
           "gone", "refused"}

Seated == {"claimed", "registered", "serving", "leaving"}

Init ==
  /\ rooms = [room \in {} |-> NewRoom]
  /\ phase = [c \in Conn |-> "away"]
  /\ place \in [Conn -> RoomId \X Role]
  /\ found = [c \in Conn |-> FALSE]
  /\ outbox = [c \in Conn |-> <<>>]
  /\ writer = [c \in Conn |-> TRUE]
  /\ frames = [c \in Conn |-> 0]
  /\ metrics = [connections |-> 0, pairings |-> 0, frames |-> 0, rejected |-> 0]
  /\ present = [c \in Conn |-> FALSE]
  /\ overtaken = [c \in Conn |-> FALSE]
  /\ sent = {}

RoomOf(c) == place[c][1]
RoleOf(c) == place[c][2]

\* Room::peer in the room of c, in the map m.
PeerIn(m, c) ==
  IF RoomOf(c) \in DOMAIN m THEN m[RoomOf(c)][Other(RoleOf(c))] ELSE NoConn

\* The slot of c, in the map m.
SlotIn(m, c) ==
  IF RoomOf(c) \in DOMAIN m THEN m[RoomOf(c)][RoleOf(c)] ELSE NoConn

\* Whom notify_peer and the release write to: whoever holds the other role now.
PeerOf(c) == PeerIn(rooms, c)

\* A send on the channel of d: lost, without a word, once its writer is gone.
Pushed(d, message) ==
  IF d # NoConn /\ writer[d]
    THEN [outbox EXCEPT ![d] = Append(@, message)]
    ELSE outbox

Count(field, n) == [metrics EXCEPT ![field] = @ + n]

MoveTo(c, from, to) == phase[c] = from /\ phase' = [phase EXCEPT ![c] = to]

SetSlot(m, c, value) ==
  LET entry == IF RoomOf(c) \in DOMAIN m THEN m[RoomOf(c)] ELSE NewRoom
  IN [room \in DOMAIN m \cup {RoomOf(c)} |->
        IF room = RoomOf(c) THEN [entry EXCEPT ![RoleOf(c)] = value]
                            ELSE m[room]]

-----------------------------------------------------------------------------
(* Claiming a role, under the lock *)

AtCapacityOneLate ==
  Cardinality(DOMAIN rooms) > MaxRooms
AtCapacity ==
  Cardinality(DOMAIN rooms) >= MaxRooms

SlotFreeOrPeerless(c) ==
  SlotIn(rooms, c) = NoConn \/ PeerIn(rooms, c) = NoConn
SlotFree(c) == SlotIn(rooms, c) = NoConn

RefusalCountedAsJoined ==
  [metrics EXCEPT !.rejected = @ + 1, !.connections = @ + 1]
RefusalCounted == Count("rejected", 1)

Refuse(c, kind) ==
  /\ MoveTo(c, "away", "refused")
  /\ outbox' = Pushed(c, Notice(kind))
  /\ metrics' = RefusalCounted
  /\ UNCHANGED <<rooms, place, found, frames, writer, overtaken, present, sent>>

RelayFull(c) ==
  /\ RoomOf(c) \notin DOMAIN rooms /\ AtCapacity
  /\ Refuse(c, "relay-full")

MayEnter(c) == RoomOf(c) \in DOMAIN rooms \/ ~AtCapacity

RoleTaken(c) ==
  /\ MayEnter(c)
  /\ ~SlotFree(c)
  /\ Refuse(c, "role-taken")

Claim(c) ==
  /\ MayEnter(c)
  /\ SlotFree(c)
  /\ MoveTo(c, "away", "claimed")
  /\ rooms' = SetSlot(rooms, c, c)
  /\ found' = [found EXCEPT ![c] = PeerIn(rooms, c) # NoConn]
  /\ UNCHANGED <<place, frames, boxVars, metrics, present, sent>>

(* After the lock: another task may come in between any two of these *)

SendRegistered(c) ==
  /\ MoveTo(c, "claimed", "registered")
  /\ outbox' = Pushed(c, Registered(found[c]))
  /\ metrics' = Count("connections", 1)
  /\ UNCHANGED <<rooms, place, found, frames, writer, overtaken, present, sent>>

\* Tell the peer of the moment, which need not be the one the claim found.
\* peer_present is not read again.
NotifyJoined(c) ==
  /\ MoveTo(c, "registered", "serving")
  /\ found' = [found EXCEPT ![c] = FALSE]
  /\ \/ /\ found[c]
        /\ outbox' = Pushed(PeerOf(c), Notice("peer-joined"))
        /\ metrics' = Count("pairings", 1)
     \/ /\ ~found[c]
        /\ UNCHANGED <<outbox, metrics>>
  /\ UNCHANGED <<rooms, place, frames, writer, overtaken, present, sent>>

-----------------------------------------------------------------------------
(* The select loop *)

MaySend == FoldFunction(+, 0, frames) < MaxTexts

\* A text frame within the budget is forwarded to the peer, if there is one.
WithinBudgetAndOne(c) == frames[c] <= MaxFrames
WithinBudget(c) == frames[c] < MaxFrames

Forward(c) ==
  /\ MaySend
  /\ phase[c] = "serving"
  /\ WithinBudget(c)
  /\ frames' = [frames EXCEPT ![c] = @ + 1]
  /\ metrics' = Count("frames", 1)
  /\ outbox' = Pushed(PeerOf(c), Text(c))
  /\ sent' = IF PeerOf(c) # NoConn THEN sent \cup {<<c, PeerOf(c)>>}
                                      ELSE sent
  /\ UNCHANGED <<rooms, phase, place, found, writer, overtaken, present>>

\* One frame more, and the connection is dropped.
OverBudget(c) ==
  /\ MaySend
  /\ ~WithinBudget(c)
  /\ MoveTo(c, "serving", "leaving")
  /\ frames' = [frames EXCEPT ![c] = @ + 1]
  /\ metrics' = Count("rejected", 1)
  /\ UNCHANGED <<rooms, place, found, boxVars, present, sent>>

\* The deadline, a close frame, an error on the stream, or a ping that finds
\* the writer gone.
HangUp(c) ==
  /\ MoveTo(c, "serving", "leaving")
  /\ UNCHANGED <<rooms, place, found, frames, boxVars, metrics, present, sent>>

-----------------------------------------------------------------------------
(* Releasing the slot, under the lock *)

VacateKeepingRoom(m, c) == SetSlot(m, c, NoConn)
VacateNothing(m, c) == m
Vacate(m, c) ==
  LET after == SetSlot(m, c, NoConn)
  IN IF IsVacant(after[RoomOf(c)])
       THEN Restrict(after, DOMAIN after \ {RoomOf(c)})
       ELSE after

\* The peer of the moment is told.
FarewellToItself(c) == Pushed(SlotIn(rooms, c), Notice("peer-left"))
Farewell(c) == Pushed(PeerOf(c), Notice("peer-left"))

Release(c) ==
  /\ MoveTo(c, "leaving", "released")
  /\ rooms' = Vacate(rooms, c)
  /\ outbox' = Farewell(c)
  /\ overtaken' = [d \in Conn |->
                     overtaken[d] \/ (d = PeerOf(c) /\ phase[d] = "claimed")]
  /\ UNCHANGED <<place, found, frames, writer, metrics, present, sent>>

Uncount(c) ==
  /\ MoveTo(c, "released", "gone")
  /\ metrics' = [metrics EXCEPT !.connections = @ - 1]
  /\ UNCHANGED <<rooms, place, found, frames, boxVars, present, sent>>

-----------------------------------------------------------------------------
(* The writer, and the client at the other end of the socket *)

\* What signal.rs and App::on_signal make of a message about the peer: a
\* "registered" without a peer leaves peer_present as it was.
Belief(c, message) ==
  CASE message.kind = "peer-joined" -> TRUE
    [] message.kind = "peer-left" -> FALSE
    [] message.kind = "registered" -> message.present \/ present[c]
    [] OTHER -> present[c]

\* The writer is spawned after the peer has been told.
Deliver(c) ==
  /\ writer[c] /\ outbox[c] # <<>>
  /\ phase[c] \in {"serving", "leaving", "released", "gone", "refused"}
  /\ present' = [present EXCEPT ![c] = Belief(c, Head(outbox[c]))]
  /\ outbox' = [outbox EXCEPT ![c] = Tail(@)]
  /\ UNCHANGED <<rooms, connVars, writer, overtaken, metrics, sent>>

\* The socket fails: the writer ends, and its channel with it.  The task only
\* learns of it from its stream, from a ping or from the deadline.
SocketFails(c) ==
  /\ writer[c]
  /\ phase[c] \in {"serving", "leaving", "released"}
  /\ writer' = [writer EXCEPT ![c] = FALSE]
  /\ outbox' = [outbox EXCEPT ![c] = <<>>]
  /\ UNCHANGED <<rooms, connVars, overtaken, metrics, present, sent>>

-----------------------------------------------------------------------------

Serve(c) ==
  \/ SendRegistered(c) \/ NotifyJoined(c) \/ HangUp(c)
  \/ Release(c) \/ Uncount(c)

Next ==
  \E c \in Conn :
    \/ RelayFull(c) \/ RoleTaken(c) \/ Claim(c)
    \/ Serve(c) \/ Forward(c) \/ OverBudget(c)
    \/ Deliver(c) \/ SocketFails(c)

\* A task of the runtime makes progress; its select loop ends by the deadline
\* if by nothing else.  Nothing is assumed of the clients or of the network.
Spec == Init /\ [][Next]_vars /\ \A c \in Conn : WF_vars(Serve(c))

-----------------------------------------------------------------------------
(* Properties *)

RoomsTypeOK ==
  /\ DOMAIN rooms \subseteq RoomId
  /\ rooms \in [DOMAIN rooms -> Room]

ConnTypeOK ==
  /\ phase \in [Conn -> Phases]
  /\ place \in [Conn -> RoomId \X Role]
  /\ found \in [Conn -> BOOLEAN]
  /\ frames \in [Conn -> 0 .. MaxFrames + 1]
  /\ \A c \in Conn :
       frames[c] > MaxFrames => phase[c] \in {"leaving", "released", "gone"}

BoxTypeOK ==
  /\ outbox \in [Conn -> Seq(Message)]
  /\ writer \in [Conn -> BOOLEAN]
  /\ overtaken \in [Conn -> BOOLEAN]
  /\ present \in [Conn -> BOOLEAN]
  /\ sent \subseteq Conn \X Conn

MetricsTypeOK ==
  metrics \in [{"connections", "pairings", "frames", "rejected"} -> Nat]

TypeOK == RoomsTypeOK /\ ConnTypeOK /\ BoxTypeOK /\ MetricsTypeOK

\* A slot names a connection exactly while that connection's task is between
\* its claim and its release, in the room and role it asked for: "refusing
\* beats evicting whoever got there first", and no slot is left behind.
SlotsAreHeld ==
  \A room \in DOMAIN rooms, role \in Role, c \in Conn :
    rooms[room][role] = c <=> place[c] = <<room, role>> /\ phase[c] \in Seated

\* A room exists exactly while somebody holds a slot of it, and there are
\* never more than MAX_ROOMS: rooms "vanish when both sides leave".
RoomsAreInUse ==
  /\ DOMAIN rooms = {RoomOf(c) : c \in {d \in Conn : phase[d] \in Seated}}
  /\ Cardinality(DOMAIN rooms) <= MaxRooms

\* A seat may change hands with texts under way, and a text does not say whose
\* it is.  Between the texts of one peer and those of the next a client is told
\* that the one has left and that the other has joined, in this order, though
\* three tasks queue the four messages: it takes no candidate of the one for
\* the other's.
ChangesHands(box, i, j) ==
  \E k, l \in i .. j :
    k < l /\ box[k].kind = "peer-left" /\ box[l].kind = "peer-joined"

TextsToldApart ==
  \A d \in Conn : \A i, j \in DOMAIN outbox[d] :
    LET one == outbox[d][i] other == outbox[d][j] IN
    /\ i < j /\ one.kind = "text" /\ other.kind = "text"
    /\ one.from # other.from
    => ChangesHands(outbox[d], i, j)

Counted == {c \in Conn : phase[c] \in {"registered", "serving", "leaving",
                                        "released"}}

\* The connection gauge counts the tasks between their two updates of it and
\* so never passes below zero.
GaugeCounts == metrics.connections = Cardinality(Counted)

\* A client whose messages are all delivered knows whether the other role of
\* its room is held: nobody is left waiting for a peer that is there, or
\* offering to one that is gone.
KnowsItsPeer(c) ==
  LET peer == PeerIn(rooms, c) IN
  /\ phase[c] = "serving" /\ writer[c] /\ outbox[c] = <<>>
  /\ peer # NoConn => phase[peer] \notin {"claimed", "registered"}
  => present[c] = (peer # NoConn)

\* It does unless a "peer-left" went out before its own "registered" did; the
\* relay's protocol table (relay/README.md:25) has no such exception.
PresenceKnown == \A c \in Conn : overtaken[c] \/ KnowsItsPeer(c)

\* Every slot taken is given back, also by a client that just goes silent.
SlotsAreFreed ==
  \A c \in Conn : phase[c] = "claimed" ~> phase[c] = "gone" /\ SlotIn(rooms, c) # c

\* Seen from its seats, the relay does what Seats promises.
Table == INSTANCE Seats WITH
  seat <- [room \in RoomId |-> IF room \in DOMAIN rooms THEN rooms[room]
                                                        ELSE NewRoom],
  spent <- {c \in Conn : phase[c] \notin {"away", "refused"}}

TableSpec == Table!Spec
==============================================================================
