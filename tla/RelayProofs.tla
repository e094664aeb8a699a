----------------------------- MODULE RelayProofs -----------------------------
(***************************************************************************)
(* Theorems about Relay, for every value of its constants.                 *)
(***************************************************************************)
EXTENDS Relay, FiniteSetTheorems, TLAPS

\* Who holds a role of a room, in the map m, whether the room exists or not.
At(m, room, role) == IF room \in DOMAIN m THEN m[room][role] ELSE NoConn

IsRooms(m) == DOMAIN m \subseteq RoomId /\ m \in [DOMAIN m -> Room]

\* A room exists exactly while a role of it is held.
IsUsed(m) ==
  \A room \in RoomId :
    room \in DOMAIN m <=> \E role \in Role : At(m, room, role) # NoConn

LEMMA PlaceOf ==
  ASSUME place \in [Conn -> RoomId \X Role], NEW c \in Conn
  PROVE  /\ RoomOf(c) \in RoomId /\ RoleOf(c) \in Role
         /\ Other(RoleOf(c)) \in Role
         /\ place[c] = <<RoomOf(c), RoleOf(c)>>
  BY DEF RoomOf, RoleOf, Other, Role

LEMMA SlotsSeen ==
  ASSUME NEW m, NEW c
  PROVE  /\ SlotIn(m, c) = At(m, RoomOf(c), RoleOf(c))
         /\ PeerIn(m, c) = At(m, RoomOf(c), Other(RoleOf(c)))
  BY DEF SlotIn, PeerIn, At

\* Setting a slot creates its room and changes no other slot.
LEMMA SetSlotEffect ==
  ASSUME place \in [Conn -> RoomId \X Role],
         NEW m, IsRooms(m), NEW c \in Conn, NEW value \in Conn \cup {NoConn}
  PROVE  LET after == SetSlot(m, c, value) IN
         /\ DOMAIN after = DOMAIN m \cup {RoomOf(c)}
         /\ IsRooms(after)
         /\ \A room \in RoomId, role \in Role :
              At(after, room, role) =
                IF room = RoomOf(c) /\ role = RoleOf(c)
                  THEN value ELSE At(m, room, role)
<1> DEFINE entry == IF RoomOf(c) \in DOMAIN m THEN m[RoomOf(c)] ELSE NewRoom
           seated == [entry EXCEPT ![RoleOf(c)] = value]
           after == SetSlot(m, c, value)
<1>1. RoomOf(c) \in RoomId /\ RoleOf(c) \in Role
  BY PlaceOf
<1>2. entry \in Room
  BY DEF IsRooms, NewRoom, Room
<1>3. /\ seated \in Room
      /\ \A role \in Role :
           seated[role] = IF role = RoleOf(c) THEN value ELSE entry[role]
  <2> HIDE DEF entry
  <2> QED
    BY <1>1, <1>2 DEF Room
<1>4. after = [room \in DOMAIN m \cup {RoomOf(c)} |->
                 IF room = RoomOf(c) THEN seated ELSE m[room]]
  BY DEF SetSlot
<1>5. \A role \in Role : entry[role] = At(m, RoomOf(c), role)
  BY DEF At, NewRoom
<1> HIDE DEF entry, seated, after
<1>6. DOMAIN after = DOMAIN m \cup {RoomOf(c)} /\ IsRooms(after)
  BY <1>1, <1>3, <1>4 DEF IsRooms
<1>7. ASSUME NEW room \in RoomId, NEW role \in Role
      PROVE  At(after, room, role) =
               IF room = RoomOf(c) /\ role = RoleOf(c)
                 THEN value ELSE At(m, room, role)
  <2>1. CASE room = RoomOf(c)
    BY <2>1, <1>3, <1>4, <1>5 DEF At
  <2>2. CASE room # RoomOf(c)
    BY <2>2, <1>4 DEF At
  <2> QED
    BY <2>1, <2>2
<1> QED
  BY <1>6, <1>7 DEF after

\* Giving a slot back empties it, changes no other slot and drops a room that
\* becomes empty.
LEMMA VacateEffect ==
  ASSUME place \in [Conn -> RoomId \X Role],
         NEW m, IsRooms(m), IsUsed(m), NEW c \in Conn
  PROVE  LET after == Vacate(m, c) IN
         /\ DOMAIN after \subseteq DOMAIN m \cup {RoomOf(c)}
         /\ IsRooms(after) /\ IsUsed(after)
         /\ \A room \in RoomId, role \in Role :
              At(after, room, role) =
                IF room = RoomOf(c) /\ role = RoleOf(c)
                  THEN NoConn ELSE At(m, room, role)
<1> DEFINE set == SetSlot(m, c, NoConn)
           after == Vacate(m, c)
<1>1. /\ DOMAIN set = DOMAIN m \cup {RoomOf(c)}
      /\ IsRooms(set)
      /\ \A room \in RoomId, role \in Role :
           At(set, room, role) =
             IF room = RoomOf(c) /\ role = RoleOf(c)
               THEN NoConn ELSE At(m, room, role)
  <2>1. NoConn \in Conn \cup {NoConn}
    OBVIOUS
  <2> QED
    BY ONLY <2>1, SetSlotEffect, place \in [Conn -> RoomId \X Role],
       IsRooms(m), c \in Conn
<1>2. RoomOf(c) \in RoomId /\ RoleOf(c) \in Role
  BY PlaceOf
<1>3. after = IF IsVacant(set[RoomOf(c)])
                THEN [room \in DOMAIN set \ {RoomOf(c)} |-> set[room]]
                ELSE set
  BY DEF Vacate, Restrict
<1> HIDE DEF set, after
<1>4. CASE IsVacant(set[RoomOf(c)])
  <2>1. DOMAIN after = DOMAIN set \ {RoomOf(c)} /\ IsRooms(after)
    BY <1>1, <1>3, <1>4 DEF IsRooms
  <2>2. \A room \in RoomId, role \in Role :
          At(after, room, role) = At(set, room, role)
    BY <1>1, <1>3, <1>4, <2>1 DEF At, IsVacant
  <2>3. \A role \in Role : At(after, RoomOf(c), role) = NoConn
    BY <2>1 DEF At
  <2>4. IsUsed(after)
    BY <1>1, <2>1, <2>2, <2>3 DEF IsUsed
  <2> QED
    BY <1>1, <2>1, <2>2, <2>4 DEF after
<1>5. CASE ~IsVacant(set[RoomOf(c)])
  <2>1. after = set
    BY <1>3, <1>5
  <2>2. \E role \in Role : At(set, RoomOf(c), role) # NoConn
    BY <1>1, <1>5 DEF At, IsVacant
  <2>3. IsUsed(set)
    BY <1>1, <1>2, <2>2 DEF IsUsed
  <2> QED
    BY <1>1, <2>1, <2>3 DEF after
<1> QED
  BY <1>4, <1>5

-----------------------------------------------------------------------------
(* The inductive invariant: seats and claims agree, and so do the gauge and *)
(* the connections it counts.                                               *)

SeatsAgree ==
  \A room \in RoomId, role \in Role, c \in Conn :
    At(rooms, room, role) = c <=> place[c] = <<room, role>> /\ phase[c] \in Seated

FewRooms == IsFiniteSet(DOMAIN rooms) /\ Cardinality(DOMAIN rooms) <= MaxRooms

RelayInv ==
  /\ TypeOK
  /\ SeatsAgree /\ IsUsed(rooms) /\ FewRooms
  /\ GaugeCounts

LEMMA Conns == NoConn \notin Conn /\ IsFiniteSet(Conn)
  BY RelayAssumption

LEMMA HolderType ==
  ASSUME RoomsTypeOK, NEW room \in RoomId, NEW role \in Role
  PROVE  At(rooms, room, role) \in Conn \cup {NoConn}
  BY DEF RoomsTypeOK, At, Room

LEMMA PeerType ==
  ASSUME RoomsTypeOK, ConnTypeOK, NEW c \in Conn
  PROVE  PeerOf(c) \in Conn \cup {NoConn}
  BY PlaceOf, HolderType, SlotsSeen DEF ConnTypeOK, PeerOf

LEMMA PushedType ==
  ASSUME BoxTypeOK, NEW d \in Conn \cup {NoConn}, NEW message \in Message
  PROVE  Pushed(d, message) \in [Conn -> Seq(Message)]
<1>1. CASE d \in Conn
  <2>1. Append(outbox[d], message) \in Seq(Message)
    BY <1>1 DEF BoxTypeOK
  <2> QED
    BY <1>1, <2>1 DEF BoxTypeOK, Pushed
<1>2. CASE d = NoConn
  BY <1>2 DEF BoxTypeOK, Pushed
<1> QED
  BY <1>1, <1>2

LEMMA MessagesAreMessages ==
  /\ \A kind \in {"peer-joined", "peer-left", "role-taken", "relay-full"} :
       Notice(kind) \in Message
  /\ \A p \in BOOLEAN : Registered(p) \in Message
  /\ \A c \in Conn : Text(c) \in Message
  BY DEF Notice, Registered, Text, Message

LEMMA CountType ==
  ASSUME MetricsTypeOK,
         NEW field \in {"connections", "pairings", "frames", "rejected"}
  PROVE  Count(field, 1) \in
           [{"connections", "pairings", "frames", "rejected"} -> Nat]
  BY DEF MetricsTypeOK, Count

LEMMA InitRelayInv == Init => RelayInv
<1> SUFFICES ASSUME Init PROVE RelayInv
  OBVIOUS
<1>1. DOMAIN rooms = {}
  BY DEF Init
<1>2. RoomsTypeOK
  <2>1. rooms = [room \in {} |-> NewRoom]
    BY DEF Init
  <2>2. rooms \in [{} -> Room]
    BY <2>1
  <2> QED
    BY <1>1, <2>2 DEF RoomsTypeOK
<1>3. ConnTypeOK
  BY RelayAssumption DEF Init, ConnTypeOK, Phases
<1>4. BoxTypeOK
  BY DEF Init, BoxTypeOK
<1>5. MetricsTypeOK
  BY DEF Init, MetricsTypeOK
<1>6. SeatsAgree /\ IsUsed(rooms)
  BY <1>1, Conns DEF Init, SeatsAgree, IsUsed, At, Seated
<1>7. FewRooms
  BY <1>1, FS_EmptySet, RelayAssumption DEF FewRooms
<1>8. GaugeCounts
  <2>1. Counted = {}
    BY DEF Init, Counted
  <2> QED
    BY <2>1, FS_EmptySet DEF Init, GaugeCounts
<1> QED
  BY <1>2, <1>3, <1>4, <1>5, <1>6, <1>7, <1>8 DEF RelayInv, TypeOK

\* A move that neither takes nor gives back a seat leaves the table alone.
LEMMA MoveKeepsSeats ==
  ASSUME RelayInv, UNCHANGED <<rooms, place>>,
         \A c \in Conn : phase'[c] \in Seated <=> phase[c] \in Seated
  PROVE  SeatsAgree' /\ IsUsed(rooms)' /\ FewRooms'
<1>1. SeatsAgree'
  BY DEF RelayInv, SeatsAgree, At
<1>2. IsUsed(rooms)' /\ FewRooms'
  BY DEF RelayInv, IsUsed, At, FewRooms
<1> QED
  BY <1>1, <1>2

LEMMA MoveTypes ==
  ASSUME ConnTypeOK, NEW c \in Conn, NEW from \in Phases, NEW to \in Phases,
         MoveTo(c, from, to)
  PROVE  /\ phase' \in [Conn -> Phases]
         /\ phase[c] = from /\ phase'[c] = to
         /\ \A d \in Conn \ {c} : phase'[d] = phase[d]
  BY DEF ConnTypeOK, MoveTo

\* The gauge follows a task that starts or ceases to be counted.
LEMMA CountedMoves ==
  ASSUME RelayInv, NEW c \in Conn, phase' \in [Conn -> Phases],
         \A d \in Conn \ {c} : phase'[d] = phase[d]
  PROVE  /\ Cardinality(Counted) \in Nat
         /\ (c \in Counted' <=> c \in Counted) =>
              Cardinality(Counted') = Cardinality(Counted)
         /\ c \notin Counted /\ c \in Counted' =>
              Cardinality(Counted') = Cardinality(Counted) + 1
         /\ c \in Counted /\ c \notin Counted' =>
              /\ Cardinality(Counted') = Cardinality(Counted) - 1
              /\ Cardinality(Counted) - 1 \in Nat
<1>1. IsFiniteSet(Counted) /\ IsFiniteSet(Counted')
  BY Conns, FS_Subset DEF Counted
<1>2. Cardinality(Counted) \in Nat /\ Cardinality(Counted') \in Nat
  BY <1>1, FS_CardinalityType
<1>3. CASE c \in Counted' <=> c \in Counted
  <2>1. Counted' = Counted
    BY <1>3 DEF Counted
  <2> QED
    BY <1>2, <1>3, <2>1
<1>4. CASE c \notin Counted /\ c \in Counted'
  <2>1. Counted' = Counted \cup {c}
    BY <1>4 DEF Counted
  <2>2. Cardinality(Counted \cup {c}) = Cardinality(Counted) + 1
    BY <1>1, <1>4, FS_AddElement
  <2> QED
    BY <1>2, <1>4, <2>1, <2>2
<1>5. CASE c \in Counted /\ c \notin Counted'
  <2>1. Counted' = Counted \ {c}
    BY <1>5 DEF Counted
  <2>2. Cardinality(Counted \ {c}) = Cardinality(Counted) - 1
    BY <1>1, <1>5, FS_RemoveElement
  <2> QED
    BY <1>2, <1>5, <2>1, <2>2
<1> QED
  BY <1>3, <1>4, <1>5

-----------------------------------------------------------------------------
(* One lemma per action, each for the parts of the invariant it disturbs *)

LEMMA RefuseStep ==
  ASSUME RelayInv, NEW c \in Conn, NEW kind \in {"role-taken", "relay-full"},
         Refuse(c, kind)
  PROVE  RelayInv'
<1> USE DEF RelayInv, TypeOK
<1>1. /\ phase' \in [Conn -> Phases]
      /\ phase[c] = "away" /\ phase'[c] = "refused"
      /\ \A d \in Conn \ {c} : phase'[d] = phase[d]
  BY MoveTypes DEF Refuse, Phases
<1>2. RoomsTypeOK' /\ ConnTypeOK'
  BY <1>1 DEF Refuse, RoomsTypeOK, ConnTypeOK
<1>3. BoxTypeOK'
  <2>1. Pushed(c, Notice(kind)) \in [Conn -> Seq(Message)]
    BY PushedType, MessagesAreMessages
  <2> QED
    BY <2>1 DEF Refuse, BoxTypeOK
<1>4. MetricsTypeOK'
  BY CountType DEF Refuse, RefusalCounted, MetricsTypeOK
<1>5. SeatsAgree' /\ IsUsed(rooms)' /\ FewRooms'
  <2>1. \A d \in Conn : phase'[d] \in Seated <=> phase[d] \in Seated
    BY <1>1 DEF Seated
  <2> QED
    BY <2>1, MoveKeepsSeats DEF Refuse
<1>6. GaugeCounts'
  <2>1. c \notin Counted /\ c \notin Counted'
    BY <1>1 DEF Counted
  <2>2. Cardinality(Counted') = Cardinality(Counted)
    BY <1>1, <2>1, CountedMoves
  <2>3. metrics'.connections = metrics.connections
    BY DEF Refuse, RefusalCounted, Count, MetricsTypeOK
  <2> QED
    BY <2>2, <2>3 DEF GaugeCounts
<1> QED
  BY <1>2, <1>3, <1>4, <1>5, <1>6

LEMMA ClaimEffect ==
  ASSUME RelayInv, NEW c \in Conn, Claim(c)
  PROVE  /\ DOMAIN rooms' = DOMAIN rooms \cup {RoomOf(c)}
         /\ IsRooms(rooms')
         /\ \A room \in RoomId, role \in Role :
              At(rooms', room, role) =
                IF room = RoomOf(c) /\ role = RoleOf(c)
                  THEN c ELSE At(rooms, room, role)
<1>1. IsRooms(rooms) /\ place \in [Conn -> RoomId \X Role]
  BY DEF RelayInv, TypeOK, RoomsTypeOK, IsRooms, ConnTypeOK
<1>2. rooms' = SetSlot(rooms, c, c) /\ c \in Conn \cup {NoConn}
  BY DEF Claim
<1> QED
  <2>1. LET after == SetSlot(rooms, c, c) IN
        /\ DOMAIN after = DOMAIN rooms \cup {RoomOf(c)}
        /\ IsRooms(after)
        /\ \A room \in RoomId, role \in Role :
             At(after, room, role) =
               IF room = RoomOf(c) /\ role = RoleOf(c)
                 THEN c ELSE At(rooms, room, role)
    BY ONLY <1>1, <1>2, SetSlotEffect, c \in Conn
  <2> QED
    BY ONLY <1>2, <2>1

LEMMA ClaimStep ==
  ASSUME RelayInv, NEW c \in Conn, Claim(c)
  PROVE  RelayInv'
<1> USE DEF RelayInv, TypeOK
<1>1. /\ phase' \in [Conn -> Phases]
      /\ phase[c] = "away" /\ phase'[c] = "claimed"
      /\ \A d \in Conn \ {c} : phase'[d] = phase[d]
  BY MoveTypes DEF Claim, Phases
<1>2. /\ DOMAIN rooms' = DOMAIN rooms \cup {RoomOf(c)}
      /\ IsRooms(rooms')
      /\ \A room \in RoomId, role \in Role :
           At(rooms', room, role) =
             IF room = RoomOf(c) /\ role = RoleOf(c)
               THEN c ELSE At(rooms, room, role)
  BY ClaimEffect
<1>3. /\ place' = place /\ RoomOf(c) \in RoomId /\ RoleOf(c) \in Role
      /\ place[c] = <<RoomOf(c), RoleOf(c)>>
  BY PlaceOf DEF Claim, ConnTypeOK
<1>4. RoomsTypeOK' /\ ConnTypeOK'
  BY <1>1, <1>2 DEF Claim, RoomsTypeOK, IsRooms, ConnTypeOK
<1>5. BoxTypeOK' /\ MetricsTypeOK'
  BY DEF Claim, boxVars, BoxTypeOK, MetricsTypeOK
<1>6. SeatsAgree'
  <2> SUFFICES ASSUME NEW room \in RoomId, NEW role \in Role, NEW d \in Conn
               PROVE  At(rooms', room, role) = d <=>
                        place[d] = <<room, role>> /\ phase'[d] \in Seated
    BY <1>3 DEF SeatsAgree
  <2>1. At(rooms, RoomOf(c), RoleOf(c)) = NoConn
    BY SlotsSeen DEF Claim, SlotFree
  <2>2. At(rooms, room, role) = d <=>
          place[d] = <<room, role>> /\ phase[d] \in Seated
    BY DEF SeatsAgree
  <2>3. CASE d = c
    BY <1>1, <1>2, <1>3, <2>2, <2>3 DEF Seated
  <2>4. CASE d # c
    BY <1>1, <1>2, <2>1, <2>2, <2>4, Conns
  <2> QED
    BY <2>3, <2>4
<1>7. IsUsed(rooms)'
  BY <1>2, <1>3, Conns DEF IsUsed
<1>8. FewRooms'
  <2>1. CASE RoomOf(c) \in DOMAIN rooms
    BY <1>2, <2>1 DEF FewRooms
  <2>2. CASE RoomOf(c) \notin DOMAIN rooms
    <3>1. Cardinality(DOMAIN rooms) < MaxRooms
      BY <2>2, FS_CardinalityType, RelayAssumption
      DEF Claim, MayEnter, AtCapacity, FewRooms
    <3>2. /\ IsFiniteSet(DOMAIN rooms \cup {RoomOf(c)})
          /\ Cardinality(DOMAIN rooms \cup {RoomOf(c)})
               = Cardinality(DOMAIN rooms) + 1
      BY <2>2, FS_AddElement DEF FewRooms
    <3>3. Cardinality(DOMAIN rooms) \in Nat
      BY FS_CardinalityType DEF FewRooms
    <3> QED
      BY <1>2, <3>1, <3>2, <3>3, RelayAssumption DEF FewRooms
  <2> QED
    BY <2>1, <2>2
<1>9. GaugeCounts'
  <2>1. c \notin Counted /\ c \notin Counted'
    BY <1>1 DEF Counted
  <2> QED
    BY <1>1, <2>1, CountedMoves DEF Claim, GaugeCounts
<1> QED
  BY <1>4, <1>5, <1>6, <1>7, <1>8, <1>9

LEMMA ReleaseEffect ==
  ASSUME RelayInv, NEW c \in Conn, Release(c)
  PROVE  /\ DOMAIN rooms' \subseteq DOMAIN rooms \cup {RoomOf(c)}
         /\ IsRooms(rooms') /\ IsUsed(rooms')
         /\ \A room \in RoomId, role \in Role :
              At(rooms', room, role) =
                IF room = RoomOf(c) /\ role = RoleOf(c)
                  THEN NoConn ELSE At(rooms, room, role)
<1>1. IsRooms(rooms) /\ place \in [Conn -> RoomId \X Role]
  BY DEF RelayInv, TypeOK, RoomsTypeOK, IsRooms, ConnTypeOK
<1>2. rooms' = Vacate(rooms, c) /\ IsUsed(rooms)
  BY DEF Release, RelayInv
<1> QED
  BY ONLY <1>1, <1>2, VacateEffect, c \in Conn

LEMMA ReleaseStep ==
  ASSUME RelayInv, NEW c \in Conn, Release(c)
  PROVE  RelayInv'
<1> USE DEF RelayInv, TypeOK
<1>1. /\ phase' \in [Conn -> Phases]
      /\ phase[c] = "leaving" /\ phase'[c] = "released"
      /\ \A d \in Conn \ {c} : phase'[d] = phase[d]
  BY MoveTypes DEF Release, Phases
<1>2. /\ DOMAIN rooms' \subseteq DOMAIN rooms \cup {RoomOf(c)}
      /\ IsRooms(rooms') /\ IsUsed(rooms')
      /\ \A room \in RoomId, role \in Role :
           At(rooms', room, role) =
             IF room = RoomOf(c) /\ role = RoleOf(c)
               THEN NoConn ELSE At(rooms, room, role)
  BY ReleaseEffect
<1>3. /\ place' = place /\ RoomOf(c) \in RoomId /\ RoleOf(c) \in Role
      /\ place[c] = <<RoomOf(c), RoleOf(c)>>
  BY PlaceOf DEF Release, ConnTypeOK
<1>4. At(rooms, RoomOf(c), RoleOf(c)) = c
  BY <1>1, <1>3 DEF SeatsAgree, Seated
<1>5. RoomsTypeOK' /\ ConnTypeOK'
  BY <1>1, <1>2 DEF Release, RoomsTypeOK, IsRooms, ConnTypeOK
<1>6. BoxTypeOK'
  <2>1. Pushed(PeerOf(c), Notice("peer-left")) \in [Conn -> Seq(Message)]
    BY PeerType, PushedType, MessagesAreMessages
  <2> QED
    BY <2>1 DEF Release, Farewell, BoxTypeOK
<1>7. SeatsAgree'
  <2> SUFFICES ASSUME NEW room \in RoomId, NEW role \in Role, NEW d \in Conn
               PROVE  At(rooms', room, role) = d <=>
                        place[d] = <<room, role>> /\ phase'[d] \in Seated
    BY <1>3 DEF SeatsAgree
  <2>1. At(rooms, room, role) = d <=>
          place[d] = <<room, role>> /\ phase[d] \in Seated
    BY DEF SeatsAgree
  <2>2. CASE d = c
    BY <1>1, <1>2, <1>3, <2>1, <2>2, Conns DEF Seated
  <2>3. CASE d # c
    BY <1>1, <1>2, <1>4, <2>1, <2>3, Conns
  <2> QED
    BY <2>2, <2>3
<1>8. IsUsed(rooms)'
  BY <1>2 DEF IsUsed, At
<1>9. FewRooms'
  <2>1. RoomOf(c) \in DOMAIN rooms
    BY <1>4, Conns DEF At
  <2>2. DOMAIN rooms' \subseteq DOMAIN rooms
    BY <1>2, <2>1
  <2>3. /\ IsFiniteSet(DOMAIN rooms')
        /\ Cardinality(DOMAIN rooms') <= Cardinality(DOMAIN rooms)
    BY <2>2, FS_Subset DEF FewRooms
  <2>4. Cardinality(DOMAIN rooms) \in Nat /\ Cardinality(DOMAIN rooms') \in Nat
    BY <2>3, FS_CardinalityType DEF FewRooms
  <2> QED
    BY <2>3, <2>4, RelayAssumption DEF FewRooms
<1>10. GaugeCounts' /\ MetricsTypeOK'
  <2>1. c \in Counted /\ c \in Counted'
    BY <1>1 DEF Counted
  <2> QED
    BY <1>1, <2>1, CountedMoves DEF Release, GaugeCounts, MetricsTypeOK
<1> QED
  BY <1>5, <1>6, <1>7, <1>8, <1>9, <1>10

\* The steps between the claim and the release, which move the gauge.
LEMMA SendRegisteredStep ==
  ASSUME RelayInv, NEW c \in Conn, SendRegistered(c)
  PROVE  RelayInv'
<1> USE DEF RelayInv, TypeOK
<1>1. /\ phase' \in [Conn -> Phases]
      /\ phase[c] = "claimed" /\ phase'[c] = "registered"
      /\ \A d \in Conn \ {c} : phase'[d] = phase[d]
  BY MoveTypes DEF SendRegistered, Phases
<1>2. RoomsTypeOK' /\ ConnTypeOK'
  BY <1>1 DEF SendRegistered, RoomsTypeOK, ConnTypeOK
<1>3. BoxTypeOK'
  <2>1. Registered(found[c]) \in Message
    BY MessagesAreMessages DEF ConnTypeOK
  <2>2. Pushed(c, Registered(found[c])) \in [Conn -> Seq(Message)]
    BY <2>1, PushedType
  <2> QED
    BY <2>2 DEF SendRegistered, BoxTypeOK
<1>4. MetricsTypeOK'
  BY CountType DEF SendRegistered, MetricsTypeOK
<1>5. SeatsAgree' /\ IsUsed(rooms)' /\ FewRooms'
  <2>1. \A d \in Conn : phase'[d] \in Seated <=> phase[d] \in Seated
    BY <1>1 DEF Seated
  <2> QED
    BY <2>1, MoveKeepsSeats DEF SendRegistered
<1>6. GaugeCounts'
  <2>1. c \notin Counted /\ c \in Counted'
    BY <1>1 DEF Counted
  <2>2. Cardinality(Counted') = Cardinality(Counted) + 1
    BY <1>1, <2>1, CountedMoves
  <2>3. metrics'.connections = metrics.connections + 1
    BY DEF SendRegistered, Count, MetricsTypeOK
  <2> QED
    BY <2>2, <2>3 DEF GaugeCounts
<1> QED
  BY <1>2, <1>3, <1>4, <1>5, <1>6

LEMMA UncountStep ==
  ASSUME RelayInv, NEW c \in Conn, Uncount(c)
  PROVE  RelayInv'
<1> USE DEF RelayInv, TypeOK
<1>1. /\ phase' \in [Conn -> Phases]
      /\ phase[c] = "released" /\ phase'[c] = "gone"
      /\ \A d \in Conn \ {c} : phase'[d] = phase[d]
  BY MoveTypes DEF Uncount, Phases
<1>2. RoomsTypeOK' /\ ConnTypeOK' /\ BoxTypeOK'
  BY <1>1 DEF Uncount, boxVars, RoomsTypeOK, ConnTypeOK, BoxTypeOK
<1>3. SeatsAgree' /\ IsUsed(rooms)' /\ FewRooms'
  <2>1. \A d \in Conn : phase'[d] \in Seated <=> phase[d] \in Seated
    BY <1>1 DEF Seated
  <2> QED
    BY <2>1, MoveKeepsSeats DEF Uncount
<1>4. GaugeCounts' /\ MetricsTypeOK'
  <2>1. c \in Counted /\ c \notin Counted'
    BY <1>1 DEF Counted
  <2>2. /\ Cardinality(Counted') = Cardinality(Counted) - 1
        /\ Cardinality(Counted) - 1 \in Nat
    BY <1>1, <2>1, CountedMoves
  <2>3. metrics' = [metrics EXCEPT !.connections = Cardinality(Counted) - 1]
    BY DEF Uncount, GaugeCounts, MetricsTypeOK
  <2> QED
    BY <2>2, <2>3 DEF GaugeCounts, MetricsTypeOK
<1> QED
  BY <1>2, <1>3, <1>4

\* What moves a task within its service leaves seats and gauge as they are.
LEMMA ServingKeeps ==
  ASSUME RelayInv, NEW c \in Conn, UNCHANGED <<rooms, place>>,
         phase' \in [Conn -> Phases],
         \A d \in Conn \ {c} : phase'[d] = phase[d],
         \/ phase'[c] = phase[c]
         \/ phase[c] = "registered" /\ phase'[c] = "serving"
         \/ phase[c] = "serving" /\ phase'[c] = "leaving",
         metrics'.connections = metrics.connections
  PROVE  RoomsTypeOK' /\ SeatsAgree' /\ IsUsed(rooms)' /\ FewRooms' /\ GaugeCounts'
<1>1. \A d \in Conn : phase'[d] \in Seated <=> phase[d] \in Seated
  BY DEF Seated
<1>2. c \in Counted' <=> c \in Counted
  BY DEF Counted
<1>3. SeatsAgree' /\ IsUsed(rooms)' /\ FewRooms'
  BY <1>1, MoveKeepsSeats
<1>4. GaugeCounts'
  BY <1>2, CountedMoves DEF RelayInv, GaugeCounts
<1> QED
  BY <1>3, <1>4 DEF RelayInv, TypeOK, RoomsTypeOK

LEMMA NotifyJoinedStep ==
  ASSUME RelayInv, NEW c \in Conn, NotifyJoined(c)
  PROVE  RelayInv'
<1> USE DEF RelayInv, TypeOK
<1>1. /\ phase' \in [Conn -> Phases]
      /\ phase[c] = "registered" /\ phase'[c] = "serving"
      /\ \A d \in Conn \ {c} : phase'[d] = phase[d]
  BY MoveTypes DEF NotifyJoined, Phases
<1>2. ConnTypeOK'
  BY <1>1 DEF NotifyJoined, ConnTypeOK
<1>3. BoxTypeOK'
  <2>1. Pushed(PeerOf(c), Notice("peer-joined")) \in [Conn -> Seq(Message)]
    BY PeerType, PushedType, MessagesAreMessages
  <2> QED
    BY <2>1 DEF NotifyJoined, BoxTypeOK
<1>4. MetricsTypeOK' /\ metrics'.connections = metrics.connections
  BY CountType DEF NotifyJoined, MetricsTypeOK, Count
<1> QED
  BY <1>1, <1>2, <1>3, <1>4, ServingKeeps DEF NotifyJoined

\* The peer a text is forwarded to asked for the other role of the same room.
LEMMA PeerPlace ==
  ASSUME RelayInv, NEW c \in Conn, PeerOf(c) # NoConn
  PROVE  /\ PeerOf(c) \in Conn
         /\ place[PeerOf(c)] = <<RoomOf(c), Other(RoleOf(c))>>
<1>1. PeerOf(c) \in Conn
  BY PeerType DEF RelayInv, TypeOK
<1>2. RoomOf(c) \in RoomId /\ Other(RoleOf(c)) \in Role
  BY PlaceOf DEF RelayInv, TypeOK, ConnTypeOK
<1>3. At(rooms, RoomOf(c), Other(RoleOf(c))) = PeerOf(c)
  BY SlotsSeen DEF PeerOf
<1> QED
  BY <1>1, <1>2, <1>3 DEF RelayInv, SeatsAgree

LEMMA ForwardStep ==
  ASSUME RelayInv, NEW c \in Conn, Forward(c)
  PROVE  RelayInv'
<1> USE DEF RelayInv, TypeOK
<1>1. phase' = phase /\ phase \in [Conn -> Phases] /\ place' = place
  BY DEF Forward, ConnTypeOK
<1>2. ConnTypeOK'
  <2>1. /\ frames[c] + 1 \in 0 .. MaxFrames + 1
        /\ ~(frames[c] + 1 > MaxFrames)
    BY RelayAssumption DEF Forward, WithinBudget, ConnTypeOK
  <2> QED
    BY <2>1 DEF Forward, ConnTypeOK
<1>3. BoxTypeOK'
  <2>1. Pushed(PeerOf(c), Text(c)) \in [Conn -> Seq(Message)]
    BY PeerType, PushedType, MessagesAreMessages
  <2>2. sent' \subseteq Conn \X Conn
    BY PeerPlace DEF Forward, BoxTypeOK
  <2> QED
    BY <2>1, <2>2 DEF Forward, BoxTypeOK
<1>4. MetricsTypeOK' /\ metrics'.connections = metrics.connections
  BY CountType DEF Forward, MetricsTypeOK, Count
<1> QED
  BY <1>1, <1>2, <1>3, <1>4, ServingKeeps DEF Forward

LEMMA LeaveStep ==
  ASSUME RelayInv, NEW c \in Conn, OverBudget(c) \/ HangUp(c)
  PROVE  RelayInv'
<1> USE DEF RelayInv, TypeOK
<1>1. /\ phase' \in [Conn -> Phases]
      /\ phase[c] = "serving" /\ phase'[c] = "leaving"
      /\ \A d \in Conn \ {c} : phase'[d] = phase[d]
  BY MoveTypes DEF OverBudget, HangUp, Phases
<1>2. ConnTypeOK'
  <2>1. CASE OverBudget(c)
    <3>1. frames[c] + 1 \in 0 .. MaxFrames + 1
      BY <1>1, RelayAssumption DEF ConnTypeOK
    <3> QED
      BY <1>1, <2>1, <3>1 DEF OverBudget, ConnTypeOK
  <2>2. CASE HangUp(c)
    BY <1>1, <2>2 DEF HangUp, ConnTypeOK
  <2> QED
    BY <2>1, <2>2
<1>3. BoxTypeOK'
  BY DEF OverBudget, HangUp, boxVars, BoxTypeOK
<1>4. MetricsTypeOK' /\ metrics'.connections = metrics.connections
  BY CountType DEF OverBudget, HangUp, MetricsTypeOK, Count
<1> QED
  BY <1>1, <1>2, <1>3, <1>4, ServingKeeps DEF OverBudget, HangUp

LEMMA ClientStep ==
  ASSUME RelayInv, NEW c \in Conn, Deliver(c) \/ SocketFails(c)
  PROVE  RelayInv'
<1> USE DEF RelayInv, TypeOK
<1>1. phase' = phase /\ phase \in [Conn -> Phases] /\ metrics' = metrics
  BY DEF Deliver, SocketFails, connVars, ConnTypeOK
<1>2. ConnTypeOK' /\ MetricsTypeOK'
  BY DEF Deliver, SocketFails, connVars, ConnTypeOK, MetricsTypeOK
<1>3. BoxTypeOK'
  <2>1. CASE Deliver(c)
    <3>1. Head(outbox[c]) \in Message /\ Tail(outbox[c]) \in Seq(Message)
      BY <2>1 DEF Deliver, BoxTypeOK
    <3>2. Belief(c, Head(outbox[c])) \in BOOLEAN
      <4>1. present[c] \in BOOLEAN
        BY DEF BoxTypeOK
      <4>2. Head(outbox[c]).kind = "registered" =>
              Head(outbox[c]).present \in BOOLEAN
        BY <3>1 DEF Message
      <4> QED
        BY <4>1, <4>2 DEF Belief
    <3>3. present' \in [Conn -> BOOLEAN]
      BY <2>1, <3>2 DEF Deliver, BoxTypeOK
    <3>4. outbox' \in [Conn -> Seq(Message)]
      BY <2>1, <3>1 DEF Deliver, BoxTypeOK
    <3> QED
      BY <2>1, <3>3, <3>4 DEF Deliver, BoxTypeOK
  <2>2. CASE SocketFails(c)
    BY <2>2 DEF SocketFails, BoxTypeOK
  <2> QED
    BY <2>1, <2>2
<1> QED
  BY <1>1, <1>2, <1>3, ServingKeeps DEF Deliver, SocketFails, connVars

LEMMA RelayStep == RelayInv /\ [Next]_vars => RelayInv'
<1> SUFFICES ASSUME RelayInv, [Next]_vars PROVE RelayInv'
  OBVIOUS
<1>1. CASE UNCHANGED vars
  <2>1. Counted' = Counted
    BY <1>1 DEF vars, connVars, Counted
  <2> QED
    BY <1>1, <2>1
    DEF vars, connVars, boxVars, RelayInv, TypeOK, RoomsTypeOK, ConnTypeOK,
        BoxTypeOK, MetricsTypeOK, SeatsAgree, IsUsed, At, FewRooms,
        GaugeCounts
<1>2. ASSUME NEW c \in Conn, RelayFull(c) \/ RoleTaken(c)
      PROVE  RelayInv'
  BY <1>2, RefuseStep DEF RelayFull, RoleTaken
<1>3. ASSUME NEW c \in Conn, Serve(c)
      PROVE  RelayInv'
  BY <1>3, SendRegisteredStep, NotifyJoinedStep, LeaveStep, ReleaseStep,
     UncountStep
  DEF Serve
<1>4. ASSUME NEW c \in Conn,
             \/ Claim(c) \/ Forward(c) \/ OverBudget(c)
             \/ Deliver(c) \/ SocketFails(c)
      PROVE  RelayInv'
  BY <1>4, ClaimStep, ForwardStep, LeaveStep, ClientStep
<1> QED
  BY <1>1, <1>2, <1>3, <1>4 DEF Next

LEMMA RelayInvariant == Spec => []RelayInv
  BY InitRelayInv, RelayStep, PTL DEF Spec

-----------------------------------------------------------------------------
(* Theorems *)

\* Every variable keeps its type; in particular the gauge stays a natural
\* number, so that the unsigned counter of the code never wraps below zero.
THEOREM RelayTypeCorrect == Spec => []TypeOK
<1>1. RelayInv => TypeOK
  BY DEF RelayInv
<1> QED
  BY <1>1, RelayInvariant, PTL

\* A slot is held by one connection, from its claim to its release: nobody is
\* evicted by a later claim, and no claim leaves a slot behind.
THEOREM SlotsHaveHolders == Spec => []SlotsAreHeld
<1>1. RelayInv => SlotsAreHeld
  BY DEF RelayInv, TypeOK, RoomsTypeOK, SeatsAgree, At, SlotsAreHeld
<1> QED
  BY <1>1, RelayInvariant, PTL

\* A room lives as long as somebody holds a slot of it, and there are never
\* more than MAX_ROOMS.
THEOREM RoomsVanish == Spec => []RoomsAreInUse
<1>1. ASSUME RelayInv
      PROVE  DOMAIN rooms = {RoomOf(c) : c \in {d \in Conn : phase[d] \in Seated}}
  <2> USE <1>1 DEF RelayInv, TypeOK
  <2>1. ASSUME NEW room \in DOMAIN rooms
        PROVE  \E c \in Conn : phase[c] \in Seated /\ RoomOf(c) = room
    <3>1. room \in RoomId
      BY DEF RoomsTypeOK
    <3>2. PICK role \in Role : At(rooms, room, role) # NoConn
      BY <3>1 DEF IsUsed
    <3>3. At(rooms, room, role) \in Conn
      BY <3>1, <3>2, HolderType
    <3>4. /\ place[At(rooms, room, role)] = <<room, role>>
          /\ phase[At(rooms, room, role)] \in Seated
      BY <3>1, <3>3 DEF SeatsAgree
    <3> QED
      BY <3>3, <3>4 DEF RoomOf
  <2>2. ASSUME NEW c \in Conn, phase[c] \in Seated
        PROVE  RoomOf(c) \in DOMAIN rooms
    <3>1. RoomOf(c) \in RoomId /\ RoleOf(c) \in Role
          /\ place[c] = <<RoomOf(c), RoleOf(c)>>
      BY PlaceOf DEF ConnTypeOK
    <3>2. At(rooms, RoomOf(c), RoleOf(c)) = c
      BY <2>2, <3>1 DEF SeatsAgree
    <3> QED
      BY <3>2, Conns DEF At
  <2> QED
    BY <2>1, <2>2
<1>2. RelayInv => RoomsAreInUse
  BY <1>1 DEF RelayInv, FewRooms, RoomsAreInUse
<1> QED
  BY <1>2, RelayInvariant, PTL

\* The gauge of /metrics is the number of tasks it was raised for.
THEOREM GaugeIsExact == Spec => []GaugeCounts
<1>1. RelayInv => GaugeCounts
  BY DEF RelayInv
<1> QED
  BY <1>1, RelayInvariant, PTL

-----------------------------------------------------------------------------
(* The refinement: a relay step is a step of Seats or changes no seat *)

SeatOf == [room \in RoomId |-> IF room \in DOMAIN rooms THEN rooms[room]
                                                       ELSE NewRoom]
SpentBy == {c \in Conn : phase[c] \notin {"away", "refused"}}

LEMMA SeatsSeen ==
  ASSUME RoomsTypeOK
  PROVE  /\ SeatOf \in [RoomId -> Room]
         /\ \A room \in RoomId, role \in Role :
              SeatOf[room][role] = At(rooms, room, role)
  BY DEF RoomsTypeOK, SeatOf, At, NewRoom, Room

\* Two tables with the same slots are the same table.
LEMMA SameSeats ==
  ASSUME NEW s \in [RoomId -> Room], NEW t \in [RoomId -> Room],
         \A room \in RoomId, role \in Role : s[room][role] = t[room][role]
  PROVE  s = t
<1>1. \A room \in RoomId : s[room] = t[room]
  BY DEF Room
<1> QED
  BY <1>1

LEMMA SameRoles == Table!Role = Role /\ \A role \in Role : Table!Other(role) = Other(role)
  BY DEF Table!Role, Role, Table!Other, Other

LEMMA SeatStep ==
  ASSUME NEW c \in Conn, NEW room \in RoomId, NEW role \in Role,
         \/ Table!Sit(c, room, role) \/ Table!Leave(c, room, role)
         \/ Table!Forward(c, room, role)
  PROVE  Table!Next
  BY SameRoles, Zenon DEF Table!Next

LEMMA InitSeats == Init => Table!Init
<1> SUFFICES ASSUME Init PROVE Table!Init
  OBVIOUS
<1>1. SeatOf = [room \in RoomId |-> [role \in Table!Role |-> NoConn]]
  BY SameRoles DEF Init, SeatOf, NewRoom
<1>2. SpentBy = {} /\ sent = {}
  BY DEF Init, SpentBy
<1> QED
  BY <1>1, <1>2 DEF Table!Init, SeatOf, SpentBy

\* A step that moves no task into or out of its seat.
LEMMA SeatsUnmoved ==
  ASSUME UNCHANGED <<rooms, sent>>,
         \A c \in Conn : phase'[c] \in {"away", "refused"} <=>
                         phase[c] \in {"away", "refused"}
  PROVE  UNCHANGED Table!vars
  BY DEF Table!vars

LEMMA SeatsSeenAround ==
  ASSUME RelayInv, RelayInv'
  PROVE  /\ SeatOf \in [RoomId -> Room] /\ SeatOf' \in [RoomId -> Room]
         /\ \A r \in RoomId, o \in Role : SeatOf[r][o] = At(rooms, r, o)
         /\ \A r \in RoomId, o \in Role : SeatOf'[r][o] = At(rooms', r, o)
<1>1. RoomsTypeOK /\ RoomsTypeOK'
  BY DEF RelayInv, TypeOK
<1>2. /\ SeatOf' \in [RoomId -> Room]
      /\ \A r \in RoomId, o \in Role : SeatOf'[r][o] = At(rooms', r, o)
  BY <1>1 DEF RoomsTypeOK, SeatOf, At, NewRoom, Room
<1> QED
  BY <1>1, <1>2, SeatsSeen

LEMMA ClaimSits ==
  ASSUME RelayInv, RelayInv', NEW c \in Conn, Claim(c)
  PROVE  Table!Next
<1>1. PICK room \in RoomId, role \in Role : room = RoomOf(c) /\ role = RoleOf(c)
  BY PlaceOf DEF RelayInv, TypeOK, ConnTypeOK
<1> DEFINE expected == [SeatOf EXCEPT ![room][role] = c]
<1>2. /\ phase' \in [Conn -> Phases]
      /\ phase[c] = "away" /\ phase'[c] = "claimed"
      /\ \A d \in Conn \ {c} : phase'[d] = phase[d]
  BY MoveTypes DEF Claim, Phases, RelayInv, TypeOK
<1>3. /\ SeatOf \in [RoomId -> Room] /\ SeatOf' \in [RoomId -> Room]
      /\ \A r \in RoomId, o \in Role : SeatOf[r][o] = At(rooms, r, o)
      /\ \A r \in RoomId, o \in Role : SeatOf'[r][o] = At(rooms', r, o)
  BY SeatsSeenAround
<1>4. \A r \in RoomId, o \in Role :
        At(rooms', r, o) = IF r = room /\ o = role THEN c ELSE At(rooms, r, o)
  BY <1>1, ClaimEffect
<1>5. /\ expected \in [RoomId -> Room]
      /\ \A r \in RoomId, o \in Role :
           expected[r][o] = IF r = room /\ o = role THEN c ELSE SeatOf[r][o]
  BY <1>1, <1>3 DEF Room
<1> HIDE DEF expected
<1>6. SeatOf' = expected
  BY <1>3, <1>4, <1>5, SameSeats
<1>7. SeatOf[room][role] = NoConn
  BY <1>1, <1>3, SlotsSeen DEF Claim, SlotFree
<1>8. c \notin SpentBy /\ SpentBy' = SpentBy \cup {c} /\ sent' = sent
  BY <1>2 DEF SpentBy, Claim
<1>9. Table!Sit(c, room, role)
  BY <1>6, <1>7, <1>8 DEF Table!Sit, expected, SeatOf, SpentBy
<1> QED
  BY <1>1, <1>9, SeatStep

LEMMA ReleaseLeaves ==
  ASSUME RelayInv, RelayInv', NEW c \in Conn, Release(c)
  PROVE  Table!Next
<1>1. PICK room \in RoomId, role \in Role : room = RoomOf(c) /\ role = RoleOf(c)
  BY PlaceOf DEF RelayInv, TypeOK, ConnTypeOK
<1> DEFINE expected == [SeatOf EXCEPT ![room][role] = NoConn]
<1>2. /\ phase' \in [Conn -> Phases]
      /\ phase[c] = "leaving" /\ phase'[c] = "released"
      /\ \A d \in Conn \ {c} : phase'[d] = phase[d]
  BY MoveTypes DEF Release, Phases, RelayInv, TypeOK
<1>3. /\ SeatOf \in [RoomId -> Room] /\ SeatOf' \in [RoomId -> Room]
      /\ \A r \in RoomId, o \in Role : SeatOf[r][o] = At(rooms, r, o)
      /\ \A r \in RoomId, o \in Role : SeatOf'[r][o] = At(rooms', r, o)
  BY SeatsSeenAround
<1>4. \A r \in RoomId, o \in Role :
        At(rooms', r, o) =
          IF r = room /\ o = role THEN NoConn ELSE At(rooms, r, o)
  BY <1>1, ReleaseEffect
<1>5. /\ expected \in [RoomId -> Room]
      /\ \A r \in RoomId, o \in Role :
           expected[r][o] =
             IF r = room /\ o = role THEN NoConn ELSE SeatOf[r][o]
  BY <1>1, <1>3 DEF Room
<1> HIDE DEF expected
<1>6. SeatOf' = expected
  BY <1>3, <1>4, <1>5, SameSeats
<1>7. SeatOf[room][role] = c
  <2>1. place[c] = <<room, role>>
    BY <1>1, PlaceOf DEF RelayInv, TypeOK, ConnTypeOK
  <2>2. At(rooms, room, role) = c
    BY <1>2, <2>1 DEF RelayInv, SeatsAgree, Seated
  <2> QED
    BY <1>3, <2>2
<1>8. SpentBy' = SpentBy /\ sent' = sent
  BY <1>2 DEF SpentBy, Release
<1>9. Table!Leave(c, room, role)
  BY <1>6, <1>7, <1>8 DEF Table!Leave, expected, SeatOf, SpentBy
<1> QED
  BY <1>1, <1>9, SeatStep

LEMMA ForwardForwards ==
  ASSUME RelayInv, NEW c \in Conn, Forward(c)
  PROVE  [Table!Next]_Table!vars
<1>1. PICK room \in RoomId, role \in Role : room = RoomOf(c) /\ role = RoleOf(c)
  BY PlaceOf DEF RelayInv, TypeOK, ConnTypeOK
<1>2. RoomsTypeOK /\ place[c] = <<room, role>> /\ Other(role) \in Role
  BY <1>1, PlaceOf DEF RelayInv, TypeOK, ConnTypeOK
<1>3. UNCHANGED <<rooms, phase>>
  BY DEF Forward
<1>4. CASE PeerOf(c) = NoConn
  <2>1. sent' = sent
    BY <1>4 DEF Forward
  <2> QED
    BY <1>3, <2>1, SeatsUnmoved
<1>5. CASE PeerOf(c) # NoConn
  <2>1. SeatOf[room][Other(role)] = PeerOf(c)
    BY <1>1, <1>2, SeatsSeen, SlotsSeen DEF PeerOf
  <2>2. SeatOf[room][role] = c
    <3>1. At(rooms, room, role) = c
      BY <1>2 DEF RelayInv, SeatsAgree, Seated, Forward
    <3> QED
      BY <1>2, <3>1, SeatsSeen
  <2>3. sent' = sent \cup {<<c, PeerOf(c)>>}
    BY <1>5 DEF Forward
  <2>4. SeatOf' = SeatOf /\ SpentBy' = SpentBy
    BY <1>3 DEF SeatOf, SpentBy
  <2>5. Table!Forward(c, room, role)
    BY <1>5, <2>1, <2>2, <2>3, <2>4, SameRoles
    DEF Table!Forward, SeatOf, SpentBy
  <2> QED
    BY <2>5, SeatStep
<1> QED
  BY <1>4, <1>5

LEMMA NextSeats == RelayInv /\ RelayInv' /\ [Next]_vars => [Table!Next]_Table!vars
<1> SUFFICES ASSUME RelayInv, RelayInv', [Next]_vars
             PROVE  [Table!Next]_Table!vars
  OBVIOUS
<1> USE DEF RelayInv, TypeOK
<1>1. CASE UNCHANGED vars
  BY <1>1, SeatsUnmoved DEF vars, connVars
<1>2. ASSUME NEW c \in Conn, Claim(c) \/ Release(c)
      PROVE  [Table!Next]_Table!vars
  BY <1>2, ClaimSits, ReleaseLeaves
<1>3. ASSUME NEW c \in Conn, Forward(c)
      PROVE  [Table!Next]_Table!vars
  BY <1>3, ForwardForwards
<1>4. ASSUME NEW c \in Conn,
             \/ SendRegistered(c) \/ NotifyJoined(c) \/ HangUp(c) \/ Uncount(c)
             \/ OverBudget(c) \/ RelayFull(c) \/ RoleTaken(c)
      PROVE  [Table!Next]_Table!vars
  <2>1. \A d \in Conn : phase'[d] \in {"away", "refused"} <=>
                        phase[d] \in {"away", "refused"}
    BY <1>4
    DEF SendRegistered, NotifyJoined, HangUp, Uncount, OverBudget, RelayFull,
        RoleTaken, Refuse, MoveTo, ConnTypeOK
  <2>2. UNCHANGED <<rooms, sent>>
    BY <1>4
    DEF SendRegistered, NotifyJoined, HangUp, Uncount, OverBudget, RelayFull,
        RoleTaken, Refuse
  <2> QED
    BY <2>1, <2>2, SeatsUnmoved
<1>5. ASSUME NEW c \in Conn, Deliver(c) \/ SocketFails(c)
      PROVE  [Table!Next]_Table!vars
  BY <1>5, SeatsUnmoved DEF Deliver, SocketFails, connVars
<1> QED
  BY <1>1, <1>2, <1>3, <1>4, <1>5 DEF Next, Serve

\* Whatever the interleaving of its tasks, the relay keeps the promise of
\* Seats: one holder per seat, no eviction, texts only across a room.
THEOREM RelayKeepsSeats == Spec => TableSpec
<1>1. Init => Table!Init
  BY InitSeats
<1>2. RelayInv /\ RelayInv' /\ [Next]_vars => [Table!Next]_Table!vars
  BY NextSeats
<1> QED
  BY <1>1, <1>2, RelayInvariant, PTL DEF Spec, TableSpec, Table!Spec

-----------------------------------------------------------------------------
(* What a client comes to believe of its peer.  The argument looks ahead:    *)
(* what it will believe once everything queued for it has been delivered.    *)


\* The message makes its receiver believe v.
Tells(message, v) ==
  \/ v = TRUE /\ message.kind = "peer-joined"
  \/ v = TRUE /\ message.kind = "registered" /\ message.present = TRUE
  \/ v = FALSE /\ message.kind = "peer-left"

Silent(message) == ~Tells(message, TRUE) /\ ~Tells(message, FALSE)

\* Who believes `held` now and receives the messages of box will believe v.
EndsAt(box, held, v) ==
  \/ \E i \in DOMAIN box :
       /\ Tells(box[i], v)
       /\ \A j \in DOMAIN box : j > i => Silent(box[j])
  \/ held = v /\ \A i \in DOMAIN box : Silent(box[i])

WillBelieve(c, v) == EndsAt(outbox[c], present[c], v)

\* Between its claim and its notice, a task that found its peer has yet to
\* tell it so.
AboutToTell(d) == phase[d] \in {"claimed", "registered"} /\ found[d]

ToldOfPeer(c) ==
  /\ PeerOf(c) = NoConn =>
       WillBelieve(c, FALSE) /\ (phase[c] = "claimed" => ~found[c])
  /\ PeerOf(c) # NoConn =>
       \/ WillBelieve(c, TRUE)
       \/ AboutToTell(PeerOf(c))
       \/ phase[c] = "claimed" /\ found[c]

\* The inductive invariant: a connection that is not served yet has been told
\* nothing; one that is seated and not overtaken is, or will be, told right.
Told(c) ==
  /\ phase[c] = "away" => outbox[c] = <<>> /\ present[c] = FALSE
  /\ phase[c] \in Seated /\ writer[c] /\ ~overtaken[c] => ToldOfPeer(c)

TellInv == \A c \in Conn : Told(c)

-----------------------------------------------------------------------------
(* Looking ahead *)

LEMMA KindsTell ==
  /\ Tells(Notice("peer-joined"), TRUE) /\ Tells(Notice("peer-left"), FALSE)
  /\ Tells(Registered(TRUE), TRUE) /\ Silent(Registered(FALSE))
  /\ \A c \in Conn : Silent(Text(c))
  BY DEF Tells, Silent, Notice, Registered, Text

LEMMA LastWordCounts ==
  ASSUME NEW box \in Seq(Message), NEW message \in Message, NEW held,
         NEW v, Tells(message, v)
  PROVE  EndsAt(Append(box, message), held, v)
<1>1. /\ Len(box) + 1 \in DOMAIN Append(box, message)
      /\ Append(box, message)[Len(box) + 1] = message
      /\ \A j \in DOMAIN Append(box, message) : ~(j > Len(box) + 1)
  OBVIOUS
<1> QED
  BY <1>1 DEF EndsAt

LEMMA SilenceKeeps ==
  ASSUME NEW box \in Seq(Message), NEW message \in Message, Silent(message),
         NEW held, NEW v, EndsAt(box, held, v)
  PROVE  EndsAt(Append(box, message), held, v)
<1>1. /\ DOMAIN Append(box, message) = DOMAIN box \cup {Len(box) + 1}
      /\ Append(box, message)[Len(box) + 1] = message
      /\ \A i \in DOMAIN box : Append(box, message)[i] = box[i]
  OBVIOUS
<1> HIDE DEF Silent
<1>2. CASE \E i \in DOMAIN box : /\ Tells(box[i], v)
                                 /\ \A j \in DOMAIN box : j > i => Silent(box[j])
  BY <1>1, <1>2 DEF EndsAt
<1>3. CASE held = v /\ \A i \in DOMAIN box : Silent(box[i])
  BY <1>1, <1>3 DEF EndsAt
<1> QED
  BY <1>2, <1>3 DEF EndsAt

LEMMA DeliveryKeeps ==
  ASSUME NEW box \in Seq(Message), box # <<>>, NEW c \in Conn,
         present[c] \in BOOLEAN, NEW v \in BOOLEAN,
         EndsAt(box, present[c], v)
  PROVE  EndsAt(Tail(box), Belief(c, Head(box)), v)
<1>1. /\ Head(box) = box[1] /\ 1 \in DOMAIN box /\ Head(box) \in Message
      /\ \A i \in DOMAIN Tail(box) : i + 1 \in DOMAIN box /\ Tail(box)[i] = box[i + 1]
      /\ \A i \in DOMAIN box : i # 1 => i - 1 \in DOMAIN Tail(box)
                                        /\ Tail(box)[i - 1] = box[i]
      /\ DOMAIN box \subseteq Nat /\ DOMAIN Tail(box) \subseteq Nat
      /\ \A i \in DOMAIN box : i >= 1
  OBVIOUS
<1>2. ASSUME Tells(box[1], v) PROVE Belief(c, Head(box)) = v
  BY <1>1, <1>2 DEF Tells, Belief
<1>3. ASSUME Silent(box[1]) PROVE Belief(c, Head(box)) = present[c]
  <2>1. box[1].kind # "peer-joined" /\ box[1].kind # "peer-left"
        /\ ~(box[1].kind = "registered" /\ box[1].present = TRUE)
    BY <1>3 DEF Silent, Tells
  <2>2. box[1].kind = "registered" => box[1].present \in BOOLEAN
    BY <1>1 DEF Message
  <2> QED
    BY <1>1, <2>1, <2>2 DEF Belief
<1>4. CASE \E i \in DOMAIN box : /\ Tells(box[i], v)
                                 /\ \A j \in DOMAIN box : j > i => Silent(box[j])
  <2>1. PICK i \in DOMAIN box : /\ Tells(box[i], v)
                                /\ \A j \in DOMAIN box : j > i => Silent(box[j])
    BY <1>4
  <2>2. CASE i = 1
    <3>1. \A j \in DOMAIN Tail(box) : Silent(Tail(box)[j])
      BY <1>1, <2>1, <2>2
    <3> QED
      BY <1>2, <2>1, <2>2, <3>1 DEF EndsAt
  <2>3. CASE i # 1
    <3>1. /\ i - 1 \in DOMAIN Tail(box) /\ Tells(Tail(box)[i - 1], v)
          /\ \A j \in DOMAIN Tail(box) : j > i - 1 => Silent(Tail(box)[j])
      BY <1>1, <2>1, <2>3
    <3> QED
      BY <3>1 DEF EndsAt
  <2> QED
    BY <2>2, <2>3
<1>5. CASE present[c] = v /\ \A i \in DOMAIN box : Silent(box[i])
  <2>1. \A j \in DOMAIN Tail(box) : Silent(Tail(box)[j])
    BY <1>1, <1>5
  <2> QED
    BY <1>1, <1>3, <1>5, <2>1 DEF EndsAt
<1> QED
  BY <1>4, <1>5 DEF EndsAt

-----------------------------------------------------------------------------
(* Each step keeps every client told *)

LEMMA PeerIsSeated ==
  ASSUME RelayInv, NEW c \in Conn, PeerOf(c) # NoConn
  PROVE  /\ PeerOf(c) \in Conn /\ PeerOf(c) # c
         /\ place[PeerOf(c)] = <<RoomOf(c), Other(RoleOf(c))>>
         /\ phase[PeerOf(c)] \in Seated
<1>1. /\ RoomOf(c) \in RoomId /\ Other(RoleOf(c)) \in Role /\ RoleOf(c) \in Role
      /\ place[c] = <<RoomOf(c), RoleOf(c)>>
  BY PlaceOf DEF RelayInv, TypeOK, ConnTypeOK
<1>2. /\ PeerOf(c) \in Conn
      /\ place[PeerOf(c)] = <<RoomOf(c), Other(RoleOf(c))>>
  BY PeerPlace
<1>3. At(rooms, RoomOf(c), Other(RoleOf(c))) = PeerOf(c)
  BY SlotsSeen DEF PeerOf
<1>4. phase[PeerOf(c)] \in Seated
  BY <1>1, <1>2, <1>3 DEF RelayInv, SeatsAgree
<1>5. Other(RoleOf(c)) # RoleOf(c)
  BY <1>1 DEF Other, Role
<1> QED
  BY <1>1, <1>2, <1>4, <1>5

\* The peer of a connection has it for a peer, if it is seated.
LEMMA PeersAreMutual ==
  ASSUME RelayInv, NEW c \in Conn, NEW d \in Conn,
         phase[c] \in Seated, phase[d] \in Seated
  PROVE  PeerOf(c) = d <=> PeerOf(d) = c
<1>1. /\ RoomOf(c) \in RoomId /\ RoleOf(c) \in Role
      /\ RoomOf(d) \in RoomId /\ RoleOf(d) \in Role
      /\ Other(RoleOf(c)) \in Role /\ Other(RoleOf(d)) \in Role
      /\ place[c] = <<RoomOf(c), RoleOf(c)>>
      /\ place[d] = <<RoomOf(d), RoleOf(d)>>
  BY PlaceOf DEF RelayInv, TypeOK, ConnTypeOK
<1>2. /\ At(rooms, RoomOf(c), Other(RoleOf(c))) = PeerOf(c)
      /\ At(rooms, RoomOf(d), Other(RoleOf(d))) = PeerOf(d)
  BY SlotsSeen DEF PeerOf
<1>3. /\ PeerOf(c) = d <=> place[d] = <<RoomOf(c), Other(RoleOf(c))>>
      /\ PeerOf(d) = c <=> place[c] = <<RoomOf(d), Other(RoleOf(d))>>
  BY <1>1, <1>2 DEF RelayInv, SeatsAgree
<1>4. \A o, p \in Role : o = Other(p) <=> p = Other(o)
  BY DEF Role, Other
<1> QED
  BY <1>1, <1>3, <1>4

LEMMA InitTell == Init => TellInv
<1> SUFFICES ASSUME Init, NEW c \in Conn PROVE Told(c)
  BY DEF TellInv
<1>1. phase[c] = "away" /\ outbox[c] = <<>> /\ present[c] = FALSE
  BY DEF Init
<1> QED
  BY <1>1 DEF Told, Seated

\* A message in the box of one connection leaves the others' as they were.
LEMMA PushedEffect ==
  ASSUME BoxTypeOK, NEW d \in Conn \cup {NoConn}, NEW message \in Message,
         outbox' = Pushed(d, message)
  PROVE  \A c \in Conn :
           outbox'[c] = IF c = d /\ writer[c] THEN Append(outbox[c], message)
                                              ELSE outbox[c]
  BY Conns DEF BoxTypeOK, Pushed

\* What one more message does to what its receiver will believe.
LEMMA WordCounts ==
  ASSUME BoxTypeOK, NEW c \in Conn, NEW message \in Message,
         NEW v \in BOOLEAN, present'[c] = present[c],
         outbox'[c] = Append(outbox[c], message)
  PROVE  /\ Tells(message, v) => WillBelieve(c, v)'
         /\ Silent(message) /\ WillBelieve(c, v) => WillBelieve(c, v)'
<1>1. outbox[c] \in Seq(Message)
  BY DEF BoxTypeOK
<1>2. Tells(message, v) => EndsAt(Append(outbox[c], message), present[c], v)
  BY <1>1, LastWordCounts
<1>3. Silent(message) /\ EndsAt(outbox[c], present[c], v)
        => EndsAt(Append(outbox[c], message), present[c], v)
  BY <1>1, SilenceKeeps
<1> QED
  BY <1>2, <1>3 DEF WillBelieve

LEMMA SilenceStays ==
  ASSUME NEW c \in Conn, NEW v, UNCHANGED <<outbox[c], present[c]>>
  PROVE  WillBelieve(c, v)' <=> WillBelieve(c, v)
  BY DEF WillBelieve

\* A connection stays told by a step that leaves it its peer and says nothing
\* new to it, and by which that peer, if it is about to tell, still is.
StaysTold(d) ==
  /\ phase'[d] = "away" =>
       phase[d] = "away" /\ UNCHANGED <<outbox[d], present[d]>>
  /\ phase'[d] \in Seated /\ writer'[d] /\ ~overtaken'[d] =>
       /\ phase[d] \in Seated /\ writer[d] /\ ~overtaken[d]
       /\ phase'[d] = "claimed" <=> phase[d] = "claimed"
       /\ phase[d] = "claimed" => found'[d] = found[d]
       /\ PeerOf(d)' = PeerOf(d)
       /\ \A v \in BOOLEAN : WillBelieve(d, v) => WillBelieve(d, v)'
       /\ \A p \in Conn : p = PeerOf(d) /\ AboutToTell(p) => AboutToTell(p)'

LEMMA StaysToldSuffices ==
  ASSUME RelayInv, TellInv, NEW d \in Conn, StaysTold(d)
  PROVE  Told(d)'
<1>1. Told(d)
  BY DEF TellInv
<1>2. phase'[d] = "away" => outbox'[d] = <<>> /\ present'[d] = FALSE
  BY <1>1 DEF Told, StaysTold
<1>3. ASSUME phase'[d] \in Seated, writer'[d], ~overtaken'[d]
      PROVE  ToldOfPeer(d)'
  <2>1. /\ ToldOfPeer(d)
        /\ phase'[d] = "claimed" <=> phase[d] = "claimed"
        /\ phase[d] = "claimed" => found'[d] = found[d]
        /\ PeerOf(d)' = PeerOf(d)
        /\ WillBelieve(d, TRUE) => WillBelieve(d, TRUE)'
        /\ WillBelieve(d, FALSE) => WillBelieve(d, FALSE)'
        /\ \A p \in Conn : p = PeerOf(d) /\ AboutToTell(p) => AboutToTell(p)'
    BY <1>1, <1>3 DEF Told, StaysTold
  <2>2. PeerOf(d) # NoConn => PeerOf(d) \in Conn
    BY PeerIsSeated
  <2>3. PeerOf(d) # NoConn /\ AboutToTell(PeerOf(d)) => AboutToTell(PeerOf(d))'
    BY <2>1, <2>2 DEF AboutToTell
  <2> QED
    BY <2>1, <2>3 DEF ToldOfPeer
<1> QED
  BY <1>2, <1>3 DEF Told

LEMMA RoomsStay ==
  ASSUME UNCHANGED <<rooms, place>>, NEW d
  PROVE  PeerOf(d)' = PeerOf(d)
  BY DEF PeerOf, PeerIn, RoomOf, RoleOf

LEMMA RefuseTells ==
  ASSUME RelayInv, TellInv, NEW c \in Conn,
         NEW kind \in {"role-taken", "relay-full"}, Refuse(c, kind)
  PROVE  TellInv'
<1> SUFFICES ASSUME NEW d \in Conn PROVE StaysTold(d)
  BY StaysToldSuffices DEF TellInv
<1>1. /\ phase[c] = "away" /\ phase'[c] = "refused"
      /\ \A e \in Conn \ {c} : phase'[e] = phase[e]
  BY MoveTypes DEF Refuse, Phases, RelayInv, TypeOK
<1>2. d # c => outbox'[d] = outbox[d]
  BY PushedEffect, MessagesAreMessages DEF Refuse, RelayInv, TypeOK
<1>3. PeerOf(d)' = PeerOf(d) /\ UNCHANGED <<present, writer, overtaken, found>>
  BY RoomsStay DEF Refuse
<1>4. \A p \in Conn : AboutToTell(p) => AboutToTell(p)'
  BY <1>1, <1>3 DEF AboutToTell
<1> QED
  BY <1>1, <1>2, <1>3, <1>4, SilenceStays DEF StaysTold, Seated

\* A claim finds the peer, if any, and is seen by it: the peer of the claimer
\* had none before.
LEMMA ClaimIsSeen ==
  ASSUME RelayInv, NEW c \in Conn, Claim(c)
  PROVE  /\ PeerOf(c)' = PeerOf(c)
         /\ \A d \in Conn : phase[d] \in Seated =>
              \/ PeerOf(d)' = PeerOf(d)
              \/ PeerOf(d) = NoConn /\ PeerOf(d)' = c /\ AboutToTell(c)'
<1>1. /\ phase[c] = "away" /\ phase'[c] = "claimed" /\ place' = place
      /\ found'[c] = (PeerOf(c) # NoConn)
  BY MoveTypes DEF Claim, Phases, PeerOf, RelayInv, TypeOK, ConnTypeOK
<1>2. \A room \in RoomId, role \in Role :
        At(rooms', room, role) =
          IF room = RoomOf(c) /\ role = RoleOf(c) THEN c ELSE At(rooms, room, role)
  BY ClaimEffect
<1>3. \A e \in Conn : /\ RoomOf(e) \in RoomId /\ RoleOf(e) \in Role
                      /\ Other(RoleOf(e)) \in Role
                      /\ Other(RoleOf(e)) # RoleOf(e)
                      /\ place[e] = <<RoomOf(e), RoleOf(e)>>
  BY PlaceOf DEF RelayInv, TypeOK, ConnTypeOK, Other, Role
<1>4. \A e \in Conn : /\ PeerOf(e) = At(rooms, RoomOf(e), Other(RoleOf(e)))
                      /\ PeerOf(e)' = At(rooms', RoomOf(e), Other(RoleOf(e)))
  <2> TAKE e \in Conn
  <2>1. PeerOf(e)' = At(rooms', RoomOf(e), Other(RoleOf(e)))
    BY <1>1 DEF PeerOf, PeerIn, At, RoomOf, RoleOf
  <2> QED
    BY <2>1, SlotsSeen DEF PeerOf
<1>5. PeerOf(c)' = PeerOf(c)
  BY <1>2, <1>3, <1>4
<1>6. ASSUME NEW d \in Conn, phase[d] \in Seated, PeerOf(d)' # PeerOf(d)
      PROVE  PeerOf(d) = NoConn /\ PeerOf(d)' = c /\ AboutToTell(c)'
  <2>1. /\ RoomOf(c) = RoomOf(d) /\ RoleOf(c) = Other(RoleOf(d))
        /\ PeerOf(d)' = c
    BY <1>2, <1>3, <1>4, <1>6
  <2>2. PeerOf(d) = NoConn
    BY <1>4, <2>1, SlotsSeen DEF Claim, SlotFree
  <2>3. PeerOf(c) = d
    <3>1. At(rooms, RoomOf(d), RoleOf(d)) = d
      BY <1>3, <1>6 DEF RelayInv, SeatsAgree
    <3>2. Other(RoleOf(c)) = RoleOf(d)
      BY <1>3, <2>1 DEF Other, Role
    <3> QED
      BY <1>4, <2>1, <3>1, <3>2
  <2> QED
    BY <1>1, <2>1, <2>2, <2>3, Conns DEF AboutToTell
<1> QED
  BY <1>5, <1>6

LEMMA ClaimTells ==
  ASSUME RelayInv, TellInv, NEW c \in Conn, Claim(c)
  PROVE  TellInv'
<1>1. /\ phase[c] = "away" /\ phase'[c] = "claimed"
      /\ \A e \in Conn \ {c} : phase'[e] = phase[e]
  BY MoveTypes DEF Claim, Phases, RelayInv, TypeOK
<1>2. /\ UNCHANGED <<place, outbox, present, writer, overtaken>>
      /\ \A e \in Conn \ {c} : found'[e] = found[e]
      /\ found'[c] = (PeerOf(c) # NoConn)
  BY DEF Claim, boxVars, PeerOf, RelayInv, TypeOK, ConnTypeOK
<1>3. Told(c)'
  <2>1. PeerOf(c)' = PeerOf(c)
    BY ClaimIsSeen
  <2>2. WillBelieve(c, FALSE)'
    <3>1. outbox'[c] = <<>> /\ present'[c] = FALSE
      BY <1>1, <1>2 DEF TellInv, Told
    <3>2. EndsAt(<<>>, FALSE, FALSE)
      BY DEF EndsAt
    <3> QED
      BY <3>1, <3>2 DEF WillBelieve
  <2> QED
    BY <1>1, <1>2, <2>1, <2>2 DEF Told, ToldOfPeer
<1>4. ASSUME NEW d \in Conn, d # c PROVE Told(d)'
  <2>1. CASE phase[d] \in Seated /\ PeerOf(d)' # PeerOf(d)
    <3>1. PeerOf(d)' = c /\ AboutToTell(PeerOf(d))'
      BY <2>1, ClaimIsSeen DEF AboutToTell
    <3> QED
      BY <1>1, <1>4, <2>1, <3>1, Conns DEF Told, ToldOfPeer, Seated
  <2>2. CASE phase[d] \in Seated => PeerOf(d)' = PeerOf(d)
    <3>1. \A p \in Conn : AboutToTell(p) => AboutToTell(p)'
      BY <1>1, <1>2 DEF AboutToTell
    <3>2. \A v : WillBelieve(d, v)' <=> WillBelieve(d, v)
      BY <1>2, SilenceStays
    <3>3. StaysTold(d)
      BY <1>1, <1>2, <1>4, <2>2, <3>1, <3>2 DEF StaysTold
    <3> QED
      BY <3>3, StaysToldSuffices
  <2> QED
    BY <2>1, <2>2
<1> QED
  BY <1>3, <1>4 DEF TellInv

LEMMA SendRegisteredTells ==
  ASSUME RelayInv, TellInv, NEW c \in Conn, SendRegistered(c)
  PROVE  TellInv'
<1>1. /\ phase[c] = "claimed" /\ phase'[c] = "registered"
      /\ \A e \in Conn \ {c} : phase'[e] = phase[e]
  BY MoveTypes DEF SendRegistered, Phases, RelayInv, TypeOK
<1>2. UNCHANGED <<rooms, place, present, writer, overtaken, found>>
  BY DEF SendRegistered
<1>3. /\ found[c] \in BOOLEAN /\ Registered(found[c]) \in Message
      /\ BoxTypeOK
  BY MessagesAreMessages DEF RelayInv, TypeOK, ConnTypeOK
<1>4. \A e \in Conn :
        outbox'[e] = IF e = c /\ writer[c]
                       THEN Append(outbox[c], Registered(found[c]))
                       ELSE outbox[e]
  BY <1>3, PushedEffect DEF SendRegistered
<1>5. \A p \in Conn : AboutToTell(p) => AboutToTell(p)'
  BY <1>1, <1>2 DEF AboutToTell
<1>6. ASSUME NEW d \in Conn PROVE PeerOf(d)' = PeerOf(d)
  BY <1>2, RoomsStay
<1>7. ASSUME NEW d \in Conn, d # c PROVE Told(d)'
  <2>1. \A v : WillBelieve(d, v)' <=> WillBelieve(d, v)
    BY <1>2, <1>4, <1>7, SilenceStays
  <2>2. StaysTold(d)
    BY <1>1, <1>2, <1>4, <1>5, <1>6, <1>7, <2>1 DEF StaysTold
  <2> QED
    BY <2>2, StaysToldSuffices
<1>8. ASSUME writer[c], ~overtaken[c] PROVE ToldOfPeer(c)'
  <2>1. ToldOfPeer(c)
    BY <1>1, <1>8 DEF TellInv, Told, Seated
  <2>2. outbox'[c] = Append(outbox[c], Registered(found[c]))
    BY <1>4, <1>8
  <2>3. ASSUME NEW v \in BOOLEAN
        PROVE  /\ Tells(Registered(found[c]), v) => WillBelieve(c, v)'
               /\ Silent(Registered(found[c])) /\ WillBelieve(c, v)
                    => WillBelieve(c, v)'
    BY <1>2, <1>3, <2>2, WordCounts
  <2>4. CASE PeerOf(c) = NoConn
    BY <1>1, <1>3, <1>6, <2>1, <2>3, <2>4, KindsTell DEF ToldOfPeer
  <2>5. CASE PeerOf(c) # NoConn /\ found[c]
    BY <1>3, <1>6, <2>3, <2>5, KindsTell DEF ToldOfPeer
  <2>6. CASE PeerOf(c) # NoConn /\ ~found[c]
    <3>1. AboutToTell(PeerOf(c)) => AboutToTell(PeerOf(c))'
      BY <1>5, <1>6, <2>6, PeerIsSeated DEF AboutToTell
    <3>2. WillBelieve(c, TRUE) => WillBelieve(c, TRUE)'
      BY <1>3, <2>3, <2>6, KindsTell
    <3> QED
      BY <1>6, <2>1, <2>6, <3>1, <3>2 DEF ToldOfPeer
  <2> QED
    BY <2>4, <2>5, <2>6
<1> QED
  BY <1>1, <1>2, <1>7, <1>8 DEF TellInv, Told

\* The notice reaches whoever is the peer by then, which may not be the one
\* the claim found: either way that one is told the truth.
LEMMA NotifyJoinedTells ==
  ASSUME RelayInv, TellInv, NEW c \in Conn, NotifyJoined(c)
  PROVE  TellInv'
<1>1. /\ phase[c] = "registered" /\ phase'[c] = "serving"
      /\ \A e \in Conn \ {c} : phase'[e] = phase[e]
  BY MoveTypes DEF NotifyJoined, Phases, RelayInv, TypeOK
<1>2. /\ UNCHANGED <<rooms, place, present, writer, overtaken>>
      /\ \A e \in Conn \ {c} : found'[e] = found[e]
  BY DEF NotifyJoined, RelayInv, TypeOK, ConnTypeOK
<1>3. ASSUME NEW d \in Conn PROVE PeerOf(d)' = PeerOf(d)
  BY <1>2, RoomsStay
<1>4. \A p \in Conn \ {c} : AboutToTell(p) => AboutToTell(p)'
  BY <1>1, <1>2 DEF AboutToTell
<1>5. CASE ~found[c]
  <2> SUFFICES ASSUME NEW d \in Conn PROVE StaysTold(d)
    BY StaysToldSuffices DEF TellInv
  <2>1. outbox' = outbox /\ ~AboutToTell(c)
    BY <1>5 DEF NotifyJoined, AboutToTell
  <2>2. \A p \in Conn : AboutToTell(p) => AboutToTell(p)'
    BY <1>4, <2>1
  <2>3. \A v : WillBelieve(d, v)' <=> WillBelieve(d, v)
    BY <1>2, <2>1, SilenceStays
  <2> QED
    BY <1>1, <1>2, <1>3, <2>1, <2>2, <2>3 DEF StaysTold, Seated
<1>6. CASE found[c]
  <2>1. /\ PeerOf(c) \in Conn \cup {NoConn} /\ PeerOf(c) # c
        /\ Notice("peer-joined") \in Message /\ BoxTypeOK
    BY PeerType, PeerIsSeated, MessagesAreMessages, Conns DEF RelayInv, TypeOK
  <2>2. \A e \in Conn :
          outbox'[e] = IF e = PeerOf(c) /\ writer[e]
                         THEN Append(outbox[e], Notice("peer-joined"))
                         ELSE outbox[e]
    <3>1. outbox' = Pushed(PeerOf(c), Notice("peer-joined"))
      BY <1>6 DEF NotifyJoined
    <3> QED
      BY <2>1, <3>1, PushedEffect
  <2>3. ASSUME NEW d \in Conn, d = PeerOf(c) PROVE Told(d)'
    <3>1. phase[d] \in Seated /\ PeerOf(d) = c /\ d # c
      BY <1>1, <2>1, <2>3, PeerIsSeated, PeersAreMutual, Conns DEF Seated
    <3>2. writer[d] => WillBelieve(d, TRUE)'
      BY <1>2, <2>1, <2>2, <2>3, WordCounts, KindsTell
    <3>3. writer'[d] => ToldOfPeer(d)'
      BY <1>2, <1>3, <3>1, <3>2, Conns DEF ToldOfPeer
    <3> QED
      BY <1>1, <3>1, <3>3 DEF Told, Seated
  <2>4. ASSUME NEW d \in Conn, d # PeerOf(c) PROVE StaysTold(d)
    <3>1. /\ outbox'[d] = outbox[d]
          /\ \A v : WillBelieve(d, v)' <=> WillBelieve(d, v)
      BY <1>2, <2>2, <2>4, SilenceStays
    <3>2. phase[d] \in Seated => PeerOf(d) # c
      BY <1>1, <2>4, PeersAreMutual DEF Seated
    <3>3. phase[d] \in Seated =>
            \A p \in Conn : p = PeerOf(d) /\ AboutToTell(p) => AboutToTell(p)'
      BY <1>4, <3>2
    <3>4. /\ phase'[d] = "claimed" <=> phase[d] = "claimed"
          /\ phase'[d] = "away" <=> phase[d] = "away"
          /\ phase'[d] \in Seated <=> phase[d] \in Seated
          /\ phase[d] = "claimed" => found'[d] = found[d]
      BY <1>1, <1>2 DEF Seated
    <3> QED
      BY <1>2, <1>3, <3>1, <3>3, <3>4 DEF StaysTold
  <2> QED
    BY <2>3, <2>4, StaysToldSuffices DEF TellInv
<1> QED
  BY <1>5, <1>6

LEMMA ForwardTells ==
  ASSUME RelayInv, TellInv, NEW c \in Conn, Forward(c)
  PROVE  TellInv'
<1> SUFFICES ASSUME NEW d \in Conn PROVE StaysTold(d)
  BY StaysToldSuffices DEF TellInv
<1>1. /\ UNCHANGED <<rooms, phase, place, present, writer, overtaken, found>>
      /\ phase[c] = "serving"
  BY DEF Forward
<1>2. /\ PeerOf(c) \in Conn \cup {NoConn} /\ Text(c) \in Message /\ BoxTypeOK
      /\ Silent(Text(c))
  BY PeerType, MessagesAreMessages, KindsTell DEF RelayInv, TypeOK
<1>3. /\ d = PeerOf(c) /\ writer[d] => outbox'[d] = Append(outbox[d], Text(c))
      /\ ~(d = PeerOf(c) /\ writer[d]) => outbox'[d] = outbox[d]
  <2>1. outbox' = Pushed(PeerOf(c), Text(c))
    BY DEF Forward
  <2> QED
    BY <1>2, <2>1, PushedEffect
<1>4. ASSUME NEW v \in BOOLEAN PROVE WillBelieve(d, v) => WillBelieve(d, v)'
  <2>1. CASE outbox'[d] = Append(outbox[d], Text(c))
    BY <1>1, <1>2, <2>1, WordCounts
  <2>2. CASE outbox'[d] = outbox[d]
    BY <1>1, <2>2, SilenceStays
  <2> QED
    BY <1>3, <2>1, <2>2
<1>5. phase[d] = "away" => outbox'[d] = outbox[d]
  BY <1>1, <1>3, PeerIsSeated, Conns DEF Seated
<1>6. \A p \in Conn : AboutToTell(p) => AboutToTell(p)'
  BY <1>1 DEF AboutToTell
<1> QED
  BY <1>1, <1>4, <1>5, <1>6, RoomsStay DEF StaysTold

LEMMA LeaveTells ==
  ASSUME RelayInv, TellInv, NEW c \in Conn,
         OverBudget(c) \/ HangUp(c) \/ Uncount(c)
  PROVE  TellInv'
<1> SUFFICES ASSUME NEW d \in Conn PROVE StaysTold(d)
  BY StaysToldSuffices DEF TellInv
<1>1. /\ \/ phase[c] = "serving" /\ phase'[c] = "leaving"
         \/ phase[c] = "released" /\ phase'[c] = "gone"
      /\ \A e \in Conn \ {c} : phase'[e] = phase[e]
  BY MoveTypes DEF OverBudget, HangUp, Uncount, Phases, RelayInv, TypeOK
<1>2. UNCHANGED <<rooms, place, outbox, present, writer, overtaken, found>>
  BY DEF OverBudget, HangUp, Uncount, boxVars
<1>3. \A v : WillBelieve(d, v)' <=> WillBelieve(d, v)
  BY <1>2, SilenceStays
<1>4. \A p \in Conn : AboutToTell(p) => AboutToTell(p)'
  BY <1>1, <1>2 DEF AboutToTell
<1> QED
  BY <1>1, <1>2, <1>3, <1>4, RoomsStay DEF StaysTold, Seated

\* A release takes its peer from the peer, and nobody else's.
LEMMA ReleaseBereaves ==
  ASSUME RelayInv, NEW c \in Conn, Release(c)
  PROVE  \A e \in Conn :
           PeerOf(e)' = IF PeerOf(e) = c THEN NoConn ELSE PeerOf(e)
<1> TAKE e \in Conn
<1>1. phase[c] = "leaving" /\ place' = place
  BY DEF Release, MoveTo
<1>2. /\ RoomOf(e) \in RoomId /\ Other(RoleOf(e)) \in Role
      /\ RoomOf(c) \in RoomId /\ RoleOf(c) \in Role
      /\ place[c] = <<RoomOf(c), RoleOf(c)>>
  BY PlaceOf DEF RelayInv, TypeOK, ConnTypeOK
<1>3. PeerOf(e) = At(rooms, RoomOf(e), Other(RoleOf(e)))
  BY SlotsSeen DEF PeerOf
<1>4. PeerOf(e)' = At(rooms', RoomOf(e), Other(RoleOf(e)))
  BY <1>1 DEF PeerOf, PeerIn, At, RoomOf, RoleOf
<1>5. At(rooms', RoomOf(e), Other(RoleOf(e))) =
        IF RoomOf(e) = RoomOf(c) /\ Other(RoleOf(e)) = RoleOf(c)
          THEN NoConn ELSE At(rooms, RoomOf(e), Other(RoleOf(e)))
  BY <1>2, ReleaseEffect
<1>6. PeerOf(e) = c <=> RoomOf(e) = RoomOf(c) /\ Other(RoleOf(e)) = RoleOf(c)
  BY <1>1, <1>2, <1>3 DEF RelayInv, SeatsAgree, Seated
<1> QED
  BY <1>3, <1>4, <1>5, <1>6

\* A release tells the peer of the moment, or overtakes its "registered".
LEMMA ReleaseTells ==
  ASSUME RelayInv, TellInv, NEW c \in Conn, Release(c)
  PROVE  TellInv'
<1>1. /\ phase[c] = "leaving" /\ phase'[c] = "released"
      /\ \A e \in Conn \ {c} : phase'[e] = phase[e]
  BY MoveTypes DEF Release, Phases, RelayInv, TypeOK
<1>2. /\ UNCHANGED <<place, present, writer, found>>
      /\ \A e \in Conn :
           overtaken'[e] = (overtaken[e] \/ (e = PeerOf(c) /\ phase[e] = "claimed"))
  BY DEF Release
<1>3. /\ PeerOf(c) \in Conn \cup {NoConn}
      /\ Notice("peer-left") \in Message /\ BoxTypeOK
  BY PeerType, MessagesAreMessages DEF RelayInv, TypeOK
<1>4. \A e \in Conn :
        outbox'[e] = IF e = PeerOf(c) /\ writer[e]
                       THEN Append(outbox[e], Notice("peer-left"))
                       ELSE outbox[e]
  <2>1. outbox' = Pushed(PeerOf(c), Notice("peer-left"))
    BY DEF Release, Farewell
  <2> QED
    BY <1>3, <2>1, PushedEffect
<1>5. \A e \in Conn : PeerOf(e) # NoConn => PeerOf(e) \in Conn
  BY PeerIsSeated
<1>6. \A e \in Conn : PeerOf(e)' = IF PeerOf(e) = c THEN NoConn ELSE PeerOf(e)
  BY ReleaseBereaves
<1>7. ASSUME NEW d \in Conn, d = PeerOf(c) PROVE Told(d)'
  <2>1. /\ phase[d] \in Seated /\ d # c
        /\ PeerOf(d) = c
    BY <1>1, <1>7, PeerIsSeated, PeersAreMutual, Conns DEF Seated
  <2>2. PeerOf(d)' = NoConn
    BY <1>6, <2>1
  <2>3. writer[d] => WillBelieve(d, FALSE)'
    BY <1>2, <1>3, <1>4, <1>7, WordCounts, KindsTell
  <2>4. ~overtaken'[d] => phase[d] # "claimed"
    BY <1>2, <1>7
  <2> QED
    BY <1>1, <1>2, <2>1, <2>2, <2>3, <2>4 DEF Told, ToldOfPeer, Seated
<1>8. ASSUME NEW d \in Conn, d # PeerOf(c) PROVE StaysTold(d)
  <2>1. /\ outbox'[d] = outbox[d]
        /\ \A v : WillBelieve(d, v)' <=> WillBelieve(d, v)
    BY <1>2, <1>4, <1>8, SilenceStays
  <2>2. ~overtaken'[d] => ~overtaken[d]
    BY <1>2
  <2>3. /\ phase'[d] = "away" => phase[d] = "away"
        /\ phase'[d] \in Seated => /\ phase[d] \in Seated /\ d # c
                                   /\ phase'[d] = phase[d]
    BY <1>1 DEF Seated
  <2>4. phase[d] \in Seated => PeerOf(d)' = PeerOf(d)
    BY <1>1, <1>6, <1>8, PeersAreMutual DEF Seated
  <2>5. \A p \in Conn : AboutToTell(p) => AboutToTell(p)'
    BY <1>1, <1>2 DEF AboutToTell
  <2> QED
    BY <1>2, <2>1, <2>2, <2>3, <2>4, <2>5 DEF StaysTold
<1> QED
  BY <1>7, <1>8, StaysToldSuffices DEF TellInv

LEMMA ClientTells ==
  ASSUME RelayInv, TellInv, NEW c \in Conn, Deliver(c) \/ SocketFails(c)
  PROVE  TellInv'
<1> SUFFICES ASSUME NEW d \in Conn PROVE StaysTold(d)
  BY StaysToldSuffices DEF TellInv
<1>1. /\ UNCHANGED <<rooms, phase, place, found, overtaken>>
      /\ phase[c] # "away"
      /\ d # c => UNCHANGED <<outbox[d], present[d], writer[d]>>
  BY DEF Deliver, SocketFails, connVars, RelayInv, TypeOK, BoxTypeOK
<1>2. \A p \in Conn : AboutToTell(p) => AboutToTell(p)'
  BY <1>1 DEF AboutToTell
<1>3. CASE d # c
  <2>1. \A v : WillBelieve(d, v)' <=> WillBelieve(d, v)
    BY <1>1, <1>3, SilenceStays
  <2> QED
    BY <1>1, <1>2, <1>3, <2>1, RoomsStay DEF StaysTold
<1>4. CASE d = c /\ SocketFails(c)
  <2>1. ~writer'[c]
    BY <1>4 DEF SocketFails, RelayInv, TypeOK, BoxTypeOK
  <2> QED
    BY <1>1, <1>4, <2>1 DEF StaysTold
<1>5. CASE d = c /\ Deliver(c)
  <2>1. /\ outbox[c] \in Seq(Message) /\ outbox[c] # <<>>
        /\ present[c] \in BOOLEAN /\ writer' = writer
        /\ outbox'[c] = Tail(outbox[c])
        /\ present'[c] = Belief(c, Head(outbox[c]))
    BY <1>5 DEF Deliver, RelayInv, TypeOK, BoxTypeOK
  <2>2. ASSUME NEW v \in BOOLEAN PROVE WillBelieve(c, v) => WillBelieve(c, v)'
    BY <2>1, DeliveryKeeps DEF WillBelieve
  <2> QED
    BY <1>1, <1>2, <1>5, <2>1, <2>2, RoomsStay DEF StaysTold
<1> QED
  BY <1>3, <1>4, <1>5

LEMMA TellStep == RelayInv /\ TellInv /\ [Next]_vars => TellInv'
<1> SUFFICES ASSUME RelayInv, TellInv, [Next]_vars PROVE TellInv'
  OBVIOUS
<1>1. CASE UNCHANGED vars
  <2> SUFFICES ASSUME NEW d \in Conn PROVE StaysTold(d)
    BY StaysToldSuffices DEF TellInv
  <2>1. UNCHANGED <<rooms, phase, place, found, outbox, present, writer, overtaken>>
    BY <1>1 DEF vars, connVars, boxVars
  <2> QED
    BY <2>1, RoomsStay, SilenceStays DEF StaysTold, AboutToTell
<1>2. ASSUME NEW c \in Conn, RelayFull(c) \/ RoleTaken(c) PROVE TellInv'
  BY <1>2, RefuseTells DEF RelayFull, RoleTaken
<1>3. ASSUME NEW c \in Conn, Serve(c) PROVE TellInv'
  BY <1>3, SendRegisteredTells, NotifyJoinedTells, LeaveTells, ReleaseTells
  DEF Serve
<1>4. ASSUME NEW c \in Conn,
             \/ Claim(c) \/ Forward(c) \/ OverBudget(c)
             \/ Deliver(c) \/ SocketFails(c)
      PROVE  TellInv'
  BY <1>4, ClaimTells, ForwardTells, LeaveTells, ClientTells
<1> QED
  BY <1>1, <1>2, <1>3, <1>4 DEF Next

-----------------------------------------------------------------------------
(* Theorem *)

\* A client with nothing left to be delivered knows whether the other role of
\* its room is held, once that one's task has got past its notice; the one
\* exception is the client whose own "registered" a "peer-left" overtook.
THEOREM PresenceIsKnown == Spec => []PresenceKnown
<1>1. ASSUME RelayInv, TellInv PROVE PresenceKnown
  <2> SUFFICES ASSUME NEW c \in Conn, ~overtaken[c],
                      phase[c] = "serving", writer[c], outbox[c] = <<>>,
                      PeerOf(c) # NoConn =>
                        phase[PeerOf(c)] \notin {"claimed", "registered"}
               PROVE  present[c] = (PeerOf(c) # NoConn)
    BY DEF PresenceKnown, KnowsItsPeer, PeerOf
  <2>1. ToldOfPeer(c)
    BY <1>1 DEF TellInv, Told, Seated
  <2>2. \A v : WillBelieve(c, v) => present[c] = v
    BY DEF WillBelieve, EndsAt
  <2> QED
    BY <2>1, <2>2 DEF ToldOfPeer, AboutToTell
<1> QED
  BY <1>1, InitTell, TellStep, RelayInvariant, PTL DEF Spec

-----------------------------------------------------------------------------
(* A seat changes hands: what stands between the texts of its holders.  The  *)
(* argument follows a text while it waits: once its sender is not the peer   *)
(* any more, a "peer-left" stands behind it; once there is a new peer, that  *)
(* one's "peer-joined" does too or is about to; before that no new text does. *)

LeftSince(box, i) == \E k \in DOMAIN box : k > i /\ box[k].kind = "peer-left"

SwapSince(box, i) ==
  \E k, l \in DOMAIN box :
    i < k /\ k < l /\ box[k].kind = "peer-left" /\ box[l].kind = "peer-joined"

IsText(message) == message.kind = "text"

ToldApartIn(box) ==
  \A i, j \in DOMAIN box :
    i < j /\ IsText(box[i]) /\ IsText(box[j]) /\ box[i].from # box[j].from
      => ChangesHands(box, i, j)

\* What stands behind a text of somebody who is not the peer.
Followed(d) ==
  \A i \in DOMAIN outbox[d] :
    IsText(outbox[d][i]) /\ outbox[d][i].from # PeerOf(d) =>
      /\ LeftSince(outbox[d], i)
      /\ PeerOf(d) # NoConn =>
           AboutToTell(PeerOf(d)) \/ SwapSince(outbox[d], i)

\* The inductive invariant.
InOrder(d) ==
  /\ ToldApartIn(outbox[d])
  /\ phase[d] \in Seated => Followed(d)
  /\ ~writer[d] => outbox[d] = <<>>

OrderInv == \A d \in Conn : InOrder(d)

-----------------------------------------------------------------------------
(* A box that grows, and one that is read from *)

LEMMA Grown ==
  ASSUME NEW box \in Seq(Message), NEW message \in Message
  PROVE  LET new == Append(box, message) IN
         /\ DOMAIN new = DOMAIN box \cup {Len(box) + 1}
         /\ Len(box) + 1 \notin DOMAIN box /\ new[Len(box) + 1] = message
         /\ \A i \in DOMAIN box : new[i] = box[i] /\ i < Len(box) + 1
         /\ DOMAIN box \subseteq Nat /\ Len(box) + 1 \in Nat
  OBVIOUS

\* What stands behind a text goes on standing there, and a notice joins it.
LEMMA GrownSince ==
  ASSUME NEW box \in Seq(Message), NEW message \in Message,
         NEW i \in DOMAIN box
  PROVE  LET new == Append(box, message) IN
         /\ LeftSince(box, i) => LeftSince(new, i)
         /\ SwapSince(box, i) => SwapSince(new, i)
         /\ message.kind = "peer-left" => LeftSince(new, i)
         /\ message.kind = "peer-joined" /\ LeftSince(box, i) => SwapSince(new, i)
<1> DEFINE new == Append(box, message)
<1>1. /\ DOMAIN new = DOMAIN box \cup {Len(box) + 1}
      /\ new[Len(box) + 1] = message
      /\ \A k \in DOMAIN box : new[k] = box[k] /\ k < Len(box) + 1
      /\ DOMAIN box \subseteq Nat /\ Len(box) + 1 \in Nat
  BY Grown
<1> HIDE DEF new
<1>2. LeftSince(box, i) => LeftSince(new, i)
  BY <1>1 DEF LeftSince
<1>3. SwapSince(box, i) => SwapSince(new, i)
  BY <1>1 DEF SwapSince
<1>4. message.kind = "peer-left" => LeftSince(new, i)
  BY <1>1 DEF LeftSince
<1>5. message.kind = "peer-joined" /\ LeftSince(box, i) => SwapSince(new, i)
  BY <1>1 DEF LeftSince, SwapSince
<1> QED
  BY <1>2, <1>3, <1>4, <1>5 DEF new

\* A text may follow when the change of hands already stands behind every text
\* of another sender.
LEMMA GrownApart ==
  ASSUME NEW box \in Seq(Message), NEW message \in Message, ToldApartIn(box),
         IsText(message) =>
           \A i \in DOMAIN box :
             IsText(box[i]) /\ box[i].from # message.from => SwapSince(box, i)
  PROVE  ToldApartIn(Append(box, message))
<1> DEFINE new == Append(box, message)
<1>1. /\ DOMAIN new = DOMAIN box \cup {Len(box) + 1}
      /\ new[Len(box) + 1] = message
      /\ \A k \in DOMAIN box : new[k] = box[k] /\ k < Len(box) + 1
      /\ DOMAIN box \subseteq Nat /\ Len(box) + 1 \in Nat
      /\ \A i, j \in DOMAIN box : \A k \in i .. j : k \in DOMAIN box
  BY Grown
<1> HIDE DEF new
<1> SUFFICES ASSUME NEW i \in DOMAIN new, NEW j \in DOMAIN new, i < j,
                    IsText(new[i]), IsText(new[j]), new[i].from # new[j].from
             PROVE  ChangesHands(new, i, j)
  BY DEF ToldApartIn, new
<1>2. i \in DOMAIN box /\ new[i] = box[i]
  BY <1>1
<1>3. CASE j \in DOMAIN box
  <2>1. ChangesHands(box, i, j)
    BY <1>1, <1>2, <1>3 DEF ToldApartIn
  <2> QED
    BY <1>1, <1>2, <1>3, <2>1 DEF ChangesHands
<1>4. CASE j = Len(box) + 1
  <2>1. PICK k, l \in DOMAIN box :
          /\ i < k /\ k < l
          /\ box[k].kind = "peer-left" /\ box[l].kind = "peer-joined"
    BY <1>1, <1>2, <1>4 DEF SwapSince
  <2>2. k \in i .. j /\ l \in i .. j
    BY <1>1, <1>2, <1>4, <2>1
  <2> QED
    BY <1>1, <2>1, <2>2 DEF ChangesHands
<1> QED
  BY <1>1, <1>3, <1>4

\* A delivery moves what is left one place forward.
LEMMA ReadSince ==
  ASSUME NEW box \in Seq(Message), box # <<>>
  PROVE  /\ ToldApartIn(box) => ToldApartIn(Tail(box))
         /\ \A i \in DOMAIN Tail(box) :
              /\ i + 1 \in DOMAIN box /\ Tail(box)[i] = box[i + 1]
              /\ LeftSince(box, i + 1) => LeftSince(Tail(box), i)
              /\ SwapSince(box, i + 1) => SwapSince(Tail(box), i)
<1> DEFINE rest == Tail(box)
<1>1. /\ \A i \in DOMAIN rest : i + 1 \in DOMAIN box /\ rest[i] = box[i + 1]
      /\ \A k \in DOMAIN box : k # 1 => /\ k - 1 \in DOMAIN rest
                                        /\ rest[k - 1] = box[k]
      /\ DOMAIN box \subseteq Nat /\ DOMAIN rest \subseteq Nat
      /\ \A k \in DOMAIN box : k >= 1
      /\ \A i \in DOMAIN rest : i >= 1
      /\ \A i, j \in DOMAIN box : \A k \in i .. j : k \in DOMAIN box /\ k \in Nat
  OBVIOUS
<1> HIDE DEF rest
<1>2. ASSUME NEW i \in DOMAIN rest
      PROVE  /\ LeftSince(box, i + 1) => LeftSince(rest, i)
             /\ SwapSince(box, i + 1) => SwapSince(rest, i)
  <2>1. ASSUME LeftSince(box, i + 1) PROVE LeftSince(rest, i)
    <3>1. PICK k \in DOMAIN box : k > i + 1 /\ box[k].kind = "peer-left"
      BY <2>1 DEF LeftSince
    <3>2. k - 1 \in DOMAIN rest /\ rest[k - 1] = box[k] /\ k - 1 > i
      BY <1>1, <3>1
    <3> QED
      BY <3>1, <3>2 DEF LeftSince
  <2>2. ASSUME SwapSince(box, i + 1) PROVE SwapSince(rest, i)
    <3>1. PICK k, l \in DOMAIN box :
            /\ i + 1 < k /\ k < l
            /\ box[k].kind = "peer-left" /\ box[l].kind = "peer-joined"
      BY <2>2 DEF SwapSince
    <3>2. /\ k - 1 \in DOMAIN rest /\ rest[k - 1] = box[k] /\ i < k - 1
          /\ l - 1 \in DOMAIN rest /\ rest[l - 1] = box[l] /\ k - 1 < l - 1
      BY <1>1, <3>1
    <3> QED
      BY <3>1, <3>2 DEF SwapSince
  <2> QED
    BY <2>1, <2>2
<1>3. ASSUME ToldApartIn(box), NEW i \in DOMAIN rest, NEW j \in DOMAIN rest,
             i < j, IsText(rest[i]), IsText(rest[j]), rest[i].from # rest[j].from
      PROVE  ChangesHands(rest, i, j)
  <2>1. ChangesHands(box, i + 1, j + 1)
    BY <1>1, <1>3 DEF ToldApartIn
  <2>2. PICK k, l \in (i + 1) .. (j + 1) :
          k < l /\ box[k].kind = "peer-left" /\ box[l].kind = "peer-joined"
    BY <2>1 DEF ChangesHands
  <2>3. /\ i \in Nat /\ j \in Nat /\ i >= 1
        /\ i + 1 \in DOMAIN box /\ j + 1 \in DOMAIN box
    BY <1>1
  <2>4. /\ k \in DOMAIN box /\ k # 1 /\ l \in DOMAIN box /\ l # 1
        /\ k - 1 \in i .. j /\ l - 1 \in i .. j /\ k - 1 < l - 1
    BY <1>1, <2>2, <2>3
  <2>5. rest[k - 1] = box[k] /\ rest[l - 1] = box[l]
    BY <1>1, <2>4
  <2> QED
    BY <2>2, <2>4, <2>5 DEF ChangesHands
<1> QED
  BY <1>1, <1>2, <1>3 DEF ToldApartIn, rest

-----------------------------------------------------------------------------
(* Each step keeps every box in order *)

LEMMA InitOrder == Init => OrderInv
  BY DEF Init, OrderInv, InOrder, ToldApartIn, Seated

LEMMA SendersAreConns ==
  ASSUME BoxTypeOK, NEW d \in Conn, NEW i \in DOMAIN outbox[d],
         IsText(outbox[d][i])
  PROVE  outbox[d][i].from \in Conn
<1>1. outbox[d][i] \in Message
  BY DEF BoxTypeOK
<1> QED
  BY <1>1 DEF Message, IsText

\* A box stays in order by a step that leaves it as it is or adds a notice,
\* and leaves its owner the peer, which goes on being about to tell.
StaysInOrder(d) ==
  /\ writer'[d] = writer[d]
  /\ phase'[d] \in Seated =>
       /\ phase[d] \in Seated /\ PeerOf(d)' = PeerOf(d)
       /\ \A p \in Conn : p = PeerOf(d) /\ AboutToTell(p) => AboutToTell(p)'
  /\ \/ outbox'[d] = outbox[d]
     \/ /\ writer[d]
        /\ \E message \in Message : /\ ~IsText(message)
                                   /\ outbox'[d] = Append(outbox[d], message)

LEMMA StaysInOrderSuffices ==
  ASSUME RelayInv, OrderInv, NEW d \in Conn, StaysInOrder(d)
  PROVE  InOrder(d)'
<1>1. InOrder(d) /\ outbox[d] \in Seq(Message)
  BY DEF OrderInv, RelayInv, TypeOK, BoxTypeOK
<1>2. phase'[d] \in Seated /\ PeerOf(d)' # NoConn /\ AboutToTell(PeerOf(d))
        => AboutToTell(PeerOf(d))'
  <2>1. PeerOf(d) # NoConn => PeerOf(d) \in Conn
    BY PeerIsSeated
  <2> QED
    BY <2>1 DEF StaysInOrder, AboutToTell
<1>3. CASE outbox'[d] = outbox[d]
  <2>1. phase'[d] \in Seated => Followed(d)'
    BY <1>1, <1>2, <1>3 DEF StaysInOrder, InOrder, Followed
  <2> QED
    BY <1>1, <1>3, <2>1 DEF StaysInOrder, InOrder
<1>4. CASE writer[d] /\ outbox'[d] # outbox[d]
  <2>1. PICK message \in Message : /\ ~IsText(message)
                                  /\ outbox'[d] = Append(outbox[d], message)
    BY <1>4 DEF StaysInOrder
  <2>2. ToldApartIn(outbox'[d])
    BY <1>1, <2>1, GrownApart DEF InOrder
  <2>3. ASSUME phase'[d] \in Seated, NEW i \in DOMAIN outbox'[d],
               IsText(outbox'[d][i]), outbox'[d][i].from # PeerOf(d)'
        PROVE  /\ LeftSince(outbox'[d], i)
               /\ PeerOf(d)' # NoConn =>
                    AboutToTell(PeerOf(d))' \/ SwapSince(outbox'[d], i)
    <3>1. i \in DOMAIN outbox[d] /\ outbox'[d][i] = outbox[d][i]
      BY <1>1, <2>1, <2>3, Grown
    <3>2. /\ LeftSince(outbox[d], i)
          /\ PeerOf(d) # NoConn =>
               AboutToTell(PeerOf(d)) \/ SwapSince(outbox[d], i)
      BY <1>1, <2>3, <3>1 DEF StaysInOrder, InOrder, Followed
    <3> QED
      BY <1>1, <1>2, <2>1, <2>3, <3>1, <3>2, GrownSince DEF StaysInOrder
  <2>4. phase'[d] \in Seated => Followed(d)'
    BY <2>3 DEF Followed
  <2> QED
    BY <1>4, <2>2, <2>4 DEF InOrder, StaysInOrder
<1> QED
  BY <1>3, <1>4 DEF StaysInOrder

LEMMA RefuseOrders ==
  ASSUME RelayInv, OrderInv, NEW c \in Conn,
         NEW kind \in {"role-taken", "relay-full"}, Refuse(c, kind)
  PROVE  OrderInv'
<1> SUFFICES ASSUME NEW d \in Conn PROVE StaysInOrder(d)
  BY StaysInOrderSuffices DEF OrderInv
<1>1. /\ phase[c] = "away" /\ phase'[c] = "refused"
      /\ \A e \in Conn \ {c} : phase'[e] = phase[e]
  BY MoveTypes DEF Refuse, Phases, RelayInv, TypeOK
<1>2. Notice(kind) \in Message /\ ~IsText(Notice(kind))
  BY MessagesAreMessages DEF IsText, Notice
<1>3. outbox'[d] = IF d = c /\ writer[d] THEN Append(outbox[d], Notice(kind))
                                        ELSE outbox[d]
  BY <1>2, PushedEffect DEF Refuse, RelayInv, TypeOK
<1>4. PeerOf(d)' = PeerOf(d) /\ UNCHANGED <<writer, found>>
  BY RoomsStay DEF Refuse
<1>5. \A p \in Conn : AboutToTell(p) => AboutToTell(p)'
  BY <1>1, <1>4 DEF AboutToTell
<1> QED
  BY <1>1, <1>2, <1>3, <1>4, <1>5 DEF StaysInOrder, Seated

\* Who claims the seat of one that left is about to tell of itself.
LEMMA ClaimOrders ==
  ASSUME RelayInv, TellInv, OrderInv, NEW c \in Conn, Claim(c)
  PROVE  OrderInv'
<1>1. /\ phase[c] = "away" /\ phase'[c] = "claimed"
      /\ \A e \in Conn \ {c} : phase'[e] = phase[e]
  BY MoveTypes DEF Claim, Phases, RelayInv, TypeOK
<1>2. /\ UNCHANGED <<outbox, writer>>
      /\ \A e \in Conn \ {c} : found'[e] = found[e]
  BY DEF Claim, boxVars, RelayInv, TypeOK, ConnTypeOK
<1>3. InOrder(c)'
  <2>1. outbox'[c] = <<>>
    BY <1>1, <1>2 DEF TellInv, Told
  <2> QED
    BY <2>1 DEF InOrder, ToldApartIn, Followed
<1>4. ASSUME NEW d \in Conn, d # c PROVE InOrder(d)'
  <2>1. CASE phase[d] \in Seated => PeerOf(d)' = PeerOf(d)
    <3>1. \A p \in Conn : AboutToTell(p) => AboutToTell(p)'
      BY <1>1, <1>2 DEF AboutToTell
    <3>2. StaysInOrder(d)
      BY <1>1, <1>2, <1>4, <2>1, <3>1 DEF StaysInOrder
    <3> QED
      BY <3>2, StaysInOrderSuffices
  <2>2. CASE phase[d] \in Seated /\ PeerOf(d)' # PeerOf(d)
    <3>1. PeerOf(d) = NoConn /\ AboutToTell(PeerOf(d))'
      BY <2>2, ClaimIsSeen DEF AboutToTell
    <3>2. \A i \in DOMAIN outbox[d] :
            IsText(outbox[d][i]) => LeftSince(outbox[d], i)
      BY <2>2, <3>1, SendersAreConns, Conns
      DEF OrderInv, InOrder, Followed, RelayInv, TypeOK
    <3>3. Followed(d)'
      BY <1>2, <3>1, <3>2 DEF Followed
    <3> QED
      BY <1>2, <3>3 DEF OrderInv, InOrder
  <2> QED
    BY <2>1, <2>2
<1> QED
  BY <1>3, <1>4 DEF OrderInv

LEMMA SendRegisteredOrders ==
  ASSUME RelayInv, OrderInv, NEW c \in Conn, SendRegistered(c)
  PROVE  OrderInv'
<1> SUFFICES ASSUME NEW d \in Conn PROVE StaysInOrder(d)
  BY StaysInOrderSuffices DEF OrderInv
<1>1. /\ phase[c] = "claimed" /\ phase'[c] = "registered"
      /\ \A e \in Conn \ {c} : phase'[e] = phase[e]
  BY MoveTypes DEF SendRegistered, Phases, RelayInv, TypeOK
<1>2. UNCHANGED <<rooms, place, writer, found>>
  BY DEF SendRegistered
<1>3. /\ Registered(found[c]) \in Message /\ ~IsText(Registered(found[c]))
  BY MessagesAreMessages DEF RelayInv, TypeOK, ConnTypeOK, IsText, Registered
<1>4. outbox'[d] = IF d = c /\ writer[d]
                     THEN Append(outbox[d], Registered(found[c]))
                     ELSE outbox[d]
  BY <1>3, PushedEffect DEF SendRegistered, RelayInv, TypeOK
<1>5. \A p \in Conn : AboutToTell(p) => AboutToTell(p)'
  BY <1>1, <1>2 DEF AboutToTell
<1> QED
  BY <1>1, <1>2, <1>3, <1>4, <1>5, RoomsStay DEF StaysInOrder, Seated

\* The notice completes what stands behind the texts of those who left.
LEMMA NotifyJoinedOrders ==
  ASSUME RelayInv, OrderInv, NEW c \in Conn, NotifyJoined(c)
  PROVE  OrderInv'
<1> SUFFICES ASSUME NEW d \in Conn PROVE InOrder(d)'
  BY DEF OrderInv
<1>1. /\ phase[c] = "registered" /\ phase'[c] = "serving"
      /\ \A e \in Conn \ {c} : phase'[e] = phase[e]
  BY MoveTypes DEF NotifyJoined, Phases, RelayInv, TypeOK
<1>2. /\ UNCHANGED <<rooms, place, writer>>
      /\ \A e \in Conn \ {c} : found'[e] = found[e]
      /\ PeerOf(d)' = PeerOf(d)
  BY RoomsStay DEF NotifyJoined, RelayInv, TypeOK, ConnTypeOK
<1>3. \A p \in Conn \ {c} : AboutToTell(p) => AboutToTell(p)'
  BY <1>1, <1>2 DEF AboutToTell
<1>4. InOrder(d) /\ outbox[d] \in Seq(Message)
  BY DEF OrderInv, RelayInv, TypeOK, BoxTypeOK
<1>5. CASE ~found[c]
  <2>1. outbox' = outbox /\ ~AboutToTell(c)
    BY <1>5 DEF NotifyJoined, AboutToTell
  <2>2. StaysInOrder(d)
    BY <1>1, <1>2, <1>3, <2>1 DEF StaysInOrder, Seated
  <2> QED
    BY <2>2, StaysInOrderSuffices
<1>6. CASE found[c]
  <2>1. /\ PeerOf(c) \in Conn \cup {NoConn} /\ BoxTypeOK
        /\ Notice("peer-joined") \in Message /\ ~IsText(Notice("peer-joined"))
        /\ Notice("peer-joined").kind = "peer-joined"
    BY PeerType, MessagesAreMessages DEF RelayInv, TypeOK, IsText, Notice
  <2>2. outbox'[d] = IF d = PeerOf(c) /\ writer[d]
                       THEN Append(outbox[d], Notice("peer-joined"))
                       ELSE outbox[d]
    <3>1. outbox' = Pushed(PeerOf(c), Notice("peer-joined"))
      BY <1>6 DEF NotifyJoined
    <3> QED
      BY <2>1, <3>1, PushedEffect
  <2>3. CASE d = PeerOf(c) /\ writer[d]
    <3>1. /\ phase[d] \in Seated /\ phase'[d] \in Seated
          /\ outbox'[d] = Append(outbox[d], Notice("peer-joined"))
      BY <1>1, <2>2, <2>3, PeerIsSeated, Conns DEF Seated
    <3>2. ToldApartIn(outbox'[d])
      BY <1>4, <2>1, <3>1, GrownApart DEF InOrder
    <3>3. ASSUME NEW i \in DOMAIN outbox'[d],
                 IsText(outbox'[d][i]), outbox'[d][i].from # PeerOf(d)
          PROVE  LeftSince(outbox'[d], i) /\ SwapSince(outbox'[d], i)
      <4>1. i \in DOMAIN outbox[d] /\ outbox'[d][i] = outbox[d][i]
        BY <1>4, <2>1, <3>1, <3>3, Grown
      <4>2. LeftSince(outbox[d], i)
        BY <1>4, <3>1, <3>3, <4>1 DEF InOrder, Followed
      <4> QED
        BY <1>4, <2>1, <3>1, <4>1, <4>2, GrownSince
    <3>4. Followed(d)'
      BY <1>2, <3>3 DEF Followed
    <3> QED
      BY <1>2, <2>3, <3>2, <3>4 DEF InOrder
  <2>4. CASE d = PeerOf(c) /\ ~writer[d]
    <3>1. outbox'[d] = <<>>
      BY <1>4, <2>2, <2>4 DEF InOrder
    <3> QED
      BY <3>1 DEF InOrder, ToldApartIn, Followed
  <2>5. CASE d # PeerOf(c)
    <3>1. phase[d] \in Seated => PeerOf(d) # c
      BY <1>1, <2>5, PeersAreMutual DEF Seated
    <3>2. phase[d] \in Seated =>
            \A p \in Conn : p = PeerOf(d) /\ AboutToTell(p) => AboutToTell(p)'
      BY <1>3, <3>1
    <3>3. StaysInOrder(d)
      BY <1>1, <1>2, <2>2, <2>5, <3>2 DEF StaysInOrder, Seated
    <3> QED
      BY <3>3, StaysInOrderSuffices
  <2> QED
    BY <2>3, <2>4, <2>5
<1> QED
  BY <1>5, <1>6

\* A text is forwarded by a task that has told of itself already.
LEMMA ForwardOrders ==
  ASSUME RelayInv, OrderInv, NEW c \in Conn, Forward(c)
  PROVE  OrderInv'
<1> SUFFICES ASSUME NEW d \in Conn PROVE InOrder(d)'
  BY DEF OrderInv
<1>1. /\ UNCHANGED <<rooms, phase, place, writer, found>>
      /\ phase[c] = "serving" /\ PeerOf(d)' = PeerOf(d)
  BY RoomsStay DEF Forward
<1>2. /\ PeerOf(c) \in Conn \cup {NoConn} /\ BoxTypeOK
      /\ Text(c) \in Message /\ Text(c).from = c
  BY PeerType, MessagesAreMessages DEF RelayInv, TypeOK, Text
<1>3. outbox'[d] = IF d = PeerOf(c) /\ writer[d] THEN Append(outbox[d], Text(c))
                                                ELSE outbox[d]
  <2>1. outbox' = Pushed(PeerOf(c), Text(c))
    BY DEF Forward
  <2> QED
    BY <1>2, <2>1, PushedEffect
<1>4. CASE ~(d = PeerOf(c) /\ writer[d])
  <2>1. StaysInOrder(d)
    BY <1>1, <1>3, <1>4 DEF StaysInOrder, AboutToTell
  <2> QED
    BY <2>1, StaysInOrderSuffices
<1>5. CASE d = PeerOf(c) /\ writer[d]
  <2>1. /\ InOrder(d) /\ outbox[d] \in Seq(Message)
        /\ outbox'[d] = Append(outbox[d], Text(c))
    BY <1>2, <1>3, <1>5 DEF OrderInv, BoxTypeOK
  <2>2. phase[d] \in Seated /\ PeerOf(d) = c /\ ~AboutToTell(c)
    BY <1>1, <1>5, PeerIsSeated, PeersAreMutual, Conns DEF Seated, AboutToTell
  <2>3. \A i \in DOMAIN outbox[d] :
          IsText(outbox[d][i]) /\ outbox[d][i].from # c =>
            LeftSince(outbox[d], i) /\ SwapSince(outbox[d], i)
    BY <2>1, <2>2, Conns DEF InOrder, Followed
  <2>4. ToldApartIn(outbox'[d])
    BY <1>2, <2>1, <2>3, GrownApart DEF InOrder
  <2>5. ASSUME NEW i \in DOMAIN outbox'[d],
               IsText(outbox'[d][i]), outbox'[d][i].from # c
        PROVE  LeftSince(outbox'[d], i) /\ SwapSince(outbox'[d], i)
    <3>1. i \in DOMAIN outbox[d] /\ outbox'[d][i] = outbox[d][i]
      BY <1>2, <2>1, <2>5, Grown
    <3> QED
      BY <1>2, <2>1, <2>3, <2>5, <3>1, GrownSince
  <2>6. Followed(d)'
    BY <1>1, <2>2, <2>5 DEF Followed
  <2> QED
    BY <1>1, <1>5, <2>4, <2>6 DEF InOrder
<1> QED
  BY <1>4, <1>5

LEMMA LeaveOrders ==
  ASSUME RelayInv, OrderInv, NEW c \in Conn,
         OverBudget(c) \/ HangUp(c) \/ Uncount(c)
  PROVE  OrderInv'
<1> SUFFICES ASSUME NEW d \in Conn PROVE StaysInOrder(d)
  BY StaysInOrderSuffices DEF OrderInv
<1>1. /\ \/ phase[c] = "serving" /\ phase'[c] = "leaving"
         \/ phase[c] = "released" /\ phase'[c] = "gone"
      /\ \A e \in Conn \ {c} : phase'[e] = phase[e]
  BY MoveTypes DEF OverBudget, HangUp, Uncount, Phases, RelayInv, TypeOK
<1>2. UNCHANGED <<rooms, place, outbox, writer, found>>
  BY DEF OverBudget, HangUp, Uncount, boxVars
<1>3. \A p \in Conn : AboutToTell(p) => AboutToTell(p)'
  BY <1>1, <1>2 DEF AboutToTell
<1> QED
  BY <1>1, <1>2, <1>3, RoomsStay DEF StaysInOrder, Seated

\* The farewell stands behind every text the leaver ever sent.
LEMMA ReleaseOrders ==
  ASSUME RelayInv, OrderInv, NEW c \in Conn, Release(c)
  PROVE  OrderInv'
<1> SUFFICES ASSUME NEW d \in Conn PROVE InOrder(d)'
  BY DEF OrderInv
<1>1. /\ phase[c] = "leaving" /\ phase'[c] = "released"
      /\ \A e \in Conn \ {c} : phase'[e] = phase[e]
  BY MoveTypes DEF Release, Phases, RelayInv, TypeOK
<1>2. /\ UNCHANGED <<place, writer, found>>
      /\ PeerOf(d)' = IF PeerOf(d) = c THEN NoConn ELSE PeerOf(d)
  BY ReleaseBereaves DEF Release
<1>3. /\ PeerOf(c) \in Conn \cup {NoConn} /\ BoxTypeOK
      /\ Notice("peer-left") \in Message /\ ~IsText(Notice("peer-left"))
      /\ Notice("peer-left").kind = "peer-left"
  BY PeerType, MessagesAreMessages DEF RelayInv, TypeOK, IsText, Notice
<1>4. outbox'[d] = IF d = PeerOf(c) /\ writer[d]
                     THEN Append(outbox[d], Notice("peer-left"))
                     ELSE outbox[d]
  <2>1. outbox' = Pushed(PeerOf(c), Notice("peer-left"))
    BY DEF Release, Farewell
  <2> QED
    BY <1>3, <2>1, PushedEffect
<1>5. InOrder(d) /\ outbox[d] \in Seq(Message)
  BY <1>3 DEF OrderInv, BoxTypeOK
<1>6. CASE d = PeerOf(c) /\ writer[d]
  <2>1. PeerOf(d)' = NoConn
    BY <1>1, <1>2, <1>6, PeerIsSeated, PeersAreMutual, Conns DEF Seated
  <2>2. outbox'[d] = Append(outbox[d], Notice("peer-left"))
    BY <1>4, <1>6
  <2>3. ToldApartIn(outbox'[d])
    BY <1>3, <1>5, <2>2, GrownApart DEF InOrder
  <2>4. ASSUME NEW i \in DOMAIN outbox'[d], IsText(outbox'[d][i])
        PROVE  LeftSince(outbox'[d], i)
    <3>1. i \in DOMAIN outbox[d]
      BY <1>3, <1>5, <2>2, <2>4, Grown
    <3> QED
      BY <1>3, <1>5, <2>2, <3>1, GrownSince
  <2>5. Followed(d)'
    BY <2>1, <2>4 DEF Followed
  <2> QED
    BY <1>2, <1>6, <2>3, <2>5 DEF InOrder
<1>7. CASE d = PeerOf(c) /\ ~writer[d]
  <2>1. outbox'[d] = <<>>
    BY <1>4, <1>5, <1>7 DEF InOrder
  <2> QED
    BY <2>1 DEF InOrder, ToldApartIn, Followed
<1>8. CASE d # PeerOf(c)
  <2>1. phase'[d] \in Seated => phase[d] \in Seated /\ PeerOf(d) # c
    BY <1>1, <1>8, PeersAreMutual DEF Seated
  <2>2. \A p \in Conn : AboutToTell(p) => AboutToTell(p)'
    BY <1>1, <1>2 DEF AboutToTell
  <2>3. StaysInOrder(d)
    BY <1>2, <1>4, <1>8, <2>1, <2>2 DEF StaysInOrder
  <2> QED
    BY <2>3, StaysInOrderSuffices
<1> QED
  BY <1>6, <1>7, <1>8

LEMMA ClientOrders ==
  ASSUME RelayInv, OrderInv, NEW c \in Conn, Deliver(c) \/ SocketFails(c)
  PROVE  OrderInv'
<1> SUFFICES ASSUME NEW d \in Conn PROVE InOrder(d)'
  BY DEF OrderInv
<1>1. /\ UNCHANGED <<rooms, phase, place, found>>
      /\ PeerOf(d)' = PeerOf(d)
      /\ d # c => UNCHANGED <<outbox[d], writer[d]>>
  BY RoomsStay
  DEF Deliver, SocketFails, connVars, RelayInv, TypeOK, BoxTypeOK
<1>2. InOrder(d) /\ outbox[d] \in Seq(Message)
  BY DEF OrderInv, RelayInv, TypeOK, BoxTypeOK
<1>3. CASE d # c
  <2>1. StaysInOrder(d)
    BY <1>1, <1>3 DEF StaysInOrder, AboutToTell
  <2> QED
    BY <2>1, StaysInOrderSuffices
<1>4. CASE d = c /\ SocketFails(c)
  <2>1. outbox'[d] = <<>>
    BY <1>4 DEF SocketFails, RelayInv, TypeOK, BoxTypeOK
  <2> QED
    BY <2>1 DEF InOrder, ToldApartIn, Followed
<1>5. CASE d = c /\ Deliver(c)
  <2>1. /\ outbox[d] # <<>> /\ outbox'[d] = Tail(outbox[d])
        /\ writer[d] /\ writer' = writer
    BY <1>5 DEF Deliver, RelayInv, TypeOK, BoxTypeOK
  <2>2. /\ ToldApartIn(outbox'[d])
        /\ \A i \in DOMAIN outbox'[d] :
             /\ i + 1 \in DOMAIN outbox[d] /\ outbox'[d][i] = outbox[d][i + 1]
             /\ LeftSince(outbox[d], i + 1) => LeftSince(outbox'[d], i)
             /\ SwapSince(outbox[d], i + 1) => SwapSince(outbox'[d], i)
    BY <1>2, <2>1, ReadSince DEF InOrder
  <2>3. Followed(d) => Followed(d)'
    BY <1>1, <2>2 DEF Followed, AboutToTell
  <2> QED
    BY <1>1, <1>2, <2>1, <2>2, <2>3 DEF InOrder
<1> QED
  BY <1>3, <1>4, <1>5

LEMMA OrderStep == RelayInv /\ TellInv /\ OrderInv /\ [Next]_vars => OrderInv'
<1> SUFFICES ASSUME RelayInv, TellInv, OrderInv, [Next]_vars PROVE OrderInv'
  OBVIOUS
<1>1. CASE UNCHANGED vars
  <2> SUFFICES ASSUME NEW d \in Conn PROVE StaysInOrder(d)
    BY StaysInOrderSuffices DEF OrderInv
  <2>1. UNCHANGED <<rooms, phase, place, found, outbox, writer>>
    BY <1>1 DEF vars, connVars, boxVars
  <2> QED
    BY <2>1, RoomsStay DEF StaysInOrder, AboutToTell
<1>2. ASSUME NEW c \in Conn, RelayFull(c) \/ RoleTaken(c) PROVE OrderInv'
  BY <1>2, RefuseOrders DEF RelayFull, RoleTaken
<1>3. ASSUME NEW c \in Conn, Serve(c) PROVE OrderInv'
  BY <1>3, SendRegisteredOrders, NotifyJoinedOrders, LeaveOrders, ReleaseOrders
  DEF Serve
<1>4. ASSUME NEW c \in Conn,
             \/ Claim(c) \/ Forward(c) \/ OverBudget(c)
             \/ Deliver(c) \/ SocketFails(c)
      PROVE  OrderInv'
  BY <1>4, ClaimOrders, ForwardOrders, LeaveOrders, ClientOrders
<1> QED
  BY <1>1, <1>2, <1>3, <1>4 DEF Next

-----------------------------------------------------------------------------
(* Theorem *)

\* Whenever the seat opposite a client changes hands, and however often while
\* texts wait to be delivered to it, the client hears of the leaving and of
\* the joining between the texts of one holder and those of the next.
THEOREM TextsAreToldApart == Spec => []TextsToldApart
<1>1. OrderInv => TextsToldApart
  BY DEF OrderInv, InOrder, ToldApartIn, IsText, TextsToldApart
<1> QED
  BY <1>1, InitTell, TellStep, InitOrder, OrderStep, RelayInvariant, PTL DEF Spec
==============================================================================
