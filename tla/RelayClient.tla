----------------------------- MODULE RelayClient -----------------------------
(***************************************************************************)
(* The pages that pair through the relay: RelayTransport of                *)
(* src/src/web/signal.rs and what src/src/web/app.rs does with it, over    *)
(* one room of the relay.                                                  *)
(*                                                                         *)
(* A line is a RelayTransport together with the one socket that is open on *)
(* its behalf: its own at first, later a replacement made by a timer.  The *)
(* relay is reduced to the seats of the room: a claim and the messages it  *)
(* causes are one action (Relay.tla has their interleavings).  Offers and  *)
(* answers, the blobs of copy and paste, and the length of the backoff are *)
(* left out.                                                               *)
(***************************************************************************)
EXTENDS Naturals, Sequences, FiniteSets

CONSTANTS
  Tab,          \* pages open in this room
  Line,         \* lines there can be at once; an ended line is used again
  NoLine,       \* no line, or an empty seat
  NoTab,        \* the page of an unused line
  MaxMoves,     \* bound: things the users do, and links that come up
  MaxClosed,    \* bound: connections that end by the relay or the network
  MaxSwitching, \* bound: changes of role under way in one page
  MaxInbox      \* bound: messages of the relay a socket has yet to hear

ASSUME ClientAssumption ==
  /\ NoLine \notin Line /\ NoTab \notin Tab
  /\ IsFiniteSet(Line) /\ IsFiniteSet(Tab)
  /\ MaxMoves \in Nat /\ MaxClosed \in Nat /\ MaxSwitching \in Nat \ {0}
  /\ MaxInbox \in Nat \ {0}

Role == {"node0", "node1"}
Other(role) == IF role = "node0" THEN "node1" ELSE "node0"

\* What a socket's callbacks hear; "error" is any TransportError.
Registered(there) == [kind |-> "registered", present |-> there]
Event(kind) == [kind |-> kind, present |-> FALSE]
Events == [kind : {"registered", "joined", "left", "taken", "error", "close"},
           present : BOOLEAN]

\* What App keeps about pairing.  switching counts the switch_role calls that
\* are building their shard; "broadcast" is any transport but the relay's.
Page == [booting : BOOLEAN, role : Role, initiator : BOOLEAN, present : BOOLEAN,
         kind : {"relay", "broadcast"}, current : Line \cup {NoLine},
         switching : 0 .. MaxSwitching]

\* own: the socket is the one in the transport's cell.  waiting: the socket has
\* closed and the reconnect timer runs.  gone: the page has hung up but the
\* relay has not noticed.
LineRecord ==
  [tab : Tab \cup {NoTab}, role : Role, own : BOOLEAN, released : BOOLEAN,
   state : {"unused", "connecting", "open", "waiting", "gone"},
   inbox : Seq(Events)]

Unused == [tab |-> NoTab, role |-> "node0", own |-> FALSE, released |-> TRUE,
           state |-> "unused", inbox |-> <<>>]

VARIABLES
  page,         \* the pages
  line,         \* the lines
  seat,         \* the relay: which line holds each role of the room
  moves,        \* bound counter
  closed        \* bound counter

vars == <<page, line, seat, moves, closed>>

FirstPage == [booting |-> TRUE, role |-> "node0", initiator |-> TRUE,
              present |-> FALSE, kind |-> "broadcast", current |-> NoLine,
              switching |-> 0]

Init ==
  /\ page = [t \in Tab |-> FirstPage]
  /\ line = [l \in Line |-> Unused]
  /\ seat = [role \in Role |-> NoLine]
  /\ moves = 0 /\ closed = 0

Seated(l) == seat[line[l].role] = l
Hearing(l) == line[l].state \in {"connecting", "open"}
Free == {l \in Line : line[l].state = "unused"}

-----------------------------------------------------------------------------
(* Making and dropping a transport *)

FirstLine(t, role) ==
  [tab |-> t, role |-> role, own |-> TRUE, released |-> FALSE,
   state |-> "connecting", inbox |-> <<>>]

\* The socket of l is closed at this end: its seat is kept until the relay
\* notices.
EndedSeatOrNot(l) ==
  [line[l] EXCEPT !.state = "gone", !.released = TRUE, !.inbox = <<>>]
Ended(l) ==
  IF Seated(l)
    THEN [line[l] EXCEPT !.state = "gone", !.released = TRUE, !.inbox = <<>>]
    ELSE Unused

\* release(), which drop() calls too: the flag is shared with replacements, the
\* socket that is hung up is the transport's own.
FlaggedReleased(l) == [line[l] EXCEPT !.released = TRUE]
ReleasedIfOpen(l) == IF line[l].own /\ Hearing(l) THEN Ended(l) ELSE line[l]
Released(l) ==
  IF line[l].own /\ Hearing(l) THEN Ended(l) ELSE FlaggedReleased(l)

\* attach_transport in page t, which is p by now; lines are those left after
\* the old transport is dropped.
AttachRelay(t, p) ==
  /\ Free # {}
  /\ LET l == CHOOSE l \in Free : TRUE
         old == page[t].current
         dropped == IF old = NoLine THEN line
                                    ELSE [line EXCEPT ![old] = Released(old)]
     IN /\ line' = [dropped EXCEPT ![l] = FirstLine(t, p.role)]
        /\ page' = [page EXCEPT ![t] =
                      [p EXCEPT !.present = FALSE, !.kind = "relay",
                                !.current = l]]

AttachBroadcast(t, p, lines) ==
  /\ line' = lines
  /\ page' = [page EXCEPT ![t] =
                [p EXCEPT !.present = FALSE, !.kind = "broadcast",
                          !.current = NoLine]]

\* switch_role up to its await.
SwitchedInPlace(p) == [p EXCEPT !.role = Other(@)]
Switched(p) == [p EXCEPT !.role = Other(@), !.switching = @ + 1]

\* The page's first shard is built; it turns to the relay.
Booted(t) ==
  /\ page[t].booting
  /\ AttachRelay(t, [page[t] EXCEPT !.booting = FALSE])
  /\ UNCHANGED <<seat, moves, closed>>

\* The rest of switch_role.
SwitchDone(t) ==
  LET p == [page[t] EXCEPT !.switching = @ - 1] IN
  /\ page[t].switching > 0
  /\ \/ p.kind = "relay" /\ AttachRelay(t, p)
     \/ p.kind = "broadcast" /\ AttachBroadcast(t, p, line)
  /\ UNCHANGED <<seat, moves, closed>>

Moves(guard) == guard /\ moves < MaxMoves /\ moves' = moves + 1

\* The reconnect button, a new room or mode, or a retry after a lost link.
Rejoin(t) ==
  /\ Moves(~page[t].booting)
  /\ AttachRelay(t, page[t])
  /\ UNCHANGED <<seat, closed>>

\* A role is picked by hand.
PickRole(t) ==
  /\ Moves(page[t].switching < MaxSwitching)
  /\ page' = [page EXCEPT ![t] = Switched(@)]
  /\ UNCHANGED <<line, seat, closed>>

\* release_signaling, 25 s after a link opened that is still open.  A released
\* transport does nothing more for the page.
Release(t) ==
  /\ Moves(page[t].current # NoLine)
  /\ line' = [line EXCEPT ![page[t].current] = Released(page[t].current)]
  /\ page' = [page EXCEPT ![t].current = NoLine]
  /\ UNCHANGED <<seat, closed>>

-----------------------------------------------------------------------------
(* The relay *)

\* A message to the holder of a role; a connection that is closing loses it.
Told(lines, role, event) ==
  LET l == seat[role] IN
  IF l # NoLine /\ Hearing(l)
                /\ \A i \in DOMAIN line[l].inbox : line[l].inbox[i].kind # "close"
    THEN [lines EXCEPT ![l].inbox = Append(@, event)]
    ELSE lines

Heeded(role) ==
  seat[role] # NoLine => Len(line[seat[role]].inbox) < MaxInbox

Claim(l) ==
  LET role == line[l].role
      opened == [line EXCEPT
                   ![l].state = "open",
                   ![l].inbox = <<Registered(seat[Other(role)] # NoLine)>>]
  IN /\ line[l].state = "connecting" /\ line[l].inbox = <<>>
     /\ seat[role] = NoLine /\ Heeded(Other(role))
     /\ seat' = [seat EXCEPT ![role] = l]
     /\ line' = Told(opened, Other(role), Event("joined"))
     /\ UNCHANGED <<page, moves, closed>>

\* role-taken, and the relay closes the connection.
Refuse(l) ==
  /\ line[l].state = "connecting" /\ line[l].inbox = <<>>
  /\ seat[line[l].role] # NoLine
  /\ line' = [line EXCEPT ![l].state = "open",
                          ![l].inbox = <<Event("taken"), Event("close")>>]
  /\ UNCHANGED <<page, seat, moves, closed>>

Closes(guard) == guard /\ closed < MaxClosed /\ closed' = closed + 1

\* The relay is out of reach, or full.
Unreachable(l) ==
  /\ Closes(line[l].state = "connecting" /\ line[l].inbox = <<>>)
  /\ line' = [line EXCEPT ![l].inbox = <<Event("error"), Event("close")>>]
  /\ UNCHANGED <<page, seat, moves>>

\* The relay ends a connection in good order: its ten minutes are spent.
RelayCloses(l) ==
  /\ Closes(line[l].state = "open" /\ Seated(l))
  /\ Heeded(Other(line[l].role))
  /\ seat' = [seat EXCEPT ![line[l].role] = NoLine]
  /\ line' = Told([line EXCEPT ![l].inbox = Append(@, Event("close"))],
                  Other(line[l].role), Event("left"))
  /\ UNCHANGED <<page, moves>>

\* The network breaks a connection, and the relay does not know yet.
Breaks(l) ==
  /\ Closes(line[l].state = "open" /\ Seated(l))
  /\ \A i \in DOMAIN line[l].inbox : line[l].inbox[i].kind # "close"
  /\ line' = [line EXCEPT ![l].inbox = @ \o <<Event("error"), Event("close")>>]
  /\ UNCHANGED <<page, seat, moves>>

\* The relay learns that a client is gone.
Notices(l) ==
  /\ line[l].state = "gone" /\ Heeded(Other(line[l].role))
  /\ seat' = [seat EXCEPT ![line[l].role] = NoLine]
  /\ line' = Told([line EXCEPT ![l] = Unused], Other(line[l].role),
                  Event("left"))
  /\ UNCHANGED <<page, moves, closed>>

-----------------------------------------------------------------------------
(* The page.  on_signal does not ask which socket an event comes from.      *)

Hears(l, kind) ==
  Hearing(l) /\ line[l].inbox # <<>> /\ Head(line[l].inbox).kind = kind

Heard(l) == [line EXCEPT ![l].inbox = Tail(@)]

OnRegistered(l) ==
  /\ Hears(l, "registered")
  /\ line' = Heard(l)
  /\ page' = [page EXCEPT
                ![line[l].tab].initiator = (line[l].role = "node0"),
                ![line[l].tab].present = @ \/ Head(line[l].inbox).present]
  /\ UNCHANGED <<seat, moves, closed>>

OnPeer(l) ==
  /\ Hears(l, "joined") \/ Hears(l, "left")
  /\ line' = Heard(l)
  /\ page' = [page EXCEPT ![line[l].tab].present = Hears(l, "joined")]
  /\ UNCHANGED <<seat, moves, closed>>

\* The other role is taken to be free.
OnRoleTaken(l) ==
  /\ Hears(l, "taken")
  /\ page[line[l].tab].switching < MaxSwitching
  /\ line' = Heard(l)
  /\ page' = [page EXCEPT ![line[l].tab] = Switched(@)]
  /\ UNCHANGED <<seat, moves, closed>>

\* The fallback to pairing within this browser drops the current transport.
OnError(l) ==
  LET t == line[l].tab
      p == page[t]
      kept == Heard(l)
  IN /\ Hears(l, "error")
     /\ \/ /\ p.kind = "relay"
           /\ AttachBroadcast(t, p,
                IF p.current = NoLine THEN kept
                ELSE [kept EXCEPT ![p.current] =
                        IF p.current = l /\ ~line[l].own
                          THEN [kept[l] EXCEPT !.released = TRUE]
                          ELSE Released(p.current)])
        \/ p.kind = "broadcast" /\ line' = kept /\ UNCHANGED page
     /\ UNCHANGED <<seat, moves, closed>>

\* A replacement is on its way unless the transport has been released.
OnClose(l) ==
  /\ Hears(l, "close")
  /\ line' = [line EXCEPT ![l] =
       IF line[l].released THEN Ended(l)
       ELSE [@ EXCEPT !.state = "waiting", !.own = FALSE, !.inbox = <<>>]]
  /\ UNCHANGED <<page, seat, moves, closed>>

ReconnectIfReleased(l) ==
  line' = [line EXCEPT ![l] = IF line[l].released THEN Unused ELSE @]
Reconnect(l) ==
  line' = [line EXCEPT ![l] = IF line[l].released THEN Unused
                              ELSE [@ EXCEPT !.state = "connecting"]]

TimerEnds(l) ==
  /\ line[l].state = "waiting"
  /\ Reconnect(l)
  /\ UNCHANGED <<page, seat, moves, closed>>

-----------------------------------------------------------------------------

Callback(l) ==
  \/ OnRegistered(l) \/ OnPeer(l) \/ OnRoleTaken(l) \/ OnError(l)
  \/ OnClose(l) \/ TimerEnds(l)

Network(l) ==
  \/ Claim(l) \/ Refuse(l) \/ Unreachable(l)
  \/ RelayCloses(l) \/ Breaks(l) \/ Notices(l)

User(t) == Rejoin(t) \/ PickRole(t) \/ Release(t)

Next ==
  \/ \E l \in Line : Callback(l) \/ Network(l)
  \/ \E t \in Tab : Booted(t) \/ SwitchDone(t) \/ User(t)

\* A page runs its callbacks, timers and tasks; a socket that is opening opens,
\* is refused or fails; the relay notices in the end who is gone (by its ten
\* minutes if by nothing else).
Spec ==
  /\ Init /\ [][Next]_vars
  /\ \A l \in Line :
       /\ WF_vars(Callback(l)) /\ WF_vars(Notices(l))
       /\ WF_vars(Claim(l) \/ Refuse(l) \/ Unreachable(l))
  /\ \A t \in Tab : WF_vars(Booted(t)) /\ WF_vars(SwitchDone(t))

-----------------------------------------------------------------------------
(* Properties *)

\* Types; a line that is not in use is blank, and a line that is gone is
\* released and still has its seat.
TypeOK ==
  /\ page \in [Tab -> Page]
  /\ line \in [Line -> LineRecord]
  /\ seat \in [Role -> Line \cup {NoLine}]
  /\ moves \in 0 .. MaxMoves /\ closed \in 0 .. MaxClosed
  /\ \A l \in Line : line[l].state = "unused" => line[l] = Unused
  /\ \A l \in Line : line[l].state = "gone" => Seated(l) /\ line[l].released

\* Only the transport a page uses reconnects: whatever it used before has been
\* told to stay away, in whichever state it was dropped.
OnlyCurrentReconnects ==
  \A l \in Line : ~line[l].released => page[line[l].tab].current = l

\* A page that has not paired is not stranded: once its connection has closed,
\* the transport tries again until it is seated, released or refused.
KeepsTrying ==
  \A l \in Line : line[l].state = "waiting" /\ ~line[l].released
                    ~> line[l].released \/ Seated(l) \/ Hears(l, "taken")

\* When no change of role is under way the page's transport is for its role,
\* whichever changes (by hand, or for a taken role) overlapped before.
TransportHasRole ==
  \A t \in Tab : page[t].switching = 0 /\ page[t].current # NoLine
                   => line[page[t].current].role = page[t].role

\* A registered page can be heard: "a relay restart or a flaky network should
\* not strand a peer that has not paired yet".
SendsReachRelay ==
  \A t \in Tab : LET l == page[t].current IN
    l # NoLine /\ line[l].state = "open" /\ Seated(l) => line[l].own

\* Two pages opened on the same room, left alone by everybody and with a
\* network that works, come to sit in its two seats: "the two pair
\* automatically".
PairsAutomatically ==
  <>[](\A role \in Role : seat[role] # NoLine)
==============================================================================
