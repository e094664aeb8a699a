-------------------------- MODULE BroadcastPresence --------------------------
(***************************************************************************)
(* How tabs of one browser find each other and share out the two roles:    *)
(* BroadcastTransport of src/src/web/signal.rs and the part of switch_role *)
(* of src/src/web/app.rs that answers its RoleTaken, in one room.          *)
(*                                                                         *)
(* A tab posts to all the others; each hears what another posted in order. *)
(* The signals of a negotiation say no more here than a heartbeat does.    *)
(* Time is left out: a peer is given up once nothing more can come of it.  *)
(***************************************************************************)
EXTENDS Naturals, Sequences, FiniteSets

CONSTANTS
  Tab,          \* tabs, open or not
  Instance,     \* what Math.random() may draw, few enough to check
  MaxMoves,     \* bound: tabs opened, closed or crashed, roles picked by hand
  MaxSwitching, \* bound: changes of role under way in one tab
  MaxQueue      \* bound: messages unheard when a heartbeat is posted

ASSUME PresenceAssumption ==
  /\ IsFiniteSet(Tab) /\ IsFiniteSet(Instance) /\ Instance \subseteq Nat \ {0}
  /\ MaxMoves \in Nat /\ MaxSwitching \in Nat \ {0} /\ MaxQueue \in Nat \ {0}

Role == {"node0", "node1"}
Other(role) == IF role = "node0" THEN "node1" ELSE "node0"

Messages ==
  [kind : {"announce", "present", "heartbeat", "leave"}, from : Role,
   instance : Instance]

\* role: AppState's.  seat, instance: the transport's.  0 is no transport.
TabRecord ==
  [role : Role, seat : Role, instance : Instance \cup {0}, present : BOOLEAN,
   switching : 0 .. MaxSwitching]

ClosedTab == [role |-> "node0", seat |-> "node0", instance |-> 0,
              present |-> FALSE, switching |-> 0]

VARIABLES
  tab,    \* the tabs
  queue,  \* queue[s][t]: what s has posted and t has not heard
  moves   \* bound counter

vars == <<tab, queue, moves>>

Init ==
  /\ tab = [t \in Tab |-> ClosedTab]
  /\ queue = [s \in Tab |-> [t \in Tab |-> <<>>]]
  /\ moves = 0

IsOpen(t) == tab[t].instance # 0

PresenceMessage(t, kind) ==
  [kind |-> kind, from |-> tab[t].seat, instance |-> tab[t].instance]

\* post_message: every other open channel gets it, never the sender's own.
PostedWithEcho(q, t, messages) ==
  [q EXCEPT ![t] = [s \in Tab |-> IF IsOpen(s) THEN @[s] \o messages
                                               ELSE <<>>]]
Posted(q, t, messages) ==
  [q EXCEPT ![t] = [s \in Tab |-> IF s # t /\ IsOpen(s) THEN @[s] \o messages
                                                        ELSE <<>>]]

\* What t has not heard goes with its channel.
Unheard(q, t) == [s \in Tab |-> [q[s] EXCEPT ![t] = <<>>]]

Leave(t) ==
  IF IsOpen(t) THEN <<PresenceMessage(t, "leave")>> ELSE <<>>

-----------------------------------------------------------------------------
(* Transports *)

\* Instances in use, once t has dropped its channel.
InUse(t) ==
  {tab[s].instance : s \in Tab}
  \cup UNION {{queue[r][s][i].instance : i \in DOMAIN queue[r][s]} :
              r \in Tab, s \in Tab \ {t}}

\* attach_transport: the old transport says it leaves, the new one announces
\* itself under another instance.
Attach(t, role, switching) ==
  \E n \in Instance \ InUse(t) :
    LET announcement == [kind |-> "announce", from |-> role, instance |-> n] IN
    /\ tab' = [tab EXCEPT ![t] =
                 [role |-> role, seat |-> role, instance |-> n,
                  present |-> FALSE, switching |-> switching]]
    /\ queue' = Posted(Unheard(queue, t), t, Leave(t) \o <<announcement>>)

\* The rest of switch_role, once the shard is built.
SwitchDone(t) ==
  /\ tab[t].switching > 0
  /\ Attach(t, tab[t].role, tab[t].switching - 1)
  /\ UNCHANGED moves

\* switch_role up to its await: the transport is still the old one.
Switched(t) ==
  [tab EXCEPT ![t].role = Other(@), ![t].switching = @ + 1]

-----------------------------------------------------------------------------
(* What a tab hears *)

Arrives(s, t) ==
  /\ IsOpen(t) /\ queue[s][t] # <<>>
  /\ queue' = [queue EXCEPT ![s][t] = Tail(@)]
  /\ UNCHANGED moves

SameSeat(s, t) == Head(queue[s][t]).from = tab[t].seat

\* Of two tabs in one seat "the tab with the higher instance id is the one that
\* gives way".
AnyYields(s, t) == TRUE
Yields(s, t) == tab[t].instance > Head(queue[s][t]).instance

\* RoleTaken.  The taken role is read from the page, which may have left it.
HearCollision(s, t) ==
  /\ Arrives(s, t) /\ SameSeat(s, t) /\ Yields(s, t)
  /\ tab[t].switching < MaxSwitching
  /\ tab' = Switched(t)

HearJunior(s, t) ==
  /\ Arrives(s, t) /\ SameSeat(s, t) /\ ~Yields(s, t)
  /\ UNCHANGED tab

\* An announcement is answered, so that the newcomer need not wait for a
\* heartbeat.
NoAnswer(t) == <<>>
Answer(t) == <<PresenceMessage(t, "present")>>
HearAnnounce(s, t) ==
  /\ IsOpen(t) /\ queue[s][t] # <<>> /\ ~SameSeat(s, t)
  /\ Head(queue[s][t]).kind = "announce"
  /\ tab' = [tab EXCEPT ![t].present = TRUE]
  /\ queue' = Posted([queue EXCEPT ![s][t] = Tail(@)], t, Answer(t))
  /\ UNCHANGED moves

\* note_peer
HearPresence(s, t) ==
  /\ Arrives(s, t) /\ ~SameSeat(s, t)
  /\ Head(queue[s][t]).kind \in {"present", "heartbeat"}
  /\ tab' = [tab EXCEPT ![t].present = TRUE]

HearLeave(s, t) ==
  /\ Arrives(s, t) /\ ~SameSeat(s, t)
  /\ Head(queue[s][t]).kind = "leave"
  /\ tab' = [tab EXCEPT ![t].present = FALSE]

\* Nobody is left that could be heard in the other seat.
Silent(t) ==
  \A s \in Tab \ {t} :
    /\ queue[s][t] = <<>>
    /\ IsOpen(s) => tab[s].seat = tab[t].seat

\* The interval: a heartbeat goes out, and a silent peer is given up.
NotGivenUp(t) == tab
GivenUp(t) == [tab EXCEPT ![t].present = @ /\ ~Silent(t)]
Heartbeat(t) ==
  /\ IsOpen(t)
  /\ \A s \in Tab : Len(queue[t][s]) < MaxQueue
  /\ tab' = GivenUp(t)
  /\ queue' = Posted(queue, t, <<PresenceMessage(t, "heartbeat")>>)
  /\ UNCHANGED moves

-----------------------------------------------------------------------------
(* The users *)

Moves == moves < MaxMoves /\ moves' = moves + 1

OpenTab(t) ==
  /\ Moves /\ ~IsOpen(t)
  /\ \E role \in Role : Attach(t, role, 0)

\* pagehide says so; a crash does not.
CloseTab(t) ==
  /\ Moves /\ IsOpen(t)
  /\ tab' = [tab EXCEPT ![t] = ClosedTab]
  /\ queue' \in {Unheard(Posted(queue, t, Leave(t)), t), Unheard(queue, t)}

PickRole(t) ==
  /\ Moves /\ IsOpen(t) /\ tab[t].switching < MaxSwitching
  /\ tab' = Switched(t)
  /\ UNCHANGED queue

Hear(t) ==
  \E s \in Tab :
    \/ HearCollision(s, t) \/ HearJunior(s, t) \/ HearAnnounce(s, t)
    \/ HearPresence(s, t) \/ HearLeave(s, t)

User(t) == OpenTab(t) \/ CloseTab(t) \/ PickRole(t)

Next ==
  \E t \in Tab : Hear(t) \/ SwitchDone(t) \/ Heartbeat(t) \/ User(t)

\* A tab hears what is posted, builds its shard and keeps its interval.
Spec ==
  /\ Init
  /\ [][Next]_vars
  /\ \A t \in Tab :
       WF_vars(Hear(t)) /\ WF_vars(SwitchDone(t)) /\ WF_vars(Heartbeat(t))

-----------------------------------------------------------------------------
(* Properties *)

TypeOK ==
  /\ tab \in [Tab -> TabRecord]
  /\ queue \in [Tab -> [Tab -> Seq(Messages)]]
  /\ moves \in 0 .. MaxMoves
  /\ \A t \in Tab : queue[t][t] = <<>>
  /\ \A s, t \in Tab : s # t /\ IsOpen(s) => tab[s].instance # tab[t].instance

Facing(s, t) == IsOpen(s) /\ IsOpen(t) /\ tab[s].seat # tab[t].seat

\* Two tabs in the two seats know of each other as soon as they have heard
\* what was posted, without waiting for a heartbeat, whatever was posted by
\* the transports they had before.
SeatsKnown ==
  \A s, t \in Tab :
    /\ Facing(s, t) /\ queue[s][t] = <<>> /\ queue[t][s] = <<>>
    => tab[s].present /\ tab[t].present

\* A collision heard while the shard for the last one is being built: the tab
\* turns back to the role it is leaving.
FlipsBack == \E s, t \in Tab : tab[t].switching > 0 /\ HearCollision(s, t)

Apart ==
  \A s, t \in Tab :
    s # t /\ IsOpen(s) /\ IsOpen(t)
    => tab[s].seat # tab[t].seat /\ tab[s].present /\ tab[t].present

\* "Exactly one of them moves and they never swap in lockstep"
\* (signal.rs:188-189): two tabs come to sit in the two seats and stay there,
\* each with its peer, however many announcements and heartbeats cross - unless
\* a tab turns back again and again, which the code allows for ever.
SettlesApart == <>[][~FlipsBack]_vars => <>[]Apart

\* A peer that has gone is missed, also when it could not say so.
GoneIsMissed ==
  \A t \in Tab :
    tab[t].present ~> (~tab[t].present \/ \E s \in Tab : Facing(s, t))
==============================================================================
