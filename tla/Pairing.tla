------------------------------- MODULE Pairing -------------------------------
(***************************************************************************)
(* How two pages of one room get a data channel and get it back: the       *)
(* signals of src/src/web/app.rs (on_signal, on_peer, retry_pairing,       *)
(* release_signaling) and the negotiation of src/src/web/peer.rs.          *)
(*                                                                         *)
(* The roles are fixed: page 0 offers, page 1 answers.  The relay seats a  *)
(* page and passes its messages on in order, to the peer seated then; a    *)
(* page's old socket is vacated before its new one is seated (Relay.tla    *)
(* and RelayClient.tla have what can happen in between, and lost sockets). *)
(* A connection comes up if both ends have each other's descriptions and   *)
(* one of them a candidate of the other; else it fails in the end.         *)
(***************************************************************************)
EXTENDS Naturals, Sequences, FiniteSets

CONSTANTS
  LinkId,       \* names for a page's links; reused when nobody holds them
  NoLink,       \* no link
  MaxFaults,    \* bound: links cut, buttons pressed and pages reloaded
  MaxTimers,    \* bound: hang-up timers that run in one page
  MaxInbox      \* bound: messages a page may lag behind when its peer joins

ASSUME PairingAssumption ==
  /\ NoLink \notin LinkId /\ IsFiniteSet(LinkId)
  /\ MaxFaults \in Nat /\ MaxTimers \in [{0, 1} -> Nat \ {0}] /\ MaxInbox \in Nat

Page == {0, 1}
Peer(p) == 1 - p
Initiator(p) == p = 0

\* What the relay brings: its notices, and the signals of the peer's link id.
Signals == [kind : {"offer", "answer", "ice"}, id : LinkId]
Notice(kind) == [kind |-> kind, id |-> NoLink]
Messages == Signals \cup {Notice("joined"), Notice("left")}

\* A PeerLink.  local, remote: its descriptions, remote by the link it is of.
\* task: what an async call on it is at.  held: pending_candidates.
\* reached: a candidate of the remote link has been applied.
Link ==
  [id : LinkId, local : BOOLEAN, remote : LinkId \cup {NoLink},
   task : {"none", "offering", "accepting", "answering", "taking"},
   held : SUBSET LinkId, reached : BOOLEAN,
   channel : {"new", "open", "closed"}, failed : BOOLEAN]

ASSUME NoLinkAssumption == NoLink \notin Link

VARIABLES
  transport,    \* the page's RelayTransport
  present,      \* AppState::peer_present
  inbox,        \* what the relay has sent a page and it has not heard
  link,         \* AppState::peer
  reconnecting, \* AppState::reconnecting: the first sleep of retry_pairing
  again,        \* its second sleep, in the page that offers
  watch,        \* the six second timer of a disconnected link
  timers,       \* how many hang-up timers run
  newest,       \* those of page 0 that began during its second sleep
  faults        \* bound counter

relayVars == <<transport, present, inbox>>
clocks == <<reconnecting, again, watch, timers, newest>>
vars == <<relayVars, link, clocks, faults>>

Init ==
  /\ transport = [p \in Page |-> "connecting"]
  /\ present = [p \in Page |-> FALSE]
  /\ inbox = [p \in Page |-> <<>>]
  /\ link = [p \in Page |-> NoLink]
  /\ reconnecting = [p \in Page |-> FALSE]
  /\ again = FALSE
  /\ watch = [p \in Page |-> FALSE]
  /\ timers = [p \in Page |-> 0] /\ newest = 0
  /\ faults = 0

Open(p) == link[p] # NoLink /\ link[p].channel = "open"
Pending(p) == link[p] # NoLink /\ link[p].task # "none"

\* The remote description is in place: signals are no longer held back.
Described(l) == l.remote # NoLink /\ l.task \notin {"accepting", "taking"}

\* HaveLocalOffer, which only the offering link can be in.
HaveLocalOffer(l) == l.local /\ ~Described(l)

-----------------------------------------------------------------------------
(* The relay, as a page sees it *)

\* A signal is dropped unless this page is connected, and by the relay unless
\* the other one is.
Forwarded(p) == transport[p] = "joined" /\ transport[Peer(p)] = "joined"

Deliver(p, signals) ==
  inbox' = IF Forwarded(p)
             THEN [inbox EXCEPT ![Peer(p)] = @ \o signals]
             ELSE inbox

\* The page hangs up: its handlers go with the socket, the peer is told.
HungUp(p) ==
  [inbox EXCEPT ![p] = <<>>,
                ![Peer(p)] = IF Forwarded(p) THEN Append(@, Notice("left"))
                                             ELSE @]

\* The socket opens and the relay seats the page; each is told of the other.
Join(p) ==
  LET there == transport[Peer(p)] = "joined"
      told == IF there THEN <<Notice("joined")>> ELSE <<>>
  IN /\ transport[p] = "connecting"
     /\ Len(inbox[Peer(p)]) <= MaxInbox
     /\ transport' = [transport EXCEPT ![p] = "joined"]
     /\ inbox' = [inbox EXCEPT ![p] = told, ![Peer(p)] = @ \o told]
     /\ UNCHANGED <<present, link, clocks, faults>>

-----------------------------------------------------------------------------
(* Links *)

\* The names of p's links that someone still holds.
IdsIn(s) == {s[i].id : i \in DOMAIN s}
Held(p) ==
  LET q == Peer(p) IN
  IdsIn(inbox[q])
  \cup (IF link[p] = NoLink THEN {} ELSE {link[p].id})
  \cup (IF link[q] = NoLink THEN {} ELSE {link[q].remote} \cup link[q].held)
FreeId(p) == LinkId \ Held(p)

NewLink(p, remote, task) ==
  [id |-> CHOOSE n \in FreeId(p) : TRUE, local |-> FALSE, remote |-> remote,
   task |-> task, held |-> {}, reached |-> FALSE, channel |-> "new",
   failed |-> FALSE]

\* ensure_link tears the previous link down, whatever its state.
EnsureLink(p, remote, task) ==
  /\ FreeId(p) # {}
  /\ link' = [link EXCEPT ![p] = NewLink(p, remote, task)]

TeardownLink(p) == link' = [link EXCEPT ![p] = NoLink]

\* flush_candidates: those of another link than the described one are refused
\* by the connection.
Flushed(l) ==
  [l EXCEPT !.task = "none", !.held = {},
            !.reached = @ \/ l.remote \in l.held]

\* A candidate that comes before the description is dropped.
WithCandidateOrNot(l, id) ==
  IF Described(l) THEN [l EXCEPT !.reached = @ \/ id = l.remote] ELSE l

\* add_candidate
WithCandidate(l, id) ==
  IF Described(l) THEN [l EXCEPT !.reached = @ \/ id = l.remote]
                  ELSE [l EXCEPT !.held = @ \cup {id}]

\* The description and the candidates gathered after it.
Description(p, kind) ==
  <<[kind |-> kind, id |-> link[p].id], [kind |-> "ice", id |-> link[p].id]>>

\* start_pairing up to its first await, and the rest of create_offer.
StartPairing == EnsureLink(0, NoLink, "offering")

CreateOffer ==
  /\ link[0] # NoLink /\ link[0].task = "offering"
  /\ link' = [link EXCEPT ![0].local = TRUE, ![0].task = "none"]
  /\ Deliver(0, Description(0, "offer"))
  /\ UNCHANGED <<transport, present, clocks, faults>>

\* accept_offer: the remote description is set, and then the answer made.
OfferSet ==
  /\ link[1] # NoLink /\ link[1].task = "accepting"
  /\ link' = [link EXCEPT ![1] = [Flushed(@) EXCEPT !.task = "answering"]]
  /\ UNCHANGED <<relayVars, clocks, faults>>

CreateAnswer ==
  /\ link[1] # NoLink /\ link[1].task = "answering"
  /\ link' = [link EXCEPT ![1].local = TRUE, ![1].task = "none"]
  /\ Deliver(1, Description(1, "answer"))
  /\ UNCHANGED <<transport, present, clocks, faults>>

\* The rest of accept_answer.
AnswerSet ==
  /\ link[0] # NoLink /\ link[0].task = "taking"
  /\ link' = [link EXCEPT ![0] = Flushed(@)]
  /\ UNCHANGED <<relayVars, clocks, faults>>

-----------------------------------------------------------------------------
(* on_signal *)

Hear(p, kind) ==
  /\ inbox[p] # <<>>
  /\ Head(inbox[p]).kind = kind
  /\ inbox' = [inbox EXCEPT ![p] = Tail(@)]
  /\ UNCHANGED <<transport, clocks, faults>>

Heard(p) == Head(inbox[p]).id

HearJoined(p) ==
  /\ Hear(p, "joined")
  /\ present' = [present EXCEPT ![p] = TRUE]
  /\ IF Initiator(p) THEN StartPairing ELSE UNCHANGED link

HearLeft(p) ==
  /\ Hear(p, "left")
  /\ present' = [present EXCEPT ![p] = FALSE]
  /\ TeardownLink(p)

\* Only page 0 sends offers, so only page 1 hears them.
HearOffer ==
  /\ Hear(1, "offer")
  /\ EnsureLink(1, Heard(1), "accepting")
  /\ UNCHANGED present

\* An answer goes to whatever link is there, if it has an offer out.
ExpectedWhenStable ==
  link[0] # NoLink /\ ~HaveLocalOffer(link[0]) /\ ~Pending(0)
Expected == link[0] # NoLink /\ HaveLocalOffer(link[0]) /\ ~Pending(0)

HearAnswer ==
  /\ Hear(0, "answer")
  /\ link' = IF Expected
               THEN [link EXCEPT ![0].remote = Heard(0), ![0].task = "taking"]
               ELSE link
  /\ UNCHANGED present

HearCandidate(p) ==
  /\ Hear(p, "ice")
  /\ link' = IF link[p] = NoLink
               THEN link
               ELSE [link EXCEPT ![p] = WithCandidate(@, Heard(p))]
  /\ UNCHANGED present

-----------------------------------------------------------------------------
(* The connection: the browsers and the network between them *)

\* Of what the bound counts, one more.
Counted == faults < MaxFaults /\ faults' = faults + 1

\* The two links have each other's descriptions.
Agreed ==
  /\ \A p \in Page : link[p] # NoLink /\ link[p].local /\ Described(link[p])
  /\ \A p \in Page : link[p].remote = link[Peer(p)].id /\ ~link[p].failed
CanOpen(p) ==
  Agreed /\ link[p].channel = "new" /\ \E q \in Page : link[q].reached

\* The link of p can no longer come up, or has lost its other end.
Doomed(p) ==
  /\ link[p] # NoLink /\ ~link[p].failed /\ link[p].remote # NoLink
  /\ LET other == link[Peer(p)] IN
     \/ other = NoLink
     \/ other # NoLink /\ other.id # link[p].remote
     \/ other # NoLink /\ other.remote \notin {NoLink, link[p].id}
     \/ other # NoLink /\ other.failed

ChannelOpen(p) ==
  /\ CanOpen(p) /\ timers[p] < MaxTimers[p]
  /\ link' = [link EXCEPT ![p].channel = "open"]
  /\ timers' = [timers EXCEPT ![p] = @ + 1]
  /\ newest' = newest + (IF Initiator(p) /\ again THEN 1 ELSE 0)
  /\ UNCHANGED <<relayVars, reconnecting, again, watch, faults>>

ChannelClosed(p) ==
  /\ Open(p) /\ Doomed(p)
  /\ link' = [link EXCEPT ![p].channel = "closed"]
  /\ UNCHANGED <<relayVars, clocks, faults>>

\* retry_pairing, up to its first sleep.
OffererRetries(p) ==
  reconnecting' = [reconnecting EXCEPT ![p] = Initiator(p)]
RetryPairing(p) == reconnecting' = [reconnecting EXCEPT ![p] = TRUE]

Failed(p) ==
  /\ link' = [link EXCEPT ![p].failed = TRUE]
  /\ RetryPairing(p)
  /\ UNCHANGED <<relayVars, again, watch, timers, newest>>

LinkFails(p) == Doomed(p) /\ Failed(p) /\ UNCHANGED faults

NetworkFails(p) ==
  /\ Agreed /\ Counted
  /\ Failed(p)

\* "disconnected", of a link that may yet recover.
Disconnected(p) ==
  /\ Agreed /\ ~watch[p] /\ Counted
  /\ watch' = [watch EXCEPT ![p] = TRUE]
  /\ UNCHANGED <<relayVars, link, reconnecting, again, timers, newest>>

\* The timer looks at the link that is there six seconds later.
WatchEnds(p) ==
  /\ watch[p]
  /\ watch' = [watch EXCEPT ![p] = FALSE]
  /\ IF Open(p) THEN UNCHANGED reconnecting ELSE RetryPairing(p)
  /\ UNCHANGED <<relayVars, link, again, timers, newest, faults>>

-----------------------------------------------------------------------------
(* Leaving the relay and coming back *)

AttachTransport(p) ==
  /\ transport' = [transport EXCEPT ![p] = "connecting"]
  /\ present' = [present EXCEPT ![p] = FALSE]
  /\ inbox' = HungUp(p)
  /\ TeardownLink(p)

\* retry_pairing between its two sleeps.  The second one is over before
\* another first one is, as both take as long.
RetryWakesIfReleased(p) ==
  /\ reconnecting[p] /\ (Initiator(p) => ~again)
  /\ reconnecting' = [reconnecting EXCEPT ![p] = FALSE]
  /\ again' = (again \/ Initiator(p))
  /\ IF transport[p] = "released" THEN AttachTransport(p)
                                   ELSE UNCHANGED <<relayVars, link>>
  /\ UNCHANGED <<watch, timers, newest, faults>>
RetryWakes(p) ==
  /\ reconnecting[p] /\ (Initiator(p) => ~again)
  /\ reconnecting' = [reconnecting EXCEPT ![p] = FALSE]
  /\ again' = (again \/ Initiator(p))
  /\ AttachTransport(p)
  /\ UNCHANGED <<watch, timers, newest, faults>>

\* The end of retry_pairing.
OfferAgain ==
  /\ again /\ again' = FALSE
  /\ newest' = 0
  /\ IF present[0] THEN StartPairing ELSE UNCHANGED link
  /\ UNCHANGED <<relayVars, reconnecting, watch, timers, faults>>

\* At 25 seconds a hang-up timer outlasts a sleep of 1.5, and the opening of
\* the other end.
AnyTimerEnds(p) == timers[p] > 0
TimerEnds(p) ==
  /\ timers[p] > (IF Initiator(p) THEN newest ELSE 0)
  /\ ~CanOpen(Peer(p))

\* It looks at the link that is there by then.
ReleaseSignaling(p) ==
  /\ TimerEnds(p)
  /\ timers' = [timers EXCEPT ![p] = @ - 1]
  /\ IF Open(p) /\ transport[p] # "released"
       THEN /\ transport' = [transport EXCEPT ![p] = "released"]
            /\ inbox' = HungUp(p)
       ELSE UNCHANGED <<transport, inbox>>
  /\ UNCHANGED <<present, link, reconnecting, again, watch, newest, faults>>

-----------------------------------------------------------------------------
(* The users *)

\* The "reconnect" button.
PressReconnect(p) ==
  /\ Counted
  /\ AttachTransport(p)
  /\ UNCHANGED clocks

\* The "pair with peer" button, which only page 0 acts on.
PressPair ==
  /\ Counted
  /\ StartPairing
  /\ UNCHANGED <<relayVars, clocks>>

\* The page is loaded again: nothing of it is left but its room.
Reload(p) ==
  /\ Counted
  /\ AttachTransport(p)
  /\ reconnecting' = [reconnecting EXCEPT ![p] = FALSE]
  /\ again' = (again /\ ~Initiator(p))
  /\ watch' = [watch EXCEPT ![p] = FALSE]
  /\ timers' = [timers EXCEPT ![p] = 0]
  /\ newest' = (IF Initiator(p) THEN 0 ELSE newest)

Signal(p) ==
  \/ HearJoined(p) \/ HearLeft(p) \/ HearCandidate(p)
  \/ p = 1 /\ HearOffer
  \/ p = 0 /\ HearAnswer

Negotiate(p) ==
  \/ p = 0 /\ (CreateOffer \/ AnswerSet)
  \/ p = 1 /\ (OfferSet \/ CreateAnswer)

Sleep(p) == RetryWakes(p) \/ WatchEnds(p) \/ (p = 0 /\ OfferAgain)

\* What the event loop of page p runs, but for the hang-up timers.
Task(p) == Signal(p) \/ Negotiate(p) \/ Sleep(p)

Connection(p) == ChannelOpen(p) \/ LinkFails(p)

Fault(p) == ChannelClosed(p) \/ NetworkFails(p) \/ Disconnected(p)

User(p) == PressReconnect(p) \/ Reload(p) \/ (p = 0 /\ PressPair)

Next ==
  \E p \in Page :
    \/ Join(p) \/ Task(p) \/ ReleaseSignaling(p)
    \/ Connection(p) \/ Fault(p) \/ User(p)

\* The event loop of a page makes progress, the relay takes a page that asks,
\* and a connection comes up or fails in the end.  Nothing is assumed of the
\* users, of faults and of the hang-up timers.
Spec ==
  /\ Init
  /\ [][Next]_vars
  /\ \A p \in Page : WF_vars(Join(p) \/ Task(p) \/ Connection(p))

-----------------------------------------------------------------------------
(* Properties *)

TypeOK ==
  /\ transport \in [Page -> {"connecting", "joined", "released"}]
  /\ present \in [Page -> BOOLEAN]
  /\ inbox \in [Page -> Seq(Messages)]
  /\ link \in [Page -> Link \cup {NoLink}]
  /\ reconnecting \in [Page -> BOOLEAN] /\ again \in BOOLEAN
  /\ watch \in [Page -> BOOLEAN]
  /\ timers \in [Page -> Nat] /\ \A p \in Page : timers[p] <= MaxTimers[p]
  /\ newest \in 0 .. timers[0]
  /\ faults \in 0 .. MaxFaults

\* No candidate is lost on the way to the link it is for: a link that has
\* agreed with its peer's and has heard all the relay brought has the peer's
\* candidates, whenever they came, and is not left waiting for a path.
CandidatesKept ==
  Agreed => \A p \in Page :
    link[p].channel = "new" /\ inbox[p] = <<>> => link[p].reached

Paired == Agreed /\ \A p \in Page : Open(p)

\* Nothing will happen any more unless a user or the network does it: no
\* message or task is under way, no timer but the hang-up's runs, no
\* connection is about to come up or to fail.
Quiet ==
  /\ ~again
  /\ \A p \in Page :
       /\ transport[p] # "connecting" /\ inbox[p] = <<>> /\ ~Pending(p)
       /\ ~reconnecting[p] /\ ~watch[p] /\ ~Doomed(p) /\ ~CanOpen(p)

\* retry_pairing brings both pages back to the relay because otherwise "the
\* pair is stuck for good".
NeverStuck == Quiet => Paired

\* An offer that page 0 makes after it has hung up reaches nobody, and nothing
\* tells it so.
OfferedToNobody ==
  /\ transport[0] = "released"
  /\ link[0] # NoLink /\ HaveLocalOffer(link[0])

\* That is the only way in which a pair gets stuck.
StuckOnlyAfterHangUp == Quiet => Paired \/ OfferedToNobody

\* Two pages in the two seats of a room pair by themselves, until the first
\* fault or interference.
PairsUnaided == <>(Paired \/ faults > 0)

\* A page whose link has failed gets back to the relay and gives the link up,
\* whichever its role.
FailedRejoins ==
  \A p \in Page :
    (link[p] # NoLink /\ link[p].failed)
      ~> (transport[p] = "joined" /\ (link[p] = NoLink \/ ~link[p].failed))
==============================================================================
