---------------------------- MODULE PairingProofs ----------------------------
(***************************************************************************)
(* Theorems about Pairing, for every number of link names, faults and      *)
(* timers.                                                                 *)
(***************************************************************************)
EXTENDS Pairing, TLAPS

(* The inductive invariant: where the candidate of a described link is *)

IceIn(box, id) == \E i \in DOMAIN box : box[i].kind = "ice" /\ box[i].id = id

\* A description and the candidates of its link travel together.
Followed(box) ==
  \A i \in DOMAIN box : box[i].kind \in {"offer", "answer"} =>
    /\ i + 1 \in DOMAIN box
    /\ box[i + 1].kind = "ice" /\ box[i + 1].id = box[i].id

BoxGood(p) ==
  /\ Followed(inbox[p])
  /\ transport[p] # "joined" => inbox[p] = <<>>

\* The candidate is on its way, or held until the description is in place, or
\* applied.
PathGood(p) ==
  link[p] # NoLink /\ link[p].remote # NoLink /\ link[p].channel = "new" =>
    \/ link[p].reached
    \/ ~Described(link[p]) /\ link[p].remote \in link[p].held
    \/ IceIn(inbox[p], link[p].remote)

PairingInv == TypeOK /\ \A p \in Page : BoxGood(p) /\ PathGood(p)

-----------------------------------------------------------------------------
(* Pages, messages and links *)

LEMMA Pages ==
  /\ Page = {0, 1} /\ Peer(0) = 1 /\ Peer(1) = 0
  /\ \A p \in Page : Peer(p) \in Page /\ Peer(p) # p /\ Peer(Peer(p)) = p
  BY DEF Page, Peer

LEMMA MessageTypes ==
  /\ \A kind \in {"joined", "left"} :
       Notice(kind) \in Messages /\ Notice(kind).kind = kind
  /\ \A m \in Messages : m.kind \in {"offer", "answer", "ice"} => m.id \in LinkId
  /\ \A m \in Messages : m.kind \in {"offer", "answer", "ice", "joined", "left"}
  BY DEF Notice, Messages, Signals

LEMMA LinkFields ==
  ASSUME NEW x \in Link
  PROVE  /\ x.id \in LinkId /\ x.local \in BOOLEAN
         /\ x.remote \in LinkId \cup {NoLink}
         /\ x.task \in {"none", "offering", "accepting", "answering", "taking"}
         /\ x.held \subseteq LinkId /\ x.reached \in BOOLEAN
         /\ x.channel \in {"new", "open", "closed"} /\ x.failed \in BOOLEAN
  BY DEF Link

\* One page gets another link, or none.
LEMMA SetLink ==
  ASSUME TypeOK, NEW p \in Page, NEW x \in Link \cup {NoLink},
         link' = [link EXCEPT ![p] = x]
  PROVE  /\ link' \in [Page -> Link \cup {NoLink}] /\ link'[p] = x
         /\ \A q \in Page : q # p => link'[q] = link[q]
  BY DEF TypeOK

LEMMA NewLinkType ==
  ASSUME NEW p \in Page, FreeId(p) # {}, NEW remote \in LinkId \cup {NoLink},
         NEW task \in {"offering", "accepting"}
  PROVE  /\ NewLink(p, remote, task) \in Link
         /\ NewLink(p, remote, task).id \in FreeId(p)
         /\ NewLink(p, remote, task).remote = remote
         /\ NewLink(p, remote, task).task = task
         /\ NewLink(p, remote, task).held = {}
         /\ ~NewLink(p, remote, task).reached /\ ~NewLink(p, remote, task).local
         /\ NewLink(p, remote, task).channel = "new"
         /\ ~NewLink(p, remote, task).failed
<1> DEFINE n == CHOOSE n \in FreeId(p) : TRUE
<1>1. n \in FreeId(p) /\ FreeId(p) \subseteq LinkId
  BY DEF FreeId
<1> HIDE DEF n
<1> QED
  BY <1>1 DEF NewLink, Link, n

-----------------------------------------------------------------------------
(* What a step does to an inbox *)

LEMMA AppendFollowed ==
  ASSUME NEW box \in Seq(Messages), Followed(box),
         NEW m \in Messages, m.kind \notin {"offer", "answer"}
  PROVE  /\ Followed(Append(box, m)) /\ Append(box, m) \in Seq(Messages)
         /\ \A id : IceIn(box, id) => IceIn(Append(box, m), id)
<1>1. /\ DOMAIN Append(box, m) = DOMAIN box \cup {Len(box) + 1}
      /\ Append(box, m)[Len(box) + 1] = m
      /\ \A i \in DOMAIN box : Append(box, m)[i] = box[i]
  OBVIOUS
<1> QED
  BY <1>1 DEF Followed, IceIn

LEMMA PairFollowed ==
  ASSUME NEW box \in Seq(Messages), Followed(box), NEW a \in Messages,
         NEW b \in Messages, b.kind = "ice", a.kind # "ice", a.id = b.id
  PROVE  /\ Followed(box \o <<a, b>>) /\ box \o <<a, b>> \in Seq(Messages)
         /\ \A id : IceIn(box, id) => IceIn(box \o <<a, b>>, id)
<1> DEFINE more == box \o <<a, b>>
<1>1. /\ DOMAIN more = DOMAIN box \cup {Len(box) + 1, Len(box) + 2}
      /\ more[Len(box) + 1] = a /\ more[Len(box) + 2] = b
      /\ \A i \in DOMAIN box : more[i] = box[i]
      /\ Len(box) \in Nat /\ DOMAIN box = 1 .. Len(box)
      /\ more \in Seq(Messages)
  OBVIOUS
<1> HIDE DEF more
<1>2. ASSUME NEW i \in DOMAIN more, more[i].kind \in {"offer", "answer"}
      PROVE  /\ i + 1 \in DOMAIN more
             /\ more[i + 1].kind = "ice" /\ more[i + 1].id = more[i].id
  <2>1. CASE i \in DOMAIN box
    BY <1>1, <1>2, <2>1 DEF Followed
  <2>2. CASE i = Len(box) + 1
    BY <1>1, <2>2
  <2>3. CASE i = Len(box) + 2
    BY <1>1, <1>2, <2>3
  <2> QED
    BY <1>1, <2>1, <2>2, <2>3
<1>3. \A id : IceIn(box, id) => IceIn(more, id)
  BY <1>1 DEF IceIn
<1> QED
  BY <1>1, <1>2, <1>3 DEF Followed, more

LEMMA TailFollowed ==
  ASSUME NEW box \in Seq(Messages), box # <<>>, Followed(box)
  PROVE  /\ Head(box) \in Messages /\ Tail(box) \in Seq(Messages)
         /\ Followed(Tail(box))
         /\ Head(box).kind \in {"offer", "answer"} => IceIn(Tail(box), Head(box).id)
         /\ \A id : IceIn(box, id) =>
              \/ Head(box).kind = "ice" /\ Head(box).id = id
              \/ IceIn(Tail(box), id)
<1>1. /\ Head(box) = box[1] /\ 1 \in DOMAIN box /\ Head(box) \in Messages
      /\ Tail(box) \in Seq(Messages)
      /\ \A i \in DOMAIN Tail(box) : i + 1 \in DOMAIN box /\ Tail(box)[i] = box[i + 1]
      /\ \A i \in DOMAIN box : i # 1 => i - 1 \in DOMAIN Tail(box)
                                        /\ Tail(box)[i - 1] = box[i]
      /\ DOMAIN box \subseteq Nat /\ DOMAIN Tail(box) \subseteq Nat \ {0}
  OBVIOUS
<1>2. ASSUME NEW i \in DOMAIN Tail(box), Tail(box)[i].kind \in {"offer", "answer"}
      PROVE  /\ i + 1 \in DOMAIN Tail(box) /\ Tail(box)[i + 1].kind = "ice"
             /\ Tail(box)[i + 1].id = Tail(box)[i].id
  <2>1. /\ i + 1 \in DOMAIN box /\ box[i + 1] = Tail(box)[i]
        /\ i \in Nat \ {0}
    BY <1>1
  <2>2. /\ (i + 1) + 1 \in DOMAIN box /\ box[(i + 1) + 1].kind = "ice"
        /\ box[(i + 1) + 1].id = box[i + 1].id
    BY <1>2, <2>1 DEF Followed
  <2>3. (i + 1) + 1 # 1 /\ ((i + 1) + 1) - 1 = i + 1
    BY <2>1
  <2>4. i + 1 \in DOMAIN Tail(box) /\ Tail(box)[i + 1] = box[(i + 1) + 1]
    BY <1>1, <2>2, <2>3
  <2> QED
    BY <2>1, <2>2, <2>4
<1>3. ASSUME Head(box).kind \in {"offer", "answer"}
      PROVE  IceIn(Tail(box), Head(box).id)
  <2>1. 1 + 1 \in DOMAIN box /\ box[1 + 1].kind = "ice" /\ box[1 + 1].id = box[1].id
    BY <1>1, <1>3 DEF Followed
  <2>2. 1 \in DOMAIN Tail(box) /\ Tail(box)[1] = box[1 + 1]
    BY <1>1, <2>1
  <2> QED
    BY <1>1, <2>1, <2>2 DEF IceIn
<1>4. ASSUME NEW id, IceIn(box, id)
      PROVE  \/ Head(box).kind = "ice" /\ Head(box).id = id
             \/ IceIn(Tail(box), id)
  BY <1>1, <1>4 DEF IceIn
<1> QED
  BY <1>1, <1>2, <1>3, <1>4 DEF Followed

\* All that PairingInv says of the inboxes.
BoxesGood ==
  inbox \in [Page -> Seq(Messages)] /\ \A p \in Page : BoxGood(p)

\* The candidates on their way to q are still on their way.
StillThere(q) ==
  \A id \in LinkId : IceIn(inbox[q], id) => IceIn(inbox[q], id)'

LEMMA SameBoxes ==
  ASSUME PairingInv, UNCHANGED <<inbox, transport>>
  PROVE  BoxesGood' /\ \A q \in Page : StillThere(q)
  BY DEF PairingInv, TypeOK, BoxesGood, BoxGood, StillThere

LEMMA DeliverEffect ==
  ASSUME PairingInv, NEW p \in Page, link[p] # NoLink,
         NEW kind \in {"offer", "answer"}, Deliver(p, Description(p, kind)),
         UNCHANGED transport
  PROVE  BoxesGood' /\ \A q \in Page : StillThere(q)
<1> DEFINE a == [kind |-> kind, id |-> link[p].id]
           b == [kind |-> "ice", id |-> link[p].id]
<1>1. CASE ~Forwarded(p)
  BY <1>1, SameBoxes DEF Deliver
<1>2. CASE Forwarded(p)
  <2>1. link[p] \in Link /\ link[p].id \in LinkId
    BY LinkFields DEF PairingInv, TypeOK
  <2>2. a \in Messages /\ b \in Messages /\ a.kind = kind /\ b.kind = "ice"
        /\ a.id = b.id
    BY <2>1 DEF Messages, Signals
  <2>3. Peer(p) \in Page /\ inbox[Peer(p)] \in Seq(Messages) /\ Followed(inbox[Peer(p)])
    BY Pages DEF PairingInv, TypeOK, BoxGood
  <2> DEFINE more == inbox[Peer(p)] \o <<a, b>>
  <2>4. inbox' = [inbox EXCEPT ![Peer(p)] = more]
    BY <1>2 DEF Deliver, Description
  <2> HIDE DEF a, b
  <2>5. /\ Followed(more) /\ more \in Seq(Messages)
        /\ \A id : IceIn(inbox[Peer(p)], id) => IceIn(more, id)
    BY <2>2, <2>3, PairFollowed
  <2> HIDE DEF more
  <2>6. /\ inbox' \in [Page -> Seq(Messages)] /\ inbox'[Peer(p)] = more
        /\ \A q \in Page : q # Peer(p) => inbox'[q] = inbox[q]
    BY <2>3, <2>4, <2>5 DEF PairingInv, TypeOK
  <2>7. transport[Peer(p)] = "joined"
    BY <1>2 DEF Forwarded
  <2>8. \A q \in Page : BoxGood(q)' /\ StillThere(q)
    <3> SUFFICES ASSUME NEW q \in Page
                 PROVE  BoxGood(q)' /\ StillThere(q)
      OBVIOUS
    <3>1. CASE q = Peer(p)
      BY <2>5, <2>6, <2>7, <3>1 DEF BoxGood, StillThere
    <3>2. CASE q # Peer(p)
      BY <2>6, <3>2 DEF BoxGood, StillThere, PairingInv
    <3> QED
      BY <3>1, <3>2
  <2> QED
    BY <2>6, <2>8 DEF BoxesGood
<1> QED
  BY <1>1, <1>2

LEMMA HungUpEffect ==
  ASSUME PairingInv, NEW p \in Page, inbox' = HungUp(p),
         NEW s, transport' = [transport EXCEPT ![p] = s]
  PROVE  BoxesGood' /\ StillThere(Peer(p))
<1> DEFINE other == inbox[Peer(p)]
           more == IF Forwarded(p) THEN Append(other, Notice("left")) ELSE other
<1>1. /\ Peer(p) \in Page /\ Peer(p) # p
      /\ other \in Seq(Messages) /\ BoxGood(Peer(p))
  BY Pages DEF PairingInv, TypeOK
<1>2. /\ more \in Seq(Messages) /\ Followed(more)
      /\ \A id : IceIn(other, id) => IceIn(more, id)
      /\ transport[Peer(p)] # "joined" => more = other
  BY <1>1, AppendFollowed, MessageTypes DEF BoxGood, Forwarded
<1>3. inbox' = [inbox EXCEPT ![p] = <<>>, ![Peer(p)] = more]
  BY <1>1 DEF HungUp, PairingInv, TypeOK
<1> HIDE DEF more
<1>4. /\ inbox' \in [Page -> Seq(Messages)]
      /\ inbox'[p] = <<>> /\ inbox'[Peer(p)] = more
      /\ transport'[Peer(p)] = transport[Peer(p)]
      /\ \A q \in Page : q = p \/ q = Peer(p)
  <2>1. <<>> \in Seq(Messages)
    OBVIOUS
  <2>2. inbox \in [Page -> Seq(Messages)] /\ DOMAIN transport = Page
    BY DEF PairingInv, TypeOK
  <2>3. \A q \in Page : q = p \/ q = Peer(p)
    BY DEF Page, Peer
  <2> QED
    BY <1>1, <1>2, <1>3, <2>1, <2>2, <2>3
<1>5. BoxGood(p)'
  BY <1>4 DEF BoxGood, Followed
<1>6. BoxGood(Peer(p))' /\ StillThere(Peer(p))
  BY <1>1, <1>2, <1>4 DEF BoxGood, StillThere
<1> QED
  BY <1>4, <1>5, <1>6 DEF BoxesGood

LEMMA HearEffect ==
  ASSUME PairingInv, NEW p \in Page, NEW kind, Hear(p, kind)
  PROVE  /\ BoxesGood' /\ StillThere(Peer(p))
         /\ Head(inbox[p]) \in Messages /\ Head(inbox[p]).kind = kind
         /\ kind \in {"offer", "answer"} => IceIn(inbox'[p], Heard(p))
         /\ kind \in {"offer", "answer", "ice"} => Heard(p) \in LinkId
         /\ kind # "ice" => StillThere(p)
         /\ \A id \in LinkId : IceIn(inbox[p], id) =>
              Heard(p) = id \/ IceIn(inbox[p], id)'
<1>1. /\ inbox[p] \in Seq(Messages) /\ inbox[p] # <<>> /\ Followed(inbox[p])
      /\ transport[p] = "joined"
  BY DEF Hear, PairingInv, TypeOK, BoxGood
<1> DEFINE less == Tail(inbox[p])
<1>2. /\ Head(inbox[p]) \in Messages /\ less \in Seq(Messages) /\ Followed(less)
      /\ Head(inbox[p]).kind \in {"offer", "answer"} => IceIn(less, Head(inbox[p]).id)
      /\ \A id : IceIn(inbox[p], id) =>
           \/ Head(inbox[p]).kind = "ice" /\ Head(inbox[p]).id = id
           \/ IceIn(less, id)
  BY <1>1, TailFollowed
<1>3. /\ inbox' = [inbox EXCEPT ![p] = less] /\ Head(inbox[p]).kind = kind
      /\ transport' = transport
  BY DEF Hear
<1> HIDE DEF less
<1>4. /\ inbox' \in [Page -> Seq(Messages)] /\ inbox'[p] = less
      /\ \A q \in Page : q # p => inbox'[q] = inbox[q]
  BY <1>2, <1>3 DEF PairingInv, TypeOK
<1>5. BoxGood(p)'
  BY <1>1, <1>2, <1>3, <1>4 DEF BoxGood
<1>6. \A q \in Page : q # p => BoxGood(q)' /\ StillThere(q)
  BY <1>3, <1>4 DEF BoxGood, StillThere, PairingInv
<1>7. kind \in {"offer", "answer"} => IceIn(inbox'[p], Heard(p))
  BY <1>2, <1>3, <1>4 DEF Heard
<1>8. \A id \in LinkId : IceIn(inbox[p], id) =>
        \/ kind = "ice" /\ Heard(p) = id
        \/ IceIn(inbox[p], id)'
  BY <1>2, <1>3, <1>4 DEF Heard
<1> QED
  BY <1>2, <1>3, <1>4, <1>5, <1>6, <1>7, <1>8, Pages, MessageTypes
  DEF BoxesGood, StillThere, Heard

-----------------------------------------------------------------------------
(* The parts of the invariant, and what the kinds of change do to each *)

RelayOK ==
  /\ transport \in [Page -> {"connecting", "joined", "released"}]
  /\ present \in [Page -> BOOLEAN]

LinksOK ==
  link \in [Page -> Link \cup {NoLink}] /\ \A p \in Page : PathGood(p)

ClocksOK ==
  /\ reconnecting \in [Page -> BOOLEAN] /\ again \in BOOLEAN
  /\ watch \in [Page -> BOOLEAN]
  /\ timers \in [Page -> Nat] /\ \A p \in Page : timers[p] <= MaxTimers[p]
  /\ newest \in 0 .. timers[0]
  /\ faults \in 0 .. MaxFaults

LEMMA Parts ==
  ASSUME PairingInv
  PROVE  RelayOK /\ LinksOK /\ ClocksOK /\ BoxesGood
  BY DEF PairingInv, TypeOK, RelayOK, LinksOK, ClocksOK, BoxesGood

LEMMA PartsMake ==
  ASSUME RelayOK', LinksOK', ClocksOK', BoxesGood'
  PROVE  PairingInv'
  BY DEF PairingInv, TypeOK, RelayOK, LinksOK, ClocksOK, BoxesGood

LEMMA SamePath ==
  ASSUME PairingInv, NEW q \in Page, link'[q] = link[q], StillThere(q)
  PROVE  PathGood(q)'
<1>1. PathGood(q) /\ link[q] \in Link \cup {NoLink}
  BY DEF PairingInv, TypeOK
<1>2. link[q] # NoLink => link[q].remote \in LinkId \cup {NoLink}
  BY <1>1, LinkFields
<1> QED
  BY <1>1, <1>2 DEF PathGood, StillThere, Described

LEMMA SameLinks ==
  ASSUME PairingInv, UNCHANGED link, \A q \in Page : StillThere(q)
  PROVE  LinksOK'
  BY SamePath, Parts DEF LinksOK

LEMMA LinkAt ==
  ASSUME PairingInv, NEW p \in Page, NEW x \in Link \cup {NoLink},
         link' = [link EXCEPT ![p] = x],
         x # NoLink /\ x.remote # NoLink /\ x.channel = "new" =>
           \/ x.reached
           \/ ~Described(x) /\ x.remote \in x.held
           \/ IceIn(inbox'[p], x.remote),
         StillThere(Peer(p))
  PROVE  LinksOK'
<1>1. /\ link' \in [Page -> Link \cup {NoLink}] /\ link'[p] = x
      /\ \A q \in Page : q # p => link'[q] = link[q]
  BY SetLink DEF PairingInv
<1>2. PathGood(p)'
  BY <1>1 DEF PathGood, Described
<1>3. Peer(p) \in Page /\ Peer(p) # p /\ \A q \in Page : q = p \/ q = Peer(p)
  BY DEF Page, Peer
<1>4. PathGood(Peer(p))'
  BY <1>1, <1>3, SamePath
<1> QED
  BY <1>1, <1>2, <1>3, <1>4 DEF LinksOK

LEMMA EnsureLinkOK ==
  ASSUME PairingInv, NEW p \in Page, NEW remote \in LinkId \cup {NoLink},
         NEW task \in {"offering", "accepting"}, EnsureLink(p, remote, task),
         remote # NoLink => IceIn(inbox'[p], remote), StillThere(Peer(p))
  PROVE  LinksOK'
<1> DEFINE x == NewLink(p, remote, task)
<1>1. x \in Link /\ x.remote = remote
  BY NewLinkType DEF EnsureLink
<1>2. link' = [link EXCEPT ![p] = x]
  BY DEF EnsureLink
<1> HIDE DEF x
<1> QED
  BY <1>1, <1>2, LinkAt

LEMMA NoLinkOK ==
  ASSUME PairingInv, NEW p \in Page, TeardownLink(p), StillThere(Peer(p))
  PROVE  LinksOK'
<1>1. link' = [link EXCEPT ![p] = NoLink]
  BY DEF TeardownLink
<1> QED
  BY <1>1, LinkAt

LEMMA StartPairingOK ==
  ASSUME PairingInv, StartPairing, StillThere(1)
  PROVE  LinksOK'
  BY EnsureLinkOK, Pages DEF StartPairing

LEMMA SameClocks ==
  ASSUME PairingInv, UNCHANGED clocks, UNCHANGED faults \/ Counted
  PROVE  ClocksOK'
<1>1. MaxFaults \in Nat
  BY PairingAssumption
<1> QED
  BY <1>1, Parts DEF ClocksOK, clocks, Counted

\* A description is put in place, with the candidates held for it.
LEMMA FlushedLink ==
  ASSUME NEW x \in Link
  PROVE  LET y == Flushed(x) IN
         /\ y \in Link /\ y.remote = x.remote /\ y.task = "none"
         /\ y.reached = (x.reached \/ x.remote \in x.held)
         /\ y.channel = x.channel
  BY LinkFields DEF Flushed, Link

-----------------------------------------------------------------------------
(* The steps *)

LEMMA JoinKeeps ==
  ASSUME PairingInv, NEW p \in Page, Join(p)
  PROVE  PairingInv'
<1> DEFINE there == transport[Peer(p)] = "joined"
           told == IF there THEN <<Notice("joined")>> ELSE <<>>
           more == inbox[Peer(p)] \o told
<1>1. /\ transport[p] = "connecting"
      /\ transport' = [transport EXCEPT ![p] = "joined"]
      /\ inbox' = [inbox EXCEPT ![p] = told, ![Peer(p)] = @ \o told]
      /\ UNCHANGED <<present, link, clocks, faults>>
  BY DEF Join
<1>2. /\ Peer(p) \in Page /\ Peer(p) # p /\ \A q \in Page : q = p \/ q = Peer(p)
  BY DEF Page, Peer
<1>3. /\ DOMAIN transport = Page /\ inbox \in [Page -> Seq(Messages)]
      /\ inbox[p] = <<>> /\ inbox[Peer(p)] \in Seq(Messages)
      /\ BoxGood(Peer(p))
  BY <1>1, <1>2 DEF PairingInv, TypeOK, BoxGood
<1>4. told \in Seq(Messages) /\ Followed(told)
  BY MessageTypes DEF Followed
<1>5. /\ more \in Seq(Messages) /\ Followed(more)
      /\ \A id : IceIn(inbox[Peer(p)], id) => IceIn(more, id)
      /\ ~there => more = inbox[Peer(p)]
  <2>1. CASE there
    <3>1. more = Append(inbox[Peer(p)], Notice("joined"))
      BY <1>3, <2>1, MessageTypes
    <3> QED
      BY <1>3, <2>1, <3>1, AppendFollowed, MessageTypes DEF BoxGood
  <2>2. CASE ~there
    <3>1. more = inbox[Peer(p)]
      BY <1>3, <2>2
    <3> QED
      BY <1>3, <3>1 DEF BoxGood
  <2> QED
    BY <2>1, <2>2
<1>6. /\ inbox' \in [Page -> Seq(Messages)]
      /\ inbox'[p] = told /\ inbox'[Peer(p)] = more
      /\ transport'[p] = "joined" /\ transport'[Peer(p)] = transport[Peer(p)]
  BY <1>1, <1>2, <1>3, <1>4, <1>5
<1> HIDE DEF told, more
<1>7. BoxGood(p)' /\ BoxGood(Peer(p))'
  BY <1>2, <1>3, <1>4, <1>5, <1>6 DEF BoxGood
<1>8. StillThere(p) /\ StillThere(Peer(p))
  <2>1. ~\E i \in DOMAIN inbox[p] : TRUE
    BY <1>3
  <2>2. StillThere(p)
    BY <2>1 DEF StillThere, IceIn
  <2>3. StillThere(Peer(p))
    BY <1>5, <1>6 DEF StillThere
  <2> QED
    BY <2>2, <2>3
<1>9. BoxesGood' /\ \A q \in Page : StillThere(q)
  BY <1>2, <1>6, <1>7, <1>8 DEF BoxesGood
<1>10. RelayOK'
  BY <1>1, Parts DEF RelayOK
<1> QED
  BY <1>1, <1>9, <1>10, SameClocks, SameLinks, PartsMake

LEMMA HearJoinedKeeps ==
  ASSUME PairingInv, NEW p \in Page, HearJoined(p)
  PROVE  PairingInv'
<1>1. /\ Hear(p, "joined") /\ present' = [present EXCEPT ![p] = TRUE]
      /\ IF Initiator(p) THEN StartPairing ELSE UNCHANGED link
  BY DEF HearJoined
<1>2. BoxesGood' /\ StillThere(p) /\ StillThere(Peer(p)) /\ ClocksOK'
  BY <1>1, HearEffect, SameClocks DEF Hear
<1>3. RelayOK'
  BY <1>1, Parts DEF RelayOK, Hear
<1>4. \A q \in Page : StillThere(q)
  BY <1>2 DEF Page, Peer
<1>5. LinksOK'
  BY <1>1, <1>4, Pages, StartPairingOK, SameLinks DEF Initiator
<1> QED
  BY <1>2, <1>3, <1>5, PartsMake

LEMMA HearLeftKeeps ==
  ASSUME PairingInv, NEW p \in Page, HearLeft(p)
  PROVE  PairingInv'
<1>1. /\ Hear(p, "left") /\ present' = [present EXCEPT ![p] = FALSE]
      /\ TeardownLink(p)
  BY DEF HearLeft
<1>2. BoxesGood' /\ StillThere(Peer(p)) /\ ClocksOK'
  BY <1>1, HearEffect, SameClocks DEF Hear
<1>3. RelayOK'
  BY <1>1, Parts DEF RelayOK, Hear
<1> QED
  BY <1>1, <1>2, <1>3, NoLinkOK, PartsMake

LEMMA HearOfferKeeps ==
  ASSUME PairingInv, HearOffer
  PROVE  PairingInv'
<1>1. Hear(1, "offer") /\ EnsureLink(1, Heard(1), "accepting") /\ UNCHANGED present
  BY DEF HearOffer
<1>2. /\ BoxesGood' /\ StillThere(Peer(1)) /\ Heard(1) \in LinkId
      /\ IceIn(inbox'[1], Heard(1)) /\ ClocksOK'
  BY <1>1, HearEffect, Pages, SameClocks DEF Hear
<1>3. RelayOK'
  BY <1>1, Parts DEF RelayOK, Hear
<1>4. LinksOK'
  BY <1>1, <1>2, EnsureLinkOK, Pages
<1> QED
  BY <1>2, <1>3, <1>4, PartsMake

LEMMA HearAnswerKeeps ==
  ASSUME PairingInv, HearAnswer
  PROVE  PairingInv'
<1>1. /\ Hear(0, "answer") /\ UNCHANGED present
      /\ link' = IF Expected
                   THEN [link EXCEPT ![0].remote = Heard(0), ![0].task = "taking"]
                   ELSE link
  BY DEF HearAnswer
<1>2. /\ BoxesGood' /\ StillThere(0) /\ StillThere(1) /\ Heard(0) \in LinkId
      /\ IceIn(inbox'[0], Heard(0)) /\ ClocksOK'
  BY <1>1, HearEffect, Pages, SameClocks DEF Hear
<1>3. RelayOK'
  BY <1>1, Parts DEF RelayOK, Hear
<1>4. CASE Expected
  <2> DEFINE x == [link[0] EXCEPT !.remote = Heard(0), !.task = "taking"]
  <2>1. link[0] \in Link
    BY <1>4, Pages, Parts DEF LinksOK, Expected
  <2>2. x \in Link /\ x.remote = Heard(0)
    BY <1>2, <2>1 DEF Link
  <2>3. link' = [link EXCEPT ![0] = x]
    BY <1>1, <1>4, Pages, Parts DEF LinksOK
  <2> HIDE DEF x
  <2>4. LinksOK'
    BY <1>2, <2>2, <2>3, LinkAt, Pages
  <2> QED
    BY <1>2, <1>3, <2>4, PartsMake
<1>5. CASE ~Expected
  <2>1. LinksOK'
    BY <1>1, <1>2, <1>5, SameLinks DEF Page
  <2> QED
    BY <1>2, <1>3, <2>1, PartsMake
<1> QED
  BY <1>4, <1>5

LEMMA HearCandidateKeeps ==
  ASSUME PairingInv, NEW p \in Page, HearCandidate(p)
  PROVE  PairingInv'
<1>1. /\ Hear(p, "ice") /\ UNCHANGED present
      /\ link' = IF link[p] = NoLink
                   THEN link
                   ELSE [link EXCEPT ![p] = WithCandidate(@, Heard(p))]
  BY DEF HearCandidate
<1>2. /\ BoxesGood' /\ StillThere(Peer(p)) /\ Heard(p) \in LinkId /\ ClocksOK'
      /\ \A id \in LinkId : IceIn(inbox[p], id) =>
           Heard(p) = id \/ IceIn(inbox'[p], id)
  BY <1>1, HearEffect, SameClocks DEF Hear
<1>3. RelayOK'
  BY <1>1, Parts DEF RelayOK, Hear
<1>4. link[p] \in Link \cup {NoLink} /\ PathGood(p)
  BY Parts DEF LinksOK
<1>5. CASE link[p] = NoLink
  <2>1. link' = [link EXCEPT ![p] = NoLink]
    BY <1>1, <1>5, Parts DEF LinksOK
  <2> QED
    BY <1>2, <1>3, <2>1, LinkAt, PartsMake
<1>6. CASE link[p] # NoLink
  <2> DEFINE l == link[p]
             x == WithCandidate(l, Heard(p))
  <2>1. l \in Link /\ l.held \subseteq LinkId /\ l.remote \in LinkId \cup {NoLink}
    BY <1>4, <1>6, LinkFields
  <2>2. link' = [link EXCEPT ![p] = x]
    BY <1>1, <1>6, Parts DEF LinksOK
  <2>3. CASE Described(l)
    <3>1. x = [l EXCEPT !.reached = l.reached \/ Heard(p) = l.remote]
      BY <2>3 DEF WithCandidate
    <3>2. /\ x \in Link /\ x.remote = l.remote /\ x.channel = l.channel
          /\ x.reached = (l.reached \/ Heard(p) = l.remote)
      BY <2>1, <3>1 DEF Link
    <3>3. l.remote # NoLink /\ l.channel = "new" =>
            l.reached \/ IceIn(inbox[p], l.remote)
      BY <1>4, <1>6, <2>3 DEF PathGood
    <3> HIDE DEF x, l
    <3>4. LinksOK'
      BY <1>2, <2>1, <2>2, <3>2, <3>3, LinkAt
    <3> QED
      BY <1>2, <1>3, <3>4, PartsMake
  <2>4. CASE ~Described(l)
    <3>1. x = [l EXCEPT !.held = l.held \cup {Heard(p)}]
      BY <2>4 DEF WithCandidate
    <3>2. /\ x \in Link /\ x.remote = l.remote /\ x.channel = l.channel
          /\ x.reached = l.reached /\ x.held = l.held \cup {Heard(p)}
          /\ x.task = l.task
      BY <1>2, <2>1, <3>1 DEF Link
    <3>3. l.remote # NoLink /\ l.channel = "new" =>
            l.reached \/ l.remote \in l.held \/ IceIn(inbox[p], l.remote)
      BY <1>4, <1>6 DEF PathGood
    <3>4. ~Described(x)
      BY <2>4, <3>2 DEF Described
    <3> HIDE DEF x, l
    <3>5. LinksOK'
      BY <1>2, <2>1, <2>2, <3>2, <3>3, <3>4, LinkAt
    <3> QED
      BY <1>2, <1>3, <3>5, PartsMake
  <2> QED
    BY <2>3, <2>4
<1> QED
  BY <1>5, <1>6

LEMMA CreateOfferKeeps ==
  ASSUME PairingInv, CreateOffer
  PROVE  PairingInv'
<1>1. /\ link[0] # NoLink /\ link[0].task = "offering"
      /\ link' = [link EXCEPT ![0].local = TRUE, ![0].task = "none"]
      /\ Deliver(0, Description(0, "offer"))
      /\ UNCHANGED <<transport, present, clocks, faults>>
  BY DEF CreateOffer
<1>2. BoxesGood' /\ StillThere(0) /\ StillThere(1) /\ ClocksOK'
  BY <1>1, DeliverEffect, Pages, SameClocks
<1>3. RelayOK'
  BY <1>1, Parts DEF RelayOK
<1> DEFINE x == [link[0] EXCEPT !.local = TRUE, !.task = "none"]
<1>4. link[0] \in Link /\ PathGood(0)
  BY <1>1, Pages, Parts DEF LinksOK
<1>5. /\ x \in Link /\ x.remote = link[0].remote /\ x.reached = link[0].reached
      /\ x.held = link[0].held /\ x.channel = link[0].channel /\ x.task = "none"
      /\ link[0].remote \in LinkId \cup {NoLink}
  BY <1>4 DEF Link
<1>6. link' = [link EXCEPT ![0] = x]
  BY <1>1, Pages, Parts DEF LinksOK
<1> HIDE DEF x
<1>7. LinksOK'
  BY <1>1, <1>2, <1>4, <1>5, <1>6, LinkAt, Pages DEF PathGood, Described, StillThere
<1> QED
  BY <1>2, <1>3, <1>7, PartsMake

LEMMA CreateAnswerKeeps ==
  ASSUME PairingInv, CreateAnswer
  PROVE  PairingInv'
<1>1. /\ link[1] # NoLink /\ link[1].task = "answering"
      /\ link' = [link EXCEPT ![1].local = TRUE, ![1].task = "none"]
      /\ Deliver(1, Description(1, "answer"))
      /\ UNCHANGED <<transport, present, clocks, faults>>
  BY DEF CreateAnswer
<1>2. BoxesGood' /\ StillThere(0) /\ StillThere(1) /\ ClocksOK'
  BY <1>1, DeliverEffect, Pages, SameClocks
<1>3. RelayOK'
  BY <1>1, Parts DEF RelayOK
<1> DEFINE x == [link[1] EXCEPT !.local = TRUE, !.task = "none"]
<1>4. link[1] \in Link /\ PathGood(1)
  BY <1>1, Pages, Parts DEF LinksOK
<1>5. /\ x \in Link /\ x.remote = link[1].remote /\ x.reached = link[1].reached
      /\ x.held = link[1].held /\ x.channel = link[1].channel /\ x.task = "none"
      /\ link[1].remote \in LinkId \cup {NoLink}
  BY <1>4 DEF Link
<1>6. link' = [link EXCEPT ![1] = x]
  BY <1>1, Pages, Parts DEF LinksOK
<1> HIDE DEF x
<1>7. LinksOK'
  BY <1>1, <1>2, <1>4, <1>5, <1>6, LinkAt, Pages DEF PathGood, Described, StillThere
<1> QED
  BY <1>2, <1>3, <1>7, PartsMake

\* The remote description is in place: what was held for it is applied.
LEMMA DescriptionSetKeeps ==
  ASSUME PairingInv, OfferSet \/ AnswerSet
  PROVE  PairingInv'
<1>1. /\ UNCHANGED <<relayVars, clocks, faults>>
      /\ \E p \in Page : \E task \in {"none", "answering"} :
           /\ link[p] # NoLink
           /\ link' = [link EXCEPT ![p] = [Flushed(link[p]) EXCEPT !.task = task]]
  <2>1. CASE OfferSet
    BY <2>1, Pages, Parts DEF OfferSet, LinksOK
  <2>2. CASE AnswerSet
    <3>1. link[0] \in Link
      BY <2>2, Pages, Parts DEF AnswerSet, LinksOK
    <3>2. Flushed(link[0]) = [Flushed(link[0]) EXCEPT !.task = "none"]
      BY <3>1 DEF Flushed, Link
    <3> QED
      BY <2>2, <3>2, Pages, Parts DEF AnswerSet, LinksOK
  <2> QED
    BY <2>1, <2>2
<1>2. PICK p \in Page, task \in {"none", "answering"} :
        /\ link[p] # NoLink
        /\ link' = [link EXCEPT ![p] = [Flushed(link[p]) EXCEPT !.task = task]]
  BY <1>1
<1>3. link[p] \in Link /\ PathGood(p)
  BY <1>2, Parts DEF LinksOK
<1> DEFINE y == Flushed(link[p])
           x == [y EXCEPT !.task = task]
<1>4. /\ y \in Link /\ y.remote = link[p].remote
      /\ y.reached = (link[p].reached \/ link[p].remote \in link[p].held)
      /\ y.channel = link[p].channel
  BY <1>3, FlushedLink
<1>5. link' = [link EXCEPT ![p] = x]
  BY <1>2
<1> HIDE DEF y
<1>6. /\ x \in Link /\ x.remote = y.remote /\ x.reached = y.reached
      /\ x.channel = y.channel
  BY <1>4 DEF Link
<1> HIDE DEF x
<1>7. RelayOK' /\ ClocksOK' /\ BoxesGood' /\ \A q \in Page : StillThere(q)
  BY <1>1, Parts, SameClocks, SameBoxes DEF RelayOK, relayVars
<1>8. link[p].remote \in LinkId \cup {NoLink} /\ Peer(p) \in Page
  BY <1>3, LinkFields, Pages
<1>9. LinksOK'
  BY <1>2, <1>3, <1>4, <1>5, <1>6, <1>7, <1>8, LinkAt DEF PathGood, StillThere
<1> QED
  BY <1>7, <1>9, PartsMake

\* The channel comes up or goes down, or the link fails.
LEMMA ChannelAt ==
  ASSUME PairingInv, NEW p \in Page, link[p] # NoLink,
         NEW channel \in {"new", "open", "closed"},
         channel = "new" => link[p].channel = "new",
         NEW failed \in BOOLEAN,
         link' = [link EXCEPT ![p] = [@ EXCEPT !.channel = channel, !.failed = failed]],
         UNCHANGED inbox
  PROVE  LinksOK'
<1>1. link[p] \in Link /\ PathGood(p)
  BY Parts DEF LinksOK
<1> DEFINE x == [link[p] EXCEPT !.channel = channel, !.failed = failed]
<1>2. /\ x \in Link /\ x.remote = link[p].remote /\ x.reached = link[p].reached
      /\ x.held = link[p].held /\ x.task = link[p].task /\ x.channel = channel
  BY <1>1 DEF Link
<1>3. link' = [link EXCEPT ![p] = x]
  OBVIOUS
<1> HIDE DEF x
<1>4. StillThere(Peer(p))
  BY DEF StillThere
<1> QED
  BY <1>1, <1>2, <1>3, <1>4, LinkAt DEF PathGood, Described

LEMMA ChannelOpenKeeps ==
  ASSUME PairingInv, NEW p \in Page, ChannelOpen(p)
  PROVE  PairingInv'
<1>1. /\ CanOpen(p) /\ timers[p] < MaxTimers[p]
      /\ link' = [link EXCEPT ![p].channel = "open"]
      /\ timers' = [timers EXCEPT ![p] = @ + 1]
      /\ newest' = newest + (IF Initiator(p) /\ again THEN 1 ELSE 0)
      /\ UNCHANGED <<relayVars, reconnecting, again, watch, faults>>
  BY DEF ChannelOpen
<1>2. RelayOK' /\ BoxesGood'
  BY <1>1, Parts, SameBoxes DEF RelayOK, relayVars
<1>3. link[p] \in Link
  BY <1>1, Parts DEF LinksOK, CanOpen, Agreed
<1>4. link' = [link EXCEPT ![p] = [@ EXCEPT !.channel = "open", !.failed = link[p].failed]]
  <2>1. [link[p] EXCEPT !.channel = "open"]
          = [link[p] EXCEPT !.channel = "open", !.failed = link[p].failed]
    BY <1>3 DEF Link
  <2> QED
    BY <1>1, <2>1, Parts DEF LinksOK
<1>5. LinksOK'
  BY <1>1, <1>3, <1>4, ChannelAt, LinkFields DEF relayVars, CanOpen, Agreed
<1>6. ClocksOK'
  <2>1. ClocksOK /\ MaxTimers \in [{0, 1} -> Nat \ {0}]
    BY Parts, PairingAssumption
  <2>2. timers' \in [Page -> Nat] /\ \A q \in Page : timers'[q] <= MaxTimers[q]
    BY <1>1, <2>1 DEF ClocksOK, Page
  <2>3. newest' \in 0 .. timers'[0]
    BY <1>1, <2>1 DEF ClocksOK, Page, Initiator
  <2> QED
    BY <1>1, <2>1, <2>2, <2>3 DEF ClocksOK
<1> QED
  BY <1>2, <1>5, <1>6, PartsMake

LEMMA ChannelClosedKeeps ==
  ASSUME PairingInv, NEW p \in Page, ChannelClosed(p)
  PROVE  PairingInv'
<1>1. /\ link[p] # NoLink
      /\ link' = [link EXCEPT ![p].channel = "closed"]
      /\ UNCHANGED <<relayVars, clocks, faults>>
  BY DEF ChannelClosed, Open
<1>2. RelayOK' /\ BoxesGood' /\ ClocksOK'
  BY <1>1, Parts, SameBoxes, SameClocks DEF RelayOK, relayVars
<1>3. link[p] \in Link
  BY <1>1, Parts DEF LinksOK
<1>4. link' = [link EXCEPT ![p] = [@ EXCEPT !.channel = "closed", !.failed = link[p].failed]]
  <2>1. [link[p] EXCEPT !.channel = "closed"]
          = [link[p] EXCEPT !.channel = "closed", !.failed = link[p].failed]
    BY <1>3 DEF Link
  <2> QED
    BY <1>1, <2>1, Parts DEF LinksOK
<1>5. LinksOK'
  BY <1>1, <1>3, <1>4, ChannelAt, LinkFields DEF relayVars
<1> QED
  BY <1>2, <1>5, PartsMake

LEMMA FailedKeeps ==
  ASSUME PairingInv, NEW p \in Page, LinkFails(p) \/ NetworkFails(p)
  PROVE  PairingInv'
<1>1. /\ link[p] # NoLink /\ Failed(p) /\ (UNCHANGED faults \/ Counted)
  BY DEF LinkFails, NetworkFails, Doomed, Agreed
<1>2. /\ link' = [link EXCEPT ![p].failed = TRUE]
      /\ reconnecting' = [reconnecting EXCEPT ![p] = TRUE]
      /\ UNCHANGED <<relayVars, again, watch, timers, newest>>
  BY <1>1 DEF Failed, RetryPairing
<1>3. RelayOK' /\ BoxesGood'
  BY <1>2, Parts, SameBoxes DEF RelayOK, relayVars
<1>4. link[p] \in Link
  BY <1>1, Parts DEF LinksOK
<1>5. link' = [link EXCEPT ![p] = [@ EXCEPT !.channel = link[p].channel, !.failed = TRUE]]
  <2>1. [link[p] EXCEPT !.failed = TRUE]
          = [link[p] EXCEPT !.channel = link[p].channel, !.failed = TRUE]
    BY <1>4 DEF Link
  <2> QED
    BY <1>2, <2>1, Parts DEF LinksOK
<1>6. LinksOK'
  BY <1>1, <1>2, <1>4, <1>5, ChannelAt, LinkFields DEF relayVars
<1>7. ClocksOK'
  BY <1>1, <1>2, Parts, PairingAssumption DEF ClocksOK, Counted
<1> QED
  BY <1>3, <1>6, <1>7, PartsMake

LEMMA WatchKeeps ==
  ASSUME PairingInv, NEW p \in Page, Disconnected(p) \/ WatchEnds(p)
  PROVE  PairingInv'
<1>1. /\ UNCHANGED <<relayVars, link, again, timers, newest>>
      /\ \E b \in BOOLEAN : watch' = [watch EXCEPT ![p] = b]
      /\ \/ UNCHANGED reconnecting
         \/ reconnecting' = [reconnecting EXCEPT ![p] = TRUE]
      /\ UNCHANGED faults \/ Counted
  BY DEF Disconnected, WatchEnds, RetryPairing
<1>2. RelayOK' /\ BoxesGood' /\ LinksOK'
  BY <1>1, Parts, SameBoxes, SameLinks DEF RelayOK, relayVars
<1>3. ClocksOK'
  <2>1. ClocksOK /\ MaxFaults \in Nat
    BY Parts, PairingAssumption
  <2>2. watch' \in [Page -> BOOLEAN]
    BY <1>1, <2>1 DEF ClocksOK
  <2>3. reconnecting' \in [Page -> BOOLEAN]
    BY <1>1, <2>1 DEF ClocksOK
  <2>4. faults' \in 0 .. MaxFaults
    BY <1>1, <2>1 DEF ClocksOK, Counted
  <2> QED
    BY <1>1, <2>1, <2>2, <2>3, <2>4 DEF ClocksOK
<1> QED
  BY <1>2, <1>3, PartsMake

LEMMA AttachTransportKeeps ==
  ASSUME PairingInv, NEW p \in Page, AttachTransport(p)
  PROVE  RelayOK' /\ BoxesGood' /\ LinksOK'
<1>1. /\ transport' = [transport EXCEPT ![p] = "connecting"]
      /\ present' = [present EXCEPT ![p] = FALSE]
      /\ inbox' = HungUp(p) /\ TeardownLink(p)
  BY DEF AttachTransport
<1>2. RelayOK'
  BY <1>1, Parts DEF RelayOK
<1> QED
  BY <1>1, <1>2, HungUpEffect, NoLinkOK

LEMMA RetryWakesKeeps ==
  ASSUME PairingInv, NEW p \in Page, RetryWakes(p)
  PROVE  PairingInv'
<1>1. /\ reconnecting' = [reconnecting EXCEPT ![p] = FALSE]
      /\ again' \in BOOLEAN
      /\ AttachTransport(p)
      /\ UNCHANGED <<watch, timers, newest, faults>>
  BY Parts DEF RetryWakes, Initiator, ClocksOK
<1>2. ClocksOK'
  BY <1>1, Parts DEF ClocksOK
<1> QED
  BY <1>1, <1>2, AttachTransportKeeps, PartsMake

LEMMA OfferAgainKeeps ==
  ASSUME PairingInv, OfferAgain
  PROVE  PairingInv'
<1>1. /\ again' = FALSE /\ newest' = 0
      /\ IF present[0] THEN StartPairing ELSE UNCHANGED link
      /\ UNCHANGED <<relayVars, reconnecting, watch, timers, faults>>
  BY DEF OfferAgain
<1>2. RelayOK' /\ BoxesGood' /\ \A q \in Page : StillThere(q)
  BY <1>1, Parts, SameBoxes DEF RelayOK, relayVars
<1>3. LinksOK'
  BY <1>1, <1>2, StartPairingOK, SameLinks, Pages
<1>4. ClocksOK'
  <2>1. ClocksOK /\ timers[0] \in Nat
    BY Parts DEF ClocksOK, Page
  <2>2. newest' \in 0 .. timers'[0]
    BY <1>1, <2>1
  <2> QED
    BY <1>1, <2>1, <2>2 DEF ClocksOK
<1> QED
  BY <1>2, <1>3, <1>4, PartsMake

LEMMA ReleaseSignalingKeeps ==
  ASSUME PairingInv, NEW p \in Page, ReleaseSignaling(p)
  PROVE  PairingInv'
<1>1. /\ timers[p] > (IF Initiator(p) THEN newest ELSE 0)
      /\ timers' = [timers EXCEPT ![p] = @ - 1]
      /\ IF Open(p) /\ transport[p] # "released"
           THEN /\ transport' = [transport EXCEPT ![p] = "released"]
                /\ inbox' = HungUp(p)
           ELSE UNCHANGED <<transport, inbox>>
      /\ UNCHANGED <<present, link, reconnecting, again, watch, newest, faults>>
  BY DEF ReleaseSignaling, TimerEnds
<1>2. ClocksOK'
  <2>1. ClocksOK /\ MaxTimers \in [{0, 1} -> Nat \ {0}]
    BY Parts, PairingAssumption
  <2>2. timers[p] \in Nat \ {0} /\ timers[p] <= MaxTimers[p] /\ newest \in Nat
    BY <1>1, <2>1, Pages DEF ClocksOK, Page, Initiator
  <2>3. timers' \in [Page -> Nat] /\ \A q \in Page : timers'[q] <= MaxTimers[q]
    BY <1>1, <2>1, <2>2 DEF ClocksOK, Page
  <2>4. newest' \in 0 .. timers'[0]
    BY <1>1, <2>1, <2>2 DEF ClocksOK, Page, Initiator
  <2> QED
    BY <1>1, <2>1, <2>3, <2>4 DEF ClocksOK
<1>3. CASE Open(p) /\ transport[p] # "released"
  <2>1. /\ transport' = [transport EXCEPT ![p] = "released"]
        /\ inbox' = HungUp(p) /\ link' = link
    BY <1>1, <1>3
  <2>2. RelayOK' /\ BoxesGood' /\ StillThere(Peer(p))
    BY <1>1, <2>1, HungUpEffect, Parts DEF RelayOK
  <2>3. /\ link' = [link EXCEPT ![p] = link[p]] /\ link[p].channel # "new"
        /\ link[p] \in Link \cup {NoLink}
    BY <1>3, <2>1, Parts DEF LinksOK, Open
  <2>4. LinksOK'
    BY <2>2, <2>3, LinkAt
  <2> QED
    BY <1>2, <2>2, <2>4, PartsMake
<1>4. CASE ~(Open(p) /\ transport[p] # "released")
  <2>1. RelayOK' /\ BoxesGood' /\ LinksOK'
    BY <1>1, <1>4, Parts, SameBoxes, SameLinks DEF RelayOK
  <2> QED
    BY <1>2, <2>1, PartsMake
<1> QED
  BY <1>3, <1>4

LEMMA UserKeeps ==
  ASSUME PairingInv, NEW p \in Page, User(p)
  PROVE  PairingInv'
<1>1. CASE PressReconnect(p)
  BY <1>1, AttachTransportKeeps, SameClocks, PartsMake DEF PressReconnect
<1>2. CASE Reload(p)
  <2>1. /\ Counted /\ AttachTransport(p)
        /\ reconnecting' = [reconnecting EXCEPT ![p] = FALSE]
        /\ again' \in BOOLEAN
        /\ watch' = [watch EXCEPT ![p] = FALSE]
        /\ timers' = [timers EXCEPT ![p] = 0]
        /\ newest' = (IF Initiator(p) THEN 0 ELSE newest)
    BY <1>2, Parts DEF Reload, Initiator, ClocksOK
  <2>2. ClocksOK'
    <3>1. ClocksOK /\ MaxTimers \in [{0, 1} -> Nat \ {0}] /\ MaxFaults \in Nat
      BY Parts, PairingAssumption
    <3>2. timers' \in [Page -> Nat] /\ \A q \in Page : timers'[q] <= MaxTimers[q]
      BY <2>1, <3>1 DEF ClocksOK, Page
    <3>3. newest' \in 0 .. timers'[0]
      BY <2>1, <3>1 DEF ClocksOK, Page, Initiator
    <3> QED
      BY <2>1, <3>1, <3>2, <3>3 DEF ClocksOK, Counted
  <2> QED
    BY <2>1, <2>2, AttachTransportKeeps, PartsMake
<1>3. CASE PressPair
  <2>1. Counted /\ StartPairing /\ UNCHANGED <<relayVars, clocks>>
    BY <1>3 DEF PressPair
  <2>2. RelayOK' /\ BoxesGood' /\ \A q \in Page : StillThere(q)
    BY <2>1, Parts, SameBoxes DEF RelayOK, relayVars
  <2>3. LinksOK'
    BY <2>1, <2>2, StartPairingOK, Pages
  <2> QED
    BY <2>1, <2>2, <2>3, SameClocks, PartsMake
<1> QED
  BY <1>1, <1>2, <1>3 DEF User

-----------------------------------------------------------------------------
(* The theorems *)

LEMMA PairingInit == Init => PairingInv
<1> SUFFICES ASSUME Init PROVE PairingInv
  OBVIOUS
<1>1. TypeOK
  <2>1. MaxFaults \in Nat /\ \A p \in Page : MaxTimers[p] \in Nat
    BY PairingAssumption DEF Page
  <2>2. inbox \in [Page -> Seq(Messages)]
    BY DEF Init
  <2>3. timers \in [Page -> Nat] /\ (\A p \in Page : timers[p] <= MaxTimers[p])
        /\ newest \in 0 .. timers[0]
    BY <2>1, Pages DEF Init
  <2>4. faults \in 0 .. MaxFaults
    BY <2>1 DEF Init
  <2>5. /\ transport \in [Page -> {"connecting", "joined", "released"}]
        /\ present \in [Page -> BOOLEAN]
        /\ link \in [Page -> Link \cup {NoLink}]
    BY DEF Init
  <2>6. /\ reconnecting \in [Page -> BOOLEAN] /\ again \in BOOLEAN
        /\ watch \in [Page -> BOOLEAN]
    BY DEF Init
  <2> QED
    BY <2>2, <2>3, <2>4, <2>5, <2>6 DEF TypeOK
<1>2. \A p \in Page : BoxGood(p) /\ PathGood(p)
  BY DEF Init, BoxGood, Followed, PathGood
<1> QED
  BY <1>1, <1>2 DEF PairingInv

LEMMA PairingStep == PairingInv /\ [Next]_vars => PairingInv'
<1> SUFFICES ASSUME PairingInv, [Next]_vars PROVE PairingInv'
  OBVIOUS
<1>1. CASE UNCHANGED vars
  <2>1. UNCHANGED <<relayVars, link, clocks, faults>>
    BY <1>1 DEF vars
  <2>2. RelayOK' /\ BoxesGood' /\ \A q \in Page : StillThere(q)
    BY <2>1, Parts, SameBoxes DEF RelayOK, relayVars
  <2> QED
    BY <2>1, <2>2, SameLinks, SameClocks, PartsMake
<1>2. ASSUME NEW p \in Page, Join(p) \/ ReleaseSignaling(p) \/ User(p)
      PROVE  PairingInv'
  BY <1>2, JoinKeeps, ReleaseSignalingKeeps, UserKeeps
<1>3. ASSUME NEW p \in Page, Signal(p)
      PROVE  PairingInv'
  BY <1>3, HearJoinedKeeps, HearLeftKeeps, HearCandidateKeeps, HearOfferKeeps,
     HearAnswerKeeps DEF Signal
<1>4. ASSUME NEW p \in Page, Negotiate(p) \/ Sleep(p)
      PROVE  PairingInv'
  BY <1>4, CreateOfferKeeps, CreateAnswerKeeps, DescriptionSetKeeps,
     RetryWakesKeeps, WatchKeeps, OfferAgainKeeps DEF Negotiate, Sleep
<1>5. ASSUME NEW p \in Page, Connection(p) \/ Fault(p)
      PROVE  PairingInv'
  BY <1>5, ChannelOpenKeeps, ChannelClosedKeeps, FailedKeeps, WatchKeeps
  DEF Connection, Fault
<1> QED
  BY <1>1, <1>2, <1>3, <1>4, <1>5 DEF Next, Task

LEMMA PairingInvariant == Spec => []PairingInv
  BY PairingInit, PairingStep, PTL DEF Spec

\* The state of a pairing is what the declarations of app.rs and peer.rs say,
\* and its clocks stay within their bounds: no hang-up timer ends that did not
\* begin.
THEOREM PairingTypeCorrect == Spec => []TypeOK
<1>1. PairingInv => TypeOK
  BY DEF PairingInv
<1> QED
  BY <1>1, PairingInvariant, PTL

\* PairingInv is more than enough for CandidatesKept.
LEMMA PairingInvKeeps == PairingInv => CandidatesKept
<1> SUFFICES ASSUME PairingInv, Agreed, NEW p \in Page,
                    link[p].channel = "new", inbox[p] = <<>>
             PROVE  link[p].reached
  BY DEF CandidatesKept
<1>1. /\ link[p] # NoLink /\ Described(link[p]) /\ link[p].remote # NoLink
      /\ PathGood(p)
  BY DEF Agreed, PairingInv, Described
<1>2. ~IceIn(inbox[p], link[p].remote)
  BY DEF IceIn
<1> QED
  BY <1>1, <1>2 DEF PathGood

\* add_candidate and flush_candidates lose none: whatever the order in which
\* offer, answer, candidates and the ends of the async calls come, a link that
\* agrees with its peer's and has nothing left to hear has a candidate of it.
THEOREM NoCandidateLost == Spec => []CandidatesKept
  BY PairingInvKeeps, PairingInvariant, PTL

-----------------------------------------------------------------------------
(* How a pair gets stuck: a second invariant, on top of the first *)

\* What a link knows and what is due for it go together, by role.
Shaped(p) ==
  link[p] # NoLink =>
    /\ link[p].task \in (IF Initiator(p) THEN {"none", "offering", "taking"}
                                         ELSE {"none", "accepting", "answering"})
    /\ link[p].task \in {"none", "taking"} => link[p].local
    /\ link[p].remote = NoLink => Initiator(p) /\ link[p].task # "taking"
    /\ link[p].remote # NoLink => link[p].task # "offering"

Matched(p) ==
  LET other == link[Peer(p)] IN
  other # NoLink /\ other.id = link[p].remote /\ other.remote = link[p].id

Severed(p) == link[p].failed \/ Doomed(p)

\* A link whose channel has been open has its other end, or has lost it and
\* will fail; once closed it has.
Raised(p) ==
  link[p] # NoLink /\ link[p].channel # "new" =>
    /\ link[p].remote # NoLink
    /\ Matched(p) \/ Severed(p)
    /\ link[p].channel = "closed" => Severed(p)

Retrying(p) == link[p] # NoLink /\ link[p].failed => reconnecting[p]

\* A page that has left the relay has a link, if of page 0 perhaps a newer one.
LeftWithLink(p) ==
  transport[p] = "released" =>
    link[p] # NoLink /\ (link[p].channel = "new" => Initiator(p))

LinkInv(p) == Shaped(p) /\ Raised(p) /\ Retrying(p) /\ LeftWithLink(p)

BothJoined == \A p \in Page : transport[p] = "joined"

\* The last notice in the box is "joined".
Recalled(box) ==
  \E i \in DOMAIN box :
    /\ box[i].kind = "joined"
    /\ \A j \in DOMAIN box : j > i => box[j].kind # "left"

NoLeft(box) == \A i \in DOMAIN box : box[i].kind # "left"

\* Nothing in the box will take the link away that was made last.
Clear(box) == \A i \in DOMAIN box : box[i].kind \notin {"left", "offer"}

\* The offer of link id is in the box, and nothing comes after it that would
\* take the link away that is made for it.
LastOffer(box, id) ==
  \E i \in DOMAIN box :
    /\ box[i].kind = "offer" /\ box[i].id = id
    /\ \A j \in DOMAIN box : j > i => box[j].kind \notin {"left", "offer"}

AnswerIn(box) == \E i \in DOMAIN box : box[i].kind = "answer"

\* An answer is on its way to page 0 or about to be.
Answering ==
  /\ link[1] # NoLink /\ link[1].remote = link[0].id
  /\ Clear(inbox[1])
  /\ Pending(1) \/ AnswerIn(inbox[0])

Underway ==
  \/ link[0].task = "offering"
  \/ LastOffer(inbox[1], link[0].id)
  \/ Answering

\* Two pages at the relay: page 0 will hear that its peer is there and start
\* over, or has made an offer that is answered or will be.
Offered ==
  BothJoined =>
    \/ Recalled(inbox[0])
    \/ /\ NoLeft(inbox[0]) /\ link[0] # NoLink
       /\ link[0].remote # NoLink \/ Underway

StuckInv == PairingInv /\ Offered /\ \A p \in Page : LinkInv(p)

-----------------------------------------------------------------------------
(* What a step does to a link, to the sleeps and to who has left *)

\* A new link, under a name nobody holds.
Replaced(p) ==
  /\ link'[p] # NoLink /\ link'[p].id \in FreeId(p)
  /\ link'[p].channel = "new" /\ ~link'[p].failed
  /\ transport'[p] = "released" => Initiator(p)

\* The same link, further on.
Continued(p) ==
  /\ link[p] # NoLink /\ link'[p] # NoLink /\ link'[p].id = link[p].id
  /\ link[p].remote # NoLink => link'[p].remote = link[p].remote
  /\ link[p].failed => link'[p].failed
  /\ link'[p].failed => link[p].failed \/ reconnecting'[p]
  /\ \/ link'[p].channel = link[p].channel
     \/ link'[p].channel = "open" /\ Agreed
     \/ link'[p].channel = "closed" /\ Doomed(p)

Moved(p) ==
  /\ link'[Peer(p)] = link[Peer(p)]
  /\ \/ link'[p] = link[p]
     \/ link'[p] = NoLink /\ transport'[p] # "released"
     \/ Replaced(p) /\ Shaped(p)'
     \/ Continued(p) /\ Shaped(p)'

Slept ==
  /\ \A q \in Page : reconnecting[q] => reconnecting'[q] \/ link'[q] = NoLink
  /\ \A q \in Page : transport'[q] = "released" =>
       transport[q] = "released" \/ (Open(q) /\ link'[q] = link[q])

Moves == Slept /\ \E p \in Page : Moved(p)

LEMMA LinkSteady ==
  ASSUME PairingInv, UNCHANGED link
  PROVE  \E p \in Page : Moved(p)
<1>1. Moved(0)
  BY DEF Moved
<1> QED
  BY <1>1, Pages

LEMMA SleptOn ==
  ASSUME PairingInv, UNCHANGED <<transport, reconnecting>>
  PROVE  Slept
  BY DEF Slept

LEMMA LinkMade ==
  ASSUME PairingInv, NEW p \in Page, NEW remote \in LinkId \cup {NoLink},
         NEW task \in {"offering", "accepting"}, EnsureLink(p, remote, task),
         IF Initiator(p) THEN remote = NoLink /\ task = "offering"
                         ELSE remote # NoLink /\ task = "accepting",
         transport'[p] = "released" => Initiator(p)
  PROVE  /\ Moved(p) /\ Replaced(p) /\ link'[p] # NoLink
         /\ link'[p].task = task /\ link'[p].remote = remote
         /\ \A q \in Page : q # p => link'[q] = link[q]
<1> DEFINE x == NewLink(p, remote, task)
<1>1. /\ x \in Link /\ x.id \in FreeId(p) /\ x.remote = remote /\ x.task = task
      /\ x.channel = "new" /\ ~x.failed
  BY NewLinkType DEF EnsureLink
<1>2. link' = [link EXCEPT ![p] = x]
  BY DEF EnsureLink
<1> HIDE DEF x
<1>3. link'[p] = x /\ x # NoLink /\ \A q \in Page : q # p => link'[q] = link[q]
  <2>1. x # NoLink
    BY <1>1, NoLinkAssumption
  <2> QED
    BY <1>1, <1>2, <2>1, SetLink DEF PairingInv
<1>4. Replaced(p)
  BY <1>1, <1>3 DEF Replaced
<1>5. Shaped(p)'
  BY <1>1, <1>3 DEF Shaped, Initiator
<1> QED
  BY <1>1, <1>3, <1>4, <1>5, Pages DEF Moved

\* A link goes on under its name.
LEMMA LinkOn ==
  ASSUME PairingInv, NEW p \in Page, NEW x \in Link, link' = [link EXCEPT ![p] = x]
  PROVE  /\ link'[p] = x /\ x # NoLink /\ link'[Peer(p)] = link[Peer(p)]
         /\ \A q \in Page : q # p => link'[q] = link[q]
<1>1. x # NoLink
  BY NoLinkAssumption
<1> QED
  BY <1>1, SetLink, Pages DEF PairingInv

LEMMA LinkType ==
  ASSUME PairingInv, NEW p \in Page, link[p] # NoLink
  PROVE  /\ link[p] \in Link /\ link[p].id # NoLink
         /\ link[p].remote \in LinkId \cup {NoLink}
  BY LinkFields, PairingAssumption DEF PairingInv, TypeOK

LEMMA HearMoves ==
  ASSUME PairingInv, NEW p \in Page, NEW kind, Hear(p, kind)
  PROVE  Slept /\ transport[p] = "joined" /\ transport' = transport
<1>1. transport[p] = "joined"
  BY DEF Hear, PairingInv, BoxGood
<1> QED
  BY <1>1 DEF Hear, clocks, Slept

LEMMA SignalMoves ==
  ASSUME PairingInv, \A p \in Page : LinkInv(p), NEW p \in Page, Signal(p)
  PROVE  Moves
<1>1. CASE HearJoined(p)
  <2>1. /\ Slept /\ transport'[p] # "released"
    BY <1>1, HearMoves DEF HearJoined
  <2>2. CASE Initiator(p)
    BY <1>1, <2>1, <2>2, LinkMade, Pages DEF HearJoined, StartPairing, Initiator, Moves
  <2>3. CASE ~Initiator(p)
    BY <1>1, <2>1, <2>3, LinkSteady DEF HearJoined, Moves
  <2> QED
    BY <2>2, <2>3
<1>2. CASE HearLeft(p)
  <2>1. /\ Slept /\ transport'[p] # "released" /\ link' = [link EXCEPT ![p] = NoLink]
    BY <1>2, HearMoves DEF HearLeft, TeardownLink
  <2>2. link'[p] = NoLink /\ link'[Peer(p)] = link[Peer(p)]
    BY <2>1, SetLink, Pages DEF PairingInv
  <2> QED
    BY <2>1, <2>2 DEF Moves, Moved
<1>3. CASE HearCandidate(p)
  <2>1. Slept /\ Hear(p, "ice")
    BY <1>3, HearMoves DEF HearCandidate
  <2>2. CASE link[p] = NoLink
    BY <1>3, <2>1, <2>2, LinkSteady DEF HearCandidate, Moves
  <2>3. CASE link[p] # NoLink
    <3> DEFINE l == link[p]
               x == WithCandidate(l, Heard(p))
    <3>1. l \in Link /\ Heard(p) \in LinkId
      BY <2>1, <2>3, HearEffect, LinkType
    <3>2. /\ x \in Link /\ x.id = l.id /\ x.remote = l.remote /\ x.task = l.task
          /\ x.local = l.local /\ x.channel = l.channel /\ x.failed = l.failed
      BY <3>1 DEF WithCandidate, Link
    <3>3. link' = [link EXCEPT ![p] = x]
      BY <1>3, <2>3, Parts DEF HearCandidate, LinksOK
    <3> HIDE DEF x
    <3>4. link'[p] = x /\ x # NoLink /\ link'[Peer(p)] = link[Peer(p)]
      BY <3>2, <3>3, LinkOn
    <3>5. Shaped(p)'
      BY <2>3, <3>2, <3>4 DEF LinkInv, Shaped
    <3>6. Continued(p)
      BY <2>3, <3>2, <3>4 DEF Continued
    <3> QED
      BY <2>1, <3>4, <3>5, <3>6 DEF Moves, Moved
  <2> QED
    BY <2>2, <2>3
<1>4. CASE p = 1 /\ HearOffer
  <2>1. /\ Hear(1, "offer") /\ EnsureLink(1, Heard(1), "accepting")
    BY <1>4 DEF HearOffer
  <2>2. Slept /\ transport'[1] # "released" /\ Heard(1) \in LinkId
    BY <2>1, HearMoves, HearEffect, Pages
  <2>3. Heard(1) # NoLink /\ ~Initiator(1)
    BY <2>2, PairingAssumption DEF Initiator
  <2> QED
    BY <2>1, <2>2, <2>3, LinkMade, Pages DEF Moves
<1>5. CASE p = 0 /\ HearAnswer
  <2>1. Hear(0, "answer")
    BY <1>5 DEF HearAnswer
  <2>2. Slept /\ Heard(0) \in LinkId
    BY <2>1, HearMoves, HearEffect, Pages
  <2>3. CASE ~Expected
    BY <1>5, <2>2, <2>3, LinkSteady DEF HearAnswer, Moves
  <2>4. CASE Expected
    <3> DEFINE l == link[0]
               x == [l EXCEPT !.remote = Heard(0), !.task = "taking"]
    <3>1. /\ l \in Link /\ l # NoLink /\ l.local /\ l.task = "none"
          /\ l.remote = NoLink
      BY <2>4, Pages, LinkType DEF Expected, HaveLocalOffer, Pending, Described
    <3>2. /\ x \in Link /\ x.id = l.id /\ x.remote = Heard(0) /\ x.task = "taking"
          /\ x.local = l.local /\ x.channel = l.channel /\ x.failed = l.failed
      BY <2>2, <3>1 DEF Link
    <3>3. link' = [link EXCEPT ![0] = x]
      BY <1>5, <2>4, Pages, Parts DEF HearAnswer, LinksOK
    <3> HIDE DEF x
    <3>4. link'[0] = x /\ x # NoLink /\ link'[Peer(0)] = link[Peer(0)]
      BY <3>2, <3>3, LinkOn, Pages
    <3>5. Heard(0) # NoLink
      BY <2>2, PairingAssumption
    <3>6. Shaped(0)'
      BY <3>1, <3>2, <3>4, <3>5 DEF Shaped, Initiator
    <3>7. Continued(0)
      BY <3>1, <3>2, <3>4 DEF Continued
    <3> QED
      BY <2>2, <3>4, <3>6, <3>7, Pages DEF Moves, Moved
  <2> QED
    BY <2>3, <2>4
<1> QED
  BY <1>1, <1>2, <1>3, <1>4, <1>5 DEF Signal

\* A link is x, a step further in its negotiation.
Negotiated(p, x) ==
  /\ link[p] # NoLink /\ link[p].task # "none"
  /\ x \in Link /\ link' = [link EXCEPT ![p] = x]
  /\ x.id = link[p].id /\ x.remote = link[p].remote
  /\ x.channel = link[p].channel /\ x.failed = link[p].failed
  /\ \/ x.task = "none" /\ x.local
     \/ x.task = "answering" /\ ~Initiator(p)
  /\ UNCHANGED <<transport, clocks>>

LEMMA NegotiatedMoves ==
  ASSUME PairingInv, NEW p \in Page, LinkInv(p), NEW x, Negotiated(p, x)
  PROVE  /\ Moves /\ link'[p] = x /\ link'[p] # NoLink
         /\ link'[Peer(p)] = link[Peer(p)]
<1>1. link'[p] = x /\ x # NoLink /\ link'[Peer(p)] = link[Peer(p)]
  BY LinkOn DEF Negotiated
<1>2. Shaped(p)'
  BY <1>1 DEF LinkInv, Shaped, Negotiated
<1>3. Continued(p)
  BY <1>1 DEF Continued, Negotiated
<1>4. Slept
  BY SleptOn DEF Negotiated, clocks
<1> QED
  BY <1>1, <1>2, <1>3, <1>4 DEF Moves, Moved

LEMMA DescriptionMade ==
  ASSUME PairingInv, NEW p \in Page, link[p] # NoLink, link[p].task # "none",
         link' = [link EXCEPT ![p].local = TRUE, ![p].task = "none"],
         UNCHANGED <<transport, clocks>>
  PROVE  \E x \in Link : Negotiated(p, x) /\ x.task = "none"
<1> DEFINE x == [link[p] EXCEPT !.local = TRUE, !.task = "none"]
<1>1. link[p] \in Link
  BY LinkType
<1>2. /\ x \in Link /\ x.id = link[p].id /\ x.remote = link[p].remote
      /\ x.channel = link[p].channel /\ x.failed = link[p].failed
      /\ x.task = "none" /\ x.local
  BY <1>1 DEF Link
<1>3. link' = [link EXCEPT ![p] = x]
  BY Parts DEF LinksOK
<1> HIDE DEF x
<1> QED
  BY <1>2, <1>3 DEF Negotiated

LEMMA DescriptionTaken ==
  ASSUME PairingInv, NEW p \in Page, link[p] # NoLink, link[p].task # "none",
         NEW task \in {"none", "answering"},
         IF task = "none" THEN link[p].local ELSE ~Initiator(p),
         link' = [link EXCEPT ![p] = [Flushed(@) EXCEPT !.task = task]],
         UNCHANGED <<transport, clocks>>
  PROVE  \E x \in Link : Negotiated(p, x) /\ x.task = task
<1> DEFINE x == [Flushed(link[p]) EXCEPT !.task = task]
<1>1. link[p] \in Link
  BY LinkType
<1>2. /\ x \in Link /\ x.id = link[p].id /\ x.remote = link[p].remote
      /\ x.channel = link[p].channel /\ x.failed = link[p].failed
      /\ x.task = task /\ x.local = link[p].local
  BY <1>1 DEF Link, Flushed
<1>3. link' = [link EXCEPT ![p] = x]
  BY Parts DEF LinksOK
<1> HIDE DEF x
<1> QED
  BY <1>2, <1>3 DEF Negotiated

\* The descriptions are made and put in place.
LEMMA NegotiateMoves ==
  ASSUME PairingInv, \A p \in Page : LinkInv(p)
  PROVE  /\ CreateOffer => \E x \in Link : Negotiated(0, x) /\ x.task = "none"
         /\ CreateAnswer => \E x \in Link : Negotiated(1, x) /\ x.task = "none"
         /\ OfferSet => \E x \in Link : Negotiated(1, x) /\ x.task = "answering"
         /\ AnswerSet => \E x \in Link : Negotiated(0, x) /\ x.task = "none"
<1>1. ASSUME CreateOffer PROVE \E x \in Link : Negotiated(0, x) /\ x.task = "none"
  BY <1>1, DescriptionMade, Pages DEF CreateOffer
<1>2. ASSUME CreateAnswer PROVE \E x \in Link : Negotiated(1, x) /\ x.task = "none"
  BY <1>2, DescriptionMade, Pages DEF CreateAnswer
<1>3. ASSUME OfferSet PROVE \E x \in Link : Negotiated(1, x) /\ x.task = "answering"
  BY <1>3, DescriptionTaken, Pages DEF OfferSet, Initiator, relayVars
<1>4. ASSUME AnswerSet PROVE \E x \in Link : Negotiated(0, x) /\ x.task = "none"
  <2>1. /\ link[0] # NoLink /\ link[0].task = "taking" /\ link[0] \in Link
        /\ UNCHANGED <<transport, clocks>>
    BY <1>4, LinkType, Pages DEF AnswerSet, relayVars
  <2>2. link[0].local
    BY <2>1, Pages DEF LinkInv, Shaped
  <2>3. Flushed(link[0]) = [Flushed(link[0]) EXCEPT !.task = "none"]
    BY <2>1 DEF Flushed, Link
  <2>4. link' = [link EXCEPT ![0] = [Flushed(@) EXCEPT !.task = "none"]]
    BY <1>4, <2>3 DEF AnswerSet
  <2> QED
    BY <2>1, <2>2, <2>4, DescriptionTaken, Pages
<1> QED
  BY <1>1, <1>2, <1>3, <1>4

LEMMA AttachMoves ==
  ASSUME PairingInv, NEW p \in Page, AttachTransport(p),
         \A q \in Page : q # p => reconnecting'[q] = reconnecting[q]
  PROVE  Moves /\ transport'[p] = "connecting"
<1>1. /\ DOMAIN transport = Page
      /\ transport' = [transport EXCEPT ![p] = "connecting"]
      /\ link' = [link EXCEPT ![p] = NoLink]
  BY Parts DEF AttachTransport, TeardownLink, RelayOK
<1>2. /\ transport'[p] = "connecting"
      /\ \A q \in Page : q # p => transport'[q] = transport[q]
  BY <1>1
<1>3. link'[p] = NoLink /\ link'[Peer(p)] = link[Peer(p)]
  BY <1>1, SetLink, Pages DEF PairingInv
<1>4. Slept
  BY <1>2, <1>3 DEF Slept
<1> QED
  BY <1>2, <1>3, <1>4 DEF Moves, Moved

LEMMA StartPairingMoves ==
  ASSUME PairingInv, StartPairing, UNCHANGED <<transport, reconnecting>>
  PROVE  /\ Moves /\ link'[0] # NoLink /\ link'[0].task = "offering"
         /\ link'[0].remote = NoLink /\ link'[1] = link[1]
<1>1. Initiator(0)
  BY DEF Initiator
<1> QED
  BY <1>1, LinkMade, SleptOn, Pages DEF StartPairing, Moves

LEMMA UserMoves ==
  ASSUME PairingInv, NEW p \in Page, User(p)
  PROVE  Moves
<1>1. CASE PressReconnect(p)
  BY <1>1, AttachMoves DEF PressReconnect, clocks
<1>2. CASE Reload(p)
  <2>1. /\ AttachTransport(p) /\ reconnecting' = [reconnecting EXCEPT ![p] = FALSE]
        /\ DOMAIN reconnecting = Page
    BY <1>2, Parts DEF Reload, ClocksOK
  <2> QED
    BY <2>1, AttachMoves
<1>3. CASE PressPair
  BY <1>3, StartPairingMoves DEF PressPair, relayVars, clocks
<1> QED
  BY <1>1, <1>2, <1>3 DEF User

LEMMA SleepMoves ==
  ASSUME PairingInv, NEW p \in Page, Sleep(p)
  PROVE  Moves
<1>1. CASE RetryWakes(p)
  <2>1. /\ AttachTransport(p) /\ reconnecting' = [reconnecting EXCEPT ![p] = FALSE]
        /\ DOMAIN reconnecting = Page
    BY <1>1, Parts DEF RetryWakes, ClocksOK
  <2> QED
    BY <2>1, AttachMoves
<1>2. CASE WatchEnds(p)
  <2>1. /\ UNCHANGED <<link, transport>> /\ DOMAIN reconnecting = Page
        /\ \/ UNCHANGED reconnecting
           \/ reconnecting' = [reconnecting EXCEPT ![p] = TRUE]
    BY <1>2, Parts DEF WatchEnds, RetryPairing, relayVars, ClocksOK
  <2> QED
    BY <2>1, LinkSteady DEF Moves, Slept
<1>3. CASE OfferAgain
  BY <1>3, StartPairingMoves, SleptOn, LinkSteady DEF OfferAgain, relayVars, Moves
<1> QED
  BY <1>1, <1>2, <1>3 DEF Sleep

LEMMA RelayMoves ==
  ASSUME PairingInv, NEW p \in Page, Join(p) \/ ReleaseSignaling(p)
  PROVE  Moves
<1>1. DOMAIN transport = Page
  BY Parts DEF RelayOK
<1>2. CASE Join(p)
  BY <1>1, <1>2, LinkSteady DEF Join, clocks, Moves, Slept
<1>3. CASE ReleaseSignaling(p)
  BY <1>1, <1>3, LinkSteady DEF ReleaseSignaling, Moves, Slept
<1> QED
  BY <1>2, <1>3

\* The connection of p's link comes up, goes down or fails.
LEMMA ConnectionMoves ==
  ASSUME PairingInv, \A p \in Page : LinkInv(p), NEW p \in Page,
         Connection(p) \/ ChannelClosed(p) \/ NetworkFails(p)
  PROVE  /\ Moves /\ link'[Peer(p)] = link[Peer(p)] /\ UNCHANGED <<inbox, transport>>
         /\ link[p] # NoLink /\ link'[p] # NoLink
         /\ link'[p].id = link[p].id /\ link'[p].remote = link[p].remote
         /\ link'[p].task = link[p].task
<1>1. /\ link[p] # NoLink /\ UNCHANGED <<inbox, transport>>
      /\ \/ ChannelOpen(p) \/ ChannelClosed(p)
         \/ Failed(p)
  BY DEF Connection, ChannelOpen, ChannelClosed, LinkFails, NetworkFails, CanOpen, Agreed,
     Open, Doomed, Failed, relayVars
<1>2. link[p] \in Link /\ Shaped(p) /\ DOMAIN reconnecting = Page
  BY <1>1, LinkType, Parts DEF LinkInv, ClocksOK
<1>3. PICK channel \in {"new", "open", "closed"}, failed \in BOOLEAN :
        /\ link' = [link EXCEPT ![p] = [@ EXCEPT !.channel = channel, !.failed = failed]]
        /\ link[p].failed => failed
        /\ failed => link[p].failed \/ reconnecting'[p]
        /\ \/ channel = link[p].channel
           \/ channel = "open" /\ Agreed
           \/ channel = "closed" /\ Doomed(p)
        /\ \A q \in Page : reconnecting[q] => reconnecting'[q]
  <2>1. CASE ChannelOpen(p)
    <3>1. [link[p] EXCEPT !.channel = "open"]
            = [link[p] EXCEPT !.channel = "open", !.failed = link[p].failed]
      BY <1>2 DEF Link
    <3>2. link' = [link EXCEPT ![p] = [@ EXCEPT !.channel = "open", !.failed = link[p].failed]]
      BY <2>1, <3>1, Parts DEF ChannelOpen, LinksOK
    <3> QED
      BY <1>2, <2>1, <3>2, LinkFields DEF ChannelOpen, CanOpen
  <2>2. CASE ChannelClosed(p)
    <3>1. [link[p] EXCEPT !.channel = "closed"]
            = [link[p] EXCEPT !.channel = "closed", !.failed = link[p].failed]
      BY <1>2 DEF Link
    <3>2. link' = [link EXCEPT ![p] = [@ EXCEPT !.channel = "closed", !.failed = link[p].failed]]
      BY <2>2, <3>1, Parts DEF ChannelClosed, LinksOK
    <3> QED
      BY <1>2, <2>2, <3>2, LinkFields DEF ChannelClosed, clocks
  <2>3. CASE Failed(p)
    <3>1. [link[p] EXCEPT !.failed = TRUE]
            = [link[p] EXCEPT !.channel = link[p].channel, !.failed = TRUE]
      BY <1>2 DEF Link
    <3>2. link' = [link EXCEPT ![p] = [@ EXCEPT !.channel = link[p].channel, !.failed = TRUE]]
      BY <2>3, <3>1, Parts DEF Failed, LinksOK
    <3>3. reconnecting'[p] /\ \A q \in Page : reconnecting[q] => reconnecting'[q]
      BY <1>2, <2>3 DEF Failed, RetryPairing
    <3> QED
      BY <1>2, <3>2, <3>3, LinkFields
  <2> QED
    BY <1>1, <2>1, <2>2, <2>3
<1> DEFINE x == [link[p] EXCEPT !.channel = channel, !.failed = failed]
<1>4. /\ x \in Link /\ x.id = link[p].id /\ x.remote = link[p].remote
      /\ x.task = link[p].task /\ x.local = link[p].local
      /\ x.channel = channel /\ x.failed = failed
  BY <1>2 DEF Link
<1>5. link' = [link EXCEPT ![p] = x]
  BY <1>3
<1> HIDE DEF x
<1>6. link'[p] = x /\ x # NoLink /\ link'[Peer(p)] = link[Peer(p)]
  BY <1>4, <1>5, LinkOn
<1>7. Shaped(p)'
  BY <1>1, <1>2, <1>4, <1>6 DEF Shaped
<1>8. Continued(p)
  BY <1>1, <1>3, <1>4, <1>6 DEF Continued
<1>9. Slept
  BY <1>1, <1>3 DEF Slept
<1> QED
  BY <1>1, <1>4, <1>6, <1>7, <1>8, <1>9 DEF Moves, Moved

LEMMA StepMoves ==
  ASSUME PairingInv, \A p \in Page : LinkInv(p), [Next]_vars
  PROVE  Moves
<1>1. CASE UNCHANGED vars
  BY <1>1, LinkSteady, SleptOn DEF vars, relayVars, clocks, Moves
<1>2. ASSUME NEW p \in Page, Negotiate(p)
      PROVE  Moves
  BY <1>2, NegotiateMoves, NegotiatedMoves, Pages DEF Negotiate
<1>3. ASSUME NEW p \in Page, Disconnected(p)
      PROVE  Moves
  BY <1>3, LinkSteady, SleptOn DEF Disconnected, relayVars, Moves
<1>4. ASSUME NEW p \in Page,
             \/ Join(p) \/ Signal(p) \/ Sleep(p) \/ ReleaseSignaling(p)
             \/ Connection(p) \/ ChannelClosed(p) \/ NetworkFails(p) \/ User(p)
      PROVE  Moves
  BY <1>4, RelayMoves, SignalMoves, SleepMoves, ConnectionMoves, UserMoves
<1> QED
  BY <1>1, <1>2, <1>3, <1>4 DEF Next, Task, Fault

\* The name of a link is no longer its peer's once it has been replaced.
LEMMA FreshName ==
  ASSUME PairingInv, NEW p \in Page, link[Peer(p)] # NoLink, Replaced(p)
  PROVE  link'[p].id # link[Peer(p)].remote
  BY DEF Replaced, FreeId, Held

\* The link of q stays, and what it knows of p's too.
LEMMA PeerRaised ==
  ASSUME PairingInv, NEW p \in Page, Moved(p), LinkInv(Peer(p))
  PROVE  Raised(Peer(p))'
<1> DEFINE q == Peer(p)
<1>1. /\ q \in Page /\ Peer(q) = p /\ link'[q] = link[q]
  BY Pages DEF Moved
<1> SUFFICES ASSUME link[q] # NoLink, link[q].channel # "new"
             PROVE  Raised(q)'
  BY <1>1 DEF Raised
<1>2. /\ link[q].id # NoLink /\ link[q].remote # NoLink
      /\ Matched(q) \/ Severed(q)
      /\ link[q].channel = "closed" => Severed(q)
  BY <1>1, LinkType DEF LinkInv, Raised
<1>3. CASE link'[p] = link[p]
  BY <1>1, <1>2, <1>3 DEF Raised, Matched, Severed, Doomed
<1>4. CASE link'[p] = NoLink
  BY <1>1, <1>2, <1>4 DEF Raised, Severed, Doomed
<1>5. CASE Replaced(p)
  <2>1. link'[p].id # link[q].remote /\ link'[p] # NoLink
    BY <1>5, FreshName DEF Replaced
  <2> QED
    BY <1>1, <1>2, <2>1 DEF Raised, Severed, Doomed
<1>6. CASE Continued(p)
  <2>1. /\ link[p] # NoLink /\ link'[p] # NoLink /\ link'[p].id = link[p].id
        /\ link[p].remote # NoLink => link'[p].remote = link[p].remote
        /\ link[p].failed => link'[p].failed
    BY <1>6 DEF Continued
  <2>2. Matched(q) => Matched(q)'
    BY <1>1, <1>2, <2>1 DEF Matched
  <2>3. Severed(q) => Severed(q)'
    BY <1>1, <1>2, <2>1 DEF Severed, Doomed
  <2> QED
    BY <1>1, <1>2, <2>2, <2>3 DEF Raised
<1> QED
  BY <1>3, <1>4, <1>5, <1>6 DEF Moved

LEMMA OwnRaised ==
  ASSUME PairingInv, NEW p \in Page, Moved(p), LinkInv(p)
  PROVE  Raised(p)'
<1> DEFINE q == Peer(p)
<1>1. /\ q \in Page /\ Peer(q) = p /\ link'[q] = link[q]
  BY Pages DEF Moved
<1>2. CASE link'[p] = link[p]
  BY <1>1, <1>2 DEF LinkInv, Raised, Matched, Severed, Doomed
<1>3. CASE link'[p] = NoLink \/ Replaced(p)
  BY <1>3 DEF Raised, Replaced
<1>4. CASE Continued(p)
  <2>1. /\ link[p] # NoLink /\ link'[p] # NoLink /\ link'[p].id = link[p].id
        /\ link[p].remote # NoLink => link'[p].remote = link[p].remote
        /\ link[p].failed => link'[p].failed
    BY <1>4 DEF Continued
  <2>2. link[p].remote # NoLink /\ Matched(p) => Matched(p)'
    BY <1>1, <2>1 DEF Matched
  <2>3. link[p].remote # NoLink /\ Severed(p) => Severed(p)'
    BY <1>1, <2>1 DEF Severed, Doomed
  <2>4. CASE link'[p].channel = link[p].channel
    BY <2>1, <2>2, <2>3, <2>4 DEF LinkInv, Raised
  <2>5. CASE link'[p].channel = "open" /\ Agreed
    <3>1. link[p].remote # NoLink /\ Matched(p)
      BY <1>1 , <2>5 DEF Agreed, Described, Matched
    <3> QED
      BY <2>1, <2>2, <2>5, <3>1 DEF Raised
  <2>6. CASE link'[p].channel = "closed" /\ Doomed(p)
    BY <2>1, <2>3, <2>6 DEF Raised, Severed, Doomed
  <2> QED
    BY <1>4, <2>4, <2>5, <2>6 DEF Continued
<1> QED
  BY <1>2, <1>3, <1>4 DEF Moved

LEMMA LinkInvStep ==
  ASSUME PairingInv, \A p \in Page : LinkInv(p), [Next]_vars
  PROVE  (\A p \in Page : LinkInv(p))'
<1>1. PICK p \in Page : Moved(p)
  BY StepMoves DEF Moves
<1>2. Slept
  BY StepMoves DEF Moves
<1>3. /\ Peer(p) \in Page /\ Peer(p) # p /\ \A q \in Page : q = p \/ q = Peer(p)
      /\ link'[Peer(p)] = link[Peer(p)]
  BY <1>1, Pages DEF Page, Moved
<1>4. LinkInv(Peer(p))'
  <2>1. Shaped(Peer(p))' /\ Retrying(Peer(p))' /\ LeftWithLink(Peer(p))'
    BY <1>2, <1>3 DEF LinkInv, Shaped, Retrying, LeftWithLink, Slept, Open
  <2> QED
    BY <1>1, <1>3, <2>1, PeerRaised DEF LinkInv
<1>5. LinkInv(p)'
  <2>1. Shaped(p)'
    BY <1>1 DEF Moved, LinkInv, Shaped
  <2>2. Retrying(p)'
    BY <1>1, <1>2 DEF Moved, LinkInv, Retrying, Replaced, Continued, Slept
  <2>3. LeftWithLink(p)'
    BY <1>1, <1>2 DEF Moved, LinkInv, LeftWithLink, Replaced, Continued, Slept, Open
  <2> QED
    BY <1>1, <2>1, <2>2, <2>3, OwnRaised DEF LinkInv
<1> QED
  BY <1>3, <1>4, <1>5

-----------------------------------------------------------------------------
(* An offer is answered, or page 0 hears that it has to start over *)

LEMMA BoxHead ==
  ASSUME NEW box \in Seq(Messages), box # <<>>
  PROVE  /\ Head(box) = box[1] /\ 1 \in DOMAIN box
         /\ \A i \in DOMAIN Tail(box) : i + 1 \in DOMAIN box /\ Tail(box)[i] = box[i + 1]
         /\ \A i \in DOMAIN box : i # 1 => i - 1 \in DOMAIN Tail(box)
                                           /\ Tail(box)[i - 1] = box[i]
         /\ DOMAIN box \subseteq Nat /\ DOMAIN Tail(box) \subseteq Nat \ {0}
  OBVIOUS

LEMMA BoxTail ==
  ASSUME NEW box \in Seq(Messages), box # <<>>
  PROVE  /\ NoLeft(box) => NoLeft(Tail(box)) /\ Head(box).kind # "left"
         /\ Clear(box) => Clear(Tail(box)) /\ Head(box).kind \notin {"left", "offer"}
         /\ Recalled(box) =>
              \/ Recalled(Tail(box))
              \/ Head(box).kind = "joined" /\ NoLeft(Tail(box))
         /\ \A id : LastOffer(box, id) =>
              \/ LastOffer(Tail(box), id)
              \/ Head(box).kind = "offer" /\ Head(box).id = id /\ Clear(Tail(box))
         /\ AnswerIn(box) => AnswerIn(Tail(box)) \/ Head(box).kind = "answer"
<1>1. (NoLeft(box) => NoLeft(Tail(box)) /\ Head(box).kind # "left")
  BY BoxHead DEF NoLeft
<1>2. (Clear(box) => Clear(Tail(box)) /\ Head(box).kind \notin {"left", "offer"})
  BY BoxHead DEF Clear
<1>3. ASSUME Recalled(box)
      PROVE  \/ Recalled(Tail(box))
             \/ Head(box).kind = "joined" /\ NoLeft(Tail(box))
  <2>1. PICK i \in DOMAIN box :
          /\ box[i].kind = "joined"
          /\ \A j \in DOMAIN box : j > i => box[j].kind # "left"
    BY <1>3 DEF Recalled
  <2>2. \A j \in DOMAIN Tail(box) : j > i - 1 => Tail(box)[j].kind # "left"
    BY <2>1, BoxHead
  <2>3. CASE i = 1
    BY <2>1, <2>2, <2>3, BoxHead DEF NoLeft
  <2>4. CASE i # 1
    <3>1. i - 1 \in DOMAIN Tail(box) /\ Tail(box)[i - 1].kind = "joined"
      BY <2>1, <2>4, BoxHead
    <3> QED
      BY <2>2, <3>1 DEF Recalled
  <2> QED
    BY <2>3, <2>4
<1>4. ASSUME NEW id, LastOffer(box, id)
      PROVE  \/ LastOffer(Tail(box), id)
             \/ Head(box).kind = "offer" /\ Head(box).id = id /\ Clear(Tail(box))
  <2>1. PICK i \in DOMAIN box :
          /\ box[i].kind = "offer" /\ box[i].id = id
          /\ \A j \in DOMAIN box : j > i => box[j].kind \notin {"left", "offer"}
    BY <1>4 DEF LastOffer
  <2>2. \A j \in DOMAIN Tail(box) :
          j > i - 1 => Tail(box)[j].kind \notin {"left", "offer"}
    BY <2>1, BoxHead
  <2>3. CASE i = 1
    BY <2>1, <2>2, <2>3, BoxHead DEF Clear
  <2>4. CASE i # 1
    <3>1. i - 1 \in DOMAIN Tail(box) /\ Tail(box)[i - 1] = box[i]
      BY <2>1, <2>4, BoxHead
    <3> QED
      BY <2>1, <2>2, <3>1 DEF LastOffer
  <2> QED
    BY <2>3, <2>4
<1>5. ASSUME AnswerIn(box), Head(box).kind # "answer" PROVE AnswerIn(Tail(box))
  <2>1. PICK i \in DOMAIN box : box[i].kind = "answer"
    BY <1>5 DEF AnswerIn
  <2>2. i - 1 \in DOMAIN Tail(box) /\ Tail(box)[i - 1] = box[i]
    BY <1>5, <2>1, BoxHead
  <2> QED
    BY <2>1, <2>2 DEF AnswerIn
<1> QED
  BY <1>1, <1>2, <1>3, <1>4, <1>5

LEMMA BoxMore ==
  ASSUME NEW box \in Seq(Messages), NEW a \in Messages, NEW b \in Messages,
         a.kind \in {"offer", "answer"}, b.kind = "ice"
  PROVE  LET more == box \o <<a, b>> IN
         /\ Recalled(box) => Recalled(more)
         /\ NoLeft(box) => NoLeft(more)
         /\ a.kind = "answer" => AnswerIn(more)
         /\ a.kind = "offer" => LastOffer(more, a.id)
<1> DEFINE more == box \o <<a, b>>
<1>1. /\ DOMAIN more = DOMAIN box \cup {Len(box) + 1, Len(box) + 2}
      /\ more[Len(box) + 1] = a /\ more[Len(box) + 2] = b
      /\ \A i \in DOMAIN box : more[i] = box[i]
      /\ Len(box) \in Nat /\ DOMAIN box = 1 .. Len(box)
  OBVIOUS
<1> HIDE DEF more
<1>2. Recalled(box) => Recalled(more)
  BY <1>1 DEF Recalled
<1>3. NoLeft(box) => NoLeft(more)
  BY <1>1 DEF NoLeft
<1>4. a.kind = "answer" => AnswerIn(more)
  BY <1>1 DEF AnswerIn
<1>5. a.kind = "offer" => LastOffer(more, a.id)
  BY <1>1 DEF LastOffer
<1> QED
  BY <1>2, <1>3, <1>4, <1>5 DEF more

LEMMA JoinedLast ==
  ASSUME NEW box \in Seq(Messages)
  PROVE  Recalled(box \o <<Notice("joined")>>)
<1> DEFINE more == box \o <<Notice("joined")>>
<1>1. /\ DOMAIN more = DOMAIN box \cup {Len(box) + 1}
      /\ more[Len(box) + 1] = Notice("joined") /\ Len(box) \in Nat
      /\ DOMAIN box = 1 .. Len(box)
  OBVIOUS
<1> HIDE DEF more
<1>2. Recalled(more)
  BY <1>1, MessageTypes DEF Recalled
<1> QED
  BY <1>2 DEF more

\* Nothing that Offered speaks of changes.
LEMMA OfferedSame ==
  ASSUME Offered, UNCHANGED inbox, BothJoined' => BothJoined,
         \A q \in Page : link[q] # NoLink =>
           /\ link'[q] # NoLink /\ link'[q].id = link[q].id
           /\ link'[q].remote = link[q].remote /\ link'[q].task = link[q].task
  PROVE  Offered'
  BY Pages DEF Offered, Underway, Answering, Pending

\* Page 0 starts over.
LEMMA OfferedAnew ==
  ASSUME Recalled(inbox[0])' \/ NoLeft(inbox[0])', link'[0] # NoLink,
         link'[0].task = "offering"
  PROVE  Offered'
  BY DEF Offered, Underway

LEMMA HearBoxes ==
  ASSUME PairingInv, NEW p \in Page, NEW kind, Hear(p, kind)
  PROVE  /\ inbox[p] \in Seq(Messages) /\ inbox[p] # <<>>
         /\ Head(inbox[p]).kind = kind
         /\ inbox'[p] = Tail(inbox[p]) /\ inbox'[Peer(p)] = inbox[Peer(p)]
         /\ BothJoined' => BothJoined
<1>1. inbox \in [Page -> Seq(Messages)]
  BY DEF PairingInv, TypeOK
<1> QED
  BY <1>1, Pages DEF Hear, BothJoined

LEMMA HearZeroOffered ==
  ASSUME StuckInv, Signal(0)
  PROVE  Offered'
<1> DEFINE box == inbox[0]
<1>1. PairingInv /\ Offered /\ Shaped(0)
  BY Pages DEF StuckInv, LinkInv
<1> SUFFICES ASSUME BothJoined'
             PROVE  Offered'
  BY DEF Offered
<1>2. CASE HearJoined(0)
  <2>1. Hear(0, "joined") /\ StartPairing
    BY <1>2 DEF HearJoined, Initiator
  <2>2. box \in Seq(Messages) /\ box # <<>> /\ inbox'[0] = Tail(box) /\ BothJoined
    BY <1>1, <2>1, HearBoxes, Pages
  <2>3. Recalled(box) \/ NoLeft(box)
    BY <1>1, <2>2 DEF Offered
  <2>4. Recalled(inbox[0])' \/ NoLeft(inbox[0])'
    BY <2>2, <2>3, BoxTail
  <2>5. link'[0] # NoLink /\ link'[0].task = "offering"
    BY <1>1, <2>1, StartPairingMoves DEF Hear, clocks
  <2> QED
    BY <2>4, <2>5, OfferedAnew
<1>3. CASE HearLeft(0)
  <2>1. /\ box \in Seq(Messages) /\ box # <<>> /\ inbox'[0] = Tail(box) /\ BothJoined
        /\ Head(box).kind = "left"
    BY <1>1, <1>3, HearBoxes, Pages DEF HearLeft
  <2>2. Recalled(Tail(box))
    BY <1>1, <2>1, BoxTail DEF Offered
  <2> QED
    BY <2>1, <2>2 DEF Offered
<1>4. CASE HearCandidate(0)
  <2>1. /\ box \in Seq(Messages) /\ box # <<>> /\ inbox'[0] = Tail(box) /\ BothJoined
        /\ inbox'[1] = inbox[1] /\ Head(box).kind = "ice"
    BY <1>1, <1>4, HearBoxes, Pages DEF HearCandidate
  <2>2. /\ Recalled(box) => Recalled(inbox'[0])
        /\ NoLeft(box) => NoLeft(inbox'[0])
        /\ AnswerIn(box) => AnswerIn(inbox'[0])
    BY <2>1, BoxTail
  <2>3. /\ link'[1] = link[1]
        /\ link[0] # NoLink =>
             /\ link'[0] # NoLink /\ link'[0].id = link[0].id
             /\ link'[0].remote = link[0].remote /\ link'[0].task = link[0].task
    <3>1. CASE link[0] = NoLink
      BY <1>4, <3>1 DEF HearCandidate
    <3>2. CASE link[0] # NoLink
      <4> DEFINE x == WithCandidate(link[0], Heard(0))
      <4>1. link[0] \in Link /\ Heard(0) \in LinkId
        BY <1>1, <1>4, <3>2, LinkType, HearEffect, Pages DEF HearCandidate
      <4>2. /\ x \in Link /\ x.id = link[0].id /\ x.remote = link[0].remote
            /\ x.task = link[0].task
        BY <4>1 DEF WithCandidate, Link
      <4>3. link' = [link EXCEPT ![0] = x]
        BY <1>1, <1>4, <3>2, Pages, Parts DEF HearCandidate, LinksOK
      <4> HIDE DEF x
      <4> QED
        BY <1>1, <4>2, <4>3, LinkOn, Pages
    <3> QED
      BY <3>1, <3>2
  <2>4. CASE Recalled(box)
    BY <2>2, <2>4 DEF Offered
  <2>5. CASE ~Recalled(box)
    <3>1. NoLeft(box) /\ link[0] # NoLink /\ (link[0].remote # NoLink \/ Underway)
      BY <1>1, <2>1, <2>5 DEF Offered
    <3>2. Underway => Underway'
      BY <2>1, <2>2, <2>3, <3>1 DEF Underway, Answering, Pending
    <3> QED
      BY <2>2, <2>3, <3>1, <3>2 DEF Offered
  <2> QED
    BY <2>4, <2>5
<1>5. CASE HearAnswer
  <2>1. /\ box \in Seq(Messages) /\ box # <<>> /\ inbox'[0] = Tail(box) /\ BothJoined
        /\ inbox'[1] = inbox[1] /\ Head(box).kind = "answer"
        /\ Hear(0, "answer")
    BY <1>1, <1>5, HearBoxes, Pages DEF HearAnswer
  <2>2. /\ Recalled(box) => Recalled(inbox'[0])
        /\ NoLeft(box) => NoLeft(inbox'[0])
    BY <2>1, BoxTail
  <2>3. CASE Recalled(box)
    BY <2>2, <2>3 DEF Offered
  <2>4. CASE ~Recalled(box)
    <3>1. NoLeft(box) /\ link[0] # NoLink /\ (link[0].remote # NoLink \/ Underway)
      BY <1>1, <2>1, <2>4 DEF Offered
    <3>2. CASE Expected
      <4> DEFINE x == [link[0] EXCEPT !.remote = Heard(0), !.task = "taking"]
      <4>1. link[0] \in Link /\ Heard(0) \in LinkId /\ Heard(0) # NoLink
        BY <1>1, <2>1, <3>1, LinkType, HearEffect, Pages, PairingAssumption
      <4>2. x \in Link /\ x.remote = Heard(0)
        BY <4>1 DEF Link
      <4>3. link' = [link EXCEPT ![0] = x]
        BY <1>1, <1>5, <3>2, Pages, Parts DEF HearAnswer, LinksOK
      <4> HIDE DEF x
      <4>4. link'[0] # NoLink /\ link'[0].remote # NoLink
        BY <1>1, <4>1, <4>2, <4>3, LinkOn, Pages
      <4> QED
        BY <2>2, <3>1, <4>4 DEF Offered
    <3>3. CASE ~Expected
      <4>1. link' = link
        BY <1>5, <3>3 DEF HearAnswer
      <4>2. link[0].remote # NoLink \/ link[0].task = "offering"
        BY <1>1, <3>1, <3>3 DEF Expected, HaveLocalOffer, Pending, Described, Shaped,
           Initiator
      <4> QED
        BY <2>2, <3>1, <4>1, <4>2 DEF Offered, Underway
    <3> QED
      BY <3>2, <3>3
  <2> QED
    BY <2>3, <2>4
<1> QED
  BY <1>2, <1>3, <1>4, <1>5 DEF Signal

LEMMA HearOneOffered ==
  ASSUME StuckInv, Signal(1)
  PROVE  Offered'
<1> DEFINE box == inbox[1]
<1>1. PairingInv /\ Offered
  BY DEF StuckInv
<1> SUFFICES ASSUME BothJoined'
             PROVE  Offered'
  BY DEF Offered
<1>2. PICK kind \in {"joined", "left", "ice", "offer"} :
        /\ Hear(1, kind)
        /\ kind = "offer" => HearOffer
        /\ kind = "ice" => HearCandidate(1)
        /\ kind = "joined" => link' = link
        /\ kind = "left" => TeardownLink(1)
  BY DEF Signal, HearJoined, HearLeft, HearCandidate, HearOffer, Initiator
<1>3. /\ box \in Seq(Messages) /\ box # <<>> /\ inbox'[1] = Tail(box) /\ BothJoined
      /\ inbox'[0] = inbox[0] /\ Head(box).kind = kind
  BY <1>1, <1>2, HearBoxes, Pages
<1>4. link'[0] = link[0]
  <2>1. kind = "offer" => link'[0] = link[0]
    BY <1>1, <1>2, Pages, Parts DEF HearOffer, EnsureLink, LinksOK
  <2>2. kind \in {"left", "ice"} => link'[0] = link[0]
    BY <1>1, <1>2, Pages, Parts DEF HearCandidate, TeardownLink, LinksOK
  <2>3. kind = "joined" => link'[0] = link[0]
    BY <1>2
  <2> QED
    BY <2>1, <2>2, <2>3
<1>5. CASE Recalled(inbox[0])
  BY <1>3, <1>5 DEF Offered
<1>6. CASE ~Recalled(inbox[0])
  <2>1. /\ NoLeft(inbox[0]) /\ link[0] # NoLink
        /\ link[0].remote # NoLink \/ Underway
    BY <1>1, <1>3, <1>6 DEF Offered
  <2>2. CASE link[0].remote # NoLink \/ link[0].task = "offering"
    BY <1>3, <1>4, <2>1, <2>2 DEF Offered, Underway
  <2>3. CASE LastOffer(box, link[0].id)
    <3>1. CASE LastOffer(Tail(box), link[0].id)
      BY <1>3, <1>4, <2>1, <3>1 DEF Offered, Underway
    <3>2. CASE /\ Head(box).kind = "offer" /\ Head(box).id = link[0].id
               /\ Clear(Tail(box))
      <4>1. /\ Hear(1, "offer") /\ EnsureLink(1, Heard(1), "accepting")
            /\ Heard(1) = link[0].id
        BY <1>2, <1>3, <3>2 DEF HearOffer, Heard
      <4>2. Heard(1) \in LinkId /\ Heard(1) # NoLink /\ transport'[1] # "released"
        BY <1>1, <1>3, <4>1, HearEffect, HearMoves, Pages, PairingAssumption
      <4>3. /\ link'[1] # NoLink /\ link'[1].task = "accepting"
            /\ link'[1].remote = Heard(1)
        BY <1>1, <4>1, <4>2, LinkMade, Pages DEF Initiator
      <4>4. Answering'
        BY <1>3, <1>4, <3>2, <4>1, <4>3 DEF Answering, Pending
      <4> QED
        BY <1>3, <1>4, <2>1, <4>4 DEF Offered, Underway
    <3> QED
      BY <1>3, <2>3, <3>1, <3>2, BoxTail
  <2>4. CASE Answering
    <3>1. Clear(Tail(box)) /\ kind \notin {"left", "offer"}
      BY <1>3, <2>4, BoxTail DEF Answering
    <3>2. /\ link'[1] # NoLink /\ link'[1].remote = link[1].remote
          /\ link'[1].task = link[1].task
      <4>1. CASE kind = "joined"
        BY <1>2, <2>4, <4>1 DEF Answering
      <4>2. CASE kind = "ice"
        <5> DEFINE x == WithCandidate(link[1], Heard(1))
        <5>1. link[1] \in Link /\ Heard(1) \in LinkId /\ link[1] # NoLink
          BY <1>1, <1>2, <2>4, <4>2, LinkType, HearEffect, Pages DEF Answering
        <5>2. x \in Link /\ x.remote = link[1].remote /\ x.task = link[1].task
          BY <5>1 DEF WithCandidate, Link
        <5>3. link' = [link EXCEPT ![1] = x]
          BY <1>1, <1>2, <4>2, <5>1, Pages, Parts DEF HearCandidate, LinksOK
        <5> HIDE DEF x
        <5> QED
          BY <1>1, <5>2, <5>3, LinkOn, Pages
      <4> QED
        BY <1>2, <3>1, <4>1, <4>2
    <3>3. Answering'
      BY <1>3, <1>4, <2>4, <3>1, <3>2 DEF Answering, Pending
    <3> QED
      BY <1>3, <1>4, <2>1, <3>3 DEF Offered, Underway
  <2> QED
    BY <2>1, <2>2, <2>3, <2>4 DEF Underway
<1> QED
  BY <1>5, <1>6

LEMMA NegotiateOffered ==
  ASSUME StuckInv, NEW p \in Page, Negotiate(p)
  PROVE  Offered'
<1>1. /\ PairingInv /\ Offered /\ \A q \in Page : LinkInv(q)
      /\ UNCHANGED <<transport, clocks>>
  BY DEF StuckInv, Negotiate, CreateOffer, CreateAnswer, OfferSet, AnswerSet, relayVars
<1> SUFFICES ASSUME BothJoined'
             PROVE  Offered'
  BY DEF Offered
<1>2. BothJoined /\ \A q \in Page : Forwarded(q)
  BY <1>1, Pages DEF BothJoined, Forwarded
<1>3. inbox \in [Page -> Seq(Messages)]
  BY <1>1 DEF PairingInv, TypeOK
<1>4. CASE CreateOffer
  <2>1. PICK x \in Link : Negotiated(0, x) /\ x.task = "none"
    BY <1>1, <1>4, NegotiateMoves
  <2>2. /\ link'[0] = x /\ x # NoLink /\ x.id = link[0].id /\ x.remote = link[0].remote
        /\ link[0] # NoLink /\ link[0] \in Link
    BY <1>1, <2>1, NegotiatedMoves, LinkType, Pages DEF Negotiated
  <2> DEFINE a == [kind |-> "offer", id |-> link[0].id]
             b == [kind |-> "ice", id |-> link[0].id]
  <2>3. a \in Messages /\ b \in Messages
    BY <2>2, LinkFields DEF Messages, Signals
  <2>4. inbox' = [inbox EXCEPT ![1] = inbox[1] \o <<a, b>>]
    BY <1>2, <1>4, Pages DEF CreateOffer, Deliver, Description
  <2>5. a.kind = "offer" /\ a.id = link[0].id /\ b.kind = "ice"
    OBVIOUS
  <2> HIDE DEF a, b
  <2>6. inbox'[0] = inbox[0] /\ inbox'[1] = inbox[1] \o <<a, b>>
    BY <1>3, <2>4, Pages
  <2>7. LastOffer(inbox'[1], link[0].id)
    BY <1>3, <2>3, <2>5, <2>6, BoxMore, Pages
  <2>8. Recalled(inbox[0]) \/ NoLeft(inbox[0])
    BY <1>1, <1>2 DEF Offered
  <2> QED
    BY <2>2, <2>6, <2>7, <2>8 DEF Offered, Underway
<1>5. CASE CreateAnswer
  <2>1. PICK x \in Link : Negotiated(1, x) /\ x.task = "none"
    BY <1>1, <1>5, NegotiateMoves
  <2>2. /\ link'[1] = x /\ x # NoLink /\ x.remote = link[1].remote
        /\ link[1] # NoLink /\ link[1] \in Link /\ link'[0] = link[0]
    BY <1>1, <2>1, NegotiatedMoves, LinkType, Pages DEF Negotiated
  <2> DEFINE a == [kind |-> "answer", id |-> link[1].id]
             b == [kind |-> "ice", id |-> link[1].id]
  <2>3. a \in Messages /\ b \in Messages
    BY <2>2, LinkFields DEF Messages, Signals
  <2>4. inbox' = [inbox EXCEPT ![0] = inbox[0] \o <<a, b>>]
    BY <1>2, <1>5, Pages DEF CreateAnswer, Deliver, Description
  <2>5. a.kind = "answer" /\ b.kind = "ice"
    OBVIOUS
  <2> HIDE DEF a, b
  <2>6. inbox'[1] = inbox[1] /\ inbox'[0] = inbox[0] \o <<a, b>>
    BY <1>3, <2>4, Pages
  <2>7. /\ AnswerIn(inbox'[0])
        /\ Recalled(inbox[0]) => Recalled(inbox'[0])
        /\ NoLeft(inbox[0]) => NoLeft(inbox'[0])
    BY <1>3, <2>3, <2>5, <2>6, BoxMore, Pages
  <2>8. Underway => Underway'
    BY <2>2, <2>6, <2>7 DEF Underway, Answering
  <2> QED
    BY <1>1, <1>2, <2>2, <2>7, <2>8 DEF Offered
<1>6. CASE OfferSet
  <2>1. PICK x \in Link : Negotiated(1, x) /\ x.task = "answering"
    BY <1>1, <1>6, NegotiateMoves
  <2>2. /\ link'[1] = x /\ x # NoLink /\ x.remote = link[1].remote
        /\ link[1] # NoLink /\ link'[0] = link[0]
    BY <1>1, <2>1, NegotiatedMoves, Pages DEF Negotiated
  <2>3. UNCHANGED inbox
    BY <1>6 DEF OfferSet, relayVars
  <2>4. Underway => Underway'
    BY <2>1, <2>2, <2>3 DEF Underway, Answering, Pending
  <2> QED
    BY <1>1, <1>2, <2>2, <2>3, <2>4 DEF Offered
<1>7. CASE AnswerSet
  <2>1. PICK x \in Link : Negotiated(0, x) /\ x.task = "none"
    BY <1>1, <1>7, NegotiateMoves
  <2>2. /\ link'[0] = x /\ x # NoLink /\ x.remote = link[0].remote
    BY <1>1, <2>1, NegotiatedMoves, Pages DEF Negotiated
  <2>3. link[0].remote # NoLink /\ UNCHANGED inbox
    BY <1>1, <1>7, Pages DEF AnswerSet, LinkInv, Shaped, relayVars
  <2> QED
    BY <1>1, <1>2, <2>2, <2>3 DEF Offered
<1> QED
  BY <1>4, <1>5, <1>6, <1>7 DEF Negotiate

\* A page that is back at the relay while the other is there is announced.
LEMMA JoinOffered ==
  ASSUME StuckInv, NEW p \in Page, Join(p)
  PROVE  Offered'
<1> DEFINE there == transport[Peer(p)] = "joined"
           told == IF there THEN <<Notice("joined")>> ELSE <<>>
<1>1. /\ inbox \in [Page -> Seq(Messages)] /\ DOMAIN transport = Page
      /\ transport' = [transport EXCEPT ![p] = "joined"]
      /\ inbox' = [inbox EXCEPT ![p] = told, ![Peer(p)] = @ \o told]
  BY DEF StuckInv, PairingInv, TypeOK, Join
<1> SUFFICES ASSUME BothJoined'
             PROVE  Recalled(inbox'[0])
  BY DEF Offered
<1>2. there
  BY <1>1, Pages DEF BothJoined
<1>3. told = <<Notice("joined")>>
  BY <1>2
<1> HIDE DEF told, there
<1>4. CASE p = 0
  <2>1. inbox'[0] = <<Notice("joined")>>
    BY <1>1, <1>3, <1>4, Pages
  <2> QED
    BY <2>1, MessageTypes DEF Recalled
<1>5. CASE p = 1
  <2>1. inbox'[0] = inbox[0] \o <<Notice("joined")>>
    BY <1>1, <1>3, <1>5, Pages
  <2> QED
    BY <1>1, <2>1, JoinedLast, Pages
<1> QED
  BY <1>4, <1>5 DEF Page

LEMMA StartPairingOffered ==
  ASSUME StuckInv, StartPairing, UNCHANGED <<relayVars, reconnecting>>
  PROVE  Offered'
<1>1. PairingInv /\ Offered
  BY DEF StuckInv
<1>2. link'[0] # NoLink /\ link'[0].task = "offering"
  BY <1>1, StartPairingMoves DEF relayVars
<1> QED
  BY <1>1, <1>2, OfferedAnew DEF relayVars, Offered, BothJoined

LEMMA AttachOffered ==
  ASSUME StuckInv, NEW p \in Page, AttachTransport(p)
  PROVE  Offered'
<1>1. transport'[p] # "joined"
  BY DEF StuckInv, PairingInv, TypeOK, AttachTransport
<1> QED
  BY <1>1 DEF Offered, BothJoined

LEMMA OtherwiseOffered ==
  ASSUME StuckInv, NEW p \in Page,
         \/ Sleep(p) \/ ReleaseSignaling(p) \/ User(p)
         \/ Connection(p) \/ Fault(p)
  PROVE  Offered'
<1>1. PairingInv /\ Offered /\ \A q \in Page : LinkInv(q)
  BY DEF StuckInv
<1>2. CASE RetryWakes(p) \/ PressReconnect(p) \/ Reload(p)
  BY <1>2, AttachOffered DEF RetryWakes, PressReconnect, Reload
<1>3. CASE PressPair \/ OfferAgain
  <2>1. CASE StartPairing
    BY <1>3, <2>1, StartPairingOffered DEF PressPair, OfferAgain, clocks
  <2>2. CASE UNCHANGED <<relayVars, link>>
    BY <1>1, <2>2, OfferedSame DEF relayVars, BothJoined
  <2> QED
    BY <1>3, <2>1, <2>2 DEF PressPair, OfferAgain
<1>4. CASE WatchEnds(p) \/ Disconnected(p)
  BY <1>1, <1>4, OfferedSame DEF WatchEnds, Disconnected, relayVars, BothJoined
<1>5. CASE ReleaseSignaling(p)
  <2>1. CASE UNCHANGED <<transport, inbox, link>>
    BY <1>1, <2>1, OfferedSame DEF BothJoined
  <2>2. CASE transport' = [transport EXCEPT ![p] = "released"]
    <3>1. transport'[p] # "joined"
      BY <1>1, <2>2 DEF PairingInv, TypeOK
    <3> QED
      BY <3>1 DEF Offered, BothJoined
  <2> QED
    BY <1>5, <2>1, <2>2 DEF ReleaseSignaling
<1>6. CASE Connection(p) \/ ChannelClosed(p) \/ NetworkFails(p)
  <2>1. \A q \in Page : q = p \/ q = Peer(p)
    BY DEF Page, Peer
  <2> QED
    BY <1>1, <1>6, <2>1, ConnectionMoves, OfferedSame DEF BothJoined
<1> QED
  BY <1>2, <1>3, <1>4, <1>5, <1>6 DEF Sleep, User, Fault

LEMMA StuckInit == Init => StuckInv
<1> SUFFICES ASSUME Init PROVE StuckInv
  OBVIOUS
<1>1. \A p \in Page : LinkInv(p)
  BY DEF Init, LinkInv, Shaped, Raised, Retrying, LeftWithLink
<1>2. Offered
  BY Pages DEF Init, Offered, BothJoined
<1> QED
  BY <1>1, <1>2, PairingInit DEF StuckInv

LEMMA StuckStep == StuckInv /\ [Next]_vars => StuckInv'
<1> SUFFICES ASSUME StuckInv, [Next]_vars PROVE StuckInv'
  OBVIOUS
<1>1. PairingInv' /\ (\A p \in Page : LinkInv(p))'
  BY PairingStep, LinkInvStep DEF StuckInv
<1>2. ASSUME UNCHANGED vars PROVE Offered'
  BY <1>2, OfferedSame DEF vars, relayVars, StuckInv, BothJoined
<1>3. ASSUME NEW p \in Page, Join(p) \/ Task(p)
      PROVE  Offered'
  <2>1. CASE Signal(p)
    BY <2>1, HearZeroOffered, HearOneOffered DEF Page
  <2>2. CASE Join(p) \/ Negotiate(p) \/ Sleep(p)
    BY <2>2, JoinOffered, NegotiateOffered, OtherwiseOffered
  <2> QED
    BY <1>3, <2>1, <2>2 DEF Task
<1>4. ASSUME NEW p \in Page,
             ReleaseSignaling(p) \/ Connection(p) \/ Fault(p) \/ User(p)
      PROVE  Offered'
  BY <1>4, OtherwiseOffered
<1>5. Offered'
  BY <1>2, <1>3, <1>4 DEF Next
<1> QED
  BY <1>1, <1>5 DEF StuckInv

LEMMA StuckInvariant == Spec => []StuckInv
  BY StuckInit, StuckStep, PTL DEF Spec

-----------------------------------------------------------------------------
(* When nothing is under way any more *)

\* Two links that have agreed and can do nothing more carry the channel.
LEMMA AgreedIsPaired ==
  ASSUME StuckInv, Quiet, Agreed
  PROVE  Paired
<1> SUFFICES ASSUME NEW p \in Page
             PROVE  link[p].channel = "open"
  BY DEF Paired, Open, Agreed
<1>1. /\ link[p] # NoLink /\ ~link[p].failed /\ LinkInv(p) /\ PairingInv
      /\ ~Doomed(p) /\ ~CanOpen(p) /\ inbox[p] = <<>>
  BY DEF Agreed, StuckInv, Quiet
<1>2. link[p].channel \in {"new", "open", "closed"}
  BY <1>1, LinkType, LinkFields
<1>3. link[p].channel # "closed"
  BY <1>1 DEF LinkInv, Raised, Severed
<1>4. ASSUME link[p].channel = "new" PROVE FALSE
  <2>1. link[p].reached
    BY <1>1, <1>4, PairingInvKeeps DEF CandidatesKept
  <2> QED
    BY <1>1, <1>4, <2>1 DEF CanOpen
<1> QED
  BY <1>2, <1>3, <1>4

\* A link that is neither doomed nor about to be retried has its other end.
LEMMA QuietLink ==
  ASSUME StuckInv, Quiet, NEW p \in Page, link[p] # NoLink
  PROVE  /\ ~link[p].failed /\ link[p].task = "none" /\ link[p].local
         /\ link[p].remote = NoLink => Initiator(p)
         /\ link[p].remote # NoLink =>
              LET other == link[Peer(p)] IN
              /\ other # NoLink /\ other.id = link[p].remote
              /\ other.remote \in {NoLink, link[p].id}
<1>1. LinkInv(p) /\ ~Doomed(p) /\ ~Pending(p) /\ ~reconnecting[p]
  BY DEF StuckInv, Quiet
<1> QED
  BY <1>1 DEF LinkInv, Shaped, Retrying, Pending, Doomed

\* With both pages at the relay page 0 has a link, and page 1 one for it.
LEMMA QuietTogether ==
  ASSUME StuckInv, Quiet, BothJoined
  PROVE  /\ link[0] # NoLink /\ link[0].remote # NoLink
<1>1. /\ inbox[0] = <<>> /\ inbox[1] = <<>> /\ ~Pending(0) /\ ~Pending(1)
      /\ Offered
  BY Pages DEF Quiet, StuckInv
<1>2. ~Recalled(inbox[0]) /\ ~AnswerIn(inbox[0]) /\ ~LastOffer(inbox[1], link[0].id)
  BY <1>1 DEF Recalled, AnswerIn, LastOffer
<1> QED
  BY <1>1, <1>2 DEF Offered, Underway, Answering, Pending

\* A pair gets stuck in no other way than by an offer page 0 makes after it has
\* hung up: whatever was lost, retried, reloaded, pressed or left running
\* before, once neither page has anything left to do they are paired or page 0
\* waits for an answer nobody will give (on_peer, retry_pairing,
\* release_signaling and on_signal).
THEOREM StuckOnlyByOffer == Spec => []StuckOnlyAfterHangUp
<1>1. StuckInv => StuckOnlyAfterHangUp
  <2> SUFFICES ASSUME StuckInv, Quiet, ~OfferedToNobody
               PROVE  Agreed
    BY AgreedIsPaired DEF StuckOnlyAfterHangUp
  <2>1. \A p \in Page : transport[p] \in {"joined", "released"} /\ LinkInv(p)
    BY DEF StuckInv, PairingInv, TypeOK, Quiet
  <2>2. transport[1] = "released" => link[1] # NoLink /\ link[1].channel # "new"
    BY <2>1, Pages DEF LinkInv, LeftWithLink, Initiator
  <2>3. /\ transport[0] = "released" => link[0] # NoLink
        /\ link[0] # NoLink /\ link[0].remote = NoLink => transport[0] = "joined"
    <3>1. transport[0] = "released" => link[0] # NoLink
      BY <2>1, Pages DEF LinkInv, LeftWithLink
    <3>2. ASSUME link[0] # NoLink, link[0].remote = NoLink, transport[0] = "released"
          PROVE  FALSE
      BY <3>2, QuietLink, Pages DEF OfferedToNobody, HaveLocalOffer, Described
    <3> QED
      BY <2>1, <3>1, <3>2, Pages
  <2>4. link[1] # NoLink =>
          /\ link[1].remote # NoLink /\ link[0] # NoLink
          /\ link[0].id = link[1].remote /\ link[0].remote \in {NoLink, link[1].id}
    BY QuietLink, Pages DEF Initiator
  <2>5. link[0] # NoLink /\ link[0].remote # NoLink
    <3>1. CASE transport[0] = "joined" /\ transport[1] = "joined"
      BY <3>1, QuietTogether DEF BothJoined, Page
    <3>2. CASE transport[1] = "released"
      <4>1. link[1] # NoLink /\ Raised(1) /\ ~Severed(1)
        BY <2>1, <2>2, <3>2, QuietLink, Pages DEF LinkInv, Severed, Quiet
      <4>2. Matched(1) /\ link[1].id # NoLink
        BY <2>2, <3>2, <4>1, LinkType, Pages DEF Raised, StuckInv
      <4> QED
        BY <4>2, Pages DEF Matched
    <3>3. CASE transport[0] = "released"
      BY <2>3, <3>3
    <3> QED
      BY <2>1, <3>1, <3>2, <3>3, Pages
  <2>6. link[1] # NoLink /\ link[1].id = link[0].remote
    BY <2>5, QuietLink, Pages
  <2>7. \A p \in Page : link[p] # NoLink /\ link[p].local /\ ~link[p].failed
                        /\ Described(link[p])
    BY <2>4, <2>5, <2>6, QuietLink, Pages DEF Described
  <2> QED
    BY <2>4, <2>5, <2>6, <2>7, Pages DEF Agreed
<1> QED
  BY <1>1, StuckInvariant, PTL
==============================================================================
