------------------------ MODULE BroadcastPresenceProofs ------------------------
(***************************************************************************)
(* Theorems about BroadcastPresence: its types for every number of tabs,   *)
(* and SeatsKnown for two.  A third tab that sits down in an occupied seat *)
(* and gives way says "leave" from there, and its peer takes that for the  *)
(* tab that stays, until the next heartbeat.                               *)
(***************************************************************************)
EXTENDS BroadcastPresence, TLAPS

(* The inductive invariant *)

\* What is unheard of the transport a tab has now, instance n in this seat, was
\* posted after all that is unheard of the ones it had before, and is no "leave".
InOrder(box, n, seat) ==
  \A i \in DOMAIN box : box[i].instance = n =>
    /\ box[i].kind # "leave" /\ box[i].from = seat
    /\ \A j \in DOMAIN box : i < j => box[j].instance = n

Word(box, n) == \E i \in DOMAIN box : box[i].instance = n
Announced(box, n) ==
  \E i \in DOMAIN box : box[i].instance = n /\ box[i].kind = "announce"
NoLeave(box) == \A i \in DOMAIN box : box[i].kind # "leave"

\* t knows of s and will not forget it, or word of s is on its way, or will be
\* once s has heard t announce itself.
Knows(t, s) ==
  \/ Word(queue[s][t], tab[s].instance)
  \/ Announced(queue[t][s], tab[t].instance)
  \/ tab[t].present /\ NoLeave(queue[s][t])

QueueType(q) ==
  q \in [Tab -> [Tab -> Seq(Messages)]] /\ \A t \in Tab : q[t][t] = <<>>

PresenceInv ==
  /\ TypeOK
  /\ \A s, t \in Tab : s # t => InOrder(queue[s][t], tab[s].instance, tab[s].seat)

KnownInv ==
  /\ PresenceInv
  /\ \A s, t \in Tab : Facing(s, t) => Knows(t, s)

-----------------------------------------------------------------------------
(* Messages in a queue *)

LEMMA RoleFacts ==
  /\ Role = {"node0", "node1"} /\ \A r \in Role : Other(r) \in Role
  BY DEF Role, Other

LEMMA MessageFields ==
  ASSUME NEW m \in Messages
  PROVE  /\ m.kind \in {"announce", "present", "heartbeat", "leave"}
         /\ m.from \in Role /\ m.instance \in Instance /\ m.instance # 0
  BY PresenceAssumption DEF Messages

LEMMA TabFields ==
  ASSUME NEW x \in TabRecord
  PROVE  /\ x.role \in Role /\ x.seat \in Role /\ x.instance \in Instance \cup {0}
         /\ x.present \in BOOLEAN /\ x.switching \in 0 .. MaxSwitching
  BY DEF TabRecord

LEMMA TailInOrder ==
  ASSUME NEW box \in Seq(Messages), box # <<>>, NEW n, NEW seat,
         InOrder(box, n, seat)
  PROVE  /\ Tail(box) \in Seq(Messages) /\ Head(box) \in Messages
         /\ InOrder(Tail(box), n, seat)
         /\ Head(box).instance = n =>
              Head(box).from = seat /\ Head(box).kind # "leave" /\ NoLeave(Tail(box))
         /\ Word(box, n) => Head(box).instance = n \/ Word(Tail(box), n)
         /\ Announced(box, n) =>
              \/ Head(box).instance = n /\ Head(box).kind = "announce"
              \/ Announced(Tail(box), n)
         /\ NoLeave(box) => Head(box).kind # "leave" /\ NoLeave(Tail(box))
<1>1. /\ Head(box) = box[1] /\ 1 \in DOMAIN box /\ Head(box) \in Messages
      /\ Tail(box) \in Seq(Messages)
      /\ \A i \in DOMAIN Tail(box) : i + 1 \in DOMAIN box /\ Tail(box)[i] = box[i + 1]
      /\ \A i \in DOMAIN box : i # 1 => i - 1 \in DOMAIN Tail(box)
                                        /\ Tail(box)[i - 1] = box[i]
      /\ DOMAIN box \subseteq Nat /\ DOMAIN Tail(box) \subseteq Nat \ {0}
  OBVIOUS
<1>2. InOrder(Tail(box), n, seat)
  <2> SUFFICES ASSUME NEW i \in DOMAIN Tail(box), Tail(box)[i].instance = n
               PROVE  /\ Tail(box)[i].kind # "leave" /\ Tail(box)[i].from = seat
                      /\ \A j \in DOMAIN Tail(box) : i < j => Tail(box)[j].instance = n
    BY DEF InOrder
  <2>1. i + 1 \in DOMAIN box /\ box[i + 1].instance = n /\ i \in Nat
    BY <1>1
  <2>2. /\ box[i + 1].kind # "leave" /\ box[i + 1].from = seat
        /\ \A j \in DOMAIN box : i + 1 < j => box[j].instance = n
    BY <2>1 DEF InOrder
  <2>3. ASSUME NEW j \in DOMAIN Tail(box), i < j
        PROVE  Tail(box)[j].instance = n
    <3>1. j + 1 \in DOMAIN box /\ j \in Nat /\ i + 1 < j + 1
      BY <1>1, <2>1, <2>3
    <3> QED
      BY <1>1, <2>2, <3>1
  <2> QED
    BY <1>1, <2>2, <2>3
<1>3. ASSUME Head(box).instance = n
      PROVE  Head(box).from = seat /\ Head(box).kind # "leave" /\ NoLeave(Tail(box))
  <2>1. /\ box[1].from = seat /\ box[1].kind # "leave"
        /\ \A j \in DOMAIN box : 1 < j => box[j].instance = n
    BY <1>1, <1>3 DEF InOrder
  <2>2. \A j \in DOMAIN box : 1 < j => box[j].kind # "leave"
    BY <2>1 DEF InOrder
  <2>3. \A i \in DOMAIN Tail(box) : 1 < i + 1
    BY <1>1
  <2> QED
    BY <1>1, <2>1, <2>2, <2>3 DEF NoLeave
<1> QED
  BY <1>1, <1>2, <1>3 DEF Word, Announced, NoLeave

LEMMA AppendInOrder ==
  ASSUME NEW box \in Seq(Messages), NEW m \in Messages, m.kind # "leave",
         InOrder(box, m.instance, m.from)
  PROVE  /\ Append(box, m) \in Seq(Messages)
         /\ InOrder(Append(box, m), m.instance, m.from)
         /\ Word(Append(box, m), m.instance)
         /\ Announced(box, m.instance) => Announced(Append(box, m), m.instance)
         /\ m.kind = "announce" => Announced(Append(box, m), m.instance)
<1>1. /\ DOMAIN Append(box, m) = DOMAIN box \cup {Len(box) + 1}
      /\ Append(box, m)[Len(box) + 1] = m
      /\ \A i \in DOMAIN box : Append(box, m)[i] = box[i] /\ i < Len(box) + 1
      /\ Len(box) + 1 \in Nat /\ DOMAIN box \subseteq Nat
      /\ Append(box, m) \in Seq(Messages)
  OBVIOUS
<1>2. InOrder(Append(box, m), m.instance, m.from)
  BY <1>1 DEF InOrder
<1> QED
  BY <1>1, <1>2 DEF Word, Announced

\* Nothing of instance n is there yet.
LEMMA NewInOrder ==
  ASSUME NEW box \in Seq(Messages), NEW n, NEW seat, ~Word(box, n)
  PROVE  InOrder(box, n, seat)
  BY DEF InOrder, Word

LEMMA EmptyInOrder ==
  ASSUME NEW n, NEW seat
  PROVE  InOrder(<<>>, n, seat) /\ <<>> \in Seq(Messages)
  BY DEF InOrder

-----------------------------------------------------------------------------
(* What a step does to the queues *)

LEMMA PostedOne ==
  ASSUME NEW q, QueueType(q), NEW t \in Tab, NEW messages \in Seq(Messages)
  PROVE  /\ QueueType(Posted(q, t, messages))
         /\ \A r \in Tab : r # t => Posted(q, t, messages)[r] = q[r]
         /\ \A s \in Tab : s # t /\ IsOpen(s) =>
              Posted(q, t, messages)[t][s] = q[t][s] \o messages
         /\ \A s \in Tab : ~(s # t /\ IsOpen(s)) =>
              Posted(q, t, messages)[t][s] = <<>>
<1> DEFINE row == [s \in Tab |-> IF s # t /\ IsOpen(s) THEN q[t][s] \o messages
                                                       ELSE <<>>]
<1>1. \A s \in Tab : q[t][s] \o messages \in Seq(Messages)
  BY DEF QueueType
<1>2. row \in [Tab -> Seq(Messages)]
  BY <1>1
<1>3. row[t] = <<>> /\ \A s \in Tab : row[s] =
        IF s # t /\ IsOpen(s) THEN q[t][s] \o messages ELSE <<>>
  OBVIOUS
<1>4. Posted(q, t, messages) = [q EXCEPT ![t] = row]
  BY DEF Posted, QueueType
<1> HIDE DEF row
<1> QED
  BY <1>2, <1>3, <1>4 DEF QueueType

LEMMA UnheardQueue ==
  ASSUME NEW q, QueueType(q), NEW t \in Tab
  PROVE  /\ QueueType(Unheard(q, t))
         /\ \A r, s \in Tab : Unheard(q, t)[r][s] = IF s = t THEN <<>> ELSE q[r][s]
  BY DEF Unheard, QueueType

\* t has heard one more of s.
Less(q, s, t) == [q EXCEPT ![s][t] = Tail(@)]

LEMMA TailQueue ==
  ASSUME NEW q, QueueType(q), NEW s \in Tab, NEW t \in Tab, q[s][t] # <<>>
  PROVE  /\ QueueType(Less(q, s, t))
         /\ s # t /\ Less(q, s, t)[s][t] = Tail(q[s][t])
         /\ \A u, v \in Tab : u # s \/ v # t => Less(q, s, t)[u][v] = q[u][v]
<1>1. Tail(q[s][t]) \in Seq(Messages) /\ s # t
  BY DEF QueueType
<1> DEFINE row == [q[s] EXCEPT ![t] = Tail(q[s][t])]
<1>2. /\ row \in [Tab -> Seq(Messages)] /\ row[t] = Tail(q[s][t])
      /\ \A v \in Tab : v # t => row[v] = q[s][v]
  BY <1>1 DEF QueueType
<1>3. Less(q, s, t) = [q EXCEPT ![s] = row]
  BY DEF QueueType, Less
<1> HIDE DEF row
<1> QED
  BY <1>1, <1>2, <1>3 DEF QueueType

\* A tab that is open posts what it stands for.
LEMMA PostPresence ==
  ASSUME tab \in [Tab -> TabRecord], NEW q, QueueType(q),
         \A r, s \in Tab : r # s => InOrder(q[r][s], tab[r].instance, tab[r].seat),
         NEW t \in Tab, IsOpen(t), NEW kind \in {"present", "heartbeat"}
  PROVE  LET more == Posted(q, t, <<PresenceMessage(t, kind)>>) IN
         /\ QueueType(more)
         /\ \A r, s \in Tab :
              r # s => InOrder(more[r][s], tab[r].instance, tab[r].seat)
         /\ \A r \in Tab : r # t => more[r] = q[r]
         /\ \A s \in Tab : s # t /\ IsOpen(s) =>
              /\ Word(more[t][s], tab[t].instance)
              /\ Announced(q[t][s], tab[t].instance)
                   => Announced(more[t][s], tab[t].instance)
<1> DEFINE m == PresenceMessage(t, kind)
           more == Posted(q, t, <<m>>)
<1>1. /\ m \in Messages /\ m.kind # "leave"
      /\ m.instance = tab[t].instance /\ m.from = tab[t].seat
  BY TabFields DEF PresenceMessage, Messages, IsOpen
<1> HIDE DEF m
<1>2. /\ QueueType(more) /\ \A r \in Tab : r # t => more[r] = q[r]
      /\ \A s \in Tab : s # t /\ IsOpen(s) => more[t][s] = q[t][s] \o <<m>>
      /\ \A s \in Tab : ~(s # t /\ IsOpen(s)) => more[t][s] = <<>>
  <2> DEFINE new == <<m>>
             all == Posted(q, t, new)
  <2>1. new \in Seq(Messages)
    BY <1>1
  <2>2. more = all
    OBVIOUS
  <2> HIDE DEF new, more
  <2>3. /\ QueueType(all) /\ \A r \in Tab : r # t => all[r] = q[r]
        /\ \A s \in Tab : s # t /\ IsOpen(s) => all[t][s] = q[t][s] \o new
        /\ \A s \in Tab : ~(s # t /\ IsOpen(s)) => all[t][s] = <<>>
    BY <2>1, PostedOne
  <2> HIDE DEF all
  <2> QED
    BY <2>2, <2>3 DEF new
<1> HIDE DEF more
<1>3. ASSUME NEW s \in Tab, s # t
      PROVE  /\ InOrder(more[t][s], tab[t].instance, tab[t].seat)
             /\ IsOpen(s) =>
                  /\ Word(more[t][s], tab[t].instance)
                  /\ Announced(q[t][s], tab[t].instance)
                       => Announced(more[t][s], tab[t].instance)
  <2>1. CASE IsOpen(s)
    <3>1. q[t][s] \in Seq(Messages) /\ InOrder(q[t][s], m.instance, m.from)
      BY <1>1, <1>3 DEF QueueType
    <3>2. more[t][s] = q[t][s] \o <<m>>
      BY <1>2, <1>3, <2>1
    <3>3. q[t][s] \o <<m>> = Append(q[t][s], m)
      BY <1>1, <3>1
    <3> QED
      BY <1>1, <3>1, <3>2, <3>3, AppendInOrder
  <2>2. CASE ~IsOpen(s)
    BY <1>2, <1>3, <2>2, EmptyInOrder
  <2> QED
    BY <2>1, <2>2
<1>4. \A r, s \in Tab : r # s => InOrder(more[r][s], tab[r].instance, tab[r].seat)
  BY <1>2, <1>3
<1> QED
  BY <1>2, <1>3, <1>4 DEF more, m

LEMMA AttachEffect ==
  ASSUME PresenceInv, NEW t \in Tab, NEW role \in Role,
         NEW switching \in 0 .. MaxSwitching, Attach(t, role, switching)
  PROVE  \E n \in Instance :
           /\ \A s \in Tab : tab[s].instance # n
           /\ tab' = [tab EXCEPT ![t] =
                        [role |-> role, seat |-> role, instance |-> n,
                         present |-> FALSE, switching |-> switching]]
           /\ QueueType(queue')
           /\ \A s \in Tab : queue'[s][t] = <<>>
           /\ \A r, s \in Tab : r # t /\ s # t => queue'[r][s] = queue[r][s]
           /\ \A s \in Tab : s # t =>
                /\ InOrder(queue'[t][s], n, role)
                /\ IsOpen(s) => Announced(queue'[t][s], n)
<1>1. PICK n \in Instance \ InUse(t) :
        LET announcement == [kind |-> "announce", from |-> role, instance |-> n] IN
        /\ tab' = [tab EXCEPT ![t] =
                     [role |-> role, seat |-> role, instance |-> n,
                      present |-> FALSE, switching |-> switching]]
        /\ queue' = Posted(Unheard(queue, t), t, Leave(t) \o <<announcement>>)
  BY DEF Attach
<1> DEFINE a == [kind |-> "announce", from |-> role, instance |-> n]
           less == Unheard(queue, t)
           b == PresenceMessage(t, "leave")
<1>2. tab \in [Tab -> TabRecord] /\ QueueType(queue)
  BY DEF PresenceInv, TypeOK, QueueType
<1>3. /\ \A s \in Tab : tab[s].instance # n
      /\ \A s \in Tab : s # t => ~Word(queue[t][s], n)
  <2>1. \A s \in Tab : tab[s].instance # n
    BY DEF InUse
  <2>2. ASSUME NEW s \in Tab, s # t, NEW i \in DOMAIN queue[t][s]
        PROVE  queue[t][s][i].instance # n
    <3>1. s \in Tab \ {t}
      BY <2>2
    <3> DEFINE inBox(r, u) == {queue[r][u][j].instance : j \in DOMAIN queue[r][u]}
    <3>2. queue[t][s][i].instance \in inBox(t, s)
      OBVIOUS
    <3>3. InUse(t) = {tab[u].instance : u \in Tab}
                     \cup UNION {inBox(r, u) : r \in Tab, u \in Tab \ {t}}
      BY DEF InUse
    <3> HIDE DEF inBox
    <3>4. inBox(t, s) \in {inBox(r, u) : r \in Tab, u \in Tab \ {t}}
      BY <3>1
    <3> QED
      BY <3>2, <3>3, <3>4
  <2> QED
    BY <2>1, <2>2 DEF Word
<1>4. /\ QueueType(less)
      /\ \A r, s \in Tab : less[r][s] = IF s = t THEN <<>> ELSE queue[r][s]
  BY <1>2, UnheardQueue
<1>5. a \in Messages /\ a.kind = "announce" /\ a.instance = n /\ a.from = role
  BY DEF Messages
<1>6. IsOpen(t) => b \in Messages /\ b.instance = tab[t].instance
  BY <1>2, TabFields DEF PresenceMessage, Messages, IsOpen
<1> HIDE DEF a, b, less
<1>7. Leave(t) = (IF IsOpen(t) THEN <<b>> ELSE <<>>)
      /\ queue' = Posted(less, t, Leave(t) \o <<a>>)
  BY <1>1 DEF Leave, a, b, less
<1>8. Leave(t) \o <<a>> \in Seq(Messages)
  BY <1>5, <1>6, <1>7
<1>9. /\ QueueType(queue') /\ \A r \in Tab : r # t => queue'[r] = less[r]
      /\ \A s \in Tab : s # t /\ IsOpen(s) =>
           queue'[t][s] = less[t][s] \o (Leave(t) \o <<a>>)
      /\ \A s \in Tab : ~(s # t /\ IsOpen(s)) => queue'[t][s] = <<>>
  <2> DEFINE new == Leave(t) \o <<a>>
             all == Posted(less, t, new)
  <2>3. new \in Seq(Messages)
    BY <1>8
  <2> HIDE DEF new
  <2>1. /\ QueueType(all) /\ \A r \in Tab : r # t => all[r] = less[r]
        /\ \A s \in Tab : s # t /\ IsOpen(s) => all[t][s] = less[t][s] \o new
        /\ \A s \in Tab : ~(s # t /\ IsOpen(s)) => all[t][s] = <<>>
    BY <1>4, <2>3, PostedOne
  <2> HIDE DEF all
  <2>2. queue' = all
    BY <1>7 DEF all, new
  <2> QED
    BY <2>1, <2>2 DEF new
<1>10. ASSUME NEW s \in Tab, s # t
       PROVE  /\ InOrder(queue'[t][s], n, role)
              /\ IsOpen(s) => Announced(queue'[t][s], n)
  <2>1. CASE ~IsOpen(s)
    BY <1>9, <1>10, <2>1, EmptyInOrder
  <2>2. CASE IsOpen(s)
    <3> DEFINE box == less[t][s]
    <3>1. box \in Seq(Messages) /\ ~Word(box, n)
          /\ queue'[t][s] = box \o (Leave(t) \o <<a>>)
      BY <1>3, <1>4, <1>9, <1>10, <2>2 DEF QueueType
    <3> HIDE DEF box
    <3>2. CASE ~IsOpen(t)
      <4>1. queue'[t][s] = Append(box, a)
        BY <1>5, <1>7, <3>1, <3>2
      <4> QED
        BY <1>5, <3>1, <4>1, NewInOrder, AppendInOrder
    <3>3. CASE IsOpen(t)
      <4>1. queue'[t][s] = Append(Append(box, b), a) /\ Append(box, b) \in Seq(Messages)
        BY <1>5, <1>6, <1>7, <3>1, <3>3
      <4>2. ~Word(Append(box, b), n)
        <5>1. /\ DOMAIN Append(box, b) = DOMAIN box \cup {Len(box) + 1}
              /\ Append(box, b)[Len(box) + 1] = b
              /\ \A i \in DOMAIN box : Append(box, b)[i] = box[i]
          BY <1>6, <3>1, <3>3
        <5> QED
          BY <1>3, <1>6, <3>1, <3>3, <5>1 DEF Word
      <4> QED
        BY <1>5, <4>1, <4>2, NewInOrder, AppendInOrder
    <3> QED
      BY <3>2, <3>3
  <2> QED
    BY <2>1, <2>2
<1>11. /\ \A s \in Tab : queue'[s][t] = <<>>
       /\ \A r, s \in Tab : r # t /\ s # t => queue'[r][s] = queue[r][s]
  BY <1>4, <1>9
<1> QED
  BY <1>1, <1>3, <1>9, <1>10, <1>11

-----------------------------------------------------------------------------
(* The kinds of step, for every number of tabs *)

\* No transport is attached or dropped.
SameSeats ==
  \A t \in Tab : tab'[t].instance = tab[t].instance /\ tab'[t].seat = tab[t].seat

LEMMA Types ==
  ASSUME PresenceInv
  PROVE  /\ tab \in [Tab -> TabRecord] /\ QueueType(queue)
         /\ moves \in 0 .. MaxMoves
         /\ \A s, t \in Tab : s # t /\ IsOpen(s) => tab[s].instance # tab[t].instance
         /\ \A s, t \in Tab :
              s # t => InOrder(queue[s][t], tab[s].instance, tab[s].seat)
  BY DEF PresenceInv, TypeOK, QueueType

LEMMA SeatsStay ==
  ASSUME PresenceInv, tab' \in [Tab -> TabRecord], SameSeats, QueueType(queue'),
         \A s, t \in Tab :
           s # t => InOrder(queue'[s][t], tab[s].instance, tab[s].seat),
         moves' \in 0 .. MaxMoves
  PROVE  PresenceInv'
<1>1. \A s, t \in Tab : s # t /\ IsOpen(s)' => tab'[s].instance # tab'[t].instance
  BY Types DEF SameSeats, IsOpen
<1>2. TypeOK'
  BY <1>1 DEF TypeOK, QueueType
<1> QED
  BY <1>2 DEF PresenceInv, SameSeats

LEMMA OneTab ==
  ASSUME PresenceInv, NEW t \in Tab, NEW x \in TabRecord,
         tab' = [tab EXCEPT ![t] = x],
         x.instance = tab[t].instance, x.seat = tab[t].seat
  PROVE  /\ tab' \in [Tab -> TabRecord] /\ SameSeats /\ tab'[t] = x
         /\ \A s \in Tab : s # t => tab'[s] = tab[s]
  BY Types DEF SameSeats

\* AppState's role changes, and a change is under way; not yet the transport.
LEMMA SwitchedTab ==
  ASSUME PresenceInv, NEW t \in Tab, tab[t].switching < MaxSwitching,
         tab' = Switched(t)
  PROVE  /\ tab' \in [Tab -> TabRecord] /\ SameSeats
         /\ \A s \in Tab : tab'[s].present = tab[s].present
<1> DEFINE role == Other(tab[t].role)
           more == tab[t].switching + 1
           x == [tab[t] EXCEPT !.role = role, !.switching = more]
<1>1. tab[t] \in TabRecord /\ role \in Role /\ more \in 0 .. MaxSwitching
  BY Types, PresenceAssumption, TabFields, RoleFacts
<1>3. tab' = [tab EXCEPT ![t] = x]
  BY Types DEF Switched
<1> HIDE DEF role, more
<1>2. /\ x \in TabRecord /\ x.instance = tab[t].instance /\ x.seat = tab[t].seat
      /\ x.present = tab[t].present
  BY <1>1 DEF TabRecord
<1> HIDE DEF x
<1> QED
  BY <1>2, <1>3, OneTab

LEMMA PresentTab ==
  ASSUME PresenceInv, NEW t \in Tab, NEW present \in BOOLEAN,
         tab' = [tab EXCEPT ![t].present = present]
  PROVE  /\ tab' \in [Tab -> TabRecord] /\ SameSeats
         /\ tab'[t].present = present
         /\ \A s \in Tab : s # t => tab'[s] = tab[s]
<1> DEFINE x == [tab[t] EXCEPT !.present = present]
<1>1. tab[t] \in TabRecord
  BY Types
<1>2. /\ x \in TabRecord /\ x.instance = tab[t].instance /\ x.seat = tab[t].seat
      /\ x.present = present
  BY <1>1 DEF TabRecord
<1>3. tab' = [tab EXCEPT ![t] = x]
  OBVIOUS
<1> HIDE DEF x
<1> QED
  BY <1>2, <1>3, OneTab

\* A message is heard.
LEMMA ArrivesEffect ==
  ASSUME PresenceInv, NEW s \in Tab, NEW t \in Tab, queue[s][t] # <<>>,
         NEW less, less = Less(queue, s, t)
  PROVE  /\ QueueType(less) /\ s # t
         /\ queue[s][t] \in Seq(Messages) /\ Head(queue[s][t]) \in Messages
         /\ less[s][t] = Tail(queue[s][t])
         /\ \A u, v \in Tab : u # s \/ v # t => less[u][v] = queue[u][v]
         /\ \A u, v \in Tab :
              u # v => InOrder(less[u][v], tab[u].instance, tab[u].seat)
<1>1. QueueType(queue) /\ queue[s][t] \in Seq(Messages)
  BY Types DEF QueueType
<1>2. /\ QueueType(less) /\ s # t /\ less[s][t] = Tail(queue[s][t])
      /\ \A u, v \in Tab : u # s \/ v # t => less[u][v] = queue[u][v]
  BY <1>1, TailQueue
<1>3. Head(queue[s][t]) \in Messages
  BY <1>1
<1>4. InOrder(less[s][t], tab[s].instance, tab[s].seat)
  BY <1>1, <1>2, Types, TailInOrder
<1> QED
  BY <1>1, <1>2, <1>3, <1>4, Types

LEMMA HearStays ==
  ASSUME PresenceInv, NEW s \in Tab, NEW t \in Tab,
         HearCollision(s, t) \/ HearJunior(s, t) \/ HearPresence(s, t)
           \/ HearLeave(s, t)
  PROVE  PresenceInv' /\ SameSeats
<1>1. /\ IsOpen(t) /\ queue[s][t] # <<>> /\ moves' = moves
      /\ queue' = Less(queue, s, t)
  BY DEF Arrives, HearCollision, HearJunior, HearPresence, HearLeave, Less
<1>2. /\ QueueType(queue')
      /\ \A u, v \in Tab :
           u # v => InOrder(queue'[u][v], tab[u].instance, tab[u].seat)
  BY <1>1, ArrivesEffect
<1>3. tab' \in [Tab -> TabRecord] /\ SameSeats
  <2>1. CASE HearCollision(s, t)
    BY <2>1, SwitchedTab DEF HearCollision
  <2>2. CASE HearJunior(s, t)
    BY <2>2, Types DEF HearJunior, SameSeats
  <2>3. CASE HearPresence(s, t)
    BY <2>3, PresentTab DEF HearPresence
  <2>4. CASE HearLeave(s, t)
    BY <2>4, PresentTab DEF HearLeave
  <2> QED
    BY <2>1, <2>2, <2>3, <2>4
<1> QED
  BY <1>1, <1>2, <1>3, Types, SeatsStay

LEMMA HearAnnounceStays ==
  ASSUME PresenceInv, NEW s \in Tab, NEW t \in Tab, HearAnnounce(s, t)
  PROVE  PresenceInv' /\ SameSeats
<1> DEFINE less == Less(queue, s, t)
<1>1. /\ IsOpen(t) /\ queue[s][t] # <<>> /\ UNCHANGED moves
      /\ tab' = [tab EXCEPT ![t].present = TRUE]
      /\ queue' = Posted(less, t, <<PresenceMessage(t, "present")>>)
  BY DEF HearAnnounce, Answer, Less
<1>2. /\ QueueType(less)
      /\ \A u, v \in Tab :
           u # v => InOrder(less[u][v], tab[u].instance, tab[u].seat)
  BY <1>1, ArrivesEffect
<1> HIDE DEF less
<1>3. /\ QueueType(queue')
      /\ \A u, v \in Tab :
           u # v => InOrder(queue'[u][v], tab[u].instance, tab[u].seat)
  BY <1>1, <1>2, PostPresence, Types
<1>4. tab' \in [Tab -> TabRecord] /\ SameSeats
  BY <1>1, PresentTab
<1> QED
  BY <1>1, <1>3, <1>4, Types, SeatsStay

\* The tab that gives its peer up is the only one that changes.
LEMMA GivenUpTab ==
  ASSUME PresenceInv, NEW t \in Tab, tab' = GivenUp(t)
  PROVE  /\ tab' \in [Tab -> TabRecord] /\ SameSeats
         /\ tab'[t].present = (tab[t].present /\ ~Silent(t))
         /\ \A s \in Tab : s # t => tab'[s] = tab[s]
<1> DEFINE present == tab[t].present /\ ~Silent(t)
<1>1. tab' = [tab EXCEPT ![t].present = present] /\ present \in BOOLEAN
  BY DEF GivenUp
<1> HIDE DEF present
<1>2. /\ tab' \in [Tab -> TabRecord] /\ SameSeats
      /\ tab'[t].present = present
      /\ \A s \in Tab : s # t => tab'[s] = tab[s]
  BY <1>1, PresentTab
<1> QED
  BY <1>2 DEF present

LEMMA HeartbeatStays ==
  ASSUME PresenceInv, NEW t \in Tab, Heartbeat(t)
  PROVE  PresenceInv' /\ SameSeats
<1>1. /\ IsOpen(t) /\ UNCHANGED moves /\ tab' = GivenUp(t)
      /\ queue' = Posted(queue, t, <<PresenceMessage(t, "heartbeat")>>)
  BY DEF Heartbeat
<1>2. /\ QueueType(queue')
      /\ \A u, v \in Tab :
           u # v => InOrder(queue'[u][v], tab[u].instance, tab[u].seat)
  BY <1>1, PostPresence, Types
<1> QED
  BY <1>1, <1>2, GivenUpTab, Types, SeatsStay

LEMMA PickRoleStays ==
  ASSUME PresenceInv, NEW t \in Tab, PickRole(t)
  PROVE  PresenceInv' /\ SameSeats
<1>1. moves' \in 0 .. MaxMoves
  BY Types, PresenceAssumption DEF PickRole, Moves
<1>2. tab' \in [Tab -> TabRecord] /\ SameSeats /\ UNCHANGED queue
  BY SwitchedTab DEF PickRole
<1> QED
  BY <1>1, <1>2, Types, SeatsStay

LEMMA AttachKeeps ==
  ASSUME PresenceInv, NEW t \in Tab, NEW role \in Role,
         NEW switching \in 0 .. MaxSwitching, Attach(t, role, switching),
         moves' \in 0 .. MaxMoves
  PROVE  PresenceInv'
<1>1. PICK n \in Instance :
        /\ \A s \in Tab : tab[s].instance # n
        /\ tab' = [tab EXCEPT ![t] =
                     [role |-> role, seat |-> role, instance |-> n,
                      present |-> FALSE, switching |-> switching]]
        /\ QueueType(queue')
        /\ \A s \in Tab : queue'[s][t] = <<>>
        /\ \A r, s \in Tab : r # t /\ s # t => queue'[r][s] = queue[r][s]
        /\ \A s \in Tab : s # t => InOrder(queue'[t][s], n, role)
  BY AttachEffect
<1> DEFINE x == [role |-> role, seat |-> role, instance |-> n,
                 present |-> FALSE, switching |-> switching]
<1>2. x \in TabRecord /\ x.instance = n /\ x.seat = role
  BY DEF TabRecord
<1> HIDE DEF x
<1>3. /\ tab' \in [Tab -> TabRecord] /\ tab'[t] = x
      /\ \A s \in Tab : s # t => tab'[s] = tab[s]
  BY <1>1, <1>2, Types DEF x
<1>4. \A r, s \in Tab : r # s /\ IsOpen(r)' => tab'[r].instance # tab'[s].instance
  BY <1>1, <1>2, <1>3, Types DEF IsOpen
<1>5. \A r, s \in Tab :
        r # s => InOrder(queue'[r][s], tab'[r].instance, tab'[r].seat)
  BY <1>1, <1>2, <1>3, Types, EmptyInOrder
<1> QED
  BY <1>1, <1>3, <1>4, <1>5 DEF PresenceInv, TypeOK, QueueType

LEMMA SwitchDoneAttaches ==
  ASSUME PresenceInv, NEW t \in Tab, SwitchDone(t)
  PROVE  /\ PresenceInv'
         /\ \E role \in Role : \E switching \in 0 .. MaxSwitching :
              Attach(t, role, switching)
<1>1. tab[t] \in TabRecord /\ MaxSwitching \in Nat
  BY Types, PresenceAssumption
<1> DEFINE role == tab[t].role
           fewer == tab[t].switching - 1
<1>2. /\ role \in Role /\ fewer \in 0 .. MaxSwitching
      /\ Attach(t, role, fewer) /\ UNCHANGED moves
  BY <1>1, TabFields DEF SwitchDone
<1> HIDE DEF role, fewer
<1> QED
  BY <1>2, Types, AttachKeeps

LEMMA OpenTabAttaches ==
  ASSUME PresenceInv, NEW t \in Tab, OpenTab(t)
  PROVE  /\ PresenceInv'
         /\ \E role \in Role : \E switching \in 0 .. MaxSwitching :
              Attach(t, role, switching)
<1>1. PICK role \in Role : Attach(t, role, 0)
  BY DEF OpenTab
<1>2. 0 \in 0 .. MaxSwitching
  BY PresenceAssumption
<1>3. moves' \in 0 .. MaxMoves
  BY Types, PresenceAssumption DEF OpenTab, Moves
<1> QED
  BY <1>1, <1>2, <1>3, AttachKeeps

LEMMA CloseTabKeeps ==
  ASSUME PresenceInv, NEW t \in Tab, CloseTab(t)
  PROVE  PresenceInv' /\ ~IsOpen(t)'
<1> DEFINE left == Leave(t)
           posted == Posted(queue, t, left)
<1>1. /\ tab' = [tab EXCEPT ![t] = ClosedTab] /\ IsOpen(t)
      /\ queue' = Unheard(posted, t) \/ queue' = Unheard(queue, t)
      /\ moves' \in 0 .. MaxMoves
  BY Types, PresenceAssumption DEF CloseTab, Moves
<1>2. ClosedTab \in TabRecord /\ ClosedTab.instance = 0
  BY PresenceAssumption DEF ClosedTab, TabRecord, Role
<1>3. /\ tab' \in [Tab -> TabRecord] /\ tab'[t].instance = 0
      /\ \A s \in Tab : s # t => tab'[s] = tab[s]
  BY <1>1, <1>2, Types
<1>4. left \in Seq(Messages)
  <2>1. PresenceMessage(t, "leave") \in Messages
    BY <1>1, Types, TabFields DEF PresenceMessage, Messages, IsOpen
  <2> QED
    BY <1>1, <2>1 DEF Leave
<1>5. QueueType(posted) /\ \A r \in Tab : r # t => posted[r] = queue[r]
  <2> HIDE DEF left
  <2> QED
    BY <1>4, Types, PostedOne
<1> HIDE DEF posted
<1>6. /\ QueueType(queue')
      /\ \A r, s \in Tab : r # t => queue'[r][s] = queue[r][s] \/ queue'[r][s] = <<>>
  <2>1. ASSUME NEW q, QueueType(q), queue' = Unheard(q, t),
               \A r \in Tab : r # t => q[r] = queue[r]
        PROVE  /\ QueueType(queue')
               /\ \A r, s \in Tab :
                    r # t => queue'[r][s] = queue[r][s] \/ queue'[r][s] = <<>>
    <3> DEFINE all == Unheard(q, t)
    <3>1. /\ QueueType(all)
          /\ \A r, s \in Tab : all[r][s] = q[r][s] \/ all[r][s] = <<>>
      BY <2>1, UnheardQueue
    <3> HIDE DEF all
    <3>2. queue' = all
      BY <2>1 DEF all
    <3> QED
      BY <2>1, <3>1, <3>2
  <2> QED
    BY <1>1, <1>5, <2>1, Types
<1>7. \A r, s \in Tab : r # s /\ IsOpen(r)' => tab'[r].instance # tab'[s].instance
  BY <1>3, Types DEF IsOpen
<1>8. ASSUME NEW r \in Tab, NEW s \in Tab, r # s
      PROVE  InOrder(queue'[r][s], tab'[r].instance, tab'[r].seat)
  <2>1. CASE r # t
    BY <1>3, <1>6, <1>8, <2>1, Types, EmptyInOrder
  <2>2. CASE r = t
    <3>1. queue'[r][s] \in Seq(Messages)
      BY <1>6 DEF QueueType
    <3>2. \A i \in DOMAIN queue'[r][s] : queue'[r][s][i].instance # 0
      BY <3>1, MessageFields
    <3>3. ~Word(queue'[r][s], 0)
      BY <3>2 DEF Word
    <3> QED
      BY <1>3, <2>2, <3>1, <3>3, NewInOrder
  <2> QED
    BY <2>1, <2>2
<1> QED
  BY <1>1, <1>3, <1>6, <1>7, <1>8, Types DEF PresenceInv, TypeOK, QueueType, IsOpen

LEMMA PresenceInit == Init => PresenceInv
<1> SUFFICES ASSUME Init PROVE PresenceInv
  OBVIOUS
<1>1. ClosedTab \in TabRecord /\ ClosedTab.instance = 0
  BY PresenceAssumption DEF ClosedTab, TabRecord, Role
<1>2. /\ tab \in [Tab -> TabRecord]
      /\ \A t \in Tab : tab[t].instance = 0
  BY <1>1 DEF Init
<1>3. QueueType(queue) /\ \A s, t \in Tab : queue[s][t] = <<>>
  BY DEF Init, QueueType
<1>4. moves \in 0 .. MaxMoves
  BY PresenceAssumption DEF Init
<1> QED
  BY <1>2, <1>3, <1>4, EmptyInOrder DEF PresenceInv, TypeOK, QueueType, IsOpen

LEMMA PresenceStep == PresenceInv /\ [Next]_vars => PresenceInv'
<1> SUFFICES ASSUME PresenceInv, [Next]_vars PROVE PresenceInv'
  OBVIOUS
<1>1. CASE UNCHANGED vars
  BY <1>1 DEF vars, PresenceInv, TypeOK, IsOpen
<1>2. ASSUME NEW t \in Tab, Hear(t) PROVE PresenceInv'
  BY <1>2, HearStays, HearAnnounceStays DEF Hear
<1>3. ASSUME NEW t \in Tab, SwitchDone(t) \/ Heartbeat(t) \/ User(t)
      PROVE  PresenceInv'
  BY <1>3, SwitchDoneAttaches, HeartbeatStays, OpenTabAttaches, CloseTabKeeps,
     PickRoleStays DEF User
<1> QED
  BY <1>1, <1>2, <1>3 DEF Next

LEMMA PresenceInvariant == Spec => []PresenceInv
  BY PresenceInit, PresenceStep, PTL DEF Spec

\* Any number of tabs keep to the types of signal.rs and app.rs: no tab hears
\* itself, and no two that are open stand for the same instance, so that one
\* of two tabs in a seat always gives way.
THEOREM PresenceTypeCorrect == Spec => []TypeOK
<1>1. PresenceInv => TypeOK
  BY DEF PresenceInv
<1> QED
  BY <1>1, PresenceInvariant, PTL

-----------------------------------------------------------------------------
(* Two tabs in the two seats *)

\* There are at most two tabs.
TwoTabs == \A r, s, t \in Tab : r # t /\ s # t => r = s

LEMMA AttachKnows ==
  ASSUME TwoTabs, PresenceInv, NEW t \in Tab, NEW role \in Role,
         NEW switching \in 0 .. MaxSwitching, Attach(t, role, switching),
         PresenceInv', NEW r \in Tab, NEW s \in Tab, Facing(r, s)'
  PROVE  Knows(s, r)'
<1>1. PICK n \in Instance :
        /\ tab' = [tab EXCEPT ![t] =
                     [role |-> role, seat |-> role, instance |-> n,
                      present |-> FALSE, switching |-> switching]]
        /\ \A u \in Tab : u # t /\ IsOpen(u) => Announced(queue'[t][u], n)
  BY AttachEffect
<1>2. /\ tab'[t].instance = n
      /\ \A u \in Tab : u # t => tab'[u] = tab[u]
  BY <1>1, Types
<1>3. r # s /\ (r = t \/ s = t)
  BY DEF TwoTabs, Facing
<1>4. CASE r = t
  <2>1. IsOpen(s)
    BY <1>2, <1>3, <1>4 DEF Facing, IsOpen
  <2>2. Announced(queue'[t][s], n)
    BY <1>1, <1>3, <1>4, <2>1
  <2>3. Word(queue'[t][s], n)
    BY <2>2 DEF Announced, Word
  <2> QED
    BY <1>2, <1>4, <2>3 DEF Knows
<1>5. CASE s = t
  <2>1. IsOpen(r)
    BY <1>2, <1>3, <1>5 DEF Facing, IsOpen
  <2> QED
    BY <1>1, <1>2, <1>3, <1>5, <2>1 DEF Knows
<1> QED
  BY <1>3, <1>4, <1>5

\* A message t hears of s and does not answer.
LEMMA HearKnows ==
  ASSUME TwoTabs, KnownInv, NEW s \in Tab, NEW t \in Tab,
         HearCollision(s, t) \/ HearJunior(s, t) \/ HearPresence(s, t)
           \/ HearLeave(s, t),
         NEW u \in Tab, NEW v \in Tab, Facing(u, v)'
  PROVE  Knows(v, u)'
<1>1. PresenceInv /\ SameSeats
  BY HearStays DEF KnownInv
<1>2. /\ IsOpen(t) /\ queue[s][t] # <<>>
      /\ queue' = Less(queue, s, t)
  BY DEF Arrives, HearCollision, HearJunior, HearPresence, HearLeave, Less
<1> DEFINE box == queue[s][t]
<1>3. /\ s # t /\ box \in Seq(Messages) /\ box # <<>>
      /\ queue'[s][t] = Tail(box)
      /\ queue'[t][s] = queue[t][s]
      /\ InOrder(box, tab[s].instance, tab[s].seat)
  BY <1>1, <1>2, ArrivesEffect, Types
<1>4. /\ u # v /\ Facing(u, v) /\ Facing(v, u)
      /\ (u = s /\ v = t) \/ (u = t /\ v = s)
  BY <1>1, <1>3 DEF TwoTabs, Facing, SameSeats, IsOpen
<1>5. Facing(s, t) /\ Knows(t, s) /\ Knows(s, t) /\ tab[s].seat # tab[t].seat
  BY <1>4 DEF KnownInv, Facing
<1> HIDE DEF box
<1> DEFINE n == tab[s].instance
<1>6. /\ Head(box).instance = n =>
           /\ Head(box).from = tab[s].seat /\ Head(box).kind # "leave"
           /\ NoLeave(Tail(box))
      /\ Word(box, n) => Head(box).instance = n \/ Word(Tail(box), n)
      /\ Announced(box, n) =>
           \/ Head(box).instance = n /\ Head(box).kind = "announce"
           \/ Announced(Tail(box), n)
      /\ NoLeave(box) => Head(box).kind # "leave" /\ NoLeave(Tail(box))
  BY <1>3, TailInOrder
<1>7. /\ Knows(t, s) = (\/ Word(box, n) \/ Announced(queue[t][s], tab[t].instance)
                        \/ tab[t].present /\ NoLeave(box))
      /\ Knows(s, t) = (\/ Word(queue[t][s], tab[t].instance) \/ Announced(box, n)
                        \/ tab[s].present /\ NoLeave(queue[t][s]))
      /\ Knows(t, s)' = (\/ Word(Tail(box), n)
                         \/ Announced(queue[t][s], tab[t].instance)
                         \/ tab'[t].present /\ NoLeave(Tail(box)))
      /\ Knows(s, t)' = (\/ Word(queue[t][s], tab[t].instance)
                         \/ Announced(Tail(box), n)
                         \/ tab'[s].present /\ NoLeave(queue[t][s]))
  BY <1>1, <1>3 DEF Knows, SameSeats, box
<1> HIDE DEF n
<1>8. Knows(t, s)' /\ Knows(s, t)'
  <2>1. CASE HearCollision(s, t) \/ HearJunior(s, t)
    <3>1. Head(box).from = tab[t].seat
      BY <2>1 DEF HearCollision, HearJunior, SameSeat, box
    <3>2. tab'[t].present = tab[t].present /\ tab'[s].present = tab[s].present
      BY <1>1, <2>1, SwitchedTab DEF HearCollision, HearJunior
    <3>3. Head(box).instance # n
      BY <1>5, <1>6, <3>1
    <3> QED
      BY <1>5, <1>6, <1>7, <3>2, <3>3
  <2>2. CASE HearPresence(s, t)
    <3>1. /\ Head(box).kind # "announce"
          /\ tab'[t].present = TRUE /\ tab'[s].present = tab[s].present
      BY <1>1, <1>3, <2>2, PresentTab DEF HearPresence, box
    <3> QED
      BY <1>5, <1>6, <1>7, <3>1
  <2>3. CASE HearLeave(s, t)
    <3>1. Head(box).kind = "leave" /\ tab'[s].present = tab[s].present
      BY <1>1, <1>3, <2>3, PresentTab DEF HearLeave, box
    <3> QED
      BY <1>5, <1>6, <1>7, <3>1
  <2> QED
    BY <2>1, <2>2, <2>3
<1> QED
  BY <1>4, <1>8

LEMMA HearAnnounceKnows ==
  ASSUME TwoTabs, KnownInv, NEW s \in Tab, NEW t \in Tab, HearAnnounce(s, t),
         NEW u \in Tab, NEW v \in Tab, Facing(u, v)'
  PROVE  Knows(v, u)'
<1> DEFINE less == Less(queue, s, t)
<1>1. /\ IsOpen(t) /\ queue[s][t] # <<>>
      /\ tab' = [tab EXCEPT ![t].present = TRUE]
      /\ queue' = Posted(less, t, <<PresenceMessage(t, "present")>>)
  BY DEF HearAnnounce, Answer, Less
<1>2. PresenceInv /\ SameSeats
  BY HearAnnounceStays DEF KnownInv
<1> DEFINE box == queue[s][t]
<1>3. /\ s # t /\ QueueType(less)
      /\ less[s][t] = Tail(box) /\ box \in Seq(Messages)
      /\ \A x, y \in Tab :
           x # y => InOrder(less[x][y], tab[x].instance, tab[x].seat)
      /\ InOrder(box, tab[s].instance, tab[s].seat)
  BY <1>1, <1>2, ArrivesEffect, Types
<1>4. /\ u # v /\ Facing(u, v) /\ Facing(v, u)
      /\ (u = s /\ v = t) \/ (u = t /\ v = s)
  BY <1>2, <1>3 DEF TwoTabs, Facing, SameSeats, IsOpen
<1>5. IsOpen(s) /\ Knows(t, s)
  BY <1>4 DEF KnownInv, Facing
<1>6. /\ queue'[s][t] = Tail(box)
      /\ Word(queue'[t][s], tab[t].instance)
      /\ Announced(less[t][s], tab[t].instance)
           => Announced(queue'[t][s], tab[t].instance)
  <2> HIDE DEF less, box
  <2> DEFINE all == Posted(less, t, <<PresenceMessage(t, "present")>>)
  <2>1. /\ \A r \in Tab : r # t => all[r] = less[r]
        /\ \A x \in Tab : x # t /\ IsOpen(x) =>
             /\ Word(all[t][x], tab[t].instance)
             /\ Announced(less[t][x], tab[t].instance)
                  => Announced(all[t][x], tab[t].instance)
    <3>1. tab \in [Tab -> TabRecord]
      BY <1>2, Types
    <3> QED
      BY <1>1, <1>3, <3>1, PostPresence
  <2>2. queue' = all
    BY <1>1
  <2> HIDE DEF all
  <2> QED
    BY <1>3, <1>5, <2>1, <2>2
<1>7. less[t][s] = queue[t][s]
  BY <1>1, <1>2, <1>3, ArrivesEffect
<1>8. tab'[t].present = TRUE
  BY <1>1, <1>2, PresentTab
<1>9. Knows(s, t)'
  BY <1>2, <1>6 DEF Knows, SameSeats
<1>10. Knows(t, s)'
  <2>1. CASE Word(Tail(box), tab[s].instance) \/ Announced(queue[t][s], tab[t].instance)
    BY <1>2, <1>6, <1>7, <2>1 DEF Knows, SameSeats
  <2>2. CASE NoLeave(Tail(box))
    BY <1>6, <1>8, <2>2 DEF Knows
  <2>3. \/ Word(Tail(box), tab[s].instance)
        \/ Announced(queue[t][s], tab[t].instance) \/ NoLeave(Tail(box))
    BY <1>1, <1>3, <1>5, TailInOrder DEF Knows
  <2> QED
    BY <2>1, <2>2, <2>3
<1> QED
  BY <1>4, <1>9, <1>10

LEMMA HeartbeatKnows ==
  ASSUME TwoTabs, KnownInv, NEW t \in Tab, Heartbeat(t),
         NEW u \in Tab, NEW v \in Tab, Facing(u, v)'
  PROVE  Knows(v, u)'
<1>1. /\ IsOpen(t) /\ tab' = GivenUp(t)
      /\ queue' = Posted(queue, t, <<PresenceMessage(t, "heartbeat")>>)
  BY DEF Heartbeat
<1>2. PresenceInv /\ SameSeats
  BY HeartbeatStays DEF KnownInv
<1>3. u # v /\ Facing(u, v) /\ Knows(v, u) /\ IsOpen(u) /\ IsOpen(v)
  BY <1>2 DEF Facing, SameSeats, IsOpen, KnownInv
<1>4. /\ \A r \in Tab : r # t => queue'[r] = queue[r]
      /\ \A s \in Tab : s # t /\ IsOpen(s) =>
           /\ Word(queue'[t][s], tab[t].instance)
           /\ Announced(queue[t][s], tab[t].instance)
                => Announced(queue'[t][s], tab[t].instance)
  <2> DEFINE all == Posted(queue, t, <<PresenceMessage(t, "heartbeat")>>)
  <2>1. /\ \A r \in Tab : r # t => all[r] = queue[r]
        /\ \A s \in Tab : s # t /\ IsOpen(s) =>
             /\ Word(all[t][s], tab[t].instance)
             /\ Announced(queue[t][s], tab[t].instance)
                  => Announced(all[t][s], tab[t].instance)
    BY <1>1, <1>2, PostPresence, Types
  <2>2. queue' = all
    BY <1>1
  <2> HIDE DEF all
  <2> QED
    BY <2>1, <2>2
<1>5. u = t \/ v = t
  BY <1>3 DEF TwoTabs
<1>6. CASE u = t
  BY <1>2, <1>3, <1>4, <1>6 DEF Knows, SameSeats
<1>7. CASE v = t
  <2>1. ~Silent(t)
    BY <1>3, <1>7 DEF Silent, Facing
  <2>2. tab'[t].present = tab[t].present
    BY <1>1, <1>2, <2>1, GivenUpTab, Types, TabFields
  <2> QED
    BY <1>2, <1>3, <1>4, <1>7, <2>2 DEF Knows, SameSeats
<1> QED
  BY <1>5, <1>6, <1>7

LEMMA PickRoleKnows ==
  ASSUME KnownInv, NEW t \in Tab, PickRole(t),
         NEW u \in Tab, NEW v \in Tab, Facing(u, v)'
  PROVE  Knows(v, u)'
<1>1. /\ SameSeats /\ UNCHANGED queue
      /\ \A s \in Tab : tab'[s].present = tab[s].present
  BY SwitchedTab, PickRoleStays DEF PickRole, KnownInv
<1>2. Knows(v, u)
  BY <1>1 DEF KnownInv, Facing, SameSeats, IsOpen
<1> QED
  BY <1>1, <1>2 DEF Knows, SameSeats

LEMMA KnownInit == Init => KnownInv
<1> SUFFICES ASSUME Init PROVE KnownInv
  OBVIOUS
<1>1. \A t \in Tab : ~IsOpen(t)
  BY DEF Init, IsOpen, ClosedTab
<1> QED
  BY <1>1, PresenceInit DEF KnownInv, Facing

LEMMA KnownStep ==
  ASSUME TwoTabs
  PROVE  KnownInv /\ [Next]_vars => KnownInv'
<1> SUFFICES ASSUME KnownInv, [Next]_vars PROVE KnownInv'
  OBVIOUS
<1>1. PresenceInv /\ PresenceInv'
  BY PresenceStep DEF KnownInv
<1> SUFFICES ASSUME NEW u \in Tab, NEW v \in Tab, Facing(u, v)' PROVE Knows(v, u)'
  BY <1>1 DEF KnownInv
<1>2. CASE UNCHANGED vars
  BY <1>2 DEF vars, KnownInv, Facing, Knows, IsOpen
<1>3. ASSUME NEW t \in Tab, Hear(t) PROVE Knows(v, u)'
  BY <1>3, HearKnows, HearAnnounceKnows DEF Hear
<1>4. ASSUME NEW t \in Tab, SwitchDone(t) \/ OpenTab(t) PROVE Knows(v, u)'
  BY <1>1, <1>4, SwitchDoneAttaches, OpenTabAttaches, AttachKnows
<1>5. ASSUME NEW t \in Tab, Heartbeat(t) \/ PickRole(t) PROVE Knows(v, u)'
  BY <1>5, HeartbeatKnows, PickRoleKnows
<1>6. ASSUME NEW t \in Tab, CloseTab(t) PROVE Knows(v, u)'
  <2>1. ~IsOpen(t)' /\ \A s \in Tab : s # t => tab'[s] = tab[s]
    BY <1>1, <1>6, CloseTabKeeps, Types DEF CloseTab
  <2>2. u # t /\ v # t /\ u # v
    BY <2>1 DEF Facing
  <2> QED
    BY <2>2 DEF TwoTabs
<1> QED
  BY <1>2, <1>3, <1>4, <1>5, <1>6 DEF Next, User

\* Two tabs that sit in the two seats know of each other once they have heard
\* all that was posted: "leave" of a transport one of them had before never
\* outlives the word of the one it has, and an announcement that came too
\* early for the other is made up for by the other's own.
THEOREM SeatsGetKnown ==
  ASSUME TwoTabs
  PROVE  Spec => []SeatsKnown
<1>1. KnownInv => SeatsKnown
  BY DEF KnownInv, SeatsKnown, Knows, Word, Announced, Facing
<1>2. KnownInv /\ [Next]_vars => KnownInv'
  BY KnownStep
<1> QED
  BY <1>1, <1>2, KnownInit, PTL DEF Spec
==============================================================================
