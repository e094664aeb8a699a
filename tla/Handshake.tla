------------------------------ MODULE Handshake ------------------------------
(***************************************************************************)
(* The HELLO exchange of src/src/web/app.rs over a data channel that       *)
(* carries the bytes of Protocol.tla: what each page learns of the build   *)
(* and the backend of the other, while channels open, backends change,     *)
(* links are lost and pages are reloaded, with another build perhaps.      *)
(* Each page closes its own end of a channel and the other hears of it     *)
(* later; a new channel is made when both have let the old one go.         *)
(*                                                                         *)
(* How a link comes up is in Pairing.tla, what the other frames do in      *)
(* Pipeline.tla.  The channel never holds the megabyte at which            *)
(* PeerLink::send waits, so a send is one step.                            *)
(***************************************************************************)
EXTENDS Protocol

CONSTANTS
  Builds,       \* [version, shape] records a page can be running
  Labels,       \* what a backend may call its device, in bytes
  MaxFaults     \* bound: links lost, backends changed and pages reloaded

Shapes == [dim : U32, n_layers : U32, vocab_size : U32, max_seq : U32]

ASSUME HandshakeAssumption ==
  /\ \A b \in Builds : b.version \in Byte /\ b.shape \in Shapes
  /\ \A l \in Labels :
       l \in Seq(Byte) /\ IsText(l) /\ l # <<>> /\ Len(l) \in U32
  /\ MaxFaults \in Nat

Page == {0, 1}
Peer(p) == 1 - p

\* A card that shows a dash.
NoLabel == <<>>

VARIABLES
  build,        \* the build a page was loaded with
  label,        \* AppState::backend_label
  building,     \* initialise_shard is under way
  shown,        \* the label on the peer's card
  told,         \* what the page has said of the peer on this link
  met,          \* history: the build the peer had as the link came up
  end,          \* the page's end of the channel
  wire,         \* frames on their way to the page
  faults        \* bound counter

vars == <<build, label, building, shown, told, met, end, wire, faults>>

TypeOK ==
  /\ build \in [Page -> Builds]
  /\ label \in [Page -> Labels]
  /\ building \in [Page -> BOOLEAN]
  /\ shown \in [Page -> Labels \cup {NoLabel}]
  /\ told \in [Page -> {"open", "agree", "mismatch", "skew"}]
  /\ met \in [Page -> Builds]
  /\ end \in [Page -> {"none", "opening", "ready", "open"}]
  /\ wire \in [Page -> Seq(Seq(Byte))]
  /\ \A p \in Page : wire[p] # <<>> => end[p] # "none"
  /\ faults \in 0 .. MaxFaults

\* Every page has built its shard before it looks for a peer.
Init ==
  /\ build \in [Page -> Builds]
  /\ label \in [Page -> Labels]
  /\ building = [p \in Page |-> FALSE]
  /\ shown = [p \in Page |-> NoLabel]
  /\ told = [p \in Page |-> "open"]
  /\ met = [p \in Page |-> build[Peer(p)]]
  /\ end = [p \in Page |-> "none"]
  /\ wire = [p \in Page |-> <<>>]
  /\ faults = 0

-----------------------------------------------------------------------------
(* Sending *)

LocalHello(b, l) ==
  [dim |-> b.shape.dim, n_layers |-> b.shape.n_layers,
   vocab_size |-> b.shape.vocab_size, max_seq |-> b.shape.max_seq,
   backend |-> l]

HelloFrame(b, l, id) == EncodeHello(b.version, LocalHello(b, l), id)

\* send_hello: nothing leaves unless this end is open, and nothing comes to a
\* page that has closed its own.  box is the wire.
SentAnyway(box, p, frame) ==
  IF end[p] \in {"ready", "open"}
    THEN [box EXCEPT ![Peer(p)] = Append(@, frame)]
    ELSE box
Sent(box, p, frame) ==
  IF end[p] \in {"ready", "open"} /\ end[Peer(p)] # "none"
    THEN [box EXCEPT ![Peer(p)] = Append(@, frame)]
    ELSE box

SendHello(p, id) == wire' = Sent(wire, p, HelloFrame(build[p], label'[p], id))

-----------------------------------------------------------------------------
(* The channel *)

\* ensure_link on both sides, and the negotiation after it.
Connect ==
  /\ \A p \in Page : end[p] = "none"
  /\ end' = [p \in Page |-> "opening"]
  /\ met' = [p \in Page |-> build[Peer(p)]]
  /\ UNCHANGED <<build, label, building, shown, told, wire, faults>>

\* readyState changes before the page hears of it.
Opens(p) ==
  /\ end[p] = "opening"
  /\ end' = [end EXCEPT ![p] = "ready"]
  /\ UNCHANGED <<build, label, building, shown, told, met, wire, faults>>

ChannelOpen(p) ==
  /\ end[p] = "ready"
  /\ end' = [end EXCEPT ![p] = "open"]
  /\ told' = [told EXCEPT ![p] = "open"]
  /\ UNCHANGED <<build, label, building, shown, met, faults>>
  /\ SendHello(p, Announce)

\* What was on its way arrives on the next link.
CloseButFrames(p) == end' = [end EXCEPT ![p] = "none"] /\ UNCHANGED wire

\* PeerLink::close: this end goes, and what was on its way to it.  The peer's
\* stays, and so does what was on its way there.
Close(p) ==
  /\ end' = [end EXCEPT ![p] = "none"]
  /\ wire' = [wire EXCEPT ![p] = <<>>]

\* teardown_link, or a connection that fails.
LinkLost(p) ==
  /\ faults < MaxFaults
  /\ end[p] # "none"
  /\ Close(p)
  /\ faults' = faults + 1
  /\ UNCHANGED <<build, label, building, shown, told, met>>

\* The close of the peer's end, or its next offer, comes to this page: after
\* all that was on its way, after some of it, or in its place.
ChannelClosed(p) ==
  /\ end[p] # "none" /\ end[Peer(p)] = "none"
  /\ Close(p)
  /\ UNCHANGED <<build, label, building, shown, told, met, faults>>

Reload(p) ==
  /\ faults < MaxFaults
  /\ \E b \in Builds : build' = [build EXCEPT ![p] = b]
  /\ \E l \in Labels : label' = [label EXCEPT ![p] = l]
  /\ building' = [building EXCEPT ![p] = FALSE]
  /\ shown' = [shown EXCEPT ![p] = NoLabel]
  /\ told' = [told EXCEPT ![p] = "open"]
  /\ Close(p)
  /\ faults' = faults + 1
  /\ UNCHANGED met

-----------------------------------------------------------------------------
(* The backend selector *)

\* Both cards are cleared, the peer's too.
BeginRebuild(p) ==
  /\ faults < MaxFaults
  /\ ~building[p]
  /\ building' = [building EXCEPT ![p] = TRUE]
  /\ shown' = [shown EXCEPT ![p] = NoLabel]
  /\ faults' = faults + 1
  /\ UNCHANGED <<build, label, told, met, end, wire>>

EndRebuild(p) ==
  /\ building[p]
  /\ building' = [building EXCEPT ![p] = FALSE]
  /\ \E l \in Labels : label' = [label EXCEPT ![p] = l]
  /\ SendHello(p, Announce)
  /\ UNCHANGED <<build, shown, told, met, end, faults>>

-----------------------------------------------------------------------------
(* Receiving *)

Shape(hello) == <<hello.dim, hello.n_layers, hello.vocab_size, hello.max_seq>>

SameShape(a, b) == Shape(a) = Shape(b)

\* Replies are answered too; nothing is answered.
AnsweredAlways(id) == id \in {Announce, Reply}
AnsweredNever(id) == id \notin {Announce, Reply}

\* An announcement is answered, a reply is not.
Answered(id) == id = Announce

\* on_hello
OnHello(p, hello, id) ==
  LET rest == [wire EXCEPT ![p] = Tail(@)]
      answer == HelloFrame(build[p], label[p], Reply)
  IN IF ~SameShape(hello, build[p].shape)
       THEN /\ told' = [told EXCEPT ![p] = "mismatch"]
            /\ wire' = rest
            /\ UNCHANGED shown
       ELSE /\ told' = [told EXCEPT ![p] = "agree"]
            /\ shown' = [shown EXCEPT ![p] = hello.backend]
            /\ wire' = IF Answered(id) THEN Sent(rest, p, answer) ELSE rest

\* on_frame: of the frames sent here only the header can be unreadable, and
\* then there is a line in the log and no more.
Receive(p) ==
  /\ end[p] = "open" /\ wire[p] # <<>>
  /\ \E hello \in {DecodeHello(build[p].version, Head(wire[p]))} :
       IF IsRefused(hello)
         THEN /\ told' = [told EXCEPT ![p] = "skew"]
              /\ wire' = [wire EXCEPT ![p] = Tail(@)]
              /\ UNCHANGED shown
         ELSE OnHello(p, hello.body, hello.header.request_id)
  /\ UNCHANGED <<build, label, building, met, end, faults>>

-----------------------------------------------------------------------------
Next ==
  \/ Connect
  \/ \E p \in Page :
       \/ Opens(p) \/ ChannelOpen(p) \/ Receive(p)
       \/ LinkLost(p) \/ ChannelClosed(p) \/ Reload(p)
       \/ BeginRebuild(p) \/ EndRebuild(p)

\* Links come up again, closes are heard of, tasks end and the channel
\* delivers.
Fairness ==
  /\ WF_vars(Connect)
  /\ \A p \in Page :
       /\ WF_vars(Opens(p) \/ ChannelOpen(p)) /\ WF_vars(ChannelClosed(p))
       /\ WF_vars(EndRebuild(p)) /\ WF_vars(Receive(p))

Spec == Init /\ [][Next]_vars /\ Fairness

-----------------------------------------------------------------------------
(* Properties *)

Settled ==
  \A p \in Page : end[p] = "open" /\ wire[p] = <<>> /\ ~building[p]

\* Of the build at the other end of this link.
Verdict(p) ==
  IF build[p].version # met[p].version THEN "skew"
  ELSE IF build[p].shape = met[p].shape THEN "agree"
  ELSE "mismatch"

\* When nothing is on its way, each page that agrees with its peer shows the
\* backend the peer now runs, though either may have changed it meanwhile and
\* a change clears both cards (app.rs:254-258 and 338-340).
CardsCurrent ==
  Settled /\ Verdict(0) = "agree" =>
    \A p \in Page : shown[p] = label[Peer(p)]

\* What a page says of its peer on an open link is true of the build at the
\* other end of that link, and never of one that was there before or has come
\* since, whatever was on its way as either page closed its end, was reloaded
\* with another build or paired again; and when nothing is on its way both
\* have said it: mismatched builds end with a message on both sides
\* (protocol.rs:221-222).
VerdictsRight ==
  \A p \in Page :
    end[p] = "open" => \/ told[p] = Verdict(p)
                       \/ told[p] = "open" /\ ~Settled

\* The exchange ends, with both pages told: it does not ping-pong
\* (protocol.rs:244-245).
Settles == <>[]Settled
=============================================================================
