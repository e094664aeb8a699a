# callosa in TLA+

callosa runs a small transformer split over two browser tabs. *node 0* (the
coordinator) owns the embedding and block 0, *node 1* (the worker) block 1 and
the head; one hidden state crosses a WebRTC data channel per token and one token
comes back. A signaling relay, or a `BroadcastChannel`, or the user's clipboard,
introduces the two tabs to each other. This directory holds TLA+ models of that
program, TLC runs over small instances and TLAPS proofs for all instances.
Paths below are relative to the repository, `app.rs` meaning `src/web/app.rs`.

## Inventory

| component | state | operations | hard behaviour | correct when |
|---|---|---|---|---|
| Coordinator loop, `app.rs` `generate` | `generating`, `abort`, `next_request_id`, `pending` (request id to oneshot sender), transcript | run, step, stop, step timer, token frame, error frame, page reload | timer, reply, error frame and close race for one sender; replies outlive steps, runs and links | a reply resolves the step that asked; a run ends; a transcript is one run over its own context |
| Worker, `app.rs` `enqueue_activation`, `process_activation` | `worker_queue`, `worker_busy` | enqueue, pop, compute, reply, report an error, RESET | frames arrive during a forward pass; RESET does not queue; queue survives links | frames in order, none left in the queue |
| Shard, `model.rs`, `gpu/mod.rs` | KV rows, `next_position`; the cell `app.shard` | forward, reset, rebuild for another backend | the shard is out of its cell during a forward pass | attention reads rows of its run only |
| Data channel, `peer.rs` | channel, buffered candidates | offer, answer, candidates, send, close | congestion, closing during a send, candidates before descriptions | frames in order until it closes |
| Pairing, `app.rs` `on_signal` | `transport`, `peer`, `initiator`, `peer_present`, `reconnecting` | join, offer, answer, retry, role fallback, release of signaling | overlapping attempts, timers that act on a newer link | two peers that can reach each other pair |
| Relay client, `signal.rs` | socket, `attempt`, `released` | connect, reconnect with backoff, release | reconnect after release, replacement of the socket | an unpaired client stays reachable |
| Same-browser pairing, `signal.rs` | presence, instance id | announce, heartbeat, leave | ties while roles change, silence | presence converges, one tab yields |
| Copy and paste pairing, `signal.rs` | none | encode and decode blobs | blobs wrapped, padded or cut on their way, or of an earlier attempt | a blob decodes to what was encoded |
| Wire protocol, `protocol.rs` | none | frame codecs, int8 rows | truncation, versions | decode inverts encode, the rest is refused |
| HELLO, `app.rs` `on_hello` | backend label, the peer's card, banner | announce, reply | announcements cross, a backend changes meanwhile, builds differ | both know what the other runs, and the exchange ends |
| Sampler, `tensor.rs` | none | argmax, top-k, softmax, draw | ties, rounded sums | tokens are drawn in proportion |
| Relay, `relay/src/main.rs` | `rooms`, metrics, one task and one outbox per connection | claim, register, notify, forward, release | tasks interleave between uses of the mutex | one holder per slot, rooms vanish, clients know whether they have a peer |
| Kernels, weights, charts, page, static server | tensors, pixels, files | numeric or presentational | floating point | compared by `tests/kernels.rs` |

The page drives the loop; the loop sends frames over the link; the link reports
frames, opening and closing to the page; pairing builds and destroys links; a
transport carries pairing's messages; the relay is the far end of one of the
transports. In a tab everything is a task of one thread, which changes hands only
at an `await`. In the relay every connection is a task of a multi-threaded
runtime and the rooms are behind a mutex.

## Modules

| module | what it is |
|---|---|
| `TokenStream` | abstract: what the person who presses "run pipeline" is promised |
| `Pipeline` | both ends of the inference loop, the shard cells, the link |
| `MCPipeline` | instances of `Pipeline` for TLC |
| `PipelineProofs` | theorems about `Pipeline` and `Sampling`: types, replies, order, context, that it implements `TokenStream`, and how tokens are drawn |
| `Seats` | abstract: who may sit where and who hears whom |
| `Relay` | `serve()` for any number of connections |
| `MCRelay` | instances of `Relay` for TLC |
| `RelayProofs` | theorems about `Relay`: its table, what clients believe of their peers, and that it implements `Seats` |
| `RelayClient` | the pages of one room as clients of the relay |
| `MCRelayClient` | instances of `RelayClient` for TLC |
| `RelayClientProofs` | theorems about `RelayClient` |
| `Pairing` | two pages of a room: signals, negotiation, retries, leaving the relay |
| `MCPairing` | instances of `Pairing` for TLC |
| `PairingProofs` | theorems about `Pairing` |
| `BroadcastPresence` | tabs of one browser and the two seats they share out |
| `MCBroadcastPresence` | instances of `BroadcastPresence` for TLC |
| `BroadcastPresenceProofs` | theorems about `BroadcastPresence` |
| `Bytes` | little-endian numbers and text, for the codecs |
| `Protocol` | the frames, byte for byte: pure operators |
| `Handshake` | the HELLO exchange, over the bytes of `Protocol` |
| `Codec` | what the encoders and decoders of `Protocol` promise each other |
| `MCHandshake` | instances of `Handshake`, and what `Codec` and `Paste` are tried on |
| `BytesProofs` | lemmas about numbers and sequences of bytes, induction among them |
| `HandshakeProofs` | theorems about `Protocol`, `Codec` and `Handshake` |
| `Blob` | the blobs of copy and paste pairing: pure operators |
| `Paste` | what may become of a blob that a person carries, and what is read of it |
| `PasteProofs` | theorems about `Paste` |
| `Sampler` | how the worker draws a token: pure operators |
| `Sampling` | `Pipeline` with `Sampler`: what the draws are to be |

`RelayClient` and `Pairing` look at the same pages: the one at what becomes of their
connections to the relay when these are lost and roles change, the other at the
links they make over it while it works. `Handshake` begins where `Pairing` ends,
with an open channel, and `Pipeline` is what runs over that. `Paste` is the way a
signal goes when there is neither a relay nor a common browser.

### Pipeline

An action is the stretch of a task between two awaits. `generate()` is suspended
at one of five places, and `pc` says which: sending the RESET, at the head of the
loop, in stage 0's forward pass, sending the activation, or waiting for the
reply. The two parts of a step that run without an await are one action each:
`BeginStep` spends a request id and takes the shard out of the cell, `Park` puts
it back, parks the oneshot sender under the id and sets the timer. The oneshot is
`pending` (the senders) and `mail` (what a sender sent, until the receiver is
polled). The worker's task is suspended in a forward pass or a send (`wpc`), with
the frame in process in `job`.

Abstractions:

- A tensor is reduced to where it came from: the run, the position, and whether
  each cache row read to compute it was written by that run (`clean`). A cache is
  the run that wrote each of its rows. That keeps all that could go wrong between
  steps and drops the arithmetic.
- Which reset: the WebGPU one, which keeps the rows and only rewinds
  `next_position`. The CPU one also clears them; every behaviour with it is one
  of fewer hazards.
- A token ends the run or not as it likes (which one is drawn is in `Sampler`).
- A forward pass may fail, before or after it has written its row.
- `SendFails` is possible whatever the state of the channel: a channel that is
  open may still stay congested for five seconds.
- `Connect` opens both ends at once. What one end sent before it closed may still
  reach the other until that one closes too, or may not: closing discards it.
- Frames are already parsed. What the parsers and codecs accept is in `Protocol`;
  a frame they refuse changes no state.
- A page reload is the coordinator's; the worker's page being reloaded is for the
  coordinator a link that closes, and for the worker the initial state.

- The coordinator stays the coordinator: a change of role during a run is seen by
  the other end as a link that closes, and is in `RelayClient` for what it does to
  pairing, but what it does to the run of the page that changes is not modelled.

`run`, `pageRun` and the fields `run`, `pos` and `clean` of a frame are history:
no guard of the code's reads them except as the position the frame carries
(`seq_pos`).

### Relay

An action is what the task of a connection does under the rooms mutex, or between
two uses of it; `phase` says how far `serve()` has come. `Claim` is the block
under the lock, `SendRegistered` and `NotifyJoined` what follows outside it,
`Forward`, `OverBudget` and `HangUp` the select loop, `Release` the last block
under the lock, `Uncount` the gauge. `outbox` is the unbounded channel of the
connection; `Deliver` is its writer together with the client at the other end,
of which only its belief in a peer is kept, as `on_signal` derives it.
`SocketFails` is a writer that ends on a failed send and takes its channel along,
which the task need not notice.

A payload is reduced to its sender. Query validation, HTTP routes, TLS, pings and the text
of messages are left out. `MaxTexts` bounds the texts that all clients send together;
`Farewell` is what a release leaves with the peer. A text names no addressee and goes to
whoever holds the other role by then. `TextsToldApart` states what its reader can go by
all the same: between the texts of one peer and those of the next it is told that the one
has left and, after that, that the other has joined. A client that comes back is another
connection, as it is in the code.

### RelayClient

The other end of `Relay`, with the relay in turn reduced to its seats. What the
code calls a transport is two things after a reconnect: the one the page holds,
whose cell keeps a socket that has closed, and a replacement nobody holds, whose
socket is open and which shares only the `released` flag. A `line` is that flag
together with the socket that is open on its behalf; `own` says whether the socket
is the one in the held transport's cell. `Released` is `release()` (and `Drop`):
it sets the flag and closes the socket if it is its own.

An action is a callback or the stretch of a task between two awaits. `Switched`
is `switch_role` up to the shard's construction and `SwitchDone` the rest, so any
number up to `MaxSwitching` may overlap; `OnClose` starts the reconnect timer and
`TimerEnds` ends it. `Claim` and `Refuse` are the relay's answers, `RelayCloses` an
orderly end (the deadline, a restart), `Breaks` one the relay has yet to notice,
`Unreachable` a socket that fails to open, `Notices` the relay's discovery that a
page has hung up. `on_signal` does not know which socket an event came from, and
neither do `OnRegistered`, `OnPeer`, `OnRoleTaken` and `OnError`.

Abstractions: one room; every transport other than the relay's is "broadcast";
offers, answers, candidates and the link they make are left out (a link that comes
up is only its `Release`, 25 seconds later); the length of the backoff is left
out, so a timer may end before or after a shard is built.

### Pairing

The state is what the two pages keep (`link` is `AppState::peer`, a `PeerLink` with
what its connection knows), what the relay has sent and they have not heard
(`inbox`), and the sleeps that are under way: `reconnecting` is the first sleep of
`retry_pairing`, `again` its second (only page 0 does anything after it), `watch`
the six seconds of a disconnected link, `timers` the 25 seconds of
`release_signaling`, of which any number may run, each for a link that may be gone.
A link has a name, which its descriptions and candidates carry, so that the model
can tell what the browser tells by the contents: that an answer or a candidate is of
another link. Names are reused as soon as nobody holds them.

`Hear...` are the branches of `on_signal`, up to their first await; `OfferSet`,
`CreateAnswer`, `AnswerSet` and `CreateOffer` are what follows the awaits, and `task`
says which of them is due. A link that has been replaced meanwhile has no task: its
listeners are gone, and what its await brings goes nowhere. Description and candidates
are sent in one step. An answer goes to whatever link has an offer out
(`Expected`), as in the code; if it is of another link's offer the connection never
comes up (`Doomed`) and fails in the end.

Three assumptions about time, each named at its action: the second sleep of
`retry_pairing` is over before another first one is (both take 1.5 seconds and the
second begins earlier); a hang-up timer outlasts a sleep that began before it; and it
outlasts the opening of the channel at the other end. Left out: lost sockets and
changes of role (`RelayClient`), a relay that seats a page late (`Relay`), the
transports without a relay, browser calls that fail.

### BroadcastPresence

A tab holds a transport with a seat and an instance id; `role` is the page's, which
`switch_role` changes first, and `switching` counts the changes whose shard is not
yet built. `queue[s][t]` is what `s` posted and `t` has not heard. `Attach` is
`attach_transport`: the old transport says "leave" as it is dropped, the new one
announces itself. The silence of seven seconds is reduced to its meaning: nothing is
left to be heard (`Silent`), and then the interval gives the peer up. `HearCollision`
is `RoleTaken`, which flips whatever role the page has by then, also while a change is
under way (`FlipsBack`). Nothing bounds how often that happens, in the code or here, so
`SettlesApart` is of behaviours in which it ends: see "What the code does otherwise".

### Protocol, Bytes, Codec

Operators with the names of the functions: an encoder gives a sequence of bytes, a
decoder a record or a refusal that says which check failed, in the order of the
checks. A number is a u32 below 2^31, as TLC's are. A tensor's elements are integers
and an f32 on the wire is a multiple of 1/127, so that the scale of an int8 row and
what comes back are exact, and rounding to the nearest can be checked exactly. Of
UTF-8 only ASCII is used. `Codec` states what encoders and decoders are to each other,
over sets of numbers, headers, hellos, tensors and messages that are its constants: a
few of each for TLC, any for the proofs, with the elements of tensors so bounded that
127 times each still fits. The two pages are those of `Handshake`, looked at before
they have met.

### Blob, Paste

A character is a letter 0 to 63 of the base64url alphabet or one of four others, and
"offer" and "answer" are one letter each. `Runs` is the decoder's loop: its state after
each prefix of the text. Of the 32-bit accumulator, which overflows, 24 bits are kept;
no more than the low 14 are ever read.

`Paste` says what a blob may be when it is pasted into the other page: an edit indents
the line (`Indents`), puts a space or padding between the letters (`Wraps`) or drops the
end (`Losses`), and `AfterEdits` is what any number of edits up to `MaxEdits` can make
of a blob. The two pages are again those of `Handshake`, before they have met. That
something else is pasted, or a blob of an earlier attempt, is left out.

### Handshake

`build` is what a page was loaded with (a protocol version and a shape), `shown` what
its peer's card says, `told` what it has last said of the peer: matches, mismatch or
a frame it cannot read. `wire` holds bytes, written and read with each page's own
version. `Opens` and `ChannelOpen` are apart because a page may send as soon as
`readyState` is open and hears of that later. Each page has its own `end` of the channel
and closes that one only (`Close`): in a teardown or a failed connection (`LinkLost`), by
being reloaded, perhaps with another build (`Reload`), or as it hears that the other end
is gone (`ChannelClosed`). Until it hears of that it keeps its end open, with what it has
said of the peer and with the frames that were on their way to it. `Connect` is the
negotiation after both ends are gone. `met` is history, the build the other end had as the
link came up: what a page says of its peer is about that one (`Verdict`), and need not
be true of the page that the peer has been reloaded to. A frame leaves at once: the channel
never holds the megabyte at which `PeerLink::send` starts to wait.

### Sampler

The logits are integers, already divided by the temperature. Their exponentials are
the constant `Exp`, any positive shares of an integer total (powers of 2 for TLC), and
the generator's number is one of that many equal parts, or the total itself for the
case that rounded shares add up to less than the roll. `Pcg32` is left out.

## Runs

Deadlock is not checked: all of these systems may come to rest, for want of a user or
because every bounded counter is spent.

| run | instance | distinct states | shows |
|---|---|---|---|
| `pipeline_safety` | 3 runs of up to 3 tokens, 2 links | 920 000 | `TypeOK`, `OneStepWaiting`, `AnswersTheirStep`, `ContextIsThisRun`, `StreamSpec` (implements `TokenStream`), `DrawsInProportion` |
| `pipeline_disturbed` | 2 runs of up to 2 tokens, 2 links, one page reload and one rebuild | 835 000 | `StepsInOrder`, `RunEnds`, `QueueDrains` |
| `pipeline_reload` | one page reload | | `LateRepliesDropped` is violated |
| `relay_rooms` | 3 connections, 3 rooms, room for 2, 2 texts in all | 2 146 000 (up to symmetry) | `TypeOK`, `SlotsAreHeld`, `RoomsAreInUse`, `GaugeCounts`, `PresenceKnown`, `TextsToldApart` |
| `relay_seats` | 2 connections, 2 rooms, room for 1, one text each and one past the budget | 162 000 | `TableSpec` (implements `Seats`), `SlotsAreFreed` |
| `client_lines` | 1 page, 3 lines, 1 move, 1 end, 2 changes of role at once | 248 000 | `TypeOK`, `OnlyCurrentReconnects`, `TransportHasRole`, `KeepsTrying` |
| `client_sends` | 2 pages, 4 lines, 1 end | | `SendsReachRelay` is violated |
| `client_pairs` | 2 pages, 4 lines, nothing ends | | `PairsAutomatically` is violated |
| `pairing` | 1 fault, press or reload, 2 hang-up timers in page 0, 2 links at a time | 339 000 | `TypeOK`, `CandidatesKept`, `StuckOnlyAfterHangUp`, `PairsUnaided`, `FailedRejoins` |
| `pairing_stuck` | the same | | `NeverStuck` is violated |
| `tabs` | 2 tabs, 3 ids, 3 moves, 2 changes of role at once | 98 000 | `TypeOK`, `SeatsKnown`, `SettlesApart`, `GoneIsMissed` |
| `handshake` | 3 builds, 2 labels, 2 faults | 70 000 | `TypeOK`, `CardsCurrent`, `VerdictsRight`, `Settles`; `FramesArrive`, `CutsRefused`, `Q8Close`, `SkewNoticed`; `BlobsArrive`, `CutBlobs` |

Bounds. Three positions make a middle one, whose cache rows come both from before and from
after a wrong step. A third run makes leftovers of leftovers; a second link makes answers
that change links. Request ids do not wrap (`Generate` keeps a run within one turn of the
counter, and the instances give them exactly enough): wrapping takes 2^32 steps in one
page. In the relay a third connection contends with a pair, succeeds one of them while its
messages are in flight, or sits in another room beside it; three room names with room for
two reach the limit with rooms side by side (`relay_rooms`), two with room for one in
`relay_seats`. `MaxFrames` is 1, so that the frame past the budget is reached. Two texts
in all are what it takes to mistake the one for the other's, and the properties of
`relay_rooms` do not tell a third from them. Of the places the connections may ask for,
which are the initial states, `UpToNames` leaves one of those that differ only in the
names of rooms and roles. A page of `RelayClient` has one line it uses, one it has left
behind and one on its way, which is what three lines are for; one that finds no line free
waits for one, as a transport of the code never does. What a second page would do to the
first (take its seat, come and go) its own leftovers do already; the two pages of
`client_pairs` are there for what they do to each other. A socket holds `MaxInbox`
messages of the relay before the relay waits for the page to hear them: without that bound
pages that change role in turn fill the inbox of another connection. Moves are what users
do and links that come up, ends are connections that close, break or fail to open.

In `Pairing` one fault is enough for every retry to begin, and the retries go on
without a bound; the second hang-up timer of page 0 is one that outlives the link it
was set for, and two names make a link and its replacement. In
`BroadcastPresence` three moves open two tabs and do one thing more to them (close,
crash, change role by hand), and of three ids two are the tabs' and one is of a
transport that is gone but whose messages are unheard. In `Handshake` the builds are two
that agree but for the layers and one of another version; two faults make a change
of backend and a lost link, or the same change on both sides at once. The properties
of the codecs are looked at in the initial states only, once for each pair of
builds: tensors of up to three elements out of five values, every cut of every
frame, every codec byte that is in `Numbers`. `DrawsInProportion` is
looked at before the first run begins: every list of up to four logits out of three
values, every `top_k` up to one more, every order the ties may be sorted in. In `Paste` four
bytes are a whole chunk and one byte more, shorter descriptions leave every other number
of letters in the last chunk, and of two edits the second can cut what the first wrapped.

Fairness. `WF(Coordinator)` and `WF(Worker)`: a browser runs the tasks that can run, and
fires the timers that are set; `Timeout` is part of the coordinator, so a step whose reply
never comes times out. `WF(Serve(c))`: the runtime runs its tasks, and a select loop ends
by its deadline if by nothing else. In `RelayClient`, `WF(Callback)`, `WF(Booted)` and
`WF(SwitchDone)` say the same of a page, `WF(Claim \/ Refuse \/ Unreachable)` that a
socket that is opening comes to something, and `WF(Notices)` that the relay notices who is
gone, by its deadline if by nothing else. Nothing is assumed of the user, of delivery, of
the link or of a socket: liveness holds though all frames be lost. What it does not say is
that a run gives any tokens. `Pairing` has one condition for each page, on what its event
loop runs, on the relay that seats it and on its connection, which comes up or fails;
nothing is assumed of the hang-up timers, which may or may not end. Since `PairsUnaided`
asks for a pair, the delivery of signals is assumed there, as hearing is part of the event
loop. In `BroadcastPresence` a tab hears, builds its shard and keeps its interval, and in
`Handshake` links come up again, a page hears that the other end is gone, a shard is built
and an open channel delivers.

### What the code does otherwise than it says

- `pipeline_reload`: after a reload the coordinator counts its requests from 1
  again, while the worker keeps its queue and answers on the current link. A reply
  it owed to the old page resolves a step of the new run that has the same id.
  `AnswersTheirStep` states what does hold: a reply asked for by this load of the
  page goes to the step that asked.
- `client_sends`: after a reconnect the page is registered and hears the relay, but
  sends with the socket that closed: `send()` drops the offer or answer. Two pages
  can then only pair if the page that must send did not reconnect.
- `client_pairs`: the transport of a refused page is not released until
  `switch_role` has built a shard; its reconnect timer may end first, and the
  second refusal is heard when the page already has the other role, which it then
  gives up. Nothing but luck ends this.
- `pairing_stuck`: page 0 can make an offer after it has left the relay. "pair with
  peer" does so at once, tearing a working link down; a hang-up timer of an older
  link that ends during the second sleep of `retry_pairing` has the same effect. The
  offer goes nowhere, a link that waits for an answer never fails, and neither page
  tries again. `StuckOnlyAfterHangUp` states that there is no other way to be stuck,
  and is proved (`StuckOnlyByOffer`).

What follows can be read off the models and has no run of its own.

The backend selector may be used during a run (app.rs:1612) and puts an empty cache in
the cell: the tokens after it are computed over rows of zeros, in `Pipeline` with
`MaxRebuilds` above 0. A RESET that finds the worker's shard out for a forward pass of
the run before is skipped (app.rs:843): no token suffers (`ContextIsThisRun` holds,
each position overwrites its row before a later one reads it), but the worker's
`next_position` is then that of the run before. In `Relay`, "registered" with
`peerPresent` is queued outside the lock in which presence was read (main.rs:291), and
a leaving peer's "peer-left" can be queued before it; the client then believes in a
peer that is gone. `PresenceKnown` states what does hold.

In `RelayClient`, a release after a
reconnect (`Released` of a line that is not `own`) closes no socket, and the seat
stays taken for up to the relay's ten minutes. A page that joins again can be
refused (`Refuse`) because of the seat of a connection of its own that the relay
has not missed yet. And "registered" without `peerPresent` raises no event
(`OnRegistered`), so a page that reconnects after its peer has left keeps the peer
it had.

In `Pairing`, a page that leaves the relay as it means to, 25 seconds after it has
paired, is for the other a "peer-left", which tears down the working link
(app.rs:458) unless the other has left too; both then pair again. An answer to an
older offer is taken by a newer link (peer.rs:299), which then fails and is retried.

In `BroadcastPresence`, a collision heard during a change of role flips the page back to
the role it was leaving, since `RoleTaken` is derived from the page's role and not the
transport's (signal.rs:234, app.rs:460). The tab then sits down again where it was, its
announcement starts the next collision, and if every one is heard during a build this goes
on for ever: TLC gives that loop for `<>[]Apart` without a condition. So that "they never
swap in lockstep" (signal.rs:189) does not say that two tabs in one seat end up in two;
`SettlesApart` states when they do. Even the "leave" of a tab in the same seat can be
taken for a collision, as the seat is looked at before the kind of the message
(signal.rs:234).

In `Handshake`, a version skew is noticed by `Header::parse` in `on_frame` before
`on_hello` is called, so it is a line in the log and never the banner that `on_hello` has
for it (app.rs:830 and 896-899). The banner of a mismatch is not taken down when a
matching peer follows, and no run is kept from starting on it (app.rs:1097 asks for an
open link and no more). After a reload of the peer a page goes on showing what it said of
the build before, until it hears that the link is gone.

In `Blob`, a blob that has lost its end at the right place is a valid blob of a part of
the description; only the browser can refuse it.

## Proofs

All proofs are for every value of the constants that satisfies the `ASSUME`s of
the modules: any number of tokens, runs, links, rebuilds and reloads; any finite
set of connections, lines, tabs and link names; any builds, labels and faults. Two
theorems have a hypothesis of their own, named below. Each inductive invariant was
first an invariant of a TLC run.

`PipelineProofs`:

- `TypeCorrect`: `Spec => []TypeOK`. The type invariant is inductive with three
  relations in it: a forward pass in flight has its shard in `taken`, at each end,
  and the position is within the run except at the head of the loop.
- `OneStepWaits`: `Spec => []OneStepWaiting`.
- `RepliesAnswerTheirStep`: `Spec => []AnswersTheirStep`. The property is not
  inductive: it says nothing of a frame that has yet to be answered. The
  strengthening `IdInv` says that every frame that asks for an answer or is one,
  wherever it is (in flight, queued, in process, in flight back), if it belongs to
  this load of the page has an id below `nextId` and is the only meaning of its
  id: it has the id of the step in progress only if it is of that step. The guard
  that keeps ids within one turn of the counter makes `nextId` increase.

- `FramesStayInOrder`: `Spec => []StepsInOrder`, reloads and rebuilds included. The
  inductive `OrderInv` adds to `IdInv` that the queue and the channel are each in
  order and each wholly before the next, and that no frame anywhere is of a step
  that node 0 has still to send, so that the next one sent is later than all.
- `ContextHolds`: `Spec => [](Undisturbed => ContextIsThisRun)`: as long as no page
  is reloaded and no shard rebuilt, tokens are computed over rows of their own run.
  The condition is needed, as TLC shows with either disturbance: a shard rebuilt
  during a run has lost the rows of the steps before, and a reply that outlives a
  reload may answer a step of the new page (`pipeline_reload`). The inductive
  `ContextInv` follows a run along the pipeline: the rows of node 0 below `pos` are the
  run's (`CoordRows`); a step past the first that the worker has still to compute is the
  only one it has, and the rows below it are its run's (`StepsAlone`); when node 0 is
  about to send one the worker has none (`StepReady`), because it has had the answer to
  the one before (`AnswerReady`). The subtle case is the first step of a run: frames of
  runs given up may still be queued, and it reads only the row it writes.
- `LoopImplementsStream`: `Spec /\ []Undisturbed => Stream!Init /\
  [][Stream!Next]_(Stream!vars)`. `Generate` maps to `Start`, `Accept` to `Produce`
  of exactly the next token, what ends a run otherwise to `Stop`, everything else to
  a stutter. That is the safety half of `StreamSpec`; its fairness half is TLC's.
- `DrawsAreInProportion`: `Spec => []DrawsInProportion`, for any logits, exponentials
  and `top_k`. The sums of the weights rise (`PartsRise`), so the rolls that draw the
  i-th token are those from one sum to the next, as many as its weight; a roll no sum
  exceeds takes the last token kept. Of a ranking it is used that it names every token
  once and that its logits never rise, which takes induction along it.

`RelayProofs`:

- `RelayTypeCorrect`, `SlotsHaveHolders`, `RoomsVanish`, `GaugeIsExact`: four safety
  invariants from the inductive `RelayInv`. The
  heart is that the slots and the phases agree, both ways: from it a release
  clears its own slot and no other, a room is empty exactly when nobody holds a
  slot of it, and the gauge, a cardinality, changes by one with one phase.
- `RelayKeepsSeats`: `Spec => TableSpec`. A claim maps to `Sit`, a release to
  `Leave`, a forwarded text to `Forward` or, without a peer, to a stutter, and
  everything else to a stutter. It needs `RelayInv` for the release (the seat that
  is cleared is the leaver's) and for texts.
- `PresenceIsKnown`: `Spec => []PresenceKnown`. The inductive `TellInv` looks ahead:
  what a client will believe after all that is queued for it (`WillBelieve`), or the
  notice its peer's task is about to send, is right, from the claim on. Notices of
  different tasks go into one channel in any order, and the one order that misleads a
  client is the one the property excepts.
- `TextsAreToldApart`: `Spec => []TextsToldApart`. The inductive `OrderInv` follows a
  text while it waits (`Followed`): once its sender is not the peer any more, a
  "peer-left" stands behind it, and once there is a new peer, that one's "peer-joined"
  does too, or is about to (`AboutToTell`). Who is about to tell does not send texts
  yet, so the next text comes after both. It uses `RelayInv` and `TellInv`.

`RelayClientProofs`: `ClientTypeCorrect`, `OthersStayAway`
(`OnlyCurrentReconnects`) and `TransportsHaveRoles` (`TransportHasRole`), for any
number of pages, lines and overlapping changes of role, from the inductive
`ClientInv`: a line that is not released is the current one of its page; a line that
keeps a seat is open or hung up, and before its `close` is heard its `error` is. From
the same invariant, `SeatsHaveLines`: no seat is held for a line that waits to
reconnect.

`PairingProofs`: `PairingTypeCorrect` and `NoCandidateLost`
(`CandidatesKept`). The inductive `PairingInv` says where the candidate of a
described link is: on its way right behind the description, held back until the
description is in place, or applied. `StuckOnlyByOffer` (`StuckOnlyAfterHangUp`): for
any set of link names, any number of faults and hang-up timers, two pages that have
nothing left to do are paired, or page 0 has hung up and waits for an answer to an
offer nobody heard. Its invariant, `StuckInv`, adds to `PairingInv` one for each link
and one for the two pages:

- `LinkInv`: a link whose channel has been open has its other end, or has lost it
  and will fail (`Raised`); a link that has failed is about to be retried
  (`Retrying`); a page that has left the relay has a link (`LeftWithLink`).
- `Offered`: with both pages at the relay, page 0 will hear "joined" and start over,
  or it has made an offer that is answered, or that lies in page 1's inbox with
  nothing behind it that takes the new link away, or that page 1 is about to answer.

In a state where nothing is under way these leave no other case. It needs that
`NoLink` is not itself a link (`NoLinkAssumption`), and it uses the three assumptions
about time of `Pairing`.

`BroadcastPresenceProofs`: `PresenceTypeCorrect` for any number of tabs: no two open
tabs stand for one instance, so a collision always has one that gives way.
`SeatsGetKnown`: `ASSUME TwoTabs PROVE Spec => []SeatsKnown`. `TwoTabs` is what the
application expects, two seats and two tabs; a third that sits down in an occupied
seat and gives way says "leave" from there, which the tab opposite takes for the one
that stays until the next heartbeat, and then `SeatsKnown` is false for a while. The
inductive `KnownInv` says of two facing tabs that the one knows the other and no
"leave" is on the way, or a word of the other's present transport is on its way, or
its own announcement is, which will be answered.

`HandshakeProofs`, over the bytes of `Protocol`:

- `HelloArrives`: a HELLO of any build, label, weights number and id, decoded by a
  page of any build, gives back what was encoded, or is refused with
  "VersionMismatch" exactly if the versions differ. That is arithmetic on the
  bytes of a u32 and positions in a concatenation, not induction.
- `HandshakeTypeCorrect`, `CardsEndCurrent` (`CardsCurrent`) and `VerdictsTrue`
  (`VerdictsRight`), from the inductive `HandshakeInv`: every frame on the wire is of
  the build its reader met as the link came up, whether the sender's end is still there or
  not; while both ends are, neither page has been reloaded (`Linked`) and the last frame is
  of its sender's present backend; a page that does not show its peer's backend will hear
  of it, is building, or has its own announcement under way, which will be answered.
- `FramesAlwaysArrive` (`FramesArrive`), `CutsAlwaysRefused` (`CutsRefused`),
  `QuantizedComesClose` (`Q8Close`) and `SkewAlwaysNoticed` (`SkewNoticed`): for any
  numbers, hellos, messages and tensors of any length. What a decoder looks at is
  where the encoder put it (`ParsedFrame`, `AfterHeader`); a cut frame fails the check
  on its length, at the header or in the payload (`CutAnywhere`); a rounded quotient is
  within half of what was divided (`RoundedTo`), and -127 to 127 survive the byte.

`PasteProofs`: `BlobsAlwaysArrive` (`BlobsArrive`) and `CutsAreBeginnings` (`CutBlobs`),
for descriptions of any length and any number of edits. What is carried stays `Sound`:
it is spaces, the kind, a dot and a text from which the decoder gets a beginning of the
description after each of its prefixes, and at its end the whole if nothing was lost
(`Legible`); or the dot itself was lost. An insertion leaves the decoder's states as they
were but for a repetition (`InsertedRun`), a cut leaves a prefix of them (`CutRun`). That
a fresh blob is sound is `RoundTrip`: from a state without bits left over the letters of
a chunk give its bytes, and those of a whole chunk leave no bits over again (`ChunkRun`);
and so chunk by chunk.

`BytesProofs` has what both need. The provers cannot take an induction theorem whose
parameter is an operator, but they can take one in which a set stands for the property:
`UpTo` says that a set with 0 in it and n + 1 whenever n is, up to a bound, has all
numbers up to it, and follows from the minimum of a set of naturals (`LeastNumber`),
which is the library's theorem on well-founded orders. That a recursive function
satisfies its equation (`RunsAre`, `AfterEditsAre`, `CumulativeIs`, `Flattened`) is
proved from the existence of a function on each initial segment, by the same lemma.

Every invariant that a passing run checks is the statement of a theorem, two of them
under the hypotheses named above (`Undisturbed`, `TwoTabs`), and so are
`TableSpec` and the safety half of `StreamSpec`. Only model-checked are the liveness
properties, with the fairness half of `StreamSpec`: what eventually happens, and
`ENABLED` in the fairness conditions, are out of the prover's reach. No module here
declares a `RECURSIVE` operator.

## Plan

Every component with state of its own has a module, and every safety invariant of a run
a theorem. What could follow:

1. In `Pipeline`, a change of role during a run (app.rs:1476), which takes the shard, the
   link and the transport from under the loop.
2. In `Pairing`, a transport that is replaced during the sleep of `retry_pairing`
   (app.rs:572), and pairing by blobs of earlier attempts.
3. In `PairingProofs`, that a failed link is left by both pages, as far as that is a
   property of states.

## Not modelled

- A change of role or of pairing mode during a run or a negotiation: `RelayClient` has
  changes of role without links, `Pairing` links without changes of role. Both in one
  module is more states than TLC can visit in minutes.
- Of copy and paste pairing, what blobs of earlier attempts do to a negotiation, and the
  wait for gathering, bounded at four seconds (peer.rs:255).
- A third tab of one browser: there are two seats, and what a third does to the
  others is to take one when it comes free.
- `Pcg32` and the weights made with it, kernels, `f32` rounding: arithmetic beyond
  TLC; `tests/kernels.rs` compares the two backends.
- Charts and page (presentation), static server and deployment (no state).
