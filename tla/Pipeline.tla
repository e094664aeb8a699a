------------------------------ MODULE Pipeline ------------------------------
(***************************************************************************)
(* The inference loop of src/src/web/app.rs, both ends of it: the          *)
(* coordinator (node 0) embeds a token, runs block 0, sends the hidden     *)
(* state and waits; the worker (node 1) queues the frames, runs block 1    *)
(* and the head, and replies.  Between them is the data channel of         *)
(* peer.rs, ordered and reliable while the link lasts.                     *)
(*                                                                         *)
(* An action is a stretch of code between two awaits: a browser tab runs   *)
(* one task at a time.  A tensor is abstracted to where it came from: a    *)
(* frame says which run and position it belongs to and whether every cache *)
(* row read to compute it was written by that run ("clean").               *)
(***************************************************************************)
EXTENDS Naturals, Sequences, FiniteSets

CONSTANTS
  MaxTokens,    \* tokens a run asks for (the maxTokens field, 1..MAX_SEQ)
  IdSpace,      \* request ids wrap here (2^32 in the code)
  MaxRuns,      \* bound: runs started, over all page loads
  MaxLinks,     \* bound: peer links established
  MaxRebuilds,  \* bound: shards rebuilt by a backend change, either tab
  MaxReloads,   \* bound: reloads of the coordinator's page
  NoShard       \* the empty shard cell

ASSUME BoundsAssumption ==
  /\ MaxTokens \in Nat \ {0}
  /\ IdSpace \in Nat \ {0, 1}
  /\ {MaxRuns, MaxLinks, MaxRebuilds, MaxReloads} \subseteq Nat

Node == {0, 1}
Pos == 0 .. MaxTokens - 1
Runs == 0 .. MaxRuns
Ids == 0 .. IdSpace - 1

\* A frame of the protocol, reduced to what routes it and where it came from.
Frame == [op : {"none", "reset", "activation", "token", "error"},
          id : Ids, run : Runs, pos : Pos, clean : BOOLEAN]

NoFrame == [op |-> "none", id |-> 0, run |-> 0, pos |-> 0, clean |-> TRUE]

\* A shard: which run wrote each cache row (0 for a row of zeros), and the
\* next free slot, which is 1 past the last position run.
Shard == [rows : [Pos -> Runs], next : 0 .. MaxTokens]

FreshShard == [rows |-> [p \in Pos |-> 0], next |-> 0]

ASSUME NoShardAssumption == NoShard \notin Shard

VARIABLES
  pc,           \* where generate() is suspended; "idle" when not generating
  run,          \* history: the runs started so far; the latest is this one
  pageRun,      \* history: the value of run when node 0's page was loaded
  pos,          \* position of the step in progress
  reqId,        \* its request id
  nextId,       \* AppState.next_request_id
  pending,      \* AppState.pending: ids whose oneshot sender is parked
  mail,         \* what the current step's sender sent, or NoFrame
  hidden,       \* whether block 0's output for this step is clean
  abort,        \* AppState.abort
  runLink,      \* the link generate() captured
  transcript,   \* tokens rendered for this run, oldest first
  queue,        \* worker: AppState.worker_queue
  busy,         \* worker: AppState.worker_busy
  wpc,          \* worker: where its task is suspended; "none" if not spawned
  job,          \* worker: the frame in process
  cell,         \* the shard cell of each tab
  taken,        \* the shard a forward() in flight has moved out of the cell
  rebuilding,   \* whether initialise_shard() is awaiting PipelineShard::new
  rebuilds,     \* bound counter
  reloads,      \* bound counter
  link,         \* number of the latest peer link
  open,         \* whether each end has that link's channel open
  toWorker,     \* frames in flight from node 0 to node 1
  toCoord       \* frames in flight from node 1 to node 0

coordVars == <<pc, run, pos, reqId, nextId, pending, mail, hidden, abort,
               runLink, transcript>>
workerVars == <<queue, busy, wpc, job>>
shardVars == <<cell, taken>>
boundVars == <<pageRun, rebuilding, rebuilds, reloads>>
linkVars == <<link, open>>
chanVars == <<toWorker, toCoord>>

vars == <<coordVars, workerVars, shardVars, boundVars, linkVars, chanVars>>

generating == pc # "idle"

Init ==
  /\ pc = "idle" /\ run = 0 /\ pageRun = 0 /\ pos = 0
  /\ reqId = 0 /\ nextId = 1 /\ pending = {} /\ mail = NoFrame
  /\ hidden = TRUE /\ abort = FALSE /\ runLink = 0 /\ transcript = <<>>
  /\ queue = <<>> /\ busy = FALSE /\ wpc = "none" /\ job = NoFrame
  /\ cell = [n \in Node |-> FreshShard]
  /\ taken = [n \in Node |-> NoShard]
  /\ rebuilding = [n \in Node |-> FALSE]
  /\ rebuilds = 0 /\ reloads = 0
  /\ link = 0 /\ open = [n \in Node |-> FALSE]
  /\ toWorker = <<>> /\ toCoord = <<>>

-----------------------------------------------------------------------------
(* The shard and its cell *)

\* PipelineShard::reset on the WebGPU backend: the rows stay.
ResetShard(s) == [s EXCEPT !.next = 0]

\* The reset of whatever shard the cell holds; none if a forward() has it out.
ResetCell(n) ==
  IF cell[n] = NoShard THEN cell ELSE [cell EXCEPT ![n] = ResetShard(@)]

\* Rows attention reads at position p, the row just written included.
RowsReadPastEnd(p) == 0 .. p + 1
RowsRead(p) == 0 .. p

\* The shard after running position p for run r.
Ran(s, r, p) ==
  [rows |-> [s.rows EXCEPT ![p] = r],
   next |-> IF s.next > p + 1 THEN s.next ELSE p + 1]

Reads(s, r, p) == \A q \in RowsRead(p) \cap Pos : s.rows[q] = r

\* forward(): the shard leaves the cell, and whichever shard left comes back.
Take(n) ==
  /\ taken' = [taken EXCEPT ![n] = cell[n]]
  /\ cell' = [cell EXCEPT ![n] = NoShard]

PutBack(n, s) ==
  /\ cell' = [cell EXCEPT ![n] = s]
  /\ taken' = [taken EXCEPT ![n] = NoShard]

\* A failed forward() may have written its row (a readback that fails) or not
\* (an argument it refuses); next_position stays.
AfterFailure(s, r, p) == {s, [s EXCEPT !.rows[p] = r]}

\* initialise_shard up to its await, on a change of the backend selector.
\* The selector is disabled while it waits.
BeginRebuild(n) ==
  /\ rebuilds < MaxRebuilds
  /\ ~rebuilding[n]
  /\ rebuilding' = [rebuilding EXCEPT ![n] = TRUE]
  /\ rebuilds' = rebuilds + 1
  /\ cell' = [cell EXCEPT ![n] = NoShard]
  /\ UNCHANGED <<coordVars, workerVars, taken, pageRun, reloads, linkVars,
                 chanVars>>

EndRebuild(n) ==
  /\ rebuilding[n]
  /\ rebuilding' = [rebuilding EXCEPT ![n] = FALSE]
  /\ cell' = [cell EXCEPT ![n] = FreshShard]
  /\ UNCHANGED <<coordVars, workerVars, taken, pageRun, rebuilds, reloads,
                 linkVars, chanVars>>

-----------------------------------------------------------------------------
(* The coordinator: generate() *)

\* finish_generation
FinishLeavingPending == pc' = "idle" /\ mail' = NoFrame /\ UNCHANGED pending
Finish == pc' = "idle" /\ pending' = {} /\ mail' = NoFrame

\* The link generate() captured carries frames only while it is the current one.
LinkAlive == open[0] /\ runLink = link

SameId == nextId
NextId == (nextId + 1) % IdSpace

\* The click, up to the first await.  The last conjunct keeps request ids
\* within one turn of the counter.
Generate ==
  /\ ~generating
  /\ open[0]
  /\ run < MaxRuns
  /\ nextId + MaxTokens + 1 < IdSpace
  /\ pc' = "reset"
  /\ run' = run + 1
  /\ pos' = 0
  /\ abort' = FALSE
  /\ runLink' = link
  /\ transcript' = <<>>
  /\ cell' = ResetCell(0)
  /\ reqId' = nextId
  /\ nextId' = NextId
  /\ UNCHANGED <<pending, mail, hidden, workerVars, taken, boundVars,
                 linkVars, chanVars>>

Stop ==
  /\ generating
  /\ abort' = TRUE
  /\ UNCHANGED <<pc, run, pos, reqId, nextId, pending, mail, hidden, runLink,
                 transcript, workerVars, shardVars, boundVars, linkVars,
                 chanVars>>

FrameOut(op) ==
  [op |-> op, id |-> reqId, run |-> run, pos |-> pos,
   clean |-> IF op = "reset" THEN TRUE ELSE hidden]

\* PeerLink::send of a frame from generate(), and what it leads to.
SendFrame(from, op, to) ==
  /\ pc = from
  /\ LinkAlive
  /\ toWorker' = Append(toWorker, FrameOut(op))
  /\ pc' = to
  /\ UNCHANGED <<run, pos, reqId, nextId, pending, mail, hidden, abort,
                 runLink, transcript, workerVars, shardVars, boundVars,
                 linkVars, toCoord>>

SendReset == SendFrame("reset", "reset", "top")
SendActivation == SendFrame("sending", "activation", "await")

\* The channel is closed, or stayed congested for five seconds.
SendFails ==
  /\ pc \in {"reset", "sending"}
  /\ Finish
  /\ UNCHANGED <<run, pos, reqId, nextId, hidden, abort, runLink, transcript,
                 workerVars, shardVars, boundVars, linkVars, chanVars>>

AllDoneOneLate == pos > MaxTokens
AllDone == pos = MaxTokens

\* The head of the loop: stopped, or every position is done.
LoopEnds ==
  /\ pc = "top"
  /\ abort \/ AllDone
  /\ Finish
  /\ UNCHANGED <<run, pos, reqId, nextId, hidden, abort, runLink, transcript,
                 workerVars, shardVars, boundVars, linkVars, chanVars>>

\* The id is spent even when there is no shard to embed with.
BeginStep ==
  /\ pc = "top"
  /\ ~abort /\ ~AllDone
  /\ reqId' = nextId
  /\ nextId' = NextId
  /\ \/ /\ cell[0] = NoShard
        /\ Finish
        /\ UNCHANGED shardVars
     \/ /\ cell[0] # NoShard
        /\ pc' = "forward"
        /\ Take(0)
        /\ UNCHANGED <<pending, mail>>
  /\ UNCHANGED <<run, pos, hidden, abort, runLink, transcript, workerVars,
                 boundVars, linkVars, chanVars>>

\* Block 0 is done: the sender is parked and the timer set before the send.
Park ==
  /\ pc = "forward"
  /\ LET s == Ran(taken[0], run, pos) IN
       /\ PutBack(0, s)
       /\ hidden' = Reads(s, run, pos)
  /\ pending' = pending \cup {reqId}
  /\ mail' = NoFrame
  /\ pc' = "sending"
  /\ UNCHANGED <<run, pos, reqId, nextId, abort, runLink, transcript,
                 workerVars, boundVars, linkVars, chanVars>>

StageZeroFails ==
  /\ pc = "forward"
  /\ \E s \in AfterFailure(taken[0], run, pos) : PutBack(0, s)
  /\ Finish
  /\ UNCHANGED <<run, pos, reqId, nextId, hidden, abort, runLink, transcript,
                 workerVars, boundVars, linkVars, chanVars>>

\* The 8 s timer of the step: it drops the sender, which cancels the receiver.
TimerForgets == UNCHANGED pending
TimerFires == pending' = pending \ {reqId}
Timeout ==
  /\ pc \in {"sending", "await"}
  /\ reqId \in pending
  /\ TimerFires
  /\ UNCHANGED <<pc, run, pos, reqId, nextId, mail, hidden, abort, runLink,
                 transcript, workerVars, shardVars, boundVars, linkVars,
                 chanVars>>

\* The receiver is cancelled: timer, error frame or closed link.
Cancelled ==
  /\ pc = "await"
  /\ mail = NoFrame /\ reqId \notin pending
  /\ Finish
  /\ UNCHANGED <<run, pos, reqId, nextId, hidden, abort, runLink, transcript,
                 workerVars, shardVars, boundVars, linkVars, chanVars>>

\* The reply is in: render it, and go on unless it is <eos>.
Accept ==
  /\ pc = "await"
  /\ mail # NoFrame
  /\ transcript' = Append(transcript, mail)
  /\ \/ /\ Finish
        /\ UNCHANGED pos
     \/ /\ pc' = "top"
        /\ pos' = pos + 1
        /\ mail' = NoFrame
        /\ UNCHANGED pending
  /\ UNCHANGED <<run, reqId, nextId, hidden, abort, runLink, workerVars,
                 shardVars, boundVars, linkVars, chanVars>>

\* on_token_frame: the sender parked under the frame's id, if any, gets it.
AnyReplyIsForUs(id) == pending # {}
Matches(id) == id \in pending

DeliverToken ==
  /\ open[0] /\ toCoord # <<>>
  /\ LET f == Head(toCoord) IN
       /\ f.op = "token"
       /\ mail' = IF Matches(f.id) THEN f ELSE mail
       /\ pending' = pending \ {f.id}
  /\ toCoord' = Tail(toCoord)
  /\ UNCHANGED <<pc, run, pos, reqId, nextId, hidden, abort, runLink,
                 transcript, workerVars, shardVars, boundVars, linkVars,
                 toWorker>>

\* on_error_frame: the sender parked under the frame's id is dropped.
DeliverError ==
  /\ open[0] /\ toCoord # <<>>
  /\ Head(toCoord).op = "error"
  /\ pending' = pending \ {Head(toCoord).id}
  /\ toCoord' = Tail(toCoord)
  /\ UNCHANGED <<pc, run, pos, reqId, nextId, mail, hidden, abort, runLink,
                 transcript, workerVars, shardVars, boundVars, linkVars,
                 toWorker>>

-----------------------------------------------------------------------------
(* The worker *)

\* on_frame, OP_RESET: acts on the shard at once, past the queue.
DeliverReset ==
  /\ open[1] /\ toWorker # <<>>
  /\ Head(toWorker).op = "reset"
  /\ cell' = ResetCell(1)
  /\ toWorker' = Tail(toWorker)
  /\ UNCHANGED <<coordVars, workerVars, taken, boundVars, linkVars, toCoord>>

\* enqueue_activation: spawns the task unless one is running.
QueueJumped(f) == <<f>> \o queue
Queued(f) == Append(queue, f)

DeliverActivation ==
  /\ open[1] /\ toWorker # <<>>
  /\ Head(toWorker).op = "activation"
  /\ queue' = Queued(Head(toWorker))
  /\ busy' = TRUE
  /\ wpc' = IF busy THEN wpc ELSE "pop"
  /\ toWorker' = Tail(toWorker)
  /\ UNCHANGED <<coordVars, job, shardVars, boundVars, linkVars, toCoord>>

\* The task finds the queue empty and ends.
TaskEndsStillBusy == wpc' = "none" /\ UNCHANGED busy
TaskEnds == wpc' = "none" /\ busy' = FALSE

QueueEmpty ==
  /\ wpc = "pop" /\ queue = <<>>
  /\ TaskEnds
  /\ UNCHANGED <<coordVars, queue, job, shardVars, boundVars, linkVars,
                 chanVars>>

\* process_activation up to its first await: block 1 starts, or there is no
\* shard and an error is to be reported.
Pop ==
  /\ wpc = "pop" /\ queue # <<>>
  /\ job' = Head(queue)
  /\ queue' = Tail(queue)
  /\ \/ /\ cell[1] = NoShard
        /\ wpc' = "error"
        /\ UNCHANGED shardVars
     \/ /\ cell[1] # NoShard
        /\ wpc' = "forward"
        /\ Take(1)
  /\ UNCHANGED <<coordVars, busy, boundVars, linkVars, chanVars>>

Compute ==
  /\ wpc = "forward"
  /\ LET s == Ran(taken[1], job.run, job.pos) IN
       /\ PutBack(1, s)
       /\ job' = [job EXCEPT !.clean = @ /\ Reads(s, job.run, job.pos)]
  /\ wpc' = "token"
  /\ UNCHANGED <<coordVars, queue, busy, boundVars, linkVars, chanVars>>

ComputeFails ==
  /\ wpc = "forward"
  /\ \E s \in AfterFailure(taken[1], job.run, job.pos) : PutBack(1, s)
  /\ wpc' = "error"
  /\ UNCHANGED <<coordVars, queue, busy, job, boundVars, linkVars, chanVars>>

\* The reply or the error report, on whichever link is current by now.
Answer ==
  /\ wpc \in {"token", "error"}
  /\ open[1]
  /\ toCoord' = Append(toCoord, [job EXCEPT !.op = wpc])
  /\ wpc' = "pop" /\ job' = NoFrame
  /\ UNCHANGED <<coordVars, queue, busy, shardVars, boundVars, linkVars,
                 toWorker>>

\* There is no open link, or it stays congested: the answer is dropped.
AnswerFails ==
  /\ wpc \in {"token", "error"}
  /\ wpc' = "pop" /\ job' = NoFrame
  /\ UNCHANGED <<coordVars, queue, busy, shardVars, boundVars, linkVars,
                 chanVars>>

-----------------------------------------------------------------------------
(* The link.  What one end sent before it closed may still reach the other, *)
(* until that end closes too.                                               *)

Connect ==
  /\ link < MaxLinks
  /\ ~open[0] /\ ~open[1]
  /\ link' = link + 1
  /\ open' = [n \in Node |-> TRUE]
  /\ toWorker' = <<>> /\ toCoord' = <<>>
  /\ UNCHANGED <<coordVars, workerVars, shardVars, boundVars>>

\* teardown_link, or the channel's close event: both reject what is pending.
CloseCoord ==
  /\ open[0]
  /\ open' = [open EXCEPT ![0] = FALSE]
  /\ pending' = {}
  /\ toCoord' = <<>>
  /\ UNCHANGED <<pc, run, pos, reqId, nextId, mail, hidden, abort, runLink,
                 transcript, workerVars, shardVars, boundVars, link, toWorker>>

\* The queue and the task survive: nothing clears them.
CloseWorker ==
  /\ open[1]
  /\ open' = [open EXCEPT ![1] = FALSE]
  /\ toWorker' = <<>>
  /\ UNCHANGED <<coordVars, workerVars, shardVars, boundVars, link, toCoord>>

\* The coordinator's page is reloaded: App::start builds its state afresh.
Reload ==
  /\ reloads < MaxReloads
  /\ reloads' = reloads + 1
  /\ pageRun' = run
  /\ pc' = "idle" /\ nextId' = 1 /\ pending' = {} /\ mail' = NoFrame
  /\ abort' = FALSE /\ transcript' = <<>>
  /\ open' = [open EXCEPT ![0] = FALSE]
  /\ toCoord' = <<>>
  /\ cell' = [cell EXCEPT ![0] = FreshShard]
  /\ taken' = [taken EXCEPT ![0] = NoShard]
  /\ rebuilding' = [rebuilding EXCEPT ![0] = FALSE]
  /\ UNCHANGED <<run, pos, reqId, hidden, runLink, workerVars, rebuilds,
                 link, toWorker>>

-----------------------------------------------------------------------------

Coordinator ==
  \/ SendReset \/ SendActivation \/ SendFails
  \/ LoopEnds \/ BeginStep \/ Park \/ StageZeroFails
  \/ Timeout \/ Cancelled \/ Accept

Worker == QueueEmpty \/ Pop \/ Compute \/ ComputeFails \/ Answer \/ AnswerFails

Deliver == DeliverToken \/ DeliverError \/ DeliverReset \/ DeliverActivation

User == Generate \/ Stop \/ Reload \/ \E n \in Node : BeginRebuild(n)

Environment ==
  User \/ Connect \/ CloseCoord \/ CloseWorker \/ \E n \in Node : EndRebuild(n)

Next == Coordinator \/ Worker \/ Deliver \/ Environment

\* A task that can run does run, and a timer that is set fires.  Nothing is
\* assumed of the user, of the network or of delivery.
Spec ==
  /\ Init
  /\ [][Next]_vars
  /\ WF_vars(Coordinator)
  /\ WF_vars(Worker)
-----------------------------------------------------------------------------
(* Properties *)

SeqRange(s) == {s[i] : i \in DOMAIN s}

CoordTypeOK ==
  /\ pc \in {"idle", "reset", "top", "forward", "sending", "await"}
  /\ run \in Runs
  /\ pos \in 0 .. MaxTokens
  /\ pc \notin {"top", "idle"} => pos # MaxTokens
  /\ reqId \in Ids /\ nextId \in Ids
  /\ pending \subseteq Ids
  /\ mail \in Frame
  /\ runLink \in 0 .. MaxLinks
  /\ transcript \in Seq(Frame)

WorkerTypeOK ==
  /\ queue \in Seq(Frame)
  /\ wpc \in {"none", "pop", "forward", "token", "error"}
  /\ job \in Frame

ShardTypeOK ==
  /\ cell \in [Node -> Shard \cup {NoShard}]
  /\ taken \in [Node -> Shard \cup {NoShard}]
  /\ pc = "forward" => taken[0] # NoShard
  /\ wpc = "forward" => taken[1] # NoShard

BoundTypeOK ==
  /\ pageRun \in Runs
  /\ rebuilding \in [Node -> BOOLEAN]
  /\ rebuilds \in 0 .. MaxRebuilds /\ reloads \in 0 .. MaxReloads

LinkTypeOK ==
  /\ link \in 0 .. MaxLinks
  /\ open \in [Node -> BOOLEAN]
  /\ toWorker \in Seq(Frame) /\ toCoord \in Seq(Frame)

FlagsTypeOK == hidden \in BOOLEAN /\ abort \in BOOLEAN /\ busy \in BOOLEAN

TypeOK ==
  /\ CoordTypeOK /\ WorkerTypeOK /\ ShardTypeOK
  /\ BoundTypeOK /\ LinkTypeOK /\ FlagsTypeOK

\* At most the step in progress is waiting, and only between the moment its
\* sender is parked and the moment its receiver is dropped: a timer, an error
\* frame and a closing link all cancel that step and no other.
OneStepWaiting ==
  /\ pending \subseteq {reqId}
  /\ pending # {} => pc \in {"sending", "await"} /\ mail = NoFrame

\* Every answer that reaches the waiting step was asked for by that step, if
\* this load of the page asked for it at all: app.rs matches replies "by
\* request_id, not by whatever arrives next", whatever was left behind by
\* timed-out steps, stopped runs and links since replaced.
AnswersTheirStep ==
  LET matching == {f \in SeqRange(toCoord) : f.id \in pending}
      arrived == {mail} \ {NoFrame}
  IN \A f \in matching \cup arrived :
       f.run > pageRun => f.run = run /\ f.pos = pos

\* The same of every answer, asked for by this load of the page or not.  The
\* header of protocol.rs says so: "a late or duplicated frame can be dropped
\* instead of resolving the wrong pending promise".
LateRepliesDropped ==
  mail # NoFrame => mail.run = run /\ mail.pos = pos

\* Both caches a token was computed over held this run's rows and no other's,
\* although a reset leaves the rows of the last run in place and the frames of
\* a run that was given up stay queued at the worker.
ContextIsThisRun ==
  \A i \in DOMAIN transcript : transcript[i].clean

\* The step of f comes before that of g.
Earlier(f, g) == f.run < g.run \/ (f.run = g.run /\ f.pos < g.pos)

\* The worker's frames stay in the order node 0 computed them, from the job in
\* process to the last one in flight: "frames are processed strictly in order".
StepsInOrder ==
  LET jobs == IF job = NoFrame THEN <<>> ELSE <<job>>
      path == jobs \o queue \o toWorker
      steps == {i \in DOMAIN path : path[i].op = "activation"}
  IN \A i, j \in steps : i < j => Earlier(path[i], path[j])

\* A run comes to an end whatever happens to the link or to the worker: each
\* step is answered, failed or timed out.
RunEnds == generating ~> ~generating

\* Nothing stays in the worker's queue: no frame arrives between the task's
\* last look at the queue and its clearing of worker_busy.
QueueDrains == queue # <<>> ~> queue = <<>>

\* The loop implements the promise of TokenStream.
Shown(f) == [run |-> f.run, pos |-> f.pos, clean |-> f.clean]

Stream == INSTANCE TokenStream WITH
  active <- generating,
  transcript <- [i \in DOMAIN transcript |-> Shown(transcript[i])]

StreamSpec == Stream!Spec
==============================================================================
