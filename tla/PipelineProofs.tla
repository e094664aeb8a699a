--------------------------- MODULE PipelineProofs ---------------------------
(***************************************************************************)
(* Theorems about Pipeline and Sampling, for every value of their          *)
(* constants.                                                              *)
(***************************************************************************)
EXTENDS Sampling, BytesProofs, FiniteSetTheorems, FunctionTheorems

\* Request ids wrap into the id space.
LEMMA NextIdInIds ==
  ASSUME nextId \in Ids PROVE NextId \in Ids
  BY BoundsAssumption DEF NextId, Ids

\* A shard that has run a position, failed to, or been reset is a shard.
LEMMA ShardOperations ==
  ASSUME NEW s \in Shard, NEW r \in Runs, NEW p \in Pos
  PROVE  /\ Ran(s, r, p) \in Shard
         /\ AfterFailure(s, r, p) \subseteq Shard
         /\ ResetShard(s) \in Shard
<1>1. [s.rows EXCEPT ![p] = r] \in [Pos -> Runs]
  BY DEF Shard
<1>2. s.next \in 0 .. MaxTokens /\ p + 1 \in 0 .. MaxTokens
  BY BoundsAssumption DEF Shard, Pos
<1>3. Ran(s, r, p) \in Shard
  BY <1>1, <1>2 DEF Ran, Shard
<1>4. [s EXCEPT !.rows[p] = r] = [s EXCEPT !.rows = [s.rows EXCEPT ![p] = r]]
  BY DEF Shard
<1>5. AfterFailure(s, r, p) \subseteq Shard
  BY <1>1, <1>4 DEF AfterFailure, Shard
<1>6. ResetShard(s) \in Shard
  BY BoundsAssumption DEF ResetShard, Shard
<1> QED
  BY <1>3, <1>5, <1>6

LEMMA FreshShardIsShard == FreshShard \in Shard
  BY BoundsAssumption DEF FreshShard, Shard, Pos, Runs

LEMMA NoFrameIsFrame == NoFrame \in Frame
  BY BoundsAssumption DEF NoFrame, Frame, Ids, Runs, Pos

LEMMA ResetCellType ==
  ASSUME cell \in [Node -> Shard \cup {NoShard}], NEW n \in Node
  PROVE  ResetCell(n) \in [Node -> Shard \cup {NoShard}]
  BY BoundsAssumption DEF ResetCell, ResetShard, Shard, Node

LEMMA InitTypeOK == Init => TypeOK
<1> SUFFICES ASSUME Init PROVE TypeOK
  OBVIOUS
<1>1. CoordTypeOK
  BY BoundsAssumption, NoFrameIsFrame DEF Init, CoordTypeOK, Runs, Ids
<1>2. WorkerTypeOK
  BY NoFrameIsFrame DEF Init, WorkerTypeOK
<1>3. ShardTypeOK
  BY FreshShardIsShard DEF Init, ShardTypeOK
<1>4. BoundTypeOK
  BY BoundsAssumption DEF Init, BoundTypeOK, Runs
<1>5. LinkTypeOK
  BY BoundsAssumption DEF Init, LinkTypeOK
<1>6. FlagsTypeOK
  BY DEF Init, FlagsTypeOK
<1> QED
  BY <1>1, <1>2, <1>3, <1>4, <1>5, <1>6 DEF TypeOK

LEMMA FrameOutIsFrame ==
  ASSUME CoordTypeOK, FlagsTypeOK, pos # MaxTokens,
         NEW op \in {"reset", "activation"}
  PROVE  FrameOut(op) \in Frame
<1> DEFINE c == IF op = "reset" THEN TRUE ELSE hidden
<1>1. c \in BOOLEAN
  BY DEF FlagsTypeOK
<1>2. pos \in Pos
  BY BoundsAssumption DEF CoordTypeOK, Pos
<1>3. FrameOut(op) = [op |-> op, id |-> reqId, run |-> run, pos |-> pos,
                      clean |-> c]
  BY DEF FrameOut
<1> HIDE DEF c
<1> QED
  BY <1>1, <1>2, <1>3 DEF CoordTypeOK, Frame

LEMMA StepTypeOK == TypeOK /\ [Next]_vars => TypeOK'
<1> SUFFICES ASSUME TypeOK, [Next]_vars PROVE TypeOK'
  OBVIOUS
<1> USE BoundsAssumption, NoFrameIsFrame
    DEF TypeOK, coordVars, workerVars, shardVars, boundVars, linkVars, chanVars
<1>1. CASE Generate
  <2>1. CoordTypeOK'
    BY <1>1, NextIdInIds DEF Generate, CoordTypeOK, generating, LinkTypeOK,
       Runs
  <2>2. ShardTypeOK'
    BY <1>1, ResetCellType DEF Generate, ShardTypeOK, Node
  <2>3. FlagsTypeOK'
    BY <1>1 DEF Generate, FlagsTypeOK
  <2>4. WorkerTypeOK' /\ BoundTypeOK' /\ LinkTypeOK'
    BY <1>1 DEF Generate, WorkerTypeOK, BoundTypeOK, LinkTypeOK
  <2> QED
    BY <2>1, <2>2, <2>3, <2>4
<1>2. CASE Stop
  <2>1. FlagsTypeOK'
    BY <1>2 DEF Stop, FlagsTypeOK
  <2>2. CoordTypeOK' /\ WorkerTypeOK' /\ ShardTypeOK' /\ BoundTypeOK' /\ LinkTypeOK'
    BY <1>2 DEF Stop, CoordTypeOK, WorkerTypeOK, ShardTypeOK, BoundTypeOK,
       LinkTypeOK
  <2> QED
    BY <2>1, <2>2
<1>3. CASE SendReset
  <2>0. FrameOut("reset") \in Frame
    BY <1>3, FrameOutIsFrame DEF SendReset, SendFrame, CoordTypeOK
  <2>1. CoordTypeOK'
    BY <1>3 DEF SendReset, SendFrame, CoordTypeOK
  <2>2. ShardTypeOK'
    BY <1>3 DEF SendReset, SendFrame, ShardTypeOK
  <2>3. LinkTypeOK'
    BY <1>3, <2>0 DEF SendReset, SendFrame, LinkTypeOK
  <2>4. FlagsTypeOK'
    BY <1>3 DEF SendReset, SendFrame, FlagsTypeOK
  <2>5. WorkerTypeOK' /\ BoundTypeOK'
    BY <1>3 DEF SendReset, SendFrame, WorkerTypeOK, BoundTypeOK
  <2> QED
    BY <2>1, <2>2, <2>3, <2>4, <2>5
<1>4. CASE SendActivation
  <2>0. FrameOut("activation") \in Frame
    BY <1>4, FrameOutIsFrame DEF SendActivation, SendFrame, CoordTypeOK
  <2>1. CoordTypeOK'
    BY <1>4 DEF SendActivation, SendFrame, CoordTypeOK
  <2>2. ShardTypeOK'
    BY <1>4 DEF SendActivation, SendFrame, ShardTypeOK
  <2>3. LinkTypeOK'
    BY <1>4, <2>0 DEF SendActivation, SendFrame, LinkTypeOK
  <2>4. FlagsTypeOK'
    BY <1>4 DEF SendActivation, SendFrame, FlagsTypeOK
  <2>5. WorkerTypeOK' /\ BoundTypeOK'
    BY <1>4 DEF SendActivation, SendFrame, WorkerTypeOK, BoundTypeOK
  <2> QED
    BY <2>1, <2>2, <2>3, <2>4, <2>5
<1>5. CASE SendFails
  <2>1. CoordTypeOK'
    BY <1>5 DEF SendFails, Finish, CoordTypeOK
  <2>2. ShardTypeOK'
    BY <1>5 DEF SendFails, Finish, ShardTypeOK
  <2>3. FlagsTypeOK'
    BY <1>5 DEF SendFails, Finish, FlagsTypeOK
  <2>4. WorkerTypeOK' /\ BoundTypeOK' /\ LinkTypeOK'
    BY <1>5 DEF SendFails, WorkerTypeOK, BoundTypeOK, LinkTypeOK
  <2> QED
    BY <2>1, <2>2, <2>3, <2>4
<1>6. CASE LoopEnds
  <2>1. CoordTypeOK'
    BY <1>6 DEF LoopEnds, Finish, CoordTypeOK
  <2>2. ShardTypeOK'
    BY <1>6 DEF LoopEnds, Finish, ShardTypeOK
  <2>3. FlagsTypeOK'
    BY <1>6 DEF LoopEnds, Finish, FlagsTypeOK
  <2>4. WorkerTypeOK' /\ BoundTypeOK' /\ LinkTypeOK'
    BY <1>6 DEF LoopEnds, WorkerTypeOK, BoundTypeOK, LinkTypeOK
  <2> QED
    BY <2>1, <2>2, <2>3, <2>4
<1>7. CASE BeginStep
  <2>1. CoordTypeOK'
    BY <1>7, NextIdInIds DEF BeginStep, Finish, CoordTypeOK, AllDone
  <2>2. ShardTypeOK'
    BY <1>7 DEF BeginStep, Finish, ShardTypeOK, Take, Node
  <2>3. FlagsTypeOK'
    BY <1>7 DEF BeginStep, Finish, FlagsTypeOK
  <2>4. WorkerTypeOK' /\ BoundTypeOK' /\ LinkTypeOK'
    BY <1>7 DEF BeginStep, WorkerTypeOK, BoundTypeOK, LinkTypeOK
  <2> QED
    BY <2>1, <2>2, <2>3, <2>4
<1>8. CASE Park
  <2>0. Ran(taken[0], run, pos) \in Shard
    <3>1. pos \in Pos /\ run \in Runs
      BY <1>8 DEF Park, CoordTypeOK, Pos
    <3>2. taken[0] \in Shard
      BY <1>8 DEF Park, ShardTypeOK, Node
    <3> QED
      BY <3>1, <3>2, ShardOperations
  <2>1. CoordTypeOK'
    BY <1>8 DEF Park, CoordTypeOK
  <2>2. ShardTypeOK'
    BY <1>8, <2>0 DEF Park, ShardTypeOK, PutBack, Node
  <2>3. FlagsTypeOK'
    BY <1>8 DEF Park, FlagsTypeOK, Reads
  <2>4. WorkerTypeOK' /\ BoundTypeOK' /\ LinkTypeOK'
    BY <1>8 DEF Park, WorkerTypeOK, BoundTypeOK, LinkTypeOK
  <2> QED
    BY <2>1, <2>2, <2>3, <2>4
<1>9. CASE StageZeroFails
  <2>0. AfterFailure(taken[0], run, pos) \subseteq Shard
    <3>1. pos \in Pos /\ run \in Runs
      BY <1>9 DEF StageZeroFails, CoordTypeOK, Pos
    <3>2. taken[0] \in Shard
      BY <1>9 DEF StageZeroFails, ShardTypeOK, Node
    <3> QED
      BY <3>1, <3>2, ShardOperations
  <2>1. CoordTypeOK'
    BY <1>9 DEF StageZeroFails, Finish, CoordTypeOK
  <2>2. ShardTypeOK'
    BY <1>9, <2>0 DEF StageZeroFails, Finish, ShardTypeOK, PutBack, Node
  <2>3. FlagsTypeOK'
    BY <1>9 DEF StageZeroFails, Finish, FlagsTypeOK
  <2>4. WorkerTypeOK' /\ BoundTypeOK' /\ LinkTypeOK'
    BY <1>9 DEF StageZeroFails, WorkerTypeOK, BoundTypeOK, LinkTypeOK
  <2> QED
    BY <2>1, <2>2, <2>3, <2>4
<1>10. CASE Timeout
  <2>1. CoordTypeOK'
    BY <1>10 DEF Timeout, TimerFires, CoordTypeOK
  <2>2. ShardTypeOK'
    BY <1>10 DEF Timeout, TimerFires, ShardTypeOK
  <2>3. FlagsTypeOK'
    BY <1>10 DEF Timeout, TimerFires, FlagsTypeOK
  <2>4. WorkerTypeOK' /\ BoundTypeOK' /\ LinkTypeOK'
    BY <1>10 DEF Timeout, WorkerTypeOK, BoundTypeOK, LinkTypeOK
  <2> QED
    BY <2>1, <2>2, <2>3, <2>4
<1>11. CASE Cancelled
  <2>1. CoordTypeOK'
    BY <1>11 DEF Cancelled, Finish, CoordTypeOK
  <2>2. ShardTypeOK'
    BY <1>11 DEF Cancelled, Finish, ShardTypeOK
  <2>3. FlagsTypeOK'
    BY <1>11 DEF Cancelled, Finish, FlagsTypeOK
  <2>4. WorkerTypeOK' /\ BoundTypeOK' /\ LinkTypeOK'
    BY <1>11 DEF Cancelled, WorkerTypeOK, BoundTypeOK, LinkTypeOK
  <2> QED
    BY <2>1, <2>2, <2>3, <2>4
<1>12. CASE Accept
  <2>1. CoordTypeOK'
    BY <1>12 DEF Accept, Finish, CoordTypeOK
  <2>2. ShardTypeOK'
    BY <1>12 DEF Accept, Finish, ShardTypeOK
  <2>3. FlagsTypeOK'
    BY <1>12 DEF Accept, Finish, FlagsTypeOK
  <2>4. WorkerTypeOK' /\ BoundTypeOK' /\ LinkTypeOK'
    BY <1>12 DEF Accept, WorkerTypeOK, BoundTypeOK, LinkTypeOK
  <2> QED
    BY <2>1, <2>2, <2>3, <2>4
<1>13. CASE DeliverToken
  <2>0. Head(toCoord) \in Frame
    BY <1>13 DEF DeliverToken, LinkTypeOK
  <2>1. CoordTypeOK'
    BY <1>13, <2>0 DEF DeliverToken, CoordTypeOK
  <2>2. LinkTypeOK'
    BY <1>13 DEF DeliverToken, LinkTypeOK
  <2>3. FlagsTypeOK'
    BY <1>13 DEF DeliverToken, FlagsTypeOK
  <2>4. WorkerTypeOK' /\ ShardTypeOK' /\ BoundTypeOK'
    BY <1>13 DEF DeliverToken, WorkerTypeOK, ShardTypeOK, BoundTypeOK
  <2> QED
    BY <2>1, <2>2, <2>3, <2>4
<1>14. CASE DeliverError
  <2>1. CoordTypeOK'
    BY <1>14 DEF DeliverError, CoordTypeOK
  <2>2. LinkTypeOK'
    BY <1>14 DEF DeliverError, LinkTypeOK
  <2>3. FlagsTypeOK'
    BY <1>14 DEF DeliverError, FlagsTypeOK
  <2>4. WorkerTypeOK' /\ ShardTypeOK' /\ BoundTypeOK'
    BY <1>14 DEF DeliverError, WorkerTypeOK, ShardTypeOK, BoundTypeOK
  <2> QED
    BY <2>1, <2>2, <2>3, <2>4
<1>15. CASE DeliverReset
  <2>1. ShardTypeOK'
    BY <1>15, ResetCellType DEF DeliverReset, ShardTypeOK, Node
  <2>2. LinkTypeOK'
    BY <1>15 DEF DeliverReset, LinkTypeOK
  <2>3. CoordTypeOK' /\ WorkerTypeOK' /\ BoundTypeOK' /\ FlagsTypeOK'
    BY <1>15 DEF DeliverReset, CoordTypeOK, WorkerTypeOK, BoundTypeOK,
       FlagsTypeOK
  <2> QED
    BY <2>1, <2>2, <2>3
<1>16. CASE DeliverActivation
  <2>1. WorkerTypeOK'
    BY <1>16 DEF DeliverActivation, WorkerTypeOK, Queued, LinkTypeOK
  <2>2. ShardTypeOK'
    BY <1>16 DEF DeliverActivation, ShardTypeOK
  <2>3. LinkTypeOK'
    BY <1>16 DEF DeliverActivation, LinkTypeOK
  <2>4. FlagsTypeOK'
    BY <1>16 DEF DeliverActivation, FlagsTypeOK
  <2>5. CoordTypeOK' /\ BoundTypeOK'
    BY <1>16 DEF DeliverActivation, CoordTypeOK, BoundTypeOK
  <2> QED
    BY <2>1, <2>2, <2>3, <2>4, <2>5
<1>17. CASE QueueEmpty
  <2>1. WorkerTypeOK'
    BY <1>17 DEF QueueEmpty, TaskEnds, WorkerTypeOK
  <2>2. ShardTypeOK'
    BY <1>17 DEF QueueEmpty, TaskEnds, ShardTypeOK
  <2>3. FlagsTypeOK'
    BY <1>17 DEF QueueEmpty, TaskEnds, FlagsTypeOK
  <2>4. CoordTypeOK' /\ BoundTypeOK' /\ LinkTypeOK'
    BY <1>17 DEF QueueEmpty, CoordTypeOK, BoundTypeOK, LinkTypeOK
  <2> QED
    BY <2>1, <2>2, <2>3, <2>4
<1>18. CASE Pop
  <2>1. WorkerTypeOK'
    BY <1>18 DEF Pop, WorkerTypeOK
  <2>2. ShardTypeOK'
    BY <1>18 DEF Pop, ShardTypeOK, Take, Node
  <2>3. FlagsTypeOK'
    BY <1>18 DEF Pop, FlagsTypeOK
  <2>4. CoordTypeOK' /\ BoundTypeOK' /\ LinkTypeOK'
    BY <1>18 DEF Pop, CoordTypeOK, BoundTypeOK, LinkTypeOK
  <2> QED
    BY <2>1, <2>2, <2>3, <2>4
<1>19. CASE Compute
  <2>0a. job' \in Frame
    <3> DEFINE c == job.clean /\ Reads(Ran(taken[1], job.run, job.pos), job.run, job.pos)
    <3>1. c \in BOOLEAN
      OBVIOUS
    <3>2. job' = [job EXCEPT !.clean = c]
      BY <1>19 DEF Compute
    <3> HIDE DEF c
    <3> QED
      BY <3>1, <3>2 DEF WorkerTypeOK, Frame
  <2>0. Ran(taken[1], job.run, job.pos) \in Shard
    BY <1>19, ShardOperations DEF Compute, WorkerTypeOK, ShardTypeOK, Frame, Node
  <2>1. WorkerTypeOK'
    BY <1>19, <2>0a DEF Compute, WorkerTypeOK
  <2>2. ShardTypeOK'
    BY <1>19, <2>0 DEF Compute, ShardTypeOK, PutBack, Node
  <2>3. FlagsTypeOK'
    BY <1>19 DEF Compute, FlagsTypeOK
  <2>4. CoordTypeOK' /\ BoundTypeOK' /\ LinkTypeOK'
    BY <1>19 DEF Compute, CoordTypeOK, BoundTypeOK, LinkTypeOK
  <2> QED
    BY <2>1, <2>2, <2>3, <2>4
<1>20. CASE ComputeFails
  <2>0. AfterFailure(taken[1], job.run, job.pos) \subseteq Shard
    BY <1>20, ShardOperations DEF ComputeFails, WorkerTypeOK, ShardTypeOK, Frame, Node
  <2>1. WorkerTypeOK'
    BY <1>20 DEF ComputeFails, WorkerTypeOK
  <2>2. ShardTypeOK'
    BY <1>20, <2>0 DEF ComputeFails, ShardTypeOK, PutBack, Node
  <2>3. FlagsTypeOK'
    BY <1>20 DEF ComputeFails, FlagsTypeOK
  <2>4. CoordTypeOK' /\ BoundTypeOK' /\ LinkTypeOK'
    BY <1>20 DEF ComputeFails, CoordTypeOK, BoundTypeOK, LinkTypeOK
  <2> QED
    BY <2>1, <2>2, <2>3, <2>4
<1>21. CASE Answer
  <2>0. [job EXCEPT !.op = wpc] \in Frame
    BY <1>21 DEF Answer, WorkerTypeOK, Frame
  <2>1. WorkerTypeOK'
    BY <1>21 DEF Answer, WorkerTypeOK
  <2>2. ShardTypeOK'
    BY <1>21 DEF Answer, ShardTypeOK
  <2>3. LinkTypeOK'
    BY <1>21, <2>0 DEF Answer, LinkTypeOK
  <2>4. FlagsTypeOK'
    BY <1>21 DEF Answer, FlagsTypeOK
  <2>5. CoordTypeOK' /\ BoundTypeOK'
    BY <1>21 DEF Answer, CoordTypeOK, BoundTypeOK
  <2> QED
    BY <2>1, <2>2, <2>3, <2>4, <2>5
<1>22. CASE AnswerFails
  <2>1. WorkerTypeOK'
    BY <1>22 DEF AnswerFails, WorkerTypeOK
  <2>2. ShardTypeOK'
    BY <1>22 DEF AnswerFails, ShardTypeOK
  <2>3. FlagsTypeOK'
    BY <1>22 DEF AnswerFails, FlagsTypeOK
  <2>4. CoordTypeOK' /\ BoundTypeOK' /\ LinkTypeOK'
    BY <1>22 DEF AnswerFails, CoordTypeOK, BoundTypeOK, LinkTypeOK
  <2> QED
    BY <2>1, <2>2, <2>3, <2>4
<1>23. CASE Connect
  <2>1. LinkTypeOK'
    BY <1>23 DEF Connect, LinkTypeOK
  <2>2. CoordTypeOK' /\ WorkerTypeOK' /\ ShardTypeOK' /\ BoundTypeOK' /\ FlagsTypeOK'
    BY <1>23 DEF Connect, CoordTypeOK, WorkerTypeOK, ShardTypeOK, BoundTypeOK,
       FlagsTypeOK
  <2> QED
    BY <2>1, <2>2
<1>24. CASE CloseCoord
  <2>1. CoordTypeOK'
    BY <1>24 DEF CloseCoord, CoordTypeOK
  <2>2. LinkTypeOK'
    BY <1>24 DEF CloseCoord, LinkTypeOK, Node
  <2>3. FlagsTypeOK'
    BY <1>24 DEF CloseCoord, FlagsTypeOK
  <2>4. WorkerTypeOK' /\ ShardTypeOK' /\ BoundTypeOK'
    BY <1>24 DEF CloseCoord, WorkerTypeOK, ShardTypeOK, BoundTypeOK
  <2> QED
    BY <2>1, <2>2, <2>3, <2>4
<1>25. CASE CloseWorker
  <2>1. LinkTypeOK'
    BY <1>25 DEF CloseWorker, LinkTypeOK, Node
  <2>2. CoordTypeOK' /\ WorkerTypeOK' /\ ShardTypeOK' /\ BoundTypeOK' /\ FlagsTypeOK'
    BY <1>25 DEF CloseWorker, CoordTypeOK, WorkerTypeOK, ShardTypeOK,
       BoundTypeOK, FlagsTypeOK
  <2> QED
    BY <2>1, <2>2
<1>26. CASE Reload
  <2>1. CoordTypeOK'
    BY <1>26 DEF Reload, CoordTypeOK, Ids
  <2>2. ShardTypeOK'
    BY <1>26, FreshShardIsShard DEF Reload, ShardTypeOK, Node
  <2>3. BoundTypeOK'
    BY <1>26 DEF Reload, BoundTypeOK, CoordTypeOK, Node
  <2>4. LinkTypeOK'
    BY <1>26 DEF Reload, LinkTypeOK, Node
  <2>5. FlagsTypeOK'
    BY <1>26 DEF Reload, FlagsTypeOK
  <2>6. WorkerTypeOK'
    BY <1>26 DEF Reload, WorkerTypeOK
  <2> QED
    BY <2>1, <2>2, <2>3, <2>4, <2>5, <2>6
<1>27. CASE \E n \in Node : BeginRebuild(n)
  <2> PICK n \in Node : BeginRebuild(n)
    BY <1>27
  <2>1. ShardTypeOK'
    BY FreshShardIsShard DEF BeginRebuild, ShardTypeOK
  <2>2. BoundTypeOK'
    BY DEF BeginRebuild, BoundTypeOK
  <2>3. CoordTypeOK' /\ WorkerTypeOK' /\ LinkTypeOK' /\ FlagsTypeOK'
    BY DEF BeginRebuild, CoordTypeOK, WorkerTypeOK, LinkTypeOK, FlagsTypeOK
  <2> QED
    BY <2>1, <2>2, <2>3
<1>28. CASE \E n \in Node : EndRebuild(n)
  <2> PICK n \in Node : EndRebuild(n)
    BY <1>28
  <2>1. ShardTypeOK'
    BY FreshShardIsShard DEF EndRebuild, ShardTypeOK
  <2>2. BoundTypeOK'
    BY DEF EndRebuild, BoundTypeOK
  <2>3. CoordTypeOK' /\ WorkerTypeOK' /\ LinkTypeOK' /\ FlagsTypeOK'
    BY DEF EndRebuild, CoordTypeOK, WorkerTypeOK, LinkTypeOK, FlagsTypeOK
  <2> QED
    BY <2>1, <2>2, <2>3
<1>29. CASE UNCHANGED vars
  BY <1>29 DEF vars, CoordTypeOK, WorkerTypeOK, ShardTypeOK, BoundTypeOK,
       LinkTypeOK, FlagsTypeOK
<1> QED
  BY <1>1, <1>2, <1>3, <1>4, <1>5, <1>6, <1>7, <1>8, <1>9, <1>10, <1>11,
     <1>12, <1>13, <1>14, <1>15, <1>16, <1>17, <1>18, <1>19, <1>20, <1>21,
     <1>22, <1>23, <1>24, <1>25, <1>26, <1>27, <1>28, <1>29 DEF Next,
     Coordinator, Worker, Deliver, User, Environment

\* Every variable keeps its type; in particular no position is computed past
\* the cache and no shard is lost while a forward() holds it.
THEOREM TypeCorrect == Spec => []TypeOK
  BY InitTypeOK, StepTypeOK, PTL DEF Spec
-----------------------------------------------------------------------------
(* The inductive invariant behind AnswersTheirStep *)

InFlight == SeqRange(toWorker) \cup SeqRange(queue) \cup SeqRange(toCoord)
              \cup {job}

\* A frame of this page carries an id already handed out; the id of the step
\* in progress is on no frame before that step is sent, and afterwards only on
\* frames of that step.
Settled(f) ==
  /\ f.run <= run
  /\ f.run > pageRun =>
       /\ f.id < nextId
       /\ pc \in {"forward", "sending"} => f.id # reqId
       /\ pc = "await" /\ f.id = reqId => f.run = run /\ f.pos = pos

FlightInv == \A f \in InFlight : Settled(f)

MailInv ==
  mail # NoFrame =>
    /\ pc \in {"sending", "await"}
    /\ mail.run > pageRun => mail.run = run /\ mail.pos = pos

\* Enough ids are left for the rest of the run: the counter does not wrap.
IdsLeft ==
  /\ pageRun <= run
  /\ pc # "idle" => reqId < nextId
  /\ pc \in {"reset", "top"} => nextId + MaxTokens < IdSpace + pos
  /\ pc \in {"forward", "sending", "await"} =>
       nextId + MaxTokens < IdSpace + pos + 1

IdInv == TypeOK /\ OneStepWaiting /\ FlightInv /\ MailInv /\ IdsLeft

LEMMA RangeOfSequence ==
  ASSUME NEW S, NEW s \in Seq(S)
  PROVE  /\ SeqRange(s) \subseteq S
         /\ \A e \in S : SeqRange(Append(s, e)) = SeqRange(s) \cup {e}
         /\ s # <<>> => /\ Head(s) \in SeqRange(s)
                        /\ SeqRange(Tail(s)) \subseteq SeqRange(s)
         /\ SeqRange(<<>>) = {}
<1>1. SeqRange(s) \subseteq S
  BY DEF SeqRange
<1>2. ASSUME NEW e \in S
      PROVE  SeqRange(Append(s, e)) = SeqRange(s) \cup {e}
  <2>1. /\ DOMAIN Append(s, e) = 1 .. Len(s) + 1
        /\ DOMAIN s = 1 .. Len(s) /\ Len(s) \in Nat
        /\ \A i \in 1 .. Len(s) : Append(s, e)[i] = s[i]
        /\ Append(s, e)[Len(s) + 1] = e
    OBVIOUS
  <2>2. 1 .. Len(s) + 1 = (1 .. Len(s)) \cup {Len(s) + 1}
    BY <2>1
  <2> QED
    BY <2>1, <2>2 DEF SeqRange
<1>3. s # <<>> => /\ Head(s) \in SeqRange(s)
                  /\ SeqRange(Tail(s)) \subseteq SeqRange(s)
  BY DEF SeqRange
<1>4. SeqRange(<<>>) = {}
  BY DEF SeqRange
<1> QED
  BY <1>1, <1>2, <1>3, <1>4

LEMMA InFlightAreFrames == TypeOK => InFlight \subseteq Frame
  BY RangeOfSequence DEF TypeOK, WorkerTypeOK, LinkTypeOK, InFlight

\* Within a run the counter just counts.
LEMMA NextIdCounts ==
  ASSUME nextId \in Ids, nextId + 1 < IdSpace
  PROVE  NextId = nextId + 1
  BY BoundsAssumption DEF NextId, Ids

LEMMA BeginStepCounts ==
  ASSUME IdInv, BeginStep
  PROVE  nextId + 1 < IdSpace /\ nextId' = nextId + 1
<1>1. pc = "top" /\ pos # MaxTokens /\ nextId' = NextId
  BY DEF BeginStep, AllDone
<1>2. nextId + MaxTokens < IdSpace + pos
  BY <1>1 DEF IdInv, IdsLeft
<1>3. nextId \in Ids /\ pos \in 0 .. MaxTokens
  BY DEF IdInv, TypeOK, CoordTypeOK
<1>4. nextId + 1 < IdSpace
  BY <1>1, <1>2, <1>3, BoundsAssumption DEF Ids
<1> QED
  BY <1>1, <1>3, <1>4, NextIdCounts

LEMMA GenerateCounts ==
  ASSUME IdInv, Generate
  PROVE  /\ nextId + MaxTokens + 1 < IdSpace
         /\ nextId' = nextId + 1
<1>1. nextId + MaxTokens + 1 < IdSpace /\ nextId' = NextId
  BY DEF Generate
<1>2. nextId \in Ids /\ nextId \in Nat
  BY DEF IdInv, TypeOK, CoordTypeOK, Ids
<1>3. nextId + 1 < IdSpace
  BY <1>1, <1>2, BoundsAssumption
<1> QED
  BY <1>1, <1>2, <1>3, NextIdCounts

LEMMA InitIdInv == Init => IdInv
<1> SUFFICES ASSUME Init PROVE IdInv
  OBVIOUS
<1>1. TypeOK
  BY InitTypeOK
<1>2. OneStepWaiting /\ MailInv /\ IdsLeft
  BY DEF Init, OneStepWaiting, MailInv, IdsLeft
<1>3. InFlight = {NoFrame}
  BY DEF Init, InFlight, SeqRange
<1>4. FlightInv
  BY <1>3 DEF FlightInv, Settled, NoFrame, Init
<1> QED
  BY <1>1, <1>2, <1>4 DEF IdInv

\* The ids that are left: each step takes one, and a run starts only if it
\* finds enough of them.
LEMMA StepIdsLeft == IdInv /\ [Next]_vars => IdsLeft'
<1> SUFFICES ASSUME IdInv, [Next]_vars PROVE IdsLeft'
  OBVIOUS
<1> USE BoundsAssumption
    DEF IdInv, TypeOK, CoordTypeOK, BoundTypeOK, Ids, Runs,
        coordVars, workerVars, shardVars, boundVars, linkVars, chanVars
<1>1. CASE Generate
  <2>1. nextId + MaxTokens + 1 < IdSpace /\ nextId' = nextId + 1
    BY <1>1, GenerateCounts
  <2> QED
    <3>1. /\ pc' = "reset" /\ run' = run + 1 /\ pos' = 0
          /\ reqId' = nextId /\ pageRun' = pageRun
      BY <1>1 DEF Generate
    <3>2. pageRun <= run /\ run \in Nat /\ pageRun \in Nat /\ nextId \in Nat
      BY DEF IdsLeft
    <3> QED
      BY <2>1, <3>1, <3>2 DEF IdsLeft
<1>2. CASE BeginStep
  <2>2. nextId' = nextId + 1
    BY <1>2, BeginStepCounts
  <2> QED
    BY <1>2, <2>2 DEF BeginStep, Finish, AllDone, IdsLeft
<1>3. CASE Accept
  <2>1. /\ pc = "await"
        /\ \/ pc' = "idle" /\ pos' = pos
           \/ pc' = "top" /\ pos' = pos + 1
        /\ UNCHANGED <<run, pageRun, reqId, nextId>>
    BY <1>3 DEF Accept, Finish
  <2> QED
    BY <2>1 DEF IdsLeft
<1>4. CASE Reload
  BY <1>4 DEF Reload, IdsLeft
<1>5. CASE SendReset \/ SendActivation \/ SendFails \/ LoopEnds
  BY <1>5
  DEF SendReset, SendActivation, SendFrame, SendFails, LoopEnds, Finish,
      IdsLeft
<1>6. CASE Park \/ StageZeroFails \/ Cancelled \/ Timeout \/ Stop
  BY <1>6 DEF Park, StageZeroFails, Cancelled, Timeout, Stop, Finish, IdsLeft
<1>7. CASE Worker
  BY <1>7
  DEF Worker, QueueEmpty, Pop, Compute, ComputeFails, Answer, AnswerFails,
      IdsLeft
<1>8. CASE Deliver
  BY <1>8
  DEF Deliver, DeliverToken, DeliverError, DeliverReset, DeliverActivation,
      IdsLeft
<1>9. CASE \/ Connect \/ CloseCoord \/ CloseWorker
           \/ \E n \in Node : BeginRebuild(n) \/ EndRebuild(n)
  BY <1>9
  DEF Connect, CloseCoord, CloseWorker, BeginRebuild, EndRebuild, IdsLeft
<1>10. CASE UNCHANGED vars
  BY <1>10 DEF vars, IdsLeft
<1> QED
  BY <1>1, <1>2, <1>3, <1>4, <1>5, <1>6, <1>7, <1>8, <1>9, <1>10
  DEF Next, Coordinator, User, Environment

\* A frame that is settled stays so, wherever it is.
LEMMA StepSettled ==
  ASSUME IdInv, [Next]_vars, NEW f \in Frame, Settled(f)
  PROVE  Settled(f)'
<1> USE BoundsAssumption
    DEF IdInv, TypeOK, CoordTypeOK, BoundTypeOK, Ids, Runs, Frame,
        coordVars, workerVars, shardVars, boundVars, linkVars, chanVars
<1>1. CASE Generate
  <2>1. nextId + MaxTokens + 1 < IdSpace /\ nextId' = nextId + 1
    BY <1>1, GenerateCounts
  <2> QED
    BY <1>1, <2>1 DEF Generate, Settled
<1>2. CASE BeginStep
  <2>1. nextId' = nextId + 1
    BY <1>2, BeginStepCounts
  <2> QED
    BY <1>2, <2>1 DEF BeginStep, Finish, Settled
<1>3. CASE Accept
  BY <1>3 DEF Accept, Finish, Settled
<1>4. CASE Reload
  BY <1>4 DEF Reload, Settled
<1>5. CASE SendReset \/ SendActivation \/ SendFails \/ LoopEnds
  BY <1>5
  DEF SendReset, SendActivation, SendFrame, SendFails, LoopEnds, Finish,
      Settled
<1>6. CASE Park \/ StageZeroFails \/ Cancelled \/ Timeout \/ Stop
  BY <1>6 DEF Park, StageZeroFails, Cancelled, Timeout, Stop, Finish, Settled
<1>7. CASE Worker
  BY <1>7
  DEF Worker, QueueEmpty, Pop, Compute, ComputeFails, Answer, AnswerFails,
      Settled
<1>8. CASE Deliver
  BY <1>8
  DEF Deliver, DeliverToken, DeliverError, DeliverReset, DeliverActivation,
      Settled
<1>9. CASE \/ Connect \/ CloseCoord \/ CloseWorker
           \/ \E n \in Node : BeginRebuild(n) \/ EndRebuild(n)
  BY <1>9
  DEF Connect, CloseCoord, CloseWorker, BeginRebuild, EndRebuild, Settled
<1>10. CASE UNCHANGED vars
  BY <1>10 DEF vars, Settled
<1> QED
  BY <1>1, <1>2, <1>3, <1>4, <1>5, <1>6, <1>7, <1>8, <1>9, <1>10
  DEF Next, Coordinator, User, Environment

\* The frames in flight after a step were in flight before it, but for the one
\* node 0 sends and those the worker makes from its job, which keep its id and
\* its step.
LEMMA StepInFlight ==
  ASSUME IdInv, [Next]_vars, NEW f \in InFlight'
  PROVE  \/ f \in InFlight
         \/ SendReset /\ f = FrameOut("reset")
         \/ SendActivation /\ f = FrameOut("activation")
         \/ /\ f.id = job.id /\ f.run = job.run /\ f.pos = job.pos
            /\ \/ Compute /\ f = job'
               \/ Answer /\ f.clean = job.clean
         \/ f = NoFrame
<1> USE DEF IdInv, TypeOK, WorkerTypeOK, LinkTypeOK,
        coordVars, workerVars, shardVars, boundVars, linkVars, chanVars
<1>1. CASE SendReset
  <2>1. SeqRange(toWorker') = SeqRange(toWorker) \cup {FrameOut("reset")}
    BY <1>1, RangeOfSequence, FrameOutIsFrame
    DEF SendReset, SendFrame, CoordTypeOK
  <2> QED
    BY <1>1, <2>1 DEF SendReset, SendFrame, InFlight
<1>2. CASE SendActivation
  <2>1. SeqRange(toWorker') = SeqRange(toWorker) \cup {FrameOut("activation")}
    BY <1>2, RangeOfSequence, FrameOutIsFrame
    DEF SendActivation, SendFrame, CoordTypeOK
  <2> QED
    BY <1>2, <2>1 DEF SendActivation, SendFrame, InFlight
<1>3. CASE DeliverToken \/ DeliverError
  <2>1. SeqRange(toCoord') \subseteq SeqRange(toCoord)
    BY <1>3, RangeOfSequence DEF DeliverToken, DeliverError
  <2> QED
    BY <1>3, <2>1 DEF DeliverToken, DeliverError, InFlight
<1>4. CASE DeliverReset
  <2>1. SeqRange(toWorker') \subseteq SeqRange(toWorker)
    BY <1>4, RangeOfSequence DEF DeliverReset
  <2> QED
    BY <1>4, <2>1 DEF DeliverReset, InFlight
<1>5. CASE DeliverActivation
  <2>1. /\ Head(toWorker) \in SeqRange(toWorker)
        /\ SeqRange(toWorker') \subseteq SeqRange(toWorker)
        /\ Head(toWorker) \in Frame
    BY <1>5, RangeOfSequence DEF DeliverActivation
  <2>2. SeqRange(queue') = SeqRange(queue) \cup {Head(toWorker)}
    BY <1>5, <2>1, RangeOfSequence DEF DeliverActivation, Queued
  <2> QED
    BY <1>5, <2>1, <2>2 DEF DeliverActivation, InFlight
<1>6. CASE Pop
  <2>1. /\ Head(queue) \in SeqRange(queue)
        /\ SeqRange(queue') \subseteq SeqRange(queue)
    BY <1>6, RangeOfSequence DEF Pop
  <2> QED
    BY <1>6, <2>1 DEF Pop, InFlight
<1>7. CASE Compute
  <2>1. job'.id = job.id /\ job'.run = job.run /\ job'.pos = job.pos
    BY <1>7 DEF Compute, Frame
  <2> QED
    BY <1>7, <2>1 DEF Compute, InFlight
<1>8. CASE Answer
  <2> DEFINE answer == [job EXCEPT !.op = wpc]
  <2>1. /\ answer \in Frame
        /\ answer.id = job.id /\ answer.run = job.run /\ answer.pos = job.pos
        /\ answer.clean = job.clean
    BY <1>8 DEF Answer, Frame
  <2>2. toCoord' = Append(toCoord, answer)
    BY <1>8 DEF Answer
  <2> HIDE DEF answer
  <2>3. SeqRange(toCoord') = SeqRange(toCoord) \cup {answer}
    BY <2>1, <2>2, RangeOfSequence
  <2> QED
    BY <1>8, <2>1, <2>3 DEF Answer, InFlight
<1>9. CASE AnswerFails \/ ComputeFails \/ QueueEmpty
  BY <1>9 DEF AnswerFails, ComputeFails, QueueEmpty, InFlight
<1>10. CASE Connect \/ CloseCoord \/ CloseWorker \/ Reload
  BY <1>10, RangeOfSequence
  DEF Connect, CloseCoord, CloseWorker, Reload, InFlight
<1>11. CASE \/ Generate \/ Stop \/ SendFails \/ LoopEnds \/ BeginStep
            \/ Park \/ StageZeroFails \/ Timeout \/ Cancelled \/ Accept
  BY <1>11
  DEF Generate, Stop, SendFails, LoopEnds, BeginStep, Park, StageZeroFails,
      Timeout, Cancelled, Accept, InFlight
<1>12. CASE \E n \in Node : BeginRebuild(n) \/ EndRebuild(n)
  BY <1>12 DEF BeginRebuild, EndRebuild, InFlight
<1>13. CASE UNCHANGED vars
  BY <1>13 DEF vars, InFlight
<1> QED
  BY <1>1, <1>2, <1>3, <1>4, <1>5, <1>6, <1>7, <1>8, <1>9, <1>10, <1>11,
     <1>12, <1>13
  DEF Next, Coordinator, Worker, Deliver, User, Environment

LEMMA StepFlightInv == IdInv /\ [Next]_vars => FlightInv'
<1> SUFFICES ASSUME IdInv, [Next]_vars, NEW f \in InFlight'
             PROVE  Settled(f)'
  BY DEF FlightInv
<1> USE BoundsAssumption DEF IdInv
<1>1. CASE f \in InFlight
  BY <1>1, InFlightAreFrames, StepSettled DEF FlightInv
<1>2. CASE SendReset /\ f = FrameOut("reset")
  BY <1>2
  DEF SendReset, SendFrame, FrameOut, Settled, IdsLeft, TypeOK, CoordTypeOK,
      Runs, boundVars
<1>3. CASE SendActivation /\ f = FrameOut("activation")
  BY <1>3
  DEF SendActivation, SendFrame, FrameOut, Settled, IdsLeft, TypeOK,
      CoordTypeOK, Runs, boundVars
<1>4. CASE f.id = job.id /\ f.run = job.run /\ f.pos = job.pos
  <2>1. Settled(job) /\ job \in Frame
    BY InFlightAreFrames DEF FlightInv, InFlight
  <2>2. \A g \in Frame : Settled(g) => Settled(g)'
    BY StepSettled
  <2>3. PICK g \in Frame : g = job
    BY <2>1
  <2>4. Settled(g)'
    BY <2>1, <2>2, <2>3
  <2> QED
    BY <1>4, <2>3, <2>4 DEF Settled
<1>5. CASE f = NoFrame
  <2>1. TypeOK'
    BY StepTypeOK
  <2> QED
    BY <1>5, <2>1 DEF Settled, NoFrame, TypeOK, CoordTypeOK, BoundTypeOK, Runs
<1> QED
  BY <1>1, <1>2, <1>3, <1>4, <1>5, StepInFlight

\* What waits, and what has arrived, belongs to the step in progress.
LEMMA StepWaiting == IdInv /\ [Next]_vars => OneStepWaiting' /\ MailInv'
<1> SUFFICES ASSUME IdInv, [Next]_vars PROVE OneStepWaiting' /\ MailInv'
  OBVIOUS
<1> USE DEF IdInv, OneStepWaiting, MailInv,
        coordVars, workerVars, shardVars, boundVars, linkVars, chanVars
<1>1. CASE DeliverToken
  <2> DEFINE f == Head(toCoord)
  <2>1. f \in Frame /\ Settled(f)
    BY <1>1, RangeOfSequence, InFlightAreFrames
    DEF DeliverToken, TypeOK, LinkTypeOK, FlightInv, InFlight
  <2>2. CASE f.id \in pending
    <3>1. f.id = reqId /\ pc \in {"sending", "await"} /\ pending' = {}
      BY <1>1, <2>2 DEF DeliverToken
    <3>2. f.run > pageRun => f.run = run /\ f.pos = pos
      BY <2>1, <3>1 DEF Settled
    <3>3. mail' = f
      BY <1>1, <2>2 DEF DeliverToken, Matches
    <3> QED
      BY <1>1, <3>1, <3>2, <3>3 DEF DeliverToken
  <2>3. CASE f.id \notin pending
    BY <1>1, <2>3 DEF DeliverToken, Matches
  <2> QED
    BY <2>2, <2>3
<1>2. CASE Generate
  BY <1>2 DEF Generate, generating
<1>3. CASE Stop \/ SendReset \/ SendActivation \/ Timeout \/ DeliverError
  BY <1>3
  DEF Stop, SendReset, SendActivation, SendFrame, Timeout, TimerFires,
      DeliverError
<1>4. CASE SendFails \/ LoopEnds \/ StageZeroFails \/ Cancelled
  BY <1>4 DEF SendFails, LoopEnds, StageZeroFails, Cancelled, Finish
<1>5. CASE BeginStep \/ Park
  BY <1>5 DEF BeginStep, Park, Finish
<1>6. CASE Accept
  BY <1>6 DEF Accept, Finish
<1>7. CASE Worker \/ DeliverReset \/ DeliverActivation
  BY <1>7
  DEF Worker, QueueEmpty, Pop, Compute, ComputeFails, Answer, AnswerFails,
      DeliverReset, DeliverActivation
<1>8. CASE Connect \/ CloseCoord \/ CloseWorker \/ Reload
  BY <1>8 DEF Connect, CloseCoord, CloseWorker, Reload
<1>9. CASE \E n \in Node : BeginRebuild(n) \/ EndRebuild(n)
  BY <1>9 DEF BeginRebuild, EndRebuild
<1>10. CASE UNCHANGED vars
  BY <1>10 DEF vars
<1> QED
  BY <1>1, <1>2, <1>3, <1>4, <1>5, <1>6, <1>7, <1>8, <1>9, <1>10
  DEF Next, Coordinator, Deliver, User, Environment

LEMMA IdInvariant == Spec => []IdInv
<1>1. IdInv /\ [Next]_vars => IdInv'
  BY StepTypeOK, StepIdsLeft, StepFlightInv, StepWaiting DEF IdInv
<1> QED
  BY InitIdInv, <1>1, PTL DEF Spec

\* A timer, an error frame or a closing link cancels the step in progress and
\* no other: nothing else is ever parked.
THEOREM OneStepWaits == Spec => []OneStepWaiting
<1>1. IdInv => OneStepWaiting
  BY DEF IdInv
<1> QED
  BY <1>1, IdInvariant, PTL

\* Replies are matched to the step that asked, for as long as the page that
\* asked lives, whatever timed out, stopped, failed or was reconnected before.
THEOREM RepliesAnswerTheirStep == Spec => []AnswersTheirStep
<1>1. IdInv => AnswersTheirStep
  <2> SUFFICES ASSUME IdInv,
                      NEW f \in {g \in SeqRange(toCoord) : g.id \in pending}
                                  \cup ({mail} \ {NoFrame}),
                      f.run > pageRun
               PROVE  f.run = run /\ f.pos = pos
    BY DEF AnswersTheirStep
  <2>1. CASE f \in {mail} \ {NoFrame}
    BY <2>1 DEF IdInv, MailInv
  <2>2. CASE f \in SeqRange(toCoord) /\ f.id \in pending
    <3>1. Settled(f)
      BY <2>2 DEF IdInv, FlightInv, InFlight
    <3>2. f.id = reqId /\ pc \in {"sending", "await"}
      BY <2>2 DEF IdInv, OneStepWaiting
    <3> QED
      BY <3>1, <3>2 DEF Settled
  <2> QED
    BY <2>1, <2>2
<1> QED
  BY <1>1, IdInvariant, PTL

-----------------------------------------------------------------------------
(* What the worker's frames are computed over: they stay in order, and so  *)
(* each token of a run is computed over the rows of that run, and the      *)
(* tokens shown are those TokenStream promises, as long as no page is      *)
(* reloaded and no shard rebuilt.                                          *)

(* Order *)

IsStep(f) == f.op = "activation"

\* The steps in s are in order.
InOrder(s) ==
  \A i, j \in DOMAIN s :
    i < j /\ IsStep(s[i]) /\ IsStep(s[j]) => Earlier(s[i], s[j])

AllBefore(S, T) ==
  \A f \in S, g \in T : IsStep(f) /\ IsStep(g) => Earlier(f, g)

\* f is not of a step still to be sent.
Issued(f) ==
  /\ f.run <= run
  /\ f.run = run /\ generating =>
       f.pos < pos \/ (pc = "await" /\ f.pos = pos)

PathInOrder ==
  /\ InOrder(queue) /\ InOrder(toWorker)
  /\ AllBefore(SeqRange(queue), SeqRange(toWorker))
  /\ AllBefore({job}, SeqRange(queue) \cup SeqRange(toWorker))

\* What is where.
PathSound ==
  /\ generating => run # 0
  /\ job.op \in {"none", "activation"}
  /\ wpc \in {"forward", "token", "error"} => IsStep(job)
  /\ busy <=> wpc # "none"
  /\ \A f \in SeqRange(queue) : IsStep(f)
  /\ mail = NoFrame \/ mail.op = "token"
  /\ pc = "reset" => pos = 0

FramesIssued ==
  \A f \in InFlight \cup {mail} : f.op # "reset" => Issued(f)

OrderInv == IdInv /\ PathInOrder /\ PathSound /\ FramesIssued

-----------------------------------------------------------------------------
(* Context *)

\* No shard has been rebuilt and no page reloaded.
Undisturbed == rebuilds = 0 /\ reloads = 0

CoordShard == IF pc = "forward" THEN taken[0] ELSE cell[0]
WorkerShard == IF wpc = "forward" THEN taken[1] ELSE cell[1]

\* The steps the worker has still to compute.
Unrun ==
  {f \in SeqRange(queue) \cup SeqRange(toWorker)
           \cup (IF wpc = "forward" THEN {job} ELSE {}) : IsStep(f)}

\* Frames that answer a step, or are about to.
Answers ==
  {f \in SeqRange(toCoord) \cup {mail} : f.op = "token"}
    \cup (IF wpc = "token" THEN {job} ELSE {})

\* The worker has computed the first n positions of run r.
Has(n, r) == \A q \in Pos : q < n => WorkerShard.rows[q] = r

AtHome ==
  /\ pageRun = 0
  /\ \A n \in Node : ~rebuilding[n]
  /\ pc # "forward" => cell[0] # NoShard
  /\ wpc # "forward" => cell[1] # NoShard

FramesClean ==
  \A f \in InFlight \cup {mail} : f.clean /\ (f # NoFrame => f.run # 0)

CoordRows ==
  /\ generating =>
       \A q \in Pos : q < pos => CoordShard.rows[q] = run
  /\ pc \in {"sending", "await"} => CoordShard.rows[pos] = run
  /\ pc = "sending" => hidden

\* A step past the first is computed alone: the steps before it are done.
StepsAlone ==
  \A f \in Unrun : f.pos # 0 =>
    Has(f.pos, f.run) /\ \A g \in Unrun : g = f \/ Earlier(f, g)

\* So it is with the step that node 0 is about to send,
StepReady ==
  pc \in {"top", "forward", "sending"} /\ pos # 0 => Unrun = {} /\ Has(pos, run)

\* once the one before has been answered.
AnswerReady ==
  pc = "await" /\ (\E f \in Answers : f.run = run /\ f.pos = pos) =>
    Unrun = {} /\ Has(pos + 1, run)

TranscriptSound ==
  /\ ContextIsThisRun
  /\ generating => Len(transcript) = pos

Context ==
  /\ AtHome /\ FramesClean /\ CoordRows
  /\ StepsAlone /\ StepReady /\ AnswerReady /\ TranscriptSound

ContextInv == OrderInv /\ (Undisturbed => Context)

-----------------------------------------------------------------------------
(* Sequences of frames *)

LEMMA InOrderAppend ==
  ASSUME NEW s \in Seq(Frame), NEW f \in Frame, InOrder(s),
         AllBefore(SeqRange(s), {f})
  PROVE  InOrder(Append(s, f))
<1> DEFINE t == Append(s, f)
           n == Len(s)
<1>1. n \in Nat /\ DOMAIN s = 1 .. n /\ DOMAIN t = 1 .. n + 1
  OBVIOUS
<1>2. t[n + 1] = f /\ \A i \in 1 .. n : t[i] = s[i]
  OBVIOUS
<1> HIDE DEF n, t
<1>3. ASSUME NEW i \in DOMAIN t, NEW j \in DOMAIN t, i < j,
             IsStep(t[i]), IsStep(t[j])
      PROVE  Earlier(t[i], t[j])
  <2>1. i \in 1 .. n /\ t[i] = s[i]
    BY <1>1, <1>2, <1>3
  <2>2. CASE j = n + 1
    <3>1. s[i] \in SeqRange(s)
      BY <1>1, <2>1 DEF SeqRange
    <3> QED
      BY <1>2, <1>3, <2>1, <2>2, <3>1 DEF AllBefore
  <2>3. CASE j # n + 1
    BY <1>1, <1>2, <1>3, <2>1, <2>3 DEF InOrder
  <2> QED
    BY <2>2, <2>3
<1> QED
  BY <1>3 DEF InOrder, t

LEMMA InOrderTail ==
  ASSUME NEW s \in Seq(Frame), s # <<>>, InOrder(s)
  PROVE  /\ InOrder(Tail(s)) /\ AllBefore({Head(s)}, SeqRange(Tail(s)))
         /\ Head(s) \in Frame /\ Tail(s) \in Seq(Frame)
         /\ SeqRange(s) = {Head(s)} \cup SeqRange(Tail(s))
<1> DEFINE t == Tail(s)
           n == Len(s)
<1>1. n \in Nat /\ n # 0 /\ DOMAIN s = 1 .. n /\ DOMAIN t = 1 .. n - 1
      /\ Head(s) = s[1]
  OBVIOUS
<1>2. \A i \in 1 .. n - 1 : t[i] = s[i + 1]
  OBVIOUS
<1>3. s[1] \in Frame /\ t \in Seq(Frame)
  OBVIOUS
<1> HIDE DEF n, t
<1>4. ASSUME NEW i \in DOMAIN t, NEW j \in DOMAIN t, i < j,
             IsStep(t[i]), IsStep(t[j])
      PROVE  Earlier(t[i], t[j])
  <2>1. /\ i + 1 \in DOMAIN s /\ j + 1 \in DOMAIN s /\ i + 1 < j + 1
        /\ t[i] = s[i + 1] /\ t[j] = s[j + 1]
    BY <1>1, <1>2, <1>4
  <2> QED
    BY <1>4, <2>1 DEF InOrder
<1>5. ASSUME NEW g \in SeqRange(t), IsStep(s[1]), IsStep(g)
      PROVE  Earlier(s[1], g)
  <2>1. PICK i \in DOMAIN t : g = t[i]
    BY DEF SeqRange
  <2>2. i + 1 \in DOMAIN s /\ 1 \in DOMAIN s /\ 1 < i + 1 /\ g = s[i + 1]
    BY <1>1, <1>2, <2>1
  <2> QED
    BY <1>5, <2>2 DEF InOrder
<1>6. SeqRange(s) = {s[1]} \cup SeqRange(t)
  <2>1. ASSUME NEW g \in SeqRange(s)
        PROVE  g \in {s[1]} \cup SeqRange(t)
    <3>1. PICK i \in DOMAIN s : g = s[i]
      BY DEF SeqRange
    <3>2. CASE i # 1
      <4>1. i - 1 \in DOMAIN t /\ t[i - 1] = s[i]
        BY <1>1, <1>2, <3>1, <3>2
      <4> QED
        BY <3>1, <4>1 DEF SeqRange
    <3> QED
      BY <3>1, <3>2
  <2>2. ASSUME NEW g \in SeqRange(t)
        PROVE  g \in SeqRange(s)
    <3>1. PICK i \in DOMAIN t : g = t[i]
      BY DEF SeqRange
    <3>2. i + 1 \in DOMAIN s /\ t[i] = s[i + 1]
      BY <1>1, <1>2, <3>1
    <3> QED
      BY <3>1, <3>2 DEF SeqRange
  <2>3. s[1] \in SeqRange(s)
    BY <1>1 DEF SeqRange
  <2> QED
    BY <2>1, <2>2, <2>3
<1> QED
  BY <1>1, <1>3, <1>4, <1>5, <1>6 DEF InOrder, AllBefore, t

LEMMA InOrderJoined ==
  ASSUME NEW s \in Seq(Frame), NEW t \in Seq(Frame), InOrder(s), InOrder(t),
         AllBefore(SeqRange(s), SeqRange(t))
  PROVE  /\ s \o t \in Seq(Frame) /\ InOrder(s \o t)
         /\ SeqRange(s \o t) = SeqRange(s) \cup SeqRange(t)
<1> DEFINE u == s \o t
           n == Len(s)
           m == Len(t)
<1>1. n \in Nat /\ m \in Nat /\ DOMAIN s = 1 .. n /\ DOMAIN t = 1 .. m
      /\ DOMAIN u = 1 .. n + m
  OBVIOUS
<1>2. \A i \in 1 .. n : u[i] = s[i]
  OBVIOUS
<1>3. \A j \in 1 .. m : u[n + j] = t[j]
  OBVIOUS
<1>4. u \in Seq(Frame)
  OBVIOUS
<1> HIDE DEF n, m, u
<1>5. \A i \in DOMAIN u : \/ i \in 1 .. n /\ u[i] = s[i]
                          \/ i - n \in 1 .. m /\ u[i] = t[i - n]
  <2> TAKE i \in DOMAIN u
  <2>1. i \in 1 .. n \/ i - n \in 1 .. m
    BY <1>1
  <2>2. i - n \in 1 .. m => u[n + (i - n)] = t[i - n] /\ n + (i - n) = i
    BY <1>1, <1>3
  <2> QED
    BY <1>2, <2>1, <2>2
<1>6. ASSUME NEW i \in DOMAIN u, NEW j \in DOMAIN u, i < j,
             IsStep(u[i]), IsStep(u[j])
      PROVE  Earlier(u[i], u[j])
  <2>1. CASE j \in 1 .. n /\ u[j] = s[j]
    <3>1. i \in 1 .. n /\ u[i] = s[i]
      BY <1>1, <1>2, <1>6, <2>1
    <3> QED
      BY <1>1, <1>6, <2>1, <3>1 DEF InOrder
  <2>2. CASE j - n \in 1 .. m /\ u[j] = t[j - n]
    <3>1. CASE i \in 1 .. n /\ u[i] = s[i]
      <4>1. u[i] \in SeqRange(s) /\ u[j] \in SeqRange(t)
        BY <1>1, <2>2, <3>1 DEF SeqRange
      <4> QED
        BY <1>6, <4>1 DEF AllBefore
    <3>2. CASE i - n \in 1 .. m /\ u[i] = t[i - n]
      <4>1. i - n < j - n
        BY <1>1, <1>6
      <4> QED
        BY <1>1, <1>6, <2>2, <3>2, <4>1 DEF InOrder
    <3> QED
      BY <1>5, <3>1, <3>2
  <2> QED
    BY <1>5, <2>1, <2>2
<1>7. SeqRange(u) = SeqRange(s) \cup SeqRange(t)
  <2>1. SeqRange(u) \subseteq SeqRange(s) \cup SeqRange(t)
    BY <1>1, <1>5 DEF SeqRange
  <2>2. SeqRange(s) \subseteq SeqRange(u)
    <3>1. 1 .. n \subseteq DOMAIN u
      BY <1>1
    <3> QED
      BY <1>1, <1>2, <3>1 DEF SeqRange
  <2>3. SeqRange(t) \subseteq SeqRange(u)
    <3>1. \A j \in 1 .. m : n + j \in DOMAIN u
      BY <1>1
    <3> QED
      BY <1>1, <1>3, <3>1 DEF SeqRange
  <2> QED
    BY <2>1, <2>2, <2>3
<1> QED
  BY <1>4, <1>6, <1>7 DEF InOrder, u

-----------------------------------------------------------------------------
(* The frames keep their order *)

\* Of the steps in the worker's hands, before and after.
LEMMA FrameTypes ==
  ASSUME TypeOK
  PROVE  /\ queue \in Seq(Frame) /\ toWorker \in Seq(Frame) /\ toCoord \in Seq(Frame)
         /\ job \in Frame /\ mail \in Frame
         /\ InFlight \subseteq Frame /\ run \in Nat /\ pos \in Nat
         /\ \A f \in Frame : f.run \in Nat /\ f.pos \in Nat
<1>1. InFlight \subseteq Frame
  BY InFlightAreFrames
<1>2. run \in Nat /\ pos \in Nat
  BY BoundsAssumption DEF TypeOK, CoordTypeOK, Runs
<1>3. \A f \in Frame : f.run \in Nat /\ f.pos \in Nat
  BY BoundsAssumption DEF Frame, Runs, Pos
<1> QED
  BY <1>1, <1>2, <1>3 DEF TypeOK, CoordTypeOK, WorkerTypeOK, LinkTypeOK

LEMMA NoFrameFields ==
  /\ NoFrame.op = "none" /\ NoFrame.run = 0 /\ NoFrame.pos = 0 /\ NoFrame.clean
  /\ ~IsStep(NoFrame)
  BY DEF NoFrame, IsStep

LEMMA InitOrderInv == Init => OrderInv
<1> SUFFICES ASSUME Init PROVE OrderInv
  OBVIOUS
<1>1. IdInv
  BY InitIdInv
<1>2. queue = <<>> /\ toWorker = <<>> /\ toCoord = <<>> /\ job = NoFrame
      /\ mail = NoFrame /\ pc = "idle" /\ run = 0 /\ wpc = "none"
  BY DEF Init
<1>3. SeqRange(<<>>) = {} /\ InOrder(<<>>)
  BY DEF SeqRange, InOrder
<1>4. PathInOrder
  BY <1>2, <1>3 DEF PathInOrder, AllBefore
<1>5. PathSound
  BY <1>2, <1>3, NoFrameFields DEF PathSound, generating, Init
<1>6. FramesIssued
  <2>1. InFlight \cup {mail} = {NoFrame}
    BY <1>2, <1>3 DEF InFlight
  <2> QED
    BY <1>2, <2>1, NoFrameFields DEF FramesIssued, Issued, generating
<1> QED
  BY <1>1, <1>4, <1>5, <1>6 DEF OrderInv

\* What was issued stays issued.
LEMMA StepIssued ==
  ASSUME OrderInv, [Next]_vars, NEW f \in Frame, Issued(f)
  PROVE  Issued(f)'
<1>1. f.run \in Nat /\ f.pos \in Nat /\ run \in Nat /\ pos \in Nat
  BY FrameTypes DEF OrderInv, IdInv
<1> USE DEF Issued, generating,
        coordVars, workerVars, shardVars, boundVars, linkVars, chanVars
<1>2. CASE Generate
  BY <1>1, <1>2 DEF Generate
<1>3. CASE BeginStep
  BY <1>1, <1>3 DEF BeginStep, Finish
<1>4. CASE Accept
  BY <1>1, <1>4 DEF Accept, Finish
<1>5. CASE Reload
  BY <1>1, <1>5 DEF Reload
<1>6. CASE SendReset \/ SendActivation \/ SendFails \/ LoopEnds
  BY <1>1, <1>6 DEF SendReset, SendActivation, SendFrame, SendFails, LoopEnds, Finish
<1>7. CASE Park \/ StageZeroFails \/ Cancelled \/ Timeout \/ Stop
  BY <1>1, <1>7 DEF Park, StageZeroFails, Cancelled, Timeout, Stop, Finish
<1>8. CASE Worker
  BY <1>8
  DEF Worker, QueueEmpty, Pop, Compute, ComputeFails, Answer, AnswerFails
<1>9. CASE Deliver
  BY <1>9
  DEF Deliver, DeliverToken, DeliverError, DeliverReset, DeliverActivation
<1>10. CASE \/ Connect \/ CloseCoord \/ CloseWorker
            \/ \E n \in Node : BeginRebuild(n) \/ EndRebuild(n)
  BY <1>10
  DEF Connect, CloseCoord, CloseWorker, BeginRebuild, EndRebuild
<1>11. CASE UNCHANGED vars
  BY <1>11 DEF vars
<1> QED
  BY <1>2, <1>3, <1>4, <1>5, <1>6, <1>7, <1>8, <1>9, <1>10, <1>11
  DEF Next, Coordinator, User, Environment

LEMMA StepPathSound ==
  ASSUME OrderInv, [Next]_vars
  PROVE  PathSound'
<1>1. /\ TypeOK /\ PathSound /\ job \in Frame
      /\ queue \in Seq(Frame) /\ toWorker \in Seq(Frame)
      /\ busy \in BOOLEAN
  BY FrameTypes DEF OrderInv, IdInv, TypeOK, FlagsTypeOK
<1> USE DEF PathSound, generating,
        coordVars, workerVars, shardVars, boundVars, linkVars, chanVars
<1>2. CASE Generate
  <2>1. run' = run + 1 /\ run \in Nat
    BY <1>1, <1>2, FrameTypes DEF Generate
  <2> QED
    BY <1>1, <1>2, <2>1 DEF Generate
<1>3. CASE \/ Stop \/ SendReset \/ SendActivation \/ SendFails \/ LoopEnds
           \/ BeginStep
  BY <1>1, <1>3
  DEF Stop, SendReset, SendActivation, SendFrame, SendFails, LoopEnds,
      BeginStep, Finish
<1>4. CASE Park \/ StageZeroFails \/ Timeout \/ Cancelled \/ Accept
  BY <1>1, <1>4 DEF Park, StageZeroFails, Timeout, Cancelled, Accept, Finish
<1>5. CASE DeliverToken \/ DeliverError \/ DeliverReset
  BY <1>1, <1>5 DEF DeliverToken, DeliverError, DeliverReset
<1>6. CASE DeliverActivation
  <2>1. queue' = Append(queue, Head(toWorker)) /\ IsStep(Head(toWorker))
        /\ Head(toWorker) \in Frame
    BY <1>1, <1>6, InOrderTail DEF DeliverActivation, Queued, IsStep
  <2>2. SeqRange(queue') = SeqRange(queue) \cup {Head(toWorker)}
    BY <1>1, <2>1, RangeOfSequence
  <2>3. wpc' \in {"forward", "token", "error"} => wpc \in {"forward", "token", "error"}
    BY <1>6 DEF DeliverActivation
  <2> QED
    BY <1>1, <1>6, <2>1, <2>2, <2>3 DEF DeliverActivation
<1>7. CASE QueueEmpty \/ ComputeFails
  BY <1>1, <1>7 DEF QueueEmpty, ComputeFails, TaskEnds
<1>8. CASE Pop
  <2>1. /\ Head(queue) \in SeqRange(queue)
        /\ SeqRange(queue') \subseteq SeqRange(queue) /\ job' = Head(queue)
    BY <1>1, <1>8, RangeOfSequence DEF Pop
  <2>2. IsStep(job') /\ \A f \in SeqRange(queue') : IsStep(f)
    BY <1>1, <2>1
  <2> QED
    BY <1>1, <1>8, <2>2 DEF Pop, IsStep
<1>9. CASE Compute
  <2>1. job'.op = job.op
    BY <1>1, <1>9 DEF Compute, Frame
  <2> QED
    BY <1>1, <1>9, <2>1 DEF Compute, IsStep
<1>10. CASE Answer \/ AnswerFails
  BY <1>1, <1>10, NoFrameFields DEF Answer, AnswerFails
<1>11. CASE \/ Connect \/ CloseCoord \/ CloseWorker \/ Reload
            \/ \E n \in Node : BeginRebuild(n) \/ EndRebuild(n)
  BY <1>1, <1>11
  DEF Connect, CloseCoord, CloseWorker, Reload, BeginRebuild, EndRebuild
<1>12. CASE UNCHANGED vars
  BY <1>1, <1>12 DEF vars
<1> QED
  BY <1>2, <1>3, <1>4, <1>5, <1>6, <1>7, <1>8, <1>9, <1>10, <1>11, <1>12
  DEF Next, Coordinator, Worker, Deliver, User, Environment

LEMMA StepMail ==
  ASSUME TypeOK, [Next]_vars
  PROVE  \/ mail' \in {mail, NoFrame}
         \/ DeliverToken /\ mail' = Head(toCoord) /\ mail' \in SeqRange(toCoord)
            /\ Matches(mail'.id)
<1> USE DEF coordVars, workerVars, shardVars, boundVars, linkVars, chanVars
<1>1. CASE DeliverToken
  <2>1. Head(toCoord) \in SeqRange(toCoord)
    BY <1>1, FrameTypes, RangeOfSequence DEF DeliverToken
  <2> QED
    BY <1>1, <2>1 DEF DeliverToken
<1>2. CASE Generate \/ Stop \/ Reload \/ SendReset \/ SendActivation \/ SendFails
  BY <1>2
  DEF Generate, Stop, Reload, SendReset, SendActivation, SendFrame, SendFails, Finish
<1>3. CASE LoopEnds \/ BeginStep \/ Park \/ StageZeroFails \/ Timeout \/ Cancelled
           \/ Accept
  BY <1>3
  DEF LoopEnds, BeginStep, Park, StageZeroFails, Timeout, Cancelled, Accept, Finish
<1>4. CASE Worker \/ DeliverError \/ DeliverReset \/ DeliverActivation
  BY <1>4
  DEF Worker, QueueEmpty, Pop, Compute, ComputeFails, Answer, AnswerFails,
      DeliverError, DeliverReset, DeliverActivation
<1>5. CASE \/ Connect \/ CloseCoord \/ CloseWorker
           \/ \E n \in Node : BeginRebuild(n) \/ EndRebuild(n)
  BY <1>5 DEF Connect, CloseCoord, CloseWorker, BeginRebuild, EndRebuild
<1>6. CASE UNCHANGED vars
  BY <1>6 DEF vars
<1> QED
  BY <1>1, <1>2, <1>3, <1>4, <1>5, <1>6
  DEF Next, Coordinator, Deliver, User, Environment

LEMMA StepFramesIssued ==
  ASSUME OrderInv, [Next]_vars
  PROVE  FramesIssued'
<1>1. IdInv /\ TypeOK /\ PathSound /\ FramesIssued /\ PathSound'
  BY StepPathSound DEF OrderInv, IdInv
<1>2. \A f \in Frame : Issued(f) => Issued(f)'
  BY StepIssued
<1>3. InFlight \cup {mail} \subseteq Frame /\ job \in InFlight
  BY <1>1, FrameTypes DEF InFlight
<1>4. Issued(NoFrame)'
  <2>1. run' \in Nat /\ (generating' => run' # 0)
    BY <1>1, StepTypeOK, BoundsAssumption
       DEF TypeOK, CoordTypeOK, Runs, PathSound
  <2> QED
    BY <2>1, NoFrameFields DEF Issued
<1>5. ASSUME NEW f \in InFlight \cup {mail}, f.op # "reset"
      PROVE  Issued(f)'
  BY <1>1, <1>2, <1>3, <1>5 DEF FramesIssued
<1>6. ASSUME NEW f \in InFlight', f.op # "reset"
      PROVE  Issued(f)'
  <2>1. CASE f \in InFlight
    BY <1>5, <1>6, <2>1
  <2>2. CASE SendReset /\ f = FrameOut("reset")
    BY <1>6, <2>2 DEF FrameOut
  <2>3. CASE SendActivation /\ f = FrameOut("activation")
    <3>1. f.run = run /\ f.pos = pos /\ run' = run /\ pos' = pos /\ pc' = "await"
      BY <2>3 DEF SendActivation, SendFrame, FrameOut
    <3> QED
      BY <1>1, <3>1, FrameTypes DEF Issued
  <2>4. CASE f.run = job.run /\ f.pos = job.pos
    <3>1. PICK g \in Frame : g = job
      BY <1>3
    <3>2. Issued(g)'
      BY <1>2, <1>3, <1>1, <3>1 DEF FramesIssued, PathSound
    <3> QED
      BY <2>4, <3>1, <3>2 DEF Issued
  <2>5. CASE f = NoFrame
    BY <1>4, <2>5
  <2> QED
    BY <1>1, <2>1, <2>2, <2>3, <2>4, <2>5, StepInFlight
<1>7. mail'.op # "reset" => Issued(mail)'
  <2>1. CASE mail' = mail
    <3>1. PICK g \in Frame : g = mail
      BY <1>3
    <3>2. g.op # "reset" => Issued(g)'
      BY <1>5, <3>1
    <3> QED
      BY <2>1, <3>1, <3>2 DEF Issued
  <2>2. CASE mail' = NoFrame
    BY <1>4, <2>2 DEF Issued
  <2>3. CASE mail' \in SeqRange(toCoord)
    <3>1. PICK g \in SeqRange(toCoord) : g = mail'
      BY <2>3
    <3>2. g \in InFlight
      BY <3>1 DEF InFlight
    <3>3. g.op # "reset" => Issued(g)'
      BY <1>5, <3>2
    <3> QED
      BY <3>1, <3>3 DEF Issued
  <2> QED
    BY <1>1, <2>1, <2>2, <2>3, StepMail
<1> QED
  BY <1>6, <1>7 DEF FramesIssued

LEMMA StepPathInOrder ==
  ASSUME OrderInv, [Next]_vars
  PROVE  PathInOrder'
<1> DEFINE Q == SeqRange(queue)
           W == SeqRange(toWorker)
<1>1. /\ TypeOK /\ PathInOrder /\ PathSound /\ FramesIssued
      /\ job \in Frame /\ queue \in Seq(Frame) /\ toWorker \in Seq(Frame)
      /\ Q \subseteq Frame /\ W \subseteq Frame
  BY FrameTypes, RangeOfSequence DEF OrderInv, IdInv
<1>2. /\ InOrder(queue) /\ InOrder(toWorker) /\ AllBefore(Q, W)
      /\ AllBefore({job}, Q \cup W)
  BY <1>1 DEF PathInOrder
<1>3. SeqRange(<<>>) = {} /\ InOrder(<<>>)
  BY DEF SeqRange, InOrder
<1> USE DEF coordVars, workerVars, shardVars, boundVars, linkVars, chanVars
<1>4. CASE SendReset
  <2> DEFINE f == FrameOut("reset")
  <2>1. toWorker' = Append(toWorker, f) /\ job' = job /\ queue' = queue /\ f \in Frame
    BY <1>1, <1>4, FrameOutIsFrame DEF SendReset, SendFrame, TypeOK, CoordTypeOK
  <2>2. ~IsStep(f)
    BY DEF FrameOut, IsStep
  <2> HIDE DEF f
  <2>3. SeqRange(toWorker') = W \cup {f} /\ InOrder(toWorker')
    BY <1>1, <1>2, <2>1, <2>2, RangeOfSequence, InOrderAppend DEF AllBefore
  <2> QED
    BY <1>2, <2>1, <2>2, <2>3 DEF PathInOrder, AllBefore
<1>5. CASE SendActivation
  <2> DEFINE f == FrameOut("activation")
  <2>1. /\ toWorker' = Append(toWorker, f) /\ job' = job /\ queue' = queue
        /\ f \in Frame /\ pc = "sending"
    BY <1>1, <1>5, FrameOutIsFrame DEF SendActivation, SendFrame, TypeOK, CoordTypeOK
  <2>2. f.run = run /\ f.pos = pos
    BY DEF FrameOut
  <2> HIDE DEF f
  <2>3. ASSUME NEW g \in {job} \cup Q \cup W, IsStep(g)
        PROVE  Earlier(g, f)
    <3>1. Issued(g) /\ g \in Frame
      BY <1>1, <2>3 DEF FramesIssued, InFlight, IsStep
    <3> QED
      BY <1>1, <2>1, <2>2, <3>1, FrameTypes DEF Issued, Earlier, generating
  <2>4. SeqRange(toWorker') = W \cup {f}
    BY <1>1, <2>1, RangeOfSequence
  <2>5. InOrder(toWorker')
    BY <1>1, <1>2, <2>1, <2>3, InOrderAppend DEF AllBefore
  <2> QED
    BY <1>2, <2>1, <2>3, <2>4, <2>5 DEF PathInOrder, AllBefore
<1>6. CASE DeliverReset
  <2>1. toWorker # <<>> /\ toWorker' = Tail(toWorker) /\ job' = job /\ queue' = queue
    BY <1>6 DEF DeliverReset
  <2>2. InOrder(toWorker') /\ SeqRange(toWorker') \subseteq W
    BY <1>1, <1>2, <2>1, InOrderTail
  <2> QED
    BY <1>2, <2>1, <2>2 DEF PathInOrder, AllBefore
<1>7. CASE DeliverActivation
  <2> DEFINE f == Head(toWorker)
             V == SeqRange(toWorker')
  <2>1. /\ toWorker # <<>> /\ toWorker' = Tail(toWorker) /\ job' = job
        /\ queue' = Append(queue, f)
    BY <1>7 DEF DeliverActivation, Queued
  <2>2. /\ InOrder(toWorker') /\ AllBefore({f}, V)
        /\ f \in Frame /\ W = {f} \cup V
    BY <1>1, <1>2, <2>1, InOrderTail
  <2> HIDE DEF f, V
  <2>3. AllBefore(Q, {f}) /\ AllBefore({job}, {f}) /\ AllBefore(Q, V)
        /\ AllBefore({job}, Q) /\ AllBefore({job}, V)
    BY <1>2, <2>2 DEF AllBefore
  <2>4. SeqRange(queue') = Q \cup {f} /\ InOrder(queue')
    BY <1>1, <1>2, <2>1, <2>2, <2>3, RangeOfSequence, InOrderAppend
  <2>5. AllBefore(Q \cup {f}, V) /\ AllBefore({job}, (Q \cup {f}) \cup V)
    BY <2>2, <2>3 DEF AllBefore
  <2> QED
    BY <2>1, <2>2, <2>4, <2>5 DEF PathInOrder, V
<1>8. CASE Pop
  <2> DEFINE f == Head(queue)
             R == SeqRange(queue')
  <2>1. /\ queue # <<>> /\ queue' = Tail(queue) /\ job' = f
        /\ toWorker' = toWorker
    BY <1>8 DEF Pop
  <2>2. InOrder(queue') /\ AllBefore({f}, R) /\ Q = {f} \cup R
    BY <1>1, <1>2, <2>1, InOrderTail
  <2> HIDE DEF f, R
  <2>3. AllBefore(R, W) /\ AllBefore({f}, R \cup W)
    BY <1>2, <2>2 DEF AllBefore
  <2> QED
    BY <1>2, <2>1, <2>2, <2>3 DEF PathInOrder, R
<1>9. CASE Compute
  <2>1. /\ job'.op = job.op /\ job'.run = job.run /\ job'.pos = job.pos
        /\ queue' = queue /\ toWorker' = toWorker
    BY <1>1, <1>9 DEF Compute, Frame
  <2>2. AllBefore({job'}, Q \cup W)
    BY <1>2, <2>1 DEF AllBefore, IsStep, Earlier
  <2> QED
    BY <1>2, <2>1, <2>2 DEF PathInOrder
<1>10. CASE Answer \/ AnswerFails
  <2>1. job' = NoFrame /\ queue' = queue /\ toWorker' = toWorker
    BY <1>10 DEF Answer, AnswerFails
  <2>2. AllBefore({NoFrame}, Q \cup W)
    BY NoFrameFields DEF AllBefore
  <2> QED
    BY <1>2, <2>1, <2>2 DEF PathInOrder
<1>11. CASE Connect \/ CloseWorker
  <2>1. toWorker' = <<>> /\ queue' = queue /\ job' = job
    BY <1>11 DEF Connect, CloseWorker
  <2> QED
    BY <1>2, <1>3, <2>1 DEF PathInOrder, AllBefore
<1>12. CASE UNCHANGED <<queue, job, toWorker>>
  BY <1>2, <1>12 DEF PathInOrder
<1>13. \/ SendReset \/ SendActivation \/ DeliverReset \/ DeliverActivation \/ Pop
       \/ Compute \/ Answer \/ AnswerFails \/ Connect \/ CloseWorker
       \/ UNCHANGED <<queue, job, toWorker>>
  <2>1. CASE \/ Generate \/ Stop \/ SendFails \/ LoopEnds \/ BeginStep \/ Park
             \/ StageZeroFails
    BY <2>1 DEF Generate, Stop, SendFails, LoopEnds, BeginStep, Park, StageZeroFails
  <2>2. CASE Timeout \/ Cancelled \/ Accept \/ DeliverToken \/ DeliverError
    BY <2>2 DEF Timeout, Cancelled, Accept, DeliverToken, DeliverError
  <2>3. CASE QueueEmpty \/ ComputeFails \/ CloseCoord \/ Reload
    BY <2>3 DEF QueueEmpty, ComputeFails, CloseCoord, Reload
  <2>4. CASE \E n \in Node : BeginRebuild(n) \/ EndRebuild(n)
    BY <2>4 DEF BeginRebuild, EndRebuild
  <2>5. CASE UNCHANGED vars
    BY <2>5 DEF vars
  <2> QED
    BY <2>1, <2>2, <2>3, <2>4, <2>5
    DEF Next, Coordinator, Worker, Deliver, User, Environment
<1> QED
  BY <1>4, <1>5, <1>6, <1>7, <1>8, <1>9, <1>10, <1>11, <1>12, <1>13

LEMMA StepOrderInv == OrderInv /\ [Next]_vars => OrderInv'
<1>1. IdInv /\ [Next]_vars => IdInv'
  BY StepTypeOK, StepIdsLeft, StepFlightInv, StepWaiting DEF IdInv
<1> QED
  BY <1>1, StepPathSound, StepFramesIssued, StepPathInOrder DEF OrderInv

\* The worker's frames are in the order in which node 0 computed them, whatever
\* is reloaded, rebuilt, closed or given up (enqueue_activation and the queue's
\* pop_front).
THEOREM FramesStayInOrder == Spec => []StepsInOrder
<1>1. OrderInv => StepsInOrder
  <2> SUFFICES ASSUME OrderInv PROVE StepsInOrder
    OBVIOUS
  <2> DEFINE jobs == IF job = NoFrame THEN <<>> ELSE <<job>>
             first == jobs \o queue
             path == first \o toWorker
  <2>1. /\ job \in Frame /\ queue \in Seq(Frame) /\ toWorker \in Seq(Frame)
        /\ InOrder(queue) /\ InOrder(toWorker)
        /\ AllBefore(SeqRange(queue), SeqRange(toWorker))
        /\ AllBefore({job}, SeqRange(queue) \cup SeqRange(toWorker))
    BY FrameTypes DEF OrderInv, IdInv, PathInOrder
  <2>2. jobs \in Seq(Frame) /\ InOrder(jobs) /\ SeqRange(jobs) \subseteq {job}
    BY <2>1 DEF InOrder, SeqRange
  <2> HIDE DEF jobs
  <2>3. /\ first \in Seq(Frame) /\ InOrder(first)
        /\ SeqRange(first) = SeqRange(jobs) \cup SeqRange(queue)
    <3>1. AllBefore(SeqRange(jobs), SeqRange(queue))
      BY <2>1, <2>2 DEF AllBefore
    <3> QED
      BY <2>1, <2>2, <3>1, InOrderJoined
  <2> HIDE DEF first
  <2>4. InOrder(path)
    <3>1. AllBefore(SeqRange(first), SeqRange(toWorker))
      BY <2>1, <2>2, <2>3 DEF AllBefore
    <3> QED
      BY <2>1, <2>3, <3>1, InOrderJoined
  <2> HIDE DEF path
  <2>5. \A i, j \in {k \in DOMAIN path : path[k].op = "activation"} :
          i < j => Earlier(path[i], path[j])
    BY <2>4 DEF InOrder, IsStep
  <2> QED
    BY <2>5 DEF StepsInOrder, path, first, jobs
<1> QED
  BY <1>1, InitOrderInv, StepOrderInv, PTL DEF Spec

-----------------------------------------------------------------------------
(* The context of a step, while nothing disturbs it *)

Calm ==
  \/ Coordinator \/ Worker \/ Deliver \/ Generate \/ Stop
  \/ Connect \/ CloseCoord \/ CloseWorker \/ UNCHANGED vars

\* What a step of an undisturbed pipeline starts from.
Start == OrderInv /\ Context

LEMMA CalmStep ==
  ASSUME OrderInv, Undisturbed => Context, [Next]_vars, Undisturbed'
  PROVE  Undisturbed /\ Start /\ Calm
<1>1. rebuilds \in Nat /\ reloads \in Nat
  BY BoundsAssumption DEF OrderInv, IdInv, TypeOK, BoundTypeOK
<1> USE DEF Undisturbed, coordVars, workerVars, shardVars, boundVars, linkVars, chanVars
<1>2. CASE Reload
  BY <1>1, <1>2 DEF Reload
<1>3. CASE \E n \in Node : BeginRebuild(n)
  BY <1>1, <1>3 DEF BeginRebuild
<1>4. CASE \E n \in Node : EndRebuild(n)
  <2>1. PICK n \in Node : EndRebuild(n)
    BY <1>4
  <2>2. Undisturbed
    BY <2>1 DEF EndRebuild
  <2> QED
    BY <2>1, <2>2 DEF EndRebuild, Context, AtHome
<1>5. CASE Calm
  <2>1. UNCHANGED <<rebuilds, reloads>>
    <3>1. CASE Coordinator
      BY <3>1
      DEF Coordinator, SendReset, SendActivation, SendFrame, SendFails, LoopEnds,
          BeginStep, Park, StageZeroFails, Timeout, Cancelled, Accept
    <3>2. CASE Worker \/ Deliver
      BY <3>2
      DEF Worker, QueueEmpty, Pop, Compute, ComputeFails, Answer, AnswerFails,
          Deliver, DeliverToken, DeliverError, DeliverReset, DeliverActivation
    <3>3. CASE Generate \/ Stop \/ Connect \/ CloseCoord \/ CloseWorker
      BY <3>3 DEF Generate, Stop, Connect, CloseCoord, CloseWorker
    <3>4. CASE UNCHANGED vars
      BY <3>4 DEF vars
    <3> QED
      BY <1>5, <3>1, <3>2, <3>3, <3>4 DEF Calm
  <2> QED
    BY <1>5, <2>1 DEF Start
<1> QED
  BY <1>2, <1>3, <1>4, <1>5 DEF Calm, Next, User, Environment

LEMMA CalmIsNext == Calm => [Next]_vars
  BY DEF Calm, Next, User, Environment

LEMMA StartFacts ==
  ASSUME Start
  PROVE  /\ OrderInv /\ IdInv /\ TypeOK /\ PathSound /\ PathInOrder /\ FramesIssued
         /\ AtHome /\ FramesClean /\ CoordRows
         /\ StepsAlone /\ StepReady /\ AnswerReady /\ TranscriptSound
         /\ cell \in [Node -> Shard \cup {NoShard}]
         /\ taken \in [Node -> Shard \cup {NoShard}]
         /\ CoordShard \in Shard /\ WorkerShard \in Shard
<1>1. /\ cell \in [Node -> Shard \cup {NoShard}]
      /\ taken \in [Node -> Shard \cup {NoShard}]
      /\ pc = "forward" => taken[0] # NoShard
      /\ wpc = "forward" => taken[1] # NoShard
  BY DEF Start, OrderInv, IdInv, TypeOK, ShardTypeOK
<1>2. AtHome
  BY DEF Start, Context
<1>3. CoordShard \in Shard /\ WorkerShard \in Shard
  BY <1>1, <1>2 DEF AtHome, CoordShard, WorkerShard, Node
<1> QED
  BY <1>1, <1>2, <1>3 DEF Start, OrderInv, IdInv, Context

\* What becomes of the shards.
LEMMA ResetRows ==
  ASSUME NEW c \in [Node -> Shard \cup {NoShard}], cell = c, NEW n \in Node,
         c[n] # NoShard
  PROVE  /\ ResetCell(n)[n] # NoShard /\ ResetCell(n)[n].rows = c[n].rows
         /\ \A m \in Node : m # n => ResetCell(n)[m] = c[m]
<1>1. c[n] \in Shard /\ ResetShard(c[n]).rows = c[n].rows
  BY DEF ResetShard, Shard
<1>2. ResetShard(c[n]) \in Shard
  BY <1>1, BoundsAssumption DEF ResetShard, Shard
<1>3. ResetCell(n) = [c EXCEPT ![n] = ResetShard(c[n])]
  BY DEF ResetCell
<1> QED
  BY <1>1, <1>2, <1>3, NoShardAssumption

LEMMA CoordShardStep ==
  ASSUME Start, Calm
  PROVE  /\ pc' # "forward" => cell'[0] # NoShard
         /\ ~Park /\ ~StageZeroFails => CoordShard'.rows = CoordShard.rows
         /\ Park => /\ CoordShard'.rows = [CoordShard.rows EXCEPT ![pos] = run]
                    /\ hidden' = Reads(CoordShard', run, pos)
<1>1. /\ cell \in [Node -> Shard \cup {NoShard}]
      /\ taken \in [Node -> Shard \cup {NoShard}]
      /\ pc # "forward" => cell[0] # NoShard
      /\ TypeOK /\ CoordShard \in Shard
  BY StartFacts DEF AtHome
<1> USE DEF CoordShard, Node, coordVars, workerVars, shardVars, boundVars, linkVars, chanVars
<1>2. CASE Generate
  <2>1. pc = "idle" /\ pc' = "reset" /\ cell' = ResetCell(0)
    BY <1>2 DEF Generate, generating
  <2>2. ResetCell(0)[0] # NoShard /\ ResetCell(0)[0].rows = cell[0].rows
    BY <1>1, <2>1, ResetRows
  <2> QED
    BY <2>1, <2>2 DEF Park, StageZeroFails
<1>3. CASE BeginStep
  BY <1>1, <1>3 DEF BeginStep, Take, Finish, Park, StageZeroFails
<1>4. CASE Park
  <2>1. /\ pc = "forward" /\ pc' = "sending"
        /\ cell' = [cell EXCEPT ![0] = Ran(taken[0], run, pos)]
        /\ hidden' = Reads(Ran(taken[0], run, pos), run, pos)
    BY <1>4 DEF Park, PutBack
  <2>2. pos \in Pos /\ run \in Runs /\ taken[0] \in Shard
    BY <1>1, <2>1, BoundsAssumption DEF TypeOK, CoordTypeOK, Pos
  <2>3. Ran(taken[0], run, pos) \in Shard
    BY <2>2, ShardOperations
  <2>4. Ran(taken[0], run, pos).rows = [taken[0].rows EXCEPT ![pos] = run]
    BY DEF Ran
  <2>5. cell'[0] = Ran(taken[0], run, pos)
    BY <1>1, <2>1
  <2> QED
    BY <1>4, <2>1, <2>3, <2>4, <2>5, NoShardAssumption DEF StageZeroFails
<1>5. CASE StageZeroFails
  <2>1. PICK s \in AfterFailure(taken[0], run, pos) : PutBack(0, s)
    BY <1>5 DEF StageZeroFails
  <2>2. pos \in Pos /\ run \in Runs /\ taken[0] \in Shard /\ pc = "forward" /\ pc' = "idle"
    BY <1>1, <1>5, BoundsAssumption DEF TypeOK, CoordTypeOK, Pos, StageZeroFails, Finish
  <2>3. s \in Shard
    BY <2>1, <2>2, ShardOperations
  <2> QED
    BY <1>1, <1>5, <2>1, <2>2, <2>3, NoShardAssumption DEF PutBack, Park
<1>6. CASE \/ SendReset \/ SendActivation \/ SendFails \/ LoopEnds \/ Timeout
           \/ Cancelled \/ Accept
  BY <1>1, <1>6
  DEF SendReset, SendActivation, SendFrame, SendFails, LoopEnds, Timeout, Cancelled,
      Accept, Finish, Park, StageZeroFails
<1>7. CASE Worker
  BY <1>1, <1>7
  DEF Worker, QueueEmpty, Pop, Compute, ComputeFails, Answer, AnswerFails,
      Take, PutBack, Park, StageZeroFails
<1>8. CASE Deliver
  <2>1. cell' = ResetCell(1) => cell'[0] = cell[0]
    BY <1>1 DEF ResetCell
  <2> QED
    BY <1>1, <1>8, <2>1
    DEF Deliver, DeliverToken, DeliverError, DeliverReset, DeliverActivation,
        Park, StageZeroFails
<1>9. CASE Stop \/ Connect \/ CloseCoord \/ CloseWorker
  BY <1>1, <1>9 DEF Stop, Connect, CloseCoord, CloseWorker, Park, StageZeroFails
<1>10. CASE UNCHANGED vars
  BY <1>1, <1>10 DEF vars, Park, StageZeroFails
<1> QED
  BY <1>2, <1>3, <1>4, <1>5, <1>6, <1>7, <1>8, <1>9, <1>10 DEF Calm, Coordinator

LEMMA WorkerShardStep ==
  ASSUME Start, Calm
  PROVE  /\ wpc' # "forward" => cell'[1] # NoShard
         /\ ~Compute /\ ~ComputeFails => WorkerShard'.rows = WorkerShard.rows
         /\ Compute => /\ WorkerShard'.rows = [WorkerShard.rows EXCEPT ![job.pos] = job.run]
                       /\ job'.clean = (job.clean /\ Reads(WorkerShard', job.run, job.pos))
<1>1. /\ cell \in [Node -> Shard \cup {NoShard}]
      /\ taken \in [Node -> Shard \cup {NoShard}]
      /\ wpc # "forward" => cell[1] # NoShard
      /\ TypeOK /\ WorkerShard \in Shard /\ job \in Frame
      /\ busy <=> wpc # "none"
  BY StartFacts, FrameTypes DEF AtHome, PathSound
<1>2. job.run \in Runs /\ job.pos \in Pos
  BY <1>1 DEF Frame
<1> USE DEF WorkerShard, Node, coordVars, workerVars, shardVars, boundVars, linkVars, chanVars
<1>3. CASE Pop
  BY <1>1, <1>3 DEF Pop, Take, Compute, ComputeFails
<1>4. CASE Compute
  <2> DEFINE s == Ran(taken[1], job.run, job.pos)
             c == job.clean /\ Reads(s, job.run, job.pos)
  <2>1. /\ wpc = "forward" /\ wpc' = "token"
        /\ cell' = [cell EXCEPT ![1] = s] /\ job' = [job EXCEPT !.clean = c]
    BY <1>4 DEF Compute, PutBack
  <2>2. taken[1] \in Shard
    BY <1>1, <2>1
  <2>3. s \in Shard /\ s.rows = [taken[1].rows EXCEPT ![job.pos] = job.run]
    BY <1>2, <2>2, ShardOperations DEF Ran
  <2>4. cell'[1] = s
    BY <1>1, <2>1
  <2> HIDE DEF c
  <2>5. job'.clean = c
    BY <1>1, <2>1 DEF Frame
  <2> HIDE DEF s
  <2>6. WorkerShard' = s /\ WorkerShard = taken[1]
    BY <2>1, <2>4
  <2> QED
    BY <1>4, <2>1, <2>3, <2>4, <2>5, <2>6, NoShardAssumption DEF ComputeFails, c
<1>5. CASE ComputeFails
  <2>1. PICK s \in AfterFailure(taken[1], job.run, job.pos) : PutBack(1, s)
    BY <1>5 DEF ComputeFails
  <2>2. taken[1] \in Shard /\ wpc = "forward" /\ wpc' = "error"
    BY <1>1, <1>5 DEF ComputeFails
  <2>3. s \in Shard
    BY <1>2, <2>1, <2>2, ShardOperations
  <2> QED
    BY <1>1, <1>5, <2>1, <2>2, <2>3, NoShardAssumption DEF PutBack, Compute
<1>6. CASE QueueEmpty \/ Answer \/ AnswerFails
  BY <1>1, <1>6 DEF QueueEmpty, TaskEnds, Answer, AnswerFails, Compute, ComputeFails
<1>7. CASE Coordinator
  BY <1>1, <1>7
  DEF Coordinator, SendReset, SendActivation, SendFrame, SendFails, LoopEnds,
      BeginStep, Take, Park, PutBack, StageZeroFails, Timeout, Cancelled, Accept,
      Compute, ComputeFails
<1>8. CASE DeliverReset
  <2>1. cell' = ResetCell(1) /\ UNCHANGED <<wpc, taken, job>>
    BY <1>8 DEF DeliverReset
  <2>2. CASE wpc = "forward"
    BY <1>1, <2>1, <2>2 DEF Compute, ComputeFails
  <2>3. CASE wpc # "forward"
    <3>1. ResetCell(1)[1] # NoShard /\ ResetCell(1)[1].rows = cell[1].rows
      BY <1>1, <2>3, ResetRows
    <3> QED
      BY <2>1, <2>3, <3>1 DEF Compute, ComputeFails
  <2> QED
    BY <2>2, <2>3
<1>9. CASE DeliverToken \/ DeliverError \/ DeliverActivation
  BY <1>1, <1>9 DEF DeliverToken, DeliverError, DeliverActivation, Compute, ComputeFails
<1>10. CASE Generate
  <2>1. cell' = ResetCell(0) /\ UNCHANGED <<wpc, taken, job>>
    BY <1>10 DEF Generate
  <2>2. ResetCell(0)[1] = cell[1]
    BY <1>1 DEF ResetCell
  <2> QED
    BY <1>1, <2>1, <2>2 DEF Compute, ComputeFails
<1>11. CASE Stop \/ Connect \/ CloseCoord \/ CloseWorker
  BY <1>1, <1>11 DEF Stop, Connect, CloseCoord, CloseWorker, Compute, ComputeFails
<1>12. CASE UNCHANGED vars
  BY <1>1, <1>12 DEF vars, Compute, ComputeFails
<1> QED
  BY <1>3, <1>4, <1>5, <1>6, <1>7, <1>8, <1>9, <1>10, <1>11, <1>12
  DEF Calm, Worker, Deliver

\* A step that is issued comes before the one node 0 has still to send.
LEMMA IssuedEarlier ==
  ASSUME Start, NEW f \in InFlight \cup {mail}, f.op # "reset"
  PROVE  /\ pc \in {"reset", "top", "forward", "sending"} =>
              f.run < run \/ (f.run = run /\ f.pos < pos)
         /\ pc = "await" =>
              f.run < run \/ (f.run = run /\ f.pos <= pos)
<1>1. f \in Frame /\ Issued(f)
  BY StartFacts, FrameTypes DEF FramesIssued
<1> QED
  BY <1>1, StartFacts, FrameTypes DEF Issued, generating

\* What the worker has still to compute.
LEMMA UnrunStep ==
  ASSUME Start, Calm
  PROVE  /\ SendActivation => Unrun' = Unrun \cup {FrameOut("activation")}
         /\ ~SendActivation => Unrun' \subseteq Unrun
         /\ Compute \/ ComputeFails =>
              /\ job \in Unrun
              /\ \A f \in Unrun' : f \in Unrun /\ Earlier(job, f)
<1> DEFINE Q == SeqRange(queue)
           W == SeqRange(toWorker)
<1>1. /\ TypeOK /\ PathSound /\ PathInOrder
      /\ job \in Frame /\ queue \in Seq(Frame) /\ toWorker \in Seq(Frame)
      /\ Q \subseteq Frame /\ W \subseteq Frame
  BY StartFacts, FrameTypes, RangeOfSequence
<1> USE DEF coordVars, workerVars, shardVars, boundVars, linkVars, chanVars
<1>2. CASE SendActivation
  <2> DEFINE f == FrameOut("activation")
  <2>1. /\ toWorker' = Append(toWorker, f) /\ UNCHANGED <<queue, wpc, job>>
        /\ f \in Frame /\ pc = "sending"
    BY <1>1, <1>2, FrameOutIsFrame DEF SendActivation, SendFrame, TypeOK, CoordTypeOK
  <2>2. IsStep(f)
    BY DEF FrameOut, IsStep
  <2> HIDE DEF f
  <2>3. SeqRange(toWorker') = W \cup {f}
    BY <1>1, <2>1, RangeOfSequence
  <2>4. Unrun' = Unrun \cup {f}
    BY <2>1, <2>2, <2>3 DEF Unrun
  <2>5. ~Compute /\ ~ComputeFails
    BY <1>2 DEF SendActivation, SendFrame, Compute, ComputeFails
  <2> QED
    BY <1>2, <2>4, <2>5 DEF f
<1>3. CASE Compute \/ ComputeFails
  <2>1. /\ wpc = "forward" /\ wpc' # "forward" /\ UNCHANGED <<queue, toWorker>>
        /\ ~SendActivation
    BY <1>3 DEF Compute, ComputeFails, SendActivation, SendFrame
  <2>2. IsStep(job) /\ job \in Unrun
    BY <1>1, <2>1 DEF PathSound, Unrun
  <2>3. ASSUME NEW f \in Unrun'
        PROVE  f \in Unrun /\ Earlier(job, f)
    <3>1. f \in Q \cup W /\ IsStep(f)
      BY <2>1 DEF Unrun
    <3>2. Earlier(job, f)
      BY <1>1, <2>2, <3>1 DEF PathInOrder, AllBefore
    <3> QED
      BY <3>1, <3>2 DEF Unrun
  <2> QED
    BY <2>1, <2>2, <2>3
<1>4. CASE DeliverActivation
  <2> DEFINE f == Head(toWorker)
             V == SeqRange(toWorker')
  <2>1. /\ queue' = Append(queue, f) /\ toWorker' = Tail(toWorker) /\ toWorker # <<>>
        /\ job' = job /\ (wpc' = "forward" => wpc = "forward")
    BY <1>4 DEF DeliverActivation, Queued
  <2>2. f \in Frame /\ W = {f} \cup V
    BY <1>1, <2>1, InOrderTail DEF PathInOrder
  <2> HIDE DEF f, V
  <2>3. SeqRange(queue') = Q \cup {f}
    BY <1>1, <2>1, <2>2, RangeOfSequence
  <2>4. Unrun' \subseteq Unrun
    BY <2>1, <2>2, <2>3 DEF Unrun, V
  <2>5. ~SendActivation /\ ~Compute /\ ~ComputeFails
    BY <1>4 DEF DeliverActivation, SendActivation, SendFrame, Compute, ComputeFails
  <2> QED
    BY <2>4, <2>5
<1>5. CASE Pop
  <2> DEFINE f == Head(queue)
             R == SeqRange(queue')
  <2>1. /\ queue' = Tail(queue) /\ queue # <<>> /\ toWorker' = toWorker
        /\ job' = f /\ wpc = "pop"
    BY <1>5 DEF Pop
  <2>2. Q = {f} \cup R
    BY <1>1, <2>1, InOrderTail DEF PathInOrder
  <2> HIDE DEF f, R
  <2>3. Unrun' \subseteq Unrun
    BY <2>1, <2>2 DEF Unrun, R
  <2>4. ~SendActivation /\ ~Compute /\ ~ComputeFails
    BY <2>1, <1>5 DEF Pop, SendActivation, SendFrame, Compute, ComputeFails
  <2> QED
    BY <2>3, <2>4
<1>6. CASE SendReset
  <2> DEFINE f == FrameOut("reset")
  <2>1. /\ toWorker' = Append(toWorker, f) /\ UNCHANGED <<queue, wpc, job>> /\ f \in Frame
        /\ pc = "reset"
    BY <1>1, <1>6, FrameOutIsFrame DEF SendReset, SendFrame, TypeOK, CoordTypeOK
  <2>2. ~IsStep(f)
    BY DEF FrameOut, IsStep
  <2> HIDE DEF f
  <2>3. SeqRange(toWorker') = W \cup {f}
    BY <1>1, <2>1, RangeOfSequence
  <2>4. Unrun' \subseteq Unrun
    BY <2>1, <2>2, <2>3 DEF Unrun
  <2>5. ~SendActivation /\ ~Compute /\ ~ComputeFails
    BY <2>1, <1>6 DEF SendReset, SendActivation, SendFrame, Compute, ComputeFails
  <2> QED
    BY <2>4, <2>5
<1>7. CASE DeliverReset \/ Connect \/ CloseWorker
  <2>1. /\ SeqRange(toWorker') \subseteq W /\ UNCHANGED <<queue, wpc, job>>
    BY <1>1, <1>7, RangeOfSequence DEF DeliverReset, Connect, CloseWorker
  <2>2. Unrun' \subseteq Unrun
    BY <2>1 DEF Unrun
  <2>3. ~SendActivation /\ ~Compute /\ ~ComputeFails
    BY <1>7 DEF DeliverReset, Connect, CloseWorker, SendActivation, SendFrame, Compute,
       ComputeFails
  <2> QED
    BY <2>2, <2>3
<1>8. CASE QueueEmpty \/ Answer \/ AnswerFails
  <2>1. wpc' # "forward" /\ UNCHANGED <<queue, toWorker>>
    BY <1>8 DEF QueueEmpty, TaskEnds, Answer, AnswerFails
  <2>2. Unrun' \subseteq Unrun
    BY <2>1 DEF Unrun
  <2>3. ~SendActivation /\ ~Compute /\ ~ComputeFails
    BY <1>8 DEF QueueEmpty, Answer, AnswerFails, SendActivation, SendFrame, Compute,
       ComputeFails
  <2> QED
    BY <2>2, <2>3
<1>9. CASE ~SendActivation /\ ~Compute /\ ~ComputeFails
           /\ UNCHANGED <<queue, wpc, job, toWorker>>
  BY <1>9 DEF Unrun
<1>10. \/ SendActivation \/ Compute \/ ComputeFails \/ DeliverActivation \/ Pop
       \/ SendReset \/ DeliverReset \/ Connect \/ CloseWorker \/ QueueEmpty
       \/ Answer \/ AnswerFails \/ UNCHANGED <<queue, wpc, job, toWorker>>
  <2>1. CASE \/ Generate \/ Stop \/ SendFails \/ LoopEnds \/ BeginStep \/ Park
             \/ StageZeroFails
    BY <2>1 DEF Generate, Stop, SendFails, LoopEnds, BeginStep, Park, StageZeroFails
  <2>2. CASE Timeout \/ Cancelled \/ Accept \/ DeliverToken \/ DeliverError \/ CloseCoord
    BY <2>2 DEF Timeout, Cancelled, Accept, DeliverToken, DeliverError, CloseCoord
  <2>3. CASE UNCHANGED vars
    BY <2>3 DEF vars
  <2> QED
    BY <2>1, <2>2, <2>3 DEF Calm, Coordinator, Worker, Deliver
<1> QED
  BY <1>2, <1>3, <1>4, <1>5, <1>6, <1>7, <1>8, <1>9, <1>10

\* An answer is new only when the worker has just computed it.
LEMMA AnswersStep ==
  ASSUME Start, Calm, NEW f \in Answers'
  PROVE  \/ \E g \in Answers : g.run = f.run /\ g.pos = f.pos
         \/ Compute /\ f.run = job.run /\ f.pos = job.pos
<1>1. /\ TypeOK /\ job \in Frame /\ toCoord \in Seq(Frame) /\ [Next]_vars
  BY StartFacts, FrameTypes, CalmIsNext
<1> USE DEF coordVars, workerVars, shardVars, boundVars, linkVars, chanVars
<1>2. CASE f \in Answers
  BY <1>2
<1>3. CASE f = mail' /\ f.op = "token" /\ f # mail
  <2>1. f \in SeqRange(toCoord)
    BY <1>1, <1>3, StepMail, NoFrameFields
  <2> QED
    BY <1>3, <2>1 DEF Answers
<1>4. CASE f \in SeqRange(toCoord') /\ f.op = "token" /\ f \notin SeqRange(toCoord)
  <2>1. CASE Answer
    <3> DEFINE answer == [job EXCEPT !.op = wpc]
    <3>1. /\ answer \in Frame /\ answer.op = wpc
          /\ answer.run = job.run /\ answer.pos = job.pos
      BY <1>1, <2>1 DEF Answer, Frame
    <3>2. toCoord' = Append(toCoord, answer)
      BY <2>1 DEF Answer
    <3> HIDE DEF answer
    <3>3. f = answer
      BY <1>1, <1>4, <3>1, <3>2, RangeOfSequence
    <3> QED
      BY <1>4, <3>1, <3>3 DEF Answers
  <2>2. CASE ~Answer
    <3>1. SeqRange(toCoord') \subseteq SeqRange(toCoord)
      <4>1. CASE DeliverToken \/ DeliverError
        BY <1>1, <4>1, RangeOfSequence DEF DeliverToken, DeliverError
      <4>2. CASE Connect \/ CloseCoord
        BY <1>1, <4>2, RangeOfSequence DEF Connect, CloseCoord
      <4>3. CASE Coordinator
        BY <4>3
        DEF Coordinator, SendReset, SendActivation, SendFrame, SendFails, LoopEnds,
            BeginStep, Park, StageZeroFails, Timeout, Cancelled, Accept
      <4>4. CASE QueueEmpty \/ Pop \/ Compute \/ ComputeFails \/ AnswerFails
        BY <4>4 DEF QueueEmpty, Pop, Compute, ComputeFails, AnswerFails
      <4>5. CASE DeliverReset \/ DeliverActivation \/ Generate \/ Stop \/ CloseWorker
        BY <4>5 DEF DeliverReset, DeliverActivation, Generate, Stop, CloseWorker
      <4>6. CASE UNCHANGED vars
        BY <4>6 DEF vars
      <4> QED
        BY <2>2, <4>1, <4>2, <4>3, <4>4, <4>5, <4>6 DEF Calm, Worker, Deliver
    <3> QED
      BY <1>4, <3>1
  <2> QED
    BY <2>1, <2>2
<1>5. CASE f = job' /\ wpc' = "token" /\ ~(wpc = "token" /\ job' = job)
  <2>1. Compute
    <3>1. CASE Worker
      BY <1>5, <3>1
      DEF Worker, QueueEmpty, TaskEnds, Pop, ComputeFails, Answer, AnswerFails
    <3>2. CASE Coordinator
      BY <1>5, <3>2
      DEF Coordinator, SendReset, SendActivation, SendFrame, SendFails, LoopEnds,
          BeginStep, Park, StageZeroFails, Timeout, Cancelled, Accept
    <3>3. CASE Deliver
      BY <1>5, <3>3
      DEF Deliver, DeliverToken, DeliverError, DeliverReset, DeliverActivation
    <3>4. CASE Generate \/ Stop \/ Connect \/ CloseCoord \/ CloseWorker
      BY <1>5, <3>4 DEF Generate, Stop, Connect, CloseCoord, CloseWorker
    <3>5. CASE UNCHANGED vars
      BY <1>5, <3>5 DEF vars
    <3> QED
      BY <3>1, <3>2, <3>3, <3>4, <3>5 DEF Calm
  <2> QED
    BY <1>1, <1>5, <2>1 DEF Compute, Frame
<1> QED
  BY <1>2, <1>3, <1>4, <1>5 DEF Answers

-----------------------------------------------------------------------------
(* Each part of the context is kept *)

\* How node 0 goes through its loop.
LEMMA LoopStep ==
  ASSUME Start, Calm
  PROVE  /\ Generate \/ run' = run
         /\ pos' = pos \/ Generate \/ Accept
         /\ ~Generate /\ generating' => generating
         /\ pc' = pc \/ Coordinator \/ Generate
         /\ pc' \in {"top", "forward", "sending"} =>
              \/ pc \in {"top", "forward", "sending"} /\ pos' = pos
              \/ SendReset \/ Accept
         /\ pc' = "await" => pos' = pos /\ (pc = "await" \/ SendActivation)
         /\ pc' = "sending" => Park \/ (pc = "sending" /\ hidden' = hidden)
         /\ Accept => pc = "await" /\ (pc' = "idle" \/ (pc' = "top" /\ pos' = pos + 1))
<1> USE DEF generating, coordVars, workerVars, shardVars, boundVars, linkVars, chanVars
<1>1. CASE Generate
  BY <1>1 DEF Generate, Accept
<1>2. CASE SendReset \/ SendActivation
  BY <1>2 DEF SendReset, SendActivation, SendFrame, Generate, Accept, Park, Coordinator
<1>3. CASE SendFails \/ LoopEnds \/ StageZeroFails \/ Cancelled
  BY <1>3 DEF SendFails, LoopEnds, StageZeroFails, Cancelled, Finish, Accept, Coordinator
<1>4. CASE BeginStep
  BY <1>4 DEF BeginStep, Finish, Accept, Coordinator
<1>5. CASE Park
  BY <1>5 DEF Park, Accept, Coordinator
<1>6. CASE Accept
  BY <1>6 DEF Accept, Finish, Coordinator
<1>7. CASE Timeout \/ Stop
  BY <1>7 DEF Timeout, Stop, Accept
<1>8. CASE Worker
  BY <1>8
  DEF Worker, QueueEmpty, Pop, Compute, ComputeFails, Answer, AnswerFails, Accept
<1>9. CASE Deliver
  BY <1>9
  DEF Deliver, DeliverToken, DeliverError, DeliverReset, DeliverActivation, Accept
<1>10. CASE Connect \/ CloseCoord \/ CloseWorker
  BY <1>10 DEF Connect, CloseCoord, CloseWorker, Accept
<1>11. CASE UNCHANGED vars
  BY <1>11 DEF vars, Accept
<1> QED
  BY <1>1, <1>2, <1>3, <1>4, <1>5, <1>6, <1>7, <1>8, <1>9, <1>10, <1>11
  DEF Calm, Coordinator

LEMMA AtHomeStep ==
  ASSUME Start, Calm
  PROVE  AtHome'
<1>1. AtHome
  BY StartFacts
<1>2. UNCHANGED boundVars
  <2>1. CASE Coordinator
    BY <2>1
    DEF Coordinator, SendReset, SendActivation, SendFrame, SendFails, LoopEnds,
        BeginStep, Park, StageZeroFails, Timeout, Cancelled, Accept
  <2>2. CASE Worker \/ Deliver
    BY <2>2
    DEF Worker, QueueEmpty, Pop, Compute, ComputeFails, Answer, AnswerFails,
        Deliver, DeliverToken, DeliverError, DeliverReset, DeliverActivation
  <2>3. CASE Generate \/ Stop \/ Connect \/ CloseCoord \/ CloseWorker
    BY <2>3 DEF Generate, Stop, Connect, CloseCoord, CloseWorker
  <2>4. CASE UNCHANGED vars
    BY <2>4 DEF vars
  <2> QED
    BY <2>1, <2>2, <2>3, <2>4 DEF Calm
<1> QED
  BY <1>1, <1>2, CoordShardStep, WorkerShardStep DEF AtHome, boundVars

LEMMA CoordRowsStep ==
  ASSUME Start, Calm
  PROVE  CoordRows'
<1>1. /\ CoordRows /\ TypeOK /\ CoordShard \in Shard /\ pos \in Nat
      /\ CoordShard.rows \in [Pos -> Runs]
  BY StartFacts, FrameTypes DEF Shard
<1>2. CASE Park
  <2>1. /\ pc = "forward" /\ pc' = "sending" /\ UNCHANGED <<pos, run>>
        /\ CoordShard'.rows = [CoordShard.rows EXCEPT ![pos] = run]
        /\ hidden' = Reads(CoordShard', run, pos)
    BY <1>2, CoordShardStep DEF Park
  <2>2. pos \in Pos
    BY <1>1, <2>1, BoundsAssumption DEF TypeOK, CoordTypeOK, Pos
  <2>3. CoordShard'.rows[pos] = run
    BY <1>1, <2>1, <2>2
  <2>4. \A q \in Pos : q < pos => CoordShard'.rows[q] = run
    BY <1>1, <2>1, <2>2 DEF CoordRows, generating, Pos
  <2>5. \A q \in RowsRead(pos) \cap Pos : q < pos \/ q = pos
    BY <1>1 DEF RowsRead
  <2>6. Reads(CoordShard', run, pos)
    BY <2>3, <2>4, <2>5 DEF Reads
  <2> QED
    BY <2>1, <2>3, <2>4, <2>6 DEF CoordRows
<1>3. CASE StageZeroFails
  BY <1>3 DEF StageZeroFails, Finish, CoordRows, generating
<1>4. CASE Generate
  <2>1. pos' = 0 /\ pc' = "reset"
    BY <1>4 DEF Generate
  <2> QED
    BY <2>1 DEF CoordRows, Pos
<1>5. CASE ~Park /\ ~StageZeroFails /\ ~Generate
  <2>1. CoordShard'.rows = CoordShard.rows /\ run' = run
        /\ (generating' => generating)
    BY <1>5, CoordShardStep, LoopStep
  <2>2. pc' = "sending" => pc = "sending" /\ hidden' = hidden
    BY <1>5, LoopStep
  <2>3. pc' = "await" => pos' = pos /\ pc \in {"sending", "await"}
    BY LoopStep DEF SendActivation, SendFrame
  <2>4. pc' \in {"sending", "await"} => CoordShard'.rows[pos'] = run'
    <3>1. pc' = "sending" => pos' = pos
      <4>1. SendReset \/ Accept => pc' # "sending"
        BY LoopStep DEF SendReset, SendFrame
      <4> QED
        BY <4>1, LoopStep
    <3> QED
      BY <1>1, <2>1, <2>2, <2>3, <3>1 DEF CoordRows
  <2>5. generating' => \A q \in Pos : q < pos' => CoordShard'.rows[q] = run'
    <3>1. CASE pos' = pos
      BY <1>1, <2>1, <3>1 DEF CoordRows
    <3>2. CASE Accept /\ pc' = "top" /\ pos' = pos + 1 /\ pc = "await"
      <4>1. \A q \in Pos : q < pos + 1 => q < pos \/ q = pos
        BY <1>1 DEF Pos
      <4> QED
        BY <1>1, <2>1, <3>2, <4>1 DEF CoordRows, generating
    <3> QED
      BY <1>5, <3>1, <3>2, LoopStep DEF generating
  <2> QED
    BY <1>1, <2>2, <2>4, <2>5 DEF CoordRows
<1> QED
  BY <1>2, <1>3, <1>4, <1>5

\* What Has says is kept until the worker computes.
LEMMA HasStep ==
  ASSUME Start, Calm, ~Compute, ~ComputeFails, NEW n, NEW r, Has(n, r)
  PROVE  Has(n, r)'
  BY WorkerShardStep DEF Has

\* The worker reads the rows of the run it computes for.
LEMMA ComputedClean ==
  ASSUME Start, Calm, Compute
  PROVE  job'.clean /\ Has(job.pos + 1, job.run)'
<1>1. /\ WorkerShard \in Shard /\ job \in Frame /\ job.pos \in Nat
      /\ StepsAlone /\ FramesClean
  BY StartFacts, FrameTypes
<1>2. job \in Unrun /\ job.clean /\ job.pos \in Pos
  BY <1>1, UnrunStep DEF FramesClean, InFlight, Frame
<1>3. /\ WorkerShard'.rows = [WorkerShard.rows EXCEPT ![job.pos] = job.run]
      /\ job'.clean = (job.clean /\ Reads(WorkerShard', job.run, job.pos))
  BY WorkerShardStep
<1>4. \A q \in Pos : q < job.pos => WorkerShard.rows[q] = job.run
  BY <1>1, <1>2 DEF StepsAlone, Has, Pos
<1>5. WorkerShard.rows \in [Pos -> Runs]
  BY <1>1 DEF Shard
<1>6. \A q \in Pos : q < job.pos \/ q = job.pos => WorkerShard'.rows[q] = job.run
  BY <1>1, <1>2, <1>3, <1>4, <1>5
<1>7. \A q \in Pos : q < job.pos + 1 => q < job.pos \/ q = job.pos
  BY <1>1 DEF Pos
<1>8. Has(job.pos + 1, job.run)'
  <2>1. job'.run = job.run /\ job'.pos = job.pos
    BY <1>1 DEF Compute, Frame
  <2> QED
    BY <1>6, <1>7, <2>1 DEF Has
<1>9. \A q \in RowsRead(job.pos) \cap Pos : q < job.pos \/ q = job.pos
  BY <1>1 DEF RowsRead
<1>10. Reads(WorkerShard', job.run, job.pos)
  BY <1>6, <1>9 DEF Reads
<1> QED
  BY <1>2, <1>3, <1>8, <1>10

LEMMA FramesCleanStep ==
  ASSUME Start, Calm
  PROVE  FramesClean'
<1>1. /\ IdInv /\ TypeOK /\ FramesClean /\ CoordRows /\ PathSound /\ [Next]_vars
      /\ generating => run # 0
      /\ job \in InFlight
  BY StartFacts, CalmIsNext DEF PathSound, InFlight
<1>2. ASSUME NEW f \in InFlight'
      PROVE  f.clean /\ (f # NoFrame => f.run # 0)
  <2>1. CASE f \in InFlight
    BY <1>1, <2>1 DEF FramesClean
  <2>2. CASE SendReset /\ f = FrameOut("reset")
    BY <1>1, <2>2 DEF FrameOut, SendReset, SendFrame, generating
  <2>3. CASE SendActivation /\ f = FrameOut("activation")
    BY <1>1, <2>3 DEF FrameOut, SendActivation, SendFrame, generating, CoordRows
  <2>4. CASE f.run = job.run /\ Compute /\ f = job'
    <3>1. job # NoFrame /\ f.clean
      BY <1>1, <2>4, ComputedClean, NoFrameFields DEF Compute, PathSound
    <3> QED
      BY <1>1, <2>4, <3>1 DEF FramesClean
  <2>5. CASE f.run = job.run /\ Answer /\ f.clean = job.clean
    <3>1. job # NoFrame
      BY <1>1, <2>5, NoFrameFields DEF Answer, PathSound
    <3> QED
      BY <1>1, <2>5, <3>1 DEF FramesClean
  <2>6. CASE f = NoFrame
    BY <2>6, NoFrameFields
  <2> QED
    BY <1>1, <2>1, <2>2, <2>3, <2>4, <2>5, <2>6, StepInFlight
<1>3. mail'.clean /\ (mail' # NoFrame => mail'.run # 0)
  <2>1. CASE mail' = mail
    BY <1>1, <2>1 DEF FramesClean
  <2>2. CASE mail' = NoFrame
    BY <2>2, NoFrameFields
  <2>3. CASE mail' \in SeqRange(toCoord)
    BY <1>1, <2>3 DEF FramesClean, InFlight
  <2> QED
    BY <1>1, <2>1, <2>2, <2>3, StepMail
<1> QED
  BY <1>2, <1>3 DEF FramesClean

LEMMA StepsAloneStep ==
  ASSUME Start, Calm
  PROVE  StepsAlone'
<1>1. /\ StepsAlone /\ StepReady /\ PathInOrder /\ TypeOK /\ run \in Nat /\ pos \in Nat
      /\ job \in Frame /\ Unrun \subseteq InFlight /\ Unrun \subseteq Frame
      /\ \A f \in Frame : f.run \in Nat /\ f.pos \in Nat
  <2>1. TypeOK /\ Unrun \subseteq InFlight
    BY StartFacts DEF Unrun, InFlight
  <2>2. InFlight \subseteq Frame
    BY <2>1, FrameTypes
  <2> QED
    BY <2>1, <2>2, StartFacts, FrameTypes
<1>2. CASE Compute \/ ComputeFails
  <2>1. job \in Unrun /\ \A f \in Unrun' : f \in Unrun /\ Earlier(job, f)
    BY <1>2, UnrunStep
  <2>2. ASSUME NEW f \in Unrun', f.pos # 0
        PROVE  FALSE
    <3>1. job = f \/ Earlier(f, job)
      BY <1>1, <2>1, <2>2 DEF StepsAlone
    <3>2. Earlier(job, f) /\ f \in Frame
      BY <1>1, <2>1
    <3> QED
      BY <1>1, <3>1, <3>2 DEF Earlier
  <2> QED
    BY <2>2 DEF StepsAlone
<1>3. CASE SendActivation
  <2> DEFINE n == FrameOut("activation")
  <2>1. n.run = run /\ n.pos = pos /\ pc = "sending"
    BY <1>3 DEF SendActivation, SendFrame, FrameOut
  <2>2. Unrun' = Unrun \cup {n} /\ ~Compute /\ ~ComputeFails
    BY <1>3, UnrunStep
    DEF SendActivation, SendFrame, Compute, ComputeFails, coordVars, workerVars
  <2> HIDE DEF n
  <2>3. ASSUME NEW f \in Unrun', f.pos # 0
        PROVE  Has(f.pos, f.run)' /\ \A g \in Unrun' : g = f \/ Earlier(f, g)
    <3>1. CASE f \in Unrun
      <4>1. Has(f.pos, f.run) /\ \A g \in Unrun : g = f \/ Earlier(f, g)
        BY <1>1, <2>3, <3>1 DEF StepsAlone
      <4>2. f.op # "reset"
        BY <3>1 DEF Unrun, IsStep
      <4>3. Earlier(f, n)
        BY <1>1, <2>1, <3>1, <4>2, IssuedEarlier DEF Earlier
      <4> QED
        BY <2>2, <4>1, <4>3, HasStep
    <3>2. CASE f = n
      <4>1. Unrun = {} /\ Has(f.pos, f.run)
        BY <1>1, <2>1, <2>3, <3>2 DEF StepReady
      <4> QED
        BY <2>2, <3>2, <4>1, HasStep
    <3> QED
      BY <2>2, <3>1, <3>2
  <2> QED
    BY <2>3 DEF StepsAlone
<1>4. CASE ~SendActivation /\ ~Compute /\ ~ComputeFails
  <2>1. Unrun' \subseteq Unrun
    BY <1>4, UnrunStep
  <2>2. ASSUME NEW f \in Unrun', f.pos # 0
        PROVE  Has(f.pos, f.run)' /\ \A g \in Unrun' : g = f \/ Earlier(f, g)
    <3>1. Has(f.pos, f.run) /\ \A g \in Unrun : g = f \/ Earlier(f, g)
      BY <1>1, <2>1, <2>2 DEF StepsAlone
    <3> QED
      BY <1>4, <2>1, <3>1, HasStep
  <2> QED
    BY <2>2 DEF StepsAlone
<1> QED
  BY <1>2, <1>3, <1>4

\* The reply that is accepted is the answer to the step in progress.
LEMMA MailAnswers ==
  ASSUME Start, pc = "await", mail # NoFrame
  PROVE  /\ mail.run = run /\ mail.pos = pos /\ mail.clean
         /\ Unrun = {} /\ Has(pos + 1, run)
<1>1. /\ MailInv /\ FramesClean /\ PathSound /\ AtHome /\ AnswerReady /\ mail \in Frame
  BY StartFacts, FrameTypes DEF IdInv
<1>2. mail.run # 0 /\ mail.clean /\ mail.run \in Nat /\ pageRun = 0
  BY <1>1, StartFacts, FrameTypes DEF FramesClean, AtHome
<1>3. mail.run = run /\ mail.pos = pos
  BY <1>1, <1>2 DEF MailInv
<1>4. mail \in Answers
  BY <1>1 DEF PathSound, Answers
<1> QED
  BY <1>1, <1>2, <1>3, <1>4 DEF AnswerReady

LEMMA StepReadyStep ==
  ASSUME Start, Calm
  PROVE  StepReady'
<1> SUFFICES ASSUME pc' \in {"top", "forward", "sending"}, pos' # 0
             PROVE  Unrun' = {} /\ Has(pos, run)'
  BY DEF StepReady
<1>1. StepReady /\ PathSound /\ run' = run
  <2>1. ~Generate
    BY DEF Generate
  <2> QED
    BY <2>1, StartFacts, LoopStep
<1>2. ASSUME NEW n, Unrun = {}, Has(n, run), pos' = n, ~SendActivation
      PROVE  Unrun' = {} /\ Has(pos, run)'
  <2>1. Unrun' = {} /\ ~Compute /\ ~ComputeFails
    BY <1>2, UnrunStep
  <2>2. Has(n, run)'
    <3>1. PICK r : r = run
      OBVIOUS
    <3>2. Has(n, r)
      BY <1>2, <3>1
    <3>3. WorkerShard'.rows = WorkerShard.rows
      BY <2>1, WorkerShardStep
    <3> QED
      BY <1>1, <3>1, <3>2, <3>3 DEF Has
  <2> QED
    BY <1>2, <2>1, <2>2 DEF Has
<1>3. CASE pc \in {"top", "forward", "sending"} /\ pos' = pos
  <2>1. Unrun = {} /\ Has(pos, run)
    BY <1>1, <1>3 DEF StepReady
  <2>2. ~SendActivation
    BY DEF SendActivation, SendFrame
  <2> QED
    BY <1>2, <1>3, <2>1, <2>2
<1>4. CASE SendReset
  BY <1>1, <1>4 DEF SendReset, SendFrame, PathSound
<1>5. CASE Accept
  <2>1. pc = "await" /\ mail # NoFrame /\ pos' = pos + 1
    BY <1>5, LoopStep DEF Accept
  <2>2. Unrun = {} /\ Has(pos + 1, run)
    BY <2>1, MailAnswers
  <2>3. ~SendActivation
    BY <2>1 DEF SendActivation, SendFrame
  <2> QED
    BY <1>2, <2>1, <2>2, <2>3
<1> QED
  BY <1>3, <1>4, <1>5, LoopStep

LEMMA AnswerReadyStep ==
  ASSUME Start, Calm
  PROVE  AnswerReady'
<1> SUFFICES ASSUME pc' = "await", NEW f \in Answers', f.run = run', f.pos = pos'
             PROVE  Unrun' = {} /\ Has(pos + 1, run)'
  BY DEF AnswerReady
<1>1. /\ AnswerReady /\ PathSound /\ TypeOK /\ run' = run /\ pos' = pos
      /\ pc = "await" \/ SendActivation
      /\ run \in Nat /\ pos \in Nat
  <2>1. ~Generate
    BY DEF Generate
  <2> QED
    BY <2>1, StartFacts, LoopStep, FrameTypes
<1>2. CASE Compute
  <2>1. /\ \/ f.run = job.run /\ f.pos = job.pos
           \/ \E g \in Answers : g.run = f.run /\ g.pos = f.pos
        /\ pc = "await"
    BY <1>1, <1>2, AnswersStep
    DEF Compute, SendActivation, SendFrame, coordVars, workerVars, chanVars
  <2>2. \A g \in Unrun' : g \in Unrun /\ Earlier(job, g)
    BY <1>2, UnrunStep
  <2>3. job \in Unrun
    BY <1>2, UnrunStep
  <2>4. job.run = run /\ job.pos = pos
    BY <1>1, <2>1, <2>3 DEF AnswerReady
  <2>5. Unrun' = {}
    <3> SUFFICES ASSUME NEW g \in Unrun' PROVE FALSE
      OBVIOUS
    <3>1. Earlier(job, g) /\ g \in Unrun
      BY <2>2
    <3>2. g \in InFlight /\ g.op # "reset"
      BY <3>1 DEF Unrun, InFlight, IsStep
    <3>3. g.run < run \/ (g.run = run /\ g.pos <= pos)
      BY <2>1, <3>2, IssuedEarlier
    <3>4. g.run \in Nat /\ g.pos \in Nat
      BY <1>1, <3>2, FrameTypes
    <3> QED
      BY <1>1, <2>4, <3>1, <3>3, <3>4 DEF Earlier
  <2>6. Has(job.pos + 1, job.run)'
    BY <1>2, ComputedClean
  <2>7. job'.run = job.run /\ job'.pos = job.pos
    BY <1>1, <1>2, FrameTypes DEF Compute, Frame
  <2> QED
    BY <1>1, <2>4, <2>5, <2>6, <2>7 DEF Has
<1>3. CASE ~Compute
  <2>1. PICK g \in Answers : g.run = run /\ g.pos = pos
    BY <1>1, <1>3, AnswersStep
  <2>2. pc = "await"
    <3> SUFFICES ASSUME SendActivation PROVE FALSE
      BY <1>1
    <3>1. pc = "sending"
      BY DEF SendActivation, SendFrame
    <3>2. g \in InFlight \cup {mail} /\ g.op # "reset"
      BY <1>1, <2>1 DEF Answers, InFlight, PathSound
    <3> QED
      BY <1>1, <2>1, <3>1, <3>2, IssuedEarlier
  <2>3. Unrun = {} /\ Has(pos + 1, run)
    BY <1>1, <2>1, <2>2 DEF AnswerReady
  <2>4. ~SendActivation
    BY <2>2 DEF SendActivation, SendFrame
  <2>5. Unrun' = {} /\ ~ComputeFails
    BY <2>3, <2>4, UnrunStep
  <2>6. WorkerShard'.rows = WorkerShard.rows
    BY <1>3, <2>5, WorkerShardStep
  <2> QED
    BY <1>1, <2>3, <2>5, <2>6 DEF Has
<1> QED
  BY <1>2, <1>3

LEMMA TranscriptStep ==
  ASSUME Start, Calm
  PROVE  /\ UNCHANGED transcript \/ Generate \/ Accept
         /\ Generate => transcript' = <<>> /\ pos' = 0 /\ run' = run + 1
         /\ Accept => transcript' = Append(transcript, mail) /\ mail # NoFrame
<1> USE DEF coordVars, workerVars, shardVars, boundVars, linkVars, chanVars
<1>1. CASE Coordinator
  BY <1>1
  DEF Coordinator, SendReset, SendActivation, SendFrame, SendFails, LoopEnds,
      BeginStep, Park, StageZeroFails, Timeout, Cancelled, Accept, Generate, generating
<1>2. CASE Worker \/ Deliver
  BY <1>2
  DEF Worker, QueueEmpty, Pop, Compute, ComputeFails, Answer, AnswerFails,
      Deliver, DeliverToken, DeliverError, DeliverReset, DeliverActivation,
      Generate, Accept
<1>3. CASE Generate
  BY <1>3 DEF Generate, Accept, generating
<1>4. CASE Stop \/ Connect \/ CloseCoord \/ CloseWorker
  BY <1>4 DEF Stop, Connect, CloseCoord, CloseWorker, Generate, Accept
<1>5. CASE UNCHANGED vars
  BY <1>5 DEF vars, Generate, Accept
<1> QED
  BY <1>1, <1>2, <1>3, <1>4, <1>5 DEF Calm

LEMMA TranscriptSoundStep ==
  ASSUME Start, Calm
  PROVE  TranscriptSound'
<1>1. /\ TranscriptSound /\ transcript \in Seq(Frame) /\ mail \in Frame /\ pos \in Nat
  BY StartFacts, FrameTypes DEF TypeOK, CoordTypeOK
<1>2. CASE Generate
  BY <1>2, TranscriptStep DEF TranscriptSound, ContextIsThisRun
<1>3. CASE Accept
  <2>1. transcript' = Append(transcript, mail) /\ mail # NoFrame
    BY <1>3, TranscriptStep
  <2>2. pc = "await" /\ (generating' => pos' = pos + 1) /\ generating
    BY <1>3, LoopStep DEF generating
  <2>3. mail.clean
    BY <2>1, <2>2, MailAnswers
  <2>4. ContextIsThisRun'
    BY <1>1, <2>1, <2>3 DEF TranscriptSound, ContextIsThisRun
  <2>5. generating' => Len(transcript') = pos'
    BY <1>1, <2>1, <2>2 DEF TranscriptSound
  <2> QED
    BY <2>4, <2>5 DEF TranscriptSound
<1>4. CASE ~Generate /\ ~Accept
  <2>1. transcript' = transcript /\ pos' = pos /\ (generating' => generating)
    BY <1>4, TranscriptStep, LoopStep
  <2> QED
    BY <1>1, <2>1 DEF TranscriptSound, ContextIsThisRun
<1> QED
  BY <1>2, <1>3, <1>4

LEMMA InitContextInv == Init => ContextInv
<1> SUFFICES ASSUME Init PROVE ContextInv
  OBVIOUS
<1>1. OrderInv
  BY InitOrderInv
<1>2. /\ queue = <<>> /\ toWorker = <<>> /\ toCoord = <<>> /\ job = NoFrame
      /\ mail = NoFrame /\ pc = "idle" /\ wpc = "none" /\ transcript = <<>>
      /\ SeqRange(<<>>) = {}
  BY DEF Init, SeqRange
<1>3. AtHome
  BY FreshShardIsShard, NoShardAssumption DEF Init, AtHome, Node
<1>4. FramesClean
  <2>1. InFlight \cup {mail} = {NoFrame}
    BY <1>2 DEF InFlight
  <2> QED
    BY <2>1, NoFrameFields DEF FramesClean
<1>5. StepsAlone
  <2>1. Unrun = {}
    BY <1>2 DEF Unrun
  <2> QED
    BY <2>1 DEF StepsAlone
<1>6. CoordRows /\ StepReady /\ AnswerReady /\ TranscriptSound
  BY <1>2 DEF CoordRows, StepReady, AnswerReady, TranscriptSound, ContextIsThisRun,
     generating
<1> QED
  BY <1>1, <1>3, <1>4, <1>5, <1>6 DEF ContextInv, Context

LEMMA StepContextInv == ContextInv /\ [Next]_vars => ContextInv'
<1> SUFFICES ASSUME ContextInv, [Next]_vars PROVE ContextInv'
  OBVIOUS
<1>1. OrderInv'
  BY StepOrderInv DEF ContextInv
<1>2. ASSUME Undisturbed'
      PROVE  Context'
  <2>1. Start /\ Calm
    BY <1>2, CalmStep DEF ContextInv
  <2> QED
    BY <2>1, AtHomeStep, FramesCleanStep, CoordRowsStep, StepsAloneStep, StepReadyStep,
       AnswerReadyStep, TranscriptSoundStep DEF Context
<1> QED
  BY <1>1, <1>2 DEF ContextInv

LEMMA ContextInvariant == Spec => []ContextInv
  BY InitContextInv, StepContextInv, PTL DEF Spec

\* Every token shown was computed, at both ends, over cache rows of its own run
\* only, whatever timed out, failed, was stopped or reconnected, and though a
\* reset leaves the rows of other runs in place, until a page is reloaded or a
\* shard rebuilt (forward(), on_frame and generate()).
THEOREM ContextHolds == Spec => [](Undisturbed => ContextIsThisRun)
<1>1. ContextInv => (Undisturbed => ContextIsThisRun)
  BY DEF ContextInv, Context, TranscriptSound
<1> QED
  BY <1>1, ContextInvariant, PTL

-----------------------------------------------------------------------------
(* Pipeline implements TokenStream, step by step *)

LEMMA StreamTranscript ==
  ASSUME transcript \in Seq(Frame)
  PROVE  LET shown == [i \in DOMAIN transcript |-> Shown(transcript[i])] IN
         /\ Len(shown) = Len(transcript)
         /\ \A f : transcript' = Append(transcript, f) =>
              [i \in DOMAIN transcript' |-> Shown(transcript'[i])]
                = Append(shown, Shown(f))
  OBVIOUS

LEMMA InitStream == Init => Stream!Init
  BY DEF Init, Stream!Init, generating

\* A reply that is accepted is the token the promise asks for next.
LEMMA AcceptProduces ==
  ASSUME Start, Calm, Accept
  PROVE  Stream!Produce
<1>1. /\ transcript \in Seq(Frame) /\ mail \in Frame
      /\ pc = "await" => pos \in 0 .. MaxTokens /\ pos # MaxTokens
      /\ MaxTokens \in Nat
  BY StartFacts, BoundsAssumption DEF TypeOK, CoordTypeOK
<1>2. /\ transcript' = Append(transcript, mail) /\ mail # NoFrame
      /\ pc = "await" /\ UNCHANGED run
  BY TranscriptStep, LoopStep DEF Accept
<1>3. mail.run = run /\ mail.pos = pos /\ mail.clean
  BY <1>2, MailAnswers
<1>4. Len(transcript) = pos
  BY <1>2, StartFacts DEF TranscriptSound, generating
<1> DEFINE shown == [i \in DOMAIN transcript |-> Shown(transcript[i])]
<1>5. /\ Len(shown) = pos
      /\ [i \in DOMAIN transcript' |-> Shown(transcript'[i])] = Append(shown, Shown(mail))
  BY <1>1, <1>2, <1>4, StreamTranscript
<1>6. Shown(mail) = Stream!TokenFor(run, pos)
  <2>1. mail.clean = TRUE
    BY <1>1, <1>3 DEF Frame
  <2> QED
    BY <1>3, <2>1 DEF Shown, Stream!TokenFor
<1>7. pos < MaxTokens
  BY <1>1, <1>2
<1> HIDE DEF shown
<1>8. generating /\ generating' \in BOOLEAN
  BY <1>2 DEF generating
<1>9. /\ Len(shown) < MaxTokens
      /\ [i \in DOMAIN transcript' |-> Shown(transcript'[i])]
           = Append(shown, Stream!TokenFor(run, Len(shown)))
  BY <1>5, <1>6, <1>7
<1> QED
  BY <1>2, <1>8, <1>9 DEF Stream!Produce, shown

\* A run starts with an empty transcript, and only when no other is under way.
LEMMA GenerateStarts ==
  ASSUME Start, Calm, Generate
  PROVE  Stream!Start
<1>1. transcript' = <<>> /\ run' = run + 1
  BY TranscriptStep
<1> QED
  BY <1>1 DEF Generate, generating, Stream!Start

\* Everything else ends the run or is not seen.
LEMMA StreamStep ==
  ASSUME Start, Calm
  PROVE  [Stream!Next]_(Stream!vars)
<1>1. CASE Generate
  BY <1>1, GenerateStarts DEF Stream!Next
<1>2. CASE Accept
  BY <1>2, AcceptProduces DEF Stream!Next
<1>3. CASE ~Generate /\ ~Accept
  <2>1. UNCHANGED transcript /\ UNCHANGED run /\ (generating' => generating)
    BY <1>3, TranscriptStep, LoopStep
  <2>2. CASE UNCHANGED generating
    BY <2>1, <2>2 DEF Stream!vars
  <2>3. CASE generating /\ ~generating'
    BY <2>1, <2>3 DEF Stream!Next, Stream!Stop
  <2> QED
    BY <2>1, <2>2, <2>3 DEF generating
<1> QED
  BY <1>1, <1>2, <1>3

\* While no page is reloaded and no shard rebuilt, the loop keeps the promise of
\* TokenStream whatever the link, the worker and the user do: what a run shows
\* is, at each moment, one clean token for each position so far, in order, and
\* none of another run (generate(), on_token_frame and process_activation).
THEOREM LoopImplementsStream ==
  Spec /\ []Undisturbed => Stream!Init /\ [][Stream!Next]_(Stream!vars)
<1>1. ContextInv /\ Undisturbed /\ Undisturbed' /\ [Next]_vars
        => [Stream!Next]_(Stream!vars)
  BY CalmStep, StreamStep DEF ContextInv
<1> QED
  BY <1>1, InitStream, ContextInvariant, PTL DEF Spec

-----------------------------------------------------------------------------
(* The sampler *)

\* What the recursion of Cumulative says.
IsSum(f, w, n) == f[n] = IF n = 0 THEN 0 ELSE f[n - 1] + w[n]

LEMMA CumulativeIs ==
  ASSUME NEW w \in Seq(Nat)
  PROVE  /\ Cumulative(w) \in [0 .. Len(w) -> Nat]
         /\ \A n \in 0 .. Len(w) : IsSum(Cumulative(w), w, n)
<1> DEFINE N == Len(w)
           Step(f) == [n \in 0 .. N |-> IF n = 0 THEN 0 ELSE f[n - 1] + w[n]]
           Partly(f, n) ==
             f \in [0 .. N -> Nat] /\ \A i \in 0 .. n : IsSum(f, w, i)
           S == {n \in 0 .. N : \E f : Partly(f, n)}
<1>1. N \in Nat /\ \A n \in 1 .. N : w[n] \in Nat
  OBVIOUS
<1> HIDE DEF N, Partly
<1>2. 0 \in S
  <2>1. Partly([n \in 0 .. N |-> 0], 0)
    BY <1>1 DEF Partly, IsSum
  <2>2. \E f : Partly(f, 0)
    BY <2>1
  <2> QED
    BY <1>1, <2>2
<1>3. ASSUME NEW n \in 0 .. N - 1, n \in S PROVE n + 1 \in S
  <2>1. PICK f : Partly(f, n)
    BY <1>3
  <2> DEFINE v == f[n] + w[n + 1]
             g == [f EXCEPT ![n + 1] = v]
  <2>2. n \in Nat /\ n \in 0 .. N /\ n + 1 \in 0 .. N /\ n + 1 \in 1 .. N
        /\ n + 1 # 0 /\ (n + 1) - 1 = n
    BY <1>1, <1>3
  <2>3. f \in [0 .. N -> Nat]
    BY <2>1 DEF Partly
  <2>30. v \in Nat
    <3>1. f[n] \in Nat /\ w[n + 1] \in Nat
      BY <1>1, <2>2, <2>3
    <3> QED
      BY <3>1
  <2> HIDE DEF v
  <2>4. g \in [0 .. N -> Nat] /\ g[n + 1] = v /\ \A i \in 0 .. n : g[i] = f[i]
    BY <2>2, <2>3, <2>30
  <2> HIDE DEF g
  <2>5. IsSum(g, w, n + 1)
    <3>1. g[n] = f[n]
      BY <2>2, <2>4
    <3>2. g[n + 1] = g[(n + 1) - 1] + w[n + 1]
      BY <2>2, <2>4, <3>1 DEF v
    <3> QED
      BY <2>2, <3>2 DEF IsSum
  <2>6. ASSUME NEW i \in 0 .. n
        PROVE  IsSum(g, w, i)
    <3>1. IsSum(f, w, i)
      BY <2>1 DEF Partly
    <3>2. g[i] = f[i] /\ (i # 0 => g[i - 1] = f[i - 1])
      BY <2>2, <2>4
    <3> QED
      BY <3>1, <3>2 DEF IsSum
  <2>7. \A i \in 0 .. n + 1 : i \in 0 .. n \/ i = n + 1
    BY <2>2
  <2>8. Partly(g, n + 1)
    BY <2>4, <2>5, <2>6, <2>7 DEF Partly
  <2>9. \E h : Partly(h, n + 1)
    BY <2>8
  <2> QED
    BY <2>2, <2>9
<1>4. N \in S
  <2>1. \A n \in 0 .. N : n \in S
    BY <1>1, <1>2, <1>3, UpTo
  <2> QED
    BY <1>1, <2>1
<1>5. PICK f : Partly(f, N)
  BY <1>4
<1>6. f = Step(f)
  BY <1>5 DEF Partly, IsSum
<1> DEFINE F == CHOOSE g : g = Step(g)
<1>7. F = Step(F)
  BY <1>6
<1>8. Cumulative(w) = F
  BY DEF Cumulative, N
<1> HIDE DEF F
<1>9. ASSUME NEW n \in 0 .. N
      PROVE  IsSum(F, w, n)
  BY <1>7 DEF IsSum
<1> DEFINE Good == {n \in 0 .. N : F[n] \in Nat}
<1>10. 0 \in Good
  <2>1. 0 \in 0 .. N
    BY <1>1
  <2>2. F[0] = 0
    BY <1>9, <2>1 DEF IsSum
  <2> QED
    BY <2>1, <2>2
<1>11. ASSUME NEW n \in 0 .. N - 1, n \in Good PROVE n + 1 \in Good
  <2>1. n + 1 \in 0 .. N /\ n + 1 \in 1 .. N /\ n + 1 # 0 /\ (n + 1) - 1 = n
    BY <1>1, <1>11
  <2>2. F[n + 1] = F[n] + w[n + 1]
    BY <1>9, <2>1 DEF IsSum
  <2>3. F[n] \in Nat /\ w[n + 1] \in Nat
    BY <1>1, <1>11, <2>1
  <2> QED
    BY <2>1, <2>2, <2>3
<1>12. \A n \in 0 .. N : F[n] \in Nat
  <2>1. \A n \in 0 .. N : n \in Good
    BY <1>1, <1>10, <1>11, UpTo
  <2> QED
    BY <2>1
<1>13. F \in [0 .. N -> Nat]
  BY <1>7, <1>12
<1> QED
  BY <1>8, <1>9, <1>13 DEF N

\* The parts of the total follow each other and none is empty.
Parts(c, w, N) ==
  /\ N \in Nat /\ c[0] = 0
  /\ \A i \in 0 .. N : c[i] \in Nat
  /\ \A i \in 1 .. N : c[i] = c[i - 1] + w[i] /\ w[i] \in Nat /\ w[i] >= 1

LEMMA CumulativeParts ==
  ASSUME NEW w \in Seq(Nat \ {0})
  PROVE  Parts(Cumulative(w), w, Len(w))
<1>1. w \in Seq(Nat) /\ Len(w) \in Nat /\ \A i \in 1 .. Len(w) : w[i] \in Nat \ {0}
  OBVIOUS
<1>2. /\ Cumulative(w) \in [0 .. Len(w) -> Nat]
      /\ \A n \in 0 .. Len(w) : IsSum(Cumulative(w), w, n)
  BY <1>1, CumulativeIs
<1> DEFINE c == Cumulative(w)
<1> HIDE DEF c
<1>3. c \in [0 .. Len(w) -> Nat] /\ \A n \in 0 .. Len(w) : IsSum(c, w, n)
  BY <1>2 DEF c
<1>4. c[0] = 0
  BY <1>1, <1>3 DEF IsSum
<1>5. ASSUME NEW i \in 1 .. Len(w)
      PROVE  c[i] = c[i - 1] + w[i] /\ w[i] \in Nat /\ w[i] >= 1
  <2>1. i \in 0 .. Len(w) /\ i # 0
    BY <1>1
  <2>2. c[i] = c[i - 1] + w[i]
    BY <1>3, <2>1 DEF IsSum
  <2>3. w[i] \in Nat \ {0}
    BY <1>1
  <2> QED
    BY <2>2, <2>3
<1>6. \A i \in 0 .. Len(w) : c[i] \in Nat
  BY <1>3
<1>7. Parts(c, w, Len(w))
  BY <1>1, <1>4, <1>5, <1>6 DEF Parts
<1> QED
  BY <1>7 DEF c

LEMMA PartsRise ==
  ASSUME NEW c, NEW w, NEW N, Parts(c, w, N)
  PROVE  \A j \in 0 .. N : \A i \in 0 .. j : c[i] <= c[j]
<1>1. /\ N \in Nat
      /\ \A i \in 0 .. N : c[i] \in Nat
      /\ \A i \in 1 .. N : c[i] = c[i - 1] + w[i] /\ w[i] \in Nat
  BY DEF Parts
<1> DEFINE S == {j \in 0 .. N : \A i \in 0 .. j : c[i] <= c[j]}
<1>2. 0 \in S
  <2>1. 0 \in 0 .. N /\ \A i \in 0 .. 0 : i = 0
    BY <1>1
  <2>2. c[0] <= c[0]
    BY <1>1, <2>1
  <2>3. \A i \in 0 .. 0 : c[i] <= c[0]
    BY <2>1, <2>2
  <2> QED
    BY <2>1, <2>3
<1>3. ASSUME NEW j \in 0 .. N - 1, j \in S PROVE j + 1 \in S
  <2>1. j + 1 \in 0 .. N /\ j + 1 \in 1 .. N /\ j \in 0 .. N /\ (j + 1) - 1 = j /\ j \in Nat
    BY <1>1
  <2>2. c[j + 1] = c[j] + w[j + 1] /\ w[j + 1] \in Nat /\ c[j] \in Nat /\ c[j + 1] \in Nat
    BY <1>1, <2>1
  <2>3. c[j] <= c[j + 1]
    BY <2>2
  <2>4. ASSUME NEW i \in 0 .. j + 1 PROVE c[i] <= c[j + 1]
    <3>1. CASE i = j + 1
      BY <2>2, <3>1
    <3>2. CASE i # j + 1
      <4>1. i \in 0 .. j /\ i \in 0 .. N
        BY <1>1, <2>1, <3>2
      <4>2. c[i] <= c[j] /\ c[i] \in Nat
        BY <1>1, <1>3, <4>1
      <4> QED
        BY <2>2, <2>3, <4>2
    <3> QED
      BY <3>1, <3>2
  <2> QED
    BY <2>1, <2>4
<1> HIDE DEF S
<1>4. \A j \in 0 .. N : j \in S
  BY <1>1, <1>2, <1>3, UpTo
<1> QED
  BY <1>4 DEF S

\* The first part the roll falls in is the one it is in.
Hit(c, N, roll) == {i \in 1 .. N : roll < c[i]}

LEMMA FirstHit ==
  ASSUME NEW c, NEW w, NEW N, Parts(c, w, N), N >= 1, NEW roll \in Nat, roll < c[N],
         NEW i \in 1 .. N
  PROVE  /\ Min(Hit(c, N, roll) \cup {N}) \in 1 .. N
         /\ Min(Hit(c, N, roll) \cup {N}) = i <=> c[i - 1] <= roll /\ roll < c[i]
<1> DEFINE H == Hit(c, N, roll) \cup {N}
           m == Min(H)
<1>1. N \in Nat /\ \A j \in 0 .. N : c[j] \in Nat
  BY DEF Parts
<1>2. H = Hit(c, N, roll) /\ H \subseteq 1 .. N /\ N \in H
  BY <1>1 DEF Hit
<1>3. H \subseteq Nat /\ H # {}
  BY <1>2
<1>4. \E x \in H : \A y \in H : x <= y
  BY <1>3, LeastNumber
<1> HIDE DEF H
<1>5. m \in H /\ \A y \in H : m <= y
  BY <1>4 DEF Min
<1>6. m \in 1 .. N /\ roll < c[m]
  BY <1>2, <1>5 DEF Hit
<1> HIDE DEF m
<1>7. c[m - 1] <= roll
  <2>1. CASE m = 1
    <3>1. m - 1 = 0 /\ c[0] = 0
      BY <2>1 DEF Parts
    <3> QED
      BY <3>1
  <2>2. CASE m # 1
    <3>1. m - 1 \in 1 .. N /\ m - 1 \in 0 .. N /\ ~(m <= m - 1)
      BY <1>1, <1>6, <2>2
    <3>2. m - 1 \notin H
      BY <1>5, <3>1
    <3>3. ~(roll < c[m - 1]) /\ c[m - 1] \in Nat
      BY <1>1, <1>2, <3>1, <3>2 DEF Hit
    <3> QED
      BY <3>3
  <2> QED
    BY <2>1, <2>2
<1>8. ASSUME c[i - 1] <= roll, roll < c[i] PROVE m = i
  <2>1. i \in H
    BY <1>2, <1>8 DEF Hit
  <2>2. m <= i
    BY <1>5, <2>1
  <2>3. ~(m < i)
    <3> SUFFICES ASSUME m < i PROVE FALSE
      OBVIOUS
    <3>1. i - 1 \in 0 .. N /\ m \in 0 .. i - 1 /\ m \in 0 .. N
      BY <1>1, <1>6
    <3>2. c[m] <= c[i - 1]
      BY <3>1, PartsRise
    <3>3. c[m] \in Nat /\ c[i - 1] \in Nat
      BY <1>1, <3>1
    <3> QED
      BY <1>6, <1>8, <3>2, <3>3
  <2> QED
    BY <1>6, <2>2, <2>3
<1> QED
  BY <1>6, <1>7, <1>8 DEF m, H

(* The ranking *)

LEMMA Ranked ==
  ASSUME NEW n \in Nat, n >= 1, NEW logits \in [1 .. n -> Values],
         NEW ranking \in Rankings(logits)
  PROVE  /\ logits \in Seq(Values) /\ Len(logits) = n /\ Tokens(logits) = 0 .. n - 1
         /\ \A t \in 0 .. n - 1 : Logit(logits, t) \in Values /\ Logit(logits, t) \in Int
         /\ ranking \in [1 .. n -> 0 .. n - 1]
         /\ ranking \in Seq(0 .. n - 1) /\ Len(ranking) = n
         /\ \A i, j \in 1 .. n : i # j => ranking[i] # ranking[j]
         /\ \A i \in 1 .. n - 1 : Logit(logits, ranking[i]) >= Logit(logits, ranking[i + 1])
<1>1. logits \in Seq(Values) /\ Len(logits) = n
  OBVIOUS
<1>2. Tokens(logits) = 0 .. n - 1
  BY <1>1 DEF Tokens
<1>3. \A t \in 0 .. n - 1 : Logit(logits, t) \in Values /\ Logit(logits, t) \in Int
  <2> SUFFICES ASSUME NEW t \in 0 .. n - 1
               PROVE  Logit(logits, t) \in Values
    BY SamplerAssumption
  <2>1. t + 1 \in 1 .. n
    OBVIOUS
  <2> QED
    BY <2>1 DEF Logit
<1>4. Cardinality(0 .. n - 1) = n
  <2>1. 0 \in Int /\ n - 1 \in Int /\ ~(0 > n - 1) /\ (n - 1) - 0 + 1 = n
    OBVIOUS
  <2> QED
    BY <2>1, FS_Interval
<1>5. ranking \in SetToSeqs(0 .. n - 1)
      /\ \A i \in 1 .. Len(ranking) - 1 :
           Logit(logits, ranking[i]) >= Logit(logits, ranking[i + 1])
  BY <1>2 DEF Rankings
<1>6. ranking \in [1 .. n -> 0 .. n - 1] /\ \A i, j \in 1 .. n : i # j => ranking[i] # ranking[j]
  BY <1>4, <1>5 DEF SetToSeqs
<1>7. ranking \in Seq(0 .. n - 1) /\ Len(ranking) = n
  BY <1>6
<1> QED
  BY <1>1, <1>2, <1>3, <1>5, <1>6, <1>7

Distinct(s, n) == \A i, j \in 1 .. n : i # j => s[i] # s[j]

\* Every token is in the ranking.
LEMMA AllRanked ==
  ASSUME NEW n \in Nat, n >= 1, NEW ranking \in [1 .. n -> 0 .. n - 1],
         Distinct(ranking, n), NEW t \in 0 .. n - 1
  PROVE  \E i \in 1 .. n : ranking[i] = t
<1>1. ranking \in Injection(1 .. n, 0 .. n - 1)
  BY DEF Injection, IsInjective, Distinct
<1>2. /\ IsFiniteSet(0 .. n - 1) /\ Cardinality(0 .. n - 1) = n /\ Cardinality(1 .. n) = n
  <2>1. 0 \in Int /\ n - 1 \in Int /\ ~(0 > n - 1) /\ (n - 1) - 0 + 1 = n
        /\ 1 \in Int /\ n \in Int /\ ~(1 > n) /\ n - 1 + 1 = n
    OBVIOUS
  <2> QED
    BY <2>1, FS_Interval
<1>3. ranking \in Surjection(1 .. n, 0 .. n - 1)
  BY <1>1, <1>2, FS_Injection
<1> QED
  BY <1>3 DEF Surjection

\* The logits fall along the ranking.
LEMMA RankingFalls ==
  ASSUME NEW n \in Nat, NEW v, \A i \in 1 .. n : v[i] \in Int,
         \A i \in 1 .. n - 1 : v[i] >= v[i + 1], NEW i \in 1 .. n
  PROVE  \A j \in i .. n : v[j] <= v[i]
<1> DEFINE S == {k \in 0 .. n - i : v[i + k] <= v[i]}
<1>1. 0 \in S
  <2>1. i + 0 = i /\ 0 \in 0 .. n - i /\ v[i] \in Int
    OBVIOUS
  <2>2. v[i] <= v[i]
    BY <2>1
  <2> QED
    BY <2>1, <2>2
<1>2. ASSUME NEW k \in 0 .. (n - i) - 1, k \in S PROVE k + 1 \in S
  <2>1. k + 1 \in 0 .. n - i /\ i + k \in 1 .. n - 1 /\ i + k \in 1 .. n /\ i + k + 1 \in 1 .. n
        /\ i + (k + 1) = i + k + 1
    OBVIOUS
  <2>2. v[i + k] >= v[i + k + 1] /\ v[i + k] <= v[i]
    BY <1>2, <2>1
  <2>3. v[i + k] \in Int /\ v[i + k + 1] \in Int /\ v[i] \in Int
    BY <2>1
  <2>4. v[i + (k + 1)] <= v[i]
    BY <2>1, <2>2, <2>3
  <2> QED
    BY <2>1, <2>4
<1> HIDE DEF S
<1>3. \A k \in 0 .. n - i : k \in S
  <2>1. n - i \in Nat
    OBVIOUS
  <2> QED
    BY <1>1, <1>2, <2>1, UpTo
<1>4. ASSUME NEW j \in i .. n PROVE v[j] <= v[i]
  <2>1. j - i \in 0 .. n - i /\ i + (j - i) = j
    OBVIOUS
  <2>2. v[i + (j - i)] <= v[i]
    BY <1>3, <2>1 DEF S
  <2> QED
    BY <2>1, <2>2
<1> QED
  BY <1>4

LEMMA ArgmaxIsLargest ==
  ASSUME NEW n \in Nat, n >= 1, NEW logits, Tokens(logits) = 0 .. n - 1,
         \A t \in 0 .. n - 1 : Logit(logits, t) \in Int
  PROVE  \A t \in 0 .. n - 1 : Logit(logits, t) <= Logit(logits, Argmax(logits))
<1> DEFINE v(t) == Logit(logits, t)
           First(m, t) == /\ t \in 0 .. m
                          /\ \A u \in 0 .. m : \/ v(t) > v(u)
                                               \/ v(t) = v(u) /\ t <= u
           S == {m \in 0 .. n - 1 : \E t : First(m, t)}
<1> HIDE DEF v
<1>0. \A t \in 0 .. n - 1 : v(t) \in Int
  BY DEF v
<1>1. 0 \in S
  <2>1. First(0, 0)
    <3>1. 0 \in 0 .. n - 1 /\ \A u \in 0 .. 0 : u = 0
      OBVIOUS
    <3> QED
      BY <1>0, <3>1
  <2>2. 0 \in 0 .. n - 1
    OBVIOUS
  <2> HIDE DEF First
  <2> QED
    BY <2>1, <2>2
<1>2. ASSUME NEW m \in 0 .. (n - 1) - 1, m \in S PROVE m + 1 \in S
  <2>1. PICK t : First(m, t)
    BY <1>2
  <2>2. /\ m + 1 \in 0 .. n - 1 /\ t \in 0 .. m /\ t \in 0 .. n - 1 /\ t \in 0 .. m + 1
        /\ \A u \in 0 .. m : u \in 0 .. n - 1
        /\ \A u \in 0 .. m + 1 : u \in 0 .. m \/ u = m + 1
        /\ ~(m + 1 <= t) /\ m + 1 \in 0 .. m + 1
    BY <2>1
  <2>3. v(t) \in Int /\ v(m + 1) \in Int /\ \A u \in 0 .. m : v(u) \in Int
    BY <1>0, <2>2
  <2>4. \A u \in 0 .. m : v(t) > v(u) \/ (v(t) = v(u) /\ t <= u)
    BY <2>1
  <2>5. CASE v(m + 1) > v(t)
    <3>1. \A u \in 0 .. m : v(m + 1) > v(u)
      BY <2>3, <2>4, <2>5
    <3>2. v(m + 1) = v(m + 1) /\ m + 1 <= m + 1
      BY <2>2
    <3>3. First(m + 1, m + 1)
      BY <2>2, <3>1, <3>2
    <3> HIDE DEF First
    <3> QED
      BY <2>2, <3>3
  <2>6. CASE ~(v(m + 1) > v(t))
    <3>1. v(t) > v(m + 1) \/ (v(t) = v(m + 1) /\ t <= m + 1)
      BY <2>2, <2>3, <2>6
    <3>2. First(m + 1, t)
      BY <2>2, <2>4, <3>1
    <3> HIDE DEF First
    <3> QED
      BY <2>2, <3>2
  <2> QED
    BY <2>5, <2>6
<1>3. n - 1 \in S
  <2>1. n - 1 \in Nat /\ n - 1 \in 0 .. n - 1
    OBVIOUS
  <2> HIDE DEF S
  <2>2. \A m \in 0 .. n - 1 : m \in S
    BY <1>1, <1>2, <2>1, UpTo
  <2> QED
    BY <2>1, <2>2
<1>4. PICK t : First(n - 1, t)
  BY <1>3
<1>5. Argmax(logits) = CHOOSE x \in 0 .. n - 1 : \A u \in 0 .. n - 1 :
                         v(x) > v(u) \/ (v(x) = v(u) /\ x <= u)
  BY DEF Argmax, v
<1>6. /\ Argmax(logits) \in 0 .. n - 1
      /\ \A u \in 0 .. n - 1 : v(Argmax(logits)) > v(u)
                               \/ (v(Argmax(logits)) = v(u) /\ Argmax(logits) <= u)
  BY <1>4, <1>5
<1>7. ASSUME NEW u \in 0 .. n - 1 PROVE v(u) <= v(Argmax(logits))
  <2>1. v(u) \in Int /\ v(Argmax(logits)) \in Int
    BY <1>0, <1>6
  <2>2. v(Argmax(logits)) > v(u) \/ v(Argmax(logits)) = v(u)
    BY <1>6
  <2> QED
    BY <2>1, <2>2
<1> QED
  BY <1>7 DEF v

(* The draw *)

LEMMA KeptSome ==
  ASSUME NEW n \in Nat, n >= 1, NEW logits, Len(logits) = n, NEW topK \in Nat
  PROVE  Kept(logits, topK) \in 1 .. n
<1>1. CASE topK = 0
  BY <1>1 DEF Kept
<1>2. CASE topK # 0
  <2>1. topK \in {topK, n} /\ n \in {topK, n}
    OBVIOUS
  <2>2. \E x \in {topK, n} : \A y \in {topK, n} : x <= y
    <3>1. CASE topK <= n
      BY <3>1
    <3>2. CASE ~(topK <= n)
      BY <3>2
    <3> QED
      BY <3>1, <3>2
  <2>3. Min({topK, n}) \in {topK, n} /\ \A y \in {topK, n} : Min({topK, n}) <= y
    BY <2>2 DEF Min
  <2>4. Min({topK, n}) \in 1 .. n
    BY <1>2, <2>3
  <2> QED
    BY <1>2, <2>4 DEF Kept
<1> QED
  BY <1>1, <1>2

\* The draw among the tokens kept.
DrawnByParts(logits, kept, k) ==
  LET c == Cumulative(Weights(logits, kept))
  IN /\ Parts(c, Weights(logits, kept), k)
     /\ \A roll : Draw(logits, kept, roll) = kept[Min(Hit(c, k, roll) \cup {k})]

LEMMA KeptDraw ==
  ASSUME NEW n \in Nat, NEW logits, \A t \in 0 .. n - 1 : Logit(logits, t) \in Values,
         NEW kept \in Seq(0 .. n - 1), NEW k \in Nat, k >= 1, Len(kept) = k
  PROVE  DrawnByParts(logits, kept, k)
<1> DEFINE w == Weights(logits, kept)
           c == Cumulative(w)
<1>1. w \in Seq(Nat \ {0}) /\ Len(w) = k
  <2>1. \A i \in 1 .. k : kept[i] \in 0 .. n - 1
    OBVIOUS
  <2>2. \A i \in 1 .. k : Exp[Logit(logits, kept[i])] \in Nat \ {0}
    BY <2>1, SamplerAssumption
  <2>3. w = [i \in 1 .. k |-> Exp[Logit(logits, kept[i])]]
    BY DEF Weights
  <2> QED
    BY <2>2, <2>3
<1> HIDE DEF w
<1>2. Parts(c, w, k)
  BY <1>1, CumulativeParts
<1>3. ASSUME NEW roll
      PROVE  Draw(logits, kept, roll) = kept[Min(Hit(c, k, roll) \cup {k})]
  <2>1. DOMAIN kept = 1 .. k
    OBVIOUS
  <2>2. {i \in DOMAIN kept : FallsIn(roll, w, i)} = Hit(c, k, roll)
    BY <2>1 DEF FallsIn, Hit
  <2> QED
    BY <2>2 DEF Draw, w
<1> QED
  BY <1>2, <1>3 DEF w, DrawnByParts

\* The rolls that draw the token at place i.
RollsOf(c, N, kept, i) ==
  {roll \in 0 .. c[N] - 1 : kept[Min(Hit(c, N, roll) \cup {N})] = kept[i]}

\* As many rolls draw a token as its part has.
LEMMA PartRolls ==
  ASSUME NEW c, NEW w, NEW N, Parts(c, w, N), N >= 1, NEW kept, Distinct(kept, N),
         NEW i \in 1 .. N
  PROVE  Cardinality(RollsOf(c, N, kept, i)) = w[i]
<1> DEFINE m(roll) == Min(Hit(c, N, roll) \cup {N})
           S == {roll \in 0 .. c[N] - 1 : kept[m(roll)] = kept[i]}
<1>1. /\ N \in Nat /\ (\A j \in 0 .. N : c[j] \in Nat)
      /\ c[i] = c[i - 1] + w[i] /\ w[i] \in Nat /\ w[i] >= 1
  BY DEF Parts
<1>2. i - 1 \in 0 .. N /\ i \in 0 .. N /\ N \in 0 .. N /\ i \in 0 .. N
  BY <1>1
<1>3. c[i - 1] \in Nat /\ c[i] \in Nat /\ c[N] \in Nat /\ c[i] <= c[N]
  BY <1>1, <1>2, PartsRise
<1>4. ASSUME NEW roll \in 0 .. c[N] - 1
      PROVE  kept[m(roll)] = kept[i] <=> roll \in c[i - 1] .. c[i] - 1
  <2>1. roll \in Nat /\ roll < c[N]
    BY <1>3
  <2>2. m(roll) \in 1 .. N /\ (m(roll) = i <=> c[i - 1] <= roll /\ roll < c[i])
    BY <2>1, FirstHit
  <2> HIDE DEF m
  <2>3. kept[m(roll)] = kept[i] <=> m(roll) = i
    BY <2>2 DEF Distinct
  <2>4. c[i - 1] <= roll /\ roll < c[i] <=> roll \in c[i - 1] .. c[i] - 1
    BY <1>3, <2>1
  <2> QED
    BY <2>2, <2>3, <2>4
<1>5. c[i - 1] .. c[i] - 1 \subseteq 0 .. c[N] - 1
  BY <1>3
<1> HIDE DEF m
<1>6. S = c[i - 1] .. c[i] - 1
  BY <1>4, <1>5
<1>7. Cardinality(c[i - 1] .. c[i] - 1) = w[i]
  <2>1. /\ c[i - 1] \in Int /\ c[i] - 1 \in Int /\ ~(c[i - 1] > c[i] - 1)
        /\ (c[i] - 1) - c[i - 1] + 1 = w[i]
    BY <1>1, <1>3
  <2> QED
    BY <2>1, FS_Interval
<1> QED
  BY <1>6, <1>7 DEF m, RollsOf

LEMMA DrawsAreFair ==
  ASSUME NEW n \in Nat, n >= 1, NEW logits \in [1 .. n -> Values], NEW topK \in Nat,
         NEW ranking \in Rankings(logits)
  PROVE  FairDraw(logits, topK, ranking)
<1> DEFINE k == Kept(logits, topK)
           kept == SubSeq(ranking, 1, k)
           rest == Tokens(logits) \ {kept[i] : i \in DOMAIN kept}
           w == Weights(logits, kept)
           c == Cumulative(w)
           total == c[Len(kept)]
           drawn(roll) == Min(Hit(c, k, roll) \cup {k})
<1>1. /\ Len(logits) = n /\ Tokens(logits) = 0 .. n - 1
      /\ \A t \in 0 .. n - 1 : Logit(logits, t) \in Values /\ Logit(logits, t) \in Int
      /\ ranking \in [1 .. n -> 0 .. n - 1]
      /\ ranking \in Seq(0 .. n - 1) /\ Len(ranking) = n
      /\ \A i, j \in 1 .. n : i # j => ranking[i] # ranking[j]
      /\ \A i \in 1 .. n - 1 : Logit(logits, ranking[i]) >= Logit(logits, ranking[i + 1])
  BY Ranked
<1>2. k \in 1 .. n
  BY <1>1, KeptSome
<1> HIDE DEF k
<1>3. kept \in Seq(0 .. n - 1) /\ Len(kept) = k /\ DOMAIN kept = 1 .. k
      /\ \A i \in 1 .. k : kept[i] = ranking[i]
  BY <1>1, <1>2
<1>4. Distinct(kept, k)
  <2>1. \A i \in 1 .. k : i \in 1 .. n
    BY <1>2
  <2> HIDE DEF kept
  <2> QED
    BY <1>1, <1>3, <2>1 DEF Distinct
<1>5. \A roll : Sample(logits, FALSE, topK, ranking, roll) = Draw(logits, kept, roll)
  <2>1. logits # <<>>
    BY <1>1
  <2> QED
    BY <2>1 DEF Sample, k
<1>6. Sample(logits, TRUE, topK, ranking, 0) = Argmax(logits)
  <2>1. logits # <<>>
    BY <1>1
  <2> QED
    BY <2>1 DEF Sample
<1> HIDE DEF kept
<1>7. Parts(c, w, k) /\ \A roll : Draw(logits, kept, roll) = kept[drawn(roll)]
  <2>1. DrawnByParts(logits, kept, k)
    <3>1. k \in Nat /\ k >= 1 /\ Len(kept) = k
      BY <1>2, <1>3
    <3> QED
      BY <1>1, <1>3, <3>1, KeptDraw
  <2> QED
    BY <2>1 DEF DrawnByParts
<1>8. ASSUME NEW i \in 1 .. k
      PROVE  Rolls(logits, topK, ranking, total, kept[i]) = Exp[Logit(logits, kept[i])]
  <2>1. w[i] = Exp[Logit(logits, kept[i])]
    BY <1>3 DEF Weights
  <2> HIDE DEF w
  <2>2. Cardinality(RollsOf(c, k, kept, i)) = w[i]
    <3> HIDE DEF c
    <3>1. Parts(c, w, k) /\ k >= 1
      BY <1>2, <1>7
    <3> QED
      BY <1>4, <3>1, PartRolls
  <2> HIDE DEF c
  <2>3. Rolls(logits, topK, ranking, total, kept[i]) =
          Cardinality(RollsOf(c, k, kept, i))
    <3>0. RollsOf(c, k, kept, i) =
            {roll \in 0 .. c[k] - 1 : kept[drawn(roll)] = kept[i]}
      BY DEF RollsOf
    <3> HIDE DEF drawn
    <3>1. total = c[k]
      BY <1>3
    <3> HIDE DEF total
    <3>2. {roll \in 0 .. total - 1 :
             Sample(logits, FALSE, topK, ranking, roll) = kept[i]}
            = {roll \in 0 .. c[k] - 1 : kept[drawn(roll)] = kept[i]}
      BY <1>5, <1>7, <3>1
    <3> QED
      BY <3>0, <3>2 DEF Rolls
  <2> QED
    BY <2>1, <2>2, <2>3
<1>9. ASSUME NEW t \in rest, NEW i \in 1 .. k
      PROVE  Logit(logits, t) <= Logit(logits, kept[i])
  <2>1. t \in 0 .. n - 1 /\ t \notin {kept[j] : j \in 1 .. k}
    BY <1>1, <1>3
  <2>2. PICK j \in 1 .. n : ranking[j] = t
    <3>1. Distinct(ranking, n) /\ ranking \in [1 .. n -> 0 .. n - 1]
      BY <1>1 DEF Distinct
    <3>2. t \in 0 .. n - 1
      BY <2>1
    <3> HIDE DEF rest
    <3> QED
      BY <3>1, <3>2, AllRanked
  <2>3. ~(j \in 1 .. k)
    BY <1>3, <2>1, <2>2
  <2>4. i \in 1 .. n /\ j \in i .. n
    BY <1>2, <2>3
  <2> DEFINE v == [x \in 1 .. n |-> Logit(logits, ranking[x])]
  <2>5. (\A x \in 1 .. n : v[x] \in Int) /\ \A x \in 1 .. n - 1 : v[x] >= v[x + 1]
    <3>1. \A x \in 1 .. n : v[x] \in Int
      BY <1>1
    <3>2. \A x \in 1 .. n - 1 : x \in 1 .. n /\ x + 1 \in 1 .. n
      OBVIOUS
    <3>3. \A x \in 1 .. n - 1 : v[x] >= v[x + 1]
      BY <1>1, <3>2
    <3> QED
      BY <3>1, <3>3
  <2>6. v[i] = Logit(logits, kept[i]) /\ v[j] = Logit(logits, t)
    BY <1>3, <2>2, <2>4
  <2> HIDE DEF v
  <2>7. v[j] <= v[i]
    BY <2>4, <2>5, RankingFalls
  <2> QED
    BY <2>6, <2>7
<1>10. Sample(logits, FALSE, topK, ranking, total) \notin rest
  <2>1. Hit(c, k, total) = {}
    <3>1. total = c[k] /\ k \in 0 .. k /\ (\A j \in 0 .. k : c[j] \in Nat)
      BY <1>2, <1>3, <1>7 DEF Parts
    <3> HIDE DEF c, total
    <3>2. \A i \in 1 .. k : i \in 0 .. k /\ c[i] <= c[k]
      <4>1. \A i \in 1 .. k : i \in 0 .. k
        BY <1>2
      <4>2. \A i \in 0 .. k : c[i] <= c[k]
        BY <1>7, <3>1, PartsRise
      <4> QED
        BY <4>1, <4>2
    <3>3. \A i \in 1 .. k : ~(total < c[i])
      <4> SUFFICES ASSUME NEW i \in 1 .. k PROVE ~(total < c[i])
        OBVIOUS
      <4>1. c[i] \in Nat /\ c[k] \in Nat /\ c[i] <= c[k]
        BY <3>1, <3>2
      <4> QED
        BY <3>1, <4>1
    <3> QED
      BY <3>3 DEF Hit
  <2>2. Min({k}) = k
    BY DEF Min
  <2>3. drawn(total) = k
    <3>1. Hit(c, k, total) \cup {k} = {k}
      BY <2>1
    <3> QED
      BY <2>2, <3>1
  <2> HIDE DEF drawn, total, c, w
  <2>4. Sample(logits, FALSE, topK, ranking, total) = kept[k]
    BY <1>5, <1>7, <2>3
  <2>5. k \in DOMAIN kept
    BY <1>2, <1>3
  <2> QED
    BY <2>4, <2>5
<1>11. \A t \in Tokens(logits) : Logit(logits, t) <= Logit(logits, Argmax(logits))
  BY <1>1, ArgmaxIsLargest
<1> HIDE DEF rest, total
<1>12. \A i \in DOMAIN kept :
         /\ Rolls(logits, topK, ranking, total, kept[i]) = Exp[Logit(logits, kept[i])]
         /\ \A t \in rest : Logit(logits, t) <= Logit(logits, kept[i])
  BY <1>3, <1>8, <1>9
<1> QED
  BY <1>6, <1>10, <1>11, <1>12 DEF FairDraw, kept, k, rest, total, c, w

\* The worker's sampler draws each token in proportion, for every logit vector,
\* every exponential and every cut.
THEOREM DrawsAreInProportion == Spec => []DrawsInProportion
<1>1. DrawsInProportion
  <2> SUFFICES ASSUME NEW logits \in AllLogits, NEW topK \in 0 .. Vocabulary + 1,
                      NEW ranking \in Rankings(logits)
               PROVE  FairDraw(logits, topK, ranking)
    BY DEF DrawsInProportion
  <2>1. PICK n \in 1 .. Vocabulary : logits \in [1 .. n -> Values]
    BY DEF AllLogits
  <2>2. n \in Nat /\ n >= 1 /\ topK \in Nat
    BY SamplerAssumption
  <2> QED
    BY <2>1, <2>2, DrawsAreFair
<1> QED
  BY <1>1, PTL
==============================================================================
