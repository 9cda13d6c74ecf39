-------------------------- MODULE JobProtocolProofs --------------------------
(***************************************************************************)
(* Theorems about JobProtocol, for any number of workers, jobs, tasks,     *)
(* points and calls: types, whom the queue answers, where the tasks of a   *)
(* call are: each in one place, and none outside of its call; and that     *)
(* each is evaluated with the state and at the point of its call.          *)
(***************************************************************************)
EXTENDS JobProtocol, TLAPS, FiniteSetTheorems, SequenceTheorems

USE DEF masterVars, queueVars, workerVars, channelVars

-----------------------------------------------------------------------------
(* Types *)

\* What a pop takes from the queue, and leaves in it, are tasks.
LEMMA RemoveAtType ==
    ASSUME NEW S, NEW s \in Seq(S), NEW i \in DOMAIN s
    PROVE  RemoveAt(s, i) \in Seq(S) /\ s[i] \in S
BY DEF RemoveAt

LEMMA InitTypeOK == Init => TypeOK
BY ConstantsAssumption
   DEF Init, TypeOK, MasterTypeOK, QueueTypeOK, WorkerTypeOK, ChannelTypeOK, Workers, Sent, Nothing,
       WorkerPoints

\* Sending an update changes the step of the publication and one channel.
LEMMA SendUpdateType ==
    ASSUME TypeOK, NEW point \in Sent, NEW next \in {"enqueue", "idle"},
           mPc # "idle", SendUpdate(point, next)
    PROVE  TypeOK'
<1> DEFINE u == [job |-> mJob, state |-> stateId[mJob], calculating |-> calculating[mJob], point |-> point]
<1>1. u \in Update
  BY DEF TypeOK, MasterTypeOK, Update
<1>2. MasterTypeOK'
  BY DEF TypeOK, MasterTypeOK, SendUpdate
<1>3. mw' \in [Workers -> Seq(Update)]
  <2>1. mw' = [mw EXCEPT ![mNext] = Append(@, u)]
    BY DEF SendUpdate
  <2>2. mNext \in Workers => Append(mw[mNext], u) \in Seq(Update)
    BY <1>1 DEF TypeOK, ChannelTypeOK
  <2> HIDE DEF u
  <2> QED BY <2>1, <2>2 DEF TypeOK, ChannelTypeOK
<1>4. ChannelTypeOK' /\ QueueTypeOK' /\ WorkerTypeOK'
  BY <1>3 DEF TypeOK, ChannelTypeOK, QueueTypeOK, WorkerTypeOK, SendUpdate
<1> QED BY <1>2, <1>4 DEF TypeOK

\* Receiving an update changes the worker's copy of one job and one channel.
LEMMA ReceiveUpdateType ==
    ASSUME TypeOK, NEW w \in Workers, ReceiveUpdate(w)
    PROVE  /\ wState' \in [Workers -> [Jobs -> Nat]]
           /\ wParams' \in [Workers -> WorkerPoints]
           /\ wPoint' \in [Workers -> [GradientJobs -> [Params -> Values]]]
           /\ wCalculating' \in [Workers -> [Jobs -> BOOLEAN]]
           /\ mw' \in [Workers -> Seq(Update)]
<1> DEFINE u == Head(mw[w])
<1>1. u \in Update
  BY DEF TypeOK, ChannelTypeOK, ReceiveUpdate
<1>2. u.job \in Jobs /\ u.state \in Nat /\ u.calculating \in BOOLEAN /\ u.point \in Sent
  BY <1>1 DEF Update
<1>3. /\ wState' = [wState EXCEPT ![w] = StatesAfter(w, u)]
      /\ wCalculating' = [wCalculating EXCEPT ![w][u.job] = u.calculating]
      /\ mw' = [mw EXCEPT ![w] = Tail(@)]
      /\ wParams' \in {wParams, [wParams EXCEPT ![w] = Overwritten(@, u.point)]}
      /\ \/ u.job \in GradientJobs /\ wPoint' = [wPoint EXCEPT ![w][u.job] = Overwritten(@, u.point)]
         \/ wPoint' = wPoint
  BY DEF ReceiveUpdate
<1> HIDE DEF u
<1>4. wState' \in [Workers -> [Jobs -> Nat]]
  BY <1>2, <1>3 DEF TypeOK, WorkerTypeOK, StatesAfter
<1>5. wPoint' \in [Workers -> [GradientJobs -> [Params -> Values]]]
  <2>1. wPoint \in [Workers -> [GradientJobs -> [Params -> Values]]]
    BY DEF TypeOK, WorkerTypeOK
  <2>2. ASSUME u.job \in GradientJobs PROVE Overwritten(wPoint[w][u.job], u.point) \in [Params -> Values]
    BY <1>2, <2>1, <2>2 DEF Overwritten, Sent
  <2> DEFINE P == [Params -> Values]
  <2>3. /\ wPoint \in [Workers -> [GradientJobs -> P]]
        /\ u.job \in GradientJobs => Overwritten(wPoint[w][u.job], u.point) \in P
    BY <2>1, <2>2
  <2> HIDE DEF P
  <2>4. wPoint' \in [Workers -> [GradientJobs -> P]]
    <3>1. CASE u.job \in GradientJobs /\ wPoint' = [wPoint EXCEPT ![w][u.job] = Overwritten(@, u.point)]
      <4> DEFINE value == Overwritten(wPoint[w][u.job], u.point)
      <4>1. wPoint' = [wPoint EXCEPT ![w] = [wPoint[w] EXCEPT ![u.job] = value]] /\ value \in P
        BY <2>3, <3>1
      <4> HIDE DEF value
      <4> QED BY <2>3, <3>1, <4>1
    <3> QED BY <1>3, <2>3, <3>1
  <2> QED BY <2>4 DEF P
<1>6. wCalculating' \in [Workers -> [Jobs -> BOOLEAN]]
  BY <1>2, <1>3 DEF TypeOK, WorkerTypeOK
<1>7. mw' \in [Workers -> Seq(Update)]
  BY <1>3 DEF TypeOK, ChannelTypeOK, ReceiveUpdate
<1>8. wParams' \in [Workers -> WorkerPoints]
  <2>1. wParams \in [Workers -> WorkerPoints]
    BY DEF TypeOK, WorkerTypeOK
  <2>2. Overwritten(wParams[w], u.point) \in WorkerPoints
    BY <1>2, <2>1 DEF Overwritten, Sent, WorkerPoints
  <2> QED BY <1>3, <2>1, <2>2
<1> QED BY <1>4, <1>5, <1>6, <1>7, <1>8

LEMMA MasterNextTypeOK ==
    ASSUME TypeOK, (\E j \in Jobs, p \in Points : Call(j, p)) \/ MasterNext
    PROVE  TypeOK'
<1>1. ASSUME NEW j \in Jobs, NEW p \in Points, Call(j, p) PROVE TypeOK'
  <2>1. MasterTypeOK'
    <3>1. calls' \in 0 .. MaxCalls
      BY <1>1, ConstantsAssumption DEF TypeOK, MasterTypeOK, Call, StartGradient, StartLikelihood
    <3>2. stateId' \in [Jobs -> Nat]
      <4>1. stateId' \in {stateId, [stateId EXCEPT ![j] = @ + 1]}
        BY <1>1 DEF Call, StartGradient, StartLikelihood
      <4>2. stateId \in [Jobs -> Nat]
        BY DEF TypeOK, MasterTypeOK
      <4> QED BY <4>1, <4>2
    <3>5. saved' \in [Jobs -> Points] /\ calculating' \in [Jobs -> BOOLEAN]
      <4>1. saved' \in {saved, [saved EXCEPT ![j] = p]}
        BY <1>1 DEF Call, StartGradient, StartLikelihood
      <4>2. calculating' \in {calculating, [calculating EXCEPT ![j] = TRUE]}
        BY <1>1 DEF Call, StartGradient, StartLikelihood
      <4> QED BY <4>1, <4>2 DEF TypeOK, MasterTypeOK
    <3>3. mPc' \in {"publish", "enqueue"} /\ mJob' \in Jobs /\ mPoint' \in Points /\ mNext' \in Nat
      BY <1>1 DEF Call, StartGradient, StartLikelihood
    <3>4. received' \in Seq(Result) /\ outstanding' \in [Jobs -> Int]
      BY <1>1 DEF TypeOK, MasterTypeOK, Call, StartGradient, StartLikelihood
    <3>6. toUpdate' \in Sent
      <4>1. p \in [Params -> Values]
        BY ConstantsAssumption
      <4>2. toUpdate' = p \/ toUpdate' = [i \in Params |-> IF i \in Changed(j, p) THEN p[i] ELSE NotSent]
        BY <1>1 DEF Call, StartGradient, StartLikelihood
      <4> QED BY <4>1, <4>2 DEF Sent
    <3>7. moved' \in [Jobs -> SUBSET Params]
      <4>1. moved \in [Jobs -> SUBSET Params] /\ Changed(j, p) \subseteq Params
        BY DEF TypeOK, MasterTypeOK, Changed
      <4> DEFINE params == IF j \in GradientJobs THEN Params ELSE Changed(j, p)
      <4>2. params \subseteq Params /\ moved' = MovedBy(j, params)
        BY <1>1, <4>1 DEF Call
      <4> HIDE DEF params
      <4> QED BY <4>1, <4>2 DEF MovedBy
    <3> QED BY <3>1, <3>2, <3>3, <3>4, <3>5, <3>6, <3>7 DEF MasterTypeOK
  <2> QED
    BY <1>1, <2>1 DEF TypeOK, Call, StartGradient, StartLikelihood, QueueTypeOK, WorkerTypeOK, ChannelTypeOK
<1>2. CASE Publish
  BY <1>2, SendUpdateType DEF Publish, TypeOK, MasterTypeOK
<1>3. CASE Enqueue
  <2>1. MasterTypeOK' /\ QueueTypeOK' /\ WorkerTypeOK'
    BY <1>3 DEF TypeOK, Enqueue, MasterTypeOK, QueueTypeOK, WorkerTypeOK
  <2>2. [job |-> mJob, state |-> stateId[mJob], task |-> mNext] \in JobTask
    BY <1>3 DEF TypeOK, MasterTypeOK, Enqueue, MoreTasks, JobTask
  <2>3. mq' \in Seq(JobTask)
    BY <1>3, <2>2 DEF TypeOK, Enqueue, ChannelTypeOK
  <2> QED
    BY <1>3, <2>1, <2>3 DEF TypeOK, Enqueue, ChannelTypeOK
<1>4. CASE StartGather
  <2>1. mJob \in Jobs /\ NTasks[mJob] \in Int
    <3>1. mJob \in Jobs
      BY <1>4 DEF TypeOK, MasterTypeOK, StartGather
    <3> QED BY <3>1, ConstantsAssumption
  <2>2. outstanding' \in [Jobs -> Int]
    <3>1. outstanding' = [outstanding EXCEPT ![mJob] = NTasks[mJob]]
      BY <1>4 DEF StartGather
    <3>2. outstanding \in [Jobs -> Int]
      BY DEF TypeOK, MasterTypeOK
    <3> QED BY <2>1, <3>1, <3>2
  <2> QED
    BY <1>4, <2>2 DEF TypeOK, StartGather, MasterTypeOK, QueueTypeOK, WorkerTypeOK, ChannelTypeOK
<1>5. ASSUME NEW w \in Workers, Retrieve(w) PROVE TypeOK'
  <2> DEFINE r == Head(wm[w])
  <2>1. r \in Result /\ Tail(wm[w]) \in Seq(Result)
    BY <1>5 DEF TypeOK, ChannelTypeOK, Retrieve
  <2>2. r.job \in Jobs
    BY <2>1 DEF Result
  <2>3. /\ outstanding' = [outstanding EXCEPT ![r.job] = @ - 1]
        /\ received' = Append(received, r)
        /\ wm' = [wm EXCEPT ![w] = Tail(@)]
        /\ mPc = "gather" /\ mPc' \in {"gather", "finish"}
        /\ \/ /\ calculating' = [calculating EXCEPT ![mJob] = FALSE]
              /\ stateId' = [stateId EXCEPT ![mJob] = @ + 1]
           \/ UNCHANGED <<calculating, stateId>>
        /\ UNCHANGED <<mJob, mPoint, mNext, calls, saved, toUpdate, moved, mq, wq, qw, mw, queueVars, workerVars>>
    BY <1>5 DEF Retrieve
  <2>4. MasterTypeOK'
    <3>1. outstanding' \in [Jobs -> Int]
      <4>1. outstanding \in [Jobs -> Int]
        BY DEF TypeOK, MasterTypeOK
      <4> QED BY <2>2, <2>3, <4>1
    <3>3. received' \in Seq(Result)
      BY <2>1, <2>3 DEF TypeOK, MasterTypeOK
    <3>2. calculating' \in [Jobs -> BOOLEAN] /\ stateId' \in [Jobs -> Nat]
      <4>1. stateId \in [Jobs -> Nat] /\ calculating \in [Jobs -> BOOLEAN] /\ mJob \in Jobs
        BY <2>3 DEF TypeOK, MasterTypeOK
      <4>2. calculating' \in {calculating, [calculating EXCEPT ![mJob] = FALSE]}
        BY <2>3
      <4>3. stateId' \in {stateId, [stateId EXCEPT ![mJob] = @ + 1]}
        BY <2>3
      <4>4. calculating' \in [Jobs -> BOOLEAN]
        BY <4>1, <4>2
      <4>5. stateId' \in [Jobs -> Nat]
        BY <4>1, <4>3
      <4> QED BY <4>4, <4>5
    <3> QED BY <2>3, <3>1, <3>2, <3>3 DEF TypeOK, MasterTypeOK
  <2>5. ChannelTypeOK'
    BY <2>1, <2>3 DEF TypeOK, ChannelTypeOK
  <2> QED
    BY <2>3, <2>4, <2>5 DEF TypeOK, QueueTypeOK, WorkerTypeOK
<1>6. CASE PublishFinished
  BY <1>6, SendUpdateType DEF PublishFinished, TypeOK, MasterTypeOK, Nothing, Sent
<1>7. CASE Reduce
  BY <1>7 DEF TypeOK, Reduce, MasterTypeOK, QueueTypeOK, WorkerTypeOK, ChannelTypeOK
<1> QED
  BY <1>1, <1>2, <1>3, <1>4, <1>5, <1>6, <1>7 DEF MasterNext

LEMMA QueueNextTypeOK == ASSUME TypeOK, QueueNext PROVE TypeOK'
<1>1. CASE QueuePoll
  <2>1. QueueReadable \subseteq 0 .. NWorkers
    BY ConstantsAssumption DEF QueueReadable, Workers, MqIndex, WorkerIndex
  <2> QED
    BY <1>1, <2>1 DEF TypeOK, QueuePoll, MasterTypeOK, QueueTypeOK, WorkerTypeOK, ChannelTypeOK
<1>2. CASE ProcessMasterMessage
  <2>1. Head(mq) \in JobTask /\ Tail(mq) \in Seq(JobTask)
    BY <1>2 DEF TypeOK, ChannelTypeOK, ProcessMasterMessage
  <2>2. QueueTypeOK' /\ ChannelTypeOK'
    BY <1>2, <2>1 DEF TypeOK, QueueTypeOK, ChannelTypeOK, ProcessMasterMessage
  <2> QED
    BY <1>2, <2>2 DEF TypeOK, ProcessMasterMessage, MasterTypeOK, WorkerTypeOK
<1>3. ASSUME NEW w \in Workers, ProcessWorkerMessage(w) PROVE TypeOK'
  <2>1. Tail(wq[w]) \in Seq({"dequeue"})
    BY <1>3 DEF TypeOK, ChannelTypeOK, ProcessWorkerMessage
  <2>2. wq' \in [Workers -> Seq({"dequeue"})]
    BY <1>3, <2>1 DEF TypeOK, ChannelTypeOK, ProcessWorkerMessage
  <2>3. pending' \in Seq(JobTask) /\ \E a \in Q2W : qw' = [qw EXCEPT ![w] = Append(@, a)]
    <3>1. CASE pending = <<>> /\ pending' = pending
               /\ qw' = [qw EXCEPT ![w] = Append(@, [answer |-> "dequeue_rejected"])]
      BY <3>1 DEF TypeOK, QueueTypeOK, Q2W
    <3>2. ASSUME NEW i \in PopPositions, pending' = PendingAfterPop(i),
                 qw' = [qw EXCEPT ![w] = Append(@, [answer |-> "dequeue_accepted", task |-> pending[i]])]
          PROVE  pending' \in Seq(JobTask) /\ \E a \in Q2W : qw' = [qw EXCEPT ![w] = Append(@, a)]
      <4>1. i \in DOMAIN pending /\ pending \in Seq(JobTask)
        BY DEF PopPositions, TypeOK, QueueTypeOK
      <4>2. pending[i] \in JobTask /\ pending' \in Seq(JobTask)
        BY <3>2, <4>1, RemoveAtType DEF PendingAfterPop
      <4>3. [answer |-> "dequeue_accepted", task |-> pending[i]] \in Q2W
        BY <4>2 DEF Q2W
      <4> QED BY <3>2, <4>2, <4>3
    <3> QED BY <1>3, <3>1, <3>2 DEF ProcessWorkerMessage
  <2>4. qw' \in [Workers -> Seq(Q2W)]
    BY <2>3 DEF TypeOK, ChannelTypeOK
  <2> QED
    BY <1>3, <2>2, <2>3, <2>4
       DEF TypeOK, ProcessWorkerMessage, MasterTypeOK, QueueTypeOK, WorkerTypeOK, ChannelTypeOK
<1> QED
  BY <1>1, <1>2, <1>3 DEF QueueNext

\* A task's result, and where the derivatives leave the parameters.
LEMMA EvaluateType ==
    ASSUME TypeOK, NEW w \in Workers, wTask[w] \in JobTask
    PROVE  ResultOf(w) \in Result /\ ParamsAfter(w) \in WorkerPoints
<1> DEFINE t == wTask[w]
<1>1. t.job \in Jobs /\ t.task \in Nat /\ t.task < NTasks[t.job]
  BY DEF JobTask
<1>2. /\ wParams[w] \in WorkerPoints /\ wCalculating[w][t.job] \in BOOLEAN
      /\ t.job \in GradientJobs => wPoint[w][t.job] \in [Params -> Values]
  BY <1>1 DEF TypeOK, WorkerTypeOK
<1>3. ASSUME NEW p \in [Params -> Values]
      PROVE  p \in WorkerPoints /\ [p EXCEPT ![t.task] = Displaced] \in WorkerPoints
  BY DEF WorkerPoints
<1>4. ResultOf(w).point \in WorkerPoints /\ ParamsAfter(w) \in WorkerPoints
  BY <1>2, <1>3 DEF ResultOf, ParamsAfter
<1> QED BY <1>1, <1>2, <1>4 DEF Result, ResultOf

LEMMA WorkerNextTypeOK == ASSUME TypeOK, NEW w \in Workers, WorkerNext(w) PROVE TypeOK'
<1> USE DEF TypeOK, WorkerTypeOK
<1>1. CASE Ask(w)
  <2>1. WorkerTypeOK'
    BY <1>1 DEF Ask
  <2>2. MasterTypeOK' /\ QueueTypeOK'
    BY <1>1 DEF Ask, masterVars, queueVars, MasterTypeOK, QueueTypeOK
  <2>3. ChannelTypeOK'
    BY <1>1 DEF Ask, ChannelTypeOK
  <2> QED BY <2>1, <2>2, <2>3
<1>2. CASE WorkerPoll(w)
  BY <1>2 DEF WorkerPoll, WorkerReadable, MasterTypeOK, QueueTypeOK, ChannelTypeOK
<1>3. CASE HandleUpdate(w)
  <2>1. WorkerTypeOK'
    BY <1>3, ReceiveUpdateType DEF HandleUpdate, Resume
  <2> QED
    BY <1>3, <2>1, ReceiveUpdateType DEF HandleUpdate, MasterTypeOK, QueueTypeOK, ChannelTypeOK
<1>4. CASE HandleRejected(w)
  <2>1. WorkerTypeOK'
    BY <1>4 DEF HandleRejected, Resume
  <2>2. MasterTypeOK' /\ QueueTypeOK'
    BY <1>4 DEF HandleRejected, masterVars, queueVars, MasterTypeOK, QueueTypeOK
  <2>3. ChannelTypeOK'
    BY <1>4 DEF HandleRejected, ChannelTypeOK
  <2> QED BY <2>1, <2>2, <2>3
<1>5. CASE HandleAccepted(w)
  <2>1. Head(qw[w]) \in Q2W /\ Tail(qw[w]) \in Seq(Q2W)
    BY <1>5 DEF HandleAccepted, ChannelTypeOK
  <2>2. Head(qw[w]).task \in JobTask
    BY <1>5, <2>1 DEF HandleAccepted, Q2W
  <2>3. WorkerTypeOK'
    BY <1>5, <2>2 DEF HandleAccepted
  <2> QED
    BY <1>5, <2>1, <2>3 DEF HandleAccepted, MasterTypeOK, QueueTypeOK, ChannelTypeOK
<1>6. CASE AwaitState(w)
  <2>1. WorkerTypeOK'
    BY <1>6, ReceiveUpdateType DEF AwaitState
  <2> QED
    BY <1>6, <2>1, ReceiveUpdateType DEF AwaitState, MasterTypeOK, QueueTypeOK, ChannelTypeOK
<1>7. CASE Evaluate(w)
  <2>1. wTask[w] \in JobTask
    BY <1>7 DEF Evaluate
  <2>2. ResultOf(w) \in Result /\ ParamsAfter(w) \in WorkerPoints
    BY <2>1, EvaluateType DEF TypeOK
  <2>3. wm' = [wm EXCEPT ![w] = Append(@, ResultOf(w))]
    BY <1>7 DEF Evaluate
  <2>4. wm' \in [Workers -> Seq(Result)]
    BY <2>2, <2>3 DEF ChannelTypeOK
  <2>5. WorkerTypeOK'
    BY <1>7, <2>2 DEF Evaluate, Resume, LeftAfterTask
  <2> QED
    BY <1>7, <2>4, <2>5 DEF Evaluate, MasterTypeOK, QueueTypeOK, ChannelTypeOK
<1> QED
  BY <1>1, <1>2, <1>3, <1>4, <1>5, <1>6, <1>7 DEF WorkerNext

\* Every variable keeps its type; in particular a worker is only ever handed a
\* task that its job has, so that grad_[task] is within its bounds.
THEOREM TypeCorrect == Spec => []TypeOK
<1>1. TypeOK /\ [Next]_vars => TypeOK'
  <2>1. TypeOK /\ UNCHANGED vars => TypeOK'
    BY DEF vars, TypeOK, MasterTypeOK, QueueTypeOK, WorkerTypeOK, ChannelTypeOK
  <2> QED
    BY <2>1, MasterNextTypeOK, QueueNextTypeOK, WorkerNextTypeOK DEF Next
<1> QED
  BY InitTypeOK, <1>1, PTL DEF Spec

-----------------------------------------------------------------------------
(* Requests and answers *)

\* A worker only reaches the top of its loop, or evaluates a task, when it has
\* acknowledged an answer: this is what makes AskOnce inductive.
AskInv ==
    /\ AskOnce
    /\ \A w \in Workers : wPc[w] \in {"ask", "sync"} => acknowledged[w]

\* The part of AskInv about one worker.
AskInvOf(w) ==
    /\ Len(wq[w]) + Len(qw[w]) = IF acknowledged[w] THEN 0 ELSE 1
    /\ wPc[w] \in {"ask", "sync"} => acknowledged[w]

LEMMA AskInvParts == AskInv <=> \A w \in Workers : AskInvOf(w)
BY DEF AskInv, AskOnce, AskInvOf

LEMMA AskInvPartsNext == AskInv' <=> \A w \in Workers : AskInvOf(w)'
BY DEF AskInv, AskOnce, AskInvOf

LEMMA InitAskInv == Init => AskInv
BY DEF Init, AskInv, AskOnce

\* What a worker's requests depend on does not change.
AskUnchanged(w) ==
    wq'[w] = wq[w] /\ qw'[w] = qw[w] /\ acknowledged'[w] = acknowledged[w] /\ wPc'[w] = wPc[w]

LEMMA AskUnchangedInv == ASSUME NEW w \in Workers, AskInvOf(w), AskUnchanged(w) PROVE AskInvOf(w)'
BY DEF AskInvOf, AskUnchanged

\* Passing an answer on, the queue trades a request for it.
LEMMA AnswerAskInv ==
    ASSUME TypeOK, AskInv, NEW w \in Workers, ProcessWorkerMessage(w)
    PROVE  AskInv'
<1>1. /\ wq[w] \in Seq({"dequeue"}) /\ wq[w] # <<>> /\ qw[w] \in Seq(Q2W)
      /\ wq' = [wq EXCEPT ![w] = Tail(@)]
      /\ UNCHANGED <<acknowledged, wPc>>
  BY DEF TypeOK, ChannelTypeOK, ProcessWorkerMessage
<1>2. PICK a : qw' = [qw EXCEPT ![w] = Append(@, a)]
  BY DEF ProcessWorkerMessage
<1>3. DOMAIN wq = Workers /\ DOMAIN qw = Workers
  BY DEF TypeOK, ChannelTypeOK
<1>4. Len(wq'[w]) = Len(wq[w]) - 1 /\ Len(qw'[w]) = Len(qw[w]) + 1
  BY <1>1, <1>2, <1>3
<1>5. AskInvOf(w)'
  BY <1>1, <1>4, AskInvParts DEF AskInvOf, TypeOK, ChannelTypeOK
<1>6. ASSUME NEW v \in Workers, v # w PROVE AskInvOf(v)'
  BY <1>1, <1>2, <1>3, <1>6, AskInvParts, AskUnchangedInv DEF AskUnchanged
<1> QED BY <1>5, <1>6, AskInvPartsNext

\* A worker that takes an answer had a request under way, and has none now.
LEMMA AcknowledgeAskInv ==
    ASSUME TypeOK, AskInv, NEW w \in Workers, HandleRejected(w) \/ HandleAccepted(w)
    PROVE  AskInv'
<1>1. /\ wq[w] \in Seq({"dequeue"}) /\ qw[w] \in Seq(Q2W) /\ qw[w] # <<>>
      /\ qw' = [qw EXCEPT ![w] = Tail(@)] /\ wq' = wq
      /\ acknowledged' = [acknowledged EXCEPT ![w] = TRUE]
  BY DEF TypeOK, ChannelTypeOK, HandleRejected, HandleAccepted
<1>2. \A v \in Workers \ {w} : wPc'[v] = wPc[v]
  BY DEF TypeOK, WorkerTypeOK, HandleRejected, HandleAccepted, Resume
<1>3. DOMAIN qw = Workers /\ DOMAIN acknowledged = Workers
  BY DEF TypeOK, ChannelTypeOK, WorkerTypeOK
<1>4. Len(wq[w]) \in Nat /\ Len(qw[w]) \in Nat \ {0} /\ Len(qw'[w]) = Len(qw[w]) - 1
  BY <1>1, <1>3
<1>5. AskInvOf(w)'
  BY <1>1, <1>3, <1>4, AskInvParts DEF AskInvOf
<1>6. ASSUME NEW v \in Workers, v # w PROVE AskInvOf(v)'
  BY <1>1, <1>2, <1>3, <1>6, AskInvParts, AskUnchangedInv DEF AskUnchanged
<1> QED BY <1>5, <1>6, AskInvPartsNext

LEMMA NextAskInv == TypeOK /\ AskInv /\ [Next]_vars => AskInv'
<1> SUFFICES ASSUME TypeOK, AskInv, [Next]_vars PROVE AskInv'
  OBVIOUS
<1>1. CASE UNCHANGED <<wq, qw, acknowledged, wPc>>
  BY <1>1 DEF AskInv, AskOnce
<1>2. ASSUME NEW w \in Workers, ProcessWorkerMessage(w) PROVE AskInv'
  BY <1>2, AnswerAskInv
<1>3. ASSUME NEW w \in Workers, Ask(w) PROVE AskInv'
  <2>1. wq \in [Workers -> Seq({"dequeue"})] /\ qw \in [Workers -> Seq(Q2W)]
    BY DEF TypeOK, ChannelTypeOK
  <2>2. wq' = [wq EXCEPT ![w] = Append(@, "dequeue")] /\ qw' = qw
    BY <1>3 DEF Ask
  <2>3. wPc[w] = "ask" /\ wPc' = [wPc EXCEPT ![w] = "poll"]
        /\ acknowledged' = [acknowledged EXCEPT ![w] = FALSE]
        /\ DOMAIN wPc = Workers /\ DOMAIN acknowledged = Workers
    BY <1>3 DEF Ask, TypeOK, WorkerTypeOK
  <2>4. AskInvOf(w)'
    <3>1. Len(wq[w]) + Len(qw[w]) = 0
      BY <2>3, AskInvParts DEF AskInvOf
    <3>2. Len(wq'[w]) + Len(qw'[w]) = 1
      BY <2>1, <2>2, <3>1
    <3>3. acknowledged'[w] = FALSE /\ wPc'[w] = "poll"
      BY <2>3
    <3> QED BY <3>2, <3>3 DEF AskInvOf
  <2>5. ASSUME NEW v \in Workers, v # w PROVE AskInvOf(v)'
    BY <2>1, <2>2, <2>3, <2>5, AskInvParts, AskUnchangedInv DEF AskUnchanged
  <2> QED BY <2>4, <2>5, AskInvPartsNext
<1>4. ASSUME NEW w \in Workers, HandleRejected(w) \/ HandleAccepted(w) PROVE AskInv'
  BY <1>4, AcknowledgeAskInv
\* The remaining steps of a worker only move it within its loop.
<1>5. ASSUME NEW w \in Workers, WorkerPoll(w) \/ HandleUpdate(w) \/ Evaluate(w) PROVE AskInv'
  <2>1. UNCHANGED <<wq, qw, acknowledged>>
    BY <1>5 DEF WorkerPoll, HandleUpdate, Evaluate
  <2>2. \A v \in Workers \ {w} : wPc'[v] = wPc[v]
    BY <1>5 DEF TypeOK, WorkerTypeOK, WorkerPoll, HandleUpdate, Evaluate, Resume
  <2>3. wPc'[w] \in {"ask", "sync"} => acknowledged[w]
    BY <1>5 DEF TypeOK, WorkerTypeOK, AskInv, WorkerPoll, HandleUpdate, Evaluate, Resume
  <2> QED
    BY <2>1, <2>2, <2>3 DEF AskInv, AskOnce
<1> QED
  BY <1>1, <1>2, <1>3, <1>4, <1>5
     DEF Next, MasterNext, QueueNext, WorkerNext, Call, Publish, SendUpdate, Enqueue, StartGather,
         Retrieve, PublishFinished, Reduce, QueuePoll, ProcessMasterMessage, AwaitState, vars

\* A worker never has two requests or answers under way, and is never without
\* one while it waits: for any number of workers, jobs, tasks and calls.
THEOREM AsksOnce == Spec => []AskOnce
<1>1. AskInv => AskOnce
  BY DEF AskInv
<1> QED
  BY TypeCorrect, InitAskInv, NextAskInv, <1>1, PTL DEF Spec

-----------------------------------------------------------------------------
(* Where the tasks of a call are *)

TasksOf(s) == {s[i].task : i \in DOMAIN s}
Once(s) == \A i, k \in DOMAIN s : s[i].task = s[k].task => i = k

\* A worker holds the task it was answered with, or works on.
AtWorker(w) ==
    {qw[w][i].task.task : i \in Accepted(w)} \cup (IF wPc[w] = "sync" THEN {wTask[w].task} ELSE {})

\* Where the tasks of a call may be, and which are there.
InMq == <<"mq", 0>>
InPending == <<"pending", 0>>
InReceived == <<"received", 0>>
Holders == {InMq, InPending, InReceived} \cup ({"task", "result"} \X Workers)
Held ==
    [h \in Holders |->
        CASE h[1] = "mq"       -> TasksOf(mq)
          [] h[1] = "pending"  -> TasksOf(pending)
          [] h[1] = "received" -> TasksOf(received)
          [] h[1] = "task"     -> AtWorker(h[2])
          [] h[1] = "result"   -> TasksOf(wm[h[2]])]

Disjoint(held) == \A h, k \in DOMAIN held : h # k => held[h] \cap held[k] = {}

\* The number of tasks queued so far.
Queued == IF mPc = "enqueue" THEN mNext ELSE NTasks[mJob]

\* Each task queued is in one place, once; outside of a round there are none.
PlacesInv ==
    /\ Once(mq) /\ Once(pending) /\ Once(received) /\ \A w \in Workers : Once(wm[w])
    /\ Disjoint(Held)
    /\ InRound => \A h \in Holders : Held[h] \subseteq 0 .. Queued - 1
    /\ InRound => \A x \in 0 .. Queued - 1 : \E h \in Holders : x \in Held[h]
    /\ ~InRound => \A h \in Holders : h # InReceived => Held[h] = {}

\* How far the master is.
CountInv ==
    /\ mPc = "publish" => received = <<>>
    /\ mPc = "enqueue" => received = <<>> /\ mNext <= NTasks[mJob]
    /\ mPc = "gather" => outstanding[mJob] = NTasks[mJob] - Len(received) /\ mNext = 0
    /\ mPc \in {"publish", "finish"} => mNext \in Workers

\* What is under way was queued by this call.
OfThisCall(t) == t.job = mJob /\ t.state = stateId[mJob]
OwnInv ==
    /\ \A i \in DOMAIN mq : OfThisCall(mq[i])
    /\ \A i \in DOMAIN pending : OfThisCall(pending[i])
    /\ \A w \in Workers : \A i \in Accepted(w) : OfThisCall(qw[w][i].task)
    /\ \A w \in Workers : wPc[w] = "sync" => OfThisCall(wTask[w])
    /\ \A w \in Workers : \A i \in DOMAIN wm[w] : wm[w][i].job = mJob

CallInv == PlacesInv /\ CountInv /\ OwnInv

\* What a worker's poll said of a channel is true when it gets there.
PollInv ==
    \A w \in Workers :
        /\ wPc[w] = "batch" /\ "qw" \in wBatch[w] => qw[w] # <<>>
        /\ wPc[w] = "batch" \/ (wPc[w] = "sync" /\ ~skipSub[w]) =>
              ("mw" \in wBatch[w] => mw[w] # <<>>)

-----------------------------------------------------------------------------
(* What a poll returned *)

\* The part of PollInv about one worker.
PollInvOf(w) ==
    /\ wPc[w] = "batch" /\ "qw" \in wBatch[w] => qw[w] # <<>>
    /\ wPc[w] = "batch" \/ (wPc[w] = "sync" /\ ~skipSub[w]) =>
          ("mw" \in wBatch[w] => mw[w] # <<>>)

\* Others only add to what a worker may read.
LEMMA PollInvKept ==
    ASSUME NEW w \in Workers, PollInvOf(w),
           wPc'[w] = wPc[w], wBatch'[w] = wBatch[w], skipSub'[w] = skipSub[w],
           qw[w] # <<>> => qw'[w] # <<>>, mw[w] # <<>> => mw'[w] # <<>>
    PROVE  PollInvOf(w)'
BY DEF PollInvOf

\* A message that is added is there.
LEMMA AppendNotEmpty ==
    ASSUME NEW S, NEW f \in [Workers -> Seq(S)], NEW w, NEW e, NEW v \in Workers, f[v] # <<>>
    PROVE  [f EXCEPT ![w] = Append(@, e)][v] # <<>>
<1>1. CASE v = w
  <2>1. f[v] \in Seq(S) /\ [f EXCEPT ![w] = Append(@, e)][v] = Append(f[v], e)
    BY <1>1
  <2>2. Len(Append(f[v], e)) = Len(f[v]) + 1 /\ Len(f[v]) \in Nat
    BY <2>1
  <2> QED BY <2>1, <2>2
<1>2. CASE v # w
  BY <1>2
<1> QED BY <1>1, <1>2

\* Each step of a worker leaves it with a batch that is true.
LEMMA WorkerPollInv ==
    ASSUME TypeOK, PollInv, NEW w \in Workers, WorkerNext(w)
    PROVE  PollInv'
<1> USE DEF TypeOK, WorkerTypeOK, ChannelTypeOK
<1>0. PollInvOf(w)
  BY DEF PollInv, PollInvOf
<1>1. PollInvOf(w)'
  <2>1. CASE Ask(w)
    BY <2>1 DEF Ask, PollInvOf
  <2>2. CASE WorkerPoll(w)
    BY <2>2 DEF WorkerPoll, WorkerReadable, PollInvOf
  <2>3. CASE HandleUpdate(w)
    BY <2>3 DEF HandleUpdate, Resume, PollInvOf
  <2>4. CASE HandleRejected(w)
    BY <1>0, <2>4 DEF HandleRejected, Resume, PollInvOf
  <2>5. CASE HandleAccepted(w)
    BY <1>0, <2>5 DEF HandleAccepted, PollInvOf
  <2>6. CASE AwaitState(w)
    BY <2>6 DEF AwaitState, PollInvOf
  <2>7. CASE Evaluate(w)
    BY <1>0, <2>7 DEF Evaluate, Resume, LeftAfterTask, PollInvOf
  <2> QED BY <2>1, <2>2, <2>3, <2>4, <2>5, <2>6, <2>7 DEF WorkerNext
<1>2. ASSUME NEW v \in Workers, v # w PROVE PollInvOf(v)'
  <2>1. PollInvOf(v)
    BY DEF PollInv, PollInvOf
  <2>2. /\ wPc'[v] = wPc[v] /\ wBatch'[v] = wBatch[v] /\ skipSub'[v] = skipSub[v]
        /\ qw'[v] = qw[v] /\ mw'[v] = mw[v]
    BY <1>2 DEF WorkerNext, Ask, WorkerPoll, HandleUpdate, HandleRejected, HandleAccepted,
                AwaitState, Evaluate, Resume, ReceiveUpdate
  <2> QED BY <2>1, <2>2, PollInvKept
<1> QED BY <1>1, <1>2 DEF PollInv, PollInvOf

\* Every step of any process keeps what the polls returned true.
LEMMA NextPollInv == TypeOK /\ PollInv /\ [Next]_vars => PollInv'
<1> SUFFICES ASSUME TypeOK, PollInv, [Next]_vars PROVE PollInv'
  OBVIOUS
<1>1. CASE UNCHANGED <<wPc, wBatch, skipSub, qw, mw>>
  BY <1>1 DEF PollInv
<1>2. ASSUME NEW point, NEW next, SendUpdate(point, next) PROVE PollInv'
  <2> SUFFICES ASSUME NEW v \in Workers PROVE PollInvOf(v)'
    BY DEF PollInv, PollInvOf
  <2>1. PollInvOf(v)
    BY DEF PollInv, PollInvOf
  <2>2. PICK u : mw' = [mw EXCEPT ![mNext] = Append(@, u)]
    BY <1>2 DEF SendUpdate
  <2>3. mw[v] # <<>> => mw'[v] # <<>>
    BY <2>2, AppendNotEmpty DEF TypeOK, ChannelTypeOK
  <2> QED BY <1>2, <2>1, <2>3, PollInvKept DEF SendUpdate
<1>3. ASSUME NEW w \in Workers, ProcessWorkerMessage(w) PROVE PollInv'
  <2> SUFFICES ASSUME NEW v \in Workers PROVE PollInvOf(v)'
    BY DEF PollInv, PollInvOf
  <2>1. PollInvOf(v)
    BY DEF PollInv, PollInvOf
  <2>2. PICK a : qw' = [qw EXCEPT ![w] = Append(@, a)]
    BY <1>3 DEF ProcessWorkerMessage
  <2>3. qw[v] # <<>> => qw'[v] # <<>>
    BY <2>2, AppendNotEmpty DEF TypeOK, ChannelTypeOK
  <2> QED BY <1>3, <2>1, <2>3, PollInvKept DEF ProcessWorkerMessage
<1>4. ASSUME NEW w \in Workers, WorkerNext(w) PROVE PollInv'
  BY <1>4, WorkerPollInv
<1> QED
  BY <1>1, <1>2, <1>3, <1>4
     DEF Next, MasterNext, QueueNext, Call, Publish, Enqueue, StartGather, Retrieve,
         PublishFinished, Reduce, QueuePoll, ProcessMasterMessage, vars

\* A worker never waits in a read for a message its poll announced and it has
\* taken meanwhile (worker.cxx:71-76): for any number of workers and calls.
THEOREM ReadsWhatIsThere == Spec => []NoReadOfNothing
<1>1. Init => PollInv
  BY DEF Init, PollInv
<1>2. PollInv => NoReadOfNothing
  BY DEF PollInv, NoReadOfNothing
<1> QED
  BY <1>1, <1>2, TypeCorrect, NextPollInv, PTL DEF Spec

-----------------------------------------------------------------------------
(* Sequences of tasks *)

\* A task that is added to a sequence, and is new there.
LEMMA TasksAppend ==
    ASSUME NEW S, NEW s \in Seq(S), NEW e \in S
    PROVE  /\ TasksOf(Append(s, e)) = TasksOf(s) \cup {e.task}
           /\ Once(s) /\ e.task \notin TasksOf(s) => Once(Append(s, e))
<1> DEFINE a == Append(s, e)
<1>1. /\ DOMAIN s = 1 .. Len(s) /\ DOMAIN a = 1 .. Len(s) + 1 /\ Len(s) \in Nat
      /\ a[Len(s) + 1] = e /\ \A i \in DOMAIN s : a[i] = s[i]
  OBVIOUS
<1> HIDE DEF a
<1>2. \A i \in DOMAIN a : i = Len(s) + 1 \/ i \in DOMAIN s
  BY <1>1
<1>3. DOMAIN s \subseteq DOMAIN a /\ Len(s) + 1 \in DOMAIN a
  BY <1>1
<1>4. TasksOf(a) = TasksOf(s) \cup {e.task}
  BY <1>1, <1>2, <1>3 DEF TasksOf
<1>5. ASSUME Once(s), e.task \notin TasksOf(s) PROVE Once(a)
  <2> SUFFICES ASSUME NEW i \in DOMAIN a, NEW k \in DOMAIN a, a[i].task = a[k].task PROVE i = k
    BY DEF Once
  <2> QED BY <1>1, <1>2, <1>5 DEF Once, TasksOf
<1> QED BY <1>4, <1>5 DEF a

\* The first task of a sequence is taken.
LEMMA TasksTail ==
    ASSUME NEW S, NEW s \in Seq(S), s # <<>>, Once(s)
    PROVE  /\ Once(Tail(s)) /\ TasksOf(Tail(s)) = TasksOf(s) \ {Head(s).task}
           /\ Head(s).task \in TasksOf(s)
<1> DEFINE r == Tail(s)
<1>1. /\ DOMAIN s = 1 .. Len(s) /\ Len(s) \in Nat \ {0} /\ DOMAIN r = 1 .. Len(s) - 1
      /\ Head(s) = s[1] /\ \A k \in DOMAIN r : r[k] = s[k + 1]
  OBVIOUS
<1> HIDE DEF r
<1>2. \A k \in DOMAIN r : k + 1 \in DOMAIN s \ {1}
  BY <1>1
<1>3. \A l \in DOMAIN s \ {1} : l - 1 \in DOMAIN r /\ r[l - 1] = s[l]
  BY <1>1
<1>4. Once(r)
  BY <1>1, <1>2 DEF Once
<1>5. TasksOf(r) = TasksOf(s) \ {s[1].task}
  <2>1. ASSUME NEW k \in DOMAIN r PROVE r[k].task \in TasksOf(s) \ {s[1].task}
    <3>1. r[k] = s[k + 1] /\ k + 1 \in DOMAIN s /\ k + 1 # 1 /\ 1 \in DOMAIN s
      BY <1>1, <1>2
    <3> QED BY <3>1 DEF TasksOf, Once
  <2>2. ASSUME NEW l \in DOMAIN s, s[l].task # s[1].task PROVE s[l].task \in TasksOf(r)
    BY <1>3, <2>2 DEF TasksOf
  <2> QED BY <2>1, <2>2 DEF TasksOf
<1>6. s[1].task \in TasksOf(s)
  BY <1>1 DEF TasksOf
<1> QED BY <1>1, <1>4, <1>5, <1>6 DEF r

\* A task is taken from anywhere in a sequence.
LEMMA TasksRemoveAt ==
    ASSUME NEW S, NEW s \in Seq(S), NEW i \in DOMAIN s, Once(s)
    PROVE  /\ Once(RemoveAt(s, i)) /\ TasksOf(RemoveAt(s, i)) = TasksOf(s) \ {s[i].task}
           /\ s[i].task \in TasksOf(s)
           /\ \A k \in DOMAIN RemoveAt(s, i) : \E l \in DOMAIN s : RemoveAt(s, i)[k] = s[l]
<1> DEFINE r == RemoveAt(s, i)
           a == SubSeq(s, 1, i - 1)
           b == SubSeq(s, i + 1, Len(s))
<1>1. Len(s) \in Nat \ {0} /\ i \in 1 .. Len(s) /\ DOMAIN s = 1 .. Len(s)
  OBVIOUS
<1>2. a \in Seq(S) /\ Len(a) = i - 1 /\ \A k \in 1 .. i - 1 : a[k] = s[k]
  BY <1>1
<1>3. b \in Seq(S) /\ Len(b) = Len(s) - i /\ \A k \in 1 .. Len(s) - i : b[k] = s[i + k]
  BY <1>1
<1>4. r = a \o b
  BY DEF RemoveAt
<1> HIDE DEF a, b, r
<1>5. /\ r \in Seq(S) /\ Len(r) = Len(a) + Len(b)
      /\ \A k \in 1 .. Len(a) + Len(b) : r[k] = IF k <= Len(a) THEN a[k] ELSE b[k - Len(a)]
  BY <1>2, <1>3, <1>4, ConcatProperties
<1>6. DOMAIN r = 1 .. Len(s) - 1
  BY <1>1, <1>2, <1>3, <1>5
<1>7. ASSUME NEW k \in DOMAIN r PROVE r[k] = IF k < i THEN s[k] ELSE s[k + 1]
  <2>1. CASE k < i
    BY <1>1, <1>2, <1>3, <1>5, <1>6, <2>1
  <2>2. CASE ~(k < i)
    <3>1. k - (i - 1) \in 1 .. Len(s) - i /\ i + (k - (i - 1)) = k + 1
      BY <1>1, <1>6, <2>2
    <3>2. r[k] = b[k - (i - 1)]
      BY <1>1, <1>2, <1>3, <1>5, <1>6, <2>2
    <3> QED BY <1>3, <2>2, <3>1, <3>2
  <2> QED BY <2>1, <2>2
<1>8. \A k \in DOMAIN r : (IF k < i THEN k ELSE k + 1) \in DOMAIN s \ {i}
  BY <1>1, <1>6
<1>9. Once(r)
  BY <1>1, <1>6, <1>7 DEF Once
<1>10. ASSUME NEW k \in DOMAIN r
       PROVE  \E l \in DOMAIN s \ {i} : r[k] = s[l]
  BY <1>7, <1>8
<1>11. ASSUME NEW l \in DOMAIN s \ {i}
       PROVE  \E k \in DOMAIN r : r[k] = s[l]
  <2>1. CASE l < i
    <3>1. l \in DOMAIN r /\ r[l] = s[l]
      BY <1>1, <1>6, <1>7, <2>1
    <3> QED BY <3>1
  <2>2. CASE ~(l < i)
    <3>1. l - 1 \in DOMAIN r /\ r[l - 1] = s[l]
      BY <1>1, <1>6, <1>7, <2>2
    <3> QED BY <3>1
  <2> QED BY <2>1, <2>2
<1>12. TasksOf(r) = TasksOf(s) \ {s[i].task} /\ s[i].task \in TasksOf(s)
  BY <1>10, <1>11 DEF TasksOf, Once
<1> QED BY <1>9, <1>10, <1>12 DEF r

\* A task that moves from one place to another is still in one place.
LEMMA MoveDisjoint ==
    ASSUME NEW held, Disjoint(held), NEW a \in DOMAIN held, NEW b \in DOMAIN held, a # b,
           NEW t \in held[a],
           NEW next, DOMAIN next = DOMAIN held,
           next[a] = held[a] \ {t}, next[b] = held[b] \cup {t},
           \A h \in DOMAIN held \ {a, b} : next[h] = held[h]
    PROVE  Disjoint(next)
<1> SUFFICES ASSUME NEW h \in DOMAIN held, NEW k \in DOMAIN held, h # k,
                    NEW x \in next[h] \cap next[k]
             PROVE  FALSE
  BY DEF Disjoint
<1>1. \A g \in DOMAIN held : x \in next[g] => x \in held[g] \/ (g = b /\ x = t)
  OBVIOUS
<1>2. CASE x = t
  <2>1. \A g \in DOMAIN held : g # a => t \notin held[g]
    BY DEF Disjoint
  <2> QED BY <1>1, <1>2, <2>1
<1>3. CASE x # t
  BY <1>1, <1>3 DEF Disjoint
<1> QED BY <1>2, <1>3

\* As many different tasks as there are: all of them.
LEMMA AllReceived ==
    ASSUME NEW n \in Nat, NEW S, NEW s \in Seq(S), Len(s) = n, Once(s),
           TasksOf(s) \subseteq 0 .. n - 1
    PROVE  TasksOf(s) = 0 .. n - 1
<1> DEFINE f == [i \in 1 .. n |-> s[i].task]
<1>1. f \in Injection(1 .. n, 0 .. n - 1)
  BY DEF Injection, IsInjective, Once, TasksOf
<1>2. Cardinality(1 .. n) = n /\ Cardinality(0 .. n - 1) = n /\ IsFiniteSet(0 .. n - 1)
  <2>1. 0 \in Int /\ 1 \in Int /\ n \in Int /\ n - 1 \in Int
    OBVIOUS
  <2> QED BY <2>1, FS_Interval
<1>3. f \in Surjection(1 .. n, 0 .. n - 1)
  BY <1>1, <1>2, FS_Injection
<1>4. \A t \in 0 .. n - 1 : \E i \in 1 .. n : f[i] = t
  BY <1>3 DEF Surjection
<1> QED BY <1>4 DEF TasksOf

-----------------------------------------------------------------------------
(* The places of the tasks *)

\* The value of Held at each place, and what places there are.
LEMMA HeldAt ==
    /\ DOMAIN Held = Holders
    /\ InMq \in Holders /\ Held[InMq] = TasksOf(mq)
    /\ InPending \in Holders /\ Held[InPending] = TasksOf(pending)
    /\ InReceived \in Holders /\ Held[InReceived] = TasksOf(received)
    /\ \A w \in Workers :
          /\ <<"task", w>> \in Holders /\ Held[<<"task", w>>] = AtWorker(w)
          /\ <<"result", w>> \in Holders /\ Held[<<"result", w>>] = TasksOf(wm[w])
    /\ \A h \in Holders :
          h \in {InMq, InPending, InReceived} \/ \E w \in Workers : h \in {<<"task", w>>, <<"result", w>>}
    /\ InMq # InPending /\ InMq # InReceived /\ InPending # InReceived
    /\ \A w \in Workers : {<<"task", w>>, <<"result", w>>} \cap {InMq, InPending, InReceived} = {}
BY DEF Held, Holders, InMq, InPending, InReceived

\* The same of the places after a step.
LEMMA HeldAtNext ==
    /\ DOMAIN Held' = Holders
    /\ Held'[InMq] = TasksOf(mq') /\ Held'[InPending] = TasksOf(pending')
    /\ Held'[InReceived] = TasksOf(received')
    /\ \A w \in Workers : Held'[<<"task", w>>] = AtWorker(w)' /\ Held'[<<"result", w>>] = TasksOf(wm'[w])
BY DEF Held, Holders, InMq, InPending, InReceived, TasksOf

\* What a worker has is of its own channel and its own task.
LEMMA AtWorkerSame ==
    ASSUME NEW w \in Workers, qw'[w] = qw[w], wPc'[w] = "sync" <=> wPc[w] = "sync",
           wPc[w] = "sync" => wTask'[w] = wTask[w]
    PROVE  AtWorker(w)' = AtWorker(w)
BY DEF AtWorker, Accepted

\* A step that moves no task leaves every place as it is.
LEMMA HeldSame ==
    ASSUME UNCHANGED <<mq, pending, received, wm>>, \A w \in Workers : AtWorker(w)' = AtWorker(w)
    PROVE  Held' = Held
BY DEF Held, TasksOf

\* No task is on its way unless a place holds it.
LEMMA EmptyOwn ==
    ASSUME TypeOK, \A h \in Holders : h # InReceived => Held[h] = {}
    PROVE  /\ DOMAIN mq = {} /\ DOMAIN pending = {}
           /\ \A w \in Workers : Accepted(w) = {} /\ wPc[w] # "sync" /\ DOMAIN wm[w] = {}
<1>1. TasksOf(mq) = {} /\ TasksOf(pending) = {}
  BY HeldAt
<1>2. \A w \in Workers : AtWorker(w) = {} /\ TasksOf(wm[w]) = {}
  BY HeldAt
<1>3. DOMAIN mq = {} /\ DOMAIN pending = {}
  BY <1>1 DEF TasksOf
<1>4. \A w \in Workers : Accepted(w) = {} /\ wPc[w] # "sync"
  BY <1>2 DEF AtWorker
<1>5. \A w \in Workers : DOMAIN wm[w] = {}
  BY <1>2 DEF TasksOf
<1> QED BY <1>3, <1>4, <1>5

\* A task that moves within a round.
LEMMA MovePlaces ==
    ASSUME PlacesInv, NEW a \in Holders, NEW b \in Holders, a # b, a # InReceived,
           NEW t \in Held[a],
           Held'[a] = Held[a] \ {t}, Held'[b] = Held[b] \cup {t},
           \A h \in Holders \ {a, b} : Held'[h] = Held[h],
           UNCHANGED <<mPc, mJob, mNext>>,
           Once(mq'), Once(pending'), Once(received'), \A w \in Workers : Once(wm'[w])
    PROVE  PlacesInv'
<1>1. InRound /\ InRound' /\ Queued' = Queued
  BY DEF PlacesInv, InRound, Queued
<1>2. Disjoint(Held')
  <2> DEFINE held == Held
             next == Held'
  <2>1. Disjoint(held) /\ DOMAIN held = Holders /\ DOMAIN next = Holders
    BY HeldAt, HeldAtNext DEF PlacesInv
  <2>2. /\ a \in DOMAIN held /\ b \in DOMAIN held /\ t \in held[a]
        /\ next[a] = held[a] \ {t} /\ next[b] = held[b] \cup {t}
        /\ \A h \in DOMAIN held \ {a, b} : next[h] = held[h]
    BY <2>1
  <2> HIDE DEF held, next
  <2>3. Disjoint(next)
    BY <2>1, <2>2, MoveDisjoint
  <2> QED BY <2>3 DEF next
<1>3. ASSUME NEW h \in Holders PROVE Held'[h] \subseteq 0 .. Queued' - 1
  <2>1. \A k \in Holders : Held[k] \subseteq 0 .. Queued' - 1
    BY <1>1 DEF PlacesInv
  <2>2. t \in 0 .. Queued' - 1
    BY <2>1
  <2> QED BY <2>1, <2>2
<1>4. Disjoint(Held)'
  BY <1>2 DEF Disjoint
<1>5. /\ Once(mq)' /\ Once(pending)' /\ Once(received)' /\ (\A w \in Workers : Once(wm[w]))'
  BY DEF Once
<1>6. ASSUME NEW x \in 0 .. Queued' - 1 PROVE \E h \in Holders : x \in Held'[h]
  <2>1. PICK h \in Holders : x \in Held[h]
    BY <1>1, <1>6 DEF PlacesInv
  <2>2. CASE h = a
    BY <2>1, <2>2
  <2>3. CASE h # a
    BY <2>1, <2>3
  <2> QED BY <2>2, <2>3
<1> QED BY <1>1, <1>3, <1>4, <1>5, <1>6 DEF PlacesInv

-----------------------------------------------------------------------------
(* The steps of the queue and of the workers in a call *)

\* What AskInv says of a worker's request and answer.
LEMMA AskFacts ==
    ASSUME TypeOK, AskInv, NEW w \in Workers
    PROVE  /\ qw[w] \in Seq(Q2W)
           /\ wq[w] # <<>> => qw[w] = <<>> /\ wPc[w] # "sync"
           /\ qw[w] # <<>> => Len(qw[w]) = 1 /\ Tail(qw[w]) = <<>> /\ wPc[w] # "sync"
<1>1. wq[w] \in Seq({"dequeue"}) /\ qw[w] \in Seq(Q2W)
  BY DEF TypeOK, ChannelTypeOK
<1>2. /\ Len(wq[w]) + Len(qw[w]) \in {0, 1}
      /\ wPc[w] = "sync" => Len(wq[w]) + Len(qw[w]) = 0
  BY DEF AskInv, AskOnce
<1> DEFINE req == wq[w]
           ans == qw[w]
           inSync == wPc[w] = "sync"
<1>3. /\ req \in Seq({"dequeue"}) /\ ans \in Seq(Q2W)
      /\ Len(req) + Len(ans) \in {0, 1} /\ (inSync => Len(req) + Len(ans) = 0)
  BY <1>1, <1>2
<1> HIDE DEF req, ans, inSync
<1>4. /\ Len(req) \in Nat /\ Len(ans) \in Nat
      /\ req # <<>> => Len(req) # 0
      /\ ans # <<>> => Len(ans) # 0
      /\ Len(ans) = 0 => ans = <<>>
  BY <1>3, EmptySeq
<1>5. Len(ans) = 1 => Tail(ans) = <<>>
  <2> SUFFICES ASSUME Len(ans) = 1 PROVE Tail(ans) = <<>>
    OBVIOUS
  <2>1. Len(Tail(ans)) = 0 /\ Tail(ans) \in Seq(Q2W)
    BY <1>3
  <2> QED BY <2>1, EmptySeq
<1> DEFINE m == Len(req)
           n == Len(ans)
<1>8. m \in Nat /\ n \in Nat /\ m + n \in {0, 1} /\ (inSync => m + n = 0)
  BY <1>3, <1>4
<1> HIDE DEF m, n
<1>9. (m # 0 => n = 0 /\ ~inSync) /\ (n # 0 => n = 1 /\ ~inSync)
  BY <1>8
<1>6. req # <<>> => ans = <<>> /\ ~inSync
  BY <1>4, <1>9 DEF m, n
<1>7. ans # <<>> => Len(ans) = 1 /\ ~inSync
  BY <1>4, <1>9 DEF m, n
<1> QED BY <1>3, <1>5, <1>6, <1>7 DEF req, ans, inSync

\* A step that moves no task.
LEMMA CallFrame ==
    ASSUME CallInv,
           UNCHANGED <<mPc, mJob, mNext, stateId, outstanding, received, mq, pending, wm>>,
           \A w \in Workers :
              /\ wPc'[w] = "sync" <=> wPc[w] = "sync"
              /\ wPc[w] = "sync" => wTask'[w] = wTask[w]
              /\ qw'[w] = qw[w] \/ (Accepted(w) = {} /\ Accepted(w)' = {})
    PROVE  CallInv'
<1>1. \A w \in Workers : AtWorker(w)' = AtWorker(w)
  <2> SUFFICES ASSUME NEW w \in Workers PROVE AtWorker(w)' = AtWorker(w)
    OBVIOUS
  <2>1. CASE qw'[w] = qw[w]
    BY <2>1, AtWorkerSame
  <2>2. CASE Accepted(w) = {} /\ Accepted(w)' = {}
    BY <2>2 DEF AtWorker
  <2> QED BY <2>1, <2>2
<1>2. Held' = Held
  BY <1>1, HeldSame
<1>3. PlacesInv'
  BY <1>2 DEF CallInv, PlacesInv, Disjoint, Once, InRound, Queued
<1>4. CountInv'
  BY DEF CallInv, CountInv
<1>5. OwnInv'
  <2>1. ASSUME NEW w \in Workers PROVE (\A i \in Accepted(w) : OfThisCall(qw[w][i].task))'
    BY DEF CallInv, OwnInv, OfThisCall, Accepted
  <2> QED BY <2>1 DEF CallInv, OwnInv, OfThisCall
<1> QED BY <1>3, <1>4, <1>5 DEF CallInv

\* The queue takes a task from the master's channel.
LEMMA ProcessMasterMessageCall ==
    ASSUME TypeOK, CallInv, ProcessMasterMessage
    PROVE  CallInv'
<1> DEFINE t == Head(mq)
<1>1. /\ mq \in Seq(JobTask) /\ mq # <<>> /\ pending \in Seq(JobTask)
      /\ pending' = Append(pending, t) /\ mq' = Tail(mq) /\ t \in JobTask
      /\ UNCHANGED <<masterVars, workerVars, wq, qw, mw, wm>>
  BY DEF TypeOK, ChannelTypeOK, QueueTypeOK, ProcessMasterMessage
<1>2. /\ Once(mq) /\ Once(pending) /\ Disjoint(Held)
  BY DEF CallInv, PlacesInv
<1>3. /\ Once(mq') /\ TasksOf(mq') = TasksOf(mq) \ {t.task} /\ t.task \in TasksOf(mq)
  BY <1>1, <1>2, TasksTail
<1>4. t.task \notin TasksOf(pending)
  BY <1>2, <1>3, HeldAt DEF Disjoint
<1>5. Once(pending') /\ TasksOf(pending') = TasksOf(pending) \cup {t.task}
  BY <1>1, <1>2, <1>4, TasksAppend
<1>6. PlacesInv'
  <2>1. \A w \in Workers : AtWorker(w)' = AtWorker(w)
    BY <1>1, AtWorkerSame
  <2>2. /\ Held'[InMq] = Held[InMq] \ {t.task} /\ t.task \in Held[InMq]
        /\ Held'[InPending] = Held[InPending] \cup {t.task}
        /\ Held'[InReceived] = Held[InReceived]
    BY <1>1, <1>3, <1>5, HeldAt, HeldAtNext
  <2>3. \A w \in Workers : Held'[<<"task", w>>] = Held[<<"task", w>>]
                          /\ Held'[<<"result", w>>] = Held[<<"result", w>>]
    BY <1>1, <2>1, HeldAt, HeldAtNext
  <2>4. \A h \in Holders \ {InMq, InPending} : Held'[h] = Held[h]
    BY <2>2, <2>3, HeldAt
  <2>5. Once(received') /\ \A w \in Workers : Once(wm'[w])
    BY <1>1 DEF CallInv, PlacesInv
  <2> QED BY <1>1, <1>3, <1>5, <2>2, <2>4, <2>5, HeldAt, MovePlaces DEF CallInv
<1>7. CountInv'
  BY <1>1 DEF CallInv, CountInv
<1>8. OwnInv'
  <2>1. \A i \in DOMAIN mq' : \E k \in DOMAIN mq : mq'[i] = mq[k]
    BY <1>1
  <2>2. \A i \in DOMAIN pending' : (\E k \in DOMAIN pending : pending'[i] = pending[k]) \/ pending'[i] = t
    BY <1>1
  <2>3. \E k \in DOMAIN mq : t = mq[k]
    BY <1>1
  <2>4. \A i \in DOMAIN mq' : OfThisCall(mq'[i])
    BY <2>1 DEF CallInv, OwnInv
  <2>5. \A i \in DOMAIN pending' : OfThisCall(pending'[i])
    BY <2>2, <2>3 DEF CallInv, OwnInv
  <2> QED BY <1>1, <2>4, <2>5 DEF CallInv, OwnInv, OfThisCall, Accepted
<1> QED BY <1>6, <1>7, <1>8 DEF CallInv

\* The queue answers a request, with a task it takes from anywhere or without.
LEMMA ProcessWorkerMessageCall ==
    ASSUME TypeOK, AskInv, CallInv, NEW w \in Workers, ProcessWorkerMessage(w)
    PROVE  CallInv'
<1>1. /\ qw[w] = <<>> /\ wPc[w] # "sync" /\ qw \in [Workers -> Seq(Q2W)] /\ pending \in Seq(JobTask)
      /\ UNCHANGED <<masterVars, workerVars, mq, mw, wm>>
  BY AskFacts DEF ProcessWorkerMessage, TypeOK, ChannelTypeOK, QueueTypeOK
<1>2. CASE qw' = [qw EXCEPT ![w] = Append(@, [answer |-> "dequeue_rejected"])] /\ UNCHANGED pending
  <2>1. qw'[w] = <<[answer |-> "dequeue_rejected"]>>
    BY <1>1, <1>2
  <2>2. Accepted(w) = {} /\ Accepted(w)' = {}
    BY <1>1, <2>1 DEF Accepted
  <2>3. \A v \in Workers : v # w => qw'[v] = qw[v]
    BY <1>1, <1>2
  <2> QED BY <1>1, <1>2, <2>2, <2>3, CallFrame
<1>3. ASSUME NEW i \in PopPositions, pending' = PendingAfterPop(i),
             qw' = [qw EXCEPT ![w] = Append(@, [answer |-> "dequeue_accepted", task |-> pending[i]])]
      PROVE  CallInv'
  <2> DEFINE t == pending[i]
  <2>1. i \in DOMAIN pending /\ pending' = RemoveAt(pending, i) /\ t \in JobTask
    BY <1>1, <1>3 DEF PopPositions, PendingAfterPop
  <2>2. Once(pending) /\ Disjoint(Held)
    BY DEF CallInv, PlacesInv
  <2>3. /\ Once(pending') /\ TasksOf(pending') = TasksOf(pending) \ {t.task}
        /\ t.task \in TasksOf(pending)
        /\ \A k \in DOMAIN pending' : \E l \in DOMAIN pending : pending'[k] = pending[l]
    BY <1>1, <2>1, <2>2, TasksRemoveAt
  <2>4. qw'[w] = <<[answer |-> "dequeue_accepted", task |-> t]>> /\ \A v \in Workers : v # w => qw'[v] = qw[v]
    BY <1>1, <1>3
  <2>5. Accepted(w) = {} /\ Accepted(w)' = {1} /\ qw'[w][1].task = t
    BY <1>1, <2>4 DEF Accepted
  <2> HIDE DEF t
  <2>6. AtWorker(w) = {} /\ AtWorker(w)' = {t.task}
    BY <1>1, <2>5 DEF AtWorker
  <2>7. PlacesInv'
    <3>1. \A v \in Workers : v # w => AtWorker(v)' = AtWorker(v)
      BY <1>1, <2>4, AtWorkerSame
    <3>2. /\ Held'[InPending] = Held[InPending] \ {t.task} /\ t.task \in Held[InPending]
          /\ Held'[InMq] = Held[InMq] /\ Held'[InReceived] = Held[InReceived]
      BY <1>1, <2>3, HeldAt, HeldAtNext
    <3>7. Held'[<<"task", w>>] = Held[<<"task", w>>] \cup {t.task}
      <4>1. Held'[<<"task", w>>] = AtWorker(w)' /\ Held[<<"task", w>>] = AtWorker(w)
        BY HeldAt, HeldAtNext
      <4> QED BY <2>6, <4>1
    <3>3. \A v \in Workers : /\ v # w => Held'[<<"task", v>>] = Held[<<"task", v>>]
                            /\ Held'[<<"result", v>>] = Held[<<"result", v>>]
      BY <1>1, <3>1, HeldAt, HeldAtNext
    <3>4. ASSUME NEW h \in Holders \ {InPending, <<"task", w>>} PROVE Held'[h] = Held[h]
      <4>1. CASE h \in {InMq, InPending, InReceived}
        BY <3>2, <4>1
      <4>2. ASSUME NEW v \in Workers, h \in {<<"task", v>>, <<"result", v>>} PROVE Held'[h] = Held[h]
        BY <3>3, <4>2
      <4> QED BY <4>1, <4>2, HeldAt
    <3>5. Once(mq') /\ Once(received') /\ \A v \in Workers : Once(wm'[v])
      BY <1>1 DEF CallInv, PlacesInv
    <3>6. InPending \in Holders /\ <<"task", w>> \in Holders /\ InPending # <<"task", w>> /\ InPending # InReceived
      BY HeldAt
    <3> QED BY <1>1, <2>3, <3>2, <3>4, <3>5, <3>6, <3>7, MovePlaces DEF CallInv
  <2>8. CountInv'
    BY <1>1 DEF CallInv, CountInv
  <2>9. OwnInv'
    <3>1. OfThisCall(t)
      BY <2>1 DEF CallInv, OwnInv, t
    <3>2. \A k \in DOMAIN pending' : OfThisCall(pending'[k])
      BY <2>3 DEF CallInv, OwnInv
    <3>3. \A v \in Workers : \A k \in Accepted(v)' : OfThisCall(qw'[v][k].task)
      <4> SUFFICES ASSUME NEW v \in Workers, NEW k \in Accepted(v)' PROVE OfThisCall(qw'[v][k].task)
        OBVIOUS
      <4>1. CASE v = w
        BY <2>5, <3>1, <4>1
      <4>2. CASE v # w
        BY <2>4, <4>2 DEF CallInv, OwnInv, Accepted
      <4> QED BY <4>1, <4>2
    <3> QED BY <1>1, <3>2, <3>3 DEF CallInv, OwnInv, OfThisCall
  <2> QED BY <2>7, <2>8, <2>9 DEF CallInv
<1> QED BY <1>2, <1>3 DEF ProcessWorkerMessage

\* A worker takes the task it is answered with.
LEMMA HandleAcceptedCall ==
    ASSUME TypeOK, AskInv, CallInv, NEW w \in Workers, HandleAccepted(w)
    PROVE  CallInv'
<1> DEFINE t == Head(qw[w]).task
<1>1. /\ qw[w] # <<>> /\ qw \in [Workers -> Seq(Q2W)] /\ Head(qw[w]).answer = "dequeue_accepted"
      /\ qw' = [qw EXCEPT ![w] = Tail(@)] /\ wTask' = [wTask EXCEPT ![w] = t]
      /\ wPc' = [wPc EXCEPT ![w] = "sync"] /\ DOMAIN wTask = Workers /\ DOMAIN wPc = Workers
      /\ UNCHANGED <<mq, wq, mw, wm, masterVars, queueVars>>
  BY DEF HandleAccepted, TypeOK, ChannelTypeOK, WorkerTypeOK
<1>2. Len(qw[w]) = 1 /\ Tail(qw[w]) = <<>> /\ wPc[w] # "sync"
  BY <1>1, AskFacts
<1>3. qw'[w] = <<>> /\ wTask'[w] = t /\ wPc'[w] = "sync"
      /\ \A v \in Workers : v # w => qw'[v] = qw[v] /\ wTask'[v] = wTask[v] /\ wPc'[v] = wPc[v]
  BY <1>1, <1>2
<1>4. Accepted(w) = {1} /\ qw[w][1].task = t /\ Accepted(w)' = {}
  <2>1. qw[w] \in Seq(Q2W) /\ DOMAIN qw[w] = {1} /\ Head(qw[w]) = qw[w][1]
    BY <1>1, <1>2
  <2> QED BY <1>1, <1>3, <2>1 DEF Accepted
<1> HIDE DEF t
<1>5. \A v \in Workers : AtWorker(v)' = AtWorker(v)
  <2> SUFFICES ASSUME NEW v \in Workers PROVE AtWorker(v)' = AtWorker(v)
    OBVIOUS
  <2>1. CASE v = w
    <3>1. AtWorker(w) = {t.task} /\ AtWorker(w)' = {t.task}
      BY <1>2, <1>3, <1>4 DEF AtWorker
    <3> QED BY <2>1, <3>1
  <2>2. CASE v # w
    BY <1>3, <2>2, AtWorkerSame
  <2> QED BY <2>1, <2>2
<1>6. PlacesInv' /\ CountInv'
  <2>1. Held' = Held
    BY <1>1, <1>5, HeldSame
  <2> QED BY <1>1, <2>1 DEF CallInv, PlacesInv, CountInv, Disjoint, Once, InRound, Queued
<1>7. OwnInv'
  <2>1. OfThisCall(t)
    BY <1>4 DEF CallInv, OwnInv
  <2>2. ASSUME NEW v \in Workers, wPc'[v] = "sync" PROVE OfThisCall(wTask'[v])
    <3>1. CASE v = w
      BY <1>3, <2>1, <3>1
    <3>2. CASE v # w
      BY <1>3, <2>2, <3>2 DEF CallInv, OwnInv
    <3> QED BY <3>1, <3>2
  <2>3. ASSUME NEW v \in Workers, NEW i \in Accepted(v)' PROVE OfThisCall(qw'[v][i].task)
    BY <1>3, <1>4 DEF CallInv, OwnInv, Accepted
  <2> QED BY <1>1, <2>2, <2>3 DEF CallInv, OwnInv, OfThisCall
<1> QED BY <1>6, <1>7 DEF CallInv

\* A worker evaluates its task: the task becomes a result.
LEMMA EvaluateCall ==
    ASSUME TypeOK, AskInv, CallInv, NEW w \in Workers, Evaluate(w)
    PROVE  CallInv'
<1> DEFINE r == ResultOf(w)
           t == wTask[w].task
<1>1. /\ wPc[w] = "sync" /\ wm \in [Workers -> Seq(Result)] /\ wTask[w] \in JobTask
      /\ wm' = [wm EXCEPT ![w] = Append(@, r)]
      /\ wPc'[w] # "sync" /\ \A v \in Workers : v # w => wPc'[v] = wPc[v] /\ wTask'[v] = wTask[v]
      /\ UNCHANGED <<mq, wq, qw, mw, masterVars, queueVars>>
  BY DEF Evaluate, Resume, TypeOK, ChannelTypeOK, WorkerTypeOK
<1>2. r.task = t /\ r.job = wTask[w].job /\ r \in Result
  BY <1>1, EvaluateType DEF ResultOf
<1> HIDE DEF r
<1>3. qw[w] = <<>>
  BY <1>1, AskFacts
<1>4. AtWorker(w) = {t} /\ AtWorker(w)' = {}
  BY <1>1, <1>3 DEF AtWorker, Accepted
<1>5. \A v \in Workers : v # w => AtWorker(v)' = AtWorker(v)
  BY <1>1, AtWorkerSame
<1> HIDE DEF t
<1>6. Once(wm[w]) /\ Disjoint(Held)
  BY DEF CallInv, PlacesInv
<1>7. t \notin TasksOf(wm[w])
  <2>1. /\ <<"task", w>> # <<"result", w>> /\ <<"task", w>> \in DOMAIN Held /\ <<"result", w>> \in DOMAIN Held
        /\ Held[<<"task", w>>] = {t} /\ Held[<<"result", w>>] = TasksOf(wm[w])
    BY <1>4, HeldAt
  <2> QED BY <1>6, <2>1 DEF Disjoint
<1>8. /\ wm'[w] = Append(wm[w], r) /\ \A v \in Workers : v # w => wm'[v] = wm[v]
      /\ wm[w] \in Seq(Result)
  BY <1>1
<1>9. Once(wm'[w]) /\ TasksOf(wm'[w]) = TasksOf(wm[w]) \cup {t}
  BY <1>2, <1>6, <1>7, <1>8, TasksAppend
<1>10. PlacesInv'
  <2>1. /\ Held'[InMq] = Held[InMq] /\ Held'[InPending] = Held[InPending]
        /\ Held'[InReceived] = Held[InReceived]
    BY <1>1, HeldAt, HeldAtNext
  <2>2. \A v \in Workers : v # w => /\ Held'[<<"task", v>>] = Held[<<"task", v>>]
                                 /\ Held'[<<"result", v>>] = Held[<<"result", v>>]
    BY <1>5, <1>8, HeldAt, HeldAtNext
  <2>3. /\ Held'[<<"task", w>>] = AtWorker(w)' /\ Held[<<"task", w>>] = AtWorker(w)
        /\ Held'[<<"result", w>>] = TasksOf(wm'[w]) /\ Held[<<"result", w>>] = TasksOf(wm[w])
    BY HeldAt, HeldAtNext
  <2>4. /\ t \in Held[<<"task", w>>] /\ Held'[<<"task", w>>] = Held[<<"task", w>>] \ {t}
        /\ Held'[<<"result", w>>] = Held[<<"result", w>>] \cup {t}
    BY <1>4, <1>9, <2>3
  <2>5. ASSUME NEW h \in Holders \ {<<"task", w>>, <<"result", w>>} PROVE Held'[h] = Held[h]
    <3>1. CASE h \in {InMq, InPending, InReceived}
      BY <2>1, <3>1
    <3>2. ASSUME NEW v \in Workers, h \in {<<"task", v>>, <<"result", v>>} PROVE Held'[h] = Held[h]
      BY <2>2, <3>2
    <3> QED BY <3>1, <3>2, HeldAt
  <2>6. /\ Once(mq') /\ Once(pending') /\ Once(received') /\ \A v \in Workers : Once(wm'[v])
    BY <1>1, <1>8, <1>9 DEF CallInv, PlacesInv
  <2>7. /\ <<"task", w>> \in Holders /\ <<"result", w>> \in Holders
        /\ <<"task", w>> # <<"result", w>> /\ <<"task", w>> # InReceived
    BY HeldAt
  <2> QED BY <1>1, <2>4, <2>5, <2>6, <2>7, MovePlaces DEF CallInv
<1>11. CountInv'
  BY <1>1 DEF CallInv, CountInv
<1>12. OwnInv'
  <2>1. r.job = mJob
    BY <1>1, <1>2 DEF CallInv, OwnInv, OfThisCall
  <2>2. ASSUME NEW v \in Workers, NEW i \in DOMAIN wm'[v] PROVE wm'[v][i].job = mJob
    <3>1. CASE v = w
      <4>1. wm'[w][i] = r \/ (i \in DOMAIN wm[w] /\ wm'[w][i] = wm[w][i])
        BY <1>2, <1>8, <2>2, <3>1
      <4> QED BY <2>1, <3>1, <4>1 DEF CallInv, OwnInv
    <3>2. CASE v # w
      BY <1>8, <3>2 DEF CallInv, OwnInv
    <3> QED BY <3>1, <3>2
  <2>3. ASSUME NEW v \in Workers, wPc'[v] = "sync" PROVE OfThisCall(wTask'[v])
    BY <1>1, <2>3 DEF CallInv, OwnInv
  <2> QED BY <1>1, <2>2, <2>3 DEF CallInv, OwnInv, OfThisCall, Accepted
<1> QED BY <1>10, <1>11, <1>12 DEF CallInv

\* A worker moves a task at most from its answer to its hands and to its results.
LEMMA WorkerNextCall ==
    ASSUME TypeOK, AskInv, CallInv, NEW w \in Workers, WorkerNext(w)
    PROVE  CallInv'
<1> USE DEF TypeOK, WorkerTypeOK, ChannelTypeOK
<1>1. CASE Ask(w) \/ WorkerPoll(w) \/ HandleUpdate(w) \/ AwaitState(w)
  <2>1. UNCHANGED <<mPc, mJob, mNext, stateId, outstanding, received, mq, pending, wm, qw, wTask>>
    BY <1>1 DEF Ask, WorkerPoll, HandleUpdate, AwaitState
  <2>2. \A v \in Workers : wPc'[v] = "sync" <=> wPc[v] = "sync"
    BY <1>1 DEF Ask, WorkerPoll, HandleUpdate, AwaitState, Resume
  <2> QED BY <2>1, <2>2, CallFrame
<1>2. CASE HandleRejected(w)
  <2>1. UNCHANGED <<mPc, mJob, mNext, stateId, outstanding, received, mq, pending, wm, wTask>>
    BY <1>2 DEF HandleRejected
  <2>2. \A v \in Workers : wPc'[v] = "sync" <=> wPc[v] = "sync"
    BY <1>2 DEF HandleRejected, Resume
  <2>3. qw[w] # <<>> /\ Len(qw[w]) = 1 /\ Tail(qw[w]) = <<>>
    BY <1>2, AskFacts DEF HandleRejected
  <2>4. qw'[w] = <<>> /\ \A v \in Workers : v # w => qw'[v] = qw[v]
    BY <1>2, <2>3 DEF HandleRejected
  <2>5. Accepted(w) = {} /\ Accepted(w)' = {}
    <3>1. qw[w] \in Seq(Q2W) /\ DOMAIN qw[w] = {1} /\ qw[w][1].answer = "dequeue_rejected"
      BY <1>2, <2>3 DEF HandleRejected
    <3> QED BY <2>4, <3>1 DEF Accepted
  <2> QED BY <2>1, <2>2, <2>4, <2>5, CallFrame
<1>3. CASE HandleAccepted(w)
  BY <1>3, HandleAcceptedCall
<1>4. CASE Evaluate(w)
  BY <1>4, EvaluateCall
<1> QED BY <1>1, <1>2, <1>3, <1>4 DEF WorkerNext

-----------------------------------------------------------------------------
(* The steps of the master in a call *)

\* A step of the master outside of a round, or one that begins a round.
LEMMA OutsideCall ==
    ASSUME TypeOK, CallInv, ~InRound, CountInv',
           UNCHANGED <<mq, pending, wm, qw, wPc, wTask>>,
           received' \in {received, <<>>},
           InRound' => received' = <<>> /\ mPc' = "enqueue" /\ mNext' = 0
    PROVE  CallInv'
<1>1. \A h \in Holders : h # InReceived => Held[h] = {}
  BY DEF CallInv, PlacesInv
<1>2. /\ DOMAIN mq = {} /\ DOMAIN pending = {}
      /\ \A w \in Workers : Accepted(w) = {} /\ wPc[w] # "sync" /\ DOMAIN wm[w] = {}
  BY <1>1, EmptyOwn
<1>3. OwnInv'
  BY <1>2 DEF OwnInv, Accepted
<1>4. \A h \in Holders : h # InReceived => Held'[h] = {}
  <2>1. \A w \in Workers : AtWorker(w)' = AtWorker(w)
    BY AtWorkerSame
  <2>2. Held'[InMq] = Held[InMq] /\ Held'[InPending] = Held[InPending]
    BY HeldAt, HeldAtNext
  <2>3. \A w \in Workers : /\ Held'[<<"task", w>>] = Held[<<"task", w>>]
                          /\ Held'[<<"result", w>>] = Held[<<"result", w>>]
    BY <2>1, HeldAt, HeldAtNext
  <2> QED BY <1>1, <2>2, <2>3, HeldAt
<1>5. Once(received') /\ (InRound' => Held'[InReceived] = {})
  BY HeldAtNext DEF CallInv, PlacesInv, Once, TasksOf
<1>6. PlacesInv'
  <2>1. /\ Once(mq)' /\ Once(pending)' /\ Once(received)' /\ (\A w \in Workers : Once(wm[w]))'
    BY <1>5 DEF CallInv, PlacesInv, Once
  <2>2. Disjoint(Held)'
    <3>1. DOMAIN Held' = Holders
      BY HeldAtNext
    <3> QED BY <1>4, <3>1 DEF Disjoint
  <2>3. InRound' => \A h \in Holders : Held'[h] = {}
    BY <1>4, <1>5
  <2>4. InRound' => 0 .. Queued' - 1 = {}
    BY DEF Queued
  <2> QED BY <1>4, <2>1, <2>2, <2>3, <2>4 DEF PlacesInv
<1> QED BY <1>3, <1>6 DEF CallInv

\* A task is added to those that are queued.
LEMMA EnqueueCall ==
    ASSUME TypeOK, CallInv, Enqueue
    PROVE  CallInv'
<1> DEFINE t == [job |-> mJob, state |-> stateId[mJob], task |-> mNext]
<1>1. /\ mPc = "enqueue" /\ mNext < NTasks[mJob] /\ mNext \in Nat /\ mq \in Seq(JobTask)
      /\ mJob \in Jobs /\ NTasks[mJob] \in Nat
      /\ mq' = Append(mq, t) /\ mNext' = mNext + 1
      /\ UNCHANGED <<mPc, mJob, stateId, outstanding, received, wq, qw, mw, wm, queueVars, workerVars>>
  BY ConstantsAssumption DEF Enqueue, MoreTasks, TypeOK, MasterTypeOK, ChannelTypeOK
<1>2. t \in JobTask /\ OfThisCall(t) /\ t.task = mNext
  BY <1>1 DEF JobTask, OfThisCall, TypeOK, MasterTypeOK
<1> HIDE DEF t
<1>3. Queued = mNext /\ Queued' = mNext + 1 /\ InRound /\ InRound'
  BY <1>1 DEF Queued, InRound
<1>4. Disjoint(Held) /\ \A h \in Holders : Held[h] \subseteq 0 .. mNext - 1
  BY <1>3 DEF CallInv, PlacesInv
<1>5. \A h \in Holders : mNext \notin Held[h]
  BY <1>1, <1>4
<1>6. Once(mq') /\ TasksOf(mq') = TasksOf(mq) \cup {mNext}
  <2>1. mNext \notin TasksOf(mq)
    BY <1>5, HeldAt
  <2> QED BY <1>1, <1>2, <2>1, TasksAppend DEF CallInv, PlacesInv
<1>7. PlacesInv'
  <2>1. Held'[InMq] = Held[InMq] \cup {mNext}
    BY <1>6, HeldAt, HeldAtNext
  <2>2. Held'[InPending] = Held[InPending] /\ Held'[InReceived] = Held[InReceived]
    BY <1>1, HeldAt, HeldAtNext
  <2>3. \A w \in Workers : /\ Held'[<<"task", w>>] = Held[<<"task", w>>]
                          /\ Held'[<<"result", w>>] = Held[<<"result", w>>]
    <3>1. \A w \in Workers : AtWorker(w)' = AtWorker(w)
      BY <1>1, AtWorkerSame
    <3> QED BY <1>1, <3>1, HeldAt, HeldAtNext
  <2>4. \A h \in Holders : h # InMq => Held'[h] = Held[h]
    BY <2>2, <2>3, HeldAt
  <2>5. Disjoint(Held)'
    <3>1. DOMAIN Held' = Holders /\ DOMAIN Held = Holders
      BY HeldAt, HeldAtNext
    <3>2. \A h, k \in Holders : h # k => Held'[h] \cap Held'[k] = {}
      <4> SUFFICES ASSUME NEW h \in Holders, NEW k \in Holders, h # k,
                          NEW x \in Held'[h] \cap Held'[k]
                   PROVE  FALSE
        OBVIOUS
      <4>1. x = mNext \/ (x \in Held[h] /\ x \in Held[k])
        BY <2>1, <2>4
      <4>2. x # mNext
        BY <1>5, <2>4
      <4> QED BY <1>4, <3>1, <4>1, <4>2 DEF Disjoint
    <3> QED BY <3>1, <3>2 DEF Disjoint
  <2>6. ASSUME NEW h \in Holders PROVE Held'[h] \subseteq 0 .. Queued' - 1
    BY <1>1, <1>3, <1>4, <2>1, <2>4
  <2>7. /\ Once(mq)' /\ Once(pending)' /\ Once(received)' /\ (\A w \in Workers : Once(wm[w]))'
    BY <1>1, <1>6 DEF CallInv, PlacesInv, Once
  <2>8. ASSUME NEW x \in 0 .. Queued' - 1 PROVE \E h \in Holders : x \in Held'[h]
    <3>1. CASE x = mNext
      BY <2>1, <3>1, HeldAt
    <3>2. CASE x # mNext
      <4>1. x \in 0 .. Queued - 1
        BY <1>1, <1>3, <2>8, <3>2
      <4>2. PICK h \in Holders : x \in Held[h]
        BY <1>3, <4>1 DEF CallInv, PlacesInv
      <4>3. x \in Held'[h]
        BY <2>1, <2>4, <4>2
      <4> QED BY <4>3
    <3> QED BY <3>1, <3>2
  <2> QED BY <1>3, <2>5, <2>6, <2>7, <2>8 DEF PlacesInv
<1>8. CountInv'
  BY <1>1 DEF CallInv, CountInv
<1>9. OwnInv'
  <2>1. ASSUME NEW i \in DOMAIN mq' PROVE OfThisCall(mq'[i])
    <3>1. mq'[i] = t \/ (i \in DOMAIN mq /\ mq'[i] = mq[i])
      BY <1>1, <1>2
    <3> QED BY <1>2, <3>1 DEF CallInv, OwnInv
  <2> QED BY <1>1, <2>1 DEF CallInv, OwnInv, OfThisCall, Accepted
<1> QED BY <1>7, <1>8, <1>9 DEF CallInv

\* With the last task queued the master waits for as many results.
LEMMA StartGatherCall ==
    ASSUME TypeOK, CallInv, StartGather
    PROVE  CallInv'
<1>1. /\ mPc = "enqueue" /\ mPc' = "gather" /\ mNext' = 0 /\ mJob \in Jobs
      /\ outstanding' = [outstanding EXCEPT ![mJob] = NTasks[mJob]] /\ mJob \in DOMAIN outstanding
      /\ NTasks[mJob] \in Nat /\ ~(mNext < NTasks[mJob]) /\ mNext \in Nat
      /\ mNext <= NTasks[mJob] /\ received = <<>>
      /\ UNCHANGED <<mJob, stateId, received, queueVars, workerVars, channelVars>>
  BY ConstantsAssumption DEF StartGather, MoreTasks, TypeOK, MasterTypeOK, CallInv, CountInv
<1>2. Queued' = Queued /\ InRound /\ InRound'
  BY <1>1 DEF Queued, InRound
<1>3. Held' = Held
  <2>1. \A w \in Workers : AtWorker(w)' = AtWorker(w)
    BY <1>1, AtWorkerSame
  <2> QED BY <1>1, <2>1, HeldSame
<1>4. PlacesInv'
  BY <1>1, <1>2, <1>3 DEF CallInv, PlacesInv, Disjoint, Once
<1>5. CountInv'
  <2>1. Len(received') = 0 /\ outstanding'[mJob'] = NTasks[mJob']
    BY <1>1
  <2> QED BY <1>1, <2>1 DEF CountInv
<1>6. OwnInv'
  BY <1>1 DEF CallInv, OwnInv, OfThisCall, Accepted
<1> QED BY <1>4, <1>5, <1>6 DEF CallInv

\* What the receipt of result r from worker w does.
Takes(w, r) ==
    /\ mPc = "gather" /\ wm[w] # <<>> /\ wm \in [Workers -> Seq(Result)] /\ received \in Seq(Result)
    /\ received' = Append(received, r) /\ r = Head(wm[w]) /\ wm[w] \in Seq(Result)
    /\ mPc' = IF Completes(r) THEN "finish" ELSE "gather"
    /\ ~(Completes(r) /\ mJob \in GradientJobs) => UNCHANGED stateId
    /\ UNCHANGED <<mJob, mNext, mq, wq, qw, mw, queueVars, workerVars>>
    /\ mJob \in Jobs /\ NTasks[mJob] \in Nat /\ r.job = mJob
    /\ wm'[w] = Tail(wm[w]) /\ \A v \in Workers : v # w => wm'[v] = wm[v]
    /\ Once(wm[w]) /\ Once(received) /\ Disjoint(Held) /\ InRound /\ Queued = NTasks[mJob]
    /\ \A h \in Holders : Held[h] \subseteq 0 .. NTasks[mJob] - 1
    /\ Once(wm'[w]) /\ TasksOf(wm'[w]) = TasksOf(wm[w]) \ {r.task} /\ r.task \in TasksOf(wm[w])
    /\ r.task \notin TasksOf(received)
    /\ Once(received') /\ TasksOf(received') = TasksOf(received) \cup {r.task}
    /\ Len(received') = Len(received) + 1 /\ Len(received) \in Nat /\ received' \in Seq(Result)
    /\ outstanding[mJob] = NTasks[mJob] - Len(received)
    /\ outstanding'[mJob] = outstanding[mJob] - 1 /\ mNext = 0

\* The master takes a result it has not got, of a task of the job.
LEMMA RetrieveTakes ==
    ASSUME TypeOK, CallInv, NEW w \in Workers, Retrieve(w)
    PROVE  \E r \in Result : Takes(w, r)
<1> DEFINE r == Head(wm[w])
<1>1. /\ mPc = "gather" /\ wm[w] # <<>> /\ wm \in [Workers -> Seq(Result)] /\ received \in Seq(Result)
      /\ wm' = [wm EXCEPT ![w] = Tail(@)] /\ received' = Append(received, r)
      /\ outstanding' = [outstanding EXCEPT ![r.job] = @ - 1] /\ outstanding \in [Jobs -> Int]
      /\ mPc' = IF Completes(r) THEN "finish" ELSE "gather"
      /\ ~(Completes(r) /\ mJob \in GradientJobs) => UNCHANGED stateId
      /\ UNCHANGED <<mJob, mNext, mq, wq, qw, mw, queueVars, workerVars>>
      /\ mJob \in Jobs /\ NTasks[mJob] \in Nat /\ r \in Result
  <2>1. /\ mPc = "gather" /\ wm[w] # <<>>
        /\ wm' = [wm EXCEPT ![w] = Tail(@)] /\ received' = Append(received, r)
        /\ outstanding' = [outstanding EXCEPT ![r.job] = @ - 1]
        /\ UNCHANGED <<mJob, mNext, mq, wq, qw, mw, queueVars, workerVars>>
    BY DEF Retrieve
  <2>2. mPc' = IF Completes(r) THEN "finish" ELSE "gather"
    BY DEF Retrieve
  <2>3. ~(Completes(r) /\ mJob \in GradientJobs) => UNCHANGED stateId
    BY DEF Retrieve
  <2>4. /\ wm \in [Workers -> Seq(Result)] /\ received \in Seq(Result)
        /\ outstanding \in [Jobs -> Int] /\ mJob \in Jobs
    BY <2>1 DEF TypeOK, MasterTypeOK, ChannelTypeOK
  <2>5. NTasks[mJob] \in Nat
    BY <2>4, ConstantsAssumption
  <2>6. r \in Result
    <3>1. wm[w] \in Seq(Result) /\ wm[w] # <<>>
      BY <2>1, <2>4
    <3> QED BY <3>1
  <2> QED BY <2>1, <2>2, <2>3, <2>4, <2>5, <2>6
<1>2. r.job = mJob
  <2>1. 1 \in DOMAIN wm[w] /\ r = wm[w][1]
    BY <1>1
  <2> QED BY <2>1 DEF CallInv, OwnInv
<1> HIDE DEF r
<1>3. /\ wm'[w] = Tail(wm[w]) /\ wm[w] \in Seq(Result) /\ r = Head(wm[w])
      /\ \A v \in Workers : v # w => wm'[v] = wm[v]
  BY <1>1 DEF r
<1>4. /\ Once(wm[w]) /\ Once(received) /\ Disjoint(Held) /\ InRound /\ Queued = NTasks[mJob]
      /\ \A h \in Holders : Held[h] \subseteq 0 .. NTasks[mJob] - 1
  BY <1>1 DEF CallInv, PlacesInv, InRound, Queued
<1>5. Once(wm'[w]) /\ TasksOf(wm'[w]) = TasksOf(wm[w]) \ {r.task} /\ r.task \in TasksOf(wm[w])
  BY <1>1, <1>3, <1>4, TasksTail
<1>6. r.task \notin TasksOf(received)
  <2>1. /\ <<"result", w>> # InReceived /\ <<"result", w>> \in DOMAIN Held /\ InReceived \in DOMAIN Held
        /\ Held[<<"result", w>>] = TasksOf(wm[w]) /\ Held[InReceived] = TasksOf(received)
    BY HeldAt
  <2> QED BY <1>4, <1>5, <2>1 DEF Disjoint
<1>7. Once(received') /\ TasksOf(received') = TasksOf(received) \cup {r.task}
  BY <1>1, <1>4, <1>6, TasksAppend
<1>8. Len(received') = Len(received) + 1 /\ Len(received) \in Nat /\ received' \in Seq(Result)
  BY <1>1
<1>9. outstanding[mJob] = NTasks[mJob] - Len(received) /\ outstanding'[mJob] = outstanding[mJob] - 1 /\ mNext = 0
  BY <1>1, <1>2 DEF CallInv, CountInv
<1>10. Takes(w, r)
  BY <1>1, <1>2, <1>3, <1>4, <1>5, <1>6, <1>7, <1>8, <1>9 DEF Takes
<1> QED BY <1>1, <1>10

\* With the last result the master has one of every task: as many, all different.
LEMMA RetrieveCompletes ==
    ASSUME TypeOK, CallInv, NEW w \in Workers, Retrieve(w), mPc' = "finish"
    PROVE  TasksOf(received') = 0 .. NTasks[mJob] - 1
<1>1. PICK r \in Result : Takes(w, r)
  BY RetrieveTakes
<1>2. Len(received') = NTasks[mJob]
  <2>1. Completes(r) /\ r.job = mJob
    BY <1>1 DEF Takes
  <2>2. outstanding[mJob] - 1 = 0
    BY <2>1 DEF Completes
  <2>3. /\ outstanding[mJob] = NTasks[mJob] - Len(received) /\ NTasks[mJob] \in Nat
        /\ Len(received') = Len(received) + 1 /\ Len(received) \in Nat
    BY <1>1 DEF Takes
  <2> QED BY <2>2, <2>3
<1> USE DEF Takes
<1>3. TasksOf(received') \subseteq 0 .. NTasks[mJob] - 1
  <2>1. /\ InReceived \in Holders /\ <<"result", w>> \in Holders
        /\ Held[InReceived] = TasksOf(received) /\ Held[<<"result", w>>] = TasksOf(wm[w])
    BY HeldAt
  <2>2. TasksOf(received) \subseteq 0 .. NTasks[mJob] - 1 /\ r.task \in 0 .. NTasks[mJob] - 1
    BY <1>1, <2>1
  <2> QED BY <1>1, <2>2
<1> QED BY <1>1, <1>2, <1>3, AllReceived

\* The master takes a result, and leaves the round with the last one, when
\* nothing is left.
LEMMA RetrieveCall ==
    ASSUME TypeOK, CallInv, NEW w \in Workers, Retrieve(w)
    PROVE  CallInv'
<1>1. PICK r \in Result : Takes(w, r)
  BY RetrieveTakes
<1> USE DEF Takes
<1>2. /\ Held'[<<"result", w>>] = Held[<<"result", w>>] \ {r.task} /\ r.task \in Held[<<"result", w>>]
       /\ Held'[InReceived] = Held[InReceived] \cup {r.task}
       /\ \A h \in Holders \ {<<"result", w>>, InReceived} : Held'[h] = Held[h]
  <2>1. /\ Held'[<<"result", w>>] = TasksOf(wm'[w]) /\ Held[<<"result", w>>] = TasksOf(wm[w])
        /\ Held'[InReceived] = TasksOf(received') /\ Held[InReceived] = TasksOf(received)
    BY HeldAt, HeldAtNext
  <2>2. Held'[InMq] = Held[InMq] /\ Held'[InPending] = Held[InPending]
    BY <1>1, HeldAt, HeldAtNext
  <2>3. \A v \in Workers : Held'[<<"task", v>>] = Held[<<"task", v>>]
    <3>1. \A v \in Workers : AtWorker(v)' = AtWorker(v)
      BY <1>1, AtWorkerSame
    <3> QED BY <3>1, HeldAt, HeldAtNext
  <2>4. \A v \in Workers : v # w => Held'[<<"result", v>>] = Held[<<"result", v>>]
    <3>1. \A v \in Workers : v # w => wm'[v] = wm[v]
      BY <1>1
    <3> HIDE DEF Takes
    <3> QED BY <3>1, HeldAt, HeldAtNext
  <2>5. ASSUME NEW h \in Holders \ {<<"result", w>>, InReceived} PROVE Held'[h] = Held[h]
    <3>1. CASE h \in {InMq, InPending, InReceived}
      BY <2>2, <3>1
    <3>2. ASSUME NEW v \in Workers, h \in {<<"task", v>>, <<"result", v>>} PROVE Held'[h] = Held[h]
      BY <2>3, <2>4, <3>2
    <3> QED BY <3>1, <3>2, HeldAt
  <2> QED BY <1>1, <2>1, <2>5
<1>3. CASE ~Completes(r)
  <2>1. mPc' = mPc /\ UNCHANGED stateId
    BY <1>1, <1>3
  <2>2. PlacesInv'
    <3>1. Once(mq') /\ Once(pending') /\ \A v \in Workers : Once(wm'[v])
      BY <1>1 DEF CallInv, PlacesInv
    <3>2. InReceived \in Holders /\ <<"result", w>> \in Holders /\ <<"result", w>> # InReceived
      BY HeldAt
    <3> QED BY <1>1, <1>2, <2>1, <3>1, <3>2, MovePlaces DEF CallInv
  <2>3. CountInv'
    <3>1. outstanding'[mJob] = NTasks[mJob] - Len(received')
      BY <1>1
    <3> QED BY <1>1, <2>1, <3>1 DEF CountInv
  <2>4. OwnInv'
    <3>1. ASSUME NEW v \in Workers, NEW i \in DOMAIN wm'[v] PROVE wm'[v][i].job = mJob
      <4>1. \E k \in DOMAIN wm[v] : wm'[v][i] = wm[v][k]
        <5>1. CASE v = w
          <6>1. i \in DOMAIN Tail(wm[w]) /\ wm'[v][i] = Tail(wm[w])[i]
            BY <1>1, <3>1, <5>1
          <6>2. i + 1 \in DOMAIN wm[w] /\ Tail(wm[w])[i] = wm[w][i + 1]
            BY <1>1, <6>1
          <6> QED BY <5>1, <6>1, <6>2
        <5>2. CASE v # w
          BY <1>1, <3>1, <5>2
        <5> QED BY <5>1, <5>2
      <4> QED BY <4>1 DEF CallInv, OwnInv
    <3> QED BY <1>1, <2>1, <3>1 DEF CallInv, OwnInv, OfThisCall, Accepted
  <2> QED BY <2>2, <2>3, <2>4 DEF CallInv
<1>4. CASE Completes(r)
  <2>1. mPc' = "finish" /\ Len(received') = NTasks[mJob]
    BY <1>1, <1>4 DEF Completes
  <2>2. TasksOf(received') = 0 .. NTasks[mJob] - 1
    BY <2>1, RetrieveCompletes
  <2>3. ASSUME NEW h \in Holders, h # InReceived PROVE Held'[h] = {}
    <3>1. Held'[h] \subseteq Held[h]
      BY <1>2, <2>3
    <3>2. ASSUME NEW x \in Held'[h] PROVE FALSE
      <4>1. x \in 0 .. NTasks[mJob] - 1 /\ x \in Held[h]
        BY <1>1, <3>1
      <4>2. x \in TasksOf(received) \/ x = r.task
        BY <1>1, <2>2, <4>1
      <4>3. CASE x \in TasksOf(received)
        <5>1. x \in Held[InReceived] /\ InReceived \in DOMAIN Held /\ h \in DOMAIN Held
          BY <4>3, HeldAt
        <5> QED BY <1>1, <2>3, <4>1, <5>1 DEF Disjoint
      <4>4. CASE x = r.task
        <5>1. h # <<"result", w>>
          BY <1>2, <4>4
        <5>2. x \in Held[<<"result", w>>] /\ <<"result", w>> \in DOMAIN Held /\ h \in DOMAIN Held
          BY <1>2, <4>4, HeldAt
        <5> QED BY <1>1, <4>1, <5>1, <5>2 DEF Disjoint
      <4> QED BY <4>2, <4>3, <4>4
    <3> QED BY <3>2
  <2>4. PlacesInv'
    <3>1. Disjoint(Held)'
      <4>1. DOMAIN Held' = Holders
        BY HeldAtNext
      <4> QED BY <2>3, <4>1 DEF Disjoint
    <3>2. /\ Once(mq)' /\ Once(pending)' /\ Once(received)' /\ (\A v \in Workers : Once(wm[v]))'
      <4>1. Once(received') /\ Once(wm'[w]) /\ mq' = mq /\ pending' = pending
        BY <1>1
      <4>2. \A v \in Workers : v # w => wm'[v] = wm[v]
        BY <1>1
      <4> HIDE DEF Takes
      <4> QED BY <4>1, <4>2 DEF CallInv, PlacesInv, Once
    <3>3. ~InRound'
      BY <2>1 DEF InRound
    <3> QED BY <2>3, <3>1, <3>2, <3>3 DEF PlacesInv
  <2>5. CountInv'
    <3>1. 0 \in Workers
      BY ConstantsAssumption DEF Workers
    <3> QED BY <1>1, <2>1, <3>1 DEF CountInv
  <2>6. OwnInv'
    <3>1. /\ TasksOf(mq') = {} /\ TasksOf(pending') = {}
          /\ \A v \in Workers : AtWorker(v)' = {} /\ TasksOf(wm'[v]) = {}
      BY <2>3, HeldAt, HeldAtNext
    <3>2. /\ DOMAIN mq' = {} /\ DOMAIN pending' = {}
          /\ \A v \in Workers : DOMAIN wm'[v] = {} /\ Accepted(v)' = {} /\ wPc'[v] # "sync"
      BY <3>1 DEF TasksOf, AtWorker
    <3> QED BY <3>2 DEF OwnInv
  <2> QED BY <2>4, <2>5, <2>6 DEF CallInv
<1> QED BY <1>3, <1>4

\* A call starts, and publishes, with no task under way.
LEMMA CallStepCall ==
    ASSUME TypeOK, CallInv, NEW j \in Jobs, NEW p \in Points, Call(j, p)
    PROVE  CallInv'
<1>1. /\ mPc = "idle" /\ mJob' = j /\ mNext' = 0 /\ received' = <<>> /\ mPc' \in {"publish", "enqueue"}
      /\ UNCHANGED <<queueVars, workerVars, channelVars>>
  BY DEF Call, StartGradient, StartLikelihood
<1>2. 0 \in Workers /\ 0 <= NTasks[j]
  BY ConstantsAssumption DEF Workers
<1>3. CountInv'
  BY <1>1, <1>2 DEF CountInv
<1>4. InRound' => mPc' = "enqueue"
  BY <1>1 DEF InRound
<1>5. ~InRound
  BY <1>1 DEF InRound
<1> QED BY <1>1, <1>3, <1>4, <1>5, OutsideCall

\* What a publication does to the master.
LEMMA SendUpdateFacts ==
    ASSUME TypeOK, mNext \in Workers, NEW point, NEW next, SendUpdate(point, next)
    PROVE  /\ \/ mNext' = mNext + 1 /\ mPc' = mPc
              \/ mNext' = 0 /\ mPc' = next /\ mNext = NWorkers - 1
           /\ mNext' \in Workers
<1>1. NWorkers \in Nat \ {0} /\ mNext \in 0 .. NWorkers - 1
  BY ConstantsAssumption DEF Workers
<1>2. CASE mNext + 1 < NWorkers
  <2>1. mNext' = mNext + 1 /\ mPc' = mPc
    BY <1>2 DEF SendUpdate
  <2> QED BY <1>1, <1>2, <2>1 DEF Workers
<1>3. CASE ~(mNext + 1 < NWorkers)
  <2>1. mNext' = 0 /\ mPc' = next
    BY <1>3 DEF SendUpdate
  <2>2. mNext = NWorkers - 1 /\ 0 \in Workers
    BY <1>1, <1>3 DEF Workers
  <2> QED BY <2>1, <2>2
<1> QED BY <1>2, <1>3

\* The other steps of the master outside of a round.
LEMMA OutsideStepsCall ==
    ASSUME TypeOK, CallInv, Publish \/ PublishFinished \/ Reduce
    PROVE  CallInv'
<1>1. CASE Publish
  <2>1. mPc = "publish" /\ mNext \in Workers /\ received = <<>> /\ SendUpdate(toUpdate, "enqueue")
    BY <1>1 DEF Publish, CallInv, CountInv
  <2>2. UNCHANGED <<mJob, received, mq, wq, qw, wm, queueVars, workerVars>>
    BY <2>1 DEF SendUpdate
  <2>3. /\ \/ mNext' = mNext + 1 /\ mPc' = mPc
           \/ mNext' = 0 /\ mPc' = "enqueue" /\ mNext = NWorkers - 1
        /\ mNext' \in Workers
    BY <2>1, SendUpdateFacts
  <2>4. 0 <= NTasks[mJob]
    BY <2>1, ConstantsAssumption DEF TypeOK, MasterTypeOK
  <2>5. CountInv'
    BY <2>1, <2>2, <2>3, <2>4 DEF CountInv
  <2>6. ~InRound /\ (InRound' => received' = <<>> /\ mPc' = "enqueue" /\ mNext' = 0)
    BY <2>1, <2>2, <2>3 DEF InRound
  <2> QED BY <2>2, <2>5, <2>6, OutsideCall
<1>2. CASE PublishFinished
  <2>1. mPc = "finish" /\ mNext \in Workers /\ SendUpdate(Nothing, "idle")
    BY <1>2 DEF PublishFinished, CallInv, CountInv
  <2>2. UNCHANGED <<mJob, received, mq, wq, qw, wm, queueVars, workerVars>>
    BY <2>1 DEF SendUpdate
  <2>3. mPc' \in {"finish", "idle"} /\ mNext' \in Workers
    BY <2>1, SendUpdateFacts
  <2>4. CountInv' /\ ~InRound /\ ~InRound'
    BY <2>1, <2>3 DEF CountInv, InRound
  <2> QED BY <2>2, <2>4, OutsideCall
<1>3. CASE Reduce
  <2>1. /\ mPc = "finish" /\ mPc' = "idle" /\ received' = <<>>
        /\ UNCHANGED <<queueVars, workerVars, channelVars>>
    BY <1>3 DEF Reduce
  <2>2. CountInv' /\ ~InRound /\ ~InRound'
    BY <2>1 DEF CountInv, InRound
  <2> QED BY <2>1, <2>2, OutsideCall
<1> QED BY <1>1, <1>2, <1>3

-----------------------------------------------------------------------------
(* Only tasks and results of the call *)

\* At the start there is nothing anywhere.
LEMMA InitCallInv == Init => CallInv
<1> SUFFICES ASSUME Init PROVE CallInv
  OBVIOUS
<1>1. /\ mPc = "idle" /\ mq = <<>> /\ pending = <<>> /\ received = <<>>
      /\ \A w \in Workers : qw[w] = <<>> /\ wm[w] = <<>> /\ wPc[w] = "ask"
  BY DEF Init
<1>2. \A w \in Workers : Accepted(w) = {}
  BY <1>1 DEF Accepted
<1>3. \A w \in Workers : AtWorker(w) = {} /\ TasksOf(wm[w]) = {}
  BY <1>1, <1>2 DEF AtWorker, TasksOf
<1>4. TasksOf(mq) = {} /\ TasksOf(pending) = {} /\ TasksOf(received) = {}
  BY <1>1 DEF TasksOf
<1>5. \A h \in Holders : Held[h] = {}
  BY <1>3, <1>4, HeldAt
<1>6. Disjoint(Held)
  BY <1>5, HeldAt DEF Disjoint
<1>7. ~InRound /\ CountInv
  BY <1>1 DEF InRound, CountInv
<1>8. Once(mq) /\ Once(pending) /\ Once(received) /\ \A w \in Workers : Once(wm[w])
  BY <1>1 DEF Once
<1>9. OwnInv
  BY <1>1, <1>2 DEF OwnInv
<1> QED BY <1>5, <1>6, <1>7, <1>8, <1>9 DEF CallInv, PlacesInv

\* Every step of any process.
LEMMA NextCallInv == TypeOK /\ AskInv /\ CallInv /\ [Next]_vars => CallInv'
<1> SUFFICES ASSUME TypeOK, AskInv, CallInv, [Next]_vars PROVE CallInv'
  OBVIOUS
<1>1. CASE UNCHANGED vars
  BY <1>1, CallFrame DEF vars
<1>2. CASE QueuePoll
  BY <1>2, CallFrame DEF QueuePoll
<1>3. CASE \E j \in Jobs, p \in Points : Call(j, p)
  BY <1>3, CallStepCall
<1>4. CASE MasterNext
  BY <1>4, OutsideStepsCall, EnqueueCall, StartGatherCall, RetrieveCall DEF MasterNext
<1>5. CASE QueueNext
  BY <1>2, <1>5, ProcessMasterMessageCall, ProcessWorkerMessageCall DEF QueueNext
<1>6. CASE \E w \in Workers : WorkerNext(w)
  BY <1>6, WorkerNextCall
<1> QED BY <1>1, <1>3, <1>4, <1>5, <1>6 DEF Next

\* The invariant says of every place what OnlyThisCall says of all.
LEMMA CallInvOnlyThisCall == TypeOK /\ CallInv => OnlyThisCall
<1> SUFFICES ASSUME TypeOK, CallInv PROVE OnlyThisCall
  OBVIOUS
<1>1. ASSUME ~InRound
      PROVE  /\ DOMAIN mq = {} /\ DOMAIN pending = {}
             /\ \A w \in Workers : Accepted(w) = {} /\ wPc[w] # "sync" /\ DOMAIN wm[w] = {}
  BY <1>1, EmptyOwn DEF CallInv, PlacesInv
<1>2. /\ mq \in Seq(JobTask) /\ pending \in Seq(JobTask)
      /\ \A w \in Workers : wm[w] \in Seq(Result)
  BY DEF TypeOK, ChannelTypeOK, QueueTypeOK
<1>3. ASSUME NEW t \in ToSet(mq) PROVE InRound /\ OfThisCall(t)
  BY <1>1, <1>2, <1>3 DEF ToSet, CallInv, OwnInv
<1>4. ASSUME NEW t \in ToSet(pending) PROVE InRound /\ OfThisCall(t)
  BY <1>1, <1>2, <1>4 DEF ToSet, CallInv, OwnInv
<1>5. ASSUME NEW w \in Workers, NEW i \in Accepted(w) PROVE InRound /\ OfThisCall(qw[w][i].task)
  BY <1>1, <1>5 DEF CallInv, OwnInv
<1>6. ASSUME NEW w \in Workers, wPc[w] = "sync" PROVE InRound /\ OfThisCall(wTask[w])
  BY <1>1, <1>6 DEF CallInv, OwnInv
<1>7. ASSUME NEW w \in Workers, NEW r \in ToSet(wm[w]) PROVE InRound /\ r.job = mJob
  BY <1>1, <1>2, <1>7 DEF ToSet, CallInv, OwnInv
<1>8. ASSUME NEW t \in TasksInFlight PROVE InRound /\ OfThisCall(t)
  <2>1. CASE t \in ToSet(mq) \cup ToSet(pending)
    BY <1>3, <1>4, <2>1
  <2>2. CASE t \in UNION {{qw[w][i].task : i \in Accepted(w)} : w \in Workers}
    <3>1. PICK w \in Workers : t \in {qw[w][i].task : i \in Accepted(w)}
      BY <2>2
    <3>2. PICK i \in Accepted(w) : t = qw[w][i].task
      BY <3>1
    <3> QED BY <1>5, <3>2
  <2>3. CASE t \in {wTask[w] : w \in {v \in Workers : wPc[v] = "sync"}}
    BY <1>6, <2>3
  <2> QED BY <1>8, <2>1, <2>2, <2>3 DEF TasksInFlight
<1> QED BY <1>7, <1>8 DEF OnlyThisCall, OfThisCall

\* However many workers share the tasks of however many jobs: nothing of an
\* earlier call is evaluated, or received by retrieve(), in a later one.
THEOREM NothingOfOtherCalls == Spec => []OnlyThisCall
BY TypeCorrect, InitAskInv, NextAskInv, InitCallInv, NextCallInv, CallInvOnlyThisCall, PTL DEF Spec

-----------------------------------------------------------------------------
(* One copy of each task *)

\* The copies of task t there are, and those that holder h has, one by one.
Listed(s, place, t, c) == \E i \in DOMAIN s : s[i].task = t /\ c = <<place, i>>
Answered(w, t, c) == \E i \in Accepted(w) : qw[w][i].task.task = t /\ c = <<"qw", w, i>>
Evaluated(w, t, c) == wPc[w] = "sync" /\ wTask[w].task = t /\ c = <<"wTask", w>>
Returned(w, t, c) == \E i \in DOMAIN wm[w] : wm[w][i].task = t /\ c = <<"wm", w, i>>

IsAt(h, t, c) ==
    \/ h = InMq /\ Listed(mq, "mq", t, c)
    \/ h = InPending /\ Listed(pending, "pending", t, c)
    \/ h = InReceived /\ Listed(received, "received", t, c)
    \/ \E w \in Workers : h = <<"task", w>> /\ (Answered(w, t, c) \/ Evaluated(w, t, c))
    \/ \E w \in Workers : h = <<"result", w>> /\ Returned(w, t, c)

\* Each copy is held by somebody.
LEMMA CopiesHeld ==
    ASSUME NEW t, NEW c
    PROVE  c \in Copies(t) <=> \E h \in Holders : IsAt(h, t, c)
<1> DEFINE In(s) == {i \in DOMAIN s : s[i].task = t}
           A == {<<"mq", i>> : i \in In(mq)}
           B == {<<"pending", i>> : i \in In(pending)}
           C == {<<"received", i>> : i \in In(received)}
           D == {<<"wTask", w>> : w \in {v \in Workers : wPc[v] = "sync" /\ wTask[v].task = t}}
           E(w) == {<<"qw", w, i>> : i \in {i \in Accepted(w) : qw[w][i].task.task = t}}
           F(w) == {<<"wm", w, i>> : i \in In(wm[w])}
<1>1. Copies(t) = A \cup B \cup C \cup D \cup (UNION {E(w) : w \in Workers}) \cup (UNION {F(w) : w \in Workers})
  BY Zenon DEF Copies
<1>2. /\ c \in A <=> Listed(mq, "mq", t, c)
      /\ c \in B <=> Listed(pending, "pending", t, c)
      /\ c \in C <=> Listed(received, "received", t, c)
      /\ c \in D <=> \E w \in Workers : Evaluated(w, t, c)
  BY DEF Listed, Evaluated
<1>3. \A w \in Workers : (c \in E(w) <=> Answered(w, t, c)) /\ (c \in F(w) <=> Returned(w, t, c))
  BY DEF Answered, Returned
<1> HIDE DEF A, B, C, D, E, F
<1>4. c \in Copies(t) <=> \/ Listed(mq, "mq", t, c)
                          \/ Listed(pending, "pending", t, c)
                          \/ Listed(received, "received", t, c)
                          \/ \E w \in Workers : Answered(w, t, c) \/ Evaluated(w, t, c)
                          \/ \E w \in Workers : Returned(w, t, c)
  BY <1>1, <1>2, <1>3
<1> QED BY <1>4, HeldAt DEF IsAt

\* What each holder has.
LEMMA IsAtEach ==
    ASSUME NEW t, NEW c
    PROVE  /\ IsAt(InMq, t, c) <=> Listed(mq, "mq", t, c)
           /\ IsAt(InPending, t, c) <=> Listed(pending, "pending", t, c)
           /\ IsAt(InReceived, t, c) <=> Listed(received, "received", t, c)
           /\ \A w \in Workers :
                 /\ IsAt(<<"task", w>>, t, c) <=> Answered(w, t, c) \/ Evaluated(w, t, c)
                 /\ IsAt(<<"result", w>>, t, c) <=> Returned(w, t, c)
BY DEF IsAt, InMq, InPending, InReceived

\* A list holds one copy of each of its tasks.
LEMMA OneListed ==
    ASSUME NEW s, Once(s), NEW place, NEW t
    PROVE  /\ t \in TasksOf(s) => \E c : Listed(s, place, t, c)
           /\ \A c : Listed(s, place, t, c) => t \in TasksOf(s)
           /\ \A c, d : Listed(s, place, t, c) /\ Listed(s, place, t, d) => c = d
BY DEF Listed, Once, TasksOf

\* A holder has a copy of each task it holds, and one only: an answer is not read
\* while the worker is at another task, and there is one at most.
LEMMA OneAtEach ==
    ASSUME TypeOK, AskInv, PlacesInv, NEW t, NEW h \in Holders
    PROVE  /\ t \in Held[h] => \E c : IsAt(h, t, c)
           /\ \A c : IsAt(h, t, c) => t \in Held[h]
           /\ \A c, d : IsAt(h, t, c) /\ IsAt(h, t, d) => c = d
<1>1. CASE h = InMq
  <2>1. Once(mq) /\ Held[h] = TasksOf(mq) /\ \A c : IsAt(h, t, c) <=> Listed(mq, "mq", t, c)
    BY <1>1, IsAtEach, HeldAt DEF PlacesInv
  <2> QED BY <2>1, OneListed
<1>2. CASE h = InPending
  <2>1. Once(pending) /\ Held[h] = TasksOf(pending) /\ \A c : IsAt(h, t, c) <=> Listed(pending, "pending", t, c)
    BY <1>2, IsAtEach, HeldAt DEF PlacesInv
  <2> QED BY <2>1, OneListed
<1>3. CASE h = InReceived
  <2>1. Once(received) /\ Held[h] = TasksOf(received) /\ \A c : IsAt(h, t, c) <=> Listed(received, "received", t, c)
    BY <1>3, IsAtEach, HeldAt DEF PlacesInv
  <2> QED BY <2>1, OneListed
<1>4. ASSUME NEW w \in Workers, h = <<"result", w>>
      PROVE  /\ t \in Held[h] => \E c : IsAt(h, t, c)
             /\ \A c : IsAt(h, t, c) => t \in Held[h]
             /\ \A c, d : IsAt(h, t, c) /\ IsAt(h, t, d) => c = d
  <2>1. Once(wm[w]) /\ Held[h] = TasksOf(wm[w]) /\ \A c : IsAt(h, t, c) <=> Returned(w, t, c)
    BY <1>4, HeldAt, IsAtEach DEF PlacesInv
  <2>2. /\ t \in TasksOf(wm[w]) => \E c : Returned(w, t, c)
        /\ \A c : Returned(w, t, c) => t \in TasksOf(wm[w])
        /\ \A c, d : Returned(w, t, c) /\ Returned(w, t, d) => c = d
    BY <2>1 DEF Returned, Once, TasksOf
  <2> QED BY <2>1, <2>2
<1>5. ASSUME NEW w \in Workers, h = <<"task", w>>
      PROVE  /\ t \in Held[h] => \E c : IsAt(h, t, c)
             /\ \A c : IsAt(h, t, c) => t \in Held[h]
             /\ \A c, d : IsAt(h, t, c) /\ IsAt(h, t, d) => c = d
  <2>1. Held[h] = AtWorker(w) /\ \A c : IsAt(h, t, c) <=> Answered(w, t, c) \/ Evaluated(w, t, c)
    BY <1>5, HeldAt, IsAtEach
  <2>2. Accepted(w) \subseteq {1} /\ (Accepted(w) # {} => wPc[w] # "sync")
    BY AskFacts DEF Accepted
  <2>3. t \in AtWorker(w) <=> \/ \E i \in Accepted(w) : qw[w][i].task.task = t
                              \/ wPc[w] = "sync" /\ wTask[w].task = t
    BY DEF AtWorker
  <2>4. /\ t \in AtWorker(w) => \E c : Answered(w, t, c) \/ Evaluated(w, t, c)
        /\ \A c : Answered(w, t, c) \/ Evaluated(w, t, c) => t \in AtWorker(w)
    BY <2>3 DEF Answered, Evaluated
  <2>5. \A c, d : Answered(w, t, c) /\ Answered(w, t, d) => c = d
    BY <2>2 DEF Answered
  <2>6. \A c, d : Evaluated(w, t, c) /\ Evaluated(w, t, d) => c = d
    BY DEF Evaluated
  <2>7. \A c, d : ~(Answered(w, t, c) /\ Evaluated(w, t, d))
    BY <2>2 DEF Answered, Evaluated
  <2> QED BY <2>1, <2>4, <2>5, <2>6, <2>7
<1> QED BY <1>1, <1>2, <1>3, <1>4, <1>5, HeldAt

LEMMA CallInvOneCopy == TypeOK /\ AskInv /\ CallInv => OneCopyPerTask
<1> SUFFICES ASSUME TypeOK, AskInv, CallInv, InRound PROVE OneCopyPerTask
  BY DEF OneCopyPerTask
<1>1. PlacesInv /\ mNext \in Nat /\ NTasks[mJob] \in Nat
  BY ConstantsAssumption DEF CallInv, TypeOK, MasterTypeOK, InRound
<1>2. ASSUME NEW t \in 0 .. NTasks[mJob] - 1
      PROVE  Cardinality(Copies(t)) = IF mPc = "enqueue" /\ mNext <= t THEN 0 ELSE 1
  <2>1. CASE mPc = "enqueue" /\ mNext <= t
    <3>1. \A h \in Holders : t \notin Held[h]
      BY <1>1, <2>1 DEF PlacesInv, Queued
    <3>2. Copies(t) = {}
      BY <1>1, <3>1, CopiesHeld, OneAtEach
    <3> QED BY <2>1, <3>2, FS_EmptySet
  <2>2. CASE ~(mPc = "enqueue" /\ mNext <= t)
    <3>1. t \in 0 .. Queued - 1
      BY <1>1, <1>2, <2>2 DEF Queued
    <3>2. PICK h \in Holders : t \in Held[h]
      BY <1>1, <3>1 DEF PlacesInv
    <3>3. PICK c : IsAt(h, t, c)
      BY <1>1, <3>2, OneAtEach
    <3>4. \A k \in Holders : k # h => t \notin Held[k]
      BY <1>1, <3>2, HeldAt DEF PlacesInv, Disjoint
    <3>5. c \in Copies(t)
      BY <3>3, CopiesHeld
    <3>6. ASSUME NEW d \in Copies(t) PROVE d = c
      <4>1. PICK k \in Holders : IsAt(k, t, d)
        BY <3>6, CopiesHeld
      <4>2. k = h
        BY <1>1, <3>4, <4>1, OneAtEach
      <4> QED BY <1>1, <3>3, <4>1, <4>2, OneAtEach
    <3>7. Copies(t) = {c}
      BY <3>5, <3>6
    <3> QED BY <2>2, <3>7, FS_Singleton
  <2> QED BY <2>1, <2>2
<1> QED BY <1>2 DEF OneCopyPerTask, CallInv, CountInv

\* A task queued in this call is in one place until the call returns, popped, sent
\* and evaluated once, and retrieve() waits for as many results as are missing
\* (JobManager.cxx, PriorityQueue::pop, worker_loop).
THEOREM OneCopyOfEachTask == Spec => []OneCopyPerTask
BY TypeCorrect, InitAskInv, NextAskInv, InitCallInv, NextCallInv, CallInvOneCopy, PTL DEF Spec

-----------------------------------------------------------------------------
(***************************************************************************)
(* What the workers know of a job's state: the state a task names arrives, *)
(* and it is the point, and the flag, of the call. So JobProtocol          *)
(* implements the safety part of ParallelEvaluation.                       *)
(* A likelihood's parameters are shared by the jobs of a worker and not    *)
(* all sent in every call, so they are followed one by one.                *)
(***************************************************************************)
(* The inductive invariant *)

\* The publication of the state of job j has not reached worker w yet.
Unpublished(w, j) == mPc \in {"publish", "finish"} /\ mJob = j /\ mNext <= w
                     /\ (mPc = "finish" => j \in GradientJobs)

\* The last update of job j on the way to worker w brings the present state.
Brings(w, j, i) ==
    /\ i \in DOMAIN mw[w] /\ mw[w][i].job = j /\ mw[w][i].state = stateId[j]
    /\ \A k \in DOMAIN mw[w] : k > i => mw[w][k].job # j
IsThere(w, j) == wState[w][j] = stateId[j] /\ \A k \in DOMAIN mw[w] : mw[w][k].job # j

ArrivalInv ==
    \A w \in Workers, j \in Jobs :
        Unpublished(w, j) \/ IsThere(w, j) \/ \E i \in DOMAIN mw[w] : Brings(w, j, i)

\* What the present state of job j says of the flag, and of a gradient's point.
Says(j, flag, point) ==
    /\ flag = calculating[j]
    /\ j \in GradientJobs /\ calculating[j] => point = mPoint

ContentInv ==
    /\ \A w \in Workers, j \in Jobs :
          wState[w][j] <= stateId[j]
          /\ (wState[w][j] = stateId[j] => Says(j, wCalculating[w][j], wPoint[w][j]))
    /\ \A w \in Workers : \A i \in DOMAIN mw[w] :
          LET u == mw[w][i]
          IN  u.state <= stateId[u.job]
              /\ (u.state = stateId[u.job] => Says(u.job, u.calculating, u.point))

\* Nothing is to come for a job after its present state.
SettledInv ==
    \A w \in Workers :
       /\ \A j \in Jobs : wState[w][j] = stateId[j] =>
             ~Unpublished(w, j) /\ \A k \in DOMAIN mw[w] : mw[w][k].job # j
       /\ \A n \in DOMAIN mw[w] : mw[w][n].state = stateId[mw[w][n].job] =>
             ~Unpublished(w, mw[w][n].job) /\ \A k \in DOMAIN mw[w] : k > n => mw[w][k].job # mw[w][n].job

\* Worker w has the value that job j sent last for parameter i, or gets it from j
\* and after that no other one.
Comes(w, j, i) ==
    \/ \E n \in DOMAIN mw[w] :
          /\ mw[w][n].job = j /\ mw[w][n].point[i] = saved[j][i]
          /\ \A k \in DOMAIN mw[w] : k > n => mw[w][k].point[i] = NotSent
    \/ wParams[w][i] = saved[j][i] /\ \A k \in DOMAIN mw[w] : mw[w][k].point[i] = NotSent

\* So it is with the parameters that no other job moved.
ParamInv ==
    \A w \in Workers, j \in Jobs \ GradientJobs : \A i \in Params \ moved[j] :
        (Unpublished(w, j) /\ toUpdate[i] # NotSent) \/ Comes(w, j, i)

\* The flag and the values of the master in a call, and outside of one.
MasterInv ==
    /\ \A j \in Jobs : calculating[j] <=> j \in GradientJobs /\ j = mJob /\ mPc \in {"publish", "enqueue", "gather"}
    /\ mPc # "idle" /\ mJob \notin GradientJobs => saved[mJob] = mPoint
    /\ mPc # "idle" /\ mJob \in GradientJobs => \A j \in Jobs \ GradientJobs : moved[j] = Params
    /\ \A j \in GradientJobs : moved[j] = {}
    /\ mPc = "publish" => \A i \in Params : toUpdate[i] # NotSent =>
          /\ toUpdate[i] = mPoint[i]
          /\ \A j \in Jobs : j # mJob /\ j \notin GradientJobs => i \in moved[j]
    /\ mPc = "publish" /\ mJob \in GradientJobs => toUpdate = mPoint

ValueInv == MasterInv /\ ArrivalInv /\ ContentInv /\ SettledInv /\ ParamInv /\ ResultsOfThisPoint

-----------------------------------------------------------------------------
(* The steps, by what they do to the states of the jobs *)

\* A step that changes no job's state, neither the master's nor a worker's; only
\* the derivatives move the parameters of a worker.
Quiet ==
    /\ UNCHANGED <<mJob, mPoint, stateId, saved, toUpdate, moved, calculating, wState, wPoint, wCalculating, mw>>
    /\ \/ UNCHANGED <<mPc, mNext>>
       \/ mPc = "enqueue" /\ mPc' \in {"enqueue", "gather"}
       \/ mPc = "finish" /\ mJob \notin GradientJobs /\ mPc' = "idle"
    /\ wParams' = wParams \/ (mPc # "idle" /\ mJob \in GradientJobs)

\* The master tells one worker the state of the job it evaluates.
Sends(point) ==
    /\ mw' = [mw EXCEPT ![mNext] = Append(@,
                [job |-> mJob, state |-> stateId[mJob], calculating |-> calculating[mJob], point |-> point])]
    /\ mNext \in Workers
    /\ \/ mNext' = mNext + 1 /\ mPc' = mPc
       \/ /\ mNext' = 0 /\ mNext = NWorkers - 1
          /\ mPc' = IF mPc = "publish" THEN "enqueue" ELSE "idle"
    /\ UNCHANGED <<mJob, mPoint, stateId, saved, toUpdate, moved, calculating, wState, wParams, wPoint, wCalculating>>
    /\ \/ mPc = "publish" /\ point = toUpdate
       \/ mPc = "finish" /\ mJob \in GradientJobs /\ point = Nothing

\* A worker takes an update.
Receives(w) ==
    /\ ReceiveUpdate(w)
    /\ UNCHANGED <<mPc, mNext, mJob, mPoint, stateId, saved, toUpdate, moved, calculating>>

\* An evaluation moves the parameters only if it is one of a gradient.
LEMMA EvaluateQuiet ==
    ASSUME TypeOK, CallInv, NEW w \in Workers, Evaluate(w)
    PROVE  Quiet
<1>1. /\ wPc[w] = "sync" /\ wParams' = [wParams EXCEPT ![w] = ParamsAfter(w)]
      /\ UNCHANGED <<mPc, mNext, mJob, mPoint, stateId, saved, toUpdate, moved, calculating>>
      /\ UNCHANGED <<wState, wPoint, wCalculating, mw>>
  BY DEF Evaluate
<1>2. wTask[w].job = mJob /\ InRound
  <2>1. OfThisCall(wTask[w])
    BY <1>1 DEF CallInv, OwnInv
  <2>2. InRound
    BY <1>1, EmptyOwn DEF CallInv, PlacesInv
  <2> QED BY <2>1, <2>2 DEF OfThisCall
<1>3. CASE mJob \in GradientJobs
  <2>1. mPc # "idle"
    BY <1>2 DEF InRound
  <2> QED BY <1>1, <1>3, <2>1 DEF Quiet
<1>4. CASE mJob \notin GradientJobs
  <2>1. ParamsAfter(w) = wParams[w] /\ wParams \in [Workers -> WorkerPoints]
    BY <1>2, <1>4 DEF ParamsAfter, TypeOK, WorkerTypeOK
  <2>2. wParams' = wParams
    BY <1>1, <2>1
  <2> QED BY <1>1, <2>2 DEF Quiet
<1> QED BY <1>3, <1>4

\* There are only these kinds of steps, and steps that change no state of a job.
LEMMA StepKinds ==
    ASSUME TypeOK, CallInv, [Next]_vars
    PROVE  \/ \E j \in Jobs, p \in Points : Call(j, p)
           \/ \E point \in Sent : Sends(point)
           \/ \E w \in Workers : Retrieve(w)
           \/ \E w \in Workers : Receives(w)
           \/ Quiet
<1>1. CASE Publish
  <2>1. mPc = "publish" /\ mNext \in Workers /\ SendUpdate(toUpdate, "enqueue")
    BY <1>1 DEF Publish, CallInv, CountInv
  <2>2. \/ mNext' = mNext + 1 /\ mPc' = mPc
        \/ mNext' = 0 /\ mPc' = "enqueue" /\ mNext = NWorkers - 1
    BY <2>1, SendUpdateFacts
  <2>3. Sends(toUpdate)
    BY <2>1, <2>2 DEF SendUpdate, Sends
  <2>4. toUpdate \in Sent
    BY DEF TypeOK, MasterTypeOK
  <2> QED BY <2>3, <2>4
<1>2. CASE PublishFinished
  <2>1. mPc = "finish" /\ mJob \in GradientJobs /\ mNext \in Workers /\ SendUpdate(Nothing, "idle")
    BY <1>2 DEF PublishFinished, CallInv, CountInv
  <2>2. \/ mNext' = mNext + 1 /\ mPc' = mPc
        \/ mNext' = 0 /\ mPc' = "idle" /\ mNext = NWorkers - 1
    BY <2>1, SendUpdateFacts
  <2>3. Sends(Nothing)
    BY <2>1, <2>2 DEF SendUpdate, Sends
  <2>4. Nothing \in Sent
    BY DEF Nothing, Sent
  <2> QED BY <2>3, <2>4
<1>3. CASE Enqueue \/ StartGather \/ Reduce
  BY <1>3 DEF Enqueue, StartGather, Reduce, Quiet
<1>4. CASE QueueNext
  BY <1>4 DEF QueueNext, QueuePoll, ProcessMasterMessage, ProcessWorkerMessage, Quiet
<1>5. ASSUME NEW w \in Workers, WorkerNext(w) PROVE Receives(w) \/ Quiet
  <2>1. CASE Evaluate(w)
    BY <2>1, EvaluateQuiet
  <2>2. CASE ~Evaluate(w)
    BY <1>5, <2>2 DEF WorkerNext, Ask, WorkerPoll, HandleUpdate, HandleRejected, HandleAccepted,
                      AwaitState, Receives, Quiet
  <2> QED BY <2>1, <2>2
<1>6. CASE UNCHANGED vars
  BY <1>6 DEF vars, Quiet
<1> QED BY <1>1, <1>2, <1>3, <1>4, <1>5, <1>6 DEF Next, MasterNext

\* What a call does to the states.
LEMMA CallFacts ==
    ASSUME TypeOK, NEW j \in Jobs, NEW p \in Points, Call(j, p)
    PROVE  /\ mPc = "idle" /\ mPc' \in {"publish", "enqueue"} /\ mJob' = j /\ mPoint' = p /\ mNext' = 0
           /\ UNCHANGED <<wState, wParams, wPoint, wCalculating, mw, wm>> /\ received' = <<>>
           /\ \A k \in Jobs \ {j} : /\ stateId'[k] = stateId[k] /\ saved'[k] = saved[k]
                                    /\ calculating'[k] = calculating[k]
           /\ j \in GradientJobs => calculating'[j] /\ mPc' = "publish" /\ toUpdate' = p /\ saved' = saved
           /\ j \notin GradientJobs => calculating'[j] = calculating[j] /\ saved'[j] = p
           /\ \/ stateId'[j] = stateId[j] + 1 /\ mPc' = "publish"
              \/ stateId'[j] = stateId[j] /\ saved'[j] = saved[j] /\ j \notin GradientJobs /\ mPc' = "enqueue"
<1>1. /\ stateId \in [Jobs -> Nat] /\ saved \in [Jobs -> Points] /\ calculating \in [Jobs -> BOOLEAN]
  BY DEF TypeOK, MasterTypeOK
<1>2. /\ mPc = "idle" /\ mJob' = j /\ mPoint' = p /\ mNext' = 0 /\ received' = <<>>
      /\ UNCHANGED <<workerVars, channelVars>>
  BY DEF Call
<1>3. CASE j \in GradientJobs
  <2>1. /\ calculating' = [calculating EXCEPT ![j] = TRUE] /\ stateId' = [stateId EXCEPT ![j] = @ + 1]
        /\ mPc' = "publish" /\ saved' = saved /\ toUpdate' = p
    BY <1>3 DEF Call, StartGradient
  <2> QED BY <1>1, <1>2, <1>3, <2>1
<1>4. CASE j \notin GradientJobs /\ Changed(j, p) # {}
  <2>1. /\ saved' = [saved EXCEPT ![j] = p] /\ stateId' = [stateId EXCEPT ![j] = @ + 1]
        /\ mPc' = "publish" /\ calculating' = calculating
    BY <1>4 DEF Call, StartLikelihood
  <2> QED BY <1>1, <1>2, <1>4, <2>1
<1>5. CASE j \notin GradientJobs /\ Changed(j, p) = {}
  <2>1. /\ saved' = [saved EXCEPT ![j] = p] /\ stateId' = stateId
        /\ mPc' = "enqueue" /\ calculating' = calculating
    BY <1>5 DEF Call, StartLikelihood
  <2>2. p \in [Params -> Values] /\ saved[j] \in [Params -> Values]
    BY <1>1, ConstantsAssumption
  <2>3. p = saved[j]
    BY <1>5, <2>2 DEF Changed
  <2> QED BY <1>1, <1>2, <1>5, <2>1, <2>3
<1> QED BY <1>3, <1>4, <1>5

\* What a call does to the parameters of a likelihood.
LEMMA CallMoves ==
    ASSUME TypeOK, NEW j \in Jobs, NEW p \in Points, Call(j, p)
    PROVE  /\ j \in GradientJobs => \A k \in Jobs \ GradientJobs : moved'[k] = Params
           /\ \A k \in GradientJobs : moved'[k] = {}
           /\ j \notin GradientJobs => \A i \in Params :
                 /\ i \in Changed(j, p) => /\ toUpdate'[i] = p[i] /\ toUpdate'[i] # NotSent /\ mPc' = "publish"
                                           /\ \A k \in Jobs \ GradientJobs : k # j => i \in moved'[k]
                 /\ i \notin Changed(j, p) => /\ toUpdate'[i] = NotSent /\ saved[j][i] = p[i]
                                              /\ \A k \in Jobs \ GradientJobs : i \in moved'[k] <=> i \in moved[k]
<1>1. /\ moved \in [Jobs -> SUBSET Params] /\ GradientJobs \subseteq Jobs
      /\ p \in [Params -> Values] /\ NotSent \notin Values
  BY ConstantsAssumption DEF TypeOK, MasterTypeOK
<1>2. CASE j \in GradientJobs
  <2>1. moved' = MovedBy(j, Params)
    BY <1>2 DEF Call
  <2>2. \A k \in Jobs : moved[k] \cup Params = Params
    BY <1>1
  <2> QED BY <1>1, <1>2, <2>1, <2>2 DEF MovedBy
<1>3. CASE j \notin GradientJobs
  <2>1. /\ moved' = MovedBy(j, Changed(j, p))
        /\ toUpdate' = [i \in Params |-> IF i \in Changed(j, p) THEN p[i] ELSE NotSent]
        /\ Changed(j, p) # {} => mPc' = "publish"
    BY <1>3 DEF Call, StartLikelihood
  <2>2. \A k \in Jobs : moved'[k] = IF k \in GradientJobs THEN {}
                         ELSE IF k = j THEN moved[k] \ Changed(j, p) ELSE moved[k] \cup Changed(j, p)
    BY <2>1 DEF MovedBy
  <2>3. ASSUME NEW i \in Params, i \in Changed(j, p)
        PROVE  /\ toUpdate'[i] = p[i] /\ toUpdate'[i] # NotSent /\ mPc' = "publish"
               /\ \A k \in Jobs \ GradientJobs : k # j => i \in moved'[k]
    BY <1>1, <2>1, <2>2, <2>3
  <2>4. ASSUME NEW i \in Params, i \notin Changed(j, p)
        PROVE  /\ toUpdate'[i] = NotSent /\ saved[j][i] = p[i]
               /\ \A k \in Jobs \ GradientJobs : i \in moved'[k] <=> i \in moved[k]
    <3>1. toUpdate'[i] = NotSent
      BY <2>1, <2>4
    <3>2. saved[j][i] = p[i]
      BY <2>4 DEF Changed
    <3> QED BY <2>2, <2>4, <3>1, <3>2
  <2>5. \A k \in GradientJobs : moved'[k] = {}
    BY <1>1, <2>2
  <2> QED BY <1>3, <2>3, <2>4, <2>5
<1> QED BY <1>2, <1>3

\* What the receipt of a result does to the states.
LEMMA RetrieveFacts ==
    ASSUME TypeOK, CallInv, NEW w \in Workers, Retrieve(w)
    PROVE  /\ mPc = "gather" /\ mNext = 0 /\ mJob \in Jobs
           /\ UNCHANGED <<mJob, mPoint, mNext, saved, toUpdate, moved>>
           /\ UNCHANGED <<wState, wParams, wPoint, wCalculating, mw>>
           /\ \/ /\ mPc' = "finish" /\ mJob \in GradientJobs
                 /\ calculating' = [calculating EXCEPT ![mJob] = FALSE]
                 /\ stateId' = [stateId EXCEPT ![mJob] = @ + 1]
              \/ /\ UNCHANGED <<calculating, stateId>>
                 /\ mPc' = "gather" \/ (mPc' = "finish" /\ mJob \notin GradientJobs)
<1>1. mPc = "gather" /\ UNCHANGED <<mJob, mPoint, mNext, saved, toUpdate, moved, workerVars, mw>>
  BY DEF Retrieve
<1>2. mNext = 0 /\ mJob \in Jobs
  BY <1>1 DEF CallInv, CountInv, TypeOK, MasterTypeOK
<1>3. PICK r : /\ mPc' = IF Completes(r) THEN "finish" ELSE "gather"
               /\ IF Completes(r) /\ mJob \in GradientJobs
                  THEN /\ calculating' = [calculating EXCEPT ![mJob] = FALSE]
                       /\ stateId' = [stateId EXCEPT ![mJob] = @ + 1]
                  ELSE UNCHANGED <<calculating, stateId>>
  BY DEF Retrieve
<1> QED BY <1>1, <1>2, <1>3

\* What an update does to the worker that takes it.
LEMMA ReceiveFacts ==
    ASSUME TypeOK, NEW w \in Workers, Receives(w)
    PROVE  \E u \in Update :
             /\ 1 \in DOMAIN mw[w] /\ u = mw[w][1]
             /\ \A j \in Jobs : wState'[w][j] = IF j = u.job THEN u.state ELSE wState[w][j]
             /\ \A j \in Jobs : wCalculating'[w][j] = IF j = u.job THEN u.calculating ELSE wCalculating[w][j]
             /\ \A j \in GradientJobs :
                   wPoint'[w][j] = IF j = u.job THEN Overwritten(wPoint[w][j], u.point) ELSE wPoint[w][j]
             /\ wParams'[w] = Overwritten(wParams[w], u.point) \/ (u.job \in GradientJobs /\ wParams' = wParams)
             /\ \A i \in DOMAIN mw'[w] : i + 1 \in DOMAIN mw[w] /\ mw'[w][i] = mw[w][i + 1] /\ i \in Nat
             /\ \A i \in DOMAIN mw[w] : i \in Nat /\ (i # 1 => i - 1 \in DOMAIN mw'[w])
             /\ \A v \in Workers \ {w} : /\ mw'[v] = mw[v] /\ wState'[v] = wState[v]
                                         /\ wCalculating'[v] = wCalculating[v] /\ wPoint'[v] = wPoint[v]
                                         /\ wParams'[v] = wParams[v]
<1> DEFINE u == Head(mw[w])
<1>1. /\ mw \in [Workers -> Seq(Update)] /\ wState \in [Workers -> [Jobs -> Nat]]
      /\ wPoint \in [Workers -> [GradientJobs -> [Params -> Values]]]
      /\ wParams \in [Workers -> WorkerPoints]
      /\ wCalculating \in [Workers -> [Jobs -> BOOLEAN]]
  BY DEF TypeOK, ChannelTypeOK, WorkerTypeOK
<1>2. /\ mw[w] # <<>> /\ mw' = [mw EXCEPT ![w] = Tail(@)]
      /\ wState' = [wState EXCEPT ![w] = [wState[w] EXCEPT ![u.job] = u.state]]
      /\ wCalculating' = [wCalculating EXCEPT ![w][u.job] = u.calculating]
      /\ \/ /\ u.job \in GradientJobs
            /\ wPoint' = [wPoint EXCEPT ![w][u.job] = Overwritten(@, u.point)]
            /\ wParams' = wParams \/ wParams' = [wParams EXCEPT ![w] = Overwritten(@, u.point)]
         \/ /\ u.job \notin GradientJobs /\ wPoint' = wPoint
            /\ wParams' = [wParams EXCEPT ![w] = Overwritten(@, u.point)]
  BY DEF Receives, ReceiveUpdate, StatesAfter
<1>3. mw[w] \in Seq(Update) /\ mw'[w] = Tail(mw[w])
  BY <1>1, <1>2
<1>4. 1 \in DOMAIN mw[w] /\ u = mw[w][1] /\ u \in Update
  BY <1>2, <1>3
<1> HIDE DEF u
<1>5. /\ \A i \in DOMAIN mw'[w] : i + 1 \in DOMAIN mw[w] /\ mw'[w][i] = mw[w][i + 1] /\ i \in Nat
      /\ \A i \in DOMAIN mw[w] : i \in Nat /\ (i # 1 => i - 1 \in DOMAIN mw'[w])
  <2> DEFINE s == mw[w]
             r == mw'[w]
             n == Len(s)
  <2>1. s \in Seq(Update) /\ s # <<>> /\ r = Tail(s)
    BY <1>2, <1>3
  <2> HIDE DEF s, r
  <2>2. /\ n \in Nat \ {0} /\ DOMAIN s = 1 .. n /\ DOMAIN r = 1 .. n - 1
        /\ \A i \in 1 .. n - 1 : r[i] = s[i + 1]
    BY <2>1
  <2> HIDE DEF n
  <2>3. \A i \in DOMAIN r : i + 1 \in DOMAIN s /\ r[i] = s[i + 1] /\ i \in Nat
    BY <2>2
  <2>4. \A i \in DOMAIN s : i \in Nat /\ (i # 1 => i - 1 \in DOMAIN r)
    BY <2>2
  <2> QED BY <2>3, <2>4 DEF s, r
<1>6. \A v \in Workers \ {w} : /\ mw'[v] = mw[v] /\ wState'[v] = wState[v]
                               /\ wCalculating'[v] = wCalculating[v] /\ wPoint'[v] = wPoint[v]
                               /\ wParams'[v] = wParams[v]
  BY <1>1, <1>2
<1>7. \A j \in Jobs : wState'[w][j] = IF j = u.job THEN u.state ELSE wState[w][j]
  BY <1>1, <1>2
<1>8. \A j \in Jobs : wCalculating'[w][j] = IF j = u.job THEN u.calculating ELSE wCalculating[w][j]
  BY <1>1, <1>2
<1>9. \A j \in GradientJobs :
         wPoint'[w][j] = IF j = u.job THEN Overwritten(wPoint[w][j], u.point) ELSE wPoint[w][j]
  BY <1>1, <1>2
<1>10. wParams'[w] = Overwritten(wParams[w], u.point) \/ (u.job \in GradientJobs /\ wParams' = wParams)
  BY <1>1, <1>2
<1> QED BY <1>4, <1>5, <1>6, <1>7, <1>8, <1>9, <1>10

\* What a publication does to the channels.
LEMMA SendsFacts ==
    ASSUME TypeOK, NEW point \in Sent, Sends(point)
    PROVE  \E last \in Nat, u \in Update :
             /\ u = [job |-> mJob, state |-> stateId[mJob], calculating |-> calculating[mJob], point |-> point]
             /\ DOMAIN mw[mNext] = 1 .. last /\ DOMAIN mw'[mNext] = 1 .. last + 1
             /\ mw'[mNext][last + 1] = u
             /\ \A i \in 1 .. last : mw'[mNext][i] = mw[mNext][i]
             /\ \A v \in Workers \ {mNext} : mw'[v] = mw[v]
<1> DEFINE u == [job |-> mJob, state |-> stateId[mJob], calculating |-> calculating[mJob], point |-> point]
           last == Len(mw[mNext])
<1>1. /\ mw \in [Workers -> Seq(Update)] /\ mNext \in Workers /\ mw' = [mw EXCEPT ![mNext] = Append(@, u)]
  BY DEF TypeOK, ChannelTypeOK, Sends
<1>2. mPc \in {"publish", "finish"} /\ mJob \in Jobs
  BY DEF Sends, TypeOK, MasterTypeOK
<1>3. u \in Update
  BY <1>2 DEF Update, TypeOK, MasterTypeOK
<1> HIDE DEF u
<1>4. mw[mNext] \in Seq(Update) /\ mw'[mNext] = Append(mw[mNext], u)
  BY <1>1
<1>5. /\ last \in Nat /\ DOMAIN mw[mNext] = 1 .. last /\ DOMAIN mw'[mNext] = 1 .. last + 1
      /\ mw'[mNext][last + 1] = u
      /\ \A i \in 1 .. last : mw'[mNext][i] = mw[mNext][i]
  BY <1>3, <1>4
<1>6. \A v \in Workers \ {mNext} : mw'[v] = mw[v]
  BY <1>1
<1> HIDE DEF last
<1> QED BY <1>3, <1>5, <1>6 DEF u

-----------------------------------------------------------------------------
(* The states of the jobs: the state of a task arrives, and says its point *)

\* The flag of the master is up during a gradient calculation, and only then, and
\* what is published is the call's point.
LEMMA NextMasterInv ==
    ASSUME TypeOK, CallInv, MasterInv, [Next]_vars
    PROVE  MasterInv'
<1>0. calculating \in [Jobs -> BOOLEAN] /\ (mPc # "idle" => mJob \in Jobs) /\ GradientJobs \subseteq Jobs
  BY ConstantsAssumption DEF TypeOK, MasterTypeOK
<1>1. ASSUME NEW j \in Jobs, NEW p \in Points, Call(j, p) PROVE MasterInv'
  <2>1. \A k \in Jobs : calculating[k] = FALSE
    BY <1>0, <1>1, CallFacts DEF MasterInv
  <2>2. \A k \in Jobs : calculating'[k] <=> k \in GradientJobs /\ k = j
    BY <1>1, <2>1, CallFacts
  <2>3. mJob' = j /\ mPoint' = p /\ mPc' \in {"publish", "enqueue"} /\ (j \notin GradientJobs => saved'[j] = p)
    BY <1>1, CallFacts
  <2>4. j \in GradientJobs => mPc' = "publish" /\ toUpdate' = p
    BY <1>1, CallFacts
  <2>5. \A k \in GradientJobs : moved'[k] = {}
    BY <1>1, CallMoves
  <2>6. j \in GradientJobs => \A k \in Jobs \ GradientJobs : moved'[k] = Params
    BY <1>1, CallMoves
  <2>7. ASSUME NEW i \in Params, toUpdate'[i] # NotSent
        PROVE  toUpdate'[i] = p[i] /\ \A k \in Jobs : k # j /\ k \notin GradientJobs => i \in moved'[k]
    <3>1. CASE j \in GradientJobs
      BY <2>4, <2>6, <3>1
    <3>2. CASE j \notin GradientJobs
      <4>1. /\ i \in Changed(j, p) => toUpdate'[i] = p[i] /\ \A k \in Jobs \ GradientJobs : k # j => i \in moved'[k]
            /\ i \notin Changed(j, p) => toUpdate'[i] = NotSent
        BY <1>1, <3>2, CallMoves
      <4> QED BY <2>7, <4>1
    <3> QED BY <3>1, <3>2
  <2> QED BY <2>2, <2>3, <2>4, <2>5, <2>6, <2>7 DEF MasterInv
<1>2. ASSUME NEW point \in Sent, Sends(point) PROVE MasterInv'
  BY <1>2 DEF MasterInv, Sends
<1>3. ASSUME NEW w \in Workers, Retrieve(w) PROVE MasterInv'
  <2>1. mPc = "gather" /\ mJob \in Jobs /\ UNCHANGED <<mJob, mPoint, saved, toUpdate, moved>>
    BY <1>3, RetrieveFacts
  <2>2. CASE /\ mPc' = "finish" /\ mJob \in GradientJobs
             /\ calculating' = [calculating EXCEPT ![mJob] = FALSE]
    <3>1. \A k \in Jobs : calculating'[k] = FALSE
      BY <1>0, <2>1, <2>2 DEF MasterInv
    <3> QED BY <2>1, <2>2, <3>1 DEF MasterInv
  <2>3. CASE /\ calculating' = calculating
             /\ mPc' = "gather" \/ (mPc' = "finish" /\ mJob \notin GradientJobs)
    BY <2>1, <2>3 DEF MasterInv
  <2> QED BY <1>3, <2>2, <2>3, RetrieveFacts
<1>4. ASSUME NEW w \in Workers, Receives(w) PROVE MasterInv'
  BY <1>4 DEF MasterInv, Receives
<1>5. CASE Quiet
  BY <1>5 DEF MasterInv, Quiet
<1> QED BY <1>1, <1>2, <1>3, <1>4, <1>5, StepKinds

\* The parts of ArrivalInv about one worker and one job.
Arrives(w, j) == Unpublished(w, j) \/ IsThere(w, j) \/ \E i \in DOMAIN mw[w] : Brings(w, j, i)

\* What is under way stays under way.
LEMMA ArrivalKept ==
    ASSUME NEW w \in Workers, NEW j \in Jobs, Arrives(w, j), ~Unpublished(w, j) \/ Unpublished(w, j)',
           stateId'[j] = stateId[j], wState'[w] = wState[w], mw'[w] = mw[w]
    PROVE  Arrives(w, j)'
BY DEF Arrives, IsThere, Brings

\* A state that is published is on its way to every worker, or has arrived.
LEMMA NextArrivalInv ==
    ASSUME TypeOK, CallInv, ArrivalInv, [Next]_vars
    PROVE  ArrivalInv'
<1> SUFFICES ASSUME NEW v \in Workers, NEW k \in Jobs PROVE Arrives(v, k)'
  BY DEF ArrivalInv, Arrives
<1>0. Arrives(v, k) /\ v \in Nat /\ v <= NWorkers - 1 /\ NWorkers \in Nat
  BY ConstantsAssumption DEF ArrivalInv, Arrives, Workers
<1>1. ASSUME NEW j \in Jobs, NEW p \in Points, Call(j, p) PROVE Arrives(v, k)'
  <2>1. mPc = "idle" /\ mPc' \in {"publish", "enqueue"} /\ mJob' = j /\ mNext' = 0 /\ wState' = wState /\ mw' = mw
    BY <1>1, CallFacts
  <2>2. ~Unpublished(v, k)
    BY <2>1 DEF Unpublished
  <2>3. CASE stateId'[k] = stateId[k]
    BY <1>0, <2>1, <2>2, <2>3, ArrivalKept
  <2>4. CASE stateId'[k] # stateId[k]
    <3>1. k = j /\ mPc' = "publish"
      BY <1>1, <2>4, CallFacts
    <3> QED BY <1>0, <2>1, <3>1 DEF Arrives, Unpublished
  <2> QED BY <2>3, <2>4
<1>2. ASSUME NEW point \in Sent, Sends(point) PROVE Arrives(v, k)'
  <2>1. PICK last \in Nat, u \in Update :
             /\ u = [job |-> mJob, state |-> stateId[mJob], calculating |-> calculating[mJob], point |-> point]
             /\ DOMAIN mw[mNext] = 1 .. last /\ DOMAIN mw'[mNext] = 1 .. last + 1
             /\ mw'[mNext][last + 1] = u
             /\ \A i \in 1 .. last : mw'[mNext][i] = mw[mNext][i]
             /\ \A n \in Workers \ {mNext} : mw'[n] = mw[n]
    BY <1>2, SendsFacts
  <2>2. mNext \in Workers /\ mNext \in Nat /\ UNCHANGED <<mJob, stateId, wState>>
    BY <1>2, ConstantsAssumption DEF Sends, Workers
  <2>3. CASE v # mNext
    <3>1. ASSUME Unpublished(v, k) PROVE Unpublished(v, k)'
      <4>1. mPc \in {"publish", "finish"} /\ mJob = k /\ mNext <= v /\ (mPc = "finish" => k \in GradientJobs)
        BY <3>1 DEF Unpublished
      <4>2. mNext # NWorkers - 1 /\ mNext + 1 <= v
        BY <1>0, <2>2, <2>3, <4>1
      <4>3. mNext' = mNext + 1 /\ mPc' = mPc
        BY <1>2, <4>2 DEF Sends
      <4> QED BY <2>2, <4>1, <4>2, <4>3 DEF Unpublished
    <3>2. mw'[v] = mw[v]
      BY <2>1, <2>3
    <3> QED BY <1>0, <2>2, <3>1, <3>2, ArrivalKept
  <2>4. CASE v = mNext /\ k = mJob
    <3>1. /\ last + 1 \in DOMAIN mw'[v] /\ mw'[v][last + 1].job = k /\ mw'[v][last + 1].state = stateId'[k]
          /\ \A i \in DOMAIN mw'[v] : ~(i > last + 1)
      BY <2>1, <2>2, <2>4
    <3>2. Brings(v, k, last + 1)'
      BY <3>1 DEF Brings
    <3> QED BY <3>1, <3>2 DEF Arrives
  <2>5. CASE v = mNext /\ k # mJob
    <3>1. ~Unpublished(v, k)
      BY <2>5 DEF Unpublished
    <3>2. /\ DOMAIN mw[v] \subseteq DOMAIN mw'[v]
          /\ \A i \in DOMAIN mw'[v] : mw'[v][i].job # k \/ (i \in DOMAIN mw[v] /\ mw'[v][i] = mw[v][i])
          /\ \A i \in DOMAIN mw[v] : mw'[v][i] = mw[v][i]
      <4>0. u.job # k
        BY <2>1, <2>5
      <4>1. \A i \in 1 .. last + 1 : i = last + 1 \/ i \in 1 .. last
        OBVIOUS
      <4>2. 1 .. last \subseteq 1 .. last + 1
        OBVIOUS
      <4> QED BY <2>1, <2>5, <4>0, <4>1, <4>2
    <3>3. IsThere(v, k) => IsThere(v, k)'
      BY <2>2, <3>2 DEF IsThere
    <3>4. ASSUME NEW i \in DOMAIN mw[v], Brings(v, k, i) PROVE Brings(v, k, i)'
      <4>1. /\ mw[v][i].job = k /\ mw[v][i].state = stateId[k]
            /\ \A l \in DOMAIN mw[v] : l > i => mw[v][l].job # k
        BY <3>4 DEF Brings
      <4>2. \A l \in DOMAIN mw'[v] : l > i => mw'[v][l].job # k
        BY <3>2, <4>1
      <4> QED BY <2>2, <3>2, <4>1, <4>2 DEF Brings
    <3>5. DOMAIN mw[v] \subseteq DOMAIN mw'[v]
      BY <3>2
    <3> QED BY <1>0, <3>1, <3>3, <3>4, <3>5 DEF Arrives
  <2> QED BY <2>3, <2>4, <2>5
<1>3. ASSUME NEW w \in Workers, Retrieve(w) PROVE Arrives(v, k)'
  <2>1. /\ mPc = "gather" /\ mNext' = 0 /\ mJob \in Jobs /\ UNCHANGED <<mJob, wState, mw>>
    BY <1>3, RetrieveFacts
  <2>2. ~Unpublished(v, k)
    BY <2>1 DEF Unpublished
  <2>3. CASE stateId'[k] = stateId[k]
    BY <1>0, <2>1, <2>2, <2>3, ArrivalKept
  <2>4. CASE stateId'[k] # stateId[k]
    <3>1. mPc' = "finish" /\ mJob \in GradientJobs /\ stateId' = [stateId EXCEPT ![mJob] = @ + 1]
      BY <1>3, <2>4, RetrieveFacts
    <3>2. k = mJob
      BY <2>4, <3>1 DEF TypeOK, MasterTypeOK
    <3> QED BY <1>0, <2>1, <3>1, <3>2 DEF Arrives, Unpublished
  <2> QED BY <2>3, <2>4
<1>4. ASSUME NEW w \in Workers, Receives(w) PROVE Arrives(v, k)'
  <2>1. PICK u \in Update :
             /\ 1 \in DOMAIN mw[w] /\ u = mw[w][1]
             /\ \A j \in Jobs : wState'[w][j] = IF j = u.job THEN u.state ELSE wState[w][j]
             /\ \A i \in DOMAIN mw'[w] : i + 1 \in DOMAIN mw[w] /\ mw'[w][i] = mw[w][i + 1] /\ i \in Nat
             /\ \A i \in DOMAIN mw[w] : i \in Nat /\ (i # 1 => i - 1 \in DOMAIN mw'[w])
             /\ \A n \in Workers \ {w} : mw'[n] = mw[n] /\ wState'[n] = wState[n]
    BY <1>4, ReceiveFacts
  <2>2. UNCHANGED <<mPc, mNext, mJob, stateId>>
    BY <1>4 DEF Receives
  <2>3. Unpublished(v, k)' <=> Unpublished(v, k)
    BY <2>2 DEF Unpublished
  <2>4. CASE v # w
    <3>1. mw'[v] = mw[v] /\ wState'[v] = wState[v]
      BY <2>1, <2>4
    <3> QED BY <1>0, <2>2, <2>3, <3>1, ArrivalKept
  <2>5. CASE v = w
    <3>1. ASSUME IsThere(w, k) PROVE IsThere(w, k)'
      <4>1. wState[w][k] = stateId[k] /\ \A i \in DOMAIN mw[w] : mw[w][i].job # k
        BY <3>1 DEF IsThere
      <4>2. wState'[w][k] = stateId'[k]
        BY <2>1, <2>2, <4>1
      <4>3. \A i \in DOMAIN mw'[w] : mw'[w][i].job # k
        BY <2>1, <4>1
      <4> QED BY <4>2, <4>3 DEF IsThere
    <3>2. ASSUME NEW i \in DOMAIN mw[w], Brings(w, k, i) PROVE Arrives(w, k)'
      <4>1. /\ mw[w][i].job = k /\ mw[w][i].state = stateId[k] /\ i \in Nat
            /\ \A l \in DOMAIN mw[w] : l > i => mw[w][l].job # k
        BY <2>1, <3>2 DEF Brings
      <4>2. CASE i = 1
        <5>1. wState'[w][k] = stateId'[k]
          BY <2>1, <2>2, <4>1, <4>2
        <5>2. \A l \in DOMAIN mw'[w] : mw'[w][l].job # k
          <6> SUFFICES ASSUME NEW l \in DOMAIN mw'[w] PROVE mw'[w][l].job # k
            OBVIOUS
          <6>1. l \in Nat /\ l + 1 \in DOMAIN mw[w] /\ mw'[w][l] = mw[w][l + 1]
            BY <2>1
          <6>2. l # 0
            <7>1. mw'[w] \in Seq(Update)
              BY <1>4, <2>1 DEF TypeOK, ChannelTypeOK, Receives, ReceiveUpdate
            <7> QED BY <7>1
          <6>3. l + 1 > 1
            BY <6>1, <6>2
          <6> QED BY <4>1, <4>2, <6>1, <6>3
        <5> QED BY <5>1, <5>2 DEF Arrives, IsThere
      <4>3. CASE i # 1
        <5>1. i - 1 \in DOMAIN mw'[w]
          BY <2>1, <4>3
        <5>2. mw'[w][i - 1] = mw[w][i]
          <6>1. (i - 1) + 1 = i
            BY <4>1
          <6> QED BY <2>1, <5>1, <6>1
        <5>3. \A l \in DOMAIN mw'[w] : l > i - 1 => mw'[w][l].job # k
          <6> SUFFICES ASSUME NEW l \in DOMAIN mw'[w], l > i - 1 PROVE mw'[w][l].job # k
            OBVIOUS
          <6>1. l \in Nat /\ l + 1 \in DOMAIN mw[w] /\ mw'[w][l] = mw[w][l + 1]
            BY <2>1
          <6>2. l + 1 > i
            BY <4>1, <6>1
          <6> QED BY <4>1, <6>1, <6>2
        <5>4. Brings(w, k, i - 1)'
          BY <2>2, <4>1, <5>1, <5>2, <5>3 DEF Brings
        <5> QED BY <5>1, <5>4 DEF Arrives
      <4> QED BY <4>2, <4>3
    <3> QED BY <1>0, <2>3, <2>5, <3>1, <3>2 DEF Arrives
  <2> QED BY <2>4, <2>5
<1>5. CASE Quiet
  <2>1. UNCHANGED <<mJob, stateId, wState, mw>>
    BY <1>5 DEF Quiet
  <2>2. ~Unpublished(v, k) \/ Unpublished(v, k)'
    BY <1>5 DEF Quiet, Unpublished
  <2> QED BY <1>0, <2>1, <2>2, ArrivalKept
<1> QED BY <1>1, <1>2, <1>3, <1>4, <1>5, StepKinds

\* The parts of ContentInv about one job on one worker, and about one update.
TrueOf(w, j) ==
    /\ wState[w][j] <= stateId[j]
    /\ wState[w][j] = stateId[j] => Says(j, wCalculating[w][j], wPoint[w][j])
TrueUpdate(u) ==
    /\ u.state <= stateId[u.job]
    /\ u.state = stateId[u.job] => Says(u.job, u.calculating, u.point)

\* ContentInv by its parts.
LEMMA ContentParts ==
    ContentInv <=> \A w \in Workers : /\ \A j \in Jobs : TrueOf(w, j)
                                      /\ \A i \in DOMAIN mw[w] : TrueUpdate(mw[w][i])
BY DEF ContentInv, TrueOf, TrueUpdate

\* The same after a step.
LEMMA ContentPartsNext ==
    ContentInv' <=> \A w \in Workers : /\ \A j \in Jobs : TrueOf(w, j)'
                                       /\ \A i \in DOMAIN mw'[w] : TrueUpdate(mw[w][i])'
BY DEF ContentInv, TrueOf, TrueUpdate

\* The state of a job that the step leaves alone, or supersedes.
JobKept(j) ==
    \/ stateId'[j] = stateId[j] + 1
    \/ /\ stateId'[j] = stateId[j] /\ calculating'[j] = calculating[j]
       /\ j \in GradientJobs /\ calculating[j] => mPoint' = mPoint

\* Says of what the step leaves.
SaysNext(j, flag, point) ==
    /\ flag = calculating'[j]
    /\ j \in GradientJobs /\ calculating'[j] => point = mPoint'

\* What was said of it is still true, or no longer said.
LEMMA ContentKept ==
    ASSUME TypeOK, ContentInv, \A j \in Jobs : JobKept(j),
           UNCHANGED <<wState, wCalculating, wPoint, mw>>
    PROVE  ContentInv'
<1> SUFFICES ASSUME NEW w \in Workers
             PROVE  /\ \A j \in Jobs : TrueOf(w, j)'
                    /\ \A i \in DOMAIN mw'[w] : TrueUpdate(mw[w][i])'
  BY ContentPartsNext
<1>1. ASSUME NEW j \in Jobs, NEW id \in Nat, NEW flag, NEW point,
             id <= stateId[j], id = stateId[j] => Says(j, flag, point)
      PROVE  id <= stateId'[j] /\ (id = stateId'[j] => SaysNext(j, flag, point))
  <2>1. stateId[j] \in Nat /\ JobKept(j)
    BY DEF TypeOK, MasterTypeOK
  <2>2. CASE stateId'[j] = stateId[j] + 1
    BY <1>1, <2>1, <2>2
  <2>3. CASE /\ stateId'[j] = stateId[j] /\ calculating'[j] = calculating[j]
             /\ j \in GradientJobs /\ calculating[j] => mPoint' = mPoint
    BY <1>1, <2>3 DEF Says, SaysNext
  <2> QED BY <2>1, <2>2, <2>3 DEF JobKept
<1>2. ASSUME NEW j \in Jobs PROVE TrueOf(w, j)'
  <2>1. TrueOf(w, j) /\ wState[w][j] \in Nat
    BY ContentParts DEF TypeOK, WorkerTypeOK
  <2> DEFINE id == wState[w][j]
             flag == wCalculating[w][j]
             point == wPoint[w][j]
  <2>2. id \in Nat /\ id <= stateId[j] /\ (id = stateId[j] => Says(j, flag, point))
    BY <2>1 DEF TrueOf
  <2> HIDE DEF id, flag, point
  <2>3. id <= stateId'[j] /\ (id = stateId'[j] => SaysNext(j, flag, point))
    BY <1>1, <2>2
  <2> QED BY <2>3 DEF TrueOf, id, flag, point, Says, SaysNext
<1>3. ASSUME NEW i \in DOMAIN mw'[w] PROVE TrueUpdate(mw[w][i])'
  <2>1. i \in DOMAIN mw[w] /\ TrueUpdate(mw[w][i])
    BY ContentParts
  <2>2. mw[w] \in Seq(Update)
    BY DEF TypeOK, ChannelTypeOK
  <2>3. mw[w][i] \in Update
    BY <2>1, <2>2
  <2> DEFINE u == mw[w][i]
  <2>4. u \in Update /\ u.state <= stateId[u.job] /\ (u.state = stateId[u.job] => Says(u.job, u.calculating, u.point))
    BY <2>1, <2>3 DEF TrueUpdate
  <2>5. mw'[w][i] = u
    OBVIOUS
  <2> HIDE DEF u
  <2>6. u.job \in Jobs /\ u.state \in Nat
    BY <2>4 DEF Update
  <2>7. u.state <= stateId'[u.job] /\ (u.state = stateId'[u.job] => SaysNext(u.job, u.calculating, u.point))
    BY <1>1, <2>4, <2>6
  <2> QED BY <2>5, <2>7 DEF TrueUpdate, Says, SaysNext
<1> QED BY <1>2, <1>3

\* Who is told of the present state of a job is told its values and its flag.
LEMMA NextContentInv ==
    ASSUME TypeOK, CallInv, MasterInv, ContentInv, [Next]_vars
    PROVE  ContentInv'
<1>0. /\ mw \in [Workers -> Seq(Update)] /\ stateId \in [Jobs -> Nat] /\ calculating \in [Jobs -> BOOLEAN]
      /\ mPoint \in Points /\ mPoint \in [Params -> Values] /\ NotSent \notin Values
  BY ConstantsAssumption DEF TypeOK, ChannelTypeOK, MasterTypeOK
<1>1. ASSUME NEW j \in Jobs, NEW p \in Points, Call(j, p) PROVE ContentInv'
  <2>1. \A k \in Jobs : calculating[k] = FALSE
    BY <1>0, <1>1, CallFacts DEF MasterInv
  <2>2. \A k \in Jobs \ {j} : JobKept(k)
    BY <1>1, <2>1, CallFacts DEF JobKept
  <2>3. JobKept(j)
    <3>1. CASE stateId'[j] = stateId[j] + 1
      BY <3>1 DEF JobKept
    <3>2. CASE stateId'[j] = stateId[j] /\ j \notin GradientJobs
      <4>1. calculating'[j] = calculating[j]
        BY <1>1, <3>2, CallFacts
      <4> QED BY <3>2, <4>1 DEF JobKept
    <3> QED BY <1>1, <3>1, <3>2, CallFacts
  <2>4. UNCHANGED <<wState, wCalculating, wPoint, mw>>
    BY <1>1, CallFacts
  <2> QED BY <2>2, <2>3, <2>4, ContentKept
<1>2. ASSUME NEW point \in Sent, Sends(point) PROVE ContentInv'
  <2>1. PICK last \in Nat, u \in Update :
             /\ u = [job |-> mJob, state |-> stateId[mJob], calculating |-> calculating[mJob], point |-> point]
             /\ DOMAIN mw[mNext] = 1 .. last /\ DOMAIN mw'[mNext] = 1 .. last + 1
             /\ mw'[mNext][last + 1] = u
             /\ \A i \in 1 .. last : mw'[mNext][i] = mw[mNext][i]
             /\ \A n \in Workers \ {mNext} : mw'[n] = mw[n]
    BY <1>2, SendsFacts
  <2>2. /\ UNCHANGED <<mJob, mPoint, stateId, calculating, wState, wPoint, wCalculating>>
        /\ mPc # "idle" /\ mJob \in Jobs /\ mNext \in Workers
        /\ \/ mPc = "publish" /\ point = toUpdate
           \/ mPc = "finish" /\ mJob \in GradientJobs
    BY <1>2 DEF Sends, TypeOK, MasterTypeOK
  <2>3. Says(mJob, calculating[mJob], point)
    <3>1. CASE mPc = "publish" /\ point = toUpdate
      BY <2>2, <3>1 DEF Says, MasterInv
    <3>2. CASE mPc = "finish" /\ mJob \in GradientJobs
      BY <2>2, <3>2 DEF Says, MasterInv
    <3> QED BY <2>2, <3>1, <3>2
  <2>4. TrueUpdate(u)
    <3>1. u.job = mJob /\ u.state = stateId[mJob] /\ u.calculating = calculating[mJob] /\ u.point = point
      BY <2>1
    <3>2. u.state <= stateId[u.job]
      BY <1>0, <2>2, <3>1
    <3> QED BY <2>3, <3>1, <3>2 DEF TrueUpdate
  <2>5. ASSUME NEW w \in Workers, NEW i \in DOMAIN mw'[w]
        PROVE  \/ mw'[w][i] = u
               \/ i \in DOMAIN mw[w] /\ mw'[w][i] = mw[w][i]
    <3>1. CASE w # mNext
      BY <2>1, <3>1
    <3>2. CASE w = mNext
      <4>1. i \in 1 .. last + 1
        BY <2>1, <3>2
      <4>2. i = last + 1 \/ i \in 1 .. last
        BY <4>1
      <4> QED BY <2>1, <3>2, <4>2
    <3> QED BY <3>1, <3>2
  <2>6. ASSUME NEW w \in Workers, NEW i \in DOMAIN mw'[w] PROVE TrueUpdate(mw'[w][i])
    BY <2>4, <2>5, ContentParts
  <2>7. ASSUME NEW w \in Workers, NEW j \in Jobs PROVE TrueOf(w, j)'
    BY <2>2, ContentParts DEF TrueOf, Says
  <2>8. ASSUME NEW w \in Workers, NEW i \in DOMAIN mw'[w] PROVE TrueUpdate(mw[w][i])'
    BY <2>2, <2>6 DEF TrueUpdate, Says
  <2> QED BY <2>7, <2>8, ContentPartsNext
<1>3. ASSUME NEW w \in Workers, Retrieve(w) PROVE ContentInv'
  <2>1. /\ UNCHANGED <<mPoint, wState, wPoint, wCalculating, mw>> /\ mJob \in Jobs
        /\ \/ /\ calculating' = [calculating EXCEPT ![mJob] = FALSE]
              /\ stateId' = [stateId EXCEPT ![mJob] = @ + 1]
           \/ UNCHANGED <<calculating, stateId>>
    BY <1>3, RetrieveFacts
  <2>2. \A j \in Jobs : JobKept(j)
    BY <1>0, <2>1 DEF JobKept
  <2> QED BY <2>1, <2>2, ContentKept
<1>4. ASSUME NEW w \in Workers, Receives(w) PROVE ContentInv'
  <2>1. PICK u \in Update :
             /\ 1 \in DOMAIN mw[w] /\ u = mw[w][1]
             /\ \A j \in Jobs : wState'[w][j] = IF j = u.job THEN u.state ELSE wState[w][j]
             /\ \A j \in Jobs : wCalculating'[w][j] = IF j = u.job THEN u.calculating ELSE wCalculating[w][j]
             /\ \A j \in GradientJobs :
                   wPoint'[w][j] = IF j = u.job THEN Overwritten(wPoint[w][j], u.point) ELSE wPoint[w][j]
             /\ \A i \in DOMAIN mw'[w] : i + 1 \in DOMAIN mw[w] /\ mw'[w][i] = mw[w][i + 1]
             /\ \A v \in Workers \ {w} : /\ mw'[v] = mw[v] /\ wState'[v] = wState[v]
                                         /\ wCalculating'[v] = wCalculating[v] /\ wPoint'[v] = wPoint[v]
    BY <1>4, ReceiveFacts
  <2>2. UNCHANGED <<mJob, mPoint, stateId, calculating>>
    BY <1>4 DEF Receives
  <2>3. TrueUpdate(u)
    BY <2>1, ContentParts
  <2>4. ASSUME NEW j \in Jobs PROVE TrueOf(w, j)'
    <3>1. CASE j # u.job
      <4>1. TrueOf(w, j)
        BY ContentParts
      <4>2. /\ wState'[w][j] = wState[w][j] /\ wCalculating'[w][j] = wCalculating[w][j]
            /\ j \in GradientJobs => wPoint'[w][j] = wPoint[w][j]
        BY <2>1, <3>1
      <4> QED BY <2>2, <4>1, <4>2 DEF TrueOf, Says
    <3>2. CASE j = u.job
      <4>1. /\ wState'[w][j] = u.state /\ wCalculating'[w][j] = u.calculating
            /\ j \in GradientJobs => wPoint'[w][j] = Overwritten(wPoint[w][j], u.point)
        BY <2>1, <3>2
      <4>2. u.state <= stateId[j] /\ (u.state = stateId[j] => Says(j, u.calculating, u.point))
        BY <2>3, <3>2 DEF TrueUpdate
      <4>3. Says(j, u.calculating, u.point) => Says(j, u.calculating, wPoint'[w][j])
        <5>1. Overwritten(wPoint[w][j], mPoint) = mPoint
          BY <1>0 DEF Overwritten
        <5> QED BY <4>1, <5>1 DEF Says
      <4> QED BY <2>2, <4>1, <4>2, <4>3 DEF TrueOf, Says
    <3> QED BY <3>1, <3>2
  <2>5. ASSUME NEW v \in Workers, v # w, NEW j \in Jobs PROVE TrueOf(v, j)'
    <3>1. TrueOf(v, j)
      BY ContentParts
    <3>2. wState'[v] = wState[v] /\ wCalculating'[v] = wCalculating[v] /\ wPoint'[v] = wPoint[v]
      BY <2>1, <2>5
    <3> QED BY <2>2, <3>1, <3>2 DEF TrueOf, Says
  <2>6. ASSUME NEW v \in Workers, NEW i \in DOMAIN mw'[v] PROVE TrueUpdate(mw'[v][i])
    <3>1. CASE v = w
      BY <2>1, <2>6, <3>1, ContentParts
    <3>2. CASE v # w
      BY <2>1, <2>6, <3>2, ContentParts
    <3> QED BY <3>1, <3>2
  <2>7. ASSUME NEW v \in Workers, NEW i \in DOMAIN mw'[v] PROVE TrueUpdate(mw[v][i])'
    BY <2>2, <2>6 DEF TrueUpdate, Says
  <2> QED BY <2>4, <2>5, <2>7, ContentPartsNext
<1>5. CASE Quiet
  <2>1. \A j \in Jobs : JobKept(j)
    BY <1>5 DEF Quiet, JobKept
  <2> QED BY <1>5, <2>1, ContentKept DEF Quiet
<1> QED BY <1>1, <1>2, <1>3, <1>4, <1>5, StepKinds

\* The step keeps a publication no worker has yet out of the reach of those it has reached.
UnpublishedKept(w, j) == Unpublished(w, j)' => Unpublished(w, j)

\* A publication that goes on stays unpublished for the workers it has not reached.
LEMMA SendsUnpublished ==
    ASSUME TypeOK, NEW point \in Sent, Sends(point), NEW w \in Workers, NEW j \in Jobs
    PROVE  /\ UnpublishedKept(w, j)
           /\ w = mNext => ~Unpublished(w, j)'
           /\ w # mNext /\ Unpublished(w, j) => Unpublished(w, j)'
<1>1. mNext \in Nat /\ w \in Nat /\ w <= NWorkers - 1 /\ NWorkers \in Nat /\ mJob' = mJob
  BY ConstantsAssumption DEF Sends, Workers
<1>2. CASE mNext' = mNext + 1 /\ mPc' = mPc
  BY <1>1, <1>2 DEF UnpublishedKept, Unpublished
<1>3. CASE mNext' = 0 /\ mNext = NWorkers - 1 /\ mPc' = IF mPc = "publish" THEN "enqueue" ELSE "idle"
  <2>1. mPc' \notin {"publish", "finish"}
    BY <1>3
  <2>2. w # mNext => ~(mNext <= w)
    BY <1>1, <1>3
  <2> QED BY <2>1, <2>2 DEF UnpublishedKept, Unpublished
<1> QED BY <1>2, <1>3 DEF Sends

\* The parts of SettledInv about one job on one worker, and about one update.
NoneFollows(w, j, n) == ~Unpublished(w, j) /\ \A k \in DOMAIN mw[w] : k > n => mw[w][k].job # j
SettledAt(w, j) == wState[w][j] = stateId[j] => ~Unpublished(w, j) /\ \A k \in DOMAIN mw[w] : mw[w][k].job # j
SettledBy(w, n) == mw[w][n].state = stateId[mw[w][n].job] => NoneFollows(w, mw[w][n].job, n)

\* SettledInv by its parts.
LEMMA SettledParts ==
    SettledInv <=> \A w \in Workers : /\ \A j \in Jobs : SettledAt(w, j)
                                      /\ \A n \in DOMAIN mw[w] : SettledBy(w, n)
BY DEF SettledInv, SettledAt, SettledBy, NoneFollows

\* The same after a step.
LEMMA SettledPartsNext ==
    SettledInv' <=> \A w \in Workers : /\ \A j \in Jobs : SettledAt(w, j)'
                                       /\ \A n \in DOMAIN mw'[w] : SettledBy(w, n)'
BY DEF SettledInv, SettledAt, SettledBy, NoneFollows

\* A step that sends and takes nothing, and supersedes a state it is to publish.
LEMMA SettledKept ==
    ASSUME TypeOK, ContentInv, SettledInv, UNCHANGED <<wState, mw>>,
           \A j \in Jobs : \/ stateId'[j] = stateId[j] + 1
                           \/ stateId'[j] = stateId[j] /\ \A w \in Workers : UnpublishedKept(w, j)
    PROVE  SettledInv'
<1> SUFFICES ASSUME NEW w \in Workers
             PROVE  /\ \A j \in Jobs : SettledAt(w, j)'
                    /\ \A n \in DOMAIN mw'[w] : SettledBy(w, n)'
  BY SettledPartsNext
<1>0. stateId \in [Jobs -> Nat] /\ wState \in [Workers -> [Jobs -> Nat]] /\ mw \in [Workers -> Seq(Update)]
  BY DEF TypeOK, MasterTypeOK, WorkerTypeOK, ChannelTypeOK
<1>1. ASSUME NEW j \in Jobs PROVE SettledAt(w, j)'
  <2>1. wState[w][j] <= stateId[j] /\ wState[w][j] \in Nat /\ stateId[j] \in Nat
    BY <1>0 DEF ContentInv
  <2>2. SettledAt(w, j)
    BY SettledParts
  <2>3. CASE stateId'[j] = stateId[j] + 1
    BY <2>1, <2>3 DEF SettledAt
  <2>4. CASE stateId'[j] = stateId[j] /\ UnpublishedKept(w, j)
    BY <2>2, <2>4 DEF SettledAt, UnpublishedKept
  <2> QED BY <2>3, <2>4
<1>2. ASSUME NEW n \in DOMAIN mw'[w] PROVE SettledBy(w, n)'
  <2>1. mw[w][n] \in Update /\ n \in DOMAIN mw[w]
    BY <1>0
  <2>0. PICK j \in Jobs, id \in Nat : j = mw[w][n].job /\ id = mw[w][n].state
    BY <2>1 DEF Update
  <2>2. id <= stateId[j] /\ stateId[j] \in Nat
    BY <1>0, <2>0, <2>1 DEF ContentInv
  <2>3. id = stateId[j] => NoneFollows(w, j, n)
    BY <2>0, <2>1, SettledParts DEF SettledBy
  <2>4. SettledBy(w, n)' <=> (id = stateId'[j] => NoneFollows(w, j, n)')
    BY <2>0 DEF SettledBy, NoneFollows, Unpublished
  <2>5. CASE stateId'[j] = stateId[j] + 1
    BY <2>2, <2>4, <2>5
  <2>6. CASE stateId'[j] = stateId[j] /\ UnpublishedKept(w, j)
    BY <2>3, <2>4, <2>6 DEF NoneFollows, UnpublishedKept
  <2> QED BY <2>2, <2>5, <2>6
<1> QED BY <1>1, <1>2

\* A state is published once, to every worker.
LEMMA NextSettledInv ==
    ASSUME TypeOK, CallInv, ContentInv, SettledInv, [Next]_vars
    PROVE  SettledInv'
<1>0. mw \in [Workers -> Seq(Update)] /\ stateId \in [Jobs -> Nat]
  BY DEF TypeOK, ChannelTypeOK, MasterTypeOK
<1>1. ASSUME NEW j \in Jobs, NEW p \in Points, Call(j, p) PROVE SettledInv'
  <2>1. mJob' = j /\ UNCHANGED <<wState, mw>> /\ \A k \in Jobs \ {j} : stateId'[k] = stateId[k]
    BY <1>1, CallFacts
  <2>2. \A k \in Jobs \ {j} : \A w \in Workers : UnpublishedKept(w, k)
    BY <2>1 DEF UnpublishedKept, Unpublished
  <2>3. \/ stateId'[j] = stateId[j] + 1
        \/ stateId'[j] = stateId[j] /\ mPc' = "enqueue"
    BY <1>1, CallFacts
  <2>4. \/ stateId'[j] = stateId[j] + 1
        \/ stateId'[j] = stateId[j] /\ \A w \in Workers : UnpublishedKept(w, j)
    BY <2>3 DEF UnpublishedKept, Unpublished
  <2> QED BY <2>1, <2>2, <2>4, SettledKept
<1>2. ASSUME NEW point \in Sent, Sends(point) PROVE SettledInv'
  <2>0. PICK m \in Workers : m = mNext
    BY <1>2 DEF Sends
  <2>1. PICK last \in Nat, u \in Update :
             /\ u = [job |-> mJob, state |-> stateId[mJob], calculating |-> calculating[mJob], point |-> point]
             /\ DOMAIN mw[m] = 1 .. last /\ DOMAIN mw'[m] = 1 .. last + 1
             /\ mw'[m][last + 1] = u
             /\ \A i \in 1 .. last : mw'[m][i] = mw[m][i]
             /\ \A n \in Workers \ {m} : mw'[n] = mw[n]
    BY <1>2, <2>0, SendsFacts
  <2>2. /\ UNCHANGED <<stateId, wState>> /\ mNext \in Workers /\ mJob \in Jobs
        /\ mPc \in {"publish", "finish"} /\ (mPc = "finish" => mJob \in GradientJobs)
    BY <1>2 DEF Sends, TypeOK, MasterTypeOK
  <2>3. \A w \in Workers, j \in Jobs : UnpublishedKept(w, j) /\ (w = m => ~Unpublished(w, j)')
    BY <1>2, <2>0, SendsUnpublished
  <2>4. Unpublished(m, mJob)
    <3>1. m \in Nat
      BY ConstantsAssumption DEF Workers
    <3> QED BY <2>0, <2>2, <3>1 DEF Unpublished
  <2>5. ASSUME NEW w \in Workers, w # m
        PROVE  /\ \A j \in Jobs : SettledAt(w, j)'
               /\ \A n \in DOMAIN mw'[w] : SettledBy(w, n)'
    <3>1. mw'[w] = mw[w] /\ wState'[w] = wState[w] /\ stateId' = stateId
      BY <2>1, <2>2, <2>5
    <3>2. \A j \in Jobs : SettledAt(w, j)'
      BY <2>3, <3>1, SettledParts DEF SettledAt, UnpublishedKept
    <3>3. \A n \in DOMAIN mw[w] : mw[w][n].job \in Jobs
      <4>1. \A n \in DOMAIN mw[w] : mw[w][n] \in Update
        BY <1>0
      <4> QED BY <4>1 DEF Update
    <3>4. \A n \in DOMAIN mw'[w] : SettledBy(w, n)'
      BY <2>3, <3>1, <3>3, SettledParts DEF SettledBy, NoneFollows, UnpublishedKept
    <3> QED BY <3>2, <3>4
  <2>6. \A n \in DOMAIN mw'[m] : n = last + 1 \/ n \in 1 .. last
    <3>1. \A n \in 1 .. last + 1 : n = last + 1 \/ n \in 1 .. last
      OBVIOUS
    <3> QED BY <2>1, <3>1
  <2>7. ASSUME NEW j \in Jobs PROVE SettledAt(m, j)'
    <3> SUFFICES ASSUME wState[m][j] = stateId[j]
                 PROVE  \A k \in DOMAIN mw'[m] : mw'[m][k].job # j
      BY <2>2, <2>3 DEF SettledAt
    <3>1. ~Unpublished(m, j) /\ \A k \in DOMAIN mw[m] : mw[m][k].job # j
      BY <2>2, SettledParts DEF SettledAt
    <3>2. u.job # j
      BY <2>1, <2>4, <3>1
    <3> QED BY <2>1, <2>6, <3>1, <3>2
  <2>8. ASSUME NEW n \in DOMAIN mw'[m] PROVE SettledBy(m, n)'
    <3>1. CASE n = last + 1
      <4>1. \A k \in DOMAIN mw'[m] : ~(k > n)
        BY <2>1, <3>1
      <4>2. mw'[m][n].job \in Jobs
        BY <2>1, <2>2, <3>1
      <4> QED BY <2>3, <4>1, <4>2 DEF SettledBy, NoneFollows
    <3>2. CASE n \in 1 .. last
      <4> DEFINE j == mw[m][n].job
      <4>1. mw'[m][n] = mw[m][n] /\ n \in DOMAIN mw[m]
        BY <2>1, <3>2
      <4>2. j \in Jobs
        <5>1. mw[m][n] \in Update
          BY <1>0, <2>2, <4>1
        <5> QED BY <5>1 DEF Update
      <4> SUFFICES ASSUME mw[m][n].state = stateId[j]
                   PROVE  \A k \in DOMAIN mw'[m] : k > n => mw'[m][k].job # j
        BY <2>2, <2>3, <4>1, <4>2 DEF SettledBy, NoneFollows
      <4>3. ~Unpublished(m, j) /\ \A k \in DOMAIN mw[m] : k > n => mw[m][k].job # j
        BY <2>2, <4>1, SettledParts DEF SettledBy, NoneFollows
      <4>4. u.job # j
        BY <2>1, <2>4, <4>3
      <4> QED BY <2>1, <2>6, <4>3, <4>4
    <3> QED BY <2>6, <3>1, <3>2
  <2> QED BY <2>5, <2>7, <2>8, SettledPartsNext
<1>3. ASSUME NEW w \in Workers, Retrieve(w) PROVE SettledInv'
  <2>1. UNCHANGED <<mJob, wState, mw>> /\ mJob \in Jobs
    BY <1>3, RetrieveFacts
  <2>2. CASE stateId' = [stateId EXCEPT ![mJob] = @ + 1]
    <3>1. \A k \in Jobs \ {mJob} : \A v \in Workers : UnpublishedKept(v, k)
      BY <2>1 DEF UnpublishedKept, Unpublished
    <3>2. \A k \in Jobs : stateId'[k] = IF k = mJob THEN stateId[k] + 1 ELSE stateId[k]
      BY <1>0, <2>2
    <3> QED BY <2>1, <3>1, <3>2, SettledKept
  <2>3. CASE stateId' = stateId /\ (mPc' = "gather" \/ (mPc' = "finish" /\ mJob \notin GradientJobs))
    <3>1. \A k \in Jobs : \A v \in Workers : UnpublishedKept(v, k)
      BY <2>1, <2>3 DEF UnpublishedKept, Unpublished
    <3> QED BY <2>1, <2>3, <3>1, SettledKept
  <2> QED BY <1>3, <2>2, <2>3, RetrieveFacts
<1>4. ASSUME NEW w \in Workers, Receives(w) PROVE SettledInv'
  <2>1. PICK u \in Update :
             /\ 1 \in DOMAIN mw[w] /\ u = mw[w][1]
             /\ \A j \in Jobs : wState'[w][j] = IF j = u.job THEN u.state ELSE wState[w][j]
             /\ \A i \in DOMAIN mw'[w] : i + 1 \in DOMAIN mw[w] /\ mw'[w][i] = mw[w][i + 1] /\ i \in Nat
             /\ \A n \in Workers \ {w} : mw'[n] = mw[n] /\ wState'[n] = wState[n]
    BY <1>4, ReceiveFacts
  <2>2. UNCHANGED <<mPc, mNext, mJob, stateId>>
    BY <1>4 DEF Receives
  <2>3. \A v \in Workers, j \in Jobs : Unpublished(v, j)' <=> Unpublished(v, j)
    BY <2>2 DEF Unpublished
  <2>4. ASSUME NEW v \in Workers, NEW n \in DOMAIN mw[v] PROVE mw[v][n].job \in Jobs
    <3>1. mw[v][n] \in Update
      BY <1>0
    <3> QED BY <3>1 DEF Update
  <2>5. ASSUME NEW v \in Workers, v # w
        PROVE  /\ \A j \in Jobs : SettledAt(v, j)'
               /\ \A n \in DOMAIN mw'[v] : SettledBy(v, n)'
    <3>1. mw'[v] = mw[v] /\ wState'[v] = wState[v] /\ stateId' = stateId
      BY <2>1, <2>2, <2>5
    <3>2. \A j \in Jobs : SettledAt(v, j)'
      BY <2>3, <3>1, SettledParts DEF SettledAt
    <3>3. \A n \in DOMAIN mw'[v] : SettledBy(v, n)'
      BY <2>3, <2>4, <3>1, SettledParts DEF SettledBy, NoneFollows
    <3> QED BY <3>2, <3>3
  <2>6. \A k \in DOMAIN mw'[w] : k \in Nat /\ k + 1 > 1
    <3>1. mw'[w] \in Seq(Update)
      BY <1>0, <1>4, <2>1 DEF Receives, ReceiveUpdate
    <3> QED BY <3>1
  <2>7. ASSUME NEW j \in Jobs PROVE SettledAt(w, j)'
    <3> SUFFICES ASSUME wState'[w][j] = stateId[j]
                 PROVE  ~Unpublished(w, j) /\ \A k \in DOMAIN mw'[w] : mw'[w][k].job # j
      BY <2>2, <2>3 DEF SettledAt
    <3>1. CASE j = u.job
      <4>1. NoneFollows(w, j, 1)
        BY <2>1, <3>1, SettledParts DEF SettledBy
      <4> QED BY <2>1, <2>6, <4>1 DEF NoneFollows
    <3>2. CASE j # u.job
      <4>1. ~Unpublished(w, j) /\ \A k \in DOMAIN mw[w] : mw[w][k].job # j
        BY <2>1, <3>2, SettledParts DEF SettledAt
      <4> QED BY <2>1, <4>1
    <3> QED BY <3>1, <3>2
  <2>8. ASSUME NEW n \in DOMAIN mw'[w] PROVE SettledBy(w, n)'
    <3> DEFINE j == mw'[w][n].job
    <3>1. n + 1 \in DOMAIN mw[w] /\ mw'[w][n] = mw[w][n + 1] /\ n \in Nat /\ j \in Jobs
      BY <2>1, <2>4
    <3> SUFFICES ASSUME mw'[w][n].state = stateId[j]
                 PROVE  ~Unpublished(w, j) /\ \A k \in DOMAIN mw'[w] : k > n => mw'[w][k].job # j
      BY <2>2, <2>3, <3>1 DEF SettledBy, NoneFollows
    <3>2. ~Unpublished(w, j) /\ \A k \in DOMAIN mw[w] : k > n + 1 => mw[w][k].job # j
      BY <3>1, SettledParts DEF SettledBy, NoneFollows
    <3>3. ASSUME NEW k \in DOMAIN mw'[w], k > n PROVE mw'[w][k].job # j
      <4>1. k \in Nat /\ k + 1 \in DOMAIN mw[w] /\ mw'[w][k] = mw[w][k + 1]
        BY <2>1
      <4>2. k + 1 > n + 1
        BY <3>1, <3>3, <4>1
      <4> QED BY <3>2, <4>1, <4>2
    <3> QED BY <3>2, <3>3
  <2> QED BY <2>5, <2>7, <2>8, SettledPartsNext
<1>5. CASE Quiet
  <2>1. UNCHANGED <<wState, mw, stateId, mJob>>
    BY <1>5 DEF Quiet
  <2>2. \A k \in Jobs : \A v \in Workers : UnpublishedKept(v, k)
    BY <1>5 DEF Quiet, UnpublishedKept, Unpublished
  <2> QED BY <2>1, <2>2, SettledKept
<1> QED BY <1>1, <1>2, <1>3, <1>4, <1>5, StepKinds

\* The part of ParamInv about one parameter, as one likelihood sent it to one worker.
ComesTo(w, j, i) == (Unpublished(w, j) /\ toUpdate[i] # NotSent) \/ Comes(w, j, i)

\* What was sent stays on its way.
LEMMA ComesKept ==
    ASSUME NEW w \in Workers, NEW j \in Jobs, NEW i \in Params, Comes(w, j, i),
           saved'[j][i] = saved[j][i], wParams'[w] = wParams[w], mw'[w] = mw[w]
    PROVE  Comes(w, j, i)'
BY DEF Comes

\* A parameter that only job j moves is at each worker what j sent last, or will be.
LEMMA NextParamInv ==
    ASSUME TypeOK, CallInv, MasterInv, ParamInv, [Next]_vars
    PROVE  ParamInv'
<1> SUFFICES ASSUME NEW v \in Workers, NEW j \in Jobs \ GradientJobs, NEW i \in Params \ moved'[j]
             PROVE  ComesTo(v, j, i)'
  BY DEF ParamInv, ComesTo
<1>0. i \notin moved[j] => ComesTo(v, j, i)
  BY DEF ParamInv, ComesTo
<1>1. ASSUME NEW k \in Jobs, NEW p \in Points, Call(k, p) PROVE ComesTo(v, j, i)'
  <2>1. mPc = "idle" /\ UNCHANGED <<wParams, mw>> /\ mJob' = k /\ mNext' = 0
    BY <1>1, CallFacts
  <2>2. k \notin GradientJobs
    BY <1>1, CallMoves
  <2>3. CASE i \notin Changed(k, p)
    <3>1. i \notin moved[j] /\ saved[k][i] = p[i]
      BY <1>1, <2>2, <2>3, CallMoves
    <3>2. Comes(v, j, i)
      BY <1>0, <2>1, <3>1 DEF ComesTo, Unpublished
    <3>3. saved'[j][i] = saved[j][i]
      BY <1>1, <2>2, <3>1, CallFacts
    <3>4. Comes(v, j, i)'
      BY <2>1, <3>2, <3>3, ComesKept
    <3> QED BY <3>4 DEF ComesTo
  <2>4. CASE i \in Changed(k, p)
    <3>1. k = j /\ toUpdate'[i] # NotSent /\ mPc' = "publish"
      BY <1>1, <2>2, <2>4, CallMoves
    <3>2. 0 <= v
      BY ConstantsAssumption DEF Workers
    <3> QED BY <2>1, <3>1, <3>2 DEF ComesTo, Unpublished
  <2> QED BY <2>3, <2>4
<1>2. ASSUME NEW point \in Sent, Sends(point) PROVE ComesTo(v, j, i)'
  <2>1. PICK last \in Nat, u \in Update :
             /\ u = [job |-> mJob, state |-> stateId[mJob], calculating |-> calculating[mJob], point |-> point]
             /\ DOMAIN mw[mNext] = 1 .. last /\ DOMAIN mw'[mNext] = 1 .. last + 1
             /\ mw'[mNext][last + 1] = u
             /\ \A n \in 1 .. last : mw'[mNext][n] = mw[mNext][n]
             /\ \A n \in Workers \ {mNext} : mw'[n] = mw[n]
    BY <1>2, SendsFacts
  <2>2. /\ UNCHANGED <<mJob, saved, toUpdate, moved, wParams>> /\ mNext \in Workers /\ mJob \in Jobs
        /\ \/ mPc = "publish" /\ point = toUpdate
           \/ mPc = "finish" /\ mJob \in GradientJobs /\ point = Nothing
    BY <1>2 DEF Sends, TypeOK, MasterTypeOK
  <2>3. i \notin moved[j] /\ ComesTo(v, j, i)
    BY <1>0, <2>2
  <2>4. CASE v # mNext
    <3>1. mw'[v] = mw[v]
      BY <2>1, <2>4
    <3>2. Unpublished(v, j) => Unpublished(v, j)'
      BY <1>2, <2>4, SendsUnpublished
    <3>3. Comes(v, j, i) => Comes(v, j, i)'
      BY <2>2, <3>1, ComesKept
    <3> QED BY <2>2, <2>3, <3>2, <3>3 DEF ComesTo
  <2>5. CASE v = mNext
    <3>0. /\ \A n \in DOMAIN mw'[v] : n = last + 1 \/ n \in DOMAIN mw[v]
          /\ \A n \in DOMAIN mw[v] : n \in DOMAIN mw'[v] /\ mw'[v][n] = mw[v][n]
          /\ last + 1 \in DOMAIN mw'[v] /\ mw'[v][last + 1] = u
          /\ \A n \in DOMAIN mw'[v] : ~(n > last + 1)
      BY <2>1, <2>5
    <3>1. CASE point[i] # NotSent
      <4>1. mPc = "publish" /\ point = toUpdate
        BY <2>2, <3>1 DEF Nothing
      <4>2. toUpdate[i] = mPoint[i] /\ mJob = j
        BY <2>3, <3>1, <4>1 DEF MasterInv
      <4>3. saved[mJob] = mPoint
        BY <4>1, <4>2 DEF MasterInv
      <4>4. u.job = j /\ u.point[i] = saved'[j][i]
        BY <2>1, <2>2, <4>1, <4>2, <4>3
      <4>5. Comes(v, j, i)'
        BY <3>0, <4>4 DEF Comes
      <4> QED BY <4>5 DEF ComesTo
    <3>2. CASE point[i] = NotSent
      <4>1. u.point[i] = NotSent
        BY <2>1, <3>2
      <4>2. ~(Unpublished(v, j) /\ toUpdate[i] # NotSent)
        BY <2>2, <3>2 DEF Unpublished
      <4>3. Comes(v, j, i)
        BY <2>3, <4>2 DEF ComesTo
      <4>4. CASE wParams[v][i] = saved[j][i] /\ \A n \in DOMAIN mw[v] : mw[v][n].point[i] = NotSent
        <5>1. \A n \in DOMAIN mw'[v] : mw'[v][n].point[i] = NotSent
          BY <3>0, <4>1, <4>4
        <5> QED BY <2>2, <4>4, <5>1 DEF ComesTo, Comes
      <4>5. CASE \E n \in DOMAIN mw[v] :
                    /\ mw[v][n].job = j /\ mw[v][n].point[i] = saved[j][i]
                    /\ \A l \in DOMAIN mw[v] : l > n => mw[v][l].point[i] = NotSent
        <5>1. PICK n \in DOMAIN mw[v] :
                    /\ mw[v][n].job = j /\ mw[v][n].point[i] = saved[j][i]
                    /\ \A l \in DOMAIN mw[v] : l > n => mw[v][l].point[i] = NotSent
          BY <4>5
        <5>2. \A l \in DOMAIN mw'[v] : l > n => mw'[v][l].point[i] = NotSent
          BY <3>0, <4>1, <5>1
        <5>3. n \in DOMAIN mw'[v] /\ mw'[v][n] = mw[v][n]
          BY <3>0
        <5> QED BY <2>2, <5>1, <5>2, <5>3 DEF ComesTo, Comes
      <4> QED BY <4>3, <4>4, <4>5 DEF Comes
    <3> QED BY <3>1, <3>2
  <2> QED BY <2>4, <2>5
<1>3. ASSUME NEW w \in Workers, Retrieve(w) PROVE ComesTo(v, j, i)'
  <2>1. mPc = "gather" /\ UNCHANGED <<saved, moved, wParams, mw>>
    BY <1>3, RetrieveFacts
  <2>2. Comes(v, j, i)
    BY <1>0, <2>1 DEF ComesTo, Unpublished
  <2>3. Comes(v, j, i)'
    BY <2>1, <2>2, ComesKept
  <2> QED BY <2>3 DEF ComesTo
<1>4. ASSUME NEW w \in Workers, Receives(w) PROVE ComesTo(v, j, i)'
  <2>1. PICK u \in Update :
             /\ 1 \in DOMAIN mw[w] /\ u = mw[w][1]
             /\ wParams'[w] = Overwritten(wParams[w], u.point) \/ (u.job \in GradientJobs /\ wParams' = wParams)
             /\ \A n \in DOMAIN mw'[w] : n + 1 \in DOMAIN mw[w] /\ mw'[w][n] = mw[w][n + 1] /\ n \in Nat
             /\ \A n \in DOMAIN mw[w] : n \in Nat /\ (n # 1 => n - 1 \in DOMAIN mw'[w])
             /\ \A n \in Workers \ {w} : mw'[n] = mw[n] /\ wParams'[n] = wParams[n]
    BY <1>4, ReceiveFacts
  <2>2. UNCHANGED <<mPc, mNext, mJob, saved, toUpdate, moved>>
    BY <1>4 DEF Receives
  <2>3. Unpublished(v, j)' <=> Unpublished(v, j)
    BY <2>2 DEF Unpublished
  <2>4. ComesTo(v, j, i)
    BY <1>0, <2>2
  <2>5. CASE v # w
    <3>1. mw'[v] = mw[v] /\ wParams'[v] = wParams[v]
      BY <2>1, <2>5
    <3>2. Comes(v, j, i) => Comes(v, j, i)'
      BY <2>2, <3>1, ComesKept
    <3> QED BY <2>2, <2>3, <2>4, <3>2 DEF ComesTo
  <2>6. CASE v = w
    <3>0. Overwritten(wParams[w], u.point)[i] = IF u.point[i] = NotSent THEN wParams[w][i] ELSE u.point[i]
      BY DEF Overwritten
    <3>1. ASSUME wParams[w][i] = saved[j][i], \A n \in DOMAIN mw[w] : mw[w][n].point[i] = NotSent
          PROVE  Comes(w, j, i)'
      <4>1. u.point[i] = NotSent
        BY <2>1, <3>1
      <4>2. wParams'[w][i] = wParams[w][i]
        BY <2>1, <3>0, <4>1
      <4>3. \A n \in DOMAIN mw'[w] : mw'[w][n].point[i] = NotSent
        BY <2>1, <3>1
      <4> QED BY <2>2, <3>1, <4>2, <4>3 DEF Comes
    <3>2. ASSUME NEW n \in DOMAIN mw[w], mw[w][n].job = j, mw[w][n].point[i] = saved[j][i],
                 \A l \in DOMAIN mw[w] : l > n => mw[w][l].point[i] = NotSent
          PROVE  Comes(w, j, i)'
      <4>1. n \in Nat
        BY <2>1
      <4>2. CASE n = 1
        <5>1. u.job = j /\ u.point[i] = saved[j][i]
          BY <2>1, <3>2, <4>2
        <5>2. saved[j][i] # NotSent
          BY ConstantsAssumption DEF TypeOK, MasterTypeOK
        <5>3. wParams'[w][i] = saved[j][i]
          BY <2>1, <3>0, <5>1, <5>2
        <5>4. ASSUME NEW l \in DOMAIN mw'[w] PROVE mw'[w][l].point[i] = NotSent
          <6>1. l \in Nat /\ l + 1 \in DOMAIN mw[w] /\ mw'[w][l] = mw[w][l + 1]
            BY <2>1
          <6>2. l # 0
            <7>1. mw'[w] \in Seq(Update)
              BY <1>4, <2>1 DEF TypeOK, ChannelTypeOK, Receives, ReceiveUpdate
            <7> QED BY <7>1
          <6>3. l + 1 > 1
            BY <6>1, <6>2
          <6> QED BY <3>2, <4>2, <6>1, <6>3
        <5> QED BY <2>2, <5>3, <5>4 DEF Comes
      <4>3. CASE n # 1
        <5>1. n - 1 \in DOMAIN mw'[w]
          BY <2>1, <4>3
        <5>2. mw'[w][n - 1] = mw[w][n]
          <6>1. (n - 1) + 1 = n
            BY <4>1
          <6> QED BY <2>1, <5>1, <6>1
        <5>3. ASSUME NEW l \in DOMAIN mw'[w], l > n - 1 PROVE mw'[w][l].point[i] = NotSent
          <6>1. l \in Nat /\ l + 1 \in DOMAIN mw[w] /\ mw'[w][l] = mw[w][l + 1]
            BY <2>1
          <6>2. l + 1 > n
            BY <4>1, <5>3, <6>1
          <6> QED BY <3>2, <6>1, <6>2
        <5> QED BY <2>2, <3>2, <5>1, <5>2, <5>3 DEF Comes
      <4> QED BY <4>2, <4>3
    <3>3. Comes(w, j, i) => Comes(w, j, i)'
      BY <3>1, <3>2 DEF Comes
    <3> QED BY <2>2, <2>3, <2>4, <2>6, <3>3 DEF ComesTo
  <2> QED BY <2>5, <2>6
<1>5. CASE Quiet
  <2>1. UNCHANGED <<mJob, saved, toUpdate, moved, mw>> /\ i \notin moved[j]
    BY <1>5 DEF Quiet
  <2>2. wParams' = wParams
    BY <1>5, <2>1 DEF Quiet, MasterInv
  <2>3. Unpublished(v, j) => Unpublished(v, j)'
    BY <1>5 DEF Quiet, Unpublished
  <2>4. Comes(v, j, i) => Comes(v, j, i)'
    BY <2>1, <2>2, ComesKept
  <2> QED BY <1>0, <2>1, <2>3, <2>4 DEF ComesTo
<1> QED BY <1>1, <1>2, <1>3, <1>4, <1>5, StepKinds

\* A result of the point of the call, as far as no other job moved the parameters.
Right(r) == (\A i \in Params \ moved[mJob] : r.point[i] = mPoint[i]) /\ r.calculating = (mJob \in GradientJobs)

\* ResultsOfThisPoint by its parts.
LEMMA ResultsParts ==
    ResultsOfThisPoint <=> /\ \A i \in DOMAIN received : Right(received[i])
                           /\ \A w \in Workers : \A i \in DOMAIN wm[w] : Right(wm[w][i])
BY DEF ResultsOfThisPoint, Right, ToSet

\* The same after a step.
LEMMA ResultsPartsNext ==
    ResultsOfThisPoint' <=> /\ \A i \in DOMAIN received' : Right(received[i])'
                            /\ \A w \in Workers : \A i \in DOMAIN wm'[w] : Right(wm[w][i])'
BY DEF ResultsOfThisPoint, Right, ToSet

\* Whoever is in the state of a task of the call has the call's point and flag.
LEMMA EvaluateRight ==
    ASSUME TypeOK, CallInv, MasterInv, ContentInv, SettledInv, ParamInv, NEW w \in Workers, Evaluate(w)
    PROVE  Right(ResultOf(w))
<1> DEFINE flag == wCalculating[w][mJob]
<1>1. wPc[w] = "sync" /\ wState[w][wTask[w].job] = wTask[w].state
  BY DEF Evaluate, InTaskState
<1>2. InRound /\ wTask[w].job = mJob /\ wTask[w].state = stateId[mJob]
  <2>1. OfThisCall(wTask[w])
    BY <1>1 DEF CallInv, OwnInv
  <2>2. InRound
    BY <1>1, EmptyOwn DEF CallInv, PlacesInv
  <2> QED BY <2>1, <2>2 DEF OfThisCall
<1>3. mPc \in {"enqueue", "gather"} /\ mJob \in Jobs
  BY <1>2 DEF InRound, TypeOK, MasterTypeOK
<1>4. Says(mJob, flag, wPoint[w][mJob])
  BY <1>1, <1>2, <1>3 DEF ContentInv
<1>5. ResultOf(w).calculating = flag
  BY <1>2 DEF ResultOf
<1>6. ResultOf(w).point = IF mJob \in GradientJobs THEN wPoint[w][mJob] ELSE wParams[w]
  BY <1>2 DEF ResultOf
<1>7. calculating[mJob] \in BOOLEAN /\ (calculating[mJob] <=> mJob \in GradientJobs)
  BY <1>3 DEF MasterInv, TypeOK, MasterTypeOK
<1>8. ASSUME NEW i \in Params \ moved[mJob] PROVE ResultOf(w).point[i] = mPoint[i]
  <2>1. CASE mJob \in GradientJobs
    BY <1>4, <1>6, <1>7, <2>1 DEF Says
  <2>2. CASE mJob \notin GradientJobs
    <3>1. \A k \in DOMAIN mw[w] : mw[w][k].job # mJob
      BY <1>1, <1>2, <1>3 DEF SettledInv
    <3>2. ~Unpublished(w, mJob)
      BY <1>3 DEF Unpublished
    <3>3. Comes(w, mJob, i)
      BY <1>3, <2>2, <3>2 DEF ParamInv
    <3>4. wParams[w][i] = saved[mJob][i]
      BY <3>1, <3>3 DEF Comes
    <3>5. saved[mJob] = mPoint
      BY <1>3, <2>2 DEF MasterInv
    <3> QED BY <1>6, <2>2, <3>4, <3>5
  <2> QED BY <2>1, <2>2
<1> HIDE DEF flag
<1>9. flag = (mJob \in GradientJobs)
  <2>1. flag = calculating[mJob]
    BY <1>4 DEF Says
  <2>2. calculating[mJob] = (mJob \in GradientJobs)
    BY <1>7
  <2> QED BY <2>1, <2>2
<1> QED BY <1>5, <1>8, <1>9 DEF Right

\* The results under way and those received were all computed so.
LEMMA NextResults ==
    ASSUME TypeOK, CallInv, MasterInv, ContentInv, SettledInv, ParamInv, ResultsOfThisPoint, [Next]_vars
    PROVE  ResultsOfThisPoint'
<1>0. received \in Seq(Result) /\ wm \in [Workers -> Seq(Result)]
  BY DEF TypeOK, MasterTypeOK, ChannelTypeOK
<1>1. CASE UNCHANGED <<received, wm, mPoint, mJob, moved>>
  BY <1>1 DEF ResultsOfThisPoint
<1>2. ASSUME NEW j \in Jobs, NEW p \in Points, Call(j, p) PROVE ResultsOfThisPoint'
  <2>1. mPc = "idle" /\ received' = <<>> /\ wm' = wm
    BY <1>2, CallFacts
  <2>2. \A w \in Workers : DOMAIN wm[w] = {}
    BY <2>1, EmptyOwn DEF CallInv, PlacesInv, InRound
  <2> QED BY <2>1, <2>2, ResultsPartsNext
<1>3. CASE Reduce
  <2>1. received' = <<>> /\ UNCHANGED <<wm, mPoint, mJob, moved>>
    BY <1>3 DEF Reduce
  <2> QED BY <2>1, ResultsParts, ResultsPartsNext DEF Right
<1>4. ASSUME NEW w \in Workers, Retrieve(w) PROVE ResultsOfThisPoint'
  <2> DEFINE s == wm[w]
  <2>1. /\ s # <<>> /\ s \in Seq(Result) /\ received' = Append(received, Head(s))
        /\ wm'[w] = Tail(s) /\ \A v \in Workers : v # w => wm'[v] = wm[v]
        /\ UNCHANGED <<mPoint, mJob, moved>>
    BY <1>0, <1>4 DEF Retrieve
  <2>2. \A i \in DOMAIN s : Right(s[i])
    BY ResultsParts
  <2> HIDE DEF s
  <2>3. /\ Head(s) \in Result /\ Head(s) = s[1] /\ 1 \in DOMAIN s
        /\ \A i \in DOMAIN Tail(s) : i + 1 \in DOMAIN s /\ Tail(s)[i] = s[i + 1]
    BY <2>1
  <2>4. \A i \in DOMAIN received' : received'[i] = Head(s) \/ (i \in DOMAIN received /\ received'[i] = received[i])
    <3>1. Head(s) \in Result
      BY <2>3
    <3> QED BY <1>0, <2>1, <3>1
  <2>5. \A i \in DOMAIN received' : Right(received'[i])
    BY <2>2, <2>3, <2>4, ResultsParts
  <2>6. ASSUME NEW v \in Workers, NEW i \in DOMAIN wm'[v] PROVE Right(wm'[v][i])
    <3>1. CASE v = w
      BY <2>1, <2>2, <2>3, <2>6, <3>1
    <3>2. CASE v # w
      BY <2>1, <2>6, <3>2, ResultsParts
    <3> QED BY <3>1, <3>2
  <2> QED BY <2>1, <2>5, <2>6, ResultsPartsNext DEF Right
<1>5. ASSUME NEW w \in Workers, Evaluate(w) PROVE ResultsOfThisPoint'
  <2> DEFINE s == wm[w]
             r == ResultOf(w)
  <2>1. /\ s \in Seq(Result) /\ wm'[w] = Append(s, r) /\ \A v \in Workers : v # w => wm'[v] = wm[v]
        /\ UNCHANGED <<received, mPoint, mJob, moved>>
    BY <1>0, <1>5 DEF Evaluate
  <2>2. Right(r) /\ \A i \in DOMAIN s : Right(s[i])
    BY <1>5, EvaluateRight, ResultsParts
  <2> HIDE DEF s, r
  <2>3. \A i \in DOMAIN Append(s, r) : Append(s, r)[i] = r \/ (i \in DOMAIN s /\ Append(s, r)[i] = s[i])
    BY <2>1
  <2>4. ASSUME NEW v \in Workers, NEW i \in DOMAIN wm'[v] PROVE Right(wm'[v][i])
    <3>1. CASE v = w
      BY <2>1, <2>2, <2>3, <2>4, <3>1
    <3>2. CASE v # w
      BY <2>1, <2>4, <3>2, ResultsParts
    <3> QED BY <3>1, <3>2
  <2>5. \A i \in DOMAIN received' : Right(received'[i])
    BY <2>1, ResultsParts
  <2> QED BY <2>1, <2>4, <2>5, ResultsPartsNext DEF Right
<1> QED
  BY <1>1, <1>2, <1>3, <1>4, <1>5
     DEF Next, MasterNext, QueueNext, WorkerNext, Publish, PublishFinished, SendUpdate, Enqueue,
         StartGather, QueuePoll, ProcessMasterMessage, ProcessWorkerMessage, Ask, WorkerPoll,
         HandleUpdate, HandleRejected, HandleAccepted, AwaitState, vars

\* At the start every worker has what the master has.
LEMMA InitValueInv == Init => ValueInv
<1> SUFFICES ASSUME Init PROVE ValueInv
  OBVIOUS
<1>1. MasterInv
  <2>1. mPc = "idle" /\ GradientJobs \subseteq Jobs
    BY ConstantsAssumption DEF Init
  <2>2. \A j \in Jobs : ~calculating[j] /\ moved[j] = {}
    BY DEF Init
  <2> QED BY <2>1, <2>2 DEF MasterInv
<1>2. ArrivalInv
  BY DEF Init, ArrivalInv, IsThere
<1>3. ContentInv
  BY DEF Init, ContentInv, Says
<1>4. SettledInv
  BY DEF Init, SettledInv, Unpublished
<1>5. ParamInv
  BY DEF Init, ParamInv, Comes
<1>6. ResultsOfThisPoint
  BY ResultsParts DEF Init
<1> QED BY <1>1, <1>2, <1>3, <1>4, <1>5, <1>6 DEF ValueInv

\* Every step of any process.
LEMMA NextValueInv == TypeOK /\ CallInv /\ ValueInv /\ [Next]_vars => ValueInv'
BY NextMasterInv, NextArrivalInv, NextContentInv, NextSettledInv, NextParamInv, NextResults DEF ValueInv

\* In a round nothing is unpublished, so the state a task asks for is there or comes.
LEMMA ArrivalStateArrives == TypeOK /\ CallInv /\ ArrivalInv => StateArrives
<1> SUFFICES ASSUME TypeOK, CallInv, ArrivalInv, NEW w \in Workers, wPc[w] = "sync", ~InTaskState(w)
             PROVE  \E i \in DOMAIN mw[w] : mw[w][i].job = wTask[w].job /\ mw[w][i].state = wTask[w].state
  BY DEF StateArrives
<1>1. wTask[w].job = mJob /\ wTask[w].state = stateId[mJob]
  BY DEF CallInv, OwnInv, OfThisCall
<1>2. mPc \in {"enqueue", "gather"} /\ mJob \in Jobs
  BY EmptyOwn DEF CallInv, PlacesInv, InRound, TypeOK, MasterTypeOK
<1>3. ~Unpublished(w, mJob) /\ ~IsThere(w, mJob)
  BY <1>1, <1>2 DEF Unpublished, IsThere, InTaskState
<1>4. PICK i \in DOMAIN mw[w] : Brings(w, mJob, i)
  BY <1>2, <1>3 DEF ArrivalInv
<1> QED BY <1>1, <1>4 DEF Brings

\* The loop of worker.cxx:99 never waits for a state that does not come: however
\* many updates, of however many jobs, are under way to however many workers.
THEOREM StatesArrive == Spec => []StateArrives
<1>1. ValueInv => ArrivalInv
  BY DEF ValueInv
<1> QED
  BY <1>1, TypeCorrect, InitAskInv, NextAskInv, InitCallInv, NextCallInv, InitValueInv, NextValueInv,
     ArrivalStateArrives, PTL DEF Spec

\* A gradient's tasks are computed at the point of the call, by workers that know
\* one is being calculated; a likelihood's with the values of the call of all
\* parameters, but those that another job moved since the likelihood sent them.
THEOREM ComputedAtThePoint == Spec => []ResultsOfThisPoint
<1>1. ValueInv => ResultsOfThisPoint
  BY DEF ValueInv
<1> QED
  BY <1>1, TypeCorrect, InitAskInv, NextAskInv, InitCallInv, NextCallInv, InitValueInv, NextValueInv, PTL DEF Spec

-----------------------------------------------------------------------------
(* JobProtocol implements the safety part of ParallelEvaluation *)

\* A gradient tells the workers it is over when it has the value of every task,
\* and a likelihood adds up the values of every task.
FinishInv == mPc = "finish" => TasksOf(received) = 0 .. NTasks[mJob] - 1

\* The queue and the workers change nothing of the master.
LEMMA OthersAtWork ==
    QueueNext \/ (\E w \in Workers : WorkerNext(w)) \/ UNCHANGED vars => UNCHANGED masterVars
<1>1. QueueNext => UNCHANGED masterVars
  BY DEF QueueNext, QueuePoll, ProcessMasterMessage, ProcessWorkerMessage
<1>2. ASSUME NEW w \in Workers, WorkerNext(w) PROVE UNCHANGED masterVars
  BY <1>2 DEF WorkerNext, Ask, WorkerPoll, HandleUpdate, HandleRejected, HandleAccepted, AwaitState, Evaluate
<1>3. UNCHANGED vars => UNCHANGED masterVars
  BY DEF vars
<1> QED BY <1>1, <1>2, <1>3

\* Only retrieve() gets there.
LEMMA NextFinishInv ==
    ASSUME TypeOK, CallInv, FinishInv, [Next]_vars
    PROVE  FinishInv'
<1>1. ASSUME NEW w \in Workers, Retrieve(w) PROVE FinishInv'
  <2> SUFFICES ASSUME mPc' = "finish" PROVE TasksOf(received') = 0 .. NTasks[mJob'] - 1
    BY DEF FinishInv, TasksOf
  <2>1. mJob' = mJob
    BY <1>1 DEF Retrieve
  <2> QED BY <1>1, <2>1, RetrieveCompletes
<1>2. CASE mPc' # "finish"
  BY <1>2 DEF FinishInv
<1>3. CASE UNCHANGED <<mPc, mJob, received>>
  BY <1>3 DEF FinishInv, TasksOf
<1>4. ASSUME NEW j \in Jobs, NEW p \in Points, Call(j, p) PROVE mPc' # "finish"
  BY <1>4, CallFacts
<1>5. ASSUME Publish \/ PublishFinished PROVE mPc' # "finish" \/ UNCHANGED <<mPc, mJob, received>>
  BY <1>5 DEF Publish, PublishFinished, SendUpdate
<1>6. CASE MasterNext
  BY <1>1, <1>2, <1>3, <1>5, <1>6 DEF MasterNext, Enqueue, StartGather, Reduce
<1>7. CASE QueueNext \/ (\E w \in Workers : WorkerNext(w)) \/ UNCHANGED vars
  BY <1>3, <1>7, OthersAtWork
<1>8. CASE \E j \in Jobs, p \in Points : Call(j, p)
  BY <1>2, <1>4, <1>8
<1> QED BY <1>6, <1>7, <1>8 DEF Next

-----------------------------------------------------------------------------
(* What the caller sees of the results *)

ValuesOf(s) == [i \in DOMAIN s |-> [task |-> s[i].task, point |-> s[i].point]]
Caller == IF mPc = "idle" THEN "idle" ELSE "waiting"

\* Of no results there are no values.
LEMMA ValuesOfNothing == ValuesOf(<<>>) = <<>>
<1> DEFINE v == ValuesOf(<<>>)
<1>1. v \in [1 .. 0 -> {}]
  BY DEF ValuesOf
<1> HIDE DEF v
<1>2. v \in Seq({})
  BY <1>1, SeqDef
<1>3. Len(v) = 0
  <2>1. DOMAIN v = 1 .. 0
    BY <1>1
  <2> QED BY <1>2, <2>1
<1> QED BY <1>2, <1>3, EmptySeq DEF v

\* A result adds its value.
LEMMA ValuesOfAppend ==
    ASSUME NEW S, NEW s \in Seq(S), NEW r \in S
    PROVE  ValuesOf(Append(s, r)) = Append(ValuesOf(s), [task |-> r.task, point |-> r.point])
<1> DEFINE a == Append(s, r)
           n == Len(s)
           e == [task |-> r.task, point |-> r.point]
           v == ValuesOf(s)
           T == {v[i] : i \in DOMAIN s} \cup {e}
<1>1. /\ n \in Nat /\ DOMAIN s = 1 .. n /\ DOMAIN a = 1 .. n + 1
      /\ a[n + 1] = r /\ \A i \in 1 .. n : a[i] = s[i]
  OBVIOUS
<1>2. v \in [1 .. n -> T]
  BY <1>1 DEF ValuesOf
<1>3. v \in Seq(T) /\ e \in T
  BY <1>1, <1>2, SeqDef
<1>4. \A i \in 1 .. n : v[i] = [task |-> s[i].task, point |-> s[i].point]
  BY <1>1 DEF ValuesOf
<1>5. /\ DOMAIN ValuesOf(a) = 1 .. n + 1
      /\ \A i \in 1 .. n + 1 : ValuesOf(a)[i] = [task |-> a[i].task, point |-> a[i].point]
  BY <1>1 DEF ValuesOf
<1>6. DOMAIN v = 1 .. n
  BY <1>2
<1> DEFINE va == ValuesOf(a)
<1>7. va = [i \in 1 .. n + 1 |-> va[i]]
  BY <1>1 DEF ValuesOf
<1>8. va[n + 1] = e /\ \A i \in 1 .. n : va[i] = v[i]
  BY <1>1, <1>4, <1>5
<1> HIDE DEF v, e, va, a, n, T
<1>9. Len(v) = n
  BY <1>1, <1>3, <1>6
<1>10. /\ Append(v, e) = [i \in 1 .. n + 1 |-> Append(v, e)[i]]
       /\ Append(v, e)[n + 1] = e /\ \A i \in 1 .. n : Append(v, e)[i] = v[i]
  <2>1. Append(v, e) \in Seq(T) /\ Len(Append(v, e)) = n + 1
    BY <1>3, <1>9
  <2>2. Append(v, e) = [i \in 1 .. n + 1 |-> Append(v, e)[i]]
    <3>1. Append(v, e) \in [1 .. n + 1 -> T]
      BY <2>1, LenProperties
    <3> QED BY <3>1
  <2>3. Append(v, e)[n + 1] = e
    BY <1>3, <1>9
  <2>4. \A i \in 1 .. n : Append(v, e)[i] = v[i]
    BY <1>3, <1>9
  <2> QED BY <2>2, <2>3, <2>4
<1>11. \A i \in 1 .. n + 1 : va[i] = Append(v, e)[i]
  <2>1. \A i \in 1 .. n + 1 : i = n + 1 \/ i \in 1 .. n
    BY <1>1
  <2> QED BY <1>8, <1>10, <2>1
<1>12. va = Append(v, e)
  BY <1>7, <1>10, <1>11
<1> QED BY <1>12 DEF va, v, e, a

\* What is missing of the values is missing of the results.
LEMMA MissingIs ==
    Evaluation!Missing = (0 .. NTasks[mJob] - 1) \ TasksOf(received)
<1> DEFINE v == ValuesOf(received)
<1>1. DOMAIN v = DOMAIN received /\ \A i \in DOMAIN v : v[i].task = received[i].task
  BY DEF ValuesOf
<1>2. Evaluation!Missing = {t \in 0 .. NTasks[mJob] - 1 : \A i \in DOMAIN v : v[i].task # t}
  BY DEF Evaluation!Missing, ValuesOf
<1> HIDE DEF v
<1> QED BY <1>1, <1>2 DEF TasksOf

-----------------------------------------------------------------------------
(* The steps the caller sees *)

\* The caller of a job waits from the first step of the evaluation function on.
LEMMA InitCaller == Init => Evaluation!Init
<1> SUFFICES ASSUME Init PROVE Evaluation!Init
  OBVIOUS
<1>1. /\ mPc = "idle" /\ mJob = NoJob /\ mPoint = InitPoint /\ received = <<>>
      /\ saved = [j \in Jobs |-> InitPoint] /\ moved = [j \in Jobs |-> {}]
  BY DEF Init
<1>2. mJob \notin Jobs
  BY <1>1, ConstantsAssumption
<1>3. ValuesOf(received) = <<>>
  BY <1>1, ValuesOfNothing
<1> QED BY <1>1, <1>2, <1>3 DEF Evaluation!Init, ValuesOf

\* A step of the processes is a step of the abstract evaluation or none.
LEMMA NextCaller ==
    ASSUME TypeOK, CallInv, FinishInv, ResultsOfThisPoint, [Next]_vars
    PROVE  [Evaluation!Next]_(Evaluation!vars)
<1>1. ASSUME (Caller)' = Caller, UNCHANGED <<mJob, mPoint, saved, moved, received>>
      PROVE  UNCHANGED Evaluation!vars
  BY <1>1 DEF Evaluation!vars, Caller
<1>2. ASSUME NEW j \in Jobs, NEW p \in Points, Call(j, p)
      PROVE  Evaluation!Call(j, p)
  <2>1. mPc = "idle" /\ mPc' # "idle" /\ mJob' = j /\ mPoint' = p /\ received' = <<>>
    BY <1>2, CallFacts
  <2>2. ValuesOf(received)' = <<>>
    BY <2>1, ValuesOfNothing DEF ValuesOf
  <2>3. saved' = IF j \in GradientJobs THEN saved ELSE [saved EXCEPT ![j] = p]
    BY <1>2 DEF Call, StartGradient, StartLikelihood
  <2>4. Evaluation!New(j, p) = IF j \in GradientJobs THEN Params ELSE Changed(j, p)
    BY DEF Evaluation!New, Evaluation!Params, Changed, Params
  <2>5. moved' = MovedBy(j, Evaluation!New(j, p))
    BY <1>2, <2>4 DEF Call
  <2> QED BY <2>1, <2>2, <2>3, <2>5 DEF Evaluation!Call, ValuesOf, MovedBy
<1>3. ASSUME NEW w \in Workers, Retrieve(w)
      PROVE  \E t \in Evaluation!Missing : Evaluation!Take(t) /\ mPc # "idle"
  <2>1. PICK r \in Result : Takes(w, r)
    BY <1>3, RetrieveTakes
  <2>2. /\ mPc = "gather" /\ mPc' # "idle" /\ UNCHANGED <<mJob, mPoint, saved, moved>>
        /\ received \in Seq(Result) /\ received' = Append(received, r) /\ r = wm[w][1] /\ 1 \in DOMAIN wm[w]
    BY <1>3, <2>1 DEF Takes, Retrieve
  <2>3. r.point \in WorkerPoints /\ \A i \in Params \ moved[mJob] : r.point[i] = mPoint[i]
    BY <2>2, ResultsParts DEF Right, Result
  <2>4. r.task \in Evaluation!Missing
    <3>1. r.task \notin TasksOf(received) /\ r.task \in TasksOf(wm[w])
      BY <2>1 DEF Takes
    <3>2. <<"result", w>> \in Holders /\ Held[<<"result", w>>] = TasksOf(wm[w])
      BY HeldAt
    <3>3. \A h \in Holders : Held[h] \subseteq 0 .. NTasks[mJob] - 1
      BY <2>1 DEF Takes
    <3> QED BY <3>1, <3>2, <3>3, MissingIs
  <2>5. ValuesOf(received)' = Append(ValuesOf(received), [task |-> r.task, point |-> r.point])
    <3>1. ValuesOf(received') = Append(ValuesOf(received), [task |-> r.task, point |-> r.point])
      BY <2>2, ValuesOfAppend
    <3> QED BY <3>1 DEF ValuesOf
  <2>6. Evaluation!Take(r.task)
    BY <2>2, <2>3, <2>4, <2>5 DEF Evaluation!Take, Evaluation!Params, ValuesOf, Params, WorkerPoints
  <2> QED BY <2>2, <2>4, <2>6
<1>4. ASSUME mPc = "finish", mPc' = "idle", UNCHANGED <<mJob, mPoint, saved, moved>>, received' \in {received, <<>>}
      PROVE  Evaluation!Return
  <2>1. Evaluation!Missing = {}
    BY <1>4, MissingIs DEF FinishInv
  <2>2. ValuesOf(received)' \in {ValuesOf(received), <<>>}
    <3>1. ValuesOf(received') \in {ValuesOf(received), <<>>}
      BY <1>4, ValuesOfNothing
    <3> QED BY <3>1 DEF ValuesOf
  <2> QED BY <1>4, <2>1, <2>2 DEF Evaluation!Return, ValuesOf
<1>5. CASE \E j \in Jobs, p \in Points : Call(j, p)
  BY <1>2, <1>5 DEF Evaluation!Next
<1>6. CASE \E w \in Workers : Retrieve(w)
  BY <1>3, <1>6 DEF Evaluation!Next, Evaluation!Serve
<1>7. CASE Reduce
  <2>1. mPc = "finish" /\ mPc' = "idle" /\ UNCHANGED <<mJob, mPoint, saved, moved>> /\ received' = <<>>
    BY <1>7 DEF Reduce
  <2> QED BY <1>4, <2>1 DEF Evaluation!Next, Evaluation!Serve
<1>8. CASE PublishFinished
  <2>1. mPc = "finish" /\ mPc' \in {"finish", "idle"} /\ UNCHANGED <<mJob, mPoint, saved, moved, received>>
    BY <1>8 DEF PublishFinished, SendUpdate
  <2>2. CASE mPc' = "idle"
    BY <1>4, <2>1, <2>2 DEF Evaluation!Next, Evaluation!Serve
  <2>3. CASE mPc' = "finish"
    BY <1>1, <2>1, <2>3 DEF Caller
  <2> QED BY <2>1, <2>2, <2>3
<1>9. CASE Publish \/ Enqueue \/ StartGather
  <2>1. mPc # "idle" /\ mPc' # "idle" /\ UNCHANGED <<mJob, mPoint, saved, moved, received>>
    BY <1>9 DEF Publish, SendUpdate, Enqueue, StartGather
  <2> QED BY <1>1, <2>1 DEF Caller
<1>10. CASE QueueNext \/ (\E w \in Workers : WorkerNext(w)) \/ UNCHANGED vars
  <2>1. UNCHANGED masterVars
    BY <1>10, OthersAtWork
  <2> QED BY <1>1, <2>1 DEF Caller
<1> QED BY <1>5, <1>6, <1>7, <1>8, <1>9, <1>10 DEF Next, MasterNext

\* Job::evaluate and calculate_all give their caller each task's value once, all of
\* them before the call returns, each at a point that agrees with the call's but
\* for the parameters that other jobs moved since a likelihood sent them.
THEOREM ImplementsCalls == Spec => Evaluation!Spec
<1>1. Init => FinishInv
  BY DEF Init, FinishInv
<1>2. ValueInv => ResultsOfThisPoint
  BY DEF ValueInv
<1>3. TypeOK /\ CallInv /\ FinishInv /\ [Next]_vars => FinishInv'
  BY NextFinishInv
<1>4. TypeOK /\ CallInv /\ FinishInv /\ ResultsOfThisPoint /\ [Next]_vars => [Evaluation!Next]_(Evaluation!vars)
  BY NextCaller
<1> QED
  BY <1>1, <1>2, <1>3, <1>4, TypeCorrect, InitAskInv, NextAskInv, InitCallInv, NextCallInv,
     InitValueInv, NextValueInv, InitCaller, PTL DEF Spec, Evaluation!Spec
=============================================================================
