---------------------------- MODULE JobProtocol ----------------------------
(***************************************************************************)
(* The task protocol of RooFit::MultiProcess: one master process, one      *)
(* queue process and NWorkers worker processes, connected pairwise by      *)
(* channels, evaluate the tasks of the jobs the master calls.              *)
(*                                                                         *)
(*   master --mq--> queue     tasks to enqueue                             *)
(*   worker --wq--> queue     requests for a task                          *)
(*   queue  --qw--> worker    answers to these requests                    *)
(*   master --mw--> worker    state updates of the jobs                    *)
(*   worker --wm--> master    task results                                 *)
(*                                                                         *)
(* A channel carries whole messages, in order, without loss: module        *)
(* Channel shows that the byte streams of Channel.cxx implement that.      *)
(* The jobs are the two of RooFit::TestStatistics.  LikelihoodJob sends    *)
(* the parameters that changed since it last sent them;                    *)
(* LikelihoodGradientJob (GradientJobs) sends its point at every call, and *)
(* one more update when its results are in, which resets the flag          *)
(* isCalculating on the workers.  On a worker all jobs compute with the    *)
(* same parameters, and the derivatives are left where the last of their   *)
(* function calls was.                                                     *)
(***************************************************************************)
EXTENDS Integers, SequencesExt

CONSTANTS
    NWorkers,      \* Config::getDefaultNWorkers()
    Jobs,          \* the registered Jobs
    GradientJobs,  \* the LikelihoodGradientJobs among them
    NTasks,        \* NTasks[j]: the number of tasks of a call of job j
    NParams,       \* the number of parameters
    Values,        \* the values of a parameter in the calls
    Points,        \* the parameter values the jobs are called at
    InitPoint,     \* their values when the workers are forked
    Displaced,     \* a value a finite difference is taken at
    NotSent,       \* a parameter that is not in an update
    QueueType,     \* Config::Queue::getQueueType()
    Priority,      \* Priority[j][t]: the priority set for a task
    MaxCalls,      \* bound: number of calls the master makes
    NoJob, NoTask

Workers == 0 .. NWorkers - 1
Params == 0 .. NParams - 1
\* The tasks of job j are its indices 0 .. NTasks[j] - 1.
JobTask == {t \in [job : Jobs, state : Nat, task : Nat] : t.task < NTasks[t.job]}

ASSUME ConstantsAssumption ==
    /\ NWorkers \in Nat \ {0}
    /\ GradientJobs \subseteq Jobs
    /\ NTasks \in [Jobs -> Nat]
    /\ \A j \in GradientJobs : NTasks[j] = NParams
    /\ NParams \in Nat
    /\ Points \subseteq [Params -> Values] /\ InitPoint \in Points
    /\ Displaced \notin Values /\ NotSent \notin Values \cup {Displaced}
    /\ QueueType \in {"FIFO", "Priority"}
    /\ \A j \in Jobs : Priority[j] \in [0 .. NTasks[j] - 1 -> Nat]
    /\ MaxCalls \in Nat
    /\ NoJob \notin Jobs /\ NoTask \notin JobTask

\* The parameters in an update: some, all, or none when it carries the flag only.
Sent == [Params -> Values \cup {NotSent}]
Nothing == [i \in Params |-> NotSent]
Update == [job : Jobs, state : Nat, calculating : BOOLEAN, point : Sent]

\* The values of a worker's parameters.
WorkerPoints == [Params -> Values \cup {Displaced}]

\* A task's result: what it was computed from stands for its value.
Result ==
    {r \in [job : Jobs, task : Nat, point : WorkerPoints, calculating : BOOLEAN] : r.task < NTasks[r.job]}

\* The queue's answer to a request.
Q2W == [answer : {"dequeue_rejected"}] \cup [answer : {"dequeue_accepted"}, task : JobTask]

VARIABLES
    mPc,           \* where the master is in the job's evaluation function
    mJob,          \* the job it evaluates
    mPoint,        \* the parameter values of the master
    mNext,         \* the next worker to publish to, or the next task to enqueue
    calls,         \* number of calls made (only bounds the model)
    stateId,       \* Job::state_id_ on the master
    saved,         \* LikelihoodJob::save_vars_: the values last sent
    toUpdate,      \* to_update, or minuit_internal_x_: what is being published
    calculating,   \* LikelihoodGradientJob::isCalculating_ on the master
    outstanding,   \* n_tasks_at_workers_ / N_tasks_at_workers_ of the job
    received,      \* the results received in this call: results_ / grad_
    moved,         \* history: parameters that other jobs may have changed on the
                   \* workers since a LikelihoodJob sent them
    pending,       \* queue_ on the queue process
    qBatch,        \* channels the queue's poll returned and it has not handled
    wPc,           \* where a worker is in worker_loop
    acknowledged,  \* dequeue_acknowledged
    wBatch,        \* channels the worker's poll returned and it has not handled
    skipSub,       \* skip_sub
    wTask,         \* the task a worker is handling
    wState,        \* Job::state_id_ on the workers
    wParams,       \* the parameters (RooRealVars) of the workers
    wPoint,        \* LikelihoodGradientJob::minuit_internal_x_ on the workers
    wCalculating,  \* isCalculating_ on the workers
    mq, wq, qw, mw, wm

masterVars == <<mPc, mJob, mPoint, mNext, calls, stateId, saved, toUpdate, calculating, outstanding,
                received, moved>>
queueVars == <<pending, qBatch>>
workerVars == <<wPc, acknowledged, wBatch, skipSub, wTask, wState, wParams, wPoint, wCalculating>>
channelVars == <<mq, wq, qw, mw, wm>>
vars == <<masterVars, queueVars, workerVars, channelVars>>

\* The indices of create_queue_poller: the master's channel, then the workers'.
MqIndex == 0
WorkerIndex(w) == w + 1

MasterTypeOK ==
    /\ mPc \in {"idle", "publish", "enqueue", "gather", "finish"}
    /\ mJob \in Jobs \cup {NoJob}
    /\ mPc # "idle" => mJob \in Jobs
    /\ mPoint \in Points
    /\ mNext \in Nat
    /\ calls \in 0 .. MaxCalls
    /\ stateId \in [Jobs -> Nat]
    /\ saved \in [Jobs -> Points]
    /\ toUpdate \in Sent
    /\ calculating \in [Jobs -> BOOLEAN]
    /\ outstanding \in [Jobs -> Int]
    /\ received \in Seq(Result)
    /\ moved \in [Jobs -> SUBSET Params]

QueueTypeOK ==
    /\ pending \in Seq(JobTask)
    /\ qBatch \subseteq 0 .. NWorkers

WorkerTypeOK ==
    /\ wPc \in [Workers -> {"ask", "poll", "batch", "sync"}]
    /\ acknowledged \in [Workers -> BOOLEAN]
    /\ wBatch \in [Workers -> SUBSET {"qw", "mw"}]
    /\ skipSub \in [Workers -> BOOLEAN]
    /\ wTask \in [Workers -> JobTask \cup {NoTask}]
    /\ \A w \in Workers : wPc[w] = "sync" => wTask[w] \in JobTask
    /\ wState \in [Workers -> [Jobs -> Nat]]
    /\ wParams \in [Workers -> WorkerPoints]
    /\ wPoint \in [Workers -> [GradientJobs -> [Params -> Values]]]
    /\ wCalculating \in [Workers -> [Jobs -> BOOLEAN]]

ChannelTypeOK ==
    /\ mq \in Seq(JobTask)
    /\ wq \in [Workers -> Seq({"dequeue"})]
    /\ qw \in [Workers -> Seq(Q2W)]
    /\ mw \in [Workers -> Seq(Update)]
    /\ wm \in [Workers -> Seq(Result)]

TypeOK == MasterTypeOK /\ QueueTypeOK /\ WorkerTypeOK /\ ChannelTypeOK

\* After the fork and the connection test: every worker is at the top of its
\* loop with the job objects it inherited.
Init ==
    /\ mPc = "idle" /\ mJob = NoJob /\ mPoint = InitPoint /\ mNext = 0 /\ calls = 0
    /\ stateId = [j \in Jobs |-> 0]
    /\ saved = [j \in Jobs |-> InitPoint]
    /\ toUpdate = Nothing
    /\ calculating = [j \in Jobs |-> FALSE]
    /\ outstanding = [j \in Jobs |-> 0]
    /\ received = <<>>
    /\ moved = [j \in Jobs |-> {}]
    /\ pending = <<>> /\ qBatch = {}
    /\ wPc = [w \in Workers |-> "ask"]
    /\ acknowledged = [w \in Workers |-> TRUE]
    /\ wBatch = [w \in Workers |-> {}]
    /\ skipSub = [w \in Workers |-> FALSE]
    /\ wTask = [w \in Workers |-> NoTask]
    /\ wState = [w \in Workers |-> [j \in Jobs |-> 0]]
    /\ wParams = [w \in Workers |-> InitPoint]
    /\ wPoint = [w \in Workers |-> [j \in GradientJobs |-> InitPoint]]
    /\ wCalculating = [w \in Workers |-> [j \in Jobs |-> FALSE]]
    /\ mq = <<>>
    /\ wq = [w \in Workers |-> <<>>]
    /\ qw = [w \in Workers |-> <<>>]
    /\ mw = [w \in Workers |-> <<>>]
    /\ wm = [w \in Workers |-> <<>>]

-----------------------------------------------------------------------------
(* The master: LikelihoodJob::evaluate and LikelihoodGradientJob::calculate_all *)

\* The parameters LikelihoodJob sends: those that are not what it sent last.
ChangedSinceForked(j, p) == {i \in Params : p[i] # InitPoint[i]}
Changed(j, p) == {i \in Params : p[i] # saved[j][i]}

\* updateWorkersParameters: the workers need an update only if a value is new.
StartLikelihood(j, p) ==
    /\ saved' = [saved EXCEPT ![j] = p]
    /\ toUpdate' = [i \in Params |-> IF i \in Changed(j, p) THEN p[i] ELSE NotSent]
    /\ IF Changed(j, p) # {}
       THEN stateId' = [stateId EXCEPT ![j] = @ + 1] /\ mPc' = "publish"
       ELSE mPc' = "enqueue" /\ UNCHANGED stateId
    /\ UNCHANGED calculating

\* calculate_all: the workers get the point, and the flag, in any case.
StartGradient(j, p) ==
    /\ calculating' = [calculating EXCEPT ![j] = TRUE]
    /\ stateId' = [stateId EXCEPT ![j] = @ + 1]
    /\ toUpdate' = p
    /\ mPc' = "publish"
    /\ UNCHANGED saved

\* What the other jobs sent is no longer what the workers have; a gradient moves
\* all parameters.
MovedBy(j, params) ==
    [k \in Jobs |-> IF k \in GradientJobs THEN {}
                    ELSE IF k = j THEN moved[k] \ params ELSE moved[k] \cup params]

\* The caller sets the parameters and calls job j.
Call(j, p) ==
    /\ mPc = "idle" /\ calls < MaxCalls
    /\ calls' = calls + 1
    /\ mJob' = j /\ mPoint' = p /\ mNext' = 0 /\ received' = <<>>
    /\ IF j \in GradientJobs THEN StartGradient(j, p) ELSE StartLikelihood(j, p)
    /\ moved' = MovedBy(j, IF j \in GradientJobs THEN Params ELSE Changed(j, p))
    /\ UNCHANGED <<outstanding, queueVars, workerVars, channelVars>>

\* publish_from_master_to_workers sends to one worker after the other.
SendUpdate(point, next) ==
    /\ mw' = [mw EXCEPT ![mNext] = Append(@,
                [job |-> mJob, state |-> stateId[mJob], calculating |-> calculating[mJob], point |-> point])]
    /\ IF mNext + 1 < NWorkers THEN mNext' = mNext + 1 /\ UNCHANGED mPc
                               ELSE mNext' = 0 /\ mPc' = next
    /\ UNCHANGED <<mq, wq, qw, wm, queueVars, workerVars>>
    /\ UNCHANGED <<mJob, mPoint, calls, stateId, saved, toUpdate, calculating, outstanding,
                   received, moved>>

Publish == mPc = "publish" /\ SendUpdate(toUpdate, "enqueue")

MoreTasksInclusive == mNext <= NTasks[mJob]
MoreTasks == mNext < NTasks[mJob]

Enqueue ==
    /\ mPc = "enqueue" /\ MoreTasks
    /\ mq' = Append(mq, [job |-> mJob, state |-> stateId[mJob], task |-> mNext])
    /\ mNext' = mNext + 1
    /\ UNCHANGED <<mPc, mJob, mPoint, calls, stateId, saved, toUpdate, calculating, outstanding,
                   received, moved>>
    /\ UNCHANGED <<wq, qw, mw, wm, queueVars, workerVars>>

StartGather ==
    /\ mPc = "enqueue" /\ ~MoreTasks
    /\ outstanding' = [outstanding EXCEPT ![mJob] = NTasks[mJob]]
    /\ mPc' = "gather" /\ mNext' = 0
    /\ UNCHANGED <<mJob, mPoint, calls, stateId, saved, toUpdate, calculating, received, moved>>
    /\ UNCHANGED <<queueVars, workerVars, channelVars>>

\* receive_task_result_on_master of the job that asks returns true.
CompletesEarly(r) == r.job = mJob /\ outstanding[r.job] = 2
Completes(r) == r.job = mJob /\ outstanding[r.job] - 1 = 0

\* JobManager::retrieve takes results until one completes the job that asks.  A
\* gradient job then leaves the calculation.
Retrieve(w) ==
    /\ mPc = "gather" /\ wm[w] # <<>>
    /\ LET r == Head(wm[w])
       IN  /\ wm' = [wm EXCEPT ![w] = Tail(@)]
           /\ received' = Append(received, r)
           /\ outstanding' = [outstanding EXCEPT ![r.job] = @ - 1]
           /\ mPc' = IF Completes(r) THEN "finish" ELSE "gather"
           /\ IF Completes(r) /\ mJob \in GradientJobs
              THEN /\ calculating' = [calculating EXCEPT ![mJob] = FALSE]
                   /\ stateId' = [stateId EXCEPT ![mJob] = @ + 1]
              ELSE UNCHANGED <<calculating, stateId>>
    /\ UNCHANGED <<mJob, mPoint, mNext, calls, saved, toUpdate, moved>>
    /\ UNCHANGED <<mq, wq, qw, mw, queueVars, workerVars>>

\* update_workers_state_isCalculating: the workers are told one by one.
PublishFinished == mPc = "finish" /\ mJob \in GradientJobs /\ SendUpdate(Nothing, "idle")

\* LikelihoodJob adds its results up, forgets them and returns.
Reduce ==
    /\ mPc = "finish" /\ mJob \notin GradientJobs
    /\ mPc' = "idle" /\ received' = <<>>
    /\ UNCHANGED <<mJob, mPoint, mNext, calls, stateId, saved, toUpdate, calculating, outstanding, moved>>
    /\ UNCHANGED <<queueVars, workerVars, channelVars>>

MasterNext ==
    \/ Publish \/ Enqueue \/ StartGather \/ PublishFinished \/ Reduce
    \/ \E w \in Workers : Retrieve(w)

-----------------------------------------------------------------------------
(* The queue process: Queue::loop with FIFOQueue or PriorityQueue *)

QueueReadableButLast ==
    {WorkerIndex(w) : w \in {v \in Workers : wq[v] # <<>> /\ v + 1 < NWorkers}} \cup {i \in {MqIndex} : mq # <<>>}
QueueReadable == {WorkerIndex(w) : w \in {v \in Workers : wq[v] # <<>>}} \cup {i \in {MqIndex} : mq # <<>>}

\* One poll; the channels it returns are then handled in the order of their
\* indices, each once.
QueuePoll ==
    /\ qBatch = {} /\ QueueReadable # {}
    /\ qBatch' = QueueReadable
    /\ UNCHANGED <<pending, masterVars, workerVars, channelVars>>

ProcessMasterMessage ==
    /\ MqIndex \in qBatch /\ mq # <<>>
    /\ pending' = Append(pending, Head(mq))
    /\ mq' = Tail(mq)
    /\ qBatch' = qBatch \ {MqIndex}
    /\ UNCHANGED <<masterVars, workerVars, wq, qw, mw, wm>>

\* The positions pop() may take: the front of a FIFOQueue, or a task of the
\* highest priority (std::priority_queue does not promise an order among equals).
PopPositions ==
    IF QueueType = "FIFO"
    THEN {i \in DOMAIN pending : i = 1}
    ELSE {i \in DOMAIN pending : \A k \in DOMAIN pending :
             Priority[pending[k].job][pending[k].task] <= Priority[pending[i].job][pending[i].task]}

PendingAfterPeek(i) == pending
PendingAfterPop(i) == RemoveAt(pending, i)

ProcessWorkerMessage(w) ==
    /\ WorkerIndex(w) \in qBatch /\ \A i \in qBatch : WorkerIndex(w) <= i
    /\ wq[w] # <<>>
    /\ wq' = [wq EXCEPT ![w] = Tail(@)]
    /\ qBatch' = qBatch \ {WorkerIndex(w)}
    /\ \/ /\ pending = <<>>
          /\ qw' = [qw EXCEPT ![w] = Append(@, [answer |-> "dequeue_rejected"])]
          /\ UNCHANGED pending
       \/ \E i \in PopPositions :
             /\ qw' = [qw EXCEPT ![w] = Append(@, [answer |-> "dequeue_accepted", task |-> pending[i]])]
             /\ pending' = PendingAfterPop(i)
    /\ UNCHANGED <<masterVars, workerVars, mq, mw, wm>>

QueueNext == QueuePoll \/ ProcessMasterMessage \/ \E w \in Workers : ProcessWorkerMessage(w)

-----------------------------------------------------------------------------
(* A worker process: worker_loop *)

\* Where the loop goes when the worker has handled `left' less than its batch:
\* it asks for a task unless it has asked already.
ResumeAsking(w, left, mayAsk) ==
    wPc' = [wPc EXCEPT ![w] = IF left # {} THEN "batch" ELSE "ask"]
ResumePolling(w, left, mayAsk) ==
    wPc' = [wPc EXCEPT ![w] = IF left # {} THEN "batch" ELSE "poll"]
Resume(w, left, mayAsk) ==
    wPc' = [wPc EXCEPT ![w] = IF left # {} THEN "batch" ELSE IF mayAsk THEN "ask" ELSE "poll"]

\* Job::update_state: an update replaces the state id, the flag, and the values it
\* carries.  A LikelihoodJob sets the parameters; a LikelihoodGradientJob keeps
\* them for its tasks, and evaluates the function there if it has to.
StatesKept(w, u) == wState[w]
StatesAfter(w, u) == [wState[w] EXCEPT ![u.job] = u.state]

Overwritten(values, sent) == [i \in Params |-> IF sent[i] = NotSent THEN values[i] ELSE sent[i]]

ReceiveUpdate(w) ==
    /\ mw[w] # <<>>
    /\ LET u == Head(mw[w])
           set == [wParams EXCEPT ![w] = Overwritten(@, u.point)]
       IN  /\ wState' = [wState EXCEPT ![w] = StatesAfter(w, u)]
           /\ wCalculating' = [wCalculating EXCEPT ![w][u.job] = u.calculating]
           /\ IF u.job \in GradientJobs
              THEN /\ wPoint' = [wPoint EXCEPT ![w][u.job] = Overwritten(@, u.point)]
                   /\ wParams' \in {wParams, set}
              ELSE wParams' = set /\ UNCHANGED wPoint
    /\ mw' = [mw EXCEPT ![w] = Tail(@)]

Ask(w) ==
    /\ wPc[w] = "ask"
    /\ wq' = [wq EXCEPT ![w] = Append(@, "dequeue")]
    /\ acknowledged' = [acknowledged EXCEPT ![w] = FALSE]
    /\ wPc' = [wPc EXCEPT ![w] = "poll"]
    /\ UNCHANGED <<wBatch, skipSub, wTask, wState, wParams, wPoint, wCalculating>>
    /\ UNCHANGED <<mq, qw, mw, wm, masterVars, queueVars>>

WorkerReadable(w) == {c \in {"qw", "mw"} : (c = "qw" /\ qw[w] # <<>>) \/ (c = "mw" /\ mw[w] # <<>>)}

WorkerPoll(w) ==
    /\ wPc[w] = "poll" /\ WorkerReadable(w) # {}
    /\ wBatch' = [wBatch EXCEPT ![w] = WorkerReadable(w)]
    /\ skipSub' = [skipSub EXCEPT ![w] = FALSE]
    /\ wPc' = [wPc EXCEPT ![w] = "batch"]
    /\ UNCHANGED <<acknowledged, wTask, wState, wParams, wPoint, wCalculating>>
    /\ UNCHANGED <<masterVars, queueVars, channelVars>>

\* The master's channel comes second in the poller, hence after the queue's.
HandleUpdate(w) ==
    /\ wPc[w] = "batch" /\ wBatch[w] = {"mw"}
    /\ ReceiveUpdate(w)
    /\ wBatch' = [wBatch EXCEPT ![w] = {}]
    /\ Resume(w, {}, acknowledged[w])
    /\ UNCHANGED <<acknowledged, skipSub, wTask, mq, wq, qw, wm, masterVars, queueVars>>

HandleRejected(w) ==
    /\ wPc[w] = "batch" /\ "qw" \in wBatch[w]
    /\ qw[w] # <<>> /\ Head(qw[w]).answer = "dequeue_rejected"
    /\ qw' = [qw EXCEPT ![w] = Tail(@)]
    /\ acknowledged' = [acknowledged EXCEPT ![w] = TRUE]
    /\ wBatch' = [wBatch EXCEPT ![w] = @ \ {"qw"}]
    /\ Resume(w, wBatch[w] \ {"qw"}, TRUE)
    /\ UNCHANGED <<skipSub, wTask, wState, wParams, wPoint, wCalculating>>
    /\ UNCHANGED <<mq, wq, mw, wm, masterVars, queueVars>>

HandleAccepted(w) ==
    /\ wPc[w] = "batch" /\ "qw" \in wBatch[w]
    /\ qw[w] # <<>> /\ Head(qw[w]).answer = "dequeue_accepted"
    /\ qw' = [qw EXCEPT ![w] = Tail(@)]
    /\ acknowledged' = [acknowledged EXCEPT ![w] = TRUE]
    /\ wTask' = [wTask EXCEPT ![w] = Head(qw[w]).task]
    /\ wPc' = [wPc EXCEPT ![w] = "sync"]
    /\ UNCHANGED <<wBatch, skipSub, wState, wParams, wPoint, wCalculating>>
    /\ UNCHANGED <<mq, wq, mw, wm, masterVars, queueVars>>

\* The worker's copy of the task's job is in the state the task was queued in.
InAnyState(w) == TRUE
InTaskState(w) == wState[w][wTask[w].job] = wTask[w].state

\* While it is not, the worker receives updates, of whichever job they are.
AwaitState(w) ==
    /\ wPc[w] = "sync" /\ ~InTaskState(w)
    /\ ReceiveUpdate(w)
    /\ skipSub' = [skipSub EXCEPT ![w] = TRUE]
    /\ UNCHANGED <<wPc, acknowledged, wBatch, wTask, mq, wq, qw, wm, masterVars, queueVars>>

\* If the worker took an update for its task, what the poll said of the master's
\* channel is stale, and the channel is skipped.
LeftUnskipped(w) == wBatch[w] \ {"qw"}
LeftAfterTask(w) == IF skipSub[w] THEN {} ELSE wBatch[w] \ {"qw"}

\* What evaluate_task computes: a term of the likelihood, of the parameters, or a
\* partial derivative at the point that was sent, and it depends on the flag, which
\* makes the function calls of the derivator serial.
ResultOf(w) ==
    LET t == wTask[w]
    IN  [job |-> t.job, task |-> t.task, calculating |-> wCalculating[w][t.job],
         point |-> IF t.job \in GradientJobs THEN wPoint[w][t.job] ELSE wParams[w]]

\* The last function call of a derivative (FastPartialDerivative) has set all
\* parameters, one of them off the point.
ParamsAfter(w) ==
    LET t == wTask[w]
    IN  IF t.job \in GradientJobs THEN [wPoint[w][t.job] EXCEPT ![t.task] = Displaced] ELSE wParams[w]

\* evaluate_task and send_back_task_result_from_worker.
Evaluate(w) ==
    /\ wPc[w] = "sync" /\ InTaskState(w)
    /\ wm' = [wm EXCEPT ![w] = Append(@, ResultOf(w))]
    /\ wParams' = [wParams EXCEPT ![w] = ParamsAfter(w)]
    /\ wBatch' = [wBatch EXCEPT ![w] = LeftAfterTask(w)]
    /\ Resume(w, LeftAfterTask(w), TRUE)
    /\ wTask' = [wTask EXCEPT ![w] = NoTask]
    /\ UNCHANGED <<acknowledged, skipSub, wState, wPoint, wCalculating>>
    /\ UNCHANGED <<mq, wq, qw, mw, masterVars, queueVars>>

WorkerNext(w) ==
    \/ Ask(w) \/ WorkerPoll(w) \/ HandleUpdate(w)
    \/ HandleRejected(w) \/ HandleAccepted(w) \/ AwaitState(w) \/ Evaluate(w)

-----------------------------------------------------------------------------

Next ==
    \/ \E j \in Jobs, p \in Points : Call(j, p)
    \/ MasterNext \/ QueueNext \/ \E w \in Workers : WorkerNext(w)

Spec == Init /\ [][Next]_vars

\* Every process that can take a step takes one eventually; nobody has to call.
FairSpec == Spec /\ WF_vars(MasterNext) /\ WF_vars(QueueNext)
                 /\ \A w \in Workers : WF_vars(WorkerNext(w))

-----------------------------------------------------------------------------
(* Properties *)

\* "Don't ask twice" (worker.cxx:50): a worker has one request or one answer
\* under way until it acknowledged an answer, and none after that.  Were there
\* two, a worker would hold a second task back while it evaluates the first;
\* were there none, it would sleep for ever.
AskOnce == \A w \in Workers : Len(wq[w]) + Len(qw[w]) = IF acknowledged[w] THEN 0 ELSE 1

InRound == mPc \in {"enqueue", "gather"}

Accepted(w) == {i \in DOMAIN qw[w] : qw[w][i].answer = "dequeue_accepted"}

\* The tasks that are queued and not yet evaluated, wherever they are.
TasksInFlight ==
    ToSet(mq) \cup ToSet(pending)
        \cup (UNION {{qw[w][i].task : i \in Accepted(w)} : w \in Workers})
        \cup {wTask[w] : w \in {v \in Workers : wPc[v] = "sync"}}

\* The copies of task t there are, evaluated or not: where each one is.
Copies(t) ==
    LET In(s) == {i \in DOMAIN s : s[i].task = t}
        Answered(w) == {i \in Accepted(w) : qw[w][i].task.task = t}
    IN  {<<"mq", i>> : i \in In(mq)} \cup {<<"pending", i>> : i \in In(pending)}
        \cup {<<"received", i>> : i \in In(received)}
        \cup {<<"wTask", w>> : w \in {v \in Workers : wPc[v] = "sync" /\ wTask[v].task = t}}
        \cup (UNION {{<<"qw", w, i>> : i \in Answered(w)} : w \in Workers})
        \cup (UNION {{<<"wm", w, i>> : i \in In(wm[w])} : w \in Workers})

\* Nothing of an earlier call is left when a call starts, and what is under way
\* is of the call's job and of the state the call published: no task is
\* evaluated, and no result counted, for a call it was not queued by.
OnlyThisCall ==
    /\ \A t \in TasksInFlight : InRound /\ t.job = mJob /\ t.state = stateId[mJob]
    /\ \A w \in Workers : \A r \in ToSet(wm[w]) : InRound /\ r.job = mJob

\* A task queued in this call is in exactly one place until the call returns,
\* and the counter retrieve() waits on counts those not received yet.
OneCopyPerTask ==
    InRound =>
        /\ \A t \in 0 .. NTasks[mJob] - 1 :
               Cardinality(Copies(t)) = IF mPc = "enqueue" /\ mNext <= t THEN 0 ELSE 1
        /\ mPc = "gather" => outstanding[mJob] = NTasks[mJob] - Len(received)

\* worker.cxx:99-105: the loop that waits for the state of a task ends.  The
\* state has not been passed over: an update that brings it is on its way.
StateArrives ==
    \A w \in Workers : wPc[w] = "sync" /\ ~InTaskState(w) =>
        \E i \in DOMAIN mw[w] : mw[w][i].job = wTask[w].job /\ mw[w][i].state = wTask[w].state

\* worker.cxx:71-76: the master's channel is only read where a message waits.
NoReadOfNothing ==
    \A w \in Workers : wPc[w] = "batch" =>
        /\ "qw" \in wBatch[w] => qw[w] # <<>>
        /\ "mw" \in wBatch[w] => mw[w] # <<>>

\* Every result is of the point the master called the job at, but for what other
\* jobs have done to the parameters of the workers since the job sent them; and a
\* gradient's was computed while its worker knew that one is being calculated.
ResultsOfThisPoint ==
    \A r \in ToSet(received) \cup UNION {ToSet(wm[w]) : w \in Workers} :
        /\ \A i \in Params \ moved[mJob] : r.point[i] = mPoint[i]
        /\ r.calculating = (mJob \in GradientJobs)

\* "A single-worker run gives the same result as a run with serial likelihood"
\* (LikelihoodJob.cxx:218-219): what is added up was computed at the call's point.
SameAsSerial == \A r \in ToSet(received) : r.point = mPoint

\* "Asks the queue process for tasks" (worker.cxx:42): every worker keeps asking,
\* so that none is lost to the jobs to come, however long the others' tasks take.
AsksForEver == \A w \in Workers : []<><<Ask(w)>>_vars

\* What the caller sees: see ParallelEvaluation.
Evaluation == INSTANCE ParallelEvaluation WITH
    caller <- IF mPc = "idle" THEN "idle" ELSE "waiting",
    job <- mJob, point <- mPoint, last <- saved,
    values <- [i \in DOMAIN received |-> [task |-> received[i].task, point |-> received[i].point]]

ImplementsEvaluation == Evaluation!FairSpec
=============================================================================
