# A verification project for RooFit's evaluation and minimization

This directory holds TLA+ specifications of RooFit, the configurations with
which TLC checks them, and theorems about them that TLAPS checks. It follows the
source under `src/`; every definition names, in `PROJECT.json`, the lines it
models.

## 1. The system

RooFit is a toolkit for statistical models. The larger part of it is numerics
(densities, integrals, generators), data sets, plotting and file formats. The
part with control that is hard to test is what evaluates a model: the parallel
minimization of `RooFit::MultiProcess` and `RooFit::TestStatistics`, and the
caches of the expression and computation graphs.

    RooMinimizer / Minuit2
      | function and gradient at a point
    MinuitFcnGrad -- flags: what is clean at the current point; likelihood offsets
      |                          |
    LikelihoodJob         LikelihoodGradientJob      (Jobs, on every process)
      | tasks, state updates, results
    JobManager, Queue, worker_loop, Messenger
      | frames
    Channel -- one socket pair for every two processes
      |
    ProcessManager -- fork, SIGTERM, shutdown

In a fit without `RooFit::TestStatistics` the function is one of two others:

    RooMinimizer -- parameters set dirty, all nodes ADirty, offsets shown
      | value at a point
    RooMinimizerFcn
      |                          |
    RooEvaluatorWrapper        RooAbsTestStatistic (RooNLLVar)
      | run                      | calculate, value
    RooFit::Evaluator          RooRealMPFE -- one server process per part
      | doEval of the nodes
    RooAbsArg, RooAbsReal -- value flags, operation modes, caches

| Component | State | Operations | What makes it correct |
|---|---|---|---|
| `Job`s (`LikelihoodJob`, `LikelihoodGradientJob`) | `state_id_`, parameters last sent, results, number of tasks at workers, `isCalculating_`, offsets last sent | call: publish the state, add tasks, gather results; on a worker: `update_state`, `evaluate_task`, `send_back_...` | a call takes each task's result once, computed from the state of the call |
| `Queue` (`FIFOQueue`, `PriorityQueue`) | tasks not handed out, priorities | `add`, `pop`, the event loop | a task is handed to one worker; the order is that of the queue type |
| `worker_loop` | `dequeue_acknowledged`, the channels the poll returned, `skip_sub` | ask, poll, update, evaluate | one request under way; no evaluation before the task's state is there; no read from a channel with no message |
| `JobManager` | the singleton, registered jobs, activation | `instance`, `add_job_object`, `retrieve`, `activate` | one fork for all jobs; results go to their job |
| `Messenger` | channels, pollers, the worker whose message is being received | send, receive, publish, connection test | parts of a message stay together; no worker is starved |
| `Channel` | pending output, frame in progress | `send_frame`, `try_flush`, `recv_frame`, `wait` | frames whole and in order; no deadlock on full buffers; poll stays accurate |
| `ProcessManager` | role, child PIDs, SIGTERM flag and self-pipe | fork, handler, `terminate` | every child ends; no wake-up is lost |
| `MinuitFcnGrad` | clean flags, points seen, which likelihood is used | function, gradient, offsetting | a value or gradient is of the point it was asked for, and all have one offset |
| `RooAbsArg`, `RooAbsReal` | value flag, operation mode, value and servers of each node; tracking inhibited | `setVal`, `getVal`, `redirectServers`, `setOperMode`, `doEval` | a clean cache is what the parameters give; switching tracking off leaves no trace |
| `RooFit::Evaluator`, `RooNLLVarNew` | flags and buffers of the nodes, offset mode, offset, weights | set an input, set the offset mode, run | a run gives the present value; a fit has one offset, the program sees none |
| `RooRealMPFE`, `RooAbsTestStatistic` | server processes, parameters last sent, errors, logging mode | `calculate`, `getValV`, `enableOffsetting`, `standby` | the terms of the sum are of one point and kind; errors are of that point; servers end |

The processes share no memory after the fork. They talk over the channels only:

| Channel | From - to | Messages |
|---|---|---|
| `mq` | master - queue | a task to enqueue |
| `qw` | worker - queue | a request for a task; back: the task, or that there is none |
| `mw` | master - worker | state updates of the jobs; back: results |

What is hard: three kinds of processes act in any order; three channels reach a
worker's decision to evaluate (the task over `qw` may come before the state it
needs over `mw`); what `poll` returned is used after other messages were read;
sends are buffered in the process and only written while it waits for something
else; the end of a gradient is published to workers that may still be asking;
SIGTERM meets a child in any state, after other children may have gone. In one
process: flags are cleared before what they stand for is computed, tracking is
switched off in three places that may be nested and left by an exception, and
switches of a likelihood take effect with the next evaluation, whoever makes it.

## 2. The modules

| Module | What it is |
|---|---|
| `JobProtocol` | master, queue process and workers: the calls of the two jobs, the queue's loop, the workers' loop |
| `ParallelEvaluation` | the abstract specification of a call, which `JobProtocol` implements |
| `Channel` | socket buffers, pending output, partial reads, and the waits in which output is flushed |
| `FrameFIFO` | the abstract specification of the channels, which `Channel` implements |
| `LikelihoodOffsets` | a parallel likelihood whose offsets, parameters and offsetting flag travel to the workers |
| `LikelihoodSerial` | the abstract specification of a likelihood, which `LikelihoodOffsets` implements |
| `MinuitFcnGrad` | between Minuit2 and the likelihood: gradients kept for a point, and the two offsets of the function on every process |
| `JobManagerLife` | the processes from the registration of jobs and the fork to SIGTERM and the shutdown, with children that die |
| `ValueCache` | the value flags, operation modes and caches of an expression graph |
| `Evaluator` | the computation graph of a likelihood, its inputs, offset mode and offset, called by fits and the program |
| `RooRealMPFE` | a likelihood split over server processes, and their message loop |
| `MCJobProtocol`, `MCChannel`, `MCMinuitFcnGrad`, `MCValueCache`, `MCEvaluator`, `MCRooRealMPFE` | instances for TLC |
| `JobProtocolProofs`, `ChannelProofs`, `JobManagerLifeProofs`, `LikelihoodOffsetsProofs`, `MinuitFcnGradProofs`, `ValueCacheProofs`, `EvaluatorProofs`, `RooRealMPFEProofs` | theorems about the modules they are named after |

The modules are layers: each takes from the one below what that one is shown to
promise. `JobProtocol` reads whole messages in order from its channels (`Channel`,
`FrameFIFO`). `LikelihoodOffsets` has a worker evaluate a task once, with the
task's state (`JobProtocol`: `OneCopyPerTask`, `ResultsOfThisPoint` where no gradient
comes between).
`MinuitFcnGrad` takes a value of the likelihood to be determined by the point and
the offsets (`LikelihoodSerial`). `JobManagerLife` is what comes before and after
`JobProtocol`: its calls have one task and no state. `Evaluator` and `ValueCache`
are the two places where RooFit keeps values: the buffers of the one are computed
by the nodes of the other.

### JobProtocol

The master's program counter `mPc` follows the evaluation function of the job:
`publish` (the state goes to one worker after the other), `enqueue` (one task
after the other), `gather` (`JobManager::retrieve`), `finish` (a gradient tells
the workers that it is over; a likelihood adds the results up), `idle`.
`LikelihoodJob` publishes only if its parameters differ from those it sent last
(`saved`); `LikelihoodGradientJob` always does. `stateId`, `outstanding`,
`received` and `calculating` are `state_id_`, `n_tasks_at_workers_`, the results
and `isCalculating_`.

The queue process polls (`QueuePoll`), then takes one message from each channel
the poll returned, the master's first (`ProcessMasterMessage`,
`ProcessWorkerMessage`). `PopPositions` is the queue type: the front, or any task
of the highest priority, since `std::priority_queue` promises no order among
equals.

A worker asks (`Ask`) if its last request was answered, polls (`WorkerPoll`) and
handles the queue's answer before the master's update. For a task whose state it
does not have it receives updates (`AwaitState`), of any job, and then skips the
master's channel, because what the poll said of it is stale (`LeftAfterTask`).

A point gives each parameter its value, and an update has a value or nothing
(`NotSent`) for each: `LikelihoodJob` sends those that differ from what it sent last
(`Changed`), a gradient job sends all, to a point of its own on the worker (`wPoint`);
whether the update also sets the parameters depends on whether the function has to be
calculated there. On a worker all jobs set the same `RooRealVar`s (`wParams`): a
likelihood task is computed with them as they are, whatever set them last; a derivative
leaves all of them at the gradient's point but its own, which is where its last finite
difference was taken (`ParamsAfter`; `Displaced` stands for every such value). `moved` is a history: the parameters that other jobs may have changed
since a likelihood sent them. A result is the point and the flag it was computed
with: that is all its value depends on.
Frames are put together to
whole messages: `Channel` shows that a stream gives back the frames that were
put in, in order, and each process reads a message to its end before it does
anything else. What the jobs compute is left out.

### Channel

A stream is one direction of a socket pair. Its units are in the sender's
pending output `out`, in the socket buffer `kernel` (`Capacity` units) or in the
receiver's frame in progress `in`. `send_frame` appends and, for a message's
last frame, writes what fits (`SendFrame`); `wait` flushes all streams with
pending output as there is room (`Flush`) and returns a readable one
(`PollReturns`); a `read` takes any part of what is there up to the end of the
header, then of the payload (`Read`), and a complete frame is returned
(`FrameReceived`). The processes send and wait as they like.

### LikelihoodOffsets

The master calculates offsets at the first evaluation with offsetting on
(`OffsetsToUse`), and sends them with the parameters, under a new state id, if
either differs from what it sent last (`UpdateWorkers`; `saved` is `save_vars_`,
`previous` is `offsets_previous_`). The flag `do_offset_` is published when it is
set, without a state id (`EnableOffsetting`). A worker takes updates when it gets
to them (`ReceiveUpdate`) and a task when it has the state the task names
(`EvaluateTask`); the task of a component's last event section subtracts the
component's offset (`LastSection`, `OffsetOf`). An offset is the point it was
calculated at; a value is the set of points and offsets it was computed from, and
how often an offset was subtracted, for each component (`Sum`). The offsetting mode says
whether subsidiary components have offsets too. `setOffsettingMode` is not virtual:
it sets `mode` of the `LikelihoodJob`, while the offsets are calculated by the serial
likelihood inside the job, which stays in the legacy mode (`SerialMode`). `Garbage` is what a worker without
offsets reads past the end of the vector.

`LikelihoodSerial` is the same likelihood evaluated by one process. The code calls
it the reference implementation, and here it is the abstract specification. It has
both modes; the job implements it in the legacy mode, whatever mode is set
(`mode <- SerialMode`; see the observations).

The constant `DisableAfterFork` says whether the caller switches offsetting off
once workers exist. `ImplementsSerial` and `OffsetsFollow` are checked for callers
that do not; finding 1 and the first observation are about those that do.

### MinuitFcnGrad

Minuit2 is the environment: `Minimize`, `DoEval` (a value at any point),
`ReturnClean` or `StartGradient` (a gradient at a valid point other than that of
Minuit2's state, where its line search ended), `FinishGradient`, `EndMinimize`, in
the order MIGRAD has them. `setup` holds what does not change during a fit:
whether the likelihood is parallel, whether offsetting is on, and at which points
it is invalid.

The function Minuit2 sees is shifted twice. `offsets` is the likelihood offset;
`funcOffset` is `_funcOffset` of `RooAbsMinimizerFcn`, set when the first valid
value follows invalid ones (`FuncOffsetAfter`). Of the counters `_evalCounter` and
`_numBadNLL` the code only asks whether they are equal and not zero: `history`.
All of these exist on every process; workers get a copy when they are forked
(`Fork`: at the first evaluation of a parallel likelihood, else at the first
gradient), later what an update contains (`ReceiveUpdate`), and they evaluate the
function themselves (`EvaluateBeside`).

`internalX`, `jobX`, `clean`, `gradient` are what decides whether a gradient is
calculated and where: `_minuitInternalX`, the job's `minuit_internal_x_`, the clean
flag and `grad_`. `Origin` is the point all internal coordinates of which are 0,
the initial `_minuitInternalX`. `calculated` is a history variable: a gradient was
calculated since the minimization began. `wOnlyBad` is another: workers that have met
nothing but invalid values in this gradient.

### JobManagerLife

The master's counter `pc` follows `JobManager::instance` (`Fork`, `TestPing`,
`TestPong`), a call (`Send`, `Retrieve`) and the end (`Kill`, `Wait`, `ShutDown`,
`Destroy`), with `i` the child a loop is at. `st` is where a child is: `forked`
(no handler yet), in the connection test, asking, polling, evaluating, closing (a
connection was seen to be closed and SIGTERM is waited for), escaped (an exception
left the test), or dead in one of six ways, of which `reaped` is the last.

A process sees a closed connection when the peer is dead and no other child still
holds a copy of its end (`Closed`), after it has read what was sent (`AtEnd`) or
when it writes. `sigterm` is the flag and the byte in the self-pipe: it wakes a poll
(`Stop`) and is an exception in a worker's test (`TestAborts`); the queue's is over
before the master can send it. The handler's 500 ms are taken to suffice while the master
is sending the signals (`Closing`).

### ValueCache

A value is the set of parameter values it was computed from, so a cache tells of
what it is the value. One thread evaluates: `stack` holds the calls of `getValV` in
progress, with the servers a call has still to read and what it has read. A function
clears its flag when the call begins (`Enter`: `RooAbsReal::getValV`), a density
(`Densities`) any flag when it has its value (`Leave`: `RooAbsPdf::getValV`), and a
density may be computed although no flag is set (`MayEvaluate`), because it was asked
for another normalization set or its integral is out of date: which, is not
modelled. The densities of an `Evaluator` are compiled for one normalization set and
asked without any, so the nodes of `Graph` are functions here. `Throw` unwinds all
calls. `Reached` is a propagation: to the clients, through
nodes that are open to it.

Tracking is off in three places. A `RooBinSamplingPdf` inhibits all flags while its
integrator moves the observable (`SampleNext`, `FinishSampling`). A minimization
makes all nodes of the likelihood and their clients ADirty (`GuardBegin`,
`GuardEnd`; `Guard` is what `ChangeOperModeRAII` remembers); a fit has set its
parameters dirty before (`Synchronized`), a contour has not and puts its parameters
back. `doEval` has the servers of one node AClean, and puts back what was
(`DoEval`, one step: nothing else happens meanwhile). While the minimizer runs only
nodes of `Graph` are asked for.

`unseen` and `aborted` are histories of what `CleanIsCurrent` does not speak of: the
parameters a contour or an exception left changed without a flag, and the functions
whose flag was cleared before an exception. A parameter leaves the first when the
program sets it or a fit synchronizes it, a function the second when a flag reaches it.

### Evaluator

`Order` is the list of nodes, servers before clients. A run starts with the flags
that a new offset mode or input raises (`Start`, `FlagsAtStart`) and visits the
nodes that have something to do (`NextNode`): a parameter whose counter has moved
(`ProcessVariable`), a dirty node (`Compute`), the likelihood (`Reduce`), each
making its clients dirty. A node that throws leaves its buffer unfinished
(`Torn`). A value is what it was computed of, and what the subtracted offset was
computed of. `hide` is `RooAbsReal::_hideOffset`, which `RooMinimizerFcn` switches
around each evaluation. `Evaluator` computes with any values of the parameters: in
a fit, those Minuit2 chooses.

### RooRealMPFE

Every client has a pipe to its server: `buffer` is what is not flushed, `pipe` what
the server has not read, `reply` the answer. A partition takes its offset with
the first value that is not 0 (`Zero`, `Offset`). The master sends each client what its
server lacks (`Calculate`, `IsChanged`: the first client compares, the others
follow its flags), then takes the answers in order, first telling a server whose
logging mode is not the program's (`SendMode`, `Receive`). Switches are written
without a flush (`EnableOffsetting`, `ApplyWeightSquared`). `server` is the state of
the server's copy of the statistic. `asked` and `silent` are histories: the
switches the program made, and whether one came after the last evaluation.

## 3. What is checked

| Run | Instance | What it shows |
|---|---|---|
| `protocol` | 2 workers, a likelihood of 2 tasks and a gradient of 1, 1 parameter of 2 values, 2 calls, priority queue, fair | the properties of `JobProtocol` |
| `likelihood_after_gradient` | 1 worker, 2 tasks each, 2 parameters, 2 calls | finding 4 |
| `channels` | 3 processes that send 2, 1 and no frames of 2 or 4 units, buffers of 3, fair | the properties of `Channel` |
| `likelihood_serial` | 2 workers, 2 event sections of 2 components, one subsidiary, 2 points, 3 evaluations, 3 settings | `LikelihoodOffsets` implements `LikelihoodSerial` in the legacy mode |
| `likelihood_reenabled` | the same, offsetting switched off as well | finding 1 |
| `minuit_gradient` | 2 workers, 4 points; a serial likelihood invalid at one of them, a parallel one that is, and one that is valid everywhere; any number of minimizations | the properties of `MinuitFcnGrad` |
| `life` | 2 workers, 2 jobs, 1 child that dies, fair | the properties of `JobManagerLife`; no deadlock |
| `caches` | 2 parameters, 3 densities, one of them a sampler, 2 functions, one of which may throw | the properties of `ValueCache` |
| `caches_throw` | the same | finding 3 |
| `evaluator` | 2 parameters, 2 data sets, a function, a likelihood and a sum | the properties of `Evaluator` |
| `evaluator_weights` | the same | finding 2 |
| `mpfe` | 2 servers, 1 parameter of 2 values, 2 switches that wait for a flush, fair | the properties of `RooRealMPFE` |

The properties of `JobProtocol`: `AskOnce` (one request under way), `OnlyThisCall`
(nothing of an earlier call is left in any channel or queue), `OneCopyPerTask`
(a queued task is in one place until the call returns, and the counter counts
what is missing), `StateArrives` (a worker that waits for a state has not been
overtaken by it), `NoReadOfNothing`, `ResultsOfThisPoint` (what is computed in a call
is of its point, but for the parameters another job has moved since a likelihood sent
them), `AsksForEver`, `ImplementsEvaluation` (which includes that every call returns);
`SameAsSerial` (without that exception), which fails.

The properties of `Channel`: `StreamsIntact` (a stream is the frames sent and not
received, whole), `ImplementsFIFO`, `NobodyStuck` (while a process waits for a frame
that was sent, it can read or return some of it, or its sender writes some as soon as
it waits, whomever for: `Channel.cxx:280`), `WaitsEnd` (whoever waits for a frame that
was sent gets it, with a poll as well as a receive, even if its sender waits for the
third process).

The properties of `LikelihoodOffsets`: `ImplementsSerial`; `OffsetsFollow` (a
worker that got all updates has the master's offsets).

The properties of `MinuitFcnGrad`: `OneFunctionOnMaster` (values Minuit2 compares
are of one function), `OneFunctionOnWorkers` (so are those a worker subtracts from
each other, unless the likelihood is parallel and the worker met invalid values only;
then they have one likelihood offset at least), `CentralValue` (a worker differentiates at Minuit2's point and holds
the value there), `GradientAtPoint` (a gradient Minuit2 gets is of the point it
asked for, once one was calculated).

The properties of `JobManagerLife`: `JobsKnown` (a child is only asked for jobs it
was forked with), `TestIsComplete` (when the master's test is over, so is everyone's
but for a pong that is under way), `NoFalseAlarm` (without a death no call fails and
no child ends with an error, though the queue is ended first), `CallsEnd` (calls and
shutdowns end, unless an exception left a child's connection test).

The properties of `ValueCache`: `CleanIsCurrent` (a clean cache is the value of the
present parameters, but for the cases in the observations), `ADirtyClosed` (no cache
above a node that is always recomputed), `GuardRestores` (after a minimization every
node has the mode from before); `CleanIsRefilled`, which fails.

The properties of `Evaluator`: `RunIsCurrent`, `OneOffsetPerFit`,
`FullValueForProgram` (the program sees no offset, between and after fits);
`WeightsFollow`, which fails.

The properties of `RooRealMPFE`: `SumIsCurrent` (all terms are of the present
parameters and kind of weights), `OffsetsTogether` (the offsets of the terms are of one
point, but for those of partitions that were worth nothing there, and of the weights in
use; without offsetting there are none), `ErrorsOfThisPoint`, `CallsEnd` (calls return; deleting the
statistic ends the servers).

### Bounds

*JobProtocol.* Two calls suffice for what a call can leave behind to meet the next
one, of the same or the other job, at the same or another point. Two tasks and two
workers give every split of the tasks, a worker that is idle during a call, and one
that meets two updates at once. A worker's state that is one update, or two
(gradient), behind is reached with two calls. A gradient has a task for each
parameter: with one parameter and two calls there are a likelihood that sends it and
one that does not, before or after a gradient that moved it. Updates that bring some
of several parameters are in the run of finding 4, and in the theorems.

*Channel.* Headers of two units and payloads of none or two are cut at every place.
A frame with a payload does not fit into a buffer of three, so both the master and
the queue wait with output that is left, for each other or for the worker, who never
sends: a process that waits for somebody else has to flush to a third.

*LikelihoodOffsets.* Three evaluations and three settings let offsets be
calculated, dropped and calculated again while updates of the first are still
unread. With two sections of a component there is a task that subtracts and one
that does not; the second component is subsidiary, which is what the mode is about.

*MinuitFcnGrad* needs no bound: its states are finite. Three points allow a line
search that passes the point of an earlier gradient; the fourth is the invalid one,
of a serial or a parallel likelihood, and a minimization may start there.

*JobManagerLife.* Two workers let one finish its test, or end, before the other. A
second job can come while the first has its processes, or after. One child that dies
meets every state of the others; channels never hold more than two messages.

*ValueCache* needs no bound: its states are finite. The graph has a density inside
a sampler, a parameter shared by the likelihood and nodes outside of it, a node
above both, which has a density above it, and a server that can be replaced by one
that is ADirty.

*Evaluator.* Finite as well. A parameter below the likelihood and one beside it, two
data sets, and one value of the likelihood that is zero, which is no offset.

*RooRealMPFE.* `MaxBuffered` bounds switches that wait for a flush: two reach a server
together, of one kind or both. With one parameter the second client already depends
on the first one's comparison; its partition is worth nothing at one of the values,
so that it takes its offset later than the first. `FitModes` has errors collected; counting them is the
same protocol with an empty list (see the observations).

### Fairness

`FairSpec` of `JobProtocol` assumes that the master, the queue process and each
worker take a step if they can: they are processes of an operating system. Nothing
is assumed about the caller, and none is needed about the channels, which are their
reader's steps. `Channel` assumes in addition that a process ends a message it has
begun and waits for input again, as the event loops and the calls of the master do.
`JobManagerLife` assumes the same of each process, of the master once it is in a call
or a shutdown, and of the queue for each worker's request by itself (`Dequeue`):
its poll returns all channels that are readable, and the loop handles them all.
Nothing is assumed about the program, nor about an exception that left a test.
`RooRealMPFE` assumes that the master goes on with a call and that servers read
their pipes. `LikelihoodOffsets`, `MinuitFcnGrad`, `ValueCache` and `Evaluator` are
checked for safety only: the last two run in one thread without waiting.

### Findings

1. *Offsets that are the same again are not sent.* Switched off, a worker clears
   its offsets (`LikelihoodJob.cxx:104`, `LikelihoodWrapper.cxx:97-99`); switched on
   again, offsets that equal `offsets_previous_` are not sent
   (`LikelihoodJob.cxx:167`), and `offsets()[0]` is read of an empty vector.
2. *Switching the weights does not reach the computation graph.*
   `RooNLLVarNew::applyWeightSquared` sets a member and no flag
   (`RooNLLVarNew.cxx:458`; `enableOffsetting`, line 461, likewise), so the next value
   at the same parameters is that of the weights before.
   `FitHelpers.cxx:209` switches between a fit and HESSE, which starts there.
3. *An evaluation that throws leaves its node clean.* `getValV` clears the flag
   before it evaluates (`RooAbsReal.cxx:306-307`). After an exception the next
   `getVal` of a function returns the old value, until a server changes. A density
   clears it afterwards (`RooAbsPdf.cxx:331`) and is recomputed.
4. *A gradient moves the parameters of the likelihood.* The tasks of a gradient set
   the `RooRealVar`s of their worker (`LikelihoodGradientJob.cxx:218-226`,
   `NumericalDerivator.cxx:91-143`), which `LikelihoodJob` holds too, and leave them
   where their last function call was. `LikelihoodJob` sends only what differs from
   its own last values (`LikelihoodJob.cxx:146-166`): a likelihood at the point of
   the one before the gradient is computed at a displaced point.

### Observations

Met while modelling, and not shown by a run of their own:

- `LikelihoodJob.cxx:189` publishes the offsetting flag without a state id, against
  the rule of `Job.cxx:57-58`: a task of the next evaluation may be evaluated with
  the old flag.
- A job without tasks (a likelihood of an empty data set) never returns from
  `JobManager::retrieve` (`JobManager.cxx:174-192`), which ends with a result.
- `setOffsettingMode` sets the mode of the `LikelihoodJob` only
  (`LikelihoodWrapper.cxx:102-111`, not virtual); the serial likelihood that calculates
  its offsets (`LikelihoodJob.cxx:194-200`) stays in the legacy mode, so that
  subsidiary components are not offset in the full mode, for which
  `LikelihoodWrapper.h:55-57` has it. `ImplementsSerial` says what happens instead.
- Each process counts evaluations and invalid values for itself
  (`RooAbsMinimizerFcn.cxx:277`): a worker of a parallel likelihood that has met
  invalid values only shifts the function by an offset of its own, although the value
  at the centre that it was sent has the master's. This is the exception in
  `OneFunctionOnWorkers`.
- `_minuitExternalX[ix]` is assigned before it is compared
  (`MinuitFcnGrad.cxx:235-239`), so new parameters never reset the clean flags: a
  second minimization whose first line search ends at the last gradient's point gets
  the gradient at its own start. `GradientAtPoint` speaks of what comes after the first
  gradient that is calculated.
- `_minuitInternalX` starts as zeros (`MinuitFcnGrad.cxx:97`): a first gradient at
  internal 0 is not passed on, and the workers read unwritten memory. The points of
  `minuit_gradient` do not have these coordinates.
- A worker that gets SIGTERM in its connection test throws out of
  `JobManager::instance` into the program's code (`JobManager.cxx:52-53`), which
  lines 212-215 say must not happen; and since the queue is ended first, a process
  may see a closed connection in a normal shutdown (against lines 103-105).
- After `terminate()`, which `JobManager.cxx:122` advises, the instance is still set
  and its processes are dead: calls throw until the last job is removed.
- `RooMinimizer::contour` moves parameters as a fit does, without the flags of
  `Synchronize`, and puts them back under ADirty: a clean cache outside the
  likelihood that was filled meanwhile is of the last point of the contour. In
  `CleanIsCurrent` such parameters are in `unseen`.
- An exception inside a `RooBinSamplingPdf` leaves its observable where the
  integrator was (`RooBinSamplingPdf.cxx:154-157`), with no flag set; one inside an
  evaluation of `RooMinimizerFcn` leaves the offset shown (`RooMinimizerFcn.cxx:177-179`).
- A server of `RooRealMPFE` learns of a new logging mode after the evaluation it is
  meant for (`RooRealMPFE.cxx:552`), and in counting mode sends a count without
  entries (lines 329-337), so an error can be missed; and `iter` never advances.
- A partition worth exactly 0 (an empty one, or with nothing observed and nothing
  expected) takes no offset then (`RooNLLVar.cxx:247`) and takes one at a later point:
  the offset is then the difference of values of two points. `OffsetsTogether` names
  the exception.
- A clean `RooRealMPFE` master keeps its value when offsets or weights are switched,
  and the one of a fit has the offsets subtracted.

## 4. What is proved

`JobProtocol`, for any number of workers, jobs, tasks, points and calls, from
`ConstantsAssumption` alone:

| Theorem | Property |
|---|---|
| `TypeCorrect` | `TypeOK` |
| `AsksOnce` | `AskOnce` |
| `ReadsWhatIsThere` | `NoReadOfNothing` |
| `NothingOfOtherCalls` | `OnlyThisCall` |
| `OneCopyOfEachTask` | `OneCopyPerTask` |
| `StatesArrive` | `StateArrives` |
| `ComputedAtThePoint` | `ResultsOfThisPoint` |
| `ImplementsCalls` | the safety part of `ParallelEvaluation` |

Each inductive invariant was first checked by TLC on the instance of
`protocol`. They are, in the order in which they use each other:

- `AskInv`: `AskOnce`, and a worker asks only when it has acknowledged and polls only
  when it has not.
- `PollInv`: what a worker's poll returned is still there, unless the worker took
  updates for a task, and then `skipSub` says so.
- `CallInv`: the places a task can be in (`Holders`: the master's channel, the queue,
  a worker, a worker's results, the master's results) hold disjoint sets of tasks,
  no place one task twice, and together all that were queued; and outside of a round only the master's results are not
  empty; and what they hold is of the call's job and state. That the round can end is
  a counting argument (`AllReceived`): as many different results as there are tasks
  are all of them, so no place holds any more. `OneCopyOfEachTask` follows: the copies
  of a task are those its one place holds (`IsAt`), and a worker's answer and the task
  it is at are never both there (`AskInv`).
- `ArrivalInv`: the last update of a job on its way to a worker brings the master's
  state, or the worker has it, or the publication has not reached the worker.
- `ContentInv`: whoever has, or is sent, the master's present state of a job has its
  flag, and a gradient's point as far as tasks use it. An update without a point is
  harmless because it ends a gradient, after which nobody uses the point.
- `SettledInv`: behind a job's present state, nothing of the job is to come.
- `ParamInv`: a parameter that no other job moved has, on every worker, the value that
  a likelihood sent last, or gets it from an update behind which no other brings one.
  With `SettledInv`, a worker that has the state a task names has those values.
- `MasterInv`: what is being published is of the point of the call, and counts as moved
  for all other likelihoods.
- `FinishInv`: an evaluation function that is past `retrieve()` has all results.

`ImplementsCalls` maps a step of `Retrieve` to `Take`, and the last step of a call to
`Return`; that calls return is checked by TLC (`ImplementsEvaluation`).

`Channel`, for any processes, buffer capacity, header and payload sizes, from
`ChannelAssumption` alone (`ChannelProofs`):

| Theorem | Property |
|---|---|
| `TypeCorrect` | `TypeOK` |
| `StreamsStayIntact` | `StreamsIntact` |
| `QueuesOfFrames` | `ImplementsFIFO` |
| `NobodyIsStuck` | `NobodyStuck` |

The invariant `Inv` is `TypeOK`, `StreamsIntact` and `ReadInv`: a process that has
read part of a frame waits for the rest of it, and has read nothing behind it. So
what a returned frame leaves of the stream is in the socket and in the sender's
output, and a poll does not miss a frame that is already with the reader.
Every step is one of three kinds (lemma `Steps`): it moves units within their streams
(`Still`), appends the units of one frame to one stream (`SentOn`), or takes those of
the first frame of one (`ReceivedFrom`). So `FramesInTransit` stays, gets a frame at
its end, or loses its head, which are the steps of `FrameFIFO`. The frames of a stream
and the units of frames are recursive functions; that each distributes over
concatenation is proved without induction principles: a function that satisfies the
recursion exists (it is written down for the concatenation), and two that satisfy it
agree, because there is no least place where they differ. `NobodyStuck` follows from
`Inv`: a frame in transit of which nothing is in the socket is not complete at the
reader, so some of it is in the sender's output, and the socket takes it.

`JobManagerLife`, for any number of workers, jobs and unexpected deaths:

- `ChildrenKnowTheirJobs`: `JobsKnown`. Its invariant `LifeInv`: while the children
  live, all registered jobs are among those they were forked with (a job is only
  added when there is no instance); a terminated instance has reaped children only,
  and without an instance nothing is left in the queue or its channels; and the queue
  enters its loop with nothing but tasks in the master's channel, because the master's
  pong is the last it reads in the connection test.
- `NobodyAlarmed`: `NoFalseAlarm`. `CalmInv`: without a death nobody has failed, and
  outside of a shutdown no child is dead or has a SIGTERM; in one, the children that
  were not signalled yet are alive and the others have their SIGTERM. The queue is
  signalled first, so a worker may find its connection closed before its own signal:
  it waits for it and does not fail.
- `TestCompletes`: `TestIsComplete`. `TestInv` follows each worker's test together
  with the two channels it shares with the queue (`Ring`: at every stage there is one
  message under way between the two, in a known direction), so a worker the queue no
  longer polls has sent its last pong; and the queue is in its loop only when it polls
  nobody in the test any more.
- `TypeCorrect`: `TypeOK`, which says that no channel holds two messages and the queue
  no two tasks. `TaskInv`: the one task of a call is in at most one of its places
  (`Places`: sent, queued, accepted, evaluated, result), and the master sends it only
  when it is in none or a connection is closed. A call that fails may leave its task
  behind; then some connection is closed, and the send of the next call throws before it
  queues anything.

`MinuitFcnGradProofs`, for any workers, points, starts and setups:

| Theorem | Property | Assumed in addition |
|---|---|---|
| `TypeCorrect` | `TypeOK` | - |
| `MasterComparesOneFunction` | `OneFunctionOnMaster` | - |
| `GradientIsAtPoint` | `GradientAtPoint` | - |
| `WorkersDifferentiateAtPoint` | `CentralValue` | no point has the coordinates `Origin` |
| `WorkersDifferentiateOneFunction` | `OneFunctionOnWorkers` | the same |

An observation above says what happens at `Origin`. The inductive
invariant has four parts, none of which follows from the properties:

- `MasterInv`: the offsets never change after the first evaluation, and every valid
  value Minuit2 knows carries those of now. `_funcOffset` only changes while there
  are no valid values to compare.
- `PointInv`: the job's point is that of the last gradient, whose value Minuit2
  knows. `TypeOK` needs it: what is stored as a gradient is of a point.
- `GradientInv`: once a gradient was calculated, Minuit2's state is at its point.
  That is why the flag that is never reset does no harm then: a line search ends
  somewhere else.
- `WorkerInv` and `FunctionInv`: a worker's cache is of the point it says, with the
  offsets of the master; it also has the master's `_funcOffset` (`Follows`), unless it
  has met only invalid values in this gradient (`wOnlyBad`), which no worker of a serial
  likelihood has, since they are forked after the first valid value. Each uses the
  parts before it.

`ValueCacheProofs`, for any expression graph. `ConstantsAssumption` is enough for

- `AlwaysRecomputedAbove`: `ADirtyClosed`.
- `ModesComeBack`: `GuardRestores`, also when an exception ends the minimization.

Both follow from `ModeInv`: the graph is closed (every client of an ADirty node is
ADirty), and in a minimization the modes are those before it but for the nodes whose
modes are saved, and those modes were closed too. `GuardRestores` needs the first
part: putting ADirty back after a `doEval` propagates, and only in a closed graph to
nobody. The lemmas on `Reached` are all that is used of a propagation; it is a least
fixed point written without recursion, so no induction is needed.

- `TypeCorrect`: `TypeOK`.
- `CleanCachesAreCurrent`: `CleanIsCurrent`, in any acyclic graph and for any sequence
  of settings, evaluations, samplings, exceptions, redirections, mode changes, fits
  and contours.

These two assume `GraphAssumption` in addition. There are no cycles, which
`setValueDirty` reports as an error (`RooAbsArg.cxx:802-812`), whatever is redirected.
The sampler has the two servers its constructor gives it, and a point at least. The
graph of the `Evaluator` is all below its top node, and its functions depend on
something: a function that depends on nothing gets no flag from `Synchronize`.

`CleanIsCurrent` speaks of the time between evaluations. Its invariant `Inv` has to
say what is true in the middle of one:

- `CacheInv`: a cache is of the parameters as they will be (`OuterVal`: with the
  sampler's observable put back) if it may be believed now or after the minimization
  (`Claim`, by the modes from before it), unless a call in progress has cleared its
  flag or it is below a sampler that has begun to move the observable (`Moved`).
- `OuterInv`: outside the sampler, a call of a node above nothing that is unseen or
  aborted (`Excluded`) has read what its servers are worth with these parameters,
  whether it is a function or a density, whose flag is still up.
- `InnerInv`: inside the sampler no flag is looked at, so all from the servers already
  read on down is of the parameters as they are at the moment.
- `SamplerInv`: how many points the sampler has been at, that the values there are in
  its value, and that the caches below it are of the last. That is why moving the
  observable back has to set flags, unless it ends where it was.
- `PathInv`: the calls are a path, so no node is twice among them and what a call does
  to a cache is not undone below it; `GuardInv`: what a contour puts back is unseen or
  unchanged.

`Below` is a recursive function; that it is the least set closed under servers
(`Deps`, `BelowIs`) is the induction over the graph this takes, by the least element
of the set of counterexamples.

`EvaluatorProofs`, for any computation graph, parameters, data sets and weights, whose
`Order` has servers before clients and whose likelihood has what it is computed from
before it (the assumption of `Evaluator`):

| Theorem | Property |
|---|---|
| `TypeCorrect` | `TypeOK` |
| `RunReturnsCurrent` | `RunIsCurrent` |
| `FitHasOneOffset` | `OneOffsetPerFit` |
| `ProgramSeesFullValue` | `FullValueForProgram` |

- `GraphInv`: a clean node was computed of what is in its servers' buffers now, the
  likelihood also of its weights, its offset and the mode; the buffers of the
  parameters are of the values their counters say; and while a run is at a node, those
  before it have nothing to do. At the end of a run no node has, and then what every
  node was computed of is current: otherwise take the first in the order for which it
  is not.
- `FitInv`: what a fit evaluates has the offset subtracted, and the offset of its first
  value is still the likelihood's.
- `HideInv`: a run that is not the fit's is without the offset exactly if it is not
  hidden, and only an exception leaves it shown.

`RooRealMPFEProofs`, from `ConstantsAssumption` alone: for any number of servers,
parameters and values, and any `Bad` points and `Zero` partitions:

| Theorem | Property |
|---|---|
| `TypeCorrect` | `TypeOK` |
| `SumsAreCurrent` | `SumIsCurrent` |
| `OffsetsStayTogether` | `OffsetsTogether` |
| `ErrorsAreOfThisPoint` | `ErrorsOfThisPoint` |

The properties hold when the program has its answers, while servers lag behind what
is written for them. The invariant `Inv` speaks of what a server *will* be when it has
read its pipe and what its client has not flushed (`Leads`, by the `Effect` of each
message). A step of a server leaves that future as it is (`LeadsOn`); a step of the
program changes it by what it writes; the loop over the parameters (`Sends`) leads to
the parameters of the program (`LeadsLoop`).

- `Future`: there are such futures `F`. `Own`: that of one server has the parameters
  its client saved and the switches the program made last, and after a question the
  value that its client waits for. `Together`: the offsets of the futures fit together (`Agree`),
  those of both kinds of weights, and in a round those that are asked already fit to
  what the others will come to (`Coming`); and all
  clients saved the same parameters, which is why the flags of the first client's
  comparison hold for the others.
- `PipeInv`: one question or one answer is under way between a client and its server,
  and behind a question there are only logging modes; and the errors that a server has
  not sent yet are of the calculation it has just done.
- `PartInv`: what the client side has received. The three properties are its conjuncts
  or follow from them.

*Offsets* (`LikelihoodOffsetsProofs`). `OffsetsFollow` speaks of workers whose channel
is empty; the invariant has to say what the updates in a channel lead to. `Follows`:
a worker has the offsets sent last and no update in its channel brings any, or the
last update that brings any brings those. `FollowInv` adds that offsets sent last are
those in use during an evaluation, that nothing was sent before the fork (whose
workers start with the master's offsets), and `NothingClears`: no flag on its way
switches offsetting off. The last is where the assumption `~DisableAfterFork` is
used, and finding 1 is what happens without it. The argument holds for offsets that
become obsolete and are calculated again at the same point, which are not sent again
because the workers still have them.

`GivesSerialValues` is the refinement of `LikelihoodSerial`, under the same
assumption. `SerialInv`: the results are those the serial likelihood gives for the
tasks that are done. A worker that has the state a task names has no state left on
its way, because states come in order (`StatesInv`), so it has the point of the
evaluation (`Tracks`) and the offsets (`FollowInv`). The flag has no state id; it is
there in time because offsets are sent after it (`FlagInv`). Steps of workers are
stutters, the master's sum is the serial evaluation, of
every component, in the legacy mode whatever mode is set.

Model-checked only:

- liveness (`AsksForEver`, `WaitsEnd`, both `CallsEnd`, and that calls return in
  `ImplementsEvaluation`), which the provers cannot do.

All other properties of the passing runs are theorems, some under an assumption that
is named above.

What a recursive definition computes for every input is out of reach where it takes
the induction theorems of the library, which have an operator as a parameter; the
inductions over a graph, an order or the messages in a pipe above are done with least elements instead.

## 5. Not modelled

*Of the modelled components.* A fork that fails, children that another part of the
program waits for, and lost servers of `RooRealMPFE` (a pipe that ends). The settings
of the `PriorityQueue` before the fork; the rotation in which the master takes
results; changes of the parameters' constant flags. The scheduling of
kernels on a GPU. Shape flags, the cache managers that depend on them, and which
normalisation set is the active one: that a density may be recomputed for another one
is modelled. Bin samplers inside bin samplers. Constant-term optimisation of the older
test statistics.

*Of the system.* Floating-point numerics, densities, integration, generation,
plotting, I/O, the factories (`histfactory`, `hs3`, `xroofit`), the statistics of
`roostats`, the vendored `clad` and `math/minuit2` (but for the order in which
MIGRAD calls), and the Python layer: most of the repository, and sequential
transformations of data, whose behaviour is in the numbers and not in the control.

Every safety property the runs check is proved. What could be stated next is what the
list at the end of section 3 describes, each under the condition in which it is
harmless.
