------------------------- MODULE LikelihoodOffsets -------------------------
(***************************************************************************)
(* The offsets of a LikelihoodJob.  The master calculates them; each       *)
(* worker has its own copy of them and of the flag that says whether to    *)
(* subtract them.  Parameters and offsets travel together, under a new     *)
(* state id, if one of them is not what was sent last; the flag travels    *)
(* alone, without a state id.                                              *)
(*                                                                         *)
(* The queue and the workers' loops are those of JobProtocol, of which     *)
(* this module keeps that a task is handed to one worker, that the worker  *)
(* waits for the task's state id, and that it may otherwise take a task    *)
(* before the updates that wait in its master's channel.                   *)
(***************************************************************************)
EXTENDS Integers, FiniteSets, SequencesExt

CONSTANTS
    Workers,            \* the worker processes
    NEventTasks,        \* getNEventTasks()
    NComponentTasks,    \* getNComponentTasks()
    Subsidiary,         \* the components that are RooSubsidiaryLs
    Points, InitPoint,  \* values of the parameters, and those at construction
    DisableAfterFork,   \* whether offsetting is switched off when workers exist
    MaxEvaluations,     \* bound: number of calls of evaluate()
    MaxSettings,        \* bound: number of calls that change the offsetting
    NoOffset, NoPoint, NotSent, Garbage

ASSUME OffsetsAssumption ==
    /\ NEventTasks \in Nat \ {0} /\ NComponentTasks \in Nat \ {0}
    /\ Subsidiary \subseteq 0 .. NComponentTasks - 1 /\ Subsidiary # 0 .. NComponentTasks - 1
    /\ InitPoint \in Points /\ DisableAfterFork \in BOOLEAN
    /\ MaxEvaluations \in Nat /\ MaxSettings \in Nat
    /\ {NoOffset, NoPoint, NotSent, Garbage} \cap Points = {}
    /\ Cardinality({NoOffset, NoPoint, NotSent, Garbage}) = 4

Tasks == 0 .. NEventTasks * NComponentTasks - 1
Components == 0 .. NComponentTasks - 1
Offsets == Points \cup {NoOffset}
Modes == {"legacy", "full"}

\* The two kinds of update_state_mode.
Update ==
    [mode : {"parameters"}, state : Nat, point : Points \cup {NoPoint}, offsets : Offsets \cup {NotSent}]
        \cup [mode : {"offsetting"}, flag : BOOLEAN]
\* A task's value: the point and the offset, if any, that it was computed with.
Result == [task : Tasks, point : Points, flag : BOOLEAN, offset : Offsets \cup {Garbage}]

VARIABLES
    doOffset,     \* do_offset_ on the master
    offsets,      \* shared_offset_ on the master
    mode,         \* offsetting_mode_ on the master
    previous,     \* offsets_previous_: the offsets last sent
    point,        \* the parameters' values on the master
    saved,        \* save_vars_: the values last sent
    stateId,      \* state_id_ on the master
    forked,       \* the workers exist
    todo,         \* tasks that are queued
    results,      \* results the workers computed in this evaluation
    evaluating,   \* within evaluate()
    value,        \* result_
    wDoOffset, wOffsets, wPoint, wState,   \* the same on the workers
    mw,           \* updates on their way
    evaluations, settings                  \* these only bound the model

masterVars == <<doOffset, offsets, mode, previous, point, saved, stateId, forked, evaluating, value>>
workerVars == <<wDoOffset, wOffsets, wPoint, wState>>
bounds == <<evaluations, settings>>
vars == <<masterVars, workerVars, todo, results, mw, bounds>>

TypeOK ==
    /\ doOffset \in BOOLEAN /\ forked \in BOOLEAN /\ evaluating \in BOOLEAN
    /\ offsets \in Offsets /\ previous \in Offsets /\ mode \in Modes
    /\ point \in Points /\ saved \in Points
    /\ stateId \in Nat
    /\ todo \subseteq Tasks /\ results \subseteq Result
    /\ wDoOffset \in [Workers -> BOOLEAN] /\ wOffsets \in [Workers -> Offsets]
    /\ wPoint \in [Workers -> Points] /\ wState \in [Workers -> Nat]
    /\ mw \in [Workers -> Seq(Update)]
    /\ evaluations \in 0 .. MaxEvaluations /\ settings \in 0 .. MaxSettings

\* What the components' values come from: the points they were computed at, the
\* offsets that were subtracted, and how often.
Sum(rs) ==
    [c \in Components |->
        LET ofComponent == {r \in rs : r.task \div NEventTasks = c}
            subtracting == {r \in ofComponent : r.offset # NoOffset}
        IN  [points |-> {r.point : r \in ofComponent}, offsets |-> {r.offset : r \in subtracting},
             subtractions |-> Cardinality(subtracting)]]

Init ==
    /\ doOffset = FALSE /\ offsets = NoOffset /\ mode = "legacy" /\ previous = NoOffset
    /\ point = InitPoint /\ saved = InitPoint /\ stateId = 0
    /\ forked = FALSE /\ evaluating = FALSE
    /\ todo = {} /\ results = {}
    /\ value = [c \in Components |-> [points |-> {InitPoint}, offsets |-> {}, subtractions |-> 0]]
    /\ wDoOffset = [w \in Workers |-> FALSE] /\ wOffsets = [w \in Workers |-> NoOffset]
    /\ wPoint = [w \in Workers |-> InitPoint] /\ wState = [w \in Workers |-> 0]
    /\ mw = [w \in Workers |-> <<>>]
    /\ evaluations = 0 /\ settings = 0

\* publish_from_master_to_workers: the master does nothing else until it has
\* sent to all, so that the message may as well reach them in one step.
Publish(update) == mw' = [w \in Workers |-> Append(mw[w], update)]

-----------------------------------------------------------------------------
(* The master *)

\* The caller, MinuitFcnGrad or a user, sets the parameters.
SetPoint(p) ==
    /\ ~evaluating
    /\ point' = p
    /\ UNCHANGED <<doOffset, offsets, mode, previous, saved, stateId, forked, evaluating, value>>
    /\ UNCHANGED <<workerVars, todo, results, mw, bounds>>

OffsetsEnabled(flag) == IF flag THEN offsets ELSE NoOffset

EnableOffsetting(flag) ==
    /\ ~evaluating /\ settings < MaxSettings
    /\ forked /\ ~flag => DisableAfterFork
    /\ settings' = settings + 1
    /\ doOffset' = flag
    /\ offsets' = OffsetsEnabled(flag)
    /\ IF forked THEN Publish([mode |-> "offsetting", flag |-> flag]) ELSE UNCHANGED mw
    /\ UNCHANGED <<mode, previous, point, saved, stateId, forked, evaluating, value>>
    /\ UNCHANGED <<workerVars, todo, results, evaluations>>

\* A new mode makes the offsets obsolete.  It stays in the LikelihoodJob: neither
\* the workers nor the serial likelihood that calculates the offsets are told it.
SetOffsettingMode(m) ==
    /\ ~evaluating /\ settings < MaxSettings
    /\ settings' = settings + 1
    /\ mode' = m
    /\ offsets' = IF doOffset THEN NoOffset ELSE offsets
    /\ UNCHANGED <<doOffset, previous, point, saved, stateId, forked, evaluating, value>>
    /\ UNCHANGED <<workerVars, todo, results, mw, evaluations>>

\* The first evaluation forks the workers, before anything else.
Fork ==
    IF forked THEN UNCHANGED <<wDoOffset, wOffsets, wPoint, wState>>
    ELSE /\ wDoOffset' = [w \in Workers |-> doOffset]
         /\ wOffsets' = [w \in Workers |-> offsets]
         /\ wPoint' = [w \in Workers |-> point]
         /\ wState' = [w \in Workers |-> stateId]

\* The offsets come from an evaluation of the serial likelihood on the master, in
\* which nobody changes the mode it was constructed with.
SerialMode == "legacy"
OffsetsToUse == IF doOffset /\ offsets = NoOffset THEN point ELSE offsets

SendOnlyFirstOffsets(new) == doOffset /\ new # previous /\ previous = NoOffset
SendOffsets(new) == doOffset /\ new # previous

\* updateWorkersParameters
UpdateWorkers(new) ==
    IF point # saved \/ SendOffsets(new)
    THEN /\ stateId' = stateId + 1
         /\ Publish([mode |-> "parameters", state |-> stateId + 1,
                     point |-> IF point # saved THEN point ELSE NoPoint,
                     offsets |-> IF SendOffsets(new) THEN new ELSE NotSent])
         /\ saved' = point
         /\ previous' = IF SendOffsets(new) THEN new ELSE previous
    ELSE UNCHANGED <<stateId, mw, saved, previous>>

\* evaluate(), up to the wait for the results.
StartEvaluate ==
    /\ ~evaluating /\ evaluations < MaxEvaluations
    /\ evaluations' = evaluations + 1
    /\ forked' = TRUE /\ Fork
    /\ offsets' = OffsetsToUse
    /\ UpdateWorkers(OffsetsToUse)
    /\ todo' = Tasks
    /\ evaluating' = TRUE
    /\ UNCHANGED <<doOffset, mode, point, value, results, settings>>

\* All results are there: they are added up.
FinishEvaluate ==
    /\ evaluating /\ Cardinality(results) = Cardinality(Tasks)
    /\ value' = Sum(results)
    /\ results' = {}
    /\ evaluating' = FALSE
    /\ UNCHANGED <<doOffset, offsets, mode, previous, point, saved, stateId, forked, workerVars, todo, mw, bounds>>

-----------------------------------------------------------------------------
(* A worker *)

\* A part that was not sent leaves what the worker has.
ReceivedAlways(part, none, old) == part
Received(part, none, old) == IF part = none THEN old ELSE part

\* update_state.  Switching the flag off clears the worker's offsets.
ReceiveUpdate(w) ==
    /\ mw[w] # <<>>
    /\ mw' = [mw EXCEPT ![w] = Tail(@)]
    /\ LET u == Head(mw[w])
       IN  \/ /\ u.mode = "parameters"
              /\ wState' = [wState EXCEPT ![w] = u.state]
              /\ wPoint' = [wPoint EXCEPT ![w] = Received(u.point, NoPoint, @)]
              /\ wOffsets' = [wOffsets EXCEPT ![w] = Received(u.offsets, NotSent, @)]
              /\ UNCHANGED wDoOffset
           \/ /\ u.mode = "offsetting"
              /\ wDoOffset' = [wDoOffset EXCEPT ![w] = u.flag]
              /\ wOffsets' = [wOffsets EXCEPT ![w] = IF u.flag THEN @ ELSE NoOffset]
              /\ UNCHANGED <<wState, wPoint>>
    /\ UNCHANGED <<masterVars, todo, results, bounds>>

\* "We only subtract at the end of event sections, otherwise the offset is
\* subtracted for each event split" (LikelihoodJob.cxx:294).
EverySection(task) == TRUE
LastSection(task) == task % NEventTasks = NEventTasks - 1

\* offsets()[i] of a worker that has none reads past the end of the vector; that of
\* a subsidiary component is zero unless calculated in the full mode.
OffsetOf(w, task) ==
    IF ~(wDoOffset[w] /\ LastSection(task)) THEN NoOffset
    ELSE IF wOffsets[w] = NoOffset THEN Garbage
    ELSE IF task \div NEventTasks \in Subsidiary /\ SerialMode # "full" THEN NoOffset
    ELSE wOffsets[w]

\* The task's state is the worker's: all tasks queued are of this evaluation.
InAnyState(w) == TRUE
InTaskState(w) == wState[w] = stateId

\* evaluate_task and send_back_task_result_from_worker
EvaluateTask(w, task) ==
    /\ task \in todo /\ InTaskState(w)
    /\ todo' = todo \ {task}
    /\ results' = results \cup
          {[task |-> task, point |-> wPoint[w], flag |-> wDoOffset[w], offset |-> OffsetOf(w, task)]}
    /\ UNCHANGED <<masterVars, workerVars, mw, bounds>>

-----------------------------------------------------------------------------

Next ==
    \/ \E p \in Points : SetPoint(p)
    \/ \E flag \in BOOLEAN : EnableOffsetting(flag)
    \/ \E m \in Modes : SetOffsettingMode(m)
    \/ StartEvaluate \/ FinishEvaluate
    \/ \E w \in Workers : ReceiveUpdate(w)
    \/ \E w \in Workers, task \in Tasks : EvaluateTask(w, task)

Spec == Init /\ [][Next]_vars

-----------------------------------------------------------------------------
(* Properties *)

\* The parallel likelihood gives the values of a serial one in the legacy mode,
\* whatever mode is set: every component at the caller's point, with the offsets
\* of the same earlier point subtracted once if offsetting is on and it is not
\* subsidiary, whatever was set, moved and evaluated before.
Serial == INSTANCE LikelihoodSerial WITH mode <- SerialMode
ImplementsSerial == Serial!Spec

\* "Clear offsets if feature is disabled so that it is recalculated next time it
\* is enabled" (LikelihoodWrapper.cxx:96) holds on the workers too: one that got
\* all updates has the offsets of the master, and reads no offset that is not
\* there, whenever tasks of a likelihood with offsets are evaluated.
OffsetsFollow ==
    evaluating /\ doOffset => \A w \in Workers : mw[w] = <<>> => wOffsets[w] = offsets
=============================================================================
