------------------------ MODULE JobManagerLifeProofs ------------------------
(***************************************************************************)
(* JobManagerLife, for any number of workers, jobs and unexpected deaths:  *)
(* a task never reaches a child that does not know its job (JobsKnown), a  *)
(* shutdown alarms nobody (NoFalseAlarm), and the connection test is over  *)
(* for everyone when the master starts a call (TestIsComplete); and there  *)
(* is never more than one message in a channel (TypeOK).                   *)
(***************************************************************************)
EXTENDS JobManagerLife, TLAPS

MQ == <<Master, Queue>>
QM == <<Queue, Master>>

FromQueue == {<<"ping">>, <<"pong">>, <<"rejected">>} \cup ({"accepted"} \X known)

Shapes ==
  /\ st \in [Children -> States]
  /\ DOMAIN chan = Channels
  /\ tasks \in Seq(known)
  /\ \A w \in Workers : chan[<<Queue, w>>] \in Seq(FromQueue)

(* What the place of the master says about the instance and its job.       *)
MasterInv ==
  /\ pc \in {"program", "fork", "testPing", "testPong", "send", "retrieve", "kill", "wait", "destroy"}
  /\ pc = "fork" => ~instance /\ i \in Children
  /\ initialized => instance
  /\ pc \in {"testPing", "testPong", "retrieve", "kill", "wait"} => initialized
  /\ pc \in {"send", "destroy"} => instance
  /\ pc = "destroy" => ~initialized
  /\ pc \in {"fork", "testPing", "testPong", "send"} => job \in jobs

(* The children know what is registered; a terminated instance has none.   *)
InstanceInv ==
  /\ initialized => jobs \subseteq known
  /\ instance /\ ~initialized => \A c \in Children : st[c] = "reaped"
  /\ ~instance =>
       /\ st[Queue] = "none" /\ tasks = <<>>
       /\ chan[MQ] = <<>> /\ chan[QM] = <<>>
       /\ \A w \in Workers : chan[<<Queue, w>>] = <<>>

(* The queue is in its event loop only when the master's pong is read, and *)
(* then finds nothing but tasks in the master's channel.                   *)
QueueInv ==
  /\ st[Queue] = "forked" => pc = "testPing" /\ chan[MQ] = <<>> /\ chan[QM] = <<>>
  /\ st[Queue] = "test" =>
       \/ /\ pc = "testPing" /\ Master \in registered
          /\ chan[MQ] = <<>> /\ chan[QM] = << <<"ping">> >>
       \/ /\ pc = "testPong" /\ chan[QM] = <<>>
          /\ \/ Master \in registered /\ chan[MQ] = << <<"pong">> >>
             \/ Master \notin registered /\ chan[MQ] = <<>>
  /\ st[Queue] = "poll" => pc # "testPing" /\ chan[MQ] \in Seq({"enqueue"} \X known)

LifeInv == Shapes /\ MasterInv /\ InstanceInv /\ QueueInv

-----------------------------------------------------------------------------
(* Lemmas *)

\* The processes and the channels between them are different from each other.
LEMMA Distinct ==
  /\ Master # Queue /\ Queue \in Children /\ Queue \notin Workers
  /\ \A w \in Workers : w # Master /\ w # Queue /\ w \in Children
  /\ \A c \in Children : c = Queue \/ c \in Workers
  /\ MQ \in Channels /\ QM \in Channels
  /\ \A w \in Workers :
       /\ <<Queue, w>> \in Channels /\ <<w, Queue>> \in Channels /\ <<w, Master>> \in Channels
<1>1. N \in Nat \ {0}
  BY ConstantsAssumption
<1>2. Master # Queue /\ Queue \in Children /\ Queue \notin Workers
  BY <1>1 DEF Master, Queue, Children, Workers
<1>3. \A w \in Workers : w # Master /\ w # Queue /\ w \in Children
  BY <1>1 DEF Master, Queue, Children, Workers
<1>4. \A c \in Children : c = Queue \/ c \in Workers
  BY <1>1 DEF Queue, Children, Workers
<1> QED BY <1>2, <1>3, <1>4, Zenon DEF MQ, QM, Channels

\* The first message of a sequence, and the rest, are of the sequence's set.
LEMMA HeadTail ==
  ASSUME NEW S, NEW s \in Seq(S), s # <<>>
  PROVE  Head(s) \in S /\ Tail(s) \in Seq(S)
OBVIOUS

\* A message of its set may be added to a sequence.
LEMMA Appended ==
  ASSUME NEW S, NEW s \in Seq(S), NEW e \in S
  PROVE  Append(s, e) \in Seq(S)
OBVIOUS

\* A step of one child, not one that starts the queue or leaves it in a loop,
\* that reads at most one message of the queue and writes none as the queue.
LEMMA ChildStep ==
  ASSUME LifeInv, UNCHANGED masterVars, UNCHANGED tasks, UNCHANGED registered,
         NEW c \in Children, NEW s \in States,
         st[c] \notin {"none", "reaped"},
         c = Queue => s \notin {"forked", "test", "poll"},
         st' = [st EXCEPT ![c] = s],
         DOMAIN chan' = Channels, chan'[MQ] = chan[MQ], chan'[QM] = chan[QM],
         \A w \in Workers :
            \/ chan'[<<Queue, w>>] = chan[<<Queue, w>>]
            \/ chan[<<Queue, w>>] # <<>> /\ chan'[<<Queue, w>>] = Tail(chan[<<Queue, w>>])
  PROVE  LifeInv'
<1> USE Distinct DEF LifeInv
<1>1. Shapes'
  <2>1. \A w \in Workers : chan'[<<Queue, w>>] \in Seq(FromQueue)
    <3> SUFFICES ASSUME NEW w \in Workers PROVE chan'[<<Queue, w>>] \in Seq(FromQueue)
      OBVIOUS
    <3>1. chan[<<Queue, w>>] \in Seq(FromQueue)
      BY DEF Shapes
    <3>2. chan[<<Queue, w>>] # <<>> => Tail(chan[<<Queue, w>>]) \in Seq(FromQueue)
      BY <3>1, HeadTail
    <3> QED BY <3>1, <3>2
  <2> QED BY <2>1 DEF Shapes, FromQueue, masterVars
<1>2. MasterInv'
  BY DEF MasterInv, masterVars
<1>3. InstanceInv'
  <2>1. ~(instance /\ ~initialized)
    BY DEF InstanceInv
  <2>2. ~instance => c # Queue
    BY DEF InstanceInv
  <2> QED BY <2>1, <2>2 DEF InstanceInv, masterVars, Shapes
<1>4. QueueInv'
  <2>1. CASE c = Queue
    BY <2>1 DEF QueueInv, Shapes
  <2>2. CASE c # Queue
    BY <2>2 DEF QueueInv, Shapes, masterVars
  <2> QED BY <2>1, <2>2
<1> QED BY <1>1, <1>2, <1>3, <1>4

\* Every step of a worker is such a step.
LEMMA WorkerSteps ==
  ASSUME LifeInv, NEW w \in Workers, WorkerStep(w)
  PROVE  LifeInv'
<1> USE Distinct
<1>1. DOMAIN chan = Channels /\ st \in [Children -> States]
  BY DEF LifeInv, Shapes
<1>2. \A v \in Workers : <<Queue, v>> # MQ /\ <<Queue, v>> # QM
  BY DEF MQ, QM
<1>3. ASSUME NEW s \in States, Moves(w, s), UNCHANGED chan, st[w] \notin {"none", "reaped"}
      PROVE  LifeInv'
  BY <1>1, <1>3, ChildStep DEF Moves, Goes
<1>4. ASSUME NEW s \in States, Moves(w, s), chan' = Received(Queue, w),
             chan[<<Queue, w>>] # <<>>, st[w] \notin {"none", "reaped"}
      PROVE  LifeInv'
  <2>1. /\ DOMAIN chan' = Channels
        /\ chan'[<<Queue, w>>] = Tail(chan[<<Queue, w>>])
        /\ \A ch \in Channels : ch # <<Queue, w>> => chan'[ch] = chan[ch]
    <3>1. <<Queue, w>> \in Channels
      OBVIOUS
    <3> QED BY <1>1, <1>4, <3>1 DEF Received
  <2>2. \A v \in Workers : v # w => chan'[<<Queue, v>>] = chan[<<Queue, v>>]
    BY <2>1
  <2>3. chan'[MQ] = chan[MQ] /\ chan'[QM] = chan[QM]
    BY <1>2, <2>1
  <2> QED BY <1>1, <1>4, <2>1, <2>2, <2>3, ChildStep DEF Moves, Goes
<1>5. ASSUME NEW s \in States, NEW msg, Moves(w, s), chan' = Answered(Queue, w, msg),
             chan[<<Queue, w>>] # <<>>, st[w] \notin {"none", "reaped"}
      PROVE  LifeInv'
  <2>1. /\ DOMAIN chan' = Channels
        /\ chan'[<<Queue, w>>] = Tail(chan[<<Queue, w>>])
        /\ \A ch \in Channels : ch # <<Queue, w>> /\ ch # <<w, Queue>> => chan'[ch] = chan[ch]
    <3>1. <<Queue, w>> \in Channels /\ <<w, Queue>> \in Channels /\ w # Queue
      OBVIOUS
    <3> QED BY <1>1, <1>5, <3>1 DEF Answered
  <2>2. \A v \in Workers : v # w => chan'[<<Queue, v>>] = chan[<<Queue, v>>]
    BY <2>1
  <2>3. <<w, Queue>> # MQ /\ <<w, Queue>> # QM
    BY DEF MQ, QM
  <2>4. chan'[MQ] = chan[MQ] /\ chan'[QM] = chan[QM]
    BY <1>2, <2>1, <2>3
  <2> QED BY <1>1, <1>5, <2>1, <2>2, <2>4, ChildStep DEF Moves, Goes
<1>6. ASSUME NEW s \in States, NEW p \in {Queue, Master}, NEW msg, Moves(w, s),
             chan' = [chan EXCEPT ![<<w, p>>] = Append(@, msg)],
             st[w] \notin {"none", "reaped"}
      PROVE  LifeInv'
  <2>1. DOMAIN chan' = Channels /\ \A ch \in Channels : ch # <<w, p>> => chan'[ch] = chan[ch]
    BY <1>1, <1>6
  <2>2. <<w, p>> # MQ /\ <<w, p>> # QM
    BY DEF MQ, QM
  <2>3. \A v \in Workers : chan'[<<Queue, v>>] = chan[<<Queue, v>>]
    BY <2>1
  <2>4. chan'[MQ] = chan[MQ] /\ chan'[QM] = chan[QM]
    BY <2>1, <2>2
  <2> QED BY <1>1, <1>6, <2>1, <2>3, <2>4, ChildStep DEF Moves, Goes
<1>7. CASE StartWorker(w)
  BY <1>3, <1>7 DEF StartWorker, States
<1>8. CASE WorkerPing(w)
  BY <1>5, <1>8 DEF WorkerPing, Has, States
<1>9. CASE WorkerPong(w)
  BY <1>4, <1>9 DEF WorkerPong, Has, States
<1>10. CASE TestAborts(w)
  BY <1>3, <1>10 DEF TestAborts, States
<1>11. CASE Ask(w)
  BY <1>6, <1>11 DEF Ask, States
<1>12. CASE Rejected(w)
  BY <1>4, <1>12 DEF Rejected, Has, States
<1>13. CASE Accepted(w)
  BY <1>4, <1>13 DEF Accepted, Has, States
<1>14. CASE Evaluate(w)
  BY <1>6, <1>14 DEF Evaluate, States
<1> QED BY <1>7, <1>8, <1>9, <1>10, <1>11, <1>12, <1>13, <1>14 DEF WorkerStep

\* A child that ends, however it does, starts nothing and takes no message.
LEMMA EndSteps ==
  ASSUME LifeInv, NEW c \in Children, EndStep(c) \/ Abort(c) \/ Crash(c)
  PROVE  LifeInv'
<1>1. DOMAIN chan = Channels /\ st \in [Children -> States]
  BY DEF LifeInv, Shapes
<1>2. ASSUME NEW s \in States \ {"forked", "test", "poll"}, Goes(c, s) \/ Crash(c),
             UNCHANGED <<registered, tasks, chan>>, st[c] \notin {"none", "reaped"},
             st' = [st EXCEPT ![c] = s]
      PROVE  LifeInv'
  BY <1>1, <1>2, ChildStep DEF Goes, Crash
<1>3. CASE Stop(c)
  BY <1>2, <1>3 DEF Stop, StopsAt, Moves, Goes, States, Dead
<1>4. CASE ConnectionClosed(c)
  <2>1. st[c] \notin {"none", "reaped"}
    BY <1>4 DEF ConnectionClosed, Testing
  <2>2. Noticed(c) \in States \ {"forked", "test", "poll"}
    BY DEF Noticed, States
  <2> QED BY <1>2, <1>4, <2>1, <2>2 DEF ConnectionClosed, Moves, Goes
<1>5. CASE Closing(c)
  <2>1. PICK s \in {"exit0", "exit1", "escaped"} : Moves(c, s)
    BY <1>5 DEF Closing
  <2> QED BY <1>2, <1>5, <2>1 DEF Closing, Moves, Goes, States, Dead
<1>6. CASE Abort(c)
  BY <1>2, <1>6 DEF Abort, Moves, Goes, States, Dead
<1>7. CASE Crash(c)
  BY <1>2, <1>7 DEF Crash, States, Dead
<1> QED BY <1>3, <1>4, <1>5, <1>6, <1>7 DEF EndStep

\* A step of a queue that is alive, which leaves the master where it is.
LEMMA LiveQueueStep ==
  ASSUME LifeInv, UNCHANGED masterVars, NEW s \in States,
         st[Queue] \notin {"none", "reaped"}, s # "reaped",
         st' = [st EXCEPT ![Queue] = s],
         DOMAIN chan' = Channels, tasks' \in Seq(known),
         \A w \in Workers : chan'[<<Queue, w>>] \in Seq(FromQueue),
         QueueInv'
  PROVE  LifeInv'
<1> USE Distinct DEF LifeInv
<1>1. Shapes'
  BY DEF Shapes, FromQueue, masterVars
<1>2. MasterInv'
  BY DEF MasterInv, masterVars
<1>3. InstanceInv'
  <2>1. instance /\ initialized
    BY DEF InstanceInv
  <2> QED BY <2>1 DEF InstanceInv, masterVars
<1> QED BY <1>1, <1>2, <1>3

\* The queue begins its test: a ping is in every channel of its own.
LEMMA StartQueueStep ==
  ASSUME LifeInv, StartQueue
  PROVE  LifeInv'
<1> USE Distinct DEF LifeInv
<1>1. DOMAIN chan = Channels /\ st \in [Children -> States] /\ tasks \in Seq(known)
  BY DEF Shapes
<1>2. st[Queue] = "forked" /\ pc = "testPing" /\ chan[MQ] = <<>> /\ chan[QM] = <<>>
  BY DEF StartQueue, QueueInv
<1>3. DOMAIN chan' = Channels
  BY DEF StartQueue
<1>4. chan'[MQ] = <<>>
  <2>1. MQ[1] # Queue
    BY DEF MQ
  <2> QED BY <1>2, <2>1 DEF StartQueue
<1>5. chan'[QM] = << <<"ping">> >>
  <2>1. QM[1] = Queue
    BY DEF QM
  <2>2. chan'[QM] = Append(<<>>, <<"ping">>)
    BY <1>2, <2>1 DEF StartQueue
  <2> QED BY <2>2
<1>6. ASSUME NEW w \in Workers PROVE chan'[<<Queue, w>>] \in Seq(FromQueue)
  <2>1. chan'[<<Queue, w>>] = Append(chan[<<Queue, w>>], <<"ping">>)
    BY DEF StartQueue
  <2>2. chan[<<Queue, w>>] \in Seq(FromQueue) /\ <<"ping">> \in FromQueue
    BY DEF Shapes, FromQueue
  <2> QED BY <2>1, <2>2
<1>7. Master \in registered' /\ pc' = "testPing" /\ st'[Queue] = "test"
  BY <1>1, <1>2 DEF StartQueue, Goes, masterVars
<1>8. QueueInv'
  BY <1>4, <1>5, <1>7 DEF QueueInv
<1> QED BY <1>1, <1>2, <1>3, <1>6, <1>8, LiveQueueStep DEF StartQueue, Goes, States

\* A pong that is read, be it the master's, a worker's or the last.
LEMMA QueueTestStep ==
  ASSUME LifeInv, NEW p \in {Master} \cup Workers, QueueTest(p)
  PROVE  LifeInv'
<1> USE Distinct DEF LifeInv
<1>1. DOMAIN chan = Channels /\ st \in [Children -> States] /\ tasks \in Seq(known)
  BY DEF Shapes
<1> DEFINE next == IF registered' = {} THEN "poll" ELSE "test"
           answered == IF p = Master THEN Received(p, Queue) ELSE Answered(p, Queue, <<"pong">>)
<1>2. /\ st[Queue] = "test" /\ p \in registered /\ Has(p, Queue, "pong")
      /\ registered' = registered \ {p}
      /\ chan' = IF registered' = {}
                THEN [answered EXCEPT ![QM] = Append(@, <<"pong">>)] ELSE answered
      /\ st' = [st EXCEPT ![Queue] = next]
      /\ UNCHANGED masterVars /\ UNCHANGED tasks
  BY Zenon DEF QueueTest, Unregistered, Goes, QM
<1>3. <<p, Queue>> \in Channels /\ <<Queue, p>> \in Channels
  BY DEF MQ, QM
<1>4. /\ DOMAIN answered = Channels
      /\ answered[<<p, Queue>>] = Tail(chan[<<p, Queue>>])
      /\ p # Master => answered[<<Queue, p>>] = Append(chan[<<Queue, p>>], <<"pong">>)
      /\ p = Master => answered[<<Queue, p>>] = chan[<<Queue, p>>]
      /\ \A ch \in Channels : ch # <<p, Queue>> /\ ch # <<Queue, p>> => answered[ch] = chan[ch]
  BY <1>1, <1>3 DEF Received, Answered
<1>5. DOMAIN chan' = Channels /\ \A ch \in Channels : ch # QM => chan'[ch] = answered[ch]
  BY <1>2, <1>4
<1>6. registered' # {} => chan'[QM] = answered[QM]
  BY <1>2
<1> HIDE DEF answered
<1>7. ASSUME NEW w \in Workers PROVE chan'[<<Queue, w>>] \in Seq(FromQueue)
  <2>1. <<Queue, w>> # QM /\ <<Queue, w>> # <<p, Queue>>
    BY DEF QM
  <2>2. chan'[<<Queue, w>>] \in {chan[<<Queue, w>>], Append(chan[<<Queue, w>>], <<"pong">>)}
    BY <1>4, <1>5, <2>1
  <2>3. chan[<<Queue, w>>] \in Seq(FromQueue) /\ <<"pong">> \in FromQueue
    BY DEF Shapes, FromQueue
  <2>4. Append(chan[<<Queue, w>>], <<"pong">>) \in Seq(FromQueue)
    BY <2>3, Appended
  <2> QED BY <2>2, <2>3, <2>4
<1>8. QueueInv'
  <2>1. MQ # QM /\ chan'[MQ] = answered[MQ]
    BY <1>5 DEF MQ, QM
  <2>2. st'[Queue] = next /\ pc' = pc /\ known' = known
    BY <1>1, <1>2 DEF masterVars
  <2>3. CASE p = Master
    <3>1. chan[MQ] # <<>>
      BY <1>2, <2>3 DEF Has, MQ
    <3>2. pc = "testPong" /\ chan[QM] = <<>> /\ chan[MQ] = << <<"pong">> >>
      BY <1>2, <3>1 DEF QueueInv
    <3>3. answered[MQ] = <<>> /\ answered[QM] = <<>>
      BY <1>4, <2>3, <3>2 DEF MQ, QM
    <3>4. Master \notin registered'
      BY <1>2, <2>3
    <3> QED BY <1>6, <2>1, <2>2, <3>2, <3>3, <3>4 DEF QueueInv
  <2>4. CASE p \in Workers
    <3>1. answered[MQ] = chan[MQ] /\ answered[QM] = chan[QM]
      BY <1>4, <2>4 DEF MQ, QM
    <3>2. Master \in registered <=> Master \in registered'
      BY <1>2, <2>4
    <3>3. CASE registered' = {}
      <4>1. pc = "testPong" /\ chan[MQ] = <<>>
        BY <1>2, <3>2, <3>3 DEF QueueInv
      <4>2. st'[Queue] = "poll" /\ pc' = "testPong" /\ chan'[MQ] = <<>>
        BY <2>1, <2>2, <3>1, <3>3, <4>1
      <4> QED BY <4>2 DEF QueueInv
    <3>4. CASE registered' # {}
      BY <1>2, <1>6, <2>1, <2>2, <3>1, <3>2, <3>4 DEF QueueInv
    <3> QED BY <3>3, <3>4
  <2> QED BY <2>3, <2>4
<1> QED BY <1>1, <1>2, <1>5, <1>7, <1>8, LiveQueueStep DEF States

\* In the loop the master's channel holds tasks of known jobs only.
LEMMA EnqueueStep ==
  ASSUME LifeInv, Enqueue
  PROVE  LifeInv'
<1> USE Distinct DEF LifeInv
<1>1. DOMAIN chan = Channels /\ st \in [Children -> States] /\ tasks \in Seq(known)
  BY DEF Shapes
<1>2. st[Queue] = "poll" /\ chan[MQ] # <<>>
  BY DEF Enqueue, MQ
<1>3. pc # "testPing" /\ chan[MQ] \in Seq({"enqueue"} \X known)
  BY <1>2 DEF QueueInv
<1>4. Head(chan[MQ]) \in {"enqueue"} \X known /\ Tail(chan[MQ]) \in Seq({"enqueue"} \X known)
  BY <1>2, <1>3, HeadTail
<1>5. tasks' \in Seq(known)
  BY <1>1, <1>4 DEF Enqueue, MQ
<1>6. /\ DOMAIN chan' = Channels
      /\ chan'[MQ] = Tail(chan[MQ])
      /\ \A ch \in Channels : ch # MQ => chan'[ch] = chan[ch]
  BY <1>1 DEF Enqueue, Received, MQ
<1>7. ASSUME NEW w \in Workers PROVE chan'[<<Queue, w>>] \in Seq(FromQueue)
  <2>1. <<Queue, w>> # MQ
    BY DEF MQ
  <2> QED BY <1>6, <2>1 DEF Shapes
<1>8. st'[Queue] = "poll" /\ pc' = pc /\ known' = known
  BY <1>1 DEF Enqueue, Goes, masterVars
<1>9. QueueInv'
  BY <1>3, <1>4, <1>6, <1>8 DEF QueueInv
<1> QED BY <1>1, <1>2, <1>5, <1>6, <1>7, <1>9, LiveQueueStep DEF Enqueue, Goes, States

\* An answer hands out a task of the queue, whose job is known.
LEMMA DequeueStep ==
  ASSUME LifeInv, NEW w \in Workers, Dequeue(w)
  PROVE  LifeInv'
<1> USE Distinct DEF LifeInv
<1>1. DOMAIN chan = Channels /\ st \in [Children -> States] /\ tasks \in Seq(known)
  BY DEF Shapes
<1> DEFINE answer == IF NoTask THEN <<"rejected">> ELSE <<"accepted", Head(tasks)>>
<1>2. /\ st[Queue] = "poll" /\ chan' = Answered(w, Queue, answer) /\ tasks' = TasksLeft
      /\ st' = [st EXCEPT ![Queue] = "poll"]
      /\ UNCHANGED masterVars
  BY DEF Dequeue, Goes
<1>3. answer \in FromQueue /\ tasks' \in Seq(known)
  <2>1. CASE NoTask
    BY <1>1, <1>2, <2>1 DEF FromQueue, TasksLeft
  <2>2. CASE ~NoTask
    <3>1. Head(tasks) \in known /\ Tail(tasks) \in Seq(known)
      BY <1>1, <2>2, HeadTail DEF NoTask
    <3> QED BY <1>2, <2>2, <3>1 DEF FromQueue, TasksLeft
  <2> QED BY <2>1, <2>2
<1> HIDE DEF answer
<1>4. /\ DOMAIN chan' = Channels
      /\ chan'[<<Queue, w>>] = Append(chan[<<Queue, w>>], answer)
      /\ \A ch \in Channels : ch # <<w, Queue>> /\ ch # <<Queue, w>> => chan'[ch] = chan[ch]
  <2>1. <<Queue, w>> \in Channels /\ <<w, Queue>> \in Channels /\ w # Queue
    OBVIOUS
  <2> QED BY <1>1, <1>2, <2>1 DEF Answered
<1>5. ASSUME NEW v \in Workers PROVE chan'[<<Queue, v>>] \in Seq(FromQueue)
  <2>1. chan'[<<Queue, v>>] \in {chan[<<Queue, v>>], Append(chan[<<Queue, v>>], answer)}
    BY <1>4
  <2>2. chan[<<Queue, v>>] \in Seq(FromQueue)
    BY DEF Shapes
  <2>3. Append(chan[<<Queue, v>>], answer) \in Seq(FromQueue)
    BY <1>3, <2>2, Appended
  <2> QED BY <2>1, <2>2, <2>3
<1>6. chan'[MQ] = chan[MQ]
  <2>1. MQ # <<w, Queue>> /\ MQ # <<Queue, w>>
    BY DEF MQ
  <2> QED BY <1>4, <2>1
<1>7. st'[Queue] = "poll" /\ pc' = pc /\ known' = known
  BY <1>1, <1>2 DEF masterVars
<1>8. QueueInv'
  BY <1>2, <1>6, <1>7 DEF QueueInv
<1> QED BY <1>1, <1>2, <1>3, <1>4, <1>5, <1>8, LiveQueueStep DEF States

\* A step of the master that touches no child and no channel. What is left to
\* show is about the master's place.
LEMMA MasterStep ==
  ASSUME LifeInv, UNCHANGED <<st, registered, tasks, chan, known>>,
         MasterInv', InstanceInv',
         st[Queue] \in {"forked", "test"} => pc' = pc,
         st[Queue] = "poll" => pc' # "testPing"
  PROVE  LifeInv'
<1>1. Shapes'
  BY DEF LifeInv, Shapes, FromQueue
<1>2. QueueInv'
  BY DEF LifeInv, QueueInv
<1> QED BY <1>1, <1>2 DEF LifeInv

\* The queue is not in its test, or on its way to it, when the program acts.
LEMMA ProgramSteps ==
  ASSUME LifeInv,
         \/ \E j \in Jobs : AddJob(j) \/ RemoveJob(j) \/ Call(j)
         \/ Terminate \/ Fail \/ ShutDown
  PROVE  LifeInv'
<1>1. MasterInv /\ InstanceInv /\ QueueInv
  BY DEF LifeInv
<1>2. CASE \E j \in Jobs : AddJob(j)
  <2>1. PICK j \in Jobs : AddJob(j)
    BY <1>2
  <2>2. MasterInv'
    BY <1>1, <2>1 DEF AddJob, MasterInv
  <2>3. InstanceInv'
    BY <1>1, <2>1 DEF AddJob, MayAdd, MasterInv, InstanceInv, childVars
  <2> QED BY <1>1, <2>1, <2>2, <2>3, MasterStep DEF AddJob, childVars, QueueInv
<1>3. CASE \E j \in Jobs : RemoveJob(j)
  <2>1. PICK j \in Jobs : RemoveJob(j)
    BY <1>3
  <2>2. MasterInv'
    <3>1. CASE jobs' = {} /\ instance
      BY <1>1, <2>1, <3>1 DEF RemoveJob, MasterInv
    <3>2. CASE ~(jobs' = {} /\ instance)
      BY <1>1, <2>1, <3>2 DEF RemoveJob, MasterInv
    <3> QED BY <3>1, <3>2
  <2>3. InstanceInv'
    BY <1>1, <2>1 DEF RemoveJob, MasterInv, InstanceInv, childVars
  <2> QED BY <1>1, <2>1, <2>2, <2>3, MasterStep DEF RemoveJob, childVars, QueueInv
<1>4. CASE \E j \in Jobs : Call(j)
  <2>1. PICK j \in Jobs : Call(j)
    BY <1>4
  <2>2. MasterInv'
    <3>1. 1 \in Children
      BY ConstantsAssumption DEF Children
    <3> QED BY <1>1, <2>1, <3>1 DEF Call, MasterInv
  <2>3. InstanceInv'
    BY <1>1, <2>1 DEF Call, InstanceInv, childVars
  <2> QED BY <1>1, <2>1, <2>2, <2>3, MasterStep DEF Call, childVars, QueueInv
<1>5. CASE Terminate
  <2>1. MasterInv'
    BY <1>1, <1>5 DEF Terminate, MasterInv
  <2>2. InstanceInv'
    BY <1>1, <1>5 DEF Terminate, InstanceInv, childVars
  <2> QED BY <1>1, <1>5, <2>1, <2>2, MasterStep DEF Terminate, childVars, QueueInv
<1>6. CASE Fail
  <2>1. MasterInv'
    BY <1>1, <1>6 DEF Fail, MasterInv
  <2>2. InstanceInv'
    BY <1>1, <1>6 DEF Fail, InstanceInv, childVars
  <2>3. st[Queue] \notin {"forked", "test"}
    <3>1. CASE pc \in {"testPing", "testPong"}
      BY <1>6, <3>1 DEF Fail, AtEnd, Closed, Dead
    <3>2. CASE pc \notin {"testPing", "testPong"}
      BY <1>1, <3>2 DEF QueueInv
    <3> QED BY <3>1, <3>2
  <2> QED BY <1>6, <2>1, <2>2, <2>3, MasterStep DEF Fail, childVars
<1>7. CASE ShutDown
  <2>1. MasterInv'
    BY <1>1, <1>7 DEF ShutDown, MasterInv
  <2>2. InstanceInv'
    BY <1>1, <1>7 DEF ShutDown, MasterInv, InstanceInv, childVars
  <2> QED BY <1>1, <1>7, <2>1, <2>2, MasterStep DEF ShutDown, childVars, QueueInv
<1> QED BY <1>2, <1>3, <1>4, <1>5, <1>6, <1>7

\* The last child that is forked makes the instance; before, nothing is sent.
LEMMA ForkStep ==
  ASSUME LifeInv, Fork
  PROVE  LifeInv'
<1> USE Distinct DEF LifeInv
<1>1. /\ DOMAIN chan = Channels /\ st \in [Children -> States]
      /\ i \in Children /\ ~instance /\ job \in jobs /\ pc = "fork"
      /\ st[Queue] = "none" /\ tasks = <<>> /\ chan[MQ] = <<>> /\ chan[QM] = <<>>
      /\ \A w \in Workers : chan[<<Queue, w>>] = <<>>
  BY DEF Fork, Shapes, MasterInv, InstanceInv
<1>2. /\ st' = [st EXCEPT ![i] = "forked"] /\ known' = jobs /\ i' = i + 1
      /\ pc' = IF i = Queue THEN "testPing" ELSE pc
      /\ instance' = (i = Queue) /\ initialized' = (i = Queue)
      /\ UNCHANGED <<jobs, job, registered, tasks, chan>>
  BY DEF Fork
<1>3. Shapes'
  <2>1. tasks' = <<>> /\ \A w \in Workers : chan'[<<Queue, w>>] = <<>>
    BY <1>1, <1>2
  <2>2. tasks' \in Seq(known') /\ \A w \in Workers : chan'[<<Queue, w>>] \in Seq(FromQueue')
    <3>1. \A S : <<>> \in Seq(S)
      OBVIOUS
    <3> QED BY <2>1, <3>1
  <2>3. st' \in [Children -> States] /\ DOMAIN chan' = Channels
    BY <1>1, <1>2 DEF States
  <2> QED BY <2>2, <2>3 DEF Shapes
<1>4. CASE i = Queue
  <2>1. pc' = "testPing" /\ instance' = TRUE /\ initialized' = TRUE /\ st'[Queue] = "forked"
    BY <1>1, <1>2, <1>4
  <2>2. MasterInv'
    BY <1>1, <1>2, <2>1 DEF MasterInv
  <2>3. InstanceInv'
    BY <1>2, <2>1 DEF InstanceInv
  <2>4. QueueInv'
    BY <1>1, <1>2, <2>1 DEF QueueInv
  <2> QED BY <1>3, <2>2, <2>3, <2>4
<1>5. CASE i # Queue
  <2>1. pc' = "fork" /\ instance' = FALSE /\ initialized' = FALSE /\ st'[Queue] = "none"
    BY <1>1, <1>2, <1>5
  <2>2. i' \in Children
    BY <1>1, <1>2, <1>5, ConstantsAssumption DEF Children, Queue
  <2>3. MasterInv'
    BY <1>1, <1>2, <2>1, <2>2 DEF MasterInv
  <2>4. InstanceInv'
    BY <1>1, <1>2, <2>1 DEF InstanceInv
  <2>5. QueueInv'
    BY <2>1 DEF QueueInv
  <2> QED BY <1>3, <2>3, <2>4, <2>5
<1> QED BY <1>4, <1>5

\* A step of the master in an instance that is alive, which writes to the
\* queue at most and reads its own channels.
LEMMA CallStep ==
  ASSUME LifeInv, UNCHANGED <<jobs, instance, initialized, known, job, childVars>>,
         initialized, pc' \in {"testPong", "send", "retrieve", "program"},
         pc' \in {"testPong", "send"} => job \in jobs,
         DOMAIN chan' = Channels,
         \A w \in Workers : chan'[<<Queue, w>>] = chan[<<Queue, w>>],
         QueueInv'
  PROVE  LifeInv'
<1>1. Shapes'
  BY DEF LifeInv, Shapes, FromQueue, childVars
<1>2. MasterInv'
  BY DEF LifeInv, MasterInv
<1>3. InstanceInv'
  <2>1. instance
    BY DEF LifeInv, MasterInv
  <2> QED BY <2>1 DEF LifeInv, InstanceInv, childVars
<1> QED BY <1>1, <1>2, <1>3 DEF LifeInv

\* The master answers the queue's ping.
LEMMA TestPingStep ==
  ASSUME LifeInv, TestPing
  PROVE  LifeInv'
<1> USE Distinct DEF LifeInv
<1>1. /\ pc = "testPing" /\ chan[QM] # <<>> /\ pc' = "testPong"
      /\ chan' = Answered(Queue, Master, <<"pong">>)
      /\ UNCHANGED <<jobs, instance, initialized, known, job, childVars>>
  BY DEF TestPing, Has, QM
<1>2. DOMAIN chan = Channels /\ initialized /\ job \in jobs
  BY <1>1 DEF Shapes, MasterInv
<1>3. /\ DOMAIN chan' = Channels
      /\ chan'[QM] = Tail(chan[QM]) /\ chan'[MQ] = Append(chan[MQ], <<"pong">>)
      /\ \A ch \in Channels : ch # QM /\ ch # MQ => chan'[ch] = chan[ch]
  BY <1>1, <1>2 DEF Answered, QM, MQ
<1>4. \A w \in Workers : chan'[<<Queue, w>>] = chan[<<Queue, w>>]
  <2>1. \A w \in Workers : <<Queue, w>> # QM /\ <<Queue, w>> # MQ
    BY DEF QM, MQ
  <2> QED BY <1>3, <2>1
<1>5. QueueInv'
  <2>1. st'[Queue] = st[Queue] /\ registered' = registered
    BY <1>1 DEF childVars
  <2>2. st[Queue] \notin {"forked", "poll"}
    BY <1>1 DEF QueueInv
  <2>3. CASE st[Queue] = "test"
    <3>1. Master \in registered /\ chan[MQ] = <<>> /\ chan[QM] = << <<"ping">> >>
      BY <1>1, <2>3 DEF QueueInv
    <3>2. chan'[QM] = <<>> /\ chan'[MQ] = << <<"pong">> >>
      BY <1>3, <3>1
    <3> QED BY <1>1, <2>1, <2>3, <3>1, <3>2 DEF QueueInv
  <2> QED BY <2>1, <2>2, <2>3 DEF QueueInv
<1> QED BY <1>1, <1>2, <1>3, <1>4, <1>5, CallStep

\* The last pong: the queue is out of its test.
LEMMA TestPongStep ==
  ASSUME LifeInv, TestPong
  PROVE  LifeInv'
<1> USE Distinct DEF LifeInv
<1>1. /\ pc = "testPong" /\ chan[QM] # <<>> /\ pc' = "send"
      /\ chan' = Received(Queue, Master)
      /\ UNCHANGED <<jobs, instance, initialized, known, job, childVars>>
  BY DEF TestPong, Has, QM
<1>2. DOMAIN chan = Channels /\ initialized /\ job \in jobs
  BY <1>1 DEF Shapes, MasterInv
<1>3. DOMAIN chan' = Channels /\ \A ch \in Channels : ch # QM => chan'[ch] = chan[ch]
  BY <1>1, <1>2 DEF Received, QM
<1>4. chan'[MQ] = chan[MQ] /\ \A w \in Workers : chan'[<<Queue, w>>] = chan[<<Queue, w>>]
  <2>1. MQ # QM /\ \A w \in Workers : <<Queue, w>> # QM
    BY DEF QM, MQ
  <2> QED BY <1>3, <2>1
<1>5. QueueInv'
  <2>1. st'[Queue] = st[Queue] /\ st[Queue] \notin {"forked", "test"}
    BY <1>1 DEF childVars, QueueInv
  <2> QED BY <1>1, <1>4, <2>1 DEF QueueInv
<1> QED BY <1>1, <1>2, <1>3, <1>4, <1>5, CallStep

\* A call gets this far only in an instance that knows its job.
LEMMA SendStep ==
  ASSUME LifeInv, Send
  PROVE  LifeInv'
<1> USE Distinct DEF LifeInv
<1>1. /\ pc = "send" /\ pc' = "retrieve" /\ ~Closed(Queue)
      /\ chan' = [chan EXCEPT ![MQ] = Append(@, <<"enqueue", job>>)]
      /\ UNCHANGED <<jobs, instance, initialized, known, job, childVars>>
  BY DEF Send, MQ
<1>2. DOMAIN chan = Channels /\ instance /\ job \in jobs
  BY <1>1 DEF Shapes, MasterInv
<1>3. initialized
  BY <1>1, <1>2 DEF InstanceInv, Closed, Dead
<1>4. job \in known
  BY <1>2, <1>3 DEF InstanceInv
<1>5. /\ DOMAIN chan' = Channels /\ chan'[MQ] = Append(chan[MQ], <<"enqueue", job>>)
      /\ \A ch \in Channels : ch # MQ => chan'[ch] = chan[ch]
  BY <1>1, <1>2
<1>6. \A w \in Workers : chan'[<<Queue, w>>] = chan[<<Queue, w>>]
  <2>1. \A w \in Workers : <<Queue, w>> # MQ
    BY DEF MQ
  <2> QED BY <1>5, <2>1
<1>7. QueueInv'
  <2>1. st'[Queue] = st[Queue] /\ st[Queue] \notin {"forked", "test"} /\ known' = known
    BY <1>1 DEF childVars, QueueInv
  <2>2. CASE st[Queue] = "poll"
    <3>1. chan[MQ] \in Seq({"enqueue"} \X known) /\ <<"enqueue", job>> \in {"enqueue"} \X known
      BY <1>4, <2>2 DEF QueueInv
    <3>2. chan'[MQ] \in Seq({"enqueue"} \X known)
      BY <1>5, <3>1, Appended
    <3> QED BY <1>1, <2>1, <3>2 DEF QueueInv
  <2> QED BY <2>1, <2>2 DEF QueueInv
<1> QED BY <1>1, <1>2, <1>3, <1>5, <1>6, <1>7, CallStep

\* A result is taken from a worker; the queue is not concerned.
LEMMA RetrieveStep ==
  ASSUME LifeInv, NEW w \in Workers, Retrieve(w)
  PROVE  LifeInv'
<1> USE Distinct DEF LifeInv
<1>1. /\ pc = "retrieve" /\ pc' = "program" /\ chan' = Received(w, Master)
      /\ UNCHANGED <<jobs, instance, initialized, known, job, childVars>>
  BY DEF Retrieve
<1>2. DOMAIN chan = Channels /\ initialized
  BY <1>1 DEF Shapes, MasterInv
<1>3. DOMAIN chan' = Channels /\ \A ch \in Channels : ch # <<w, Master>> => chan'[ch] = chan[ch]
  BY <1>1, <1>2 DEF Received
<1>4. chan'[MQ] = chan[MQ] /\ \A v \in Workers : chan'[<<Queue, v>>] = chan[<<Queue, v>>]
  <2>1. MQ # <<w, Master>> /\ \A v \in Workers : <<Queue, v>> # <<w, Master>>
    BY DEF MQ
  <2> QED BY <1>3, <2>1
<1>5. QueueInv'
  <2>1. st'[Queue] = st[Queue] /\ st[Queue] \notin {"forked", "test"}
    BY <1>1 DEF childVars, QueueInv
  <2> QED BY <1>1, <1>4, <2>1 DEF QueueInv
<1> QED BY <1>1, <1>2, <1>3, <1>4, <1>5, CallStep

\* While it shuts its children down the master leaves the queue in no test.
LEMMA ShutdownSteps ==
  ASSUME LifeInv, Kill \/ Wait \/ Destroy
  PROVE  LifeInv'
<1> USE DEF LifeInv
<1>1. CASE Kill \/ Wait
  <2>1. /\ pc \in {"kill", "wait"} /\ pc' \in {"kill", "wait"} /\ initialized
        /\ UNCHANGED <<jobs, instance, initialized, known, tasks, chan>>
    BY <1>1 DEF Kill, Wait, MasterInv, masterVars
  <2>2. /\ st' \in [Children -> States]
        /\ st'[Queue] = st[Queue] \/ st'[Queue] \in {"killed", "reaped"}
    BY <1>1, Distinct DEF Kill, Wait, Shapes, States, Dead
  <2>3. instance /\ st[Queue] \notin {"forked", "test"}
    BY <2>1 DEF MasterInv, QueueInv
  <2>4. Shapes'
    BY <2>1, <2>2 DEF Shapes, FromQueue
  <2>5. MasterInv'
    BY <2>1, <2>3 DEF MasterInv
  <2>6. InstanceInv'
    BY <2>1, <2>3 DEF InstanceInv
  <2>7. QueueInv'
    BY <2>1, <2>2, <2>3 DEF QueueInv
  <2> QED BY <2>4, <2>5, <2>6, <2>7
<1>2. CASE Destroy
  <2>1. /\ pc = "destroy" /\ pc' = "program" /\ instance' = FALSE /\ known' = {}
        /\ st' = [c \in Children |-> "none"] /\ tasks' = <<>>
        /\ chan' = [ch \in Channels |-> <<>>]
        /\ initialized' = initialized /\ ~initialized
    BY <1>2 DEF Destroy, MasterInv
  <2>2. Shapes'
    <3>1. \A S : <<>> \in Seq(S)
      OBVIOUS
    <3>2. \A w \in Workers : chan'[<<Queue, w>>] = <<>>
      BY <2>1, Distinct
    <3> QED BY <2>1, <3>1, <3>2 DEF Shapes, States
  <2>3. MasterInv'
    BY <2>1 DEF MasterInv
  <2>4. InstanceInv'
    BY <2>1, Distinct DEF InstanceInv
  <2>5. QueueInv'
    BY <2>1, Distinct DEF QueueInv
  <2> QED BY <2>2, <2>3, <2>4, <2>5
<1> QED BY <1>1, <1>2

-----------------------------------------------------------------------------
(* The theorem *)

\* No instance, no children.
LEMMA InitLifeInv == Init => LifeInv
<1> SUFFICES ASSUME Init PROVE LifeInv
  OBVIOUS
<1>1. \A S : <<>> \in Seq(S)
  OBVIOUS
<1>2. Shapes
  <2>1. \A w \in Workers : chan[<<Queue, w>>] = <<>>
    BY Distinct DEF Init
  <2> QED BY <1>1, <2>1 DEF Init, Shapes, States
<1>3. MasterInv
  BY DEF Init, MasterInv
<1>4. InstanceInv
  BY Distinct DEF Init, InstanceInv
<1>5. QueueInv
  BY Distinct DEF Init, QueueInv
<1> QED BY <1>2, <1>3, <1>4, <1>5 DEF LifeInv

\* Every step keeps the invariant.
LEMMA NextLifeInv ==
  ASSUME LifeInv, [Next]_vars
  PROVE  LifeInv'
<1>1. CASE UNCHANGED vars
  <2>1. UNCHANGED <<jobs, instance, initialized, known, pc, i, job, st, registered, tasks, chan>>
    BY <1>1 DEF vars, masterVars, childVars
  <2>2. MasterInv' /\ InstanceInv'
    BY <2>1 DEF LifeInv, MasterInv, InstanceInv
  <2> QED BY <2>1, <2>2, MasterStep DEF LifeInv, QueueInv
<1>2. CASE \/ \E j \in Jobs : AddJob(j) \/ RemoveJob(j) \/ Call(j)
           \/ Terminate \/ Fail \/ ShutDown
  BY <1>2, ProgramSteps
<1>3. CASE Fork \/ TestPing \/ TestPong \/ Send \/ Kill \/ Wait \/ Destroy
  BY <1>3, ForkStep, TestPingStep, TestPongStep, SendStep, ShutdownSteps
<1>4. CASE \E w \in Workers : Retrieve(w) \/ WorkerStep(w) \/ Dequeue(w)
  BY <1>4, RetrieveStep, WorkerSteps, DequeueStep
<1>5. CASE QueueStep \/ Enqueue
  BY <1>5, StartQueueStep, QueueTestStep, EnqueueStep DEF QueueStep
<1>6. CASE \E c \in Children : EndStep(c) \/ Abort(c) \/ Crash(c)
  BY <1>6, EndSteps
<1> QED BY <1>1, <1>2, <1>3, <1>4, <1>5, <1>6 DEF Next, Working

\* The property is what the invariant says of tasks and answers.
LEMMA LifeInvImplies == LifeInv => JobsKnown
<1> SUFFICES ASSUME LifeInv PROVE JobsKnown
  OBVIOUS
<1>1. \A n \in DOMAIN tasks : tasks[n] \in known
  BY DEF LifeInv, Shapes
<1>2. ASSUME NEW w \in Workers, Has(Queue, w, "accepted")
      PROVE  Head(chan[<<Queue, w>>])[2] \in known
  <2>1. chan[<<Queue, w>>] \in Seq(FromQueue) /\ chan[<<Queue, w>>] # <<>>
        /\ Head(chan[<<Queue, w>>])[1] = "accepted"
    BY <1>2 DEF LifeInv, Shapes, Has
  <2>2. Head(chan[<<Queue, w>>]) \in FromQueue
    BY <2>1, HeadTail
  <2> QED BY <2>1, <2>2 DEF FromQueue
<1> QED BY <1>1, <1>2 DEF JobsKnown

\* Whatever is registered, removed, called, terminated and forked again, and
\* whichever children die: a task that a child is asked for is of a job that
\* the child was forked with (JobManager::add_job_object, get_job_object).
THEOREM ChildrenKnowTheirJobs == Spec => []JobsKnown
<1>1. LifeInv /\ [Next]_vars => LifeInv'
  BY NextLifeInv
<1> QED BY <1>1, InitLifeInv, LifeInvImplies, PTL DEF Spec

-----------------------------------------------------------------------------
(* Types *)

Messages ==
  {<<"ping">>, <<"pong">>, <<"rejected">>, <<"dequeue">>, <<"result">>} \cup ({"accepted", "enqueue"} \X Jobs)

Types ==
  /\ jobs \subseteq Jobs /\ known \subseteq Jobs /\ job \in Jobs
  /\ instance \in BOOLEAN /\ initialized \in BOOLEAN /\ destroying \in BOOLEAN
  /\ terminated \in BOOLEAN /\ failed \in BOOLEAN
  /\ sigterm \in [Children -> BOOLEAN]
  /\ registered \subseteq {Master} \cup Workers
  /\ chan \in [Channels -> Seq(Messages)]
  /\ tasks \in Seq(Jobs)
  /\ crashes \in 0 .. MaxCrashes

\* A channel whose first message is read.
LEMMA ReceivedIs ==
  ASSUME chan \in [Channels -> Seq(Messages)], NEW p, NEW q, <<p, q>> \in Channels, chan[<<p, q>>] # <<>>
  PROVE  /\ Received(p, q) \in [Channels -> Seq(Messages)]
         /\ Received(p, q)[<<p, q>>] = Tail(chan[<<p, q>>])
         /\ \A ch \in Channels \ {<<p, q>>} : Received(p, q)[ch] = chan[ch]
<1> DEFINE ch == <<p, q>>
<1>1. ch \in Channels /\ chan[ch] \in Seq(Messages) /\ chan[ch] # <<>>
  OBVIOUS
<1>2. Tail(chan[ch]) \in Seq(Messages)
  BY <1>1
<1> HIDE DEF ch
<1>3. Received(p, q) = [chan EXCEPT ![ch] = Tail(@)]
  BY DEF Received, ch
<1> QED BY <1>1, <1>2, <1>3 DEF ch

\* A channel to which a message is added.
LEMMA SentIs ==
  ASSUME chan \in [Channels -> Seq(Messages)], NEW ch \in Channels, NEW msg \in Messages
  PROVE  /\ [chan EXCEPT ![ch] = Append(@, msg)] \in [Channels -> Seq(Messages)]
         /\ [chan EXCEPT ![ch] = Append(@, msg)][ch] = Append(chan[ch], msg)
         /\ \A other \in Channels \ {ch} : [chan EXCEPT ![ch] = Append(@, msg)][other] = chan[other]
<1>1. Append(chan[ch], msg) \in Seq(Messages)
  OBVIOUS
<1> QED BY <1>1

\* A message that is read and answered.
LEMMA AnsweredIs ==
  ASSUME chan \in [Channels -> Seq(Messages)], NEW p, NEW q, p # q, NEW msg \in Messages,
         <<p, q>> \in Channels, <<q, p>> \in Channels, chan[<<p, q>>] # <<>>
  PROVE  /\ Answered(p, q, msg) \in [Channels -> Seq(Messages)]
         /\ Answered(p, q, msg)[<<p, q>>] = Tail(chan[<<p, q>>])
         /\ Answered(p, q, msg)[<<q, p>>] = Append(chan[<<q, p>>], msg)
         /\ \A ch \in Channels : ch \notin {<<p, q>>, <<q, p>>} => Answered(p, q, msg)[ch] = chan[ch]
<1> DEFINE a == <<p, q>>
           b == <<q, p>>
<1>1. a \in Channels /\ b \in Channels /\ a # b /\ chan[a] # <<>> /\ chan[a] \in Seq(Messages)
  OBVIOUS
<1>2. Tail(chan[a]) \in Seq(Messages) /\ Append(chan[b], msg) \in Seq(Messages)
  BY <1>1
<1> HIDE DEF a, b
<1>3. Answered(p, q, msg) = [chan EXCEPT ![a] = Tail(@), ![b] = Append(@, msg)]
  BY DEF Answered, a, b
<1> QED BY <1>1, <1>2, <1>3 DEF a, b

\* The steps of the master keep the types.
LEMMA MasterTypes ==
  ASSUME LifeInv, Types,
         \/ \E j \in Jobs : AddJob(j) \/ RemoveJob(j) \/ Call(j)
         \/ Terminate \/ Working
  PROVE  Types'
<1> USE DEF Types
<1>1. CASE \E j \in Jobs : AddJob(j) \/ RemoveJob(j) \/ Call(j)
  BY <1>1 DEF AddJob, RemoveJob, Call, childVars
<1>2. CASE Terminate \/ Fail \/ ShutDown
  BY <1>2 DEF Terminate, Fail, ShutDown, childVars
<1>3. CASE Fork
  BY <1>3 DEF Fork
<1>4. CASE TestPing
  <2>1. chan[QM] # <<>> /\ Queue # Master /\ QM \in Channels /\ MQ \in Channels
    BY <1>4, Distinct DEF TestPing, Has, QM
  <2>2. chan' = Answered(Queue, Master, <<"pong">>) /\ <<"pong">> \in Messages
    BY <1>4 DEF TestPing, Messages
  <2>3. chan' \in [Channels -> Seq(Messages)]
    BY <2>1, <2>2, AnsweredIs DEF QM, MQ
  <2> QED BY <1>4, <2>3 DEF TestPing, childVars
<1>5. CASE TestPong
  <2>1. chan[QM] # <<>> /\ QM \in Channels
    BY <1>5, Distinct DEF TestPong, Has, QM
  <2>2. chan' = Received(Queue, Master)
    BY <1>5 DEF TestPong
  <2>3. chan' \in [Channels -> Seq(Messages)]
    BY <2>1, <2>2, ReceivedIs DEF QM
  <2> QED BY <1>5, <2>3 DEF TestPong, childVars
<1>6. CASE Send
  <2>1. chan' = [chan EXCEPT ![MQ] = Append(@, <<"enqueue", job>>)] /\ MQ \in Channels
    BY <1>6, Distinct DEF Send, MQ
  <2>2. <<"enqueue", job>> \in Messages
    BY DEF Messages
  <2>3. chan' \in [Channels -> Seq(Messages)]
    BY <2>1, <2>2, SentIs
  <2> QED BY <1>6, <2>3 DEF Send, childVars
<1>7. CASE \E w \in Workers : Retrieve(w)
  <2>1. PICK w \in Workers : Retrieve(w)
    BY <1>7
  <2>2. chan[<<w, Master>>] # <<>> /\ <<w, Master>> \in Channels /\ chan' = Received(w, Master)
    BY <2>1, Distinct DEF Retrieve
  <2>3. chan' \in [Channels -> Seq(Messages)]
    BY <2>2, ReceivedIs
  <2> QED BY <2>1, <2>3 DEF Retrieve, childVars
<1>8. CASE Kill \/ Wait
  BY <1>8 DEF Kill, Wait, Signalled, masterVars
<1>9. CASE Destroy
  <2>1. \A S : <<>> \in Seq(S)
    OBVIOUS
  <2> QED BY <1>9, <2>1 DEF Destroy
<1> QED BY <1>1, <1>2, <1>3, <1>4, <1>5, <1>6, <1>7, <1>8, <1>9 DEF Working

\* So do those of the children.
LEMMA ChildTypes ==
  ASSUME LifeInv, Types,
         \/ \E w \in Workers : WorkerStep(w) \/ Dequeue(w)
         \/ QueueStep \/ Enqueue
         \/ \E c \in Children : EndStep(c) \/ Abort(c) \/ Crash(c)
  PROVE  Types'
<1> USE Distinct
<1>1. /\ jobs \subseteq Jobs /\ known \subseteq Jobs /\ job \in Jobs
      /\ instance \in BOOLEAN /\ initialized \in BOOLEAN /\ destroying \in BOOLEAN
      /\ terminated \in BOOLEAN /\ failed \in BOOLEAN
      /\ sigterm \in [Children -> BOOLEAN] /\ registered \subseteq {Master} \cup Workers
      /\ chan \in [Channels -> Seq(Messages)] /\ tasks \in Seq(Jobs) /\ crashes \in 0 .. MaxCrashes
  BY DEF Types
<1>2. ASSUME UNCHANGED <<masterVars, sigterm>>, crashes' \in 0 .. MaxCrashes, registered' \subseteq registered \cup {Master} \cup Workers,
             chan' \in [Channels -> Seq(Messages)], tasks' \in Seq(Jobs)
      PROVE  Types'
  BY <1>1, <1>2 DEF Types, masterVars
<1>3. ASSUME NEW w \in Workers, WorkerStep(w) PROVE Types'
  <2>1. UNCHANGED <<masterVars, sigterm, crashes, registered, tasks>>
    BY <1>3 DEF WorkerStep, StartWorker, WorkerPing, WorkerPong, TestAborts, Ask, Rejected, Accepted, Evaluate, Moves, Goes
  <2>2. {<<"pong">>, <<"dequeue">>, <<"result">>} \subseteq Messages
    BY DEF Messages
  <2>3. chan' \in [Channels -> Seq(Messages)]
    <3>1. CASE StartWorker(w) \/ TestAborts(w)
      BY <1>1, <3>1 DEF StartWorker, TestAborts
    <3>2. CASE WorkerPing(w)
      BY <1>1, <2>2, <3>2, AnsweredIs DEF WorkerPing, Has
    <3>3. CASE WorkerPong(w) \/ Rejected(w) \/ Accepted(w)
      <4>1. chan[<<Queue, w>>] # <<>> /\ <<Queue, w>> \in Channels /\ chan' = Received(Queue, w)
        BY <3>3 DEF WorkerPong, Rejected, Accepted, Has
      <4> QED BY <1>1, <4>1, ReceivedIs
    <3>4. CASE Ask(w) \/ Evaluate(w)
      <4>1. PICK ch \in {<<w, Queue>>, <<w, Master>>}, msg \in Messages : chan' = [chan EXCEPT ![ch] = Append(@, msg)]
        BY <2>2, <3>4 DEF Ask, Evaluate
      <4>2. ch \in Channels
        BY <4>1
      <4> QED BY <1>1, <4>1, <4>2, SentIs
    <3> QED BY <1>3, <3>1, <3>2, <3>3, <3>4 DEF WorkerStep
  <2> QED BY <1>1, <1>2, <2>1, <2>3
<1>4. ASSUME NEW w \in Workers, Dequeue(w) PROVE Types'
  <2>1. UNCHANGED <<masterVars, sigterm, crashes, registered>>
    BY <1>4 DEF Dequeue, Goes
  <2>2. tasks' \in Seq(Jobs)
    BY <1>1, <1>4, HeadTail DEF Dequeue, TasksLeft, NoTask
  <2>3. (IF NoTask THEN <<"rejected">> ELSE <<"accepted", Head(tasks)>>) \in Messages
    BY <1>1, HeadTail DEF NoTask, Messages
  <2>4. chan' = Answered(w, Queue, IF NoTask THEN <<"rejected">> ELSE <<"accepted", Head(tasks)>>) /\ chan[<<w, Queue>>] # <<>>
    BY <1>4 DEF Dequeue, Has
  <2>5. chan' \in [Channels -> Seq(Messages)]
    BY <1>1, <2>3, <2>4, AnsweredIs
  <2> QED BY <1>1, <1>2, <2>1, <2>2, <2>5
<1>5. CASE StartQueue
  <2>1. <<"ping">> \in Messages
    BY DEF Messages
  <2>2. chan' \in [Channels -> Seq(Messages)]
    <3>1. \A ch \in Channels : Append(chan[ch], <<"ping">>) \in Seq(Messages)
      BY <1>1, <2>1
    <3> QED BY <1>1, <1>5, <3>1 DEF StartQueue
  <2> QED BY <1>1, <1>2, <1>5, <2>2 DEF StartQueue, Goes
<1>6. ASSUME NEW p \in {Master} \cup Workers, QueueTest(p) PROVE Types'
  <2>1. UNCHANGED <<masterVars, sigterm, crashes, tasks>> /\ registered' \subseteq registered
    BY <1>6 DEF QueueTest, Goes, Unregistered
  <2>2. chan[<<p, Queue>>] # <<>> /\ <<p, Queue>> \in Channels /\ <<Queue, p>> \in Channels /\ p # Queue
    BY <1>6 DEF QueueTest, Has, MQ, QM
  <2>3. <<"pong">> \in Messages /\ QM \in Channels
    BY DEF Messages
  <2> DEFINE answered == IF p = Master THEN Received(p, Queue) ELSE Answered(p, Queue, <<"pong">>)
  <2>4. answered \in [Channels -> Seq(Messages)]
    BY <1>1, <2>2, <2>3, ReceivedIs, AnsweredIs
  <2>5. chan' = IF registered' = {} THEN [answered EXCEPT ![QM] = Append(@, <<"pong">>)] ELSE answered
    BY <1>6 DEF QueueTest, QM
  <2> HIDE DEF answered
  <2>6. Append(answered[QM], <<"pong">>) \in Seq(Messages)
    BY <2>3, <2>4
  <2>7. chan' \in [Channels -> Seq(Messages)]
    BY <2>4, <2>5, <2>6
  <2> QED BY <1>1, <1>2, <2>1, <2>7
<1>7. CASE Enqueue
  <2>1. /\ UNCHANGED <<masterVars, sigterm, crashes, registered>> /\ st[Queue] = "poll"
        /\ chan[MQ] # <<>> /\ chan' = Received(Master, Queue) /\ tasks' = Append(tasks, Head(chan[MQ])[2])
    BY <1>7 DEF Enqueue, Goes, MQ
  <2>2. chan' \in [Channels -> Seq(Messages)]
    BY <1>1, <2>1, ReceivedIs DEF MQ
  <2>3. Head(chan[MQ]) \in {"enqueue"} \X known
    BY <2>1, HeadTail DEF LifeInv, QueueInv
  <2>4. tasks' \in Seq(Jobs)
    BY <1>1, <2>1, <2>3, Appended
  <2> QED BY <1>1, <1>2, <2>1, <2>2, <2>4
<1>8. ASSUME NEW c \in Children, EndStep(c) \/ Abort(c) \/ Crash(c) PROVE Types'
  <2>1. UNCHANGED <<masterVars, sigterm, registered, tasks, chan>>
    BY <1>8 DEF EndStep, Stop, ConnectionClosed, Closing, Abort, Crash, Moves, Goes
  <2>2. crashes' \in 0 .. MaxCrashes
    <3>1. CASE Crash(c)
      BY <1>1, <3>1, ConstantsAssumption DEF Crash
    <3>2. CASE ~Crash(c)
      BY <1>1, <1>8, <3>2 DEF EndStep, Stop, ConnectionClosed, Closing, Abort, Moves, Goes
    <3> QED BY <3>1, <3>2
  <2> QED BY <1>1, <1>2, <2>1, <2>2
<1> QED BY <1>3, <1>4, <1>5, <1>6, <1>7, <1>8 DEF QueueStep

-----------------------------------------------------------------------------
(* No false alarm *)

\* The states of a child that nothing has gone wrong with.
Alive == {"none", "forked", "test1", "test2", "test", "ask", "poll", "evaluate"}

\* Children that the master is still to send the signal.
ToSignal(c) == i = Queue \/ (c # Queue /\ c >= i)

\* Nobody ends the children.
Calm == (initialized \/ ~instance) /\ pc \notin {"kill", "wait", "destroy"}

CalmInv ==
  /\ pc \in {"kill", "wait"} /\ ~destroying => terminated
  /\ instance /\ ~initialized /\ pc # "destroy" => terminated
  /\ pc = "kill" => i \in Children
  /\ pc = "fork" => ~failed
  /\ crashes = 0 =>
       /\ failed => terminated \/ ~instance
       /\ \A c \in Children : st[c] # "exit1"
       /\ Calm => \A c \in Children : ~sigterm[c] /\ st[c] \in Alive
       /\ pc = "kill" => \A c \in Children :
             IF ToSignal(c) THEN ~sigterm[c] /\ st[c] \notin Dead \cup {"escaped"} ELSE sigterm[c]
       /\ pc = "wait" => \A c \in Children : sigterm[c]

\* As long as no child is dead no connection is closed.
LEMMA CalmOpen ==
  ASSUME CalmInv, crashes = 0, Calm, NEW c
  PROVE  ~Closed(c)
BY DEF CalmInv, Alive, Dead, Closed

\* An instance that has no children is one that terminate() has left without.
LEMMA CalmOrEnded ==
  ASSUME LifeInv, CalmInv
  PROVE  \/ Calm
         \/ pc \in {"kill", "wait"} /\ initialized
         \/ ~initialized /\ instance /\ \A c \in Children : st[c] = "reaped"
BY DEF LifeInv, MasterInv, InstanceInv, Calm

LEMMA ProgramCalm ==
  ASSUME LifeInv, Types, CalmInv,
         \/ \E j \in Jobs : AddJob(j) \/ RemoveJob(j) \/ Call(j)
         \/ Terminate \/ TestPing \/ TestPong \/ Send \/ Fail \/ (\E w \in Workers : Retrieve(w))
  PROVE  CalmInv'
<1> USE Distinct
<1>0. initialized \in BOOLEAN /\ instance \in BOOLEAN /\ terminated \in BOOLEAN /\ (initialized => instance)
  BY DEF LifeInv, MasterInv, Types
<1>1. ASSUME UNCHANGED <<instance, initialized, st, sigterm, crashes, terminated>>,
             pc' \notin {"kill", "wait", "destroy", "fork"}, pc \notin {"kill", "wait", "destroy"},
             crashes = 0 /\ failed' => terminated \/ ~instance
      PROVE  CalmInv'
  BY <1>1 DEF CalmInv, Calm
<1>2. CASE (\E j \in Jobs : AddJob(j)) \/ TestPing \/ TestPong \/ Send \/ \E w \in Workers : Retrieve(w)
  <2>1. /\ UNCHANGED <<instance, initialized, st, sigterm, crashes, terminated, failed>>
        /\ pc' \notin {"kill", "wait", "destroy", "fork"} /\ pc \notin {"kill", "wait", "destroy"}
    BY <1>2 DEF AddJob, TestPing, TestPong, Send, Retrieve, childVars
  <2> QED BY <1>1, <2>1 DEF CalmInv
<1>3. ASSUME UNCHANGED <<instance, initialized, st, sigterm, crashes, failed>>,
             pc = "program", pc' = "kill", i' = Queue, initialized, ~destroying' => terminated',
             terminated => terminated'
      PROVE  CalmInv'
  <2>1. Calm
    BY <1>3 DEF Calm
  <2>2. ASSUME crashes = 0, NEW c \in Children PROVE ~sigterm'[c] /\ st'[c] \notin Dead \cup {"escaped"} /\ st'[c] # "exit1"
    BY <1>3, <2>1, <2>2 DEF CalmInv, Alive, Dead
  <2>3. \A c \in Children : ToSignal(c)'
    BY <1>3 DEF ToSignal
  <2> QED BY <1>0, <1>3, <2>2, <2>3 DEF CalmInv, Calm
<1>4. CASE \E j \in Jobs : RemoveJob(j)
  <2>1. /\ pc = "program" /\ UNCHANGED <<instance, initialized, st, sigterm, crashes, failed, terminated>>
        /\ \/ instance /\ initialized /\ pc' = "kill" /\ destroying' = TRUE /\ i' = Queue
           \/ instance /\ ~initialized /\ pc' = "destroy"
           \/ pc' = pc
    BY <1>4 DEF RemoveJob, childVars
  <2>2. CASE pc' = pc
    BY <1>1, <2>1, <2>2 DEF CalmInv
  <2>3. CASE initialized /\ pc' = "kill" /\ destroying' = TRUE /\ i' = Queue
    BY <1>3, <2>1, <2>3
  <2>4. CASE instance /\ ~initialized /\ pc' = "destroy"
    BY <2>1, <2>4 DEF CalmInv, Calm
  <2> QED BY <2>1, <2>2, <2>3, <2>4
<1>5. CASE \E j \in Jobs : Call(j)
  <2>1. /\ pc = "program" /\ UNCHANGED <<instance, initialized, st, sigterm, crashes, terminated>> /\ ~failed'
        /\ pc' \in {"send", "fork"}
    BY <1>5 DEF Call, childVars
  <2> QED BY <2>1 DEF CalmInv, Calm
<1>6. CASE Terminate
  <2>1. /\ pc = "program" /\ initialized /\ pc' = "kill" /\ i' = Queue /\ terminated' = TRUE
        /\ UNCHANGED <<instance, initialized, st, sigterm, crashes, failed>>
    BY <1>6 DEF Terminate, childVars
  <2> QED BY <1>3, <2>1
<1>7. CASE Fail
  <2>1. /\ pc \in {"testPing", "testPong", "send", "retrieve"} /\ pc' = "program" /\ \E c : Closed(c)
        /\ UNCHANGED <<instance, initialized, st, sigterm, crashes, terminated>>
    BY <1>7 DEF Fail, AtEnd, childVars
  <2>2. crashes = 0 => ~Calm
    BY <2>1, CalmOpen
  <2>3. ~Calm => terminated
    BY <1>0, <2>1 DEF Calm, CalmInv
  <2> QED BY <1>1, <2>1, <2>2, <2>3
<1> QED BY <1>2, <1>4, <1>5, <1>6, <1>7

\* The children are told one after the other, the queue first.
LEMMA KillCalm ==
  ASSUME LifeInv, Types, CalmInv, Kill
  PROVE  CalmInv'
<1> USE Distinct
<1>1. /\ pc = "kill" /\ i \in Children /\ st \in [Children -> States] /\ sigterm \in [Children -> BOOLEAN]
      /\ st' = [st EXCEPT ![i] = IF @ = "forked" THEN "killed" ELSE @]
      /\ sigterm' = [sigterm EXCEPT ![i] = (st[i] \notin Dead)]
      /\ i' = NextChild(i) /\ pc' = (IF i = N THEN "wait" ELSE "kill")
      /\ UNCHANGED <<instance, initialized, destroying, terminated, failed, crashes>>
  BY DEF Kill, CalmInv, LifeInv, Shapes, Types, Signalled
<1>2. N \in Nat \ {0} /\ Queue = N + 1 /\ Children = 1 .. (N + 1)
  BY ConstantsAssumption DEF Queue, Children
<1>3. pc' = "kill" => i' \in Children
  BY <1>1, <1>2 DEF NextChild
<1>4. ASSUME crashes = 0, NEW c \in Children
      PROVE  /\ st'[c] # "exit1"
             /\ c = i => sigterm'[c]
             /\ c # i => st'[c] = st[c] /\ sigterm'[c] = sigterm[c]
  <2>1. ToSignal(i)
    BY <1>1, <1>2 DEF ToSignal
  <2>2. st[i] \notin Dead
    BY <1>1, <1>4, <2>1 DEF CalmInv
  <2> QED BY <1>1, <1>4, <2>2 DEF CalmInv
<1>5. ASSUME crashes = 0, pc' = "kill", NEW c \in Children
      PROVE  IF ToSignal(c)' THEN ~sigterm'[c] /\ st'[c] \notin Dead \cup {"escaped"} ELSE sigterm'[c]
  <2>1. ToSignal(c)' => ToSignal(c) /\ c # i
    BY <1>1, <1>2, <1>5 DEF ToSignal, NextChild
  <2>2. ~ToSignal(c)' => ~ToSignal(c) \/ c = i
    BY <1>1, <1>2, <1>5 DEF ToSignal, NextChild
  <2>3. IF ToSignal(c) THEN ~sigterm[c] /\ st[c] \notin Dead \cup {"escaped"} ELSE sigterm[c]
    BY <1>1, <1>5 DEF CalmInv
  <2> QED BY <1>4, <1>5, <2>1, <2>2, <2>3
<1>6. ASSUME crashes = 0, pc' = "wait", NEW c \in Children PROVE sigterm'[c]
  <2>1. c # i => ~ToSignal(c)
    BY <1>1, <1>2, <1>6 DEF ToSignal
  <2> QED BY <1>1, <1>4, <1>6, <2>1 DEF CalmInv
<1> QED BY <1>1, <1>3, <1>4, <1>5, <1>6 DEF CalmInv, Calm

\* The other steps by which the master starts and ends children.
LEMMA LifeCalm ==
  ASSUME LifeInv, Types, CalmInv, Fork \/ Wait \/ ShutDown \/ Destroy
  PROVE  CalmInv'
<1> USE Distinct
<1>0. st \in [Children -> States] /\ sigterm \in [Children -> BOOLEAN]
  BY DEF LifeInv, Shapes, Types
<1>1. CASE Fork
  <2>1. /\ pc = "fork" /\ ~instance /\ i \in Children /\ st' = [st EXCEPT ![i] = "forked"]
        /\ pc' \in {"fork", "testPing"} /\ instance' = initialized'
        /\ UNCHANGED <<destroying, terminated, failed, sigterm, crashes>>
    BY <1>1 DEF Fork, LifeInv, MasterInv
  <2>2. Calm /\ ~failed
    BY <2>1 DEF Calm, CalmInv
  <2>3. crashes = 0 => \A c \in Children : ~sigterm[c] /\ st'[c] \in Alive
    BY <1>0, <2>1, <2>2 DEF CalmInv, Alive
  <2> QED BY <2>1, <2>2, <2>3 DEF CalmInv, Alive
<1>2. CASE Wait
  <2>1. /\ pc = "wait" /\ UNCHANGED <<masterVars, sigterm, crashes>> /\ \E c \in Children : st' = [st EXCEPT ![c] = "reaped"]
    BY <1>2 DEF Wait
  <2>2. \A c \in Children : st[c] # "exit1" => st'[c] # "exit1"
    BY <1>0, <2>1
  <2> QED BY <2>1, <2>2 DEF CalmInv, Calm, masterVars
<1>3. CASE ShutDown
  <2>1. /\ pc = "wait" /\ ~initialized' /\ instance' = instance /\ instance
        /\ pc' = (IF destroying THEN "destroy" ELSE "program")
        /\ UNCHANGED <<destroying, terminated, failed, st, sigterm, crashes>>
    BY <1>3 DEF ShutDown, LifeInv, MasterInv, childVars
  <2> QED BY <2>1 DEF CalmInv, Calm
<1>4. CASE Destroy
  <2>1. /\ pc' = "program" /\ instance' = FALSE
        /\ st' = [c \in Children |-> "none"] /\ sigterm' = [c \in Children |-> FALSE]
    BY <1>4 DEF Destroy
  <2> QED BY <2>1 DEF CalmInv, Alive
<1> QED BY <1>1, <1>2, <1>3, <1>4

\* A child leaves its loop only if it is told, or if one died.
LEMMA ChildCalm ==
  ASSUME LifeInv, Types, CalmInv,
         \/ \E w \in Workers : WorkerStep(w) \/ Dequeue(w)
         \/ QueueStep \/ Enqueue
         \/ \E c \in Children : EndStep(c) \/ Abort(c) \/ Crash(c)
  PROVE  CalmInv'
<1> USE Distinct
<1>0. st \in [Children -> States] /\ sigterm \in [Children -> BOOLEAN] /\ crashes \in Nat
  BY DEF LifeInv, Shapes, Types
<1>1. ASSUME NEW c \in Children, NEW s, st' = [st EXCEPT ![c] = s], UNCHANGED <<masterVars, sigterm, crashes>>,
             crashes = 0 =>
                /\ s # "exit1" /\ st[c] \notin Dead \ {"exit0"}
                /\ Calm => s \in Alive
                /\ pc = "kill" /\ ToSignal(c) => s \notin Dead \cup {"escaped"}
      PROVE  CalmInv'
  <2>1. \A d \in Children : d # c => st'[d] = st[d]
    BY <1>0, <1>1
  <2>2. st'[c] = s
    BY <1>0, <1>1
  <2> QED BY <1>1, <2>1, <2>2 DEF CalmInv, Calm, ToSignal, masterVars
<1>2. ASSUME NEW c \in Children, NEW s \in Alive, Goes(c, s), st[c] \in Alive PROVE CalmInv'
  BY <1>1, <1>2 DEF Goes, Alive, Dead
<1>3. CASE \E w \in Workers : Dequeue(w) \/ (WorkerStep(w) /\ ~TestAborts(w))
  <2>1. PICK w \in Workers : Dequeue(w) \/ (WorkerStep(w) /\ ~TestAborts(w))
    BY <1>3
  <2>2. CASE Dequeue(w)
    BY <1>2, <2>2 DEF Dequeue, Alive
  <2>3. CASE WorkerStep(w) /\ ~TestAborts(w)
    <3>1. st[w] \in Alive /\ \E s \in Alive : Goes(w, s)
      BY <2>3 DEF WorkerStep, StartWorker, WorkerPing, WorkerPong, Ask, Rejected, Accepted, Evaluate, Moves, Alive
    <3> QED BY <1>2, <3>1
  <2> QED BY <2>1, <2>2, <2>3
<1>4. CASE QueueStep \/ Enqueue
  <2>1. st[Queue] \in Alive /\ \E s \in Alive : Goes(Queue, s)
    BY <1>4 DEF QueueStep, StartQueue, QueueTest, Enqueue, Alive
  <2> QED BY <1>2, <2>1
<1>5. ASSUME NEW c \in Children, sigterm[c], NEW s, Goes(c, s), s # "exit1", st[c] \notin Dead PROVE CalmInv'
  <2>1. crashes = 0 => ~Calm /\ ~(pc = "kill" /\ ToSignal(c))
    BY <1>5 DEF CalmInv
  <2> QED BY <1>1, <1>5, <2>1 DEF Goes
<1>6. CASE \E w \in Workers : TestAborts(w)
  BY <1>5, <1>6 DEF TestAborts, Moves, Dead
<1>7. ASSUME NEW c \in Children, Stop(c) PROVE CalmInv'
  BY <1>5, <1>7 DEF Stop, StopsAt, Moves, Dead
<1>8. ASSUME NEW c \in Children, ConnectionClosed(c) PROVE CalmInv'
  <2>1. st' = [st EXCEPT ![c] = Noticed(c)] /\ UNCHANGED <<masterVars, sigterm, crashes>>
    BY <1>8 DEF ConnectionClosed, Moves, Goes
  <2>2. \E p : Closed(p)
    BY <1>8 DEF ConnectionClosed, AtEnd
  <2>3. crashes = 0 => ~Calm
    BY <2>2, CalmOpen
  <2>4. st[c] \in Alive
    BY <1>8 DEF ConnectionClosed, Testing, Alive
  <2> QED BY <1>1, <2>1, <2>3, <2>4 DEF Noticed, Alive, Dead
<1>9. ASSUME NEW c \in Children, Closing(c) PROVE CalmInv'
  <2>1. st[c] \in {"closing", "closingInTest"} /\ \E s \in {"exit0", "exit1", "escaped"} : Goes(c, s)
    BY <1>9 DEF Closing, Moves
  <2>2. CASE sigterm[c]
    <3>1. \E s \in {"exit0", "escaped"} : Goes(c, s)
      BY <1>9, <2>2 DEF Closing, Moves
    <3> QED BY <1>5, <2>1, <2>2, <3>1 DEF Dead
  <2>3. CASE ~sigterm[c]
    <3>1. pc # "kill"
      BY <1>9, <2>3 DEF Closing
    <3>2. crashes # 0
      <4> SUFFICES ASSUME crashes = 0 PROVE FALSE
        OBVIOUS
      <4>1. pc # "wait"
        BY <2>3 DEF CalmInv
      <4>2. ~Calm
        BY <2>1 DEF CalmInv, Alive
      <4> QED BY <2>1, <3>1, <4>1, <4>2, CalmOrEnded
    <3> QED BY <1>1, <2>1, <3>2 DEF Goes
  <2> QED BY <2>2, <2>3
<1>10. ASSUME NEW c \in Children, Abort(c) PROVE CalmInv'
  <2>1. st[c] = "escaped" /\ Goes(c, "aborted")
    BY <1>10 DEF Abort, Moves
  <2>2. crashes = 0 => ~Calm /\ ~(pc = "kill" /\ ToSignal(c))
    BY <2>1 DEF CalmInv, Alive
  <2> QED BY <1>1, <2>1, <2>2 DEF Goes, Dead
<1>11. ASSUME NEW c \in Children, Crash(c) PROVE CalmInv'
  <2>1. crashes' # 0 /\ UNCHANGED masterVars
    BY <1>0, <1>11 DEF Crash
  <2> QED BY <2>1 DEF CalmInv, masterVars
<1> QED BY <1>3, <1>4, <1>6, <1>7, <1>8, <1>9, <1>10, <1>11 DEF EndStep

\* Every step keeps the types and the calm.
LEMMA NextCalm ==
  ASSUME LifeInv, Types, CalmInv, [Next]_vars
  PROVE  Types' /\ CalmInv'
<1>1. CASE UNCHANGED vars
  BY <1>1 DEF vars, masterVars, childVars, Types, CalmInv, Calm, ToSignal
<1>2. CASE \/ \E j \in Jobs : AddJob(j) \/ RemoveJob(j) \/ Call(j)
           \/ Terminate \/ Working
  <2>1. Types'
    BY <1>2, MasterTypes
  <2>2. CalmInv'
    BY <1>2, ProgramCalm, KillCalm, LifeCalm DEF Working
  <2> QED BY <2>1, <2>2
<1>3. CASE \/ \E w \in Workers : WorkerStep(w) \/ Dequeue(w)
           \/ QueueStep \/ Enqueue
           \/ \E c \in Children : EndStep(c) \/ Abort(c) \/ Crash(c)
  BY <1>3, ChildTypes, ChildCalm
<1> QED BY <1>1, <1>2, <1>3 DEF Next

LEMMA InitCalm == Init => Types /\ CalmInv
<1> SUFFICES ASSUME Init PROVE Types /\ CalmInv
  OBVIOUS
<1>1. \A S : <<>> \in Seq(S)
  OBVIOUS
<1>2. Types
  <2>1. chan \in [Channels -> Seq(Messages)] /\ tasks \in Seq(Jobs)
    <3>1. <<>> \in Seq(Messages) /\ <<>> \in Seq(Jobs)
      BY <1>1
    <3> HIDE DEF Messages
    <3> QED BY <3>1 DEF Init
  <2>2. sigterm \in [Children -> BOOLEAN] /\ crashes \in 0 .. MaxCrashes
    BY ConstantsAssumption DEF Init
  <2> QED BY <2>1, <2>2 DEF Init, Types
<1>3. CalmInv
  BY DEF Init, CalmInv, Alive
<1> QED BY <1>2, <1>3

\* Whatever is called, removed and terminated, in whichever order the master's
\* signals and the ends of the connections are noticed: as long as no child dies
\* unexpectedly no call fails, unless the program terminated the processes before,
\* and every child that leaves its loop does so because it was told.
THEOREM NobodyAlarmed == Spec => []NoFalseAlarm
<1>1. LifeInv /\ [Next]_vars => LifeInv'
  BY NextLifeInv
<1>2. LifeInv /\ Types /\ CalmInv /\ [Next]_vars => Types' /\ CalmInv'
  BY NextCalm
<1>3. CalmInv => NoFalseAlarm
  BY DEF CalmInv, NoFalseAlarm
<1> QED BY <1>1, <1>2, <1>3, InitLifeInv, InitCalm, PTL DEF Spec

-----------------------------------------------------------------------------
(* The test of the connections *)

\* A worker and the queue send each other one message at a time.
Down(w) == chan[<<Queue, w>>]
Up(w) == chan[<<w, Queue>>]
Kind(s) == IF s = <<>> THEN "none" ELSE Head(s)[1]

QueueStarts == st[Queue] \in {"none", "forked"}
QueueRuns == st[Queue] \in {"test", "poll"}

Ring(w) ==
  /\ Len(Down(w)) + Len(Up(w)) <= 1
  /\ st[w] # "test"
  /\ st[w] \in {"none", "ask", "evaluate"} => Down(w) = <<>> /\ Up(w) = <<>>
  /\ st[w] \in {"forked", "test1"} => Up(w) = <<>> /\ (Down(w) # <<>> => Kind(Down(w)) = "ping" /\ w \in registered)
  /\ st[w] = "test2" => (Kind(Up(w)) = "pong" /\ w \in registered) \/ Kind(Down(w)) = "pong"
  /\ QueueStarts => /\ Down(w) = <<>> /\ Up(w) = <<>>
                    /\ st[w] \notin {"test2", "ask", "poll", "evaluate"}
  /\ QueueRuns /\ st[w] \in {"forked", "test1"} => w \in registered

\* The queue is in its event loop when every registered process has answered.
TestInv ==
  /\ pc = "fork" => \A c \in Children : c < i => st[c] # "none"
  /\ instance => \A c \in Children : st[c] # "none"
  /\ st[Queue] \notin {"test1", "test2", "ask", "evaluate"}
  /\ st[Queue] = "poll" => registered = {}
  /\ ~instance => \A w \in Workers : Up(w) = <<>>
  /\ \A w \in Workers : Ring(w)

\* Sequences of one message.
LEMMA OneMessage ==
  /\ Kind(<<>>) = "none" /\ Len(<<>>) = 0
  /\ \A msg : /\ Kind(Append(<<>>, msg)) = msg[1] /\ Len(Append(<<>>, msg)) = 1 /\ Append(<<>>, msg) # <<>>
  /\ \A s \in Seq(Messages) :
        /\ Len(s) \in Nat /\ (Len(s) = 0 <=> s = <<>>)
        /\ Len(s) = 1 => Tail(s) = <<>>
<1>1. \A msg : Append(<<>>, msg) = <<msg>> /\ Len(<<msg>>) = 1 /\ <<msg>> # <<>> /\ Head(<<msg>>) = msg
  OBVIOUS
<1>2. \A s \in Seq(Messages) : Len(s) \in Nat /\ (Len(s) = 0 <=> s = <<>>)
  OBVIOUS
<1>3. ASSUME NEW s \in Seq(Messages), Len(s) = 1 PROVE Tail(s) = <<>>
  <2>1. s # <<>>
    BY <1>2, <1>3
  <2>2. Tail(s) \in Seq(Messages) /\ Len(Tail(s)) = Len(s) - 1
    BY <2>1
  <2>3. Len(Tail(s)) = 0
    BY <1>3, <2>2
  <2> QED BY <1>2, <2>2, <2>3, Zenon
<1> QED BY <1>1, <1>2, <1>3 DEF Kind

LEMMA ChannelTypes ==
  ASSUME Types, NEW w \in Workers
  PROVE  /\ Down(w) \in Seq(Messages) /\ Up(w) \in Seq(Messages)
         /\ chan[<<w, Master>>] \in Seq(Messages) /\ chan[MQ] \in Seq(Messages) /\ chan[QM] \in Seq(Messages)
BY Distinct DEF Types, Down, Up

\* A step that leaves a worker and its channels alone.
LEMMA RingSame ==
  ASSUME NEW w \in Workers, Ring(w), Down(w)' = Down(w), Up(w)' = Up(w), st'[w] = st[w],
         w \in registered => w \in registered',
         QueueStarts' => QueueStarts, QueueRuns' => QueueRuns
  PROVE  Ring(w)'
BY DEF Ring, Down, Up

\* A worker that ends leaves its channels as they are.
LEMMA RingEnd ==
  ASSUME NEW w \in Workers, Ring(w), Down(w)' = Down(w), Up(w)' = Up(w), st'[w] \notin Alive,
         QueueStarts' => QueueStarts
  PROVE  Ring(w)'
BY DEF Ring, Down, Up, Alive

\* A worker that answers the queue, and the queue that answers a worker.
LEMMA WorkerAnswers ==
  ASSUME chan \in [Channels -> Seq(Messages)], NEW w \in Workers, NEW msg \in Messages
  PROVE  /\ chan[<<Queue, w>>] # <<>> =>
               /\ Answered(Queue, w, msg)[<<Queue, w>>] = Tail(chan[<<Queue, w>>])
               /\ Answered(Queue, w, msg)[<<w, Queue>>] = Append(chan[<<w, Queue>>], msg)
               /\ \A ch \in Channels \ {<<Queue, w>>, <<w, Queue>>} : Answered(Queue, w, msg)[ch] = chan[ch]
         /\ chan[<<w, Queue>>] # <<>> =>
               /\ Answered(w, Queue, msg)[<<w, Queue>>] = Tail(chan[<<w, Queue>>])
               /\ Answered(w, Queue, msg)[<<Queue, w>>] = Append(chan[<<Queue, w>>], msg)
               /\ \A ch \in Channels \ {<<Queue, w>>, <<w, Queue>>} : Answered(w, Queue, msg)[ch] = chan[ch]
<1>1. Queue # w /\ <<Queue, w>> \in Channels /\ <<w, Queue>> \in Channels
  BY Distinct
<1>2. ASSUME chan[<<Queue, w>>] # <<>>
      PROVE  /\ Answered(Queue, w, msg)[<<Queue, w>>] = Tail(chan[<<Queue, w>>])
             /\ Answered(Queue, w, msg)[<<w, Queue>>] = Append(chan[<<w, Queue>>], msg)
             /\ \A ch \in Channels \ {<<Queue, w>>, <<w, Queue>>} : Answered(Queue, w, msg)[ch] = chan[ch]
  <2>1. /\ Answered(Queue, w, msg)[<<Queue, w>>] = Tail(chan[<<Queue, w>>])
        /\ Answered(Queue, w, msg)[<<w, Queue>>] = Append(chan[<<w, Queue>>], msg)
    BY <1>1, <1>2, AnsweredIs
  <2>2. \A ch \in Channels \ {<<Queue, w>>, <<w, Queue>>} : Answered(Queue, w, msg)[ch] = chan[ch]
    BY <1>1 DEF Answered
  <2> QED BY <2>1, <2>2
<1>3. ASSUME chan[<<w, Queue>>] # <<>>
      PROVE  /\ Answered(w, Queue, msg)[<<w, Queue>>] = Tail(chan[<<w, Queue>>])
             /\ Answered(w, Queue, msg)[<<Queue, w>>] = Append(chan[<<Queue, w>>], msg)
             /\ \A ch \in Channels \ {<<Queue, w>>, <<w, Queue>>} : Answered(w, Queue, msg)[ch] = chan[ch]
  <2>1. /\ Answered(w, Queue, msg)[<<w, Queue>>] = Tail(chan[<<w, Queue>>])
        /\ Answered(w, Queue, msg)[<<Queue, w>>] = Append(chan[<<Queue, w>>], msg)
    BY <1>1, <1>3, AnsweredIs
  <2>2. \A ch \in Channels \ {<<Queue, w>>, <<w, Queue>>} : Answered(w, Queue, msg)[ch] = chan[ch]
    BY <1>1 DEF Answered
  <2> QED BY <2>1, <2>2
<1> QED BY <1>2, <1>3

\* What a step of a worker does: to its place, and to its channels.
LEMMA WorkerEffect ==
  ASSUME LifeInv, Types, TestInv, NEW w \in Workers, WorkerStep(w)
  PROVE  /\ UNCHANGED <<masterVars, registered, tasks>>
         /\ \A c \in Children \ {w} : st'[c] = st[c]
         /\ \A ch \in Channels \ {<<Queue, w>>, <<w, Queue>>, <<w, Master>>} : chan'[ch] = chan[ch]
         /\ \/ /\ UNCHANGED chan
               /\ \/ st[w] = "forked" /\ st'[w] = "test1"
                  \/ st[w] \in {"test1", "test2"} /\ st'[w] = "escaped"
            \/ /\ st[w] = "test1" /\ st'[w] = "test2" /\ Kind(Down(w)) = "ping"
               /\ Down(w)' = <<>> /\ Up(w)' = Append(<<>>, <<"pong">>) /\ chan'[<<w, Master>>] = chan[<<w, Master>>]
            \/ /\ \/ st[w] = "test2" /\ st'[w] = "ask" /\ Kind(Down(w)) = "pong"
                  \/ st[w] = "poll" /\ st'[w] = "ask" /\ Kind(Down(w)) = "rejected"
                  \/ st[w] = "poll" /\ st'[w] = "evaluate" /\ Kind(Down(w)) = "accepted"
               /\ Down(w)' = <<>> /\ Up(w) = <<>> /\ Up(w)' = <<>> /\ chan'[<<w, Master>>] = chan[<<w, Master>>]
            \/ /\ st[w] = "ask" /\ st'[w] = "poll"
               /\ Down(w)' = <<>> /\ Up(w)' = Append(<<>>, <<"dequeue">>) /\ Down(w) = <<>>
               /\ chan'[<<w, Master>>] = chan[<<w, Master>>]
            \/ /\ st[w] = "evaluate" /\ st'[w] = "ask" /\ Down(w) = <<>>
               /\ Down(w)' = <<>> /\ Up(w)' = <<>> /\ chan'[<<w, Master>>] = Append(chan[<<w, Master>>], <<"result">>)
<1> USE Distinct
<1>1. /\ st \in [Children -> States] /\ chan \in [Channels -> Seq(Messages)]
      /\ {<<"pong">>, <<"dequeue">>, <<"result">>} \subseteq Messages
      /\ <<Queue, w>> \in Channels /\ <<w, Queue>> \in Channels /\ <<w, Master>> \in Channels
      /\ <<Queue, w>> # <<w, Queue>> /\ <<w, Queue>> # <<w, Master>> /\ <<Queue, w>> # <<w, Master>>
      /\ w \in Children
  BY DEF LifeInv, Shapes, Types, Messages
<1>2. Ring(w) /\ Down(w) \in Seq(Messages) /\ Up(w) \in Seq(Messages)
  BY ChannelTypes DEF TestInv
<1>3. Down(w) # <<>> => Tail(Down(w)) = <<>> /\ Up(w) = <<>>
  BY <1>2, OneMessage DEF Ring
<1>4. UNCHANGED <<masterVars, registered, tasks>> /\ \A c \in Children \ {w} : st'[c] = st[c]
  BY <1>1 DEF WorkerStep, StartWorker, WorkerPing, WorkerPong, TestAborts, Ask, Rejected, Accepted, Evaluate, Moves, Goes
<1>5. ASSUME chan[<<Queue, w>>] # <<>>, chan' = Received(Queue, w)
      PROVE  /\ \A ch \in Channels \ {<<Queue, w>>} : chan'[ch] = chan[ch]
             /\ Down(w)' = <<>> /\ Up(w) = <<>> /\ Up(w)' = <<>> /\ chan'[<<w, Master>>] = chan[<<w, Master>>]
  <2>1. /\ chan'[<<Queue, w>>] = Tail(chan[<<Queue, w>>])
        /\ \A ch \in Channels \ {<<Queue, w>>} : chan'[ch] = chan[ch]
    <3>1. <<Queue, w>> \in Channels /\ chan \in [Channels -> Seq(Messages)]
      BY <1>1
    <3> QED BY <1>5, <3>1, ReceivedIs, Zenon
  <2> QED BY <1>1, <1>3, <1>5, <2>1 DEF Down, Up
<1>6. CASE StartWorker(w) \/ TestAborts(w)
  <2>1. chan' = chan /\ ((st[w] = "forked" /\ st'[w] = "test1") \/ (st[w] \in {"test1", "test2"} /\ st'[w] = "escaped"))
    BY <1>1, <1>6 DEF StartWorker, TestAborts, Moves, Goes
  <2> QED BY <1>4, <2>1
<1>7. CASE WorkerPing(w)
  <2>1. /\ st[w] = "test1" /\ st'[w] = "test2" /\ chan[<<Queue, w>>] # <<>> /\ Kind(Down(w)) = "ping"
        /\ chan' = Answered(Queue, w, <<"pong">>)
    BY <1>1, <1>7 DEF WorkerPing, Has, Moves, Goes, Kind, Down
  <2>2. /\ chan'[<<Queue, w>>] = Tail(chan[<<Queue, w>>]) /\ chan'[<<w, Queue>>] = Append(chan[<<w, Queue>>], <<"pong">>)
        /\ \A ch \in Channels \ {<<Queue, w>>, <<w, Queue>>} : chan'[ch] = chan[ch]
    BY <1>1, <2>1, WorkerAnswers
  <2>3. Down(w)' = <<>> /\ Up(w)' = Append(<<>>, <<"pong">>)
    BY <1>3, <2>1, <2>2 DEF Down, Up
  <2> QED BY <1>1, <1>4, <2>1, <2>2, <2>3
<1>8. CASE WorkerPong(w) \/ Rejected(w) \/ Accepted(w)
  <2>1. /\ chan[<<Queue, w>>] # <<>> /\ chan' = Received(Queue, w)
        /\ \/ st[w] = "test2" /\ st'[w] = "ask" /\ Kind(Down(w)) = "pong"
           \/ st[w] = "poll" /\ st'[w] = "ask" /\ Kind(Down(w)) = "rejected"
           \/ st[w] = "poll" /\ st'[w] = "evaluate" /\ Kind(Down(w)) = "accepted"
    BY <1>1, <1>8 DEF WorkerPong, Rejected, Accepted, Has, Moves, Goes, Kind, Down
  <2> QED BY <1>4, <1>5, <2>1
<1>9. CASE Ask(w)
  <2>1. st[w] = "ask" /\ st'[w] = "poll" /\ chan' = [chan EXCEPT ![<<w, Queue>>] = Append(@, <<"dequeue">>)]
    BY <1>1, <1>9 DEF Ask, Moves, Goes
  <2>2. /\ chan'[<<w, Queue>>] = Append(chan[<<w, Queue>>], <<"dequeue">>)
        /\ \A ch \in Channels \ {<<w, Queue>>} : chan'[ch] = chan[ch]
    BY <1>1, <2>1, SentIs
  <2>3. Down(w) = <<>> /\ Up(w) = <<>>
    BY <1>2, <2>1 DEF Ring
  <2> QED BY <1>1, <1>4, <2>1, <2>2, <2>3 DEF Down, Up
<1>10. CASE Evaluate(w)
  <2>1. st[w] = "evaluate" /\ st'[w] = "ask" /\ chan' = [chan EXCEPT ![<<w, Master>>] = Append(@, <<"result">>)]
    BY <1>1, <1>10 DEF Evaluate, Moves, Goes
  <2>2. /\ chan'[<<w, Master>>] = Append(chan[<<w, Master>>], <<"result">>)
        /\ \A ch \in Channels \ {<<w, Master>>} : chan'[ch] = chan[ch]
    BY <1>1, <2>1, SentIs
  <2>3. Down(w) = <<>> /\ Up(w) = <<>>
    BY <1>2, <2>1 DEF Ring
  <2> QED BY <1>1, <1>4, <2>1, <2>2, <2>3 DEF Down, Up
<1> QED BY <1>6, <1>7, <1>8, <1>9, <1>10 DEF WorkerStep

\* A step of a worker is one of the test, or of its loop.
LEMMA WorkerTest ==
  ASSUME LifeInv, Types, TestInv, NEW w \in Workers, WorkerStep(w)
  PROVE  TestInv'
<1> USE Distinct
<1>1. /\ UNCHANGED <<masterVars, registered, tasks>>
      /\ \A c \in Children \ {w} : st'[c] = st[c]
      /\ \A ch \in Channels \ {<<Queue, w>>, <<w, Queue>>, <<w, Master>>} : chan'[ch] = chan[ch]
  BY WorkerEffect
<1>2. st'[Queue] = st[Queue] /\ (QueueStarts' <=> QueueStarts) /\ (QueueRuns' <=> QueueRuns)
  BY <1>1 DEF QueueStarts, QueueRuns
<1>3. ASSUME NEW v \in Workers, v # w PROVE Ring(v)' /\ Up(v)' = Up(v)
  <2>1. Down(v)' = Down(v) /\ Up(v)' = Up(v) /\ st'[v] = st[v]
    BY <1>1, <1>3 DEF Down, Up
  <2> QED BY <1>1, <1>2, <2>1, RingSame DEF TestInv
<1>4. Ring(w) /\ Len(<<>>) = 0 /\ Down(w) \in Seq(Messages) /\ Up(w) \in Seq(Messages)
  BY OneMessage, ChannelTypes DEF TestInv
<1>5. st'[w] # "none" /\ Ring(w)'
  <2>1. CASE UNCHANGED chan /\ st[w] = "forked" /\ st'[w] = "test1"
    BY <1>1, <1>2, <1>4, <2>1 DEF Ring, Down, Up
  <2>2. CASE UNCHANGED chan /\ st'[w] = "escaped"
    <3>1. Down(w)' = Down(w) /\ Up(w)' = Up(w) /\ st'[w] \notin Alive
      BY <2>2 DEF Down, Up, Alive
    <3> QED BY <1>2, <1>4, <2>2, <3>1, RingEnd
  <2>3. CASE /\ st[w] = "test1" /\ st'[w] = "test2" /\ Kind(Down(w)) = "ping"
             /\ Down(w)' = <<>> /\ Up(w)' = Append(<<>>, <<"pong">>)
    <3>1. Down(w) # <<>>
      BY <2>3 DEF Kind
    <3>2. w \in registered' /\ ~QueueStarts'
      BY <1>1, <1>2, <1>4, <2>3, <3>1 DEF Ring
    <3>3. Kind(Up(w)') = "pong" /\ Len(Up(w)') = 1
      BY <2>3, OneMessage
    <3> QED BY <1>4, <2>3, <3>2, <3>3 DEF Ring, Down, Up
  <2>4. CASE st'[w] \in {"ask", "evaluate"} /\ st[w] \in {"test2", "poll", "evaluate"} /\ Down(w)' = <<>> /\ Up(w)' = <<>>
    <3>1. ~QueueStarts'
      BY <1>2, <1>4, <2>4 DEF Ring
    <3> QED BY <1>4, <2>4, <3>1 DEF Ring, Down, Up
  <2>5. CASE st[w] = "ask" /\ st'[w] = "poll" /\ Down(w)' = <<>> /\ Up(w)' = Append(<<>>, <<"dequeue">>)
    <3>1. ~QueueStarts'
      BY <1>2, <1>4, <2>5 DEF Ring
    <3>2. Len(Up(w)') = 1
      BY <2>5, OneMessage
    <3> QED BY <1>4, <2>5, <3>1, <3>2 DEF Ring, Down, Up
  <2> QED BY <2>1, <2>2, <2>3, <2>4, <2>5, WorkerEffect
<1>6. \A c \in Children : st[c] # "none" => st'[c] # "none"
  BY <1>1, <1>5
<1>7. ~instance => Up(w)' = <<>>
  <2> SUFFICES ASSUME ~instance PROVE Up(w)' = <<>>
    OBVIOUS
  <2>1. QueueStarts
    BY DEF LifeInv, InstanceInv, QueueStarts
  <2>2. Up(w) = <<>> /\ Down(w) = <<>> /\ st[w] \notin {"test2", "ask", "poll", "evaluate"}
    BY <1>4, <2>1 DEF Ring
  <2>3. Kind(Down(w)) = "none"
    BY <2>2 DEF Kind
  <2>4. UNCHANGED chan
    BY <2>2, <2>3, WorkerEffect
  <2> QED BY <2>2, <2>4 DEF Up
<1>8. \A v \in Workers : Ring(v)'
  BY <1>3, <1>5
<1>9. ~instance => \A v \in Workers : Up(v)' = <<>>
  BY <1>3, <1>7 DEF TestInv
<1> QED BY <1>1, <1>2, <1>6, <1>8, <1>9 DEF TestInv, masterVars

\* What the start of the queue does.
LEMMA StartEffect ==
  ASSUME LifeInv, Types, TestInv, StartQueue
  PROVE  /\ UNCHANGED <<masterVars, tasks>> /\ st[Queue] = "forked" /\ st'[Queue] = "test"
         /\ \A c \in Workers : st'[c] = st[c]
         /\ registered' = {Master} \cup Workers
         /\ chan'[MQ] = chan[MQ] /\ chan'[QM] = Append(chan[QM], <<"ping">>)
         /\ \A w \in Workers :
               /\ Down(w) = <<>> /\ Down(w)' = Append(<<>>, <<"ping">>) /\ Up(w) = <<>> /\ Up(w)' = <<>>
               /\ chan'[<<w, Master>>] = chan[<<w, Master>>] /\ chan'[<<Master, w>>] = chan[<<Master, w>>]
<1> USE Distinct
<1>1. st \in [Children -> States] /\ DOMAIN chan = Channels
  BY DEF LifeInv, Shapes
<1>2. /\ UNCHANGED <<masterVars, tasks>> /\ st[Queue] = "forked" /\ st' = [st EXCEPT ![Queue] = "test"]
      /\ registered' = {Master} \cup Workers
      /\ chan' = [ch \in Channels |-> IF ch[1] = Queue THEN Append(chan[ch], <<"ping">>) ELSE chan[ch]]
  BY DEF StartQueue, Goes
<1>3. st'[Queue] = "test" /\ \A c \in Workers : st'[c] = st[c]
  BY <1>1, <1>2
<1>4. chan'[MQ] = chan[MQ] /\ chan'[QM] = Append(chan[QM], <<"ping">>)
  <2>1. MQ[1] # Queue /\ QM[1] = Queue
    BY DEF MQ, QM
  <2> QED BY <1>2, <2>1
<1>5. ASSUME NEW w \in Workers
      PROVE  /\ Down(w) = <<>> /\ Down(w)' = Append(<<>>, <<"ping">>) /\ Up(w) = <<>> /\ Up(w)' = <<>>
             /\ chan'[<<w, Master>>] = chan[<<w, Master>>] /\ chan'[<<Master, w>>] = chan[<<Master, w>>]
  <2>1. Down(w) = <<>> /\ Up(w) = <<>>
    BY <1>2 DEF TestInv, Ring, QueueStarts
  <2>2. <<Master, w>> \in Channels
    BY DEF Channels
  <2>3. /\ chan'[<<Queue, w>>] = Append(chan[<<Queue, w>>], <<"ping">>) /\ chan'[<<w, Queue>>] = chan[<<w, Queue>>]
        /\ chan'[<<w, Master>>] = chan[<<w, Master>>] /\ chan'[<<Master, w>>] = chan[<<Master, w>>]
    BY <1>2, <2>2
  <2> QED BY <2>1, <2>3 DEF Down, Up
<1> QED BY <1>2, <1>3, <1>4, <1>5

\* What the queue's test does: a pong is read; a worker's is answered; the last one
\* is the end of the test.
LEMMA TestEffect ==
  ASSUME LifeInv, Types, TestInv, NEW p \in {Master} \cup Workers, QueueTest(p)
  PROVE  /\ UNCHANGED <<masterVars, tasks>> /\ st[Queue] = "test" /\ p \in registered
         /\ st'[Queue] = IF registered' = {} THEN "poll" ELSE "test"
         /\ \A c \in Workers : st'[c] = st[c]
         /\ registered' = registered \ {p}
         /\ \A w \in Workers :
               /\ chan'[<<w, Master>>] = chan[<<w, Master>>] /\ chan'[<<Master, w>>] = chan[<<Master, w>>]
               /\ w # p => Down(w)' = Down(w) /\ Up(w)' = Up(w)
               /\ w = p => Down(w) = <<>> /\ Down(w)' = Append(<<>>, <<"pong">>) /\ Up(w)' = <<>>
         /\ chan'[QM] = IF registered' = {} THEN Append(chan[QM], <<"pong">>) ELSE chan[QM]
         /\ chan'[MQ] = IF p = Master THEN Tail(chan[MQ]) ELSE chan[MQ]
         /\ p = Master => chan[MQ] # <<>>
<1> USE Distinct
<1> DEFINE answered == IF p = Master THEN Received(p, Queue) ELSE Answered(p, Queue, <<"pong">>)
<1>1. /\ st \in [Children -> States] /\ chan \in [Channels -> Seq(Messages)] /\ <<"pong">> \in Messages
      /\ chan[<<p, Queue>>] # <<>> /\ p \in registered /\ st[Queue] = "test"
      /\ registered' = registered \ {p} /\ UNCHANGED <<masterVars, tasks>>
      /\ st' = [st EXCEPT ![Queue] = IF registered' = {} THEN "poll" ELSE "test"]
      /\ chan' = IF registered' = {} THEN [answered EXCEPT ![QM] = Append(@, <<"pong">>)] ELSE answered
  BY DEF LifeInv, Shapes, Types, Messages, QueueTest, Has, Goes, Unregistered, QM
<1>2. st'[Queue] = (IF registered' = {} THEN "poll" ELSE "test") /\ \A c \in Workers : st'[c] = st[c]
  BY <1>1
<1>3. \A w \in Workers :
         /\ <<w, Queue>> # QM /\ <<Queue, w>> # QM /\ <<w, Master>> # QM /\ <<Master, w>> # QM /\ MQ # QM
         /\ <<w, Queue>> # MQ /\ <<Queue, w>> # MQ /\ <<w, Master>> # MQ /\ <<Master, w>> # MQ
         /\ <<Master, w>> \in Channels
  BY DEF MQ, QM, Channels
<1>4. /\ DOMAIN answered = Channels /\ answered[QM] = chan[QM]
      /\ answered[MQ] = IF p = Master THEN Tail(chan[MQ]) ELSE chan[MQ]
      /\ \A w \in Workers :
            /\ answered[<<w, Master>>] = chan[<<w, Master>>] /\ answered[<<Master, w>>] = chan[<<Master, w>>]
            /\ w # p => answered[<<Queue, w>>] = chan[<<Queue, w>>] /\ answered[<<w, Queue>>] = chan[<<w, Queue>>]
            /\ w = p => /\ answered[<<Queue, w>>] = Append(chan[<<Queue, w>>], <<"pong">>)
                        /\ answered[<<w, Queue>>] = Tail(chan[<<w, Queue>>])
  <2>1. CASE p = Master
    <3>1. answered = [chan EXCEPT ![MQ] = Tail(@)]
      BY <2>1 DEF Received, MQ
    <3>2. \A w \in Workers : w # p
      BY <2>1
    <3> HIDE DEF answered
    <3>3. /\ DOMAIN answered = Channels /\ answered[MQ] = Tail(chan[MQ])
          /\ \A ch \in Channels : ch # MQ => answered[ch] = chan[ch]
      BY <1>1, <3>1
    <3>4. answered[QM] = chan[QM]
      BY <3>3 DEF MQ, QM
    <3>5. ASSUME NEW w \in Workers
          PROVE  /\ answered[<<w, Master>>] = chan[<<w, Master>>] /\ answered[<<Master, w>>] = chan[<<Master, w>>]
                 /\ answered[<<Queue, w>>] = chan[<<Queue, w>>] /\ answered[<<w, Queue>>] = chan[<<w, Queue>>]
      BY <1>3, <3>3
    <3> QED BY <2>1, <3>2, <3>3, <3>4, <3>5
  <2>2. CASE p # Master
    <3>1. p \in Workers /\ answered = Answered(p, Queue, <<"pong">>)
      BY <2>2
    <3>2. /\ answered[<<p, Queue>>] = Tail(chan[<<p, Queue>>]) /\ answered[<<Queue, p>>] = Append(chan[<<Queue, p>>], <<"pong">>)
          /\ \A ch \in Channels \ {<<Queue, p>>, <<p, Queue>>} : answered[ch] = chan[ch]
      BY <1>1, <3>1, WorkerAnswers
    <3>3. DOMAIN answered = Channels
      BY <1>1, <3>1 DEF Answered
    <3> HIDE DEF answered
    <3>4. answered[QM] = chan[QM] /\ answered[MQ] = chan[MQ]
      BY <1>3, <3>1, <3>2
    <3>5. ASSUME NEW w \in Workers
          PROVE  /\ answered[<<w, Master>>] = chan[<<w, Master>>] /\ answered[<<Master, w>>] = chan[<<Master, w>>]
                 /\ w # p => answered[<<Queue, w>>] = chan[<<Queue, w>>] /\ answered[<<w, Queue>>] = chan[<<w, Queue>>]
      BY <1>3, <3>1, <3>2
    <3>6. ASSUME NEW w \in Workers, w = p
          PROVE  /\ answered[<<Queue, w>>] = Append(chan[<<Queue, w>>], <<"pong">>)
                 /\ answered[<<w, Queue>>] = Tail(chan[<<w, Queue>>])
      BY <3>2, <3>6
    <3> QED BY <2>2, <3>3, <3>4, <3>5, <3>6
  <2> QED BY <2>1, <2>2
<1> HIDE DEF answered
<1>5. /\ chan'[QM] = IF registered' = {} THEN Append(chan[QM], <<"pong">>) ELSE chan[QM]
      /\ \A ch \in Channels : ch # QM => chan'[ch] = answered[ch]
  BY <1>1, <1>4
<1>6. ASSUME NEW w \in Workers
      PROVE  /\ chan'[<<w, Master>>] = chan[<<w, Master>>] /\ chan'[<<Master, w>>] = chan[<<Master, w>>]
             /\ w # p => Down(w)' = Down(w) /\ Up(w)' = Up(w)
             /\ w = p => Down(w) = <<>> /\ Down(w)' = Append(<<>>, <<"pong">>) /\ Up(w)' = <<>>
  <2>1. /\ chan'[<<w, Master>>] = answered[<<w, Master>>] /\ chan'[<<Master, w>>] = answered[<<Master, w>>]
        /\ chan'[<<Queue, w>>] = answered[<<Queue, w>>] /\ chan'[<<w, Queue>>] = answered[<<w, Queue>>]
    BY <1>3, <1>5
  <2>2. w = p => Down(w) = <<>> /\ Tail(Up(w)) = <<>>
    <3>1. w = p => Up(w) # <<>>
      BY <1>1 DEF Up
    <3>2. Ring(w) /\ Down(w) \in Seq(Messages) /\ Up(w) \in Seq(Messages)
      BY ChannelTypes DEF TestInv
    <3> QED BY <3>1, <3>2, OneMessage DEF Ring
  <2>3. w # p => Down(w)' = Down(w) /\ Up(w)' = Up(w)
    BY <1>4, <2>1 DEF Down, Up
  <2>4. w = p => Down(w)' = Append(<<>>, <<"pong">>) /\ Up(w)' = <<>>
    BY <1>4, <2>1, <2>2 DEF Down, Up
  <2> QED BY <1>4, <2>1, <2>2, <2>3, <2>4
<1>7. chan'[MQ] = IF p = Master THEN Tail(chan[MQ]) ELSE chan[MQ]
  BY <1>3, <1>4, <1>5, ConstantsAssumption DEF MQ, QM
<1> QED BY <1>1, <1>2, <1>5, <1>6, <1>7 DEF MQ

\* What the queue's loop does: a task is taken from the master, or a worker answered.
LEMMA LoopEffect ==
  ASSUME LifeInv, Types, TestInv, Enqueue \/ \E w \in Workers : Dequeue(w)
  PROVE  /\ UNCHANGED <<masterVars, st, registered>> /\ st[Queue] = "poll" /\ chan'[QM] = chan[QM]
         /\ \A w \in Workers : chan'[<<w, Master>>] = chan[<<w, Master>>] /\ chan'[<<Master, w>>] = chan[<<Master, w>>]
         /\ \/ /\ chan[MQ] # <<>> /\ chan'[MQ] = Tail(chan[MQ]) /\ Len(tasks') = Len(tasks) + 1
               /\ \A w \in Workers : Down(w)' = Down(w) /\ Up(w)' = Up(w)
            \/ /\ chan'[MQ] = chan[MQ]
               /\ \E w \in Workers, k \in {"rejected", "accepted"} :
                     /\ Up(w) # <<>> /\ Down(w) = <<>> /\ Up(w)' = <<>> /\ Kind(Down(w)') = k /\ Len(Down(w)') = 1
                     /\ \A v \in Workers \ {w} : Down(v)' = Down(v) /\ Up(v)' = Up(v)
                     /\ k = "rejected" => tasks = <<>> /\ tasks' = tasks
                     /\ k = "accepted" => tasks # <<>> /\ tasks' = Tail(tasks)
<1> USE Distinct
<1>1. /\ st \in [Children -> States] /\ chan \in [Channels -> Seq(Messages)] /\ tasks \in Seq(Jobs)
      /\ <<"rejected">> \in Messages
  BY DEF LifeInv, Shapes, Types, Messages
<1>2. \A w \in Workers :
         /\ <<w, Queue>> # QM /\ <<Queue, w>> # QM /\ <<w, Master>> # QM /\ <<Master, w>> # QM /\ MQ # QM
         /\ <<w, Queue>> # MQ /\ <<Queue, w>> # MQ /\ <<w, Master>> # MQ /\ <<Master, w>> # MQ
         /\ <<Master, w>> \in Channels
  BY DEF MQ, QM, Channels
<1>3. MQ # QM
  BY DEF MQ, QM
<1>4. CASE Enqueue
  <2>1. /\ UNCHANGED <<masterVars, registered>> /\ st[Queue] = "poll" /\ st' = [st EXCEPT ![Queue] = "poll"]
        /\ chan[MQ] # <<>> /\ chan' = [chan EXCEPT ![MQ] = Tail(@)]
        /\ tasks' = Append(tasks, Head(chan[MQ])[2])
    BY <1>4 DEF Enqueue, Goes, Received, MQ
  <2>2. st' = st /\ Len(tasks') = Len(tasks) + 1
    BY <1>1, <2>1
  <2>3. chan'[MQ] = Tail(chan[MQ]) /\ \A ch \in Channels : ch # MQ => chan'[ch] = chan[ch]
    BY <1>1, <2>1
  <2>4. \A w \in Workers :
           /\ chan'[<<w, Master>>] = chan[<<w, Master>>] /\ chan'[<<Master, w>>] = chan[<<Master, w>>]
           /\ Down(w)' = Down(w) /\ Up(w)' = Up(w)
    BY <1>2, <2>3 DEF Down, Up
  <2> QED BY <1>3, <2>1, <2>2, <2>3, <2>4
<1>5. ASSUME NEW w \in Workers, Dequeue(w)
      PROVE  /\ UNCHANGED <<masterVars, st, registered>> /\ st[Queue] = "poll" /\ chan'[QM] = chan[QM] /\ chan'[MQ] = chan[MQ]
             /\ \A v \in Workers : chan'[<<v, Master>>] = chan[<<v, Master>>] /\ chan'[<<Master, v>>] = chan[<<Master, v>>]
             /\ \E k \in {"rejected", "accepted"} :
                   /\ Up(w) # <<>> /\ Down(w) = <<>> /\ Up(w)' = <<>> /\ Kind(Down(w)') = k /\ Len(Down(w)') = 1
                   /\ \A v \in Workers \ {w} : Down(v)' = Down(v) /\ Up(v)' = Up(v)
                   /\ k = "rejected" => tasks = <<>> /\ tasks' = tasks
                   /\ k = "accepted" => tasks # <<>> /\ tasks' = Tail(tasks)
  <2> DEFINE msg == IF NoTask THEN <<"rejected">> ELSE <<"accepted", Head(tasks)>>
  <2>1. /\ UNCHANGED <<masterVars, registered>> /\ st[Queue] = "poll" /\ st' = [st EXCEPT ![Queue] = "poll"]
        /\ chan[<<w, Queue>>] # <<>> /\ chan' = Answered(w, Queue, msg)
        /\ tasks' = IF tasks = <<>> THEN tasks ELSE Tail(tasks)
    BY <1>5 DEF Dequeue, Goes, Has, TasksLeft, NoTask
  <2>2. msg \in Messages /\ msg[1] = (IF tasks = <<>> THEN "rejected" ELSE "accepted") /\ st' = st
    BY <1>1, <2>1, HeadTail DEF Messages, NoTask
  <2> HIDE DEF msg
  <2>3. /\ chan'[<<w, Queue>>] = Tail(chan[<<w, Queue>>]) /\ chan'[<<Queue, w>>] = Append(chan[<<Queue, w>>], msg)
        /\ \A ch \in Channels \ {<<Queue, w>>, <<w, Queue>>} : chan'[ch] = chan[ch]
    <3>1. /\ Answered(w, Queue, msg)[<<w, Queue>>] = Tail(chan[<<w, Queue>>])
          /\ Answered(w, Queue, msg)[<<Queue, w>>] = Append(chan[<<Queue, w>>], msg)
          /\ \A ch \in Channels \ {<<Queue, w>>, <<w, Queue>>} : Answered(w, Queue, msg)[ch] = chan[ch]
      <4>1. chan \in [Channels -> Seq(Messages)] /\ msg \in Messages /\ chan[<<w, Queue>>] # <<>>
        BY <1>1, <2>1, <2>2
      <4> QED BY <4>1, WorkerAnswers, Zenon
    <3> QED BY <2>1, <3>1, Zenon
  <2>4. Down(w) = <<>> /\ Tail(Up(w)) = <<>>
    <3>1. Up(w) # <<>>
      BY <2>1 DEF Up
    <3>2. Ring(w) /\ Down(w) \in Seq(Messages) /\ Up(w) \in Seq(Messages)
      BY ChannelTypes DEF TestInv
    <3> QED BY <3>1, <3>2, OneMessage DEF Ring
  <2>5. Up(w) # <<>> /\ Up(w)' = <<>> /\ Kind(Down(w)') = msg[1] /\ Len(Down(w)') = 1
    <3>1. Down(w)' = Append(<<>>, msg)
      BY <2>3, <2>4 DEF Down
    <3>2. Kind(Append(<<>>, msg)) = msg[1] /\ Len(Append(<<>>, msg)) = 1
      BY OneMessage
    <3>3. Up(w) # <<>> /\ Up(w)' = <<>>
      BY <2>1, <2>3, <2>4 DEF Up
    <3> QED BY <3>1, <3>2, <3>3
  <2>6. chan'[QM] = chan[QM] /\ chan'[MQ] = chan[MQ]
    <3>1. /\ QM \in Channels \ {<<Queue, w>>, <<w, Queue>>}
          /\ MQ \in Channels \ {<<Queue, w>>, <<w, Queue>>}
      BY <1>2
    <3> QED BY <2>3, <3>1
  <2>7. \A v \in Workers : chan'[<<v, Master>>] = chan[<<v, Master>>] /\ chan'[<<Master, v>>] = chan[<<Master, v>>]
    BY <1>2, <2>3
  <2>8. \A v \in Workers \ {w} : Down(v)' = Down(v) /\ Up(v)' = Up(v)
    BY <2>3 DEF Down, Up
  <2> QED BY <2>1, <2>2, <2>4, <2>5, <2>6, <2>7, <2>8
<1> QED BY <1>4, <1>5

\* What the queue does keeps the invariant: it answers only whom it heard of.
LEMMA QueueKeepsTest ==
  ASSUME LifeInv, Types, TestInv, \/ QueueStep \/ Enqueue
                                  \/ \E w \in Workers : Dequeue(w)
  PROVE  TestInv'
<1> USE Distinct
<1>1. CASE StartQueue
  <2>1. /\ UNCHANGED <<masterVars, tasks>> /\ st[Queue] = "forked" /\ st'[Queue] = "test"
        /\ \A c \in Workers : st'[c] = st[c]
        /\ registered' = {Master} \cup Workers
        /\ \A w \in Workers : Down(w)' = Append(<<>>, <<"ping">>) /\ Up(w)' = <<>>
    BY <1>1, StartEffect
  <2>2. instance
    BY <2>1 DEF LifeInv, QueueInv, MasterInv
  <2>3. ASSUME NEW w \in Workers PROVE Ring(w)'
    <3>1. Kind(Down(w)') = "ping" /\ Len(Down(w)') = 1 /\ Len(Up(w)') = 0
      BY <2>1, OneMessage
    <3>2. st[w] \notin {"none", "test", "test2", "ask", "poll", "evaluate"}
      BY <2>1, <2>2 DEF TestInv, Ring, QueueStarts
    <3> QED BY <2>1, <3>1, <3>2 DEF Ring, Down, Up, QueueStarts
  <2> QED BY <2>1, <2>2, <2>3 DEF TestInv, masterVars
<1>2. ASSUME NEW p \in {Master} \cup Workers, QueueTest(p)
      PROVE  TestInv'
  <2>1. /\ UNCHANGED <<masterVars, tasks>> /\ st[Queue] = "test" /\ p \in registered
        /\ st'[Queue] = IF registered' = {} THEN "poll" ELSE "test"
        /\ \A c \in Workers : st'[c] = st[c]
        /\ registered' = registered \ {p}
    BY <1>2, TestEffect
  <2>2. QueueRuns /\ ~QueueStarts'
    BY <2>1 DEF QueueRuns, QueueStarts
  <2>3. ASSUME NEW w \in Workers, w # p PROVE Ring(w)' /\ Up(w)' = Up(w)
    <3>1. Down(w)' = Down(w) /\ Up(w)' = Up(w)
      BY <1>2, <2>3, TestEffect
    <3> QED BY <2>1, <2>2, <2>3, <3>1, RingSame DEF TestInv
  <2>4. ASSUME NEW w \in Workers, w = p PROVE Ring(w)' /\ Up(w)' = <<>>
    <3>1. Down(w)' = Append(<<>>, <<"pong">>) /\ Up(w)' = <<>>
      BY <1>2, <2>4, TestEffect
    <3>2. Up(w) # <<>>
      BY <1>2, <2>4 DEF QueueTest, Has, Up
    <3>3. st[w] \notin {"none", "test", "forked", "test1", "ask", "evaluate"}
      BY <3>2 DEF TestInv, Ring
    <3>4. Kind(Down(w)') = "pong" /\ Len(Down(w)') = 1 /\ Len(Up(w)') = 0
      BY <3>1, OneMessage
    <3> QED BY <2>1, <2>2, <3>1, <3>3, <3>4 DEF Ring, Down, Up
  <2> QED BY <2>1, <2>3, <2>4 DEF TestInv, masterVars
<1>3. CASE Enqueue \/ \E w \in Workers : Dequeue(w)
  <2>1. UNCHANGED <<masterVars, st, registered>> /\ st[Queue] = "poll"
    BY <1>3, LoopEffect
  <2>2. registered = {} /\ QueueRuns /\ ~QueueStarts' /\ (QueueRuns' <=> QueueRuns)
    BY <2>1 DEF TestInv, QueueRuns, QueueStarts
  <2>3. ASSUME NEW v \in Workers, Down(v)' = Down(v), Up(v)' = Up(v) PROVE Ring(v)'
    BY <2>1, <2>2, <2>3, RingSame DEF TestInv
  <2>4. ASSUME NEW w \in Workers, NEW k \in {"rejected", "accepted"}, Up(w) # <<>>, Down(w) = <<>>,
               Up(w)' = <<>>, Kind(Down(w)') = k, Len(Down(w)') = 1
        PROVE  Ring(w)'
    <3>1. Kind(Down(w)) = "none" /\ Len(Up(w)') = 0
      BY <2>4, OneMessage
    <3>2. st[w] \notin {"none", "test", "forked", "test1", "test2", "ask", "evaluate"}
      BY <2>2, <2>4, <3>1 DEF TestInv, Ring
    <3> QED BY <2>1, <2>2, <2>4, <3>1, <3>2 DEF Ring, Down, Up
  <2>5. CASE \A w \in Workers : Down(w)' = Down(w) /\ Up(w)' = Up(w)
    BY <2>1, <2>3, <2>5 DEF TestInv, masterVars
  <2>6. CASE \E w \in Workers, k \in {"rejected", "accepted"} :
               /\ Up(w) # <<>> /\ Down(w) = <<>> /\ Up(w)' = <<>> /\ Kind(Down(w)') = k /\ Len(Down(w)') = 1
               /\ \A v \in Workers \ {w} : Down(v)' = Down(v) /\ Up(v)' = Up(v)
    <3>1. \A v \in Workers : Ring(v)' /\ (Up(v)' = Up(v) \/ Up(v)' = <<>>)
      BY <2>3, <2>4, <2>6
    <3> QED BY <2>1, <3>1 DEF TestInv, masterVars
  <2> QED BY <1>3, <2>5, <2>6, LoopEffect
<1> QED BY <1>1, <1>2, <1>3 DEF QueueStep

\* The queue is forked after the workers.
LEMMA QueueIsLast == \A c \in Children : c < Queue + 1
<1>1. N \in Nat \ {0}
  BY ConstantsAssumption
<1> QED BY <1>1 DEF Children, Queue

\* A step that leaves the channels between the queue and the workers alone, and
\* the children where they are or ended.
LEMMA KeepsTest ==
  ASSUME TestInv, UNCHANGED <<registered, instance>>,
         pc' = "fork" => i' = 1 \/ (pc = "fork" /\ i' = i),
         \A w \in Workers : Down(w)' = Down(w) /\ Up(w)' = Up(w),
         \A c \in Children : st'[c] = st[c] \/ st'[c] \notin Alive
  PROVE  TestInv'
<1> USE Distinct
<1>1. (QueueStarts' => QueueStarts) /\ (QueueRuns' => QueueRuns)
  BY DEF QueueStarts, QueueRuns, Alive
<1>2. ASSUME NEW w \in Workers PROVE Ring(w)'
  <2>1. CASE st'[w] = st[w]
    BY <1>1, <2>1, RingSame DEF TestInv
  <2>2. CASE st'[w] \notin Alive
    BY <1>1, <2>2, RingEnd DEF TestInv
  <2> QED BY <2>1, <2>2
<1>3. pc' = "fork" => \A c \in Children : c < i' => st'[c] # "none"
  <2>1. \A c \in Children : ~(c < 1)
    BY ConstantsAssumption DEF Children
  <2>2. \A c \in Children : st[c] # "none" => st'[c] # "none"
    BY DEF Alive
  <2> QED BY <2>1, <2>2 DEF TestInv
<1>4. /\ instance => \A c \in Children : st'[c] # "none"
      /\ st'[Queue] \notin {"test1", "test2", "ask", "evaluate"}
      /\ st'[Queue] = "poll" => registered' = {}
  BY DEF TestInv, Alive
<1> QED BY <1>2, <1>3, <1>4 DEF TestInv

\* What the master does, but for the beginning and the end of an instance.
LEMMA MasterKeepsTest ==
  ASSUME LifeInv, Types, TestInv,
         \/ \E j \in Jobs : AddJob(j) \/ RemoveJob(j) \/ Call(j)
         \/ Terminate \/ TestPing \/ TestPong \/ Send \/ Fail \/ ShutDown
         \/ \E w \in Workers : Retrieve(w)
  PROVE  TestInv'
<1> USE Distinct
<1>1. UNCHANGED <<st, registered, instance>> /\ (pc' = "fork" => i' = 1)
  <2>1. ASSUME NEW j \in Jobs, AddJob(j) \/ RemoveJob(j) \/ Call(j)
        PROVE  UNCHANGED <<st, registered, instance>> /\ (pc' = "fork" => i' = 1)
    BY <2>1 DEF AddJob, RemoveJob, Call, childVars
  <2>2. CASE TestPing \/ TestPong \/ Send
    BY <2>2 DEF TestPing, TestPong, Send, childVars
  <2>3. ASSUME NEW w \in Workers, Retrieve(w)
        PROVE  UNCHANGED <<st, registered, instance>> /\ (pc' = "fork" => i' = 1)
    BY <2>3 DEF Retrieve, childVars
  <2>4. CASE Terminate \/ Fail \/ ShutDown
    BY <2>4 DEF Terminate, Fail, ShutDown, childVars
  <2> QED BY <2>1, <2>2, <2>3, <2>4
<1>2. \A w \in Workers :
         /\ <<w, Queue>> # QM /\ <<Queue, w>> # QM /\ <<w, Queue>> # MQ /\ <<Queue, w>> # MQ
         /\ \A v \in Workers : <<w, Queue>> # <<v, Master>> /\ <<Queue, w>> # <<v, Master>>
  BY DEF MQ, QM
<1>3. \A w \in Workers : chan'[<<Queue, w>>] = chan[<<Queue, w>>] /\ chan'[<<w, Queue>>] = chan[<<w, Queue>>]
  <2>1. CASE TestPing
    <3>1. chan' = Answered(Queue, Master, <<"pong">>)
      BY <2>1 DEF TestPing
    <3>2. \A ch \in Channels \ {MQ, QM} : chan'[ch] = chan[ch]
      <4>1. DOMAIN chan = Channels
        BY DEF LifeInv, Shapes
      <4> QED BY <3>1, <4>1 DEF Answered, MQ, QM
    <3> QED BY <1>2, <3>2
  <2>2. CASE TestPong
    <3>1. chan' = [chan EXCEPT ![QM] = Tail(@)]
      BY <2>2 DEF TestPong, Received, QM
    <3> QED BY <1>2, <3>1
  <2>3. CASE Send
    <3>1. chan' = [chan EXCEPT ![MQ] = Append(@, <<"enqueue", job>>)]
      BY <2>3 DEF Send, MQ
    <3> QED BY <1>2, <3>1
  <2>4. ASSUME NEW v \in Workers, Retrieve(v)
        PROVE  \A w \in Workers : chan'[<<Queue, w>>] = chan[<<Queue, w>>] /\ chan'[<<w, Queue>>] = chan[<<w, Queue>>]
    <3>1. chan' = [chan EXCEPT ![<<v, Master>>] = Tail(@)]
      BY <2>4 DEF Retrieve, Received
    <3> QED BY <1>2, <3>1
  <2>5. CASE \/ \E j \in Jobs : AddJob(j) \/ RemoveJob(j) \/ Call(j)
             \/ Terminate \/ Fail \/ ShutDown
    BY <2>5 DEF AddJob, RemoveJob, Call, Terminate, Fail, ShutDown
  <2> QED BY <2>1, <2>2, <2>3, <2>4, <2>5
<1>4. \A w \in Workers : Down(w)' = Down(w) /\ Up(w)' = Up(w)
  BY <1>3 DEF Down, Up
<1> QED BY <1>1, <1>4, KeepsTest

\* The beginning and the end of an instance, and of a child.
LEMMA LifeKeepsTest ==
  ASSUME LifeInv, Types, TestInv,
         \/ Fork \/ Kill \/ Wait \/ Destroy
         \/ \E c \in Children : EndStep(c) \/ Abort(c) \/ Crash(c)
  PROVE  TestInv'
<1> USE Distinct
<1>1. st \in [Children -> States]
  BY DEF LifeInv, Shapes
<1>2. CASE Fork
  <2>1. /\ pc = "fork" /\ ~instance /\ i \in Children /\ st[Queue] = "none"
        /\ st' = [st EXCEPT ![i] = "forked"] /\ i' = i + 1 /\ instance' = (i = Queue)
        /\ UNCHANGED <<registered, chan>>
        /\ \A c \in Children : c < i => st[c] # "none"
    BY <1>2 DEF Fork, LifeInv, MasterInv, InstanceInv, TestInv
  <2>2. \A c \in Children : st'[c] = IF c = i THEN "forked" ELSE st[c]
    BY <1>1, <2>1
  <2>3. \A c \in Children : c < i + 1 => st'[c] # "none"
    <3>1. \A c \in Children : c < i + 1 => c < i \/ c = i
      BY <2>1, ConstantsAssumption DEF Children
    <3> QED BY <2>1, <2>2, <3>1
  <2>4. instance' => \A c \in Children : st'[c] # "none"
    <3>1. i = Queue => \A c \in Children : c < i + 1
      BY QueueIsLast, Zenon
    <3>2. instance' => i = Queue
      BY <1>2, Zenon DEF Fork
    <3> QED BY <2>3, <3>1, <3>2, Zenon
  <2>5. ASSUME NEW w \in Workers PROVE Ring(w)' /\ Up(w)' = <<>>
    <3>1. Down(w) = <<>> /\ Up(w) = <<>> /\ st[w] \notin {"test", "test2", "ask", "poll", "evaluate"}
      BY <2>1 DEF TestInv, Ring, QueueStarts
    <3>2. Down(w)' = <<>> /\ Up(w)' = <<>>
      BY <2>1, <3>1 DEF Down, Up
    <3>3. st'[w] \notin {"test", "test2", "ask", "poll", "evaluate"} /\ st'[Queue] \in {"none", "forked"}
      BY <2>1, <2>2, <3>1
    <3> QED BY <3>2, <3>3, OneMessage DEF Ring, QueueRuns
  <2>6. st'[Queue] \in {"none", "forked"}
    BY <2>1, <2>2
  <2> QED BY <2>1, <2>3, <2>4, <2>5, <2>6 DEF TestInv
<1>3. CASE Kill \/ Wait
  <2>1. UNCHANGED <<registered, instance, chan>> /\ pc' # "fork"
    BY <1>3 DEF Kill, Wait, masterVars
  <2>2. \A c \in Children : st'[c] = st[c] \/ st'[c] \notin Alive
    <3>1. CASE Kill
      BY <1>1, <3>1 DEF Kill, Alive
    <3>2. CASE Wait
      BY <1>1, <3>2 DEF Wait, Alive
    <3> QED BY <1>3, <3>1, <3>2
  <2>3. UNCHANGED <<registered, instance>> /\ \A w \in Workers : Down(w)' = Down(w) /\ Up(w)' = Up(w)
    BY <2>1 DEF Down, Up
  <2> QED BY <2>1, <2>2, <2>3, KeepsTest
<1>4. CASE Destroy
  <2>1. /\ pc' = "program" /\ instance' = FALSE
        /\ st' = [c \in Children |-> "none"] /\ chan' = [ch \in Channels |-> <<>>]
    BY <1>4 DEF Destroy
  <2>2. \A c \in Children : st'[c] = "none"
    BY <2>1
  <2>3. \A w \in Workers : Down(w)' = <<>> /\ Up(w)' = <<>>
    BY <2>1 DEF Down, Up
  <2>4. \A w \in Workers : Ring(w)'
    BY <2>2, <2>3, OneMessage DEF Ring, QueueRuns
  <2> QED BY <2>1, <2>2, <2>3, <2>4 DEF TestInv
<1>5. CASE \E c \in Children : EndStep(c) \/ Abort(c) \/ Crash(c)
  <2>1. UNCHANGED <<masterVars, registered, chan>>
    BY <1>5 DEF EndStep, Stop, ConnectionClosed, Closing, Abort, Crash, Moves, Goes
  <2>2. \E c \in Children : \E s \in {"exit0", "exit1", "escaped", "aborted", "crashed", "closing", "closingInTest"} :
           st' = [st EXCEPT ![c] = s]
    BY <1>5 DEF EndStep, Stop, ConnectionClosed, Noticed, Closing, Abort, Crash, Moves, Goes
  <2>3. \A c \in Children : st'[c] = st[c] \/ st'[c] \notin Alive
    BY <1>1, <2>2 DEF Alive
  <2>4. (pc' = "fork" => pc = "fork" /\ i' = i) /\ UNCHANGED <<registered, instance>>
    BY <2>1 DEF masterVars
  <2>5. \A w \in Workers : Down(w)' = Down(w) /\ Up(w)' = Up(w)
    BY <2>1 DEF Down, Up
  <2> QED BY <2>3, <2>4, <2>5, KeepsTest
<1> QED BY <1>2, <1>3, <1>4, <1>5

\* Every step keeps the invariant of the test.
LEMMA NextTest ==
  ASSUME LifeInv, Types, TestInv, [Next]_vars
  PROVE  TestInv'
<1>1. CASE UNCHANGED vars
  BY <1>1 DEF vars, masterVars, childVars, TestInv, Ring, Down, Up, QueueStarts, QueueRuns
<1>2. CASE \/ \E j \in Jobs : AddJob(j) \/ RemoveJob(j) \/ Call(j)
           \/ Terminate \/ Working
  BY <1>2, MasterKeepsTest, LifeKeepsTest DEF Working
<1>3. CASE \/ \E w \in Workers : WorkerStep(w) \/ Dequeue(w)
           \/ QueueStep \/ Enqueue
           \/ \E c \in Children : EndStep(c) \/ Abort(c) \/ Crash(c)
  BY <1>3, WorkerTest, QueueKeepsTest, LifeKeepsTest
<1> QED BY <1>1, <1>2, <1>3 DEF Next

LEMMA InitTest == Init => TestInv
<1> SUFFICES ASSUME Init PROVE TestInv
  OBVIOUS
<1> USE Distinct
<1>1. \A w \in Workers : Down(w) = <<>> /\ Up(w) = <<>>
  BY DEF Init, Down, Up
<1>2. \A c \in Children : st[c] = "none"
  BY DEF Init
<1>3. \A w \in Workers : Ring(w)
  BY <1>1, <1>2, OneMessage DEF Ring, QueueRuns
<1> QED BY <1>1, <1>2, <1>3 DEF Init, TestInv

\* When the master sends its first task, the queue has heard of every worker, and
\* what the worker still has to read of the test is on its way: no worker takes
\* a task for a pong or asks for one before it is registered as connected, for any
\* number of workers and however often the instance was ended and forked again.
THEOREM TestCompletes == Spec => []TestIsComplete
<1>1. LifeInv /\ [Next]_vars => LifeInv'
  BY NextLifeInv
<1>2. LifeInv /\ Types /\ CalmInv /\ [Next]_vars => Types' /\ CalmInv'
  BY NextCalm
<1>3. LifeInv /\ Types /\ TestInv /\ [Next]_vars => TestInv'
  BY NextTest
<1>4. LifeInv /\ Types /\ CalmInv /\ TestInv => TestIsComplete
  <2> USE Distinct
  <2> SUFFICES ASSUME LifeInv, Types, CalmInv, TestInv,
                      pc \in {"send", "retrieve"}, initialized, crashes = 0,
                      NEW w \in Workers
               PROVE  /\ st[w] \notin {"none", "forked", "test1"}
                      /\ st[w] = "test2" => Has(Queue, w, "pong")
    BY DEF TestIsComplete
  <2>1. \A c \in Children : st[c] \in Alive /\ st[c] # "none"
    <3>1. instance
      BY DEF LifeInv, MasterInv
    <3>2. Calm
      BY DEF Calm
    <3> QED BY <3>1, <3>2 DEF CalmInv, TestInv
  <2>2. st[Queue] = "poll"
    BY <2>1 DEF LifeInv, QueueInv, TestInv, Alive
  <2>3. registered = {} /\ QueueRuns
    BY <2>2 DEF TestInv, QueueRuns
  <2>4. st[w] \notin {"forked", "test1"} /\ (st[w] = "test2" => Kind(Down(w)) = "pong")
    BY <2>3 DEF TestInv, Ring
  <2> QED BY <2>1, <2>4 DEF Kind, Down, Has
<1> QED BY <1>1, <1>2, <1>3, <1>4, InitLifeInv, InitCalm, InitTest, PTL DEF Spec

-----------------------------------------------------------------------------
(* Where the task is *)

\* What a task of a call passes through, from the master's message to its result.
Places == ({"sent", "queued"} \X {Master}) \cup ({"accepted", "evaluate", "result"} \X Workers)

Holds(p) ==
  \/ p[1] = "sent" /\ chan[MQ] # <<>>
  \/ p[1] = "queued" /\ tasks # <<>>
  \/ p[1] = "accepted" /\ Kind(Down(p[2])) = "accepted"
  \/ p[1] = "evaluate" /\ st[p[2]] = "evaluate"
  \/ p[1] = "result" /\ chan[<<p[2], Master>>] # <<>>

None == \A p \in Places : ~Holds(p)
AtMostOne == \A p, q \in Places : Holds(p) /\ Holds(q) => p = q
SomeClosed == \E c \in Children : Closed(c)

\* The master sends the task when there is no other: it has the last pong of the
\* queue, which took all before from its channel, or the result of the last task.
\* A call that failed may leave its task behind, but then a connection is closed.
WhenSent ==
  /\ pc = "testPing" => None
  /\ pc = "testPong" => \A p \in Places : Holds(p) => p[1] = "sent"
  /\ pc = "testPong" /\ (chan[QM] # <<>> \/ st[Queue] = "poll") => None
  /\ pc = "testPong" /\ st[Queue] = "poll" => chan[QM] # <<>>
  /\ pc \in {"program", "send"} => None \/ SomeClosed
  /\ ~instance => None

Short ==
  /\ Len(chan[MQ]) <= 1 /\ Len(chan[QM]) <= 1 /\ Len(tasks) <= 1
  /\ \A w \in Workers : Len(chan[<<w, Master>>]) <= 1 /\ chan[<<Master, w>>] = <<>>

TaskInv == AtMostOne /\ WhenSent /\ Short

\* A place holds the task if its channel, queue or worker does.
LEMMA PlaceHolds ==
  /\ <<"sent", Master>> \in Places /\ (Holds(<<"sent", Master>>) <=> chan[MQ] # <<>>)
  /\ <<"queued", Master>> \in Places /\ (Holds(<<"queued", Master>>) <=> tasks # <<>>)
  /\ \A w \in Workers :
        /\ <<"accepted", w>> \in Places /\ (Holds(<<"accepted", w>>) <=> Kind(Down(w)) = "accepted")
        /\ <<"evaluate", w>> \in Places /\ (Holds(<<"evaluate", w>>) <=> st[w] = "evaluate")
        /\ <<"result", w>> \in Places /\ (Holds(<<"result", w>>) <=> chan[<<w, Master>>] # <<>>)
BY DEF Places, Holds

\* Every place is one of these.
LEMMA EveryPlace ==
  ASSUME NEW p \in Places
  PROVE  \/ p = <<"sent", Master>> \/ p = <<"queued", Master>>
         \/ \E w \in Workers : p = <<"accepted", w>> \/ p = <<"evaluate", w>> \/ p = <<"result", w>>
BY DEF Places

\* The places after a step.
LEMMA PlacesAfter ==
  ASSUME NEW p \in Places, Holds(p)'
  PROVE  \/ p = <<"sent", Master>> /\ chan'[MQ] # <<>>
         \/ p = <<"queued", Master>> /\ tasks' # <<>>
         \/ \E w \in Workers : \/ p = <<"accepted", w>> /\ Kind(Down(w)') = "accepted"
                               \/ p = <<"evaluate", w>> /\ st'[w] = "evaluate"
                               \/ p = <<"result", w>> /\ chan'[<<w, Master>>] # <<>>
BY EveryPlace DEF Holds, Down, Kind

\* A step that hands the task from one place to another, or takes it away.
HandsOn(a, b) == Holds(a) /\ \A p \in Places : Holds(p)' => p = b

NoneMoves == \A p \in Places : Holds(p)' => Holds(p)

LEMMA Handed ==
  ASSUME AtMostOne, NoneMoves \/ \E a, b \in Places : HandsOn(a, b)
  PROVE  AtMostOne' /\ (None => None')
BY DEF AtMostOne, None, NoneMoves, HandsOn

\* A step after which the task is nowhere it was not before.
LEMMA NothingMoves ==
  ASSUME chan'[MQ] # <<>> => chan[MQ] # <<>>, tasks' # <<>> => tasks # <<>>,
         \A w \in Workers : /\ Kind(Down(w)') = "accepted" => Kind(Down(w)) = "accepted"
                            /\ st'[w] = "evaluate" => st[w] = "evaluate"
                            /\ chan'[<<w, Master>>] # <<>> => chan[<<w, Master>>] # <<>>
  PROVE  NoneMoves
<1> SUFFICES ASSUME NEW p \in Places, Holds(p)' PROVE Holds(p)
  BY DEF NoneMoves
<1>1. CASE p = <<"sent", Master>> /\ chan'[MQ] # <<>>
  BY <1>1, PlaceHolds
<1>2. CASE p = <<"queued", Master>> /\ tasks' # <<>>
  BY <1>2, PlaceHolds
<1>3. ASSUME NEW w \in Workers,
             \/ p = <<"accepted", w>> /\ Kind(Down(w)') = "accepted"
             \/ p = <<"evaluate", w>> /\ st'[w] = "evaluate"
             \/ p = <<"result", w>> /\ chan'[<<w, Master>>] # <<>>
      PROVE  Holds(p)
  BY <1>3, PlaceHolds
<1> QED BY <1>1, <1>2, <1>3, PlacesAfter

\* A sequence of at most one message is empty when one is taken.
LEMMA ShortTail ==
  ASSUME NEW S, NEW s \in Seq(S), Len(s) <= 1
  PROVE  /\ s = <<>> \/ Len(s) = 1
         /\ s # <<>> => Tail(s) = <<>>
<1>1. \A t \in Seq(S) : Len(t) \in Nat /\ (Len(t) = 0 <=> t = <<>>)
  OBVIOUS
<1>2. s = <<>> \/ Len(s) = 1
  <2>1. \A n \in Nat : n <= 1 => n = 0 \/ n = 1
    OBVIOUS
  <2> QED BY <1>1, <2>1, Zenon
<1>3. s # <<>> => Tail(s) \in Seq(S) /\ Len(Tail(s)) = Len(s) - 1
  OBVIOUS
<1>4. s # <<>> => Tail(s) \in Seq(S) /\ Len(Tail(s)) = 0
  BY <1>2, <1>3
<1> QED BY <1>1, <1>2, <1>4, Zenon

\* Sequences of one element.
LEMMA OneElement ==
  \A e : Append(<<>>, e) # <<>> /\ Len(Append(<<>>, e)) = 1
OBVIOUS

\* A child that dies does not open a connection.
LEMMA StaysClosed ==
  ASSUME SomeClosed, pc' # "fork",
         \A c \in Children : /\ st[c] \in Dead => st'[c] \in Dead
                             /\ st'[c] = "forked" => st[c] = "forked"
  PROVE  SomeClosed'
BY DEF SomeClosed, Closed

\* A step of a child by which the task is handed on, but not from the master.
LEMMA ChildWhenSent ==
  ASSUME TaskInv, UNCHANGED masterVars, chan'[QM] = chan[QM], st'[Queue] = "poll" => st[Queue] = "poll",
         \/ NoneMoves
         \/ \E a, b \in Places : HandsOn(a, b) /\ (pc = "testPong" => a[1] # "sent"),
         \A c \in Children : /\ st[c] \in Dead => st'[c] \in Dead
                             /\ st'[c] = "forked" => st[c] = "forked"
  PROVE  AtMostOne' /\ WhenSent'
<1>1. AtMostOne' /\ (None => None')
  BY Handed DEF TaskInv
<1>2. pc = "testPong" => NoneMoves
  BY DEF TaskInv, WhenSent, HandsOn
<1>3. pc \in {"program", "send"} => (SomeClosed => SomeClosed')
  BY StaysClosed DEF masterVars
<1>4. UNCHANGED <<pc, instance>>
  BY DEF masterVars
<1>5. pc' = "testPong" => \A p \in Places : Holds(p)' => p[1] = "sent"
  BY <1>2, <1>4 DEF TaskInv, WhenSent, NoneMoves
<1> QED BY <1>1, <1>3, <1>4, <1>5 DEF TaskInv, WhenSent

\* A worker takes the task from its channel, evaluates it and sends the result.
LEMMA WorkerTask ==
  ASSUME LifeInv, Types, TestInv, TaskInv, NEW w \in Workers, WorkerStep(w)
  PROVE  TaskInv'
<1> USE Distinct
<1>1. /\ UNCHANGED <<masterVars, registered, tasks>> /\ \A c \in Children \ {w} : st'[c] = st[c]
      /\ \A ch \in Channels \ {<<Queue, w>>, <<w, Queue>>, <<w, Master>>} : chan'[ch] = chan[ch]
  BY WorkerEffect
<1>2. \A v \in Workers :
         /\ MQ # <<Queue, v>> /\ MQ # <<v, Queue>> /\ MQ # <<v, Master>>
         /\ QM # <<Queue, v>> /\ QM # <<v, Queue>> /\ QM # <<v, Master>>
         /\ <<Master, v>> \in Channels /\ <<Master, v>> # <<Queue, w>>
         /\ <<Master, v>> # <<w, Queue>> /\ <<Master, v>> # <<w, Master>>
         /\ <<v, Master>> # <<Queue, w>> /\ <<v, Master>> # <<w, Queue>>
  BY DEF MQ, QM, Channels
<1>3. /\ chan'[MQ] = chan[MQ] /\ chan'[QM] = chan[QM] /\ st'[Queue] = st[Queue]
      /\ \A v \in Workers : chan'[<<Master, v>>] = chan[<<Master, v>>]
  BY <1>1, <1>2
<1>4. \A v \in Workers \ {w} : Down(v)' = Down(v) /\ st'[v] = st[v] /\ chan'[<<v, Master>>] = chan[<<v, Master>>]
  <2>1. \A v \in Workers \ {w} : <<Queue, v>> # <<Queue, w>> /\ <<Queue, v>> # <<w, Queue>> /\ <<Queue, v>> # <<w, Master>>
                                 /\ <<v, Master>> # <<w, Master>>
    OBVIOUS
  <2> QED BY <1>1, <1>2, <2>1 DEF Down
<1>5. ASSUME Kind(Down(w)') = "accepted" => Kind(Down(w)) = "accepted", st'[w] = "evaluate" => st[w] = "evaluate",
             chan'[<<w, Master>>] = chan[<<w, Master>>]
      PROVE  NoneMoves /\ Short'
  <2>1. \A v \in Workers : /\ Kind(Down(v)') = "accepted" => Kind(Down(v)) = "accepted"
                           /\ st'[v] = "evaluate" => st[v] = "evaluate"
                           /\ chan'[<<v, Master>>] # <<>> => chan[<<v, Master>>] # <<>>
    <3>1. \A v \in Workers \ {w} : Kind(Down(v)') = Kind(Down(v))
      BY <1>4
    <3> QED BY <1>4, <1>5, <3>1
  <2>2. Short'
    BY <1>1, <1>3, <1>4, <1>5 DEF TaskInv, Short
  <2> QED BY <1>1, <1>3, <2>1, <2>2, NothingMoves
<1>6. ASSUME Kind(Down(w)) = "accepted", Kind(Down(w)') = "none", st'[w] = "evaluate",
             chan'[<<w, Master>>] = chan[<<w, Master>>]
      PROVE  HandsOn(<<"accepted", w>>, <<"evaluate", w>>) /\ Short'
  <2>1. \A p \in Places : Holds(p) => p = <<"accepted", w>>
    BY <1>6, PlaceHolds DEF TaskInv, AtMostOne
  <2>2. /\ chan[MQ] = <<>> /\ tasks = <<>>
        /\ \A v \in Workers : chan[<<v, Master>>] = <<>>
        /\ \A v \in Workers \ {w} : Kind(Down(v)) # "accepted" /\ st[v] # "evaluate"
    BY <2>1, PlaceHolds
  <2>3. \A v \in Workers : /\ Kind(Down(v)') # "accepted" /\ chan'[<<v, Master>>] = <<>>
                           /\ st'[v] = "evaluate" => v = w
    <3>1. \A v \in Workers \ {w} : Kind(Down(v)') = Kind(Down(v))
      BY <1>4
    <3> QED BY <1>4, <1>6, <2>2, <3>1
  <2>4. \A p \in Places : Holds(p)' => p = <<"evaluate", w>>
    BY <1>1, <1>3, <2>2, <2>3, PlacesAfter
  <2>5. Short'
    BY <1>1, <1>3, <1>4, <1>6 DEF TaskInv, Short
  <2> QED BY <1>6, <2>4, <2>5, PlaceHolds DEF HandsOn
<1>7. ASSUME st[w] = "evaluate", st'[w] = "ask", Kind(Down(w)') = "none",
             chan'[<<w, Master>>] = Append(chan[<<w, Master>>], <<"result">>)
      PROVE  HandsOn(<<"evaluate", w>>, <<"result", w>>) /\ Short'
  <2>1. \A p \in Places : Holds(p) => p = <<"evaluate", w>>
    BY <1>7, PlaceHolds DEF TaskInv, AtMostOne
  <2>2. /\ chan[MQ] = <<>> /\ tasks = <<>>
        /\ \A v \in Workers : chan[<<v, Master>>] = <<>> /\ Kind(Down(v)) # "accepted"
        /\ \A v \in Workers \ {w} : st[v] # "evaluate"
    BY <2>1, PlaceHolds
  <2>3. \A v \in Workers : /\ Kind(Down(v)') # "accepted" /\ st'[v] # "evaluate"
                           /\ chan'[<<v, Master>>] # <<>> => v = w
    <3>1. \A v \in Workers \ {w} : Kind(Down(v)') = Kind(Down(v))
      BY <1>4
    <3> QED BY <1>4, <1>7, <2>2, <3>1
  <2>4. \A p \in Places : Holds(p)' => p = <<"result", w>>
    BY <1>1, <1>3, <2>2, <2>3, PlacesAfter
  <2>5. \A v \in Workers : Len(chan'[<<v, Master>>]) <= 1
    <3>1. Len(chan'[<<w, Master>>]) <= 1
      <4>1. chan[<<w, Master>>] = <<>>
        BY <2>2
      <4>2. chan'[<<w, Master>>] = Append(<<>>, <<"result">>)
        BY <1>7, <4>1
      <4> QED BY <4>2, OneElement
    <3>2. \A v \in Workers \ {w} : Len(chan'[<<v, Master>>]) <= 1
      BY <1>4 DEF TaskInv, Short
    <3> QED BY <3>1, <3>2, Zenon
  <2>6. Short'
    BY <1>1, <1>3, <2>5 DEF TaskInv, Short
  <2> QED BY <1>7, <2>4, <2>6, PlaceHolds DEF HandsOn
<1>8. /\ NoneMoves \/ \E a, b \in Places : HandsOn(a, b) /\ (pc = "testPong" => a[1] # "sent")
      /\ Short'
  <2>1. Kind(<<>>) = "none" /\ (UNCHANGED chan => Down(w)' = Down(w))
    BY OneMessage DEF Down
  <2>2. CASE UNCHANGED chan /\ (st'[w] = "test1" \/ st'[w] = "escaped")
    BY <1>5, <2>1, <2>2
  <2>3. CASE /\ st'[w] \in {"test2", "ask", "poll"} /\ Down(w)' = <<>> /\ chan'[<<w, Master>>] = chan[<<w, Master>>]
    BY <1>5, <2>1, <2>3
  <2>4. CASE /\ Kind(Down(w)) = "accepted" /\ st'[w] = "evaluate" /\ Down(w)' = <<>>
             /\ chan'[<<w, Master>>] = chan[<<w, Master>>]
    <3>1. HandsOn(<<"accepted", w>>, <<"evaluate", w>>) /\ Short'
      BY <1>6, <2>1, <2>4
    <3>2. <<"accepted", w>> \in Places /\ <<"evaluate", w>> \in Places /\ <<"accepted", w>>[1] # "sent"
      BY PlaceHolds
    <3> QED BY <3>1, <3>2
  <2>5. CASE /\ st[w] = "evaluate" /\ st'[w] = "ask" /\ Down(w)' = <<>>
             /\ chan'[<<w, Master>>] = Append(chan[<<w, Master>>], <<"result">>)
    <3>1. HandsOn(<<"evaluate", w>>, <<"result", w>>) /\ Short'
      BY <1>7, <2>1, <2>5
    <3>2. <<"evaluate", w>> \in Places /\ <<"result", w>> \in Places /\ <<"evaluate", w>>[1] # "sent"
      BY PlaceHolds
    <3> QED BY <3>1, <3>2
  <2> QED BY <2>2, <2>3, <2>4, <2>5, WorkerEffect
<1>9. \A c \in Children : /\ st[c] \in Dead => st'[c] \in Dead
                          /\ st'[c] = "forked" => st[c] = "forked"
  <2>1. st[w] \notin Dead /\ st'[w] # "forked"
    BY WorkerEffect DEF Dead
  <2> QED BY <1>1, <2>1
<1> QED BY <1>1, <1>3, <1>8, <1>9, ChildWhenSent DEF TaskInv

\* The queue takes the task from the master's channel and hands it to a worker.
LEMMA LoopTask ==
  ASSUME LifeInv, Types, TestInv, TaskInv, Enqueue \/ \E w \in Workers : Dequeue(w)
  PROVE  TaskInv'
<1> USE Distinct
<1>1. /\ UNCHANGED <<masterVars, st, registered>> /\ st[Queue] = "poll" /\ chan'[QM] = chan[QM]
      /\ \A w \in Workers : chan'[<<w, Master>>] = chan[<<w, Master>>] /\ chan'[<<Master, w>>] = chan[<<Master, w>>]
  BY LoopEffect
<1>2. /\ chan[MQ] = <<>> \/ Len(chan[MQ]) = 1
      /\ chan[MQ] # <<>> => Tail(chan[MQ]) = <<>>
      /\ tasks # <<>> => Tail(tasks) = <<>>
  BY ChannelTypes, ShortTail DEF Types, TaskInv, Short
<1>3. pc = "testPong" => None
  BY <1>1 DEF TaskInv, WhenSent
<1>4. Len(<<>>) = 0
  OBVIOUS
<1>5. CASE /\ chan[MQ] # <<>> /\ chan'[MQ] = Tail(chan[MQ]) /\ Len(tasks') = Len(tasks) + 1
           /\ \A w \in Workers : Down(w)' = Down(w) /\ Up(w)' = Up(w)
  <2>1. \A p \in Places : Holds(p) => p = <<"sent", Master>>
    BY <1>5, PlaceHolds DEF TaskInv, AtMostOne
  <2>2. /\ tasks = <<>>
        /\ \A w \in Workers : Kind(Down(w)) # "accepted" /\ st[w] # "evaluate" /\ chan[<<w, Master>>] = <<>>
    BY <2>1, PlaceHolds
  <2>3. \A w \in Workers : Kind(Down(w)') = Kind(Down(w))
    BY <1>5
  <2>4. \A p \in Places : Holds(p)' => p = <<"queued", Master>>
    BY <1>1, <1>2, <1>5, <2>2, <2>3, PlacesAfter
  <2>5. HandsOn(<<"sent", Master>>, <<"queued", Master>>) /\ pc # "testPong"
    BY <1>3, <1>5, <2>4, PlaceHolds DEF HandsOn, None
  <2>6. Short'
    BY <1>1, <1>2, <1>4, <1>5, <2>2 DEF TaskInv, Short
  <2>7. \E a, b \in Places : HandsOn(a, b) /\ (pc = "testPong" => a[1] # "sent")
    BY <2>5, PlaceHolds
  <2> QED BY <1>1, <2>6, <2>7, ChildWhenSent DEF TaskInv
<1>6. ASSUME chan'[MQ] = chan[MQ],
             NEW w \in Workers, Kind(Down(w)') = "rejected", tasks' = tasks,
             \A v \in Workers \ {w} : Down(v)' = Down(v)
      PROVE  TaskInv'
  <2>1. \A v \in Workers : Kind(Down(v)') = "accepted" => Kind(Down(v)) = "accepted"
    BY <1>6
  <2>2. NoneMoves
    BY <1>1, <1>6, <2>1, NothingMoves
  <2>3. Short'
    BY <1>1, <1>6 DEF TaskInv, Short
  <2> QED BY <1>1, <2>2, <2>3, ChildWhenSent DEF TaskInv
<1>7. ASSUME chan'[MQ] = chan[MQ],
             NEW w \in Workers, Kind(Down(w)') = "accepted", tasks # <<>>, tasks' = Tail(tasks),
             \A v \in Workers \ {w} : Down(v)' = Down(v)
      PROVE  TaskInv'
  <2>1. \A p \in Places : Holds(p) => p = <<"queued", Master>>
    BY <1>7, PlaceHolds DEF TaskInv, AtMostOne
  <2>2. /\ chan[MQ] = <<>>
        /\ \A v \in Workers : Kind(Down(v)) # "accepted" /\ st[v] # "evaluate" /\ chan[<<v, Master>>] = <<>>
    BY <2>1, PlaceHolds
  <2>3. \A v \in Workers : Kind(Down(v)') = "accepted" => v = w
    BY <1>7, <2>2
  <2>4. tasks' = <<>>
    BY <1>2, <1>7
  <2>5. \A p \in Places : Holds(p)' => p = <<"accepted", w>>
    BY <1>1, <1>7, <2>2, <2>3, <2>4, PlacesAfter
  <2>6. HandsOn(<<"queued", Master>>, <<"accepted", w>>)
    BY <1>7, <2>5, PlaceHolds DEF HandsOn
  <2>7. Short'
    BY <1>1, <1>4, <1>7, <2>4 DEF TaskInv, Short
  <2>8. \E a, b \in Places : HandsOn(a, b) /\ (pc = "testPong" => a[1] # "sent")
    <3>1. <<"queued", Master>> \in Places /\ <<"accepted", w>> \in Places /\ <<"queued", Master>>[1] # "sent"
      BY PlaceHolds
    <3> QED BY <2>6, <3>1
  <2> QED BY <1>1, <2>7, <2>8, ChildWhenSent DEF TaskInv
<1> QED BY <1>5, <1>6, <1>7, LoopEffect

\* The queue begins its test: nothing is sent before.
LEMMA StartTask ==
  ASSUME LifeInv, Types, TestInv, TaskInv, StartQueue
  PROVE  TaskInv'
<1> USE Distinct
<1>1. /\ UNCHANGED <<masterVars, tasks>> /\ st[Queue] = "forked" /\ st'[Queue] = "test"
      /\ \A c \in Workers : st'[c] = st[c]
      /\ chan'[MQ] = chan[MQ] /\ chan'[QM] = Append(chan[QM], <<"ping">>)
      /\ \A w \in Workers :
            /\ Down(w)' = Append(<<>>, <<"ping">>)
            /\ chan'[<<w, Master>>] = chan[<<w, Master>>] /\ chan'[<<Master, w>>] = chan[<<Master, w>>]
  BY StartEffect
<1>2. pc = "testPing" /\ pc' = "testPing" /\ chan[QM] = <<>>
  BY <1>1 DEF LifeInv, QueueInv, masterVars
<1>3. None
  BY <1>2 DEF TaskInv, WhenSent
<1>4. \A w \in Workers : Kind(Down(w)') = "ping"
  <2>1. Kind(Append(<<>>, <<"ping">>)) = "ping"
    BY OneMessage
  <2> QED BY <1>1, <2>1
<1>5. NoneMoves
  BY <1>1, <1>4, NothingMoves
<1>6. None' /\ AtMostOne'
  BY <1>3, <1>5, Handed DEF TaskInv
<1>7. Short'
  BY <1>1, <1>2, OneElement DEF TaskInv, Short
<1> QED BY <1>2, <1>6, <1>7 DEF TaskInv, WhenSent

\* When the queue has read the last pong, the master's is read.
LEMMA QueueTestTask ==
  ASSUME LifeInv, Types, TestInv, TaskInv, NEW p \in {Master} \cup Workers, QueueTest(p)
  PROVE  TaskInv'
<1> USE Distinct
<1>1. /\ UNCHANGED <<masterVars, tasks>> /\ st[Queue] = "test" /\ p \in registered
      /\ st'[Queue] = IF registered' = {} THEN "poll" ELSE "test"
      /\ \A c \in Workers : st'[c] = st[c]
      /\ registered' = registered \ {p}
      /\ chan'[QM] = IF registered' = {} THEN Append(chan[QM], <<"pong">>) ELSE chan[QM]
      /\ chan'[MQ] = IF p = Master THEN Tail(chan[MQ]) ELSE chan[MQ]
      /\ p = Master => chan[MQ] # <<>>
  BY TestEffect
<1>2. \A w \in Workers :
         /\ chan'[<<w, Master>>] = chan[<<w, Master>>] /\ chan'[<<Master, w>>] = chan[<<Master, w>>]
         /\ Kind(Down(w)') = "accepted" => Kind(Down(w)) = "accepted"
  <2> SUFFICES ASSUME NEW w \in Workers
               PROVE  /\ chan'[<<w, Master>>] = chan[<<w, Master>>] /\ chan'[<<Master, w>>] = chan[<<Master, w>>]
                      /\ Kind(Down(w)') = "accepted" => Kind(Down(w)) = "accepted"
    OBVIOUS
  <2>1. Kind(Append(<<>>, <<"pong">>)) = "pong"
    BY OneMessage
  <2>2. Down(w)' = Down(w) \/ Down(w)' = Append(<<>>, <<"pong">>)
    BY TestEffect
  <2> QED BY <2>1, <2>2, TestEffect
<1>3. p = Master => chan'[MQ] = <<>>
  BY <1>1, ChannelTypes, ShortTail DEF TaskInv, Short
<1>4. NoneMoves
  <2>1. chan'[MQ] # <<>> => chan[MQ] # <<>>
    BY <1>1, <1>3
  <2> QED BY <1>1, <1>2, <2>1, NothingMoves
<1>5. AtMostOne' /\ (None => None')
  BY <1>4, Handed DEF TaskInv
<1>6. Short'
  BY <1>1, <1>2, <1>3, OneElement DEF TaskInv, Short, LifeInv, QueueInv
<1>7. UNCHANGED <<pc, instance>> /\ pc \in {"testPing", "testPong"}
  BY <1>1 DEF masterVars, LifeInv, QueueInv
<1>8. pc = "testPong" /\ (chan'[QM] # <<>> \/ st'[Queue] = "poll") => None' /\ (st'[Queue] = "poll" => chan'[QM] # <<>>)
  <2> SUFFICES ASSUME pc = "testPong", chan'[QM] # <<>> \/ st'[Queue] = "poll"
               PROVE  None' /\ (st'[Queue] = "poll" => chan'[QM] # <<>>)
    OBVIOUS
  <2>1. chan[QM] = <<>> /\ (Master \notin registered => chan[MQ] = <<>>)
    BY <1>1 DEF LifeInv, QueueInv
  <2>2. registered' = {} /\ chan'[QM] = Append(<<>>, <<"pong">>)
    BY <1>1, <2>1
  <2>3. chan'[MQ] = <<>>
    BY <1>1, <1>3, <2>1, <2>2
  <2>4. \A q \in Places : Holds(q)' => q[1] = "sent"
    BY <1>4 DEF NoneMoves, TaskInv, WhenSent
  <2>5. None'
    BY <2>3, <2>4 DEF None, Holds
  <2> QED BY <2>2, <2>5, OneElement
<1>9. WhenSent'
  BY <1>4, <1>5, <1>7, <1>8 DEF TaskInv, WhenSent, NoneMoves
<1> QED BY <1>5, <1>6, <1>9 DEF TaskInv

\* A child that ends takes no message and hands on nothing.
LEMMA EndTask ==
  ASSUME LifeInv, TaskInv, \E c \in Children : EndStep(c) \/ Abort(c) \/ Crash(c)
  PROVE  TaskInv'
<1> USE Distinct
<1>1. st \in [Children -> States]
  BY DEF LifeInv, Shapes
<1>2. UNCHANGED <<masterVars, registered, tasks, chan>>
  BY DEF EndStep, Stop, ConnectionClosed, Closing, Abort, Crash, Moves, Goes
<1>3. \E c \in Children : \E s \in {"exit0", "exit1", "escaped", "aborted", "crashed", "closing", "closingInTest"} :
         st[c] \notin Dead /\ st' = [st EXCEPT ![c] = s]
  BY DEF EndStep, Stop, StopsAt, ConnectionClosed, Noticed, Testing, Closing, Abort, Crash, Moves, Goes, Dead
<1>4. \A c \in Children : /\ st[c] \in Dead => st'[c] \in Dead
                          /\ st'[c] = "forked" => st[c] = "forked"
                          /\ st'[c] = "evaluate" => st[c] = "evaluate"
                          /\ st'[c] = "poll" => st[c] = "poll"
  BY <1>1, <1>3
<1>5. NoneMoves
  BY <1>2, <1>4, NothingMoves DEF Down
<1> QED BY <1>2, <1>4, <1>5, ChildWhenSent DEF TaskInv, Short

\* What the master does where it neither sends nor takes the task.
LEMMA MasterKeepsTask ==
  ASSUME LifeInv, Types, TaskInv,
         \/ \E j \in Jobs : AddJob(j) \/ RemoveJob(j) \/ Call(j)
         \/ Terminate \/ Fail \/ ShutDown \/ Kill \/ Wait \/ Fork
  PROVE  TaskInv'
<1> USE Distinct
<1>1. st \in [Children -> States]
  BY DEF LifeInv, Shapes
<1>2. UNCHANGED <<registered, tasks, chan>> /\ \A c \in Children : st'[c] = "evaluate" => st[c] = "evaluate"
  <2>1. CASE \/ \E j \in Jobs : AddJob(j) \/ RemoveJob(j) \/ Call(j)
             \/ Terminate \/ Fail \/ ShutDown
    BY <2>1 DEF AddJob, RemoveJob, Call, Terminate, Fail, ShutDown, childVars
  <2>2. CASE Kill \/ Wait \/ Fork
    BY <1>1, <2>2 DEF Kill, Wait, Fork
  <2> QED BY <2>1, <2>2
<1>3. NoneMoves
  BY <1>2, NothingMoves DEF Down
<1>4. AtMostOne' /\ (None => None') /\ Short'
  BY <1>2, <1>3, Handed DEF TaskInv, Short
<1>5. ~instance => None'
  BY <1>4 DEF TaskInv, WhenSent
<1>6. ASSUME UNCHANGED st, pc' # "fork", SomeClosed PROVE SomeClosed'
  BY <1>6, StaysClosed
<1>7. ASSUME NEW j \in Jobs, AddJob(j) \/ RemoveJob(j) \/ Call(j) PROVE WhenSent'
  <2>1. /\ UNCHANGED <<instance, childVars, chan>> /\ pc = "program"
        /\ pc' \in {"program", "kill", "destroy", "send", "fork"} /\ (pc' = "fork" => ~instance)
    BY <1>7 DEF AddJob, RemoveJob, Call
  <2>2. UNCHANGED st
    BY <2>1 DEF childVars
  <2> QED BY <1>4, <1>5, <1>6, <2>1, <2>2 DEF TaskInv, WhenSent
<1>8. CASE Terminate
  BY <1>4, <1>5, <1>8 DEF Terminate, TaskInv, WhenSent
<1>9. CASE Fail
  <2>1. \E c \in Children : Closed(c)
    BY <1>9 DEF Fail, AtEnd
  <2>2. pc' = "program" /\ UNCHANGED <<instance, childVars, chan>>
    BY <1>9 DEF Fail
  <2>3. SomeClosed'
    BY <1>6, <2>1, <2>2 DEF SomeClosed, childVars
  <2> QED BY <1>4, <1>5, <2>2, <2>3 DEF TaskInv, WhenSent
<1>10. CASE ShutDown
  <2>1. /\ pc' \in {"destroy", "program"} /\ UNCHANGED <<instance, childVars, chan>>
        /\ \A c \in Children : st[c] = "reaped"
    BY <1>10 DEF ShutDown
  <2>2. SomeClosed'
    BY <2>1 DEF SomeClosed, Closed, Dead, childVars
  <2> QED BY <1>4, <1>5, <2>1, <2>2 DEF TaskInv, WhenSent
<1>11. CASE Kill \/ Wait
  <2>1. pc' \in {"kill", "wait"} /\ instance' = instance
    BY <1>11 DEF Kill, Wait, masterVars
  <2> QED BY <1>4, <1>5, <2>1 DEF TaskInv, WhenSent
<1>12. CASE Fork
  <2>1. pc' \in {"fork", "testPing"} /\ ~instance
    BY <1>12 DEF Fork, LifeInv, MasterInv
  <2> QED BY <1>4, <1>5, <2>1 DEF TaskInv, WhenSent
<1> QED BY <1>4, <1>7, <1>8, <1>9, <1>10, <1>11, <1>12 DEF TaskInv

\* The end of the instance takes its messages along.
LEMMA DestroyTask ==
  ASSUME Destroy
  PROVE  TaskInv'
<1> USE Distinct
<1>1. /\ pc' = "program" /\ tasks' = <<>> /\ \A c \in Children : st'[c] = "none"
      /\ \A ch \in Channels : chan'[ch] = <<>>
  BY DEF Destroy
<1>2. \A w \in Workers : /\ Kind(Down(w)') # "accepted" /\ st'[w] # "evaluate"
                         /\ chan'[<<w, Master>>] = <<>> /\ chan'[<<Master, w>>] = <<>>
  <2>1. \A w \in Workers : Down(w)' = <<>> /\ <<Master, w>> \in Channels
    BY <1>1 DEF Down, Channels
  <2> QED BY <1>1, <2>1, OneMessage
<1>3. None'
  <2>1. \A p \in Places : ~Holds(p)'
    BY <1>1, <1>2, PlacesAfter
  <2> QED BY <2>1 DEF None
<1> QED BY <1>1, <1>2, <1>3, OneMessage DEF TaskInv, AtMostOne, None, WhenSent, Short

\* The messages of the master: its own channels, and one at a time.
LEMMA MasterTalks ==
  ASSUME LifeInv, Types, TaskInv, TestPing \/ TestPong \/ Send
  PROVE  /\ UNCHANGED <<st, registered, tasks, instance>>
         /\ \A w \in Workers : /\ Down(w)' = Down(w) /\ chan'[<<w, Master>>] = chan[<<w, Master>>]
                               /\ chan'[<<Master, w>>] = chan[<<Master, w>>]
         /\ \/ /\ pc = "testPing" /\ pc' = "testPong" /\ chan'[QM] = <<>>
               /\ \E msg : chan'[MQ] = Append(chan[MQ], msg)
            \/ pc = "testPong" /\ pc' = "send" /\ chan[QM] # <<>> /\ chan'[QM] = <<>> /\ chan'[MQ] = chan[MQ]
            \/ /\ pc = "send" /\ pc' = "retrieve" /\ ~SomeClosed /\ chan'[QM] = chan[QM]
               /\ \E msg : chan'[MQ] = Append(chan[MQ], msg)
<1> USE Distinct
<1>1. /\ chan \in [Channels -> Seq(Messages)] /\ MQ # QM /\ <<"pong">> \in Messages
      /\ MQ \in Channels /\ QM \in Channels
  BY DEF Types, MQ, QM, Messages
<1>2. \A w \in Workers :
         /\ <<Queue, w>> \in Channels \ {MQ, QM} /\ <<w, Master>> \in Channels \ {MQ, QM}
         /\ <<Master, w>> \in Channels \ {MQ, QM}
  BY DEF MQ, QM, Channels
<1>3. chan[QM] # <<>> => Tail(chan[QM]) = <<>>
  BY <1>1, ShortTail DEF TaskInv, Short
<1>4. ASSUME \A ch \in Channels \ {MQ, QM} : chan'[ch] = chan[ch]
      PROVE  \A w \in Workers : /\ Down(w)' = Down(w) /\ chan'[<<w, Master>>] = chan[<<w, Master>>]
                                /\ chan'[<<Master, w>>] = chan[<<Master, w>>]
  BY <1>2, <1>4 DEF Down
<1>5. CASE TestPing
  <2>1. /\ pc = "testPing" /\ pc' = "testPong" /\ chan[QM] # <<>> /\ chan' = Answered(Queue, Master, <<"pong">>)
        /\ UNCHANGED <<st, registered, tasks, instance>>
    BY <1>5 DEF TestPing, Has, QM, childVars
  <2>2. /\ chan'[QM] = Tail(chan[QM]) /\ chan'[MQ] = Append(chan[MQ], <<"pong">>)
        /\ \A ch \in Channels \ {MQ, QM} : chan'[ch] = chan[ch]
    <3>1. DOMAIN chan = Channels
      BY <1>1
    <3> QED BY <2>1, <3>1 DEF Answered, QM, MQ
  <2>3. chan'[QM] = <<>>
    BY <1>3, <2>1, <2>2
  <2> QED BY <1>4, <2>1, <2>2, <2>3
<1>6. CASE TestPong
  <2>1. /\ pc = "testPong" /\ pc' = "send" /\ chan[QM] # <<>> /\ chan' = [chan EXCEPT ![QM] = Tail(@)]
        /\ UNCHANGED <<st, registered, tasks, instance>>
    BY <1>6 DEF TestPong, Has, Received, QM, childVars
  <2>2. chan'[QM] = <<>> /\ chan'[MQ] = chan[MQ] /\ \A ch \in Channels \ {MQ, QM} : chan'[ch] = chan[ch]
    BY <1>1, <1>3, <2>1
  <2> QED BY <1>4, <2>1, <2>2
<1>7. CASE Send
  <2>1. /\ pc = "send" /\ pc' = "retrieve" /\ chan' = [chan EXCEPT ![MQ] = Append(@, <<"enqueue", job>>)]
        /\ UNCHANGED <<st, registered, tasks, instance>>
    BY <1>7 DEF Send, MQ, childVars
  <2>2. ~SomeClosed
    BY <1>7 DEF Send, SomeClosed
  <2>3. /\ chan'[QM] = chan[QM] /\ chan'[MQ] = Append(chan[MQ], <<"enqueue", job>>)
        /\ \A ch \in Channels \ {MQ, QM} : chan'[ch] = chan[ch]
    BY <1>1, <2>1
  <2> QED BY <1>4, <2>1, <2>2, <2>3
<1> QED BY <1>5, <1>6, <1>7

\* The master sends one message at a time, and its task when there is no other.
LEMMA MasterSends ==
  ASSUME LifeInv, Types, TaskInv, TestPing \/ TestPong \/ Send
  PROVE  TaskInv'
<1> USE Distinct
<1>1. /\ UNCHANGED <<st, registered, tasks, instance>>
      /\ \A w \in Workers : /\ Down(w)' = Down(w) /\ chan'[<<w, Master>>] = chan[<<w, Master>>]
                            /\ chan'[<<Master, w>>] = chan[<<Master, w>>]
  BY MasterTalks
<1>2. instance
  <2>1. pc \in {"testPing", "testPong", "send"}
    BY DEF TestPing, TestPong, Send
  <2> QED BY <2>1 DEF LifeInv, MasterInv
<1>3. ASSUME None, NEW msg, chan'[MQ] = Append(chan[MQ], msg)
      PROVE  Len(chan'[MQ]) <= 1 /\ \A p \in Places : Holds(p)' => p = <<"sent", Master>>
  <2>1. chan[MQ] = <<>> /\ tasks = <<>>
    BY <1>3, PlaceHolds DEF None
  <2>2. Len(chan'[MQ]) <= 1
    BY <1>3, <2>1, OneElement
  <2>3. \A w \in Workers : Kind(Down(w)') # "accepted" /\ st'[w] # "evaluate" /\ chan'[<<w, Master>>] = <<>>
    <3>1. \A w \in Workers : Kind(Down(w)') = Kind(Down(w))
      BY <1>1
    <3> QED BY <1>1, <1>3, <3>1, PlaceHolds DEF None
  <2> QED BY <1>1, <2>1, <2>2, <2>3, PlacesAfter
<1>4. CASE /\ pc = "testPing" /\ pc' = "testPong" /\ chan'[QM] = <<>>
           /\ \E msg : chan'[MQ] = Append(chan[MQ], msg)
  <2>1. Len(chan'[MQ]) <= 1 /\ \A p \in Places : Holds(p)' => p = <<"sent", Master>>
    BY <1>3, <1>4 DEF TaskInv, WhenSent
  <2>2. AtMostOne' /\ Short'
    BY <1>1, <1>4, <2>1, OneMessage DEF AtMostOne, TaskInv, Short
  <2>3. st'[Queue] # "poll"
    BY <1>1, <1>4 DEF LifeInv, QueueInv
  <2>4. WhenSent'
    BY <1>1, <1>2, <1>4, <2>1, <2>3 DEF WhenSent
  <2> QED BY <2>2, <2>4 DEF TaskInv
<1>5. CASE pc = "testPong" /\ pc' = "send" /\ chan[QM] # <<>> /\ chan'[QM] = <<>> /\ chan'[MQ] = chan[MQ]
  <2>1. NoneMoves
    BY <1>1, <1>5, NothingMoves
  <2>2. AtMostOne' /\ None'
    BY <1>5, <2>1, Handed DEF TaskInv, WhenSent
  <2>3. Short'
    BY <1>1, <1>5, OneMessage DEF TaskInv, Short
  <2> QED BY <1>1, <1>2, <1>5, <2>2, <2>3 DEF TaskInv, WhenSent
<1>6. CASE /\ pc = "send" /\ pc' = "retrieve" /\ ~SomeClosed /\ chan'[QM] = chan[QM]
           /\ \E msg : chan'[MQ] = Append(chan[MQ], msg)
  <2>1. Len(chan'[MQ]) <= 1 /\ \A p \in Places : Holds(p)' => p = <<"sent", Master>>
    BY <1>3, <1>6 DEF TaskInv, WhenSent
  <2>2. AtMostOne' /\ Short'
    BY <1>1, <1>6, <2>1 DEF AtMostOne, TaskInv, Short
  <2> QED BY <1>1, <1>2, <1>6, <2>2 DEF TaskInv, WhenSent
<1> QED BY <1>4, <1>5, <1>6, MasterTalks

\* The master has its result: there is no task left.
LEMMA MasterReceives ==
  ASSUME LifeInv, Types, TaskInv, NEW w \in Workers, Retrieve(w)
  PROVE  TaskInv'
<1> USE Distinct
<1>1. /\ pc = "retrieve" /\ pc' = "program" /\ chan[<<w, Master>>] # <<>> /\ chan' = Received(w, Master)
      /\ UNCHANGED <<st, registered, tasks, instance>>
  BY DEF Retrieve, childVars
<1>2. /\ chan \in [Channels -> Seq(Messages)] /\ <<w, Master>> \in Channels
      /\ \A v \in Workers : /\ <<Queue, v>> # <<w, Master>> /\ <<Master, v>> # <<w, Master>>
                            /\ MQ # <<w, Master>> /\ QM # <<w, Master>> /\ <<Master, v>> \in Channels
  BY DEF Types, MQ, QM, Channels
<1>3. chan'[<<w, Master>>] = Tail(chan[<<w, Master>>]) /\ \A ch \in Channels \ {<<w, Master>>} : chan'[ch] = chan[ch]
  BY <1>1, <1>2, ReceivedIs
<1>4. chan'[<<w, Master>>] = <<>>
  BY <1>1, <1>2, <1>3, ShortTail DEF TaskInv, Short
<1>5. \A v \in Workers : v # w => chan'[<<v, Master>>] = chan[<<v, Master>>]
  <2>1. \A v \in Workers : v # w => <<v, Master>> \in Channels \ {<<w, Master>>}
    OBVIOUS
  <2> QED BY <1>3, <2>1
<1>6. /\ chan'[MQ] = chan[MQ] /\ chan'[QM] = chan[QM]
      /\ \A v \in Workers : Down(v)' = Down(v) /\ chan'[<<Master, v>>] = chan[<<Master, v>>]
  BY <1>2, <1>3 DEF Down
<1>7. NoneMoves
  <2>1. \A v \in Workers : chan'[<<v, Master>>] # <<>> => chan[<<v, Master>>] # <<>>
    BY <1>1, <1>5
  <2> QED BY <1>1, <1>6, <2>1, NothingMoves
<1>8. None'
  <2>1. \A p \in Places : Holds(p) => p = <<"result", w>>
    BY <1>1, PlaceHolds DEF TaskInv, AtMostOne
  <2>2. ~Holds(<<"result", w>>)'
    BY <1>4 DEF Holds
  <2> QED BY <1>7, <2>1, <2>2 DEF NoneMoves, None
<1>9. AtMostOne'
  BY <1>8 DEF AtMostOne, None
<1>10. Short'
  <2>1. ASSUME NEW v \in Workers PROVE Len(chan'[<<v, Master>>]) <= 1
    <3>1. CASE v = w
      BY <1>4, <3>1, OneMessage
    <3>2. CASE v # w
      BY <1>5, <3>2 DEF TaskInv, Short
    <3> QED BY <3>1, <3>2
  <2> QED BY <1>1, <1>6, <2>1 DEF TaskInv, Short
<1> QED BY <1>1, <1>8, <1>9, <1>10 DEF TaskInv, WhenSent

\* Every step keeps the invariant of the task.
LEMMA NextTask ==
  ASSUME LifeInv, Types, TestInv, TaskInv, [Next]_vars
  PROVE  TaskInv'
<1>1. CASE UNCHANGED vars
  <2>1. UNCHANGED <<pc, instance, st, tasks, chan>>
    BY <1>1 DEF vars, masterVars, childVars
  <2> QED BY <2>1 DEF TaskInv, AtMostOne, None, Holds, WhenSent, Short, SomeClosed, Closed, Kind, Down
<1>2. CASE \/ \E j \in Jobs : AddJob(j) \/ RemoveJob(j) \/ Call(j)
           \/ Terminate \/ Working
  BY <1>2, MasterKeepsTask, DestroyTask, MasterSends, MasterReceives DEF Working
<1>3. CASE \/ \E w \in Workers : WorkerStep(w) \/ Dequeue(w)
           \/ QueueStep \/ Enqueue
           \/ \E c \in Children : EndStep(c) \/ Abort(c) \/ Crash(c)
  BY <1>3, WorkerTask, LoopTask, StartTask, QueueTestTask, EndTask DEF QueueStep
<1> QED BY <1>1, <1>2, <1>3 DEF Next

LEMMA InitTask == Init => TaskInv
<1> SUFFICES ASSUME Init PROVE TaskInv
  OBVIOUS
<1> USE Distinct
<1>1. /\ chan[MQ] = <<>> /\ chan[QM] = <<>> /\ tasks = <<>> /\ pc = "program"
      /\ \A w \in Workers : /\ Kind(Down(w)) # "accepted" /\ st[w] # "evaluate"
                            /\ chan[<<w, Master>>] = <<>> /\ chan[<<Master, w>>] = <<>>
  <2>1. \A w \in Workers : Down(w) = <<>> /\ <<Master, w>> \in Channels
    BY DEF Init, Down, Channels
  <2> QED BY <2>1, OneMessage DEF Init
<1>2. None
  BY <1>1 DEF None, Holds, Places
<1> QED BY <1>1, <1>2, OneMessage DEF TaskInv, AtMostOne, None, WhenSent, Short

\* The messages of the protocol never pile up: whatever is called, fails, dies, is
\* terminated and forked again, a channel holds one message and the queue one task
\* at most, and every process is where the code can be.
THEOREM TypeCorrect == Spec => []TypeOK
<1>1. LifeInv /\ [Next]_vars => LifeInv'
  BY NextLifeInv
<1>2. LifeInv /\ Types /\ CalmInv /\ [Next]_vars => Types' /\ CalmInv'
  BY NextCalm
<1>3. LifeInv /\ Types /\ TestInv /\ [Next]_vars => TestInv'
  BY NextTest
<1>4. LifeInv /\ Types /\ TestInv /\ TaskInv /\ [Next]_vars => TaskInv'
  BY NextTask
<1>5. LifeInv /\ Types /\ TestInv /\ TaskInv => TypeOK
  <2> SUFFICES ASSUME LifeInv, Types, TestInv, TaskInv PROVE TypeOK
    OBVIOUS
  <2>1. \A w \in Workers : Len(chan[<<Queue, w>>]) <= 1 /\ Len(chan[<<w, Queue>>]) <= 1
    <3> SUFFICES ASSUME NEW w \in Workers PROVE Len(Down(w)) <= 1 /\ Len(Up(w)) <= 1
      BY DEF Down, Up
    <3>1. Down(w) \in Seq(Messages) /\ Up(w) \in Seq(Messages)
      BY ChannelTypes
    <3>2. Len(Down(w)) \in Nat /\ Len(Up(w)) \in Nat
      BY <3>1, OneMessage
    <3> QED BY <3>2 DEF TestInv, Ring
  <2>2. \A w \in Workers : Len(chan[<<Master, w>>]) <= 1 /\ Len(chan[<<w, Master>>]) <= 1
    BY OneMessage DEF TaskInv, Short
  <2>3. \A ch \in Channels : Len(chan[ch]) <= 1
    <3> SUFFICES ASSUME NEW ch \in Channels PROVE Len(chan[ch]) <= 1
      OBVIOUS
    <3>1. CASE ch \in {<<Master, Queue>>, <<Queue, Master>>}
      BY <3>1 DEF TaskInv, Short, MQ, QM
    <3>2. CASE \E w \in Workers : ch \in {<<Queue, w>>, <<w, Queue>>, <<Master, w>>, <<w, Master>>}
      BY <2>1, <2>2, <3>2
    <3> QED BY <3>1, <3>2 DEF Channels
  <2> QED BY <2>3 DEF TypeOK, Types, LifeInv, Shapes, MasterInv, TaskInv, Short
<1> QED BY <1>1, <1>2, <1>3, <1>4, <1>5, InitLifeInv, InitCalm, InitTest, InitTask, PTL DEF Spec
=============================================================================
