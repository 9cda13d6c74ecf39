--------------------------- MODULE JobManagerLife ---------------------------
(***************************************************************************)
(* The life of a JobManager: jobs are registered, the first call forks the *)
(* workers and the queue, the connections are tested, the children enter   *)
(* their event loops, and the removal of the last job, or terminate(),     *)
(* ends them with SIGTERM. A child may die unexpectedly at any time.       *)
(*                                                                         *)
(* A call has one task. Pings and pongs that are sent, and read, one right *)
(* after the other are one message.                                        *)
(***************************************************************************)
EXTENDS Naturals, Sequences

CONSTANTS N,          \* number of workers
          Jobs,       \* ids of jobs; one that was removed may come again
          MaxCrashes  \* bound: children that die unexpectedly

ASSUME ConstantsAssumption == N \in Nat \ {0} /\ MaxCrashes \in Nat

Workers == 1..N
Queue == N + 1
Children == 1..(N + 1)
Master == 0
Channels == ({Master, Queue} \X Workers) \cup (Workers \X {Master, Queue})
              \cup {<<Master, Queue>>, <<Queue, Master>>}

VARIABLES
  jobs,        \* job_objects_ of the master
  instance,    \* instance_ is set
  initialized, \* initialized_ of its ProcessManager
  known,       \* job_objects_ of the children, copied when they are forked
  pc, i,       \* where the master is, and with which child
  job,         \* the job of its call
  destroying,  \* it terminates the children in ~JobManager
  st,          \* where the children are
  sigterm,     \* sigterm_received_, and the byte in the self-pipe
  registered,  \* processes the queue still polls in the connection test
  tasks,       \* the queue's tasks: their jobs
  chan,        \* messages in the channels
  crashes,     \* number of children that died unexpectedly
  terminated,  \* history: terminate() was called on this instance
  failed       \* history: the last call threw an exception

masterVars == <<jobs, instance, initialized, known, pc, i, job, destroying,
                terminated, failed>>
childVars == <<st, sigterm, registered, tasks, crashes>>
vars == <<masterVars, childVars, chan>>

Dead == {"exit0", "exit1", "killed", "crashed", "aborted", "reaped"}
States == Dead \cup {"none", "forked", "test1", "test2", "test", "ask", "poll",
                     "evaluate", "closing", "closingInTest", "escaped"}
Testing == {"test1", "test2", "test"}

Init ==
  /\ jobs = {} /\ instance = FALSE /\ initialized = FALSE /\ known = {}
  /\ pc = "program" /\ i = 1 /\ job \in Jobs /\ destroying = FALSE
  /\ st = [c \in Children |-> "none"]
  /\ sigterm = [c \in Children |-> FALSE]
  /\ registered = {} /\ tasks = <<>>
  /\ chan = [ch \in Channels |-> <<>>]
  /\ crashes = 0 /\ terminated = FALSE /\ failed = FALSE

(* A connection is seen to be closed when the peer is dead and every       *)
(* process that was forked with a copy of its end has closed that.         *)
Closed(p) ==
  p \in Children /\ st[p] \in Dead /\ pc # "fork" /\ \A c \in Children : st[c] # "forked"

Has(p, q, msg) == chan[<<p, q>>] # <<>> /\ Head(chan[<<p, q>>])[1] = msg
AtEnd(p, q) == chan[<<p, q>>] = <<>> /\ Closed(p)

Received(p, q) == [chan EXCEPT ![<<p, q>>] = Tail(@)]
Answered(p, q, msg) ==
  [chan EXCEPT ![<<p, q>>] = Tail(@), ![<<q, p>>] = Append(@, msg)]

---------------------------------------------------------------------------
(* The master.                                                             *)
(* Mutant of MayAdd: a job may join an instance whose children are forked. *)
MayAddAlways == TRUE

(* JobManager::add_job_object: not while the instance has its children.    *)
MayAdd == ~(instance /\ initialized)

AddJob(j) ==
  /\ pc = "program" /\ j \notin jobs /\ MayAdd
  /\ jobs' = jobs \cup {j}
  /\ UNCHANGED <<instance, initialized, known, pc, i, job, destroying, terminated,
                 failed, childVars, chan>>

(* JobManager::remove_job_object: the last job takes the instance along.   *)
(* Children that terminate() has ended are not terminated again.           *)
RemoveJob(j) ==
  /\ pc = "program" /\ j \in jobs
  /\ jobs' = jobs \ {j}
  /\ IF jobs' = {} /\ instance
     THEN pc' = (IF initialized THEN "kill" ELSE "destroy") /\ destroying' = TRUE /\ i' = Queue
     ELSE UNCHANGED <<pc, i, destroying>>
  /\ UNCHANGED <<instance, initialized, known, job, terminated, failed, childVars, chan>>

(* ProcessManager::terminate, called by the program.                       *)
Terminate ==
  /\ pc = "program" /\ instance /\ initialized
  /\ pc' = "kill" /\ i' = Queue /\ destroying' = FALSE /\ terminated' = TRUE
  /\ UNCHANGED <<jobs, instance, initialized, known, job, failed, childVars, chan>>

(* An evaluation that calls Job::get_manager.                              *)
Call(j) ==
  /\ pc = "program" /\ j \in jobs
  /\ job' = j /\ failed' = FALSE
  /\ pc' = IF instance THEN "send" ELSE "fork"
  /\ i' = 1
  /\ UNCHANGED <<jobs, instance, initialized, known, destroying, terminated, childVars, chan>>

(* ProcessManager::initialize_processes: workers first, then the queue.    *)
Fork ==
  /\ pc = "fork"
  /\ st' = [st EXCEPT ![i] = "forked"]
  /\ known' = jobs
  /\ i' = i + 1
  /\ pc' = IF i = Queue THEN "testPing" ELSE pc
  /\ instance' = (i = Queue) /\ initialized' = (i = Queue)
  /\ UNCHANGED <<jobs, job, destroying, terminated, failed, sigterm, registered, tasks,
                 crashes, chan>>

(* Messenger::test_connections on the master.                              *)
TestPing ==
  /\ pc = "testPing" /\ Has(Queue, Master, "ping")
  /\ chan' = Answered(Queue, Master, <<"pong">>)
  /\ pc' = "testPong"
  /\ UNCHANGED <<jobs, instance, initialized, known, i, job, destroying, terminated,
                 failed, childVars>>

TestPong ==
  /\ pc = "testPong" /\ Has(Queue, Master, "pong")
  /\ chan' = Received(Queue, Master)
  /\ pc' = "send"
  /\ UNCHANGED <<jobs, instance, initialized, known, i, job, destroying, terminated,
                 failed, childVars>>

(* The state goes to every worker and the task to the queue.               *)
Send ==
  /\ pc = "send" /\ \A c \in Children : ~Closed(c)
  /\ chan' = [chan EXCEPT ![<<Master, Queue>>] = Append(@, <<"enqueue", job>>)]
  /\ pc' = "retrieve"
  /\ UNCHANGED <<jobs, instance, initialized, known, i, job, destroying, terminated,
                 failed, childVars>>

(* JobManager::retrieve. *)
Retrieve(w) ==
  /\ pc = "retrieve" /\ chan[<<w, Master>>] # <<>>
  /\ chan' = Received(w, Master)
  /\ pc' = "program"
  /\ UNCHANGED <<jobs, instance, initialized, known, i, job, destroying, terminated,
                 failed, childVars>>

(* A channel the master reads or writes is closed: an exception.           *)
Fail ==
  /\ \/ pc \in {"testPing", "testPong"} /\ AtEnd(Queue, Master)
     \/ pc = "testPing" /\ Has(Queue, Master, "ping") /\ Closed(Queue)
     \/ pc = "send" /\ \E c \in Children : Closed(c)
     \/ pc = "retrieve" /\ \E w \in Workers : AtEnd(w, Master)
  /\ pc' = "program" /\ failed' = TRUE
  /\ UNCHANGED <<jobs, instance, initialized, known, i, job, destroying, terminated,
                 childVars, chan>>

NextChild(c) == IF c = Queue THEN 1 ELSE c + 1

(* Mutant of Signalled: the handler sets no flag and writes no byte.       *)
SignalledNever(c) == FALSE

(* handle_sigterm. *)
Signalled(c) == st[c] \notin Dead

(* shutdown_processes: SIGTERM to the queue first. A child that has no     *)
(* handler yet dies of it; the flag and the self-pipe are set in others.   *)
Kill ==
  /\ pc = "kill"
  /\ st' = [st EXCEPT ![i] = IF @ = "forked" THEN "killed" ELSE @]
  /\ sigterm' = [sigterm EXCEPT ![i] = Signalled(i)]
  /\ i' = NextChild(i)
  /\ pc' = IF i = N THEN "wait" ELSE pc
  /\ UNCHANGED <<jobs, instance, initialized, known, job, destroying, terminated, failed,
                 registered, tasks, crashes, chan>>

(* chill_wait: any child that is dead.                                     *)
Wait ==
  /\ pc = "wait"
  /\ \E c \in Children :
       /\ st[c] \in Dead \ {"reaped"}
       /\ st' = [st EXCEPT ![c] = "reaped"]
  /\ UNCHANGED <<masterVars, sigterm, registered, tasks, crashes, chan>>

ShutDown ==
  /\ pc = "wait" /\ \A c \in Children : st[c] = "reaped"
  /\ initialized' = FALSE
  /\ pc' = IF destroying THEN "destroy" ELSE "program"
  /\ UNCHANGED <<jobs, instance, known, i, job, destroying, terminated, failed, childVars, chan>>

(* The Messenger and its channels are gone with the instance.              *)
Destroy ==
  /\ pc = "destroy"
  /\ instance' = FALSE /\ destroying' = FALSE /\ terminated' = FALSE /\ known' = {}
  /\ pc' = "program"
  /\ st' = [c \in Children |-> "none"]
  /\ sigterm' = [c \in Children |-> FALSE]
  /\ registered' = {} /\ tasks' = <<>>
  /\ chan' = [ch \in Channels |-> <<>>]
  /\ UNCHANGED <<jobs, initialized, i, job, failed, crashes>>

---------------------------------------------------------------------------
(* The children.                                                           *)
Goes(c, s) ==
  /\ st' = [st EXCEPT ![c] = s]
  /\ UNCHANGED <<masterVars, sigterm, crashes>>

Moves(c, s) == Goes(c, s) /\ UNCHANGED <<registered, tasks>>

(* The handler is installed, the Messenger is constructed; the queue       *)
(* begins the test with its pings.                                         *)
StartWorker(w) ==
  /\ st[w] = "forked"
  /\ Moves(w, "test1") /\ UNCHANGED chan

StartQueue ==
  /\ st[Queue] = "forked"
  /\ Goes(Queue, "test")
  /\ registered' = {Master} \cup Workers
  /\ chan' = [ch \in Channels |->
                IF ch[1] = Queue THEN Append(chan[ch], <<"ping">>) ELSE chan[ch]]
  /\ UNCHANGED tasks

(* Messenger::test_connections on a worker.                                *)
WorkerPing(w) ==
  /\ st[w] = "test1" /\ Has(Queue, w, "ping")
  /\ chan' = Answered(Queue, w, <<"pong">>)
  /\ Moves(w, "test2")

WorkerPong(w) ==
  /\ st[w] = "test2" /\ Has(Queue, w, "pong")
  /\ chan' = Received(Queue, w)
  /\ Moves(w, "ask")

(* Mutant of Unregistered: the master's channel ends the test.             *)
UnregisteredAll(p) == IF p = Master THEN {} ELSE registered \ {p}

Unregistered(p) == registered \ {p}

(* On the queue: the pong of a process that is still registered; when none *)
(* is left, the last pong goes to the master, who sends no SIGTERM before. *)
QueueTest(p) ==
  /\ st[Queue] = "test"
  /\ p \in registered /\ Has(p, Queue, "pong")
  /\ registered' = Unregistered(p)
  /\ LET answered == IF p = Master THEN Received(p, Queue) ELSE Answered(p, Queue, <<"pong">>)
     IN  chan' = IF registered' = {}
                 THEN [answered EXCEPT ![<<Queue, Master>>] = Append(@, <<"pong">>)]
                 ELSE answered
  /\ Goes(Queue, IF registered' = {} THEN "poll" ELSE "test")
  /\ UNCHANGED tasks

(* test_receive waits, and the self-pipe is looked at before the channel:  *)
(* an exception that nothing in the child catches.                         *)
TestAborts(w) ==
  /\ st[w] \in {"test1", "test2"} /\ sigterm[w]
  /\ Moves(w, "escaped") /\ UNCHANGED chan

(* worker_loop. *)
Ask(w) ==
  /\ st[w] = "ask" /\ ~sigterm[w] /\ ~Closed(Queue)
  /\ chan' = [chan EXCEPT ![<<w, Queue>>] = Append(@, <<"dequeue">>)]
  /\ Moves(w, "poll")

Rejected(w) ==
  /\ st[w] = "poll" /\ ~sigterm[w] /\ Has(Queue, w, "rejected")
  /\ chan' = Received(Queue, w)
  /\ Moves(w, "ask")

Accepted(w) ==
  /\ st[w] = "poll" /\ ~sigterm[w]
  /\ Has(Queue, w, "accepted")
  /\ chan' = Received(Queue, w)
  /\ Moves(w, "evaluate")

Evaluate(w) ==
  /\ st[w] = "evaluate"
  /\ chan' = [chan EXCEPT ![<<w, Master>>] = Append(@, <<"result">>)]
  /\ Moves(w, "ask")

(* Queue::loop. *)
Enqueue ==
  /\ st[Queue] = "poll" /\ ~sigterm[Queue] /\ chan[<<Master, Queue>>] # <<>>
  /\ tasks' = Append(tasks, Head(chan[<<Master, Queue>>])[2])
  /\ chan' = Received(Master, Queue)
  /\ Goes(Queue, "poll")
  /\ UNCHANGED registered

(* Mutant of NoTask: the last task stays in the queue.                     *)
NoTaskButOne == Len(tasks) <= 1

NoTask == tasks = <<>>

(* Mutant of TasksLeft: a task that is handed out stays in the queue.      *)
TasksKept == tasks

TasksLeft == IF NoTask THEN tasks ELSE Tail(tasks)

Dequeue(w) ==
  /\ st[Queue] = "poll" /\ ~sigterm[Queue] /\ Has(w, Queue, "dequeue") /\ ~Closed(w)
  /\ chan' = Answered(w, Queue, IF NoTask THEN <<"rejected">> ELSE <<"accepted", Head(tasks)>>)
  /\ tasks' = TasksLeft
  /\ Goes(Queue, "poll")
  /\ UNCHANGED registered

(* The loops look at the flag; a poll is woken up by the self-pipe.        *)
StopsAt == {"ask", "poll"}

Stop(c) ==
  /\ st[c] \in StopsAt /\ sigterm[c]
  /\ Moves(c, "exit0") /\ UNCHANGED chan

(* Channel::throw_connection_closed, from a read or a write.               *)
Reads(c) ==
  IF c = Queue THEN IF st[c] = "test" THEN registered \ {Master} ELSE Workers ELSE {Queue}

(* Mutant of Noticed: a child does not wait for the signal.                *)
NoticedAtOnce(c) == IF st[c] \in Testing THEN "escaped" ELSE "exit1"

Noticed(c) == IF st[c] \in Testing THEN "closingInTest" ELSE "closing"

ConnectionClosed(c) ==
  /\ ~sigterm[c]
  /\ \/ st[c] \in Testing \cup {"poll"} /\ \E p \in Reads(c) : AtEnd(p, c)
     \/ st[c] = "ask" /\ Closed(Queue)
     \/ c = Queue /\ st[c] = "poll" /\ \E w \in Workers : Has(w, c, "dequeue") /\ Closed(w)
     \/ c = Queue /\ st[c] = "test" /\ \E w \in registered \ {Master} : Has(w, c, "pong") /\ Closed(w)
  /\ Moves(c, Noticed(c)) /\ UNCHANGED chan

(* SIGTERM is waited for 500 ms. It comes in time if the master is sending *)
(* the signals; else the child gives up. activate() catches the exception, *)
(* in the test nothing does.                                               *)
Closing(c) ==
  /\ \/ st[c] = "closing" /\ sigterm[c] /\ Moves(c, "exit0")
     \/ st[c] = "closing" /\ ~sigterm[c] /\ pc # "kill" /\ Moves(c, "exit1")
     \/ st[c] = "closingInTest" /\ (sigterm[c] \/ pc # "kill") /\ Moves(c, "escaped")
  /\ UNCHANGED chan

(* An exception that leaves the child's test meets the program's code: it  *)
(* ends the process, or a handler of the program carries on.               *)
Abort(c) ==
  /\ st[c] = "escaped"
  /\ Moves(c, "aborted") /\ UNCHANGED chan

Crash(c) ==
  /\ crashes < MaxCrashes /\ st[c] \notin Dead \cup {"none"}
  /\ st' = [st EXCEPT ![c] = "crashed"] /\ crashes' = crashes + 1
  /\ UNCHANGED <<masterVars, sigterm, registered, tasks, chan>>

---------------------------------------------------------------------------
Working ==
  \/ Fork \/ TestPing \/ TestPong \/ Send \/ Fail \/ Kill \/ Wait \/ ShutDown \/ Destroy
  \/ \E w \in Workers : Retrieve(w)

WorkerStep(w) ==
  \/ StartWorker(w) \/ WorkerPing(w) \/ WorkerPong(w) \/ TestAborts(w)
  \/ Ask(w) \/ Rejected(w) \/ Accepted(w) \/ Evaluate(w)

QueueStep == StartQueue \/ \E p \in {Master} \cup Workers : QueueTest(p)

EndStep(c) == Stop(c) \/ ConnectionClosed(c) \/ Closing(c)

Next ==
  \/ \E j \in Jobs : AddJob(j) \/ RemoveJob(j) \/ Call(j)
  \/ Terminate
  \/ Working
  \/ \E w \in Workers : WorkerStep(w) \/ Dequeue(w)
  \/ QueueStep \/ Enqueue
  \/ \E c \in Children : EndStep(c) \/ Abort(c) \/ Crash(c)

(* A poll of the queue handles every channel that is readable.             *)
Fairness ==
  /\ WF_vars(Working) /\ WF_vars(QueueStep) /\ WF_vars(Enqueue)
  /\ \A w \in Workers : WF_vars(WorkerStep(w)) /\ WF_vars(Dequeue(w))
  /\ \A c \in Children : WF_vars(EndStep(c))

Spec == Init /\ [][Next]_vars /\ Fairness

---------------------------------------------------------------------------
TypeOK ==
  /\ jobs \subseteq Jobs /\ known \subseteq Jobs /\ job \in Jobs
  /\ instance \in BOOLEAN /\ initialized \in BOOLEAN /\ destroying \in BOOLEAN
  /\ pc \in {"program", "fork", "testPing", "testPong", "send", "retrieve", "kill", "wait", "destroy"}
  /\ st \in [Children -> States]
  /\ sigterm \in [Children -> BOOLEAN]
  /\ registered \subseteq {Master} \cup Workers
  /\ \A ch \in Channels : Len(chan[ch]) <= 1
  /\ Len(tasks) <= 1
  /\ crashes \in 0..MaxCrashes

(* A child that is asked for a task of a job has that job: none is added   *)
(* behind its back (JobManager::add_job_object, get_job_object).           *)
JobsKnown ==
  /\ \A n \in DOMAIN tasks : tasks[n] \in known
  /\ \A w \in Workers : Has(Queue, w, "accepted") => Head(chan[<<Queue, w>>])[2] \in known

(* When the test of the master is done, every worker has answered and its  *)
(* last pong is on its way (Messenger::test_connections).                  *)
TestIsComplete ==
  (pc \in {"send", "retrieve"} /\ initialized /\ crashes = 0) =>
     \A w \in Workers :
        /\ st[w] \notin {"none", "forked", "test1"}
        /\ st[w] = "test2" => Has(Queue, w, "pong")

(* As long as no child dies unexpectedly and the program did not terminate *)
(* the processes itself, no call fails, and no child leaves its loop with  *)
(* an error although the queue may be gone before the workers are told     *)
(* (Channel::throw_connection_closed, ProcessManager::shutdown_processes). *)
NoFalseAlarm ==
  crashes = 0 =>
     /\ failed => terminated \/ ~instance
     /\ \A c \in Children : st[c] # "exit1"

Escaped == \E c \in Children : st[c] \in {"escaped", "aborted"}

(* A call returns or throws, and a shutdown ends, whichever child died in  *)
(* which state, unless an exception left a child's connection test         *)
(* (JobManager::retrieve, ProcessManager::shutdown_processes).             *)
CallsEnd ==
  /\ pc \in {"fork", "testPing", "testPong", "send", "retrieve"} ~> (pc = "program" \/ Escaped)
  /\ pc = "kill" ~> (pc = "program" \/ Escaped)
=============================================================================
