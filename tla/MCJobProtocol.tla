--------------------------- MODULE MCJobProtocol ---------------------------
(* Instances of JobProtocol for TLC. *)
EXTENDS JobProtocol

CONSTANTS L, G, v0, v1

MCJobs == {L, G}
MCGradientJobs == {G}
TwoEach == (L :> 2) @@ (G :> 2)
TwoAndOne == (L :> 2) @@ (G :> 1)

\* The last parameter changes from call to call, the others do not.
MCInitPoint == [i \in Params |-> v0]
MCPoints == {MCInitPoint, [MCInitPoint EXCEPT ![NParams - 1] = v1]}

\* PriorityQueue::add: 0 without a vector of priorities for the job.
LastFirst == [j \in MCJobs |-> [t \in 0 .. NTasks[j] - 1 |-> IF j = L THEN t ELSE 0]]
=============================================================================
