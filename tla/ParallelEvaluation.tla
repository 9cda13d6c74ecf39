------------------------- MODULE ParallelEvaluation -------------------------
(***************************************************************************)
(* What a RooFit::MultiProcess::Job promises its caller, whatever the      *)
(* number of workers and whatever they do: a call takes the value of each  *)
(* of the job's tasks exactly once, a gradient's are all computed at the   *)
(* point of the call, and the call returns.  The terms of a likelihood are *)
(* computed at the point of the call too if no other job was called since  *)
(* it last was: else there are parameters of which this is not so, because *)
(* they are those of its last call and the other job has moved them.       *)
(***************************************************************************)
EXTENDS Integers, SequencesExt

CONSTANTS Jobs, GradientJobs, NTasks, NParams, Values, Displaced, Points, InitPoint

Params == 0 .. NParams - 1

VARIABLES
    caller,   \* "waiting" while a call is in progress
    job,      \* the job that was called last
    point,    \* the parameter values it was called at
    last,     \* the parameter values each likelihood was called at last
    moved,    \* the parameters that other jobs have moved since they changed in a
              \* call of the likelihood
    values    \* the task values taken so far, in the order of their arrival

vars == <<caller, job, point, last, moved, values>>

Init ==
    /\ caller = "idle" /\ job \notin Jobs /\ point = InitPoint /\ values = <<>>
    /\ last = [j \in Jobs |-> InitPoint]
    /\ moved = [j \in Jobs |-> {}]

New(j, p) == IF j \in GradientJobs THEN Params ELSE {i \in Params : p[i] # last[j][i]}

Call(j, p) ==
    /\ caller = "idle"
    /\ caller' = "waiting" /\ job' = j /\ point' = p /\ values' = <<>>
    /\ last' = IF j \in GradientJobs THEN last ELSE [last EXCEPT ![j] = p]
    /\ moved' = [k \in Jobs |-> IF k \in GradientJobs THEN {}
                                ELSE IF k = j THEN moved[k] \ New(j, p) ELSE moved[k] \cup New(j, p)]

Missing == {t \in 0 .. NTasks[job] - 1 : \A i \in DOMAIN values : values[i].task # t}

Take(t) ==
    /\ t \in Missing
    /\ \E at \in [Params -> Values \cup {Displaced}] :
          /\ \A i \in Params \ moved[job] : at[i] = point[i]
          /\ values' = Append(values, [task |-> t, point |-> at])
    /\ UNCHANGED <<caller, job, point, last, moved>>

\* The caller has the sum, or the vector, of all values.
Return ==
    /\ Missing = {}
    /\ caller' = "idle"
    /\ values' \in {values, <<>>}
    /\ UNCHANGED <<job, point, last, moved>>

Serve == caller = "waiting" /\ ((\E t \in Missing : Take(t)) \/ Return)

Next == (\E j \in Jobs, p \in Points : Call(j, p)) \/ Serve

Spec == Init /\ [][Next]_vars
FairSpec == Spec /\ WF_vars(Serve)
=============================================================================
