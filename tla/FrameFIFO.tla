------------------------------ MODULE FrameFIFO ------------------------------
(***************************************************************************)
(* What a process may rely on when it uses a Channel: every ordered pair   *)
(* of processes has a queue of frames; frames arrive whole, once and in    *)
(* the order in which they were sent, with their "more" bit.               *)
(***************************************************************************)
EXTENDS Sequences

CONSTANTS Streams, Frame, NoFrame

VARIABLES
    queue,     \* queue[s]: the frames sent on s and not received
    returned   \* returned[s]: the frame received last from s

vars == <<queue, returned>>

Init ==
    /\ queue = [s \in Streams |-> <<>>]
    /\ returned = [s \in Streams |-> NoFrame]

Send(s, f) == queue' = [queue EXCEPT ![s] = Append(@, f)] /\ UNCHANGED returned

Receive(s) ==
    /\ queue[s] # <<>>
    /\ queue' = [queue EXCEPT ![s] = Tail(@)]
    /\ returned' = [returned EXCEPT ![s] = Head(queue[s])]

\* Either changes what is on its stream, and nothing on the others.
Next == \E s \in Streams :
    /\ queue'[s] # queue[s]
    /\ Receive(s) \/ \E f \in Frame : Send(s, f)

Spec == Init /\ [][Next]_vars
=============================================================================
