------------------------------- MODULE Channel -------------------------------
(***************************************************************************)
(* The byte streams under the task protocol: Channel.cxx, and processes    *)
(* that use it.  Every two processes share a socket pair; each of its two  *)
(* directions, a stream, holds Capacity units.  A unit is a part of a      *)
(* frame's header or payload: the kernel takes and gives any number of     *)
(* them, so headers and payloads are cut anywhere.                         *)
(*                                                                         *)
(* A process runs, sends, and waits.  It never blocks while it sends: what *)
(* the kernel does not take stays with the process, which writes it later, *)
(* with the last frame of its next message on the same stream or, on all   *)
(* its streams, while it waits for input.                                  *)
(***************************************************************************)
EXTENDS Integers, SequencesExt

CONSTANTS
    Processes,
    Capacity,    \* units a socket buffer holds
    HeaderSize,  \* units of a header (8 bytes in the code)
    Sizes,       \* payload sizes, in units
    MaxFrames,   \* bound: frames each process sends, MaxFrames[p]
    NoFrame, NoStream

ASSUME ChannelAssumption ==
    /\ Capacity \in Nat \ {0} /\ HeaderSize \in Nat \ {0}
    /\ Sizes \subseteq Nat /\ MaxFrames \in [Processes -> Nat]

Streams == {s \in Processes \X Processes : s[1] # s[2]}
From(p) == {s \in Streams : s[1] = p}
To(p) == {s \in Streams : s[2] = p}

\* The header holds the size and the bit that says whether more frames of the
\* same message follow; id tells the payloads apart.
Frame == [id : UNION {0 .. MaxFrames[p] - 1 : p \in Processes}, size : Sizes, more : BOOLEAN]
Unit == [frame : Frame, index : Nat]

\* The units of a frame: those of its header, then those of its payload.
FrameLength(f) == HeaderSize + f.size
Units(f) == [i \in 1 .. FrameLength(f) |-> [frame |-> f, index |-> i]]

VARIABLES
    mode,       \* "run", "poll" (wait on all channels) or "recv" (recv_frame)
    source,     \* the stream a process in "recv" reads
    count,      \* number of frames sent, by process (only bounds the model)
    unfinished, \* the stream a process is sending a message of many frames on
    out,        \* out_buf_ from out_pos_ on, by stream
    kernel,     \* what the socket holds, by stream
    in,         \* in_header_ and in_msg_: what is read of the current frame
    msg         \* the frame recv_frame returned last, by stream

vars == <<mode, source, count, unfinished, out, kernel, in, msg>>

TypeOK ==
    /\ mode \in [Processes -> {"run", "poll", "recv"}]
    /\ source \in [Processes -> Streams \cup {NoStream}]
    /\ \A p \in Processes : mode[p] = "recv" => source[p] \in To(p)
    /\ count \in [Processes -> Nat] /\ \A p \in Processes : count[p] <= MaxFrames[p]
    /\ unfinished \in [Processes -> Streams \cup {NoStream}]
    /\ out \in [Streams -> Seq(Unit)] /\ in \in [Streams -> Seq(Unit)]
    /\ kernel \in [Streams -> Seq(Unit)] /\ \A s \in Streams : Len(kernel[s]) <= Capacity
    /\ msg \in [Streams -> Frame \cup {NoFrame}]

Init ==
    /\ mode = [p \in Processes |-> "run"]
    /\ source = [p \in Processes |-> NoStream]
    /\ count = [p \in Processes |-> 0]
    /\ unfinished = [p \in Processes |-> NoStream]
    /\ out = [s \in Streams |-> <<>>] /\ kernel = [s \in Streams |-> <<>>]
    /\ in = [s \in Streams |-> <<>>]
    /\ msg = [s \in Streams |-> NoFrame]

-----------------------------------------------------------------------------
(* send_frame and try_flush *)

\* send_frame appends to what is pending, so that frames stay in order.
QueuedFirst(s, f) == Units(f) \o out[s]
Queued(s, f) == out[s] \o Units(f)

\* try_flush: the kernel takes what fits, and out_pos_ is behind it.
AcceptsMore(s, bytes) == Min({Len(bytes), Capacity - Len(kernel[s]) + 1})
Accepts(s, bytes) == Min({Len(bytes), Capacity - Len(kernel[s])})

RestFromStart(s, bytes) == IF Accepts(s, bytes) = Len(bytes) THEN <<>> ELSE bytes
Rest(s, bytes) == SubSeq(bytes, Accepts(s, bytes) + 1, Len(bytes))

Flushed(s, bytes) == kernel[s] \o SubSeq(bytes, 1, Accepts(s, bytes))

SendFrame(p, s, f) ==
    /\ mode[p] = "run" /\ unfinished[p] \in {NoStream, s}
    /\ count[p] < MaxFrames[p] /\ f.id = count[p]
    /\ f.more => count[p] + 1 < MaxFrames[p]
    /\ count' = [count EXCEPT ![p] = @ + 1]
    /\ unfinished' = [unfinished EXCEPT ![p] = IF f.more THEN s ELSE NoStream]
    /\ out' = [out EXCEPT ![s] = IF f.more THEN Queued(s, f) ELSE Rest(s, Queued(s, f))]
    /\ kernel' = [kernel EXCEPT ![s] = IF f.more THEN @ ELSE Flushed(s, Queued(s, f))]
    /\ UNCHANGED <<mode, source, in, msg>>

Send(p) == \E s \in From(p), f \in Frame : SendFrame(p, s, f)

-----------------------------------------------------------------------------
(* wait *)

\* A process waits for a message on any of its channels, or for a frame on one.
StartPoll(p) ==
    /\ mode[p] = "run" /\ unfinished[p] = NoStream
    /\ mode' = [mode EXCEPT ![p] = "poll"]
    /\ UNCHANGED <<source, count, unfinished, out, kernel, in, msg>>

StartReceive(p, s) ==
    /\ mode[p] = "run" /\ unfinished[p] = NoStream
    /\ mode' = [mode EXCEPT ![p] = "recv"]
    /\ source' = [source EXCEPT ![p] = s]
    /\ UNCHANGED <<count, unfinished, out, kernel, in, msg>>

FrameComplete(read) == read # <<>> /\ Len(read) >= FrameLength(read[1].frame)

\* Whatever channel the process waits for, all those with pending output are
\* flushed as the kernel makes room.
FlushesOfPoll(p) == IF mode[p] = "poll" THEN From(p) ELSE {}
FlushesOfAwaited(p) == {s \in From(p) : mode[p] = "poll" \/ s[2] = source[p][1]}
FlushesOf(p) == From(p)

Writable(p) == {s \in FlushesOf(p) : out[s] # <<>> /\ Len(kernel[s]) < Capacity}

Flush(p) ==
    /\ mode[p] = "poll" \/ (mode[p] = "recv" /\ ~FrameComplete(in[source[p]]))
    /\ Writable(p) # {}
    /\ out' = [s \in Streams |-> IF s \in Writable(p) THEN Rest(s, out[s]) ELSE out[s]]
    /\ kernel' = [s \in Streams |-> IF s \in Writable(p) THEN Flushed(s, out[s]) ELSE kernel[s]]
    /\ UNCHANGED <<mode, source, count, unfinished, in, msg>>

\* wait returns a readable channel; the caller receives from it.
PollReturns(p, s) ==
    /\ mode[p] = "poll" /\ kernel[s] # <<>>
    /\ mode' = [mode EXCEPT ![p] = "recv"]
    /\ source' = [source EXCEPT ![p] = s]
    /\ UNCHANGED <<count, unfinished, out, kernel, in, msg>>

-----------------------------------------------------------------------------
(* try_recv_frame and recv_frame *)

\* What the next read() asks for: the rest of the header, then the rest of the
\* payload, and nothing behind the frame.
ReadAhead(read) == Capacity
ReadSize(read) ==
    IF Len(read) < HeaderSize THEN HeaderSize - Len(read)
                              ELSE FrameLength(read[1].frame) - Len(read)

Read(p) ==
    LET s == source[p] IN
    /\ mode[p] = "recv" /\ kernel[s] # <<>> /\ ~FrameComplete(in[s])
    /\ \E n \in 1 .. Min({ReadSize(in[s]), Len(kernel[s])}) :
          /\ in' = [in EXCEPT ![s] = @ \o SubSeq(kernel[s], 1, n)]
          /\ kernel' = [kernel EXCEPT ![s] = SubSeq(@, n + 1, Len(@))]
    /\ UNCHANGED <<mode, source, count, unfinished, out, msg>>

\* recv_frame returns the frame and forgets it.
FrameReceived(p) ==
    LET s == source[p]
        f == in[s][1].frame
    IN  /\ mode[p] = "recv" /\ FrameComplete(in[s])
        /\ msg' = [msg EXCEPT ![s] = f]
        /\ in' = [in EXCEPT ![s] = SubSeq(@, FrameLength(f) + 1, Len(@))]
        /\ mode' = [mode EXCEPT ![p] = "run"]
        /\ source' = [source EXCEPT ![p] = NoStream]
        /\ UNCHANGED <<count, unfinished, out, kernel>>

-----------------------------------------------------------------------------

Wait(p) == StartPoll(p) \/ \E s \in To(p) : StartReceive(p, s)
Progress(p) == Flush(p) \/ Read(p) \/ FrameReceived(p) \/ \E s \in To(p) : PollReturns(p, s)

Next == \E p \in Processes : Send(p) \/ Wait(p) \/ Progress(p)

Spec == Init /\ [][Next]_vars

\* A process that waits goes on when it can, one that has begun a message ends
\* it, and one that computes waits again in the end, as the event loops of the
\* queue and of the workers, and the master's calls, do.
GoesOn(p) == Progress(p) \/ Wait(p) \/ (unfinished[p] # NoStream /\ Send(p))

FairSpec == Spec /\ \A p \in Processes : WF_vars(GoesOn(p))

-----------------------------------------------------------------------------
(* Properties *)

\* What is between the two ends of a stream, wherever it is held, and the
\* frames it consists of: those whose last unit is in it.
InTransit(s) == in[s] \o kernel[s] \o out[s]
Ended(u) == IF u.index = FrameLength(u.frame) THEN <<u.frame>> ELSE <<>>
Frames(units) ==
    LET ended[i \in 0 .. Len(units)] == IF i = 0 THEN <<>> ELSE ended[i - 1] \o Ended(units[i])
    IN  ended[Len(units)]
FramesInTransit(s) == Frames(InTransit(s))
Joined(frames) == FlattenSeq([i \in DOMAIN frames |-> Units(frames[i])])

\* Cut and joined however the kernel likes, a stream consists of whole frames:
\* no unit is lost, sent again after a partial write, or out of order, so a
\* header is never read from the middle of a payload.
StreamsIntact == \A s \in Streams : InTransit(s) = Joined(FramesInTransit(s))

\* Frames arrive once, in the order they were sent, and a frame's receiver gets
\* the size and the "more" bit it was sent with.
FIFO == INSTANCE FrameFIFO WITH
    queue <- [s \in Streams |-> FramesInTransit(s)], returned <- msg
ImplementsFIFO == FIFO!Spec

\* "no two processes can deadlock each other with full socket buffers"
\* (Channel.cxx:280): while a process waits for a frame that was sent to it, there
\* is something it can read or return, or that the sender writes as soon as it
\* waits, whomever it waits for.
NobodyStuck ==
    \A p \in Processes : \A s \in To(p) :
        /\ mode[p] = "poll" \/ (mode[p] = "recv" /\ source[p] = s)
        /\ FramesInTransit(s) # <<>>
        => \/ kernel[s] # <<>>
           \/ mode[p] = "recv" /\ FrameComplete(in[s])
           \/ s \in Writable(s[1])

\* So a wait ends when a frame was sent: recv_frame returns it, even if its sender
\* waits for somebody else and had no room to write it; and "any following frames
\* stay in the kernel buffer and poll() remains accurate" (Channel.cxx:223): a process
\* that polls wakes up, no frame hides in what an earlier receive has read.
Awaited(p) == IF mode[p] = "recv" THEN {source[p]} ELSE To(p)
WaitsEnd ==
    \A p \in Processes :
       (mode[p] # "run" /\ \E s \in Awaited(p) : InTransit(s) # <<>>) ~> (mode[p] = "run")
=============================================================================
