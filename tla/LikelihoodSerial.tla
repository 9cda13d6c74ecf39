-------------------------- MODULE LikelihoodSerial --------------------------
(***************************************************************************)
(* What an evaluation of a likelihood promises: LikelihoodSerial, "a       *)
(* baseline reference implementation of the LikelihoodWrapper"             *)
(* (LikelihoodSerial.cxx:27).  With offsetting on, each component's value  *)
(* at the point of the first evaluation is subtracted, once, from its      *)
(* values; that of a subsidiary component only in the full mode.           *)
(*                                                                         *)
(* The offsets are determined by the point they were calculated at.        *)
(***************************************************************************)
EXTENDS Naturals

CONSTANTS
    Components, Subsidiary,   \* the components; those that are RooSubsidiaryLs
    Points, InitPoint, NoOffset

VARIABLES
    doOffset,    \* do_offset_
    offsets,     \* shared_offset_: the point of the offsets, or NoOffset: none
    mode,        \* offsetting_mode_
    point,       \* the values of the parameters
    evaluating,  \* within evaluate()
    value        \* result: what each component's value was computed from

Modes == {"legacy", "full"}
vars == <<doOffset, offsets, mode, point, evaluating, value>>

\* The offset p is subtracted from the value of a component at point q.
ValueAt(q, offset) ==
    [points |-> {q}, offsets |-> {offset} \ {NoOffset}, subtractions |-> IF offset = NoOffset THEN 0 ELSE 1]

\* A subsidiary component's offset is zero in the legacy mode.  (The mode is that
\* of the calculation of the offsets: a new mode clears them.)
OffsetOf(c) == IF doOffset /\ (c \in Subsidiary => mode = "full") THEN offsets ELSE NoOffset

Init ==
    /\ doOffset = FALSE /\ offsets = NoOffset /\ mode = "legacy" /\ point = InitPoint /\ evaluating = FALSE
    /\ value = [c \in Components |-> ValueAt(InitPoint, NoOffset)]

SetPoint(p) ==
    /\ ~evaluating
    /\ point' = p
    /\ UNCHANGED <<doOffset, offsets, mode, evaluating, value>>

EnableOffsetting(flag) ==
    /\ ~evaluating
    /\ doOffset' = flag
    /\ offsets' = IF flag THEN offsets ELSE NoOffset
    /\ UNCHANGED <<mode, point, evaluating, value>>

SetOffsettingMode(m) ==
    /\ ~evaluating
    /\ mode' = m
    /\ offsets' = IF doOffset THEN NoOffset ELSE offsets
    /\ UNCHANGED <<doOffset, point, evaluating, value>>

\* The offsets are calculated if they are needed and there are none.
OffsetsToUse == IF doOffset /\ offsets = NoOffset THEN point ELSE offsets

CalculateOffsets ==
    /\ ~evaluating
    /\ offsets' = OffsetsToUse
    /\ evaluating' = TRUE
    /\ UNCHANGED <<doOffset, mode, point, value>>

FinishEvaluate ==
    /\ evaluating
    /\ value' = [c \in Components |-> ValueAt(point, OffsetOf(c))]
    /\ evaluating' = FALSE
    /\ UNCHANGED <<doOffset, offsets, mode, point>>

Next ==
    \/ \E p \in Points : SetPoint(p)
    \/ \E flag \in BOOLEAN : EnableOffsetting(flag)
    \/ \E m \in Modes : SetOffsettingMode(m)
    \/ CalculateOffsets \/ FinishEvaluate

Spec == Init /\ [][Next]_vars
=============================================================================
