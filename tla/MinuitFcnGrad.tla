--------------------------- MODULE MinuitFcnGrad ---------------------------
(***************************************************************************)
(* MinuitFcnGrad between Minuit2 and the likelihood: which point a         *)
(* gradient is of, and of which function the values are that Minuit2 and   *)
(* the finite differences on the workers compare.  Two shifts make the     *)
(* function: the likelihood offset (LikelihoodWrapper) and the offset that *)
(* is added once valid values follow invalid ones (RooAbsMinimizerFcn).    *)
(* Every process has its own copy of all that.                             *)
(*                                                                         *)
(* Minuit2's MIGRAD calls it thus: values anywhere; then, where a line     *)
(* search ended, a gradient, to which it passes the gradient before and    *)
(* the value it has at the point.  A minimization may start again.         *)
(*                                                                         *)
(* Points stand for their external and their Minuit-internal coordinates   *)
(* alike.  Offsetting is set before the first minimization (see module     *)
(* LikelihoodOffsets for later).  How tasks get to the workers and results *)
(* back is the matter of module JobProtocol.                               *)
(***************************************************************************)
EXTENDS Naturals

CONSTANTS
    Workers,
    Points,
    Setups,   \* what is minimized, and how: see below
    Origin,   \* the point all internal coordinates of which are 0
    Starts,   \* where minimizations start
    Unset, Wall, NoValue, None

\* Whether the likelihood is LikelihoodMode::multiprocess, whether offsetting is
\* on, and where the likelihood cannot be evaluated.
Setup == [parallel : BOOLEAN, offsetting : BOOLEAN, bad : SUBSET Points]

\* An offset is determined by the point it was calculated at; likewise the
\* additional offset of RooAbsMinimizerFcn, by the value it is the negative of.
Offset == Points \cup {None}
Raw == [point : Points, offset : Offset]
FuncOffset == Raw \cup {None}
\* A valid value; Wall, a value above the highest valid one; or NoValue: 0.
ValidValue == [raw : Raw, funcOffset : FuncOffset]
Value == ValidValue \cup {Wall, NoValue}
\* All that RooAbsMinimizerFcn knows from _evalCounter and _numBadNLL: whether
\* there were evaluations, and whether all of them were invalid.
History == {"none", "allBad", "someGood"}

ASSUME MinuitAssumption ==
    /\ Starts \subseteq Points /\ Setups \subseteq Setup
    /\ Unset \notin Points /\ None \notin Points
    /\ Wall # NoValue /\ {Wall, NoValue} \cap ValidValue = {}

VARIABLES
    setup,
    phase,        \* of the master
    at,           \* the point of Minuit2's current state
    known,        \* values Minuit2 obtained in this minimization
    returned,     \* the gradient returned last: for which point, and of which
    calculated,   \* a gradient was calculated in this minimization
    internalX,    \* _minuitInternalX
    jobX,         \* minuit_internal_x_ of the gradient job
    clean,        \* _calculationIsClean->gradient
    gradient,     \* grad_: the point the gradient is of
    fval,         \* the value sent to the workers, fval_at_x_; NoValue: NaN
    previous,     \* offsets_previous_ of the gradient job
    offsets, funcOffset, history,
    forked,       \* the workers exist
    wUpdated,     \* which workers have this gradient's update
    wOnlyBad,     \* history: those which in it had met invalid values only
    wOffsets, wFuncOffset, wHistory,
    wX,           \* fVx of the derivator
    wCacheX,      \* fVxFValCache: where fVal is of
    wFVal,        \* fVal
    wLast         \* the value a worker computed last for this gradient

callVars == <<setup, phase, at, known, returned, calculated>>
pointVars == <<internalX, jobX, clean, gradient, fval, previous>>
functionVars == <<offsets, funcOffset, history>>
workerVars == <<wUpdated, wOnlyBad, wOffsets, wFuncOffset, wHistory, wX, wCacheX, wFVal, wLast>>
vars == <<callVars, pointVars, functionVars, forked, workerVars>>

TypeOK ==
    /\ setup \in Setups
    /\ phase \in {"idle", "minimizing", "gradient"}
    /\ at \in Points /\ known \in [Points -> Value]
    /\ returned \in [point : Points, of : Points] /\ calculated \in BOOLEAN
    /\ internalX \in Points \cup {Origin} /\ jobX \in Points \cup {Unset}
    /\ clean \in BOOLEAN /\ gradient \in Points
    /\ fval \in Value /\ previous \in Offset
    /\ offsets \in Offset /\ funcOffset \in FuncOffset /\ history \in History
    /\ forked \in BOOLEAN /\ wUpdated \subseteq Workers /\ wOnlyBad \subseteq Workers
    /\ wOffsets \in [Workers -> Offset] /\ wFuncOffset \in [Workers -> FuncOffset]
    /\ wHistory \in [Workers -> History]
    /\ wX \in [Workers -> Points] /\ wCacheX \in [Workers -> Points \cup {Origin}]
    /\ wFVal \in [Workers -> Value] /\ wLast \in [Workers -> Value]

Init ==
    /\ setup \in Setups
    /\ phase = "idle" /\ at \in Starts /\ known = [p \in Points |-> NoValue]
    /\ returned = [point |-> at, of |-> at] /\ calculated = FALSE
    /\ internalX = Origin /\ jobX = Unset /\ clean = FALSE /\ gradient = at
    /\ fval = NoValue /\ previous = None
    /\ offsets = None /\ funcOffset = None /\ history = "none"
    /\ forked = FALSE /\ wUpdated = {} /\ wOnlyBad = {}
    /\ wOffsets = [w \in Workers |-> None] /\ wFuncOffset = [w \in Workers |-> None]
    /\ wHistory = [w \in Workers |-> "none"]
    /\ wX = [w \in Workers |-> at] /\ wCacheX = [w \in Workers |-> Origin]
    /\ wFVal = [w \in Workers |-> NoValue] /\ wLast = [w \in Workers |-> NoValue]

-----------------------------------------------------------------------------
(* One function evaluation, on any process *)

\* LikelihoodSerial and LikelihoodJob calculate the offsets if there are none.
OffsetsAnew(os, p) == IF setup.offsetting THEN p ELSE os
OffsetsToUse(os, p) == IF setup.offsetting /\ os = None THEN p ELSE os

\* An offset calculated at an invalid point makes all values invalid.
Valid(raw) == raw.point \notin setup.bad /\ raw.offset \notin setup.bad

ValueOf(raw, fo) == IF Valid(raw) THEN [raw |-> raw, funcOffset |-> fo] ELSE Wall

\* applyEvalErrorHandling: the offset is the first valid value if all were invalid
\* before.  It is the negative of the value before the offset is added.
FuncOffsetOfShifted(raw, fo, h) == IF Valid(raw) /\ h = "allBad" THEN ValueOf(raw, fo) ELSE fo
FuncOffsetAlways(raw, fo, h) == IF Valid(raw) /\ h # "none" THEN raw ELSE fo
FuncOffsetAfter(raw, fo, h) == IF Valid(raw) /\ h = "allBad" THEN raw ELSE fo

\* finishDoEval and the counters.  One valid value and they never are equal again.
HistoryForgets(raw, h) == IF Valid(raw) THEN "someGood" ELSE "allBad"
HistoryAfter(raw, h) == IF Valid(raw) \/ h = "someGood" THEN "someGood" ELSE "allBad"

-----------------------------------------------------------------------------
(* The master *)

\* RooMinimizer::minimize: Synchronize, then Minuit2 starts.
Minimize(start) ==
    /\ phase = "idle"
    /\ phase' = "minimizing" /\ at' = start
    /\ known' = [p \in Points |-> NoValue]
    /\ calculated' = FALSE
    /\ UNCHANGED <<setup, returned, pointVars, functionVars, forked, workerVars>>

\* The workers inherit what the master has.
Fork(os) ==
    IF forked THEN UNCHANGED <<forked, wOffsets, wFuncOffset, wHistory>>
    ELSE /\ forked' = TRUE
         /\ wOffsets' = [w \in Workers |-> os]
         /\ wFuncOffset' = [w \in Workers |-> funcOffset]
         /\ wHistory' = [w \in Workers |-> history]

\* operator(), which Minuit2 calls where it starts, then anywhere.  A parallel
\* likelihood forks the workers before it evaluates.
DoEval(x) ==
    LET raw == [point |-> x, offset |-> OffsetsToUse(offsets, x)]
        fo == FuncOffsetAfter(raw, funcOffset, history)
    IN  /\ phase = "minimizing" /\ (known[at] = NoValue => x = at)
        /\ offsets' = raw.offset /\ funcOffset' = fo
        /\ history' = HistoryAfter(raw, history)
        /\ known' = [known EXCEPT ![x] = ValueOf(raw, fo)]
        /\ IF setup.parallel THEN Fork(offsets') ELSE UNCHANGED <<forked, wOffsets, wFuncOffset, wHistory>>
        /\ UNCHANGED <<setup, phase, at, returned, calculated, pointVars, wUpdated, wOnlyBad, wX, wCacheX, wFVal, wLast>>

\* The flag is reset by the next gradient at another point, and by nothing else.
StaysClean(x) == clean
IsClean(x) == clean /\ x = internalX

\* syncParameterValuesFromMinuitCalls: a new point is passed on to the job.
SyncOnce(x) ==
    /\ internalX' = x
    /\ jobX' = IF jobX = Unset THEN x ELSE jobX
Sync(x) ==
    /\ internalX' = x
    /\ jobX' = IF x = internalX THEN jobX ELSE x

\* A line search ends at a point that is not where it began, with a valid value.
LineSearchEnds(x) ==
    /\ phase = "minimizing" /\ x # at
    /\ known[at] # NoValue /\ known[x] \notin {Wall, NoValue}

\* GradientWithPrevResult where a line search ended.  The job has a gradient of
\* the point, as far as it knows, ...
ReturnClean(x) ==
    /\ LineSearchEnds(x) /\ IsClean(x)
    /\ Sync(x)
    /\ gradient' = at   \* overwritten by the gradient Minuit2 passes in
    /\ returned' = [point |-> x, of |-> gradient']
    /\ at' = x /\ fval' = known[x]
    /\ UNCHANGED <<setup, phase, known, calculated, clean, previous, functionVars, forked, workerVars>>

\* ... or it starts to calculate it.  With new offsets, the workers must not use
\* the value Minuit2 has at the point.
StartGradient(x) ==
    /\ LineSearchEnds(x) /\ ~IsClean(x)
    /\ Sync(x)
    /\ clean' = FALSE /\ gradient' = at
    /\ Fork(offsets)
    /\ fval' = IF offsets = previous THEN known[x] ELSE NoValue
    /\ previous' = offsets
    /\ phase' = "gradient" /\ wUpdated' = {} /\ wOnlyBad' = {w \in Workers : wHistory'[w] = "allBad"}
    /\ wLast' = [w \in Workers |-> NoValue]
    /\ UNCHANGED <<setup, at, known, returned, calculated, functionVars, wX, wCacheX, wFVal>>

\* calculate_all ends: grad_ holds the results.
FinishGradient ==
    /\ phase = "gradient" /\ wUpdated = Workers
    /\ phase' = "minimizing"
    /\ clean' = TRUE /\ gradient' = internalX
    /\ returned' = [point |-> internalX, of |-> gradient']
    /\ at' = internalX /\ calculated' = TRUE
    /\ wLast' = [w \in Workers |-> NoValue]
    /\ UNCHANGED <<setup, known, internalX, jobX, fval, previous, functionVars, forked>>
    /\ UNCHANGED <<wUpdated, wOnlyBad, wOffsets, wFuncOffset, wHistory, wX, wCacheX, wFVal>>

EndMinimize ==
    /\ phase = "minimizing"
    /\ phase' = "idle"
    /\ UNCHANGED <<setup, at, known, returned, calculated, pointVars, functionVars, forked, workerVars>>

-----------------------------------------------------------------------------
(* A worker *)

\* update_state: the point and the value there, or new offsets.  Without a
\* value, SetupDifferentiate evaluates the function unless its cache is of x.
\* (A job that was never given a point sends none, and x is what happens to be in
\* the memory the worker reserved.)
ReceiveUpdate(w, x) ==
    LET raw == [point |-> x, offset |-> OffsetsToUse(offsets, x)]
        fo == FuncOffsetAfter(raw, funcOffset, wHistory[w])
        withOffsets == fval = NoValue  \* offsets are sent instead of a value
        evaluates == withOffsets /\ wCacheX[w] # x
    IN  /\ phase = "gradient" /\ w \notin wUpdated
        /\ jobX # Unset => x = jobX
        /\ wUpdated' = wUpdated \cup {w}
        /\ wX' = [wX EXCEPT ![w] = x]
        /\ wFVal' = [wFVal EXCEPT ![w] =
              IF evaluates THEN ValueOf(raw, fo) ELSE IF withOffsets THEN @ ELSE fval]
        /\ wOffsets' = [wOffsets EXCEPT ![w] =
              IF evaluates THEN raw.offset ELSE IF withOffsets THEN offsets ELSE @]
        /\ wFuncOffset' = [wFuncOffset EXCEPT ![w] = IF evaluates THEN fo ELSE funcOffset]
        /\ wHistory' = [wHistory EXCEPT ![w] = IF evaluates THEN HistoryAfter(raw, @) ELSE @]
        /\ wCacheX' = [wCacheX EXCEPT ![w] = x]
        /\ UNCHANGED <<callVars, pointVars, functionVars, forked, wOnlyBad, wLast>>

\* FastPartialDerivative evaluates the function beside x, at p.
EvaluateBeside(w, p) ==
    LET raw == [point |-> p, offset |-> OffsetsToUse(wOffsets[w], p)]
        fo == FuncOffsetAfter(raw, wFuncOffset[w], wHistory[w])
    IN  /\ phase = "gradient" /\ w \in wUpdated /\ p # wX[w]
        /\ wOffsets' = [wOffsets EXCEPT ![w] = raw.offset]
        /\ wFuncOffset' = [wFuncOffset EXCEPT ![w] = fo]
        /\ wHistory' = [wHistory EXCEPT ![w] = HistoryAfter(raw, @)]
        /\ wOnlyBad' = IF wHistory'[w] = "allBad" THEN wOnlyBad \cup {w} ELSE wOnlyBad
        /\ wLast' = [wLast EXCEPT ![w] = ValueOf(raw, fo)]
        /\ UNCHANGED <<callVars, pointVars, functionVars, forked, wUpdated, wX, wCacheX, wFVal>>

-----------------------------------------------------------------------------

Next ==
    \/ \E x \in Starts : Minimize(x)
    \/ \E x \in Points : DoEval(x) \/ ReturnClean(x) \/ StartGradient(x)
    \/ FinishGradient \/ EndMinimize
    \/ \E w \in Workers, x \in Points : ReceiveUpdate(w, x) \/ EvaluateBeside(w, x)

Spec == Init /\ [][Next]_vars

-----------------------------------------------------------------------------
(* Properties *)

\* Two values that are compared or subtracted are of one function.
SameFunction(u, v) ==
    {u, v} \cap {Wall, NoValue} = {} => u.raw.offset = v.raw.offset /\ u.funcOffset = v.funcOffset

SameOffset(u, v) == {u, v} \cap {Wall, NoValue} = {} => u.raw.offset = v.raw.offset

\* A minimization compares values of one function.
OneFunctionOnMaster == \A p, q \in Points : SameFunction(known[p], known[q])

\* "The function value known by the master corresponds to the previous offsets"
\* (LikelihoodGradientJob.cxx:125) is not the only way the function can differ: a
\* worker takes finite differences of values of one function, unless it has met
\* invalid values only, which no worker of a serial likelihood has; and even then
\* the likelihood's offset is one.
OneFunctionOnWorkers ==
    \A w \in wUpdated : phase = "gradient" =>
        IF w \in wOnlyBad THEN setup.parallel /\ SameOffset(wLast[w], wFVal[w])
                          ELSE SameFunction(wLast[w], wFVal[w])

\* A worker differentiates at the point Minuit2 asked for, and what it holds for
\* the function's value there is that.
CentralValue ==
    \A w \in wUpdated : phase = "gradient" =>
        /\ wX[w] = internalX
        /\ wFVal[w] \notin {Wall, NoValue} /\ wFVal[w].raw.point = internalX

\* From a minimization's first calculated gradient on, the gradient Minuit2 gets
\* for a point is the gradient there, not one kept from another point.
GradientAtPoint == calculated => returned.of = returned.point
=============================================================================
