------------------------- MODULE MinuitFcnGradProofs -------------------------
(***************************************************************************)
(* Theorems about MinuitFcnGrad, for any number of workers and any points, *)
(* where minimizations may start and setups.                               *)
(***************************************************************************)
EXTENDS MinuitFcnGrad, TLAPS

USE DEF callVars, pointVars, functionVars, workerVars

-----------------------------------------------------------------------------
(* The inductive invariant *)

Good(v) == v \notin {Wall, NoValue}

\* The offsets are calculated at the first evaluation, and stay.  All valid
\* values Minuit2 knows are of the function as it is now, which is valid there.
MasterInv ==
    /\ setup.offsetting /\ history # "none" => offsets # None
    /\ \A p \in Points : Good(known[p]) =>
          /\ history = "someGood"
          /\ known[p] = [raw |-> [point |-> p, offset |-> offsets], funcOffset |-> funcOffset]
          /\ Valid(known[p].raw)

\* The job has the point of the last gradient, of which Minuit2 knows the value.
PointInv ==
    /\ jobX = internalX \/ (jobX = Unset /\ internalX = Origin)
    /\ phase = "gradient" =>
          /\ forked
          /\ internalX \in Points /\ Good(known[internalX])
          /\ fval \in {NoValue, known[internalX]}

\* From the first gradient of a minimization on, Minuit2's state is where the
\* last gradient was calculated.
GradientInv ==
    calculated => returned.of = returned.point /\ (phase # "gradient" => at = internalX)

IInv == TypeOK /\ MasterInv /\ PointInv /\ GradientInv

\* A worker has the master's offsets, and its cache is of the point it says.
WorkerInv ==
    /\ forked => history # "none" /\ \A w \in Workers : wOffsets[w] = offsets
    /\ \A w \in Workers : wCacheX[w] \in Points =>
          /\ history = "someGood"
          /\ Good(wFVal[w]) /\ wFVal[w].raw = [point |-> wCacheX[w], offset |-> offsets]
    /\ phase = "gradient" => \A w \in wUpdated : wX[w] = internalX /\ wCacheX[w] = internalX

\* A worker has the function offset of the master, unless it has met only invalid
\* values in this gradient: then it makes one of its own at the first valid one.
\* No such worker evaluates the function at the point of a gradient, and none
\* exists of a serial likelihood: its workers come after the first valid value.
Follows(w) ==
    /\ wHistory[w] # "allBad"
    /\ w \in wUpdated => wFuncOffset[w] = funcOffset
    /\ Good(wLast[w]) => wLast[w].funcOffset = funcOffset

FunctionInv ==
    /\ setup.parallel /\ ~forked => history = "none"
    /\ forked /\ ~setup.parallel => wOnlyBad = {} /\ \A w \in Workers : wHistory[w] = "someGood"
    /\ \A w \in Workers : wHistory[w] = "allBad" =>
          /\ previous = offsets /\ history # "none"
          /\ phase = "gradient" /\ w \notin wUpdated => fval # NoValue
    /\ \A w \in Workers : wCacheX[w] \in Points => wFVal[w].funcOffset = funcOffset
    /\ phase = "gradient" =>
          /\ previous = offsets
          /\ \A w \in Workers : /\ w \notin wOnlyBad => Follows(w)
                                /\ Good(wLast[w]) => wLast[w].raw.offset = offsets

-----------------------------------------------------------------------------
(* One function evaluation *)

LEMMA RawType ==
    ASSUME NEW os \in Offset, NEW p \in Points
    PROVE  OffsetsToUse(os, p) \in Offset /\ [point |-> p, offset |-> OffsetsToUse(os, p)] \in Raw
BY DEF OffsetsToUse, Offset, Raw

LEMMA EvaluationType ==
    ASSUME NEW raw \in Raw, NEW fo \in FuncOffset, NEW h \in History
    PROVE  /\ ValueOf(raw, fo) \in Value
           /\ FuncOffsetAfter(raw, fo, h) \in FuncOffset
           /\ HistoryAfter(raw, h) \in History \ {"none"}
BY DEF ValueOf, Value, ValidValue, FuncOffsetAfter, FuncOffset, HistoryAfter, History

\* A good value is that of a valid evaluation.
LEMMA GoodValue ==
    ASSUME NEW raw \in Raw, NEW fo \in FuncOffset
    PROVE  /\ Good(ValueOf(raw, fo)) <=> Valid(raw)
           /\ Valid(raw) => ValueOf(raw, fo) = [raw |-> raw, funcOffset |-> fo]
BY MinuitAssumption DEF Good, ValueOf, ValidValue

-----------------------------------------------------------------------------
(* Types *)

LEMMA InitTypeOK == Init => TypeOK
<1> SUFFICES ASSUME Init PROVE TypeOK
  OBVIOUS
<1>1. at \in Points /\ NoValue \in Value /\ None \in Offset /\ None \in FuncOffset /\ "none" \in History
  BY MinuitAssumption DEF Init, Value, Offset, FuncOffset, History
<1>2. known \in [Points -> Value] /\ returned \in [point : Points, of : Points]
  BY <1>1 DEF Init
<1>3. /\ wOffsets \in [Workers -> Offset] /\ wFuncOffset \in [Workers -> FuncOffset]
      /\ wHistory \in [Workers -> History] /\ wX \in [Workers -> Points]
      /\ wCacheX \in [Workers -> Points \cup {Origin}]
      /\ wFVal \in [Workers -> Value] /\ wLast \in [Workers -> Value]
  BY <1>1 DEF Init
<1> QED BY <1>1, <1>2, <1>3 DEF Init, TypeOK

LEMMA ForkType ==
    ASSUME TypeOK, NEW os \in Offset, Fork(os)
    PROVE  /\ forked' \in BOOLEAN
           /\ wOffsets' \in [Workers -> Offset]
           /\ wFuncOffset' \in [Workers -> FuncOffset]
           /\ wHistory' \in [Workers -> History]
BY DEF TypeOK, Fork

LEMMA DoEvalType == ASSUME TypeOK, NEW x \in Points, DoEval(x) PROVE TypeOK'
<1> DEFINE raw == [point |-> x, offset |-> OffsetsToUse(offsets, x)]
           fo == FuncOffsetAfter(raw, funcOffset, history)
<1>1. raw.offset \in Offset /\ raw \in Raw
  BY RawType DEF TypeOK
<1>2. fo \in FuncOffset /\ ValueOf(raw, fo) \in Value /\ HistoryAfter(raw, history) \in History
  BY <1>1, EvaluationType DEF TypeOK
<1>3. /\ offsets' = raw.offset /\ funcOffset' = fo /\ history' = HistoryAfter(raw, history)
      /\ known' = [known EXCEPT ![x] = ValueOf(raw, fo)]
  BY DEF DoEval
<1>4. /\ forked' \in BOOLEAN /\ wOffsets' \in [Workers -> Offset]
      /\ wFuncOffset' \in [Workers -> FuncOffset] /\ wHistory' \in [Workers -> History]
  <2>1. CASE setup.parallel
    BY <2>1, <1>1, <1>3, ForkType DEF DoEval
  <2>2. CASE ~setup.parallel
    BY <2>2 DEF DoEval, TypeOK
  <2> QED BY <2>1, <2>2
<1> HIDE DEF raw, fo
<1> QED BY <1>1, <1>2, <1>3, <1>4 DEF TypeOK, DoEval

LEMMA ReceiveUpdateType ==
    ASSUME TypeOK, NEW w \in Workers, NEW x \in Points, ReceiveUpdate(w, x)
    PROVE  TypeOK'
<1> DEFINE raw == [point |-> x, offset |-> OffsetsToUse(offsets, x)]
           fo == FuncOffsetAfter(raw, funcOffset, wHistory[w])
<1>1. raw.offset \in Offset /\ raw \in Raw
  BY RawType DEF TypeOK
<1>2. fo \in FuncOffset /\ ValueOf(raw, fo) \in Value /\ HistoryAfter(raw, wHistory[w]) \in History
  BY <1>1, EvaluationType DEF TypeOK
<1>3. /\ wFVal' \in {[wFVal EXCEPT ![w] = v] : v \in {ValueOf(raw, fo), wFVal[w], fval}}
      /\ wOffsets' \in {[wOffsets EXCEPT ![w] = o] : o \in {raw.offset, offsets, wOffsets[w]}}
      /\ wFuncOffset' \in {[wFuncOffset EXCEPT ![w] = f] : f \in {fo, funcOffset}}
      /\ wHistory' \in {[wHistory EXCEPT ![w] = h] : h \in {HistoryAfter(raw, wHistory[w]), wHistory[w]}}
  BY DEF ReceiveUpdate, TypeOK
<1> HIDE DEF raw, fo
<1>4. wFVal' \in [Workers -> Value] /\ wOffsets' \in [Workers -> Offset]
  BY <1>1, <1>2, <1>3 DEF TypeOK
<1>5. wFuncOffset' \in [Workers -> FuncOffset] /\ wHistory' \in [Workers -> History]
  BY <1>2, <1>3 DEF TypeOK
<1> QED BY <1>4, <1>5 DEF TypeOK, ReceiveUpdate

LEMMA EvaluateBesideType ==
    ASSUME TypeOK, NEW w \in Workers, NEW p \in Points, EvaluateBeside(w, p)
    PROVE  TypeOK'
<1> DEFINE raw == [point |-> p, offset |-> OffsetsToUse(wOffsets[w], p)]
           fo == FuncOffsetAfter(raw, wFuncOffset[w], wHistory[w])
<1>1. raw.offset \in Offset /\ raw \in Raw
  BY RawType DEF TypeOK
<1>2. fo \in FuncOffset /\ ValueOf(raw, fo) \in Value /\ HistoryAfter(raw, wHistory[w]) \in History
  BY <1>1, EvaluationType DEF TypeOK
<1>3. /\ wOffsets' = [wOffsets EXCEPT ![w] = raw.offset] /\ wFuncOffset' = [wFuncOffset EXCEPT ![w] = fo]
      /\ wHistory' = [wHistory EXCEPT ![w] = HistoryAfter(raw, wHistory[w])]
      /\ wLast' = [wLast EXCEPT ![w] = ValueOf(raw, fo)]
  BY DEF EvaluateBeside, TypeOK
<1> HIDE DEF raw, fo
<1> QED BY <1>1, <1>2, <1>3 DEF TypeOK, EvaluateBeside

\* A gradient is only stored for a point because PointInv says it is one.
LEMMA NextTypeOK == ASSUME TypeOK, PointInv, [Next]_vars PROVE TypeOK'
<1>1. ASSUME NEW x \in Starts, Minimize(x) PROVE TypeOK'
  BY <1>1, MinuitAssumption DEF TypeOK, Minimize, Value
<1>2. ASSUME NEW x \in Points, ReturnClean(x) PROVE TypeOK'
  <2>1. internalX' \in Points /\ jobX' \in Points \cup {Unset}
    BY <1>2 DEF TypeOK, ReturnClean, Sync
  <2> QED BY <1>2, <2>1 DEF TypeOK, ReturnClean
<1>3. ASSUME NEW x \in Points, StartGradient(x) PROVE TypeOK'
  <2>1. internalX' \in Points /\ jobX' \in Points \cup {Unset}
    BY <1>3 DEF TypeOK, StartGradient, Sync
  <2>2. /\ forked' \in BOOLEAN /\ wOffsets' \in [Workers -> Offset]
        /\ wFuncOffset' \in [Workers -> FuncOffset] /\ wHistory' \in [Workers -> History]
    BY <1>3, ForkType DEF StartGradient, TypeOK
  <2>3. fval' \in Value /\ wLast' \in [Workers -> Value]
    BY <1>3 DEF StartGradient, TypeOK, Value
  <2> QED BY <1>3, <2>1, <2>2, <2>3 DEF TypeOK, StartGradient
<1>4. CASE FinishGradient
  BY <1>4 DEF TypeOK, FinishGradient, PointInv, Value
<1>5. CASE EndMinimize
  BY <1>5 DEF TypeOK, EndMinimize
<1>6. CASE UNCHANGED vars
  BY <1>6 DEF TypeOK, vars
<1> QED
  BY <1>1, <1>2, <1>3, <1>4, <1>5, <1>6, DoEvalType, ReceiveUpdateType, EvaluateBesideType DEF Next

-----------------------------------------------------------------------------
(* The master's part of the invariant *)

LEMMA InitIInv == Init => IInv
<1> SUFFICES ASSUME Init PROVE IInv
  OBVIOUS
<1>1. MasterInv /\ PointInv /\ GradientInv
  BY DEF Init, MasterInv, PointInv, GradientInv, Good
<1> QED BY <1>1, InitTypeOK DEF IInv

\* After the first evaluation the offsets are there, if there are to be any.
LEMMA SameOffsets ==
    ASSUME MasterInv, history # "none", NEW p \in Points
    PROVE  OffsetsToUse(offsets, p) = offsets
BY DEF MasterInv, OffsetsToUse

LEMMA DoEvalMaster == ASSUME IInv, NEW x \in Points, DoEval(x) PROVE MasterInv'
<1> DEFINE raw == [point |-> x, offset |-> OffsetsToUse(offsets, x)]
           fo == FuncOffsetAfter(raw, funcOffset, history)
<1>1. /\ offsets' = OffsetsToUse(offsets, x) /\ funcOffset' = fo
      /\ history' = HistoryAfter(raw, history)
      /\ known' = [known EXCEPT ![x] = ValueOf(raw, fo)] /\ setup' = setup
  BY DEF DoEval
<1>2. setup.offsetting => offsets' # None
  BY <1>1, MinuitAssumption DEF OffsetsToUse
<1>3. \A r : Valid(r)' <=> Valid(r)
  BY <1>1 DEF Valid
<1>4. raw \in Raw /\ fo \in FuncOffset
  BY RawType, EvaluationType DEF IInv, TypeOK
<1>5. ASSUME NEW p \in Points, Good(known'[p])
      PROVE  /\ history' = "someGood"
             /\ known'[p] = [raw |-> [point |-> p, offset |-> offsets'], funcOffset |-> funcOffset']
             /\ Valid(known'[p].raw)
  <2>1. CASE p = x
    <3>1. known'[p] = ValueOf(raw, fo)
      BY <1>1, <2>1 DEF IInv, TypeOK
    <3>2. Valid(raw) /\ known'[p] = [raw |-> raw, funcOffset |-> fo]
      BY <3>1, <1>4, <1>5, GoodValue
    <3> QED BY <3>2, <1>1, <2>1 DEF HistoryAfter
  <2>2. CASE p # x
    <3>1. known'[p] = known[p]
      BY <1>1, <2>2 DEF IInv, TypeOK
    <3>2. /\ history = "someGood"
          /\ known[p] = [raw |-> [point |-> p, offset |-> offsets], funcOffset |-> funcOffset]
          /\ Valid(known[p].raw)
      BY <3>1, <1>5 DEF IInv, MasterInv
    <3>3. offsets' = offsets /\ funcOffset' = funcOffset /\ history' = "someGood"
      BY <3>2, <1>1, SameOffsets DEF IInv, FuncOffsetAfter, HistoryAfter
    <3> QED BY <3>1, <3>2, <3>3
  <2> QED BY <2>1, <2>2
<1> HIDE DEF raw, fo
<1> QED BY <1>1, <1>2, <1>3, <1>5 DEF MasterInv, Good

LEMMA NextMasterInv == ASSUME IInv, [Next]_vars PROVE MasterInv'
<1> USE DEF IInv, MasterInv, Valid
<1>1. ASSUME NEW x \in Starts, Minimize(x) PROVE MasterInv'
  BY <1>1 DEF Minimize, Good
<1>2. ASSUME NEW x \in Points, ReturnClean(x) PROVE MasterInv'
  BY <1>2 DEF ReturnClean
<1>3. ASSUME NEW x \in Points, StartGradient(x) PROVE MasterInv'
  BY <1>3 DEF StartGradient
<1>4. CASE FinishGradient
  BY <1>4 DEF FinishGradient
<1>5. CASE EndMinimize
  BY <1>5 DEF EndMinimize
<1>6. ASSUME NEW w \in Workers, NEW x \in Points, ReceiveUpdate(w, x) \/ EvaluateBeside(w, x)
      PROVE  MasterInv'
  BY <1>6 DEF ReceiveUpdate, EvaluateBeside
<1>7. CASE UNCHANGED vars
  BY <1>7 DEF vars
<1> QED BY <1>1, <1>2, <1>3, <1>4, <1>5, <1>6, <1>7, DoEvalMaster DEF Next

\* Only values at the point of the gradient are kept while it is calculated.
LEMMA NextPointInv == ASSUME IInv, [Next]_vars PROVE PointInv'
<1> USE DEF IInv, PointInv
<1>1. ASSUME NEW x \in Starts, Minimize(x) PROVE PointInv'
  BY <1>1 DEF Minimize
<1>2. ASSUME NEW x \in Points, DoEval(x) PROVE PointInv'
  BY <1>2 DEF DoEval
<1>3. ASSUME NEW x \in Points, ReturnClean(x) PROVE PointInv'
  BY <1>3 DEF ReturnClean, LineSearchEnds, Sync
<1>4. ASSUME NEW x \in Points, StartGradient(x) PROVE PointInv'
  BY <1>4 DEF StartGradient, LineSearchEnds, Sync, Fork, Good
<1>5. CASE FinishGradient
  BY <1>5 DEF FinishGradient
<1>6. CASE EndMinimize
  BY <1>6 DEF EndMinimize
<1>7. ASSUME NEW w \in Workers, NEW x \in Points, ReceiveUpdate(w, x) \/ EvaluateBeside(w, x)
      PROVE  PointInv'
  BY <1>7 DEF ReceiveUpdate, EvaluateBeside, Good
<1>8. CASE UNCHANGED vars
  BY <1>8 DEF vars, Good
<1> QED BY <1>1, <1>2, <1>3, <1>4, <1>5, <1>6, <1>7, <1>8 DEF Next

\* The flag is no danger once a gradient was calculated: a line search then never
\* ends where that was.
LEMMA NextGradientInv == ASSUME IInv, [Next]_vars PROVE GradientInv'
<1> USE DEF IInv, GradientInv
<1>1. ASSUME NEW x \in Starts, Minimize(x) PROVE GradientInv'
  BY <1>1 DEF Minimize
<1>2. ASSUME NEW x \in Points, DoEval(x) PROVE GradientInv'
  BY <1>2 DEF DoEval
<1>3. ASSUME NEW x \in Points, ReturnClean(x) PROVE GradientInv'
  <2>1. ~calculated
    BY <1>3 DEF ReturnClean, LineSearchEnds, IsClean
  <2> QED BY <1>3, <2>1 DEF ReturnClean
<1>4. ASSUME NEW x \in Points, StartGradient(x) PROVE GradientInv'
  BY <1>4 DEF StartGradient
<1>5. CASE FinishGradient
  BY <1>5 DEF FinishGradient
<1>6. CASE EndMinimize
  BY <1>6 DEF EndMinimize
<1>7. ASSUME NEW w \in Workers, NEW x \in Points, ReceiveUpdate(w, x) \/ EvaluateBeside(w, x)
      PROVE  GradientInv'
  BY <1>7 DEF ReceiveUpdate, EvaluateBeside
<1>8. CASE UNCHANGED vars
  BY <1>8 DEF vars
<1> QED BY <1>1, <1>2, <1>3, <1>4, <1>5, <1>6, <1>7, <1>8 DEF Next

LEMMA Invariant == Spec => []IInv
<1>1. IInv /\ [Next]_vars => IInv'
  BY NextTypeOK, NextMasterInv, NextPointInv, NextGradientInv DEF IInv
<1> QED BY <1>1, InitIInv, PTL DEF Spec

\* The variables have their types in every state: in particular a gradient is
\* only ever stored for an actual point.
THEOREM TypeCorrect == Spec => []TypeOK
<1>1. IInv => TypeOK
  BY DEF IInv
<1> QED BY <1>1, Invariant, PTL

\* All valid values Minuit2 compares in a minimization have the same likelihood
\* offset and the same offset for invalid values.
THEOREM MasterComparesOneFunction == Spec => []OneFunctionOnMaster
<1>1. IInv => OneFunctionOnMaster
  <2>1. ASSUME IInv, NEW p \in Points, Good(known[p])
        PROVE  known[p].raw.offset = offsets /\ known[p].funcOffset = funcOffset
    <3>1. known[p] = [raw |-> [point |-> p, offset |-> offsets], funcOffset |-> funcOffset]
      BY <2>1 DEF IInv, MasterInv
    <3> QED BY <3>1
  <2>2. ASSUME IInv, NEW p \in Points, NEW q \in Points PROVE SameFunction(known[p], known[q])
    <3>1. CASE Good(known[p]) /\ Good(known[q])
      BY <2>1, <2>2, <3>1 DEF SameFunction
    <3>2. CASE ~(Good(known[p]) /\ Good(known[q]))
      BY <3>2 DEF SameFunction, Good
    <3> QED BY <3>1, <3>2
  <2> QED BY <2>2 DEF OneFunctionOnMaster
<1> QED BY <1>1, Invariant, PTL

\* From the first gradient that is calculated in a minimization on, the gradient
\* Minuit2 gets for a point is the gradient at that point.
THEOREM GradientIsAtPoint == Spec => []GradientAtPoint
<1>1. IInv => GradientAtPoint
  BY DEF IInv, GradientInv, GradientAtPoint
<1> QED BY <1>1, Invariant, PTL

-----------------------------------------------------------------------------
(* The workers' part: no point has the internal coordinates the gradient job *)
(* is constructed with *)

LEMMA InitWorkerInv == ASSUME Origin \notin Points, Init PROVE WorkerInv
BY DEF Init, WorkerInv

LEMMA DoEvalWorkerInv ==
    ASSUME IInv, WorkerInv, NEW x \in Points, DoEval(x)
    PROVE  WorkerInv'
<1>1. /\ history' # "none" /\ offsets' = OffsetsToUse(offsets, x)
      /\ history = "someGood" => history' = "someGood"
  BY DEF DoEval, HistoryAfter
<1>2. history # "none" => offsets' = offsets
  BY <1>1, SameOffsets DEF IInv
<1>3. forked' => \A w \in Workers : wOffsets'[w] = offsets'
  <2>1. CASE forked
    BY <2>1, <1>2 DEF DoEval, Fork, WorkerInv
  <2>2. CASE ~forked
    BY <2>2 DEF DoEval, Fork
  <2> QED BY <2>1, <2>2
<1>4. phase' = "minimizing" /\ wCacheX' = wCacheX /\ wFVal' = wFVal
  BY DEF DoEval
<1>5. ASSUME NEW w \in Workers, wCacheX'[w] \in Points
      PROVE  /\ history' = "someGood" /\ Good(wFVal'[w])
             /\ wFVal'[w].raw = [point |-> wCacheX'[w], offset |-> offsets']
  BY <1>1, <1>2, <1>4, <1>5 DEF WorkerInv
<1> QED BY <1>1, <1>3, <1>4, <1>5 DEF WorkerInv, Good

LEMMA StartGradientWorkerInv ==
    ASSUME IInv, WorkerInv, NEW x \in Points, StartGradient(x)
    PROVE  WorkerInv' /\ history = "someGood"
<1>1. history = "someGood" /\ history' = history /\ offsets' = offsets
  BY DEF StartGradient, LineSearchEnds, IInv, MasterInv, Good
<1>2. \A w \in Workers : wOffsets'[w] = offsets'
  BY <1>1 DEF StartGradient, Fork, WorkerInv
<1> QED BY <1>1, <1>2 DEF StartGradient, WorkerInv, Good

\* What a worker has once it received the update.
LEMMA Received ==
    ASSUME Origin \notin Points, IInv, WorkerInv,
           NEW w \in Workers, NEW x \in Points, ReceiveUpdate(w, x)
    PROVE  /\ x = internalX /\ Good(known[x]) /\ history = "someGood"
           /\ known[x] = [raw |-> [point |-> x, offset |-> offsets], funcOffset |-> funcOffset]
           /\ Valid([point |-> x, offset |-> offsets])
           /\ OffsetsToUse(offsets, x) = offsets /\ wOffsets[w] = offsets
           /\ fval \in {NoValue, known[x]}
<1>1. phase = "gradient" /\ (jobX # Unset => x = jobX)
  BY DEF ReceiveUpdate
<1>2. x = internalX
  BY <1>1, MinuitAssumption DEF IInv, PointInv
<1>3. forked /\ Good(known[x]) /\ fval \in {NoValue, known[x]}
  BY <1>1, <1>2 DEF IInv, PointInv
<1>4. /\ history = "someGood"
      /\ known[x] = [raw |-> [point |-> x, offset |-> offsets], funcOffset |-> funcOffset]
      /\ Valid(known[x].raw)
  BY <1>3 DEF IInv, MasterInv
<1>5. Valid([point |-> x, offset |-> offsets])
  BY <1>4
<1>6. OffsetsToUse(offsets, x) = offsets
  BY <1>4, SameOffsets DEF IInv
<1> QED BY <1>2, <1>3, <1>4, <1>5, <1>6 DEF WorkerInv

LEMMA ReceivedValue ==
    ASSUME Origin \notin Points, IInv, WorkerInv,
           NEW w \in Workers, NEW x \in Points, ReceiveUpdate(w, x)
    PROVE  /\ wOffsets'[w] = offsets
           /\ Good(wFVal'[w]) /\ wFVal'[w].raw = [point |-> x, offset |-> offsets]
<1> DEFINE raw == [point |-> x, offset |-> OffsetsToUse(offsets, x)]
           fo == FuncOffsetAfter(raw, funcOffset, wHistory[w])
           withOffsets == fval = NoValue
           evaluates == withOffsets /\ wCacheX[w] # x
<1>1. raw = [point |-> x, offset |-> offsets] /\ raw \in Raw /\ Valid(raw) /\ fo \in FuncOffset
  BY Received, RawType, EvaluationType DEF IInv, TypeOK
<1>2. Good(ValueOf(raw, fo)) /\ ValueOf(raw, fo).raw = raw
  BY <1>1, GoodValue
<1>3. /\ wFVal'[w] = IF evaluates THEN ValueOf(raw, fo) ELSE IF withOffsets THEN wFVal[w] ELSE fval
      /\ wOffsets'[w] = IF evaluates THEN raw.offset ELSE IF withOffsets THEN offsets ELSE wOffsets[w]
  BY DEF ReceiveUpdate, IInv, TypeOK
<1>4. wOffsets[w] = offsets /\ Good(known[x]) /\ known[x].raw = [point |-> x, offset |-> offsets]
  <2>1. known[x] = [raw |-> [point |-> x, offset |-> offsets], funcOffset |-> funcOffset]
    BY Received
  <2>2. known[x].raw = [point |-> x, offset |-> offsets]
    BY <2>1
  <2> QED BY <2>2, Received
<1>5. CASE evaluates
  <2> HIDE DEF raw, fo
  <2> QED BY <1>1, <1>2, <1>3, <1>5
<1>6. CASE withOffsets /\ wCacheX[w] = x
  <2>1. Good(wFVal[w]) /\ wFVal[w].raw = [point |-> x, offset |-> offsets]
    BY <1>6 DEF WorkerInv
  <2> HIDE DEF raw, fo
  <2> QED BY <1>3, <1>6, <2>1
<1>7. CASE ~withOffsets
  <2>1. fval = known[x]
    BY <1>7, Received
  <2> HIDE DEF raw, fo
  <2> QED BY <1>3, <1>4, <1>7, <2>1
<1> QED BY <1>5, <1>6, <1>7

LEMMA ReceiveUpdateWorkerInv ==
    ASSUME Origin \notin Points, IInv, WorkerInv,
           NEW w \in Workers, NEW x \in Points, ReceiveUpdate(w, x)
    PROVE  WorkerInv'
<1>1. /\ \A v \in Workers \ {w} : /\ wOffsets'[v] = wOffsets[v] /\ wFVal'[v] = wFVal[v]
                                  /\ wX'[v] = wX[v] /\ wCacheX'[v] = wCacheX[v]
      /\ wX'[w] = x /\ wCacheX'[w] = x /\ wUpdated' = wUpdated \cup {w}
      /\ UNCHANGED <<forked, history, offsets, phase, internalX>>
      /\ phase = "gradient"
  BY DEF ReceiveUpdate, IInv, TypeOK
<1>2. x = internalX /\ history = "someGood"
  BY Received
<1>3. /\ wOffsets'[w] = offsets
      /\ Good(wFVal'[w]) /\ wFVal'[w].raw = [point |-> x, offset |-> offsets]
  BY ReceivedValue
<1>4. forked => \A v \in Workers : wOffsets'[v] = offsets
  BY <1>1, <1>3 DEF WorkerInv
<1>5. ASSUME NEW v \in Workers, wCacheX'[v] \in Points
      PROVE  Good(wFVal'[v]) /\ wFVal'[v].raw = [point |-> wCacheX'[v], offset |-> offsets]
  BY <1>1, <1>3, <1>5 DEF WorkerInv
<1>6. \A v \in wUpdated' : wX'[v] = internalX /\ wCacheX'[v] = internalX
  BY <1>1, <1>2 DEF WorkerInv, IInv, TypeOK
<1> QED BY <1>1, <1>2, <1>4, <1>5, <1>6 DEF WorkerInv, Good

LEMMA EvaluateBesideWorkerInv ==
    ASSUME IInv, WorkerInv, NEW w \in Workers, NEW p \in Points, EvaluateBeside(w, p)
    PROVE  WorkerInv' /\ OffsetsToUse(wOffsets[w], p) = offsets
<1>1. forked
  BY DEF EvaluateBeside, IInv, PointInv
<1>2. OffsetsToUse(wOffsets[w], p) = offsets
  BY <1>1, SameOffsets DEF WorkerInv, IInv
<1>3. wOffsets' = [wOffsets EXCEPT ![w] = offsets]
  BY <1>2 DEF EvaluateBeside
<1>4. \A v \in Workers : wOffsets'[v] = offsets
  BY <1>1, <1>3 DEF WorkerInv, IInv, TypeOK
<1> QED BY <1>2, <1>4 DEF EvaluateBeside, WorkerInv, Good

LEMMA NextWorkerInv ==
    ASSUME Origin \notin Points, IInv, WorkerInv, [Next]_vars
    PROVE  WorkerInv'
<1> USE DEF WorkerInv, Good
<1>1. ASSUME NEW x \in Starts, Minimize(x) PROVE WorkerInv'
  BY <1>1 DEF Minimize
<1>2. ASSUME NEW x \in Points, ReturnClean(x) PROVE WorkerInv'
  BY <1>2 DEF ReturnClean, LineSearchEnds
<1>3. CASE FinishGradient
  BY <1>3 DEF FinishGradient
<1>4. CASE EndMinimize
  BY <1>4 DEF EndMinimize
<1>5. CASE UNCHANGED vars
  BY <1>5 DEF vars
<1> QED
  BY <1>1, <1>2, <1>3, <1>4, <1>5, DoEvalWorkerInv, StartGradientWorkerInv,
     ReceiveUpdateWorkerInv, EvaluateBesideWorkerInv DEF Next

LEMMA WorkerInvariant == ASSUME Origin \notin Points PROVE Spec => [](IInv /\ WorkerInv)
<1>1. Init => IInv /\ WorkerInv
  BY InitIInv, InitWorkerInv
<1>2. (IInv /\ WorkerInv) /\ [Next]_vars => (IInv /\ WorkerInv)'
  BY NextTypeOK, NextMasterInv, NextPointInv, NextGradientInv, NextWorkerInv DEF IInv
<1> QED BY <1>1, <1>2, PTL DEF Spec

\* Every worker that has the update differentiates at the point Minuit2 asked for,
\* and holds a valid value of the function at that point, unless a point of the
\* fit has the internal coordinates (all 0) the gradient job is constructed with.
THEOREM WorkersDifferentiateAtPoint == ASSUME Origin \notin Points PROVE Spec => []CentralValue
<1>1. IInv /\ WorkerInv => CentralValue
  <2> SUFFICES ASSUME IInv, WorkerInv, NEW w \in wUpdated, phase = "gradient"
               PROVE  /\ wX[w] = internalX
                      /\ Good(wFVal[w]) /\ wFVal[w].raw.point = internalX
    BY DEF CentralValue, Good
  <2>1. w \in Workers /\ internalX \in Points /\ wX[w] = internalX /\ wCacheX[w] = internalX
    BY DEF IInv, TypeOK, PointInv, WorkerInv
  <2>2. Good(wFVal[w]) /\ wFVal[w].raw = [point |-> internalX, offset |-> offsets]
    BY <2>1 DEF WorkerInv
  <2> QED BY <2>1, <2>2
<1> QED BY <1>1, WorkerInvariant, PTL

-----------------------------------------------------------------------------
(* One function on all processes *)

LEMMA DoEvalFunctionInv ==
    ASSUME IInv, WorkerInv, FunctionInv, NEW x \in Points, DoEval(x)
    PROVE  FunctionInv'
<1> DEFINE raw == [point |-> x, offset |-> OffsetsToUse(offsets, x)]
<1>1. /\ history' = HistoryAfter(raw, history)
      /\ funcOffset' = FuncOffsetAfter(raw, funcOffset, history)
      /\ offsets' = OffsetsToUse(offsets, x)
      /\ phase' = "minimizing"
      /\ UNCHANGED <<setup, wUpdated, wOnlyBad, wCacheX, wFVal, previous, fval>>
  BY DEF DoEval
<1> HIDE DEF raw
<1>2. history' # "none" /\ (history # "none" => offsets' = offsets)
  BY <1>1, SameOffsets DEF HistoryAfter, IInv
<1>3. IF setup.parallel THEN Fork(offsets') ELSE UNCHANGED <<forked, wHistory>>
  BY DEF DoEval
<1>4. setup.parallel => forked'
  BY <1>3 DEF Fork
<1>5. ASSUME NEW w \in Workers, wHistory'[w] = "allBad" PROVE previous' = offsets' /\ history' # "none"
  <2>1. CASE setup.parallel /\ ~forked
    BY <1>3, <1>5, <2>1 DEF Fork, FunctionInv
  <2>2. CASE ~(setup.parallel /\ ~forked)
    <3>1. wHistory' = wHistory
      BY <1>3, <2>2 DEF Fork
    <3>2. previous = offsets /\ history # "none"
      BY <1>5, <3>1 DEF FunctionInv
    <3> QED BY <1>1, <1>2, <3>2
  <2> QED BY <2>1, <2>2
<1>6. ASSUME NEW w \in Workers, wCacheX'[w] \in Points PROVE wFVal'[w].funcOffset = funcOffset'
  BY <1>1, <1>6 DEF WorkerInv, FunctionInv, FuncOffsetAfter
<1>7. forked' /\ ~setup'.parallel => wOnlyBad' = {} /\ \A w \in Workers : wHistory'[w] = "someGood"
  BY <1>1, <1>3 DEF FunctionInv
<1> QED BY <1>1, <1>4, <1>5, <1>6, <1>7 DEF FunctionInv

LEMMA StartGradientFunctionInv ==
    ASSUME IInv, WorkerInv, FunctionInv, NEW x \in Points, StartGradient(x)
    PROVE  FunctionInv'
<1>1. /\ wUpdated' = {} /\ wLast' = [w \in Workers |-> NoValue]
      /\ wOnlyBad' = {w \in Workers : wHistory'[w] = "allBad"}
      /\ previous' = offsets' /\ Fork(offsets)
      /\ fval' = IF offsets = previous THEN known[x] ELSE NoValue
      /\ known[x] # NoValue
      /\ UNCHANGED <<setup, history, offsets, funcOffset, wCacheX, wFVal>>
  BY DEF StartGradient, LineSearchEnds
<1>2. history = "someGood" /\ forked'
  BY <1>1, StartGradientWorkerInv DEF Fork
<1>3. ~setup.parallel => \A w \in Workers : wHistory'[w] = "someGood"
  BY <1>1, <1>2 DEF Fork, FunctionInv
<1>4. ASSUME NEW w \in Workers, wHistory'[w] = "allBad" PROVE fval' # NoValue
  <2>1. wHistory[w] = "allBad"
    BY <1>1, <1>2, <1>4 DEF Fork
  <2> QED BY <1>1, <2>1 DEF FunctionInv
<1>5. ~setup.parallel => wOnlyBad' = {}
  BY <1>1, <1>3
<1>6. \A w \in Workers : (w \notin wOnlyBad' => wHistory'[w] # "allBad") /\ wLast'[w] = NoValue
  BY <1>1
<1>7. \A w \in Workers : wCacheX'[w] \in Points => wFVal'[w].funcOffset = funcOffset'
  BY <1>1 DEF FunctionInv
<1> QED BY <1>1, <1>2, <1>3, <1>4, <1>5, <1>6, <1>7 DEF FunctionInv, Follows, Good

LEMMA ReceiveUpdateFunctionInv ==
    ASSUME Origin \notin Points, IInv, WorkerInv, FunctionInv,
           NEW w \in Workers, NEW x \in Points, ReceiveUpdate(w, x)
    PROVE  FunctionInv'
<1> DEFINE raw == [point |-> x, offset |-> OffsetsToUse(offsets, x)]
           fo == FuncOffsetAfter(raw, funcOffset, wHistory[w])
           withOffsets == fval = NoValue
           evaluates == withOffsets /\ wCacheX[w] # x
<1>1. raw = [point |-> x, offset |-> offsets] /\ raw \in Raw /\ Valid(raw) /\ fo \in FuncOffset
  BY Received, RawType, EvaluationType DEF IInv, TypeOK
<1>2. phase = "gradient" /\ forked /\ w \notin wUpdated
  BY DEF ReceiveUpdate, IInv, PointInv
<1>3. withOffsets => fo = funcOffset /\ HistoryAfter(raw, wHistory[w]) = "someGood"
  BY <1>1, <1>2 DEF FunctionInv, FuncOffsetAfter, HistoryAfter
<1>4. withOffsets => ValueOf(raw, fo).funcOffset = funcOffset
  <2> HIDE DEF raw, fo
  <2>1. ValueOf(raw, fo) = [raw |-> raw, funcOffset |-> fo]
    BY <1>1, GoodValue
  <2>2. [raw |-> raw, funcOffset |-> fo].funcOffset = fo
    OBVIOUS
  <2> QED BY <1>3, <2>1, <2>2
<1>5. /\ wFVal'[w] = IF evaluates THEN ValueOf(raw, fo) ELSE IF withOffsets THEN wFVal[w] ELSE fval
      /\ wFuncOffset'[w] = IF evaluates THEN fo ELSE funcOffset
      /\ wHistory'[w] = IF evaluates THEN HistoryAfter(raw, wHistory[w]) ELSE wHistory[w]
  BY DEF ReceiveUpdate, IInv, TypeOK
<1>6. known[x].funcOffset = funcOffset /\ fval \in {NoValue, known[x]}
  <2>1. known[x] = [raw |-> [point |-> x, offset |-> offsets], funcOffset |-> funcOffset]
    BY Received
  <2>2. known[x].funcOffset = funcOffset
    BY <2>1
  <2> QED BY <2>2, Received
<1> HIDE DEF raw, fo
<1>7. wFVal'[w].funcOffset = funcOffset
  BY <1>4, <1>5, <1>6 DEF FunctionInv
<1>8. wFuncOffset'[w] = funcOffset /\ wHistory'[w] \in {"someGood", wHistory[w]}
  BY <1>3, <1>5
<1>9. /\ \A v \in Workers \ {w} : /\ wFuncOffset'[v] = wFuncOffset[v] /\ wFVal'[v] = wFVal[v]
                                  /\ wHistory'[v] = wHistory[v] /\ wCacheX'[v] = wCacheX[v]
      /\ wUpdated' = wUpdated \cup {w} /\ wLast' = wLast /\ wOnlyBad' = wOnlyBad
      /\ UNCHANGED <<setup, forked, history, offsets, funcOffset, phase, previous, fval>>
  BY DEF ReceiveUpdate, IInv, TypeOK
<1>10. \A v \in Workers : wHistory'[v] \in {"someGood", wHistory[v]}
  BY <1>8, <1>9
<1>11. \A v \in Workers : wCacheX'[v] \in Points => wFVal'[v].funcOffset = funcOffset'
  BY <1>7, <1>9 DEF FunctionInv
<1>12. \A v \in Workers : v \notin wOnlyBad' => Follows(v)'
  BY <1>2, <1>8, <1>9, <1>10 DEF FunctionInv, Follows, Good
<1>13. \A v \in Workers : wHistory'[v] = "allBad" =>
          /\ previous' = offsets' /\ history' # "none"
          /\ v \notin wUpdated' => fval' # NoValue
  BY <1>2, <1>9, <1>10 DEF FunctionInv
<1> QED BY <1>2, <1>9, <1>10, <1>11, <1>12, <1>13 DEF FunctionInv, Good

LEMMA EvaluateBesideFunctionInv ==
    ASSUME IInv, WorkerInv, FunctionInv, NEW w \in Workers, NEW p \in Points, EvaluateBeside(w, p)
    PROVE  FunctionInv'
<1> DEFINE raw == [point |-> p, offset |-> OffsetsToUse(wOffsets[w], p)]
           fo == FuncOffsetAfter(raw, wFuncOffset[w], wHistory[w])
<1>1. raw.offset = offsets /\ raw \in Raw /\ fo \in FuncOffset
  BY EvaluateBesideWorkerInv, RawType, EvaluationType DEF IInv, TypeOK
<1>2. phase = "gradient" /\ w \in wUpdated /\ forked
  BY DEF EvaluateBeside, IInv, PointInv
<1>3. /\ wOffsets' = [wOffsets EXCEPT ![w] = raw.offset] /\ wFuncOffset' = [wFuncOffset EXCEPT ![w] = fo]
      /\ wHistory' = [wHistory EXCEPT ![w] = HistoryAfter(raw, wHistory[w])]
      /\ wLast' = [wLast EXCEPT ![w] = ValueOf(raw, fo)]
      /\ wOnlyBad' = IF wHistory'[w] = "allBad" THEN wOnlyBad \cup {w} ELSE wOnlyBad
      /\ UNCHANGED <<callVars, pointVars, functionVars, forked, wUpdated, wCacheX, wFVal>>
  BY DEF EvaluateBeside, IInv, TypeOK
<1> HIDE DEF raw, fo
<1>4. w \notin wOnlyBad => fo = funcOffset
  BY <1>2 DEF fo, FunctionInv, Follows, FuncOffsetAfter
<1>5. history = "someGood"
  BY <1>2 DEF IInv, PointInv, MasterInv
<1>6. ASSUME Good(ValueOf(raw, fo))
      PROVE  ValueOf(raw, fo).raw.offset = offsets /\ ValueOf(raw, fo).funcOffset = fo
  <2>1. ValueOf(raw, fo) = [raw |-> raw, funcOffset |-> fo]
    BY <1>1, <1>6, GoodValue
  <2>2. ValueOf(raw, fo).raw = raw /\ ValueOf(raw, fo).funcOffset = fo
    BY <2>1
  <2> QED BY <1>1, <2>2
<1>7. ASSUME ~setup.parallel
      PROVE  wOnlyBad' = {} /\ \A v \in Workers : wHistory'[v] = "someGood"
  <2>1. wHistory[w] = "someGood" /\ HistoryAfter(raw, wHistory[w]) = "someGood"
    BY <1>2, <1>7 DEF FunctionInv, HistoryAfter
  <2>2. wHistory'[w] = "someGood"
    BY <1>3, <2>1 DEF IInv, TypeOK
  <2> QED BY <1>2, <1>3, <1>7, <2>2 DEF FunctionInv, IInv, TypeOK
<1>8. ASSUME NEW v \in Workers, v \notin wOnlyBad' PROVE Follows(v)'
  <2>1. v \notin wOnlyBad
    BY <1>3, <1>8
  <2>2. CASE v = w
    <3>1. wHistory'[w] # "allBad" /\ wFuncOffset'[w] = funcOffset /\ wLast'[w] = ValueOf(raw, fo)
      BY <1>3, <1>4, <1>8, <2>1, <2>2 DEF IInv, TypeOK
    <3> QED BY <1>3, <1>4, <1>6, <2>1, <2>2, <3>1 DEF Follows
  <2>3. CASE v # w
    BY <1>2, <1>3, <2>1, <2>3 DEF FunctionInv, Follows, Good, IInv, TypeOK
  <2> QED BY <2>2, <2>3
<1>9. \A v \in Workers : Good(wLast'[v]) => wLast'[v].raw.offset = offsets'
  BY <1>2, <1>3, <1>6 DEF FunctionInv, IInv, TypeOK
<1>10. \A v \in Workers : wHistory'[v] = "allBad" =>
          /\ previous' = offsets' /\ history' # "none"
          /\ v \notin wUpdated' => fval' # NoValue
  <2>1. previous = offsets
    BY <1>2 DEF FunctionInv
  <2> QED BY <1>2, <1>3, <1>5, <2>1 DEF FunctionInv, IInv, TypeOK
<1> QED BY <1>2, <1>3, <1>7, <1>8, <1>9, <1>10 DEF FunctionInv, Good

LEMMA NextFunctionInv ==
    ASSUME Origin \notin Points, IInv, WorkerInv, FunctionInv, [Next]_vars
    PROVE  FunctionInv'
<1> USE DEF FunctionInv, Follows, Good
<1>1. ASSUME NEW x \in Starts, Minimize(x) PROVE FunctionInv'
  BY <1>1 DEF Minimize
<1>2. ASSUME NEW x \in Points, ReturnClean(x) PROVE FunctionInv'
  BY <1>2 DEF ReturnClean, LineSearchEnds
<1>3. CASE FinishGradient
  BY <1>3 DEF FinishGradient
<1>4. CASE EndMinimize
  BY <1>4 DEF EndMinimize
<1>5. CASE UNCHANGED vars
  BY <1>5 DEF vars
<1> QED
  BY <1>1, <1>2, <1>3, <1>4, <1>5, DoEvalFunctionInv, StartGradientFunctionInv,
     ReceiveUpdateFunctionInv, EvaluateBesideFunctionInv DEF Next

\* On every worker, the finite differences of a gradient are of values of one
\* function, that which the master sent the value of, unless the worker has met
\* invalid values only, which does not happen with a serial likelihood; and all
\* values have the likelihood's offset.
THEOREM WorkersDifferentiateOneFunction ==
    ASSUME Origin \notin Points
    PROVE  Spec => []OneFunctionOnWorkers
<1>1. Init => FunctionInv
  BY DEF Init, FunctionInv
<1>2. IInv /\ WorkerInv /\ FunctionInv /\ [Next]_vars => FunctionInv'
  BY NextFunctionInv
<1>3. IInv /\ WorkerInv /\ FunctionInv => OneFunctionOnWorkers
  <2>1. ASSUME IInv, WorkerInv, FunctionInv, NEW w \in wUpdated, phase = "gradient"
        PROVE  IF w \in wOnlyBad THEN setup.parallel /\ SameOffset(wLast[w], wFVal[w])
                                 ELSE SameFunction(wLast[w], wFVal[w])
    <3>1. w \in Workers /\ internalX \in Points /\ wCacheX[w] = internalX /\ forked
      BY <2>1 DEF IInv, TypeOK, PointInv, WorkerInv
    <3>2. wFVal[w].raw = [point |-> internalX, offset |-> offsets] /\ wFVal[w].funcOffset = funcOffset
      BY <2>1, <3>1 DEF WorkerInv, FunctionInv
    <3>3. w \in wOnlyBad => setup.parallel
      BY <2>1, <3>1 DEF FunctionInv
    <3>4. CASE Good(wLast[w])
      <4>1. wLast[w].raw.offset = offsets /\ (w \notin wOnlyBad => wLast[w].funcOffset = funcOffset)
        BY <2>1, <3>1, <3>4 DEF FunctionInv, Follows
      <4> QED BY <3>2, <3>3, <4>1 DEF SameFunction, SameOffset
    <3>5. CASE ~Good(wLast[w])
      BY <3>3, <3>5 DEF SameFunction, SameOffset, Good
    <3> QED BY <3>4, <3>5
  <2> QED BY <2>1 DEF OneFunctionOnWorkers
<1> QED BY <1>1, <1>2, <1>3, WorkerInvariant, PTL DEF Spec
=============================================================================
