------------------------------ MODULE Evaluator ------------------------------
(***************************************************************************)
(* RooFit::Evaluator on the CPU: the computation graph of a likelihood,    *)
(* its dirty flags, the inputs and the offset mode; RooNLLVarNew, the      *)
(* reducer with its weights and its offset; RooEvaluatorWrapper above them *)
(* and the two that call it: RooMinimizerFcn and the program.              *)
(*                                                                         *)
(* A value is a pair of sets: what it was computed of (parameters, data    *)
(* set, weights), and what the offset was computed of that is subtracted.  *)
(***************************************************************************)
EXTENDS Naturals, Sequences

CONSTANTS Vars,       \* RooRealVars of the graph
          Order,      \* all nodes but the inputs, servers first
          Servers,    \* value servers of the nodes in Order, Vars aside
          Input,      \* the observables of the data set, one node for all
          Reducer,    \* the RooNLLVarNew
          Top,        \* the top node
          Failing,    \* nodes whose doEval may throw
          Values, Datasets,
          Zeros,      \* what the likelihood is worth nothing for
          SumW, Squared, Torn   \* keys of values that are no parameters

(* Evaluator::Evaluator: the graph is that of the servers of the top node, *)
(* sorted such that servers come before their clients (the last conjunct   *)
(* says that nothing else is in it: a set of nodes that has the top node   *)
(* and the servers of all its nodes has them all).                         *)
ASSUME ConstantsAssumption ==
  /\ Order # << >> /\ Order \in Seq({Order[i] : i \in DOMAIN Order})
  /\ \A i, j \in DOMAIN Order : Order[i] = Order[j] => i = j
  /\ Top = Order[Len(Order)]
  /\ Input \notin Vars /\ \A i \in DOMAIN Order : Order[i] # Input
  /\ \A i \in DOMAIN Order :
       Order[i] \notin Vars =>
         Servers[Order[i]] \subseteq {Input} \cup {Order[j] : j \in 1..(i - 1)}
  /\ Reducer \in {Order[i] : i \in DOMAIN Order} \ Vars /\ Failing \cap Vars = {}
  /\ \A S \in SUBSET ({Input} \cup {Order[i] : i \in DOMAIN Order}) :
       (Top \in S /\ \A n \in S \ (Vars \cup {Input}) : Servers[n] \subseteq S)
         => Vars \cup {Input, Reducer} \subseteq S

VARIABLES val,      \* _value of the RooRealVars
          seen,     \* lastSetValCount = valueResetCounter
          data,     \* the data set of the last setInput
          resize,   \* _needToUpdateOutputSizes
          dirty,    \* NodeInfo::isDirty of the functions
          out,      \* the buffers in the EvalContext
          subtract, \* _offsetMode is WithOffset
          squared, doOffset, offset,  \* of the reducer
          sumw,     \* data set of its cached sum of weights (0: generation differs)
          hide,     \* RooAbsReal::_hideOffset
          pc,       \* node that is next in run(), 0 if none runs
          fitting,  \* run() was called by RooMinimizerFcn
          inFit,    \* a RooMinimizer::fitFCN is in progress
          fitOffset,\* history: offset of the values of this fit
          silent,   \* history: a switch since the reducer was computed
          aborted   \* history: an evaluation of a fit threw

graphVars == <<val, seen, data, resize, dirty, out>>
reducerVars == <<squared, doOffset, offset, sumw, silent>>
callVars == <<subtract, hide, pc, fitting>>
fitVars == <<inFit, fitOffset, aborted>>
vars == <<graphVars, reducerVars, callVars, fitVars>>

Nodes == {Order[i] : i \in DOMAIN Order}
Fcns == Nodes \ Vars
Clients(n) == {f \in Fcns : n \in Servers[f]}

Value(of, minus) == [of |-> of, minus |-> minus]
(* The value of a node that only combines those of the nodes in S.         *)
Combined(S) ==
  Value(UNION {out[s].of : s \in S}, UNION {out[s].minus : s \in S})

Init ==
  /\ val \in [Vars -> Values]
  /\ seen = [v \in Vars |-> FALSE]
  /\ data \in Datasets /\ resize = TRUE
  /\ dirty = [f \in Fcns |-> TRUE]
  /\ out = [n \in Nodes \cup {Input} |->
              IF n = Input THEN Value({<<Input, data>>}, {}) ELSE Value({}, {})]
  /\ subtract = FALSE /\ hide = TRUE /\ pc = 0 /\ fitting = FALSE
  /\ squared = FALSE /\ doOffset \in BOOLEAN /\ offset = {} /\ sumw = 0
  /\ inFit = FALSE /\ fitOffset = {}
  /\ silent = FALSE /\ aborted = FALSE

Idle == pc = 0

---------------------------------------------------------------------------
(* RooRealVar::setVal: a new value raises the counter.                     *)
Set(new) ==
  /\ val' = new
  /\ seen' = [v \in Vars |-> seen[v] /\ new[v] = val[v]]

SetVal(v, x) ==
  /\ Idle /\ ~inFit /\ val[v] # x
  /\ Set([val EXCEPT ![v] = x])
  /\ UNCHANGED <<data, resize, dirty, out, reducerVars, callVars, fitVars>>

(* RooEvaluatorWrapper::setData: setInput for every column, a new input    *)
(* generation.                                                             *)
SetData(d) ==
  /\ Idle /\ ~inFit
  /\ data' = d /\ resize' = TRUE /\ sumw' = 0
  /\ out' = [out EXCEPT ![Input] = Value({<<Input, d>>}, {})]
  /\ UNCHANGED <<val, seen, dirty, squared, doOffset, offset, silent,
                 callVars, fitVars>>

(* RooNLLVarNew::applyWeightSquared and enableOffsetting: no flag is set.  *)
ApplyWeightSquared(flag) ==
  /\ Idle /\ ~inFit /\ squared # flag
  /\ squared' = flag /\ silent' = TRUE
  /\ UNCHANGED <<graphVars, doOffset, offset, sumw, callVars, fitVars>>

EnableOffsetting(flag) ==
  /\ Idle /\ ~inFit
  /\ doOffset' = flag /\ offset' = {} /\ silent' = TRUE
  /\ UNCHANGED <<graphVars, squared, sumw, callVars, fitVars>>

---------------------------------------------------------------------------
(* Mutant of NextNode: the loop ends one past its end.                     *)
NextNodePast(from, sn, dy) ==
  LET todo == {i \in from..Len(Order) :
                 IF Order[i] \in Vars THEN ~sn[Order[i]] ELSE dy[Order[i]]}
  IN  IF todo = {} THEN Len(Order) + 2 ELSE CHOOSE i \in todo : \A j \in todo : i <= j

(* The next node of the loop that has something to do.                     *)
NextNode(from, sn, dy) ==
  LET todo == {i \in from..Len(Order) :
                 IF Order[i] \in Vars THEN ~sn[Order[i]] ELSE dy[Order[i]]}
  IN  IF todo = {} THEN Len(Order) + 1 ELSE CHOOSE i \in todo : \A j \in todo : i <= j

(* Mutant of FlagsAtStart: a new mode is only used where it is noticed.    *)
FlagsWithoutMode(with) == [f \in Fcns |-> dirty[f] \/ resize]

(* The flags run() starts with: setOffsetMode, updateOutputSizes.          *)
FlagsAtStart(with) ==
  [f \in Fcns |-> dirty[f] \/ resize \/ (f = Reducer /\ with # subtract)]

(* RooEvaluatorWrapper::evaluate.                                          *)
Start(hidden) ==
  /\ subtract' = ~hidden
  /\ dirty' = FlagsAtStart(~hidden)
  /\ resize' = FALSE
  /\ pc' = NextNode(1, seen', dirty')

(* getVal by the program.                                                  *)
GetVal ==
  /\ Idle /\ ~inFit
  /\ seen' = seen /\ fitting' = FALSE
  /\ Start(hide)
  /\ UNCHANGED <<val, data, out, hide, reducerVars, fitVars>>

(* RooMinimizerFcn::operator(): parameters, offset shown, getVal.          *)
Evaluate(new) ==
  /\ Idle /\ inFit
  /\ Set(new)
  /\ hide' = FALSE /\ fitting' = TRUE
  /\ Start(FALSE)
  /\ UNCHANGED <<data, out, reducerVars, fitVars>>

---------------------------------------------------------------------------
Node == Order[pc]
Computing == ~Idle /\ pc <= Len(Order)

(* Clients become dirty before the node is computed, the node clean after. *)
ClientsDirty(n) == [f \in Fcns |-> dirty[f] \/ f \in Clients(n)]

(* processVariable. *)
ProcessVariable ==
  /\ Computing /\ Node \in Vars
  /\ seen' = [seen EXCEPT ![Node] = TRUE]
  /\ dirty' = ClientsDirty(Node)
  /\ out' = [out EXCEPT ![Node] = Value({<<Node, val[Node]>>}, {})]
  /\ pc' = NextNode(pc + 1, seen', dirty')
  /\ UNCHANGED <<val, data, resize, subtract, hide, fitting, reducerVars, fitVars>>

(* Mutant of Computed: a node that is computed leaves its clients alone.   *)
ComputedAlone(v) ==
  /\ dirty' = [dirty EXCEPT ![Node] = FALSE]
  /\ out' = [out EXCEPT ![Node] = v]
  /\ pc' = NextNode(pc + 1, seen, dirty')

Computed(v) ==
  /\ dirty' = [ClientsDirty(Node) EXCEPT ![Node] = FALSE]
  /\ out' = [out EXCEPT ![Node] = v]
  /\ pc' = NextNode(pc + 1, seen, dirty')

Compute ==
  /\ Computing /\ Node \in Fcns \ {Reducer} /\ dirty[Node]
  /\ Computed(Combined(Servers[Node]))
  /\ UNCHANGED <<val, seen, data, resize, subtract, hide, fitting, reducerVars, fitVars>>

(* Mutant of OffsetAfter: the offset is that of the last evaluation.       *)
OffsetOfLast(result) == IF doOffset THEN result ELSE offset

(* finalizeResult: the first result that is not zero becomes the offset.   *)
OffsetAfter(result) ==
  IF doOffset /\ offset = {} /\ result \notin Zeros THEN result ELSE offset

(* RooNLLVarNew::doEval, setOutputWithOffset.                              *)
Reduce ==
  /\ Computing /\ Node = Reducer /\ dirty[Reducer]
  /\ LET weights == IF sumw = 0 THEN data ELSE sumw
         result == Combined(Servers[Reducer]).of
                     \cup {<<SumW, weights>>, <<Squared, IF squared THEN 1 ELSE 0>>}
     IN  /\ sumw' = weights
         /\ offset' = OffsetAfter(result)
         /\ Computed(Value(result, IF subtract THEN offset' ELSE {}))
  /\ silent' = FALSE
  /\ UNCHANGED <<val, seen, data, resize, subtract, hide, fitting,
                 squared, doOffset, fitVars>>

(* doEval throws: its buffer is unfinished, its flag stays. From a call of *)
(* the minimizer, setHideOffset(true) is not reached, and the fit is over. *)
Throw ==
  /\ Computing /\ Node \in Failing /\ dirty[Node]
  /\ dirty' = ClientsDirty(Node)
  /\ out' = [out EXCEPT ![Node] = Value({<<Torn, 0>>}, {})]
  /\ pc' = 0 /\ fitting' = FALSE
  /\ inFit' = FALSE /\ fitOffset' = {}
  /\ aborted' = (aborted \/ fitting)
  /\ UNCHANGED <<val, seen, data, resize, subtract, hide, reducerVars>>

Returning == pc = Len(Order) + 1

(* run() returns, through the wrapper, and operator() if it called.        *)
Return ==
  /\ Returning
  /\ pc' = 0 /\ fitting' = FALSE
  /\ hide' = (hide \/ fitting)
  /\ fitOffset' = IF fitting /\ ~silent THEN out[Top].minus ELSE fitOffset
  /\ UNCHANGED <<graphVars, subtract, reducerVars, inFit, aborted>>

BeginFit ==
  /\ Idle /\ ~inFit
  /\ inFit' = TRUE
  /\ UNCHANGED <<graphVars, reducerVars, callVars, fitOffset, aborted>>

EndFit ==
  /\ Idle /\ inFit
  /\ inFit' = FALSE /\ fitOffset' = {}
  /\ UNCHANGED <<graphVars, reducerVars, callVars, aborted>>

Next ==
  \/ \E v \in Vars, x \in Values : SetVal(v, x)
  \/ \E d \in Datasets : SetData(d)
  \/ \E flag \in BOOLEAN : ApplyWeightSquared(flag) \/ EnableOffsetting(flag)
  \/ GetVal
  \/ \E new \in [Vars -> Values] : Evaluate(new)
  \/ ProcessVariable \/ Compute \/ Reduce \/ Throw \/ Return
  \/ BeginFit \/ EndFit

Spec == Init /\ [][Next]_vars

---------------------------------------------------------------------------
(* What the top node is worth now.                                         *)
Worth ==
  {<<v, val[v]>> : v \in Vars}
    \cup {<<Input, data>>, <<SumW, data>>, <<Squared, IF squared THEN 1 ELSE 0>>}

(* What a value may have been computed of.                                 *)
Facts ==
  (Vars \X Values) \cup ({Input, SumW} \X Datasets) \cup ({Squared} \X {0, 1})
    \cup {<<Torn, 0>>}

TypeOK ==
  /\ val \in [Vars -> Values]
  /\ seen \in [Vars -> BOOLEAN]
  /\ data \in Datasets /\ resize \in BOOLEAN
  /\ dirty \in [Fcns -> BOOLEAN]
  /\ out \in [Nodes \cup {Input} -> [of : SUBSET Facts, minus : SUBSET Facts]]
  /\ offset \subseteq Facts /\ fitOffset \subseteq Facts
  /\ silent \in BOOLEAN /\ aborted \in BOOLEAN
  /\ subtract \in BOOLEAN /\ hide \in BOOLEAN
  /\ squared \in BOOLEAN /\ doOffset \in BOOLEAN
  /\ sumw \in Datasets \cup {0}
  /\ pc \in 0..(Len(Order) + 1)
  /\ fitting \in BOOLEAN /\ inFit \in BOOLEAN

(* Whatever was set, loaded, switched between offset modes or interrupted  *)
(* by an exception before: run() returns the value for the present         *)
(* parameters, data set, sum of weights and kind of weights, unless the    *)
(* likelihood was switched and not computed since (Evaluator::run).        *)
RunIsCurrent ==
  (Returning /\ ~silent) => out[Top].of = Worth

(* The values a fit compares have one offset from the first that has one:  *)
(* neither evaluations before, nor other data, exceptions or changes of the*)
(* mode move it (RooNLLVarNew::finalizeResult).                            *)
OneOffsetPerFit ==
  (Returning /\ fitting /\ ~silent /\ fitOffset # {})
     => out[Top].minus = fitOffset

(* The program sees the likelihood without its offset, also between and    *)
(* after fits, as long as none was interrupted by an exception             *)
(* (RooMinimizerFcn::operator(), RooEvaluatorWrapper::evaluate).           *)
FullValueForProgram ==
  (Returning /\ ~fitting /\ ~aborted) => out[Top].minus = {}

(* RooAbsArg::applyWeightSquared "disables or enables the usage of squared *)
(* weights": checked with a run that expects the violation.                *)
WeightsFollow ==
  Returning => (<<Squared, 1>> \in out[Top].of <=> squared)
=============================================================================
