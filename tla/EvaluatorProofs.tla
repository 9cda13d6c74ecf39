--------------------------- MODULE EvaluatorProofs ---------------------------
(***************************************************************************)
(* The Evaluator returns current values, with one offset per fit and none  *)
(* for the program, for every computation graph, reducer, set of nodes     *)
(* that may throw, and any parameters, data sets and calls.                *)
(***************************************************************************)
EXTENDS Evaluator, WellFoundedInduction, TLAPS

N == Len(Order)
Ready(i, sn, dy) == IF Order[i] \in Vars THEN sn[Order[i]] ELSE ~dy[Order[i]]

(* While run() is at a node, those before it have nothing to do.           *)
Passed ==
  /\ pc # 0 => ~resize /\ \A j \in 1..(pc - 1) : Ready(j, seen, dirty)
  /\ pc \in 1..N => ~Ready(pc, seen, dirty)

(* The buffers of the sources are those of their last values.              *)
SourcesCurrent ==
  /\ out[Input] = Value({<<Input, data>>}, {})
  /\ \A v \in Vars : out[v].minus = {} /\ (seen[v] => out[v].of = {<<v, val[v]>>})
  /\ sumw \in {0, data}

(* A clean node was computed of what is in its servers' buffers, the       *)
(* reducer also of its weights, its offset and the offset mode.            *)
NodesCurrent ==
  \A f \in Fcns \ {Reducer} : ~dirty[f] /\ ~resize => out[f] = Combined(Servers[f])

ReducerCurrent ==
  ~dirty[Reducer] /\ ~resize =>
    /\ ~silent =>
         /\ out[Reducer].of = Combined(Servers[Reducer]).of
                \cup {<<SumW, data>>, <<Squared, IF squared THEN 1 ELSE 0>>}
         /\ subtract => out[Reducer].minus = offset
    /\ ~subtract => out[Reducer].minus = {}

GraphInv == Passed /\ SourcesCurrent /\ NodesCurrent /\ ReducerCurrent

(* The offset of a fit is the reducer's until the fit is over.             *)
FitInv ==
  /\ fitting => inFit /\ subtract /\ pc # 0
  /\ ~inFit => fitOffset = {}
  /\ fitOffset # {} => offset = fitOffset

(* The offset is hidden but in an evaluation of a fit.                     *)
HideInv ==
  /\ pc # 0 /\ ~fitting => subtract = ~hide
  /\ ~aborted => hide \/ fitting
---------------------------------------------------------------------------
(* Graphs                                                                  *)

(* A set of natural numbers has a least element: the induction over the    *)
(* order of the nodes, by the least node for which a claim fails.          *)
LEMMA LeastElement ==
  ASSUME NEW T \in SUBSET Nat, T # {}
  PROVE  \E x \in T : \A y \in T : x <= y
<1>1. PICK x \in T : \A y \in T : ~(<<y, x>> \in OpToRel(<, Nat))
  BY NatLessThanWellFounded, WFMin, Zenon
<1>2. \A y \in T : ~(y < x)
  BY <1>1, Zenon DEF OpToRel
<1> QED BY <1>2

(* What the assumptions say of the nodes.                                  *)
LEMMA OrderFacts ==
  /\ N \in Nat \ {0} /\ DOMAIN Order = 1..N
  /\ Nodes = {Order[i] : i \in 1..N}
  /\ Top \in Nodes /\ Input \notin Nodes
<1>1. Order # << >> /\ Order \in Seq({Order[i] : i \in DOMAIN Order})
  BY ConstantsAssumption
<1>2. N \in Nat \ {0} /\ DOMAIN Order = 1..N
  BY <1>1 DEF N
<1> QED BY <1>2, ConstantsAssumption DEF Nodes, N

LEMMA GraphFacts ==
  /\ Vars \subseteq Nodes /\ Reducer \in Fcns /\ Input \notin Vars
  /\ \A f \in Fcns : Servers[f] \subseteq Nodes \cup {Input} /\ f \notin Servers[f]
  /\ \A i \in 1..N : Order[i] \in Fcns =>
       Servers[Order[i]] \subseteq {Input} \cup {Order[j] : j \in 1..(i - 1)}
  /\ Failing \cap Vars = {}
<1>1. \A i \in 1..N : Order[i] \in Fcns =>
        Servers[Order[i]] \subseteq {Input} \cup {Order[j] : j \in 1..(i - 1)}
  BY OrderFacts, ConstantsAssumption DEF Fcns
<1>2. ASSUME NEW f \in Fcns
      PROVE  Servers[f] \subseteq Nodes \cup {Input} /\ f \notin Servers[f]
  <2>1. PICK i \in 1..N : f = Order[i]
    BY OrderFacts DEF Fcns
  <2>2. Servers[f] \subseteq {Input} \cup {Order[j] : j \in 1..(i - 1)}
    BY <1>1, <2>1
  <2>3. \A j \in 1..(i - 1) : j \in 1..N /\ j # i
    BY OrderFacts
  <2>4. \A j \in 1..(i - 1) : Order[j] \in Nodes /\ Order[j] # f
    BY <2>1, <2>3, OrderFacts, ConstantsAssumption
  <2>5. f # Input
    BY OrderFacts DEF Fcns
  <2> QED BY <2>2, <2>4, <2>5
<1>3. Vars \cup {Input, Reducer} \subseteq {Input} \cup Nodes
  <2>1. \A n \in ({Input} \cup Nodes) \ (Vars \cup {Input}) : Servers[n] \subseteq {Input} \cup Nodes
    BY <1>2 DEF Fcns
  <2>2. {Input} \cup Nodes \in SUBSET ({Input} \cup {Order[i] : i \in DOMAIN Order})
    BY DEF Nodes
  <2> QED BY <2>1, <2>2, OrderFacts, ConstantsAssumption
<1>4. Input \notin Vars /\ Failing \cap Vars = {} /\ Reducer \in Nodes \ Vars
  BY ConstantsAssumption DEF Nodes
<1> QED BY <1>1, <1>2, <1>3, <1>4 DEF Fcns


(* The loop of run() goes to the next node that has something to do.       *)
LEMMA NextNodeFacts ==
  ASSUME NEW from \in 1..(N + 1), NEW sn, NEW dy
  PROVE  LET next == NextNode(from, sn, dy)
         IN  /\ next \in from..(N + 1)
             /\ \A j \in from..(next - 1) : Ready(j, sn, dy)
             /\ next \in 1..N => ~Ready(next, sn, dy)
<1> USE DEF Ready
<1> DEFINE todo == {i \in from..N : IF Order[i] \in Vars THEN ~sn[Order[i]] ELSE dy[Order[i]]}
<1>1. N \in Nat \ {0} /\ from \in Nat
  BY OrderFacts
<1>2. NextNode(from, sn, dy) = IF todo = {} THEN N + 1 ELSE CHOOSE i \in todo : \A j \in todo : i <= j
  BY DEF NextNode, N
<1>3. CASE todo = {}
  BY <1>1, <1>2, <1>3
<1>4. CASE todo # {}
  <2>1. todo \in SUBSET Nat
    BY <1>1
  <2>2. \E i \in todo : \A j \in todo : i <= j
    BY <1>4, <2>1, LeastElement
  <2>3. NextNode(from, sn, dy) \in todo /\ \A j \in todo : NextNode(from, sn, dy) <= j
    BY <1>2, <1>4, <2>2
  <2> QED BY <1>1, <2>3
<1> QED BY <1>3, <1>4

(* If the nodes are computed of the present, so is the top node.           *)
LEMMA TopIsCurrent ==
  ASSUME out[Input] = Value({<<Input, data>>}, {}),
         \A v \in Vars : out[v].minus = {} /\ out[v].of = {<<v, val[v]>>},
         \A f \in Fcns \ {Reducer} : out[f] = Combined(Servers[f])
  PROVE  /\ out[Top].minus = out[Reducer].minus
         /\ out[Reducer].of = Combined(Servers[Reducer]).of
                \cup {<<SumW, data>>, <<Squared, IF squared THEN 1 ELSE 0>>}
              => out[Top].of = Worth
<1> DEFINE Weights == {<<SumW, data>>, <<Squared, IF squared THEN 1 ELSE 0>>}
           All == Nodes \cup {Input}
<1>1. /\ \A S : Combined(S).of = UNION {out[s].of : s \in S}
      /\ \A S : Combined(S).minus = UNION {out[s].minus : s \in S}
  BY DEF Combined, Value
<1>2. out[Input].of = {<<Input, data>>} /\ out[Input].minus = {}
  BY DEF Value
<1>3. Reducer \in Fcns /\ Top \in Nodes /\ Vars \subseteq Nodes /\ Fcns = Nodes \ Vars
  BY GraphFacts, OrderFacts DEF Fcns
<1>4. ASSUME NEW S \in SUBSET All, Top \in S,
             \A f \in S \cap Fcns : Servers[f] \subseteq S
      PROVE  Vars \cup {Input, Reducer} \subseteq S
  <2>1. S \in SUBSET ({Input} \cup {Order[i] : i \in DOMAIN Order})
    BY DEF Nodes
  <2>2. \A n \in S \ (Vars \cup {Input}) : Servers[n] \subseteq S
    BY <1>3, <1>4
  <2> QED BY <1>4, <2>1, <2>2, ConstantsAssumption
<1>5. ASSUME NEW S \in SUBSET All, Input \in S, Vars \subseteq S,
             \A f \in Fcns : Servers[f] \subseteq S => f \in S
      PROVE  Top \in S
  <2> DEFINE left == {i \in 1..N : Order[i] \notin S}
  <2>1. CASE left = {}
    BY <2>1, OrderFacts
  <2>2. CASE left # {}
    <3>1. left \in SUBSET Nat
      OBVIOUS
    <3>2. PICK i \in left : \A j \in left : i <= j
      BY <2>2, <3>1, LeastElement
    <3>3. \A j \in 1..(i - 1) : j \in 1..N /\ j \notin left
      BY <3>2, OrderFacts
    <3>4. Order[i] \in Fcns
      BY <1>5, <3>2, OrderFacts DEF Fcns
    <3>5. Servers[Order[i]] \subseteq {Input} \cup {Order[j] : j \in 1..(i - 1)}
      BY <3>2, <3>4, GraphFacts
    <3>6. Servers[Order[i]] \subseteq S
      BY <1>5, <3>3, <3>5
    <3> QED BY <1>5, <3>2, <3>4, <3>6
  <2> QED BY <2>1, <2>2
<1>6. ASSUME NEW f \in Fcns, NEW s \in Servers[f], f # Reducer \/ out[f].of = Combined(Servers[f]).of \cup Weights
      PROVE  /\ out[s].of \subseteq out[f].of
             /\ f # Reducer => out[s].minus \subseteq out[f].minus
  BY <1>1, <1>6
<1>7. ASSUME NEW f \in Fcns \ {Reducer}, NEW U
      PROVE  /\ (\A s \in Servers[f] : out[s].of \subseteq U) => out[f].of \subseteq U
             /\ (\A s \in Servers[f] : out[s].minus \subseteq U) => out[f].minus \subseteq U
  BY <1>1
<1>8. out[Reducer].minus \subseteq out[Top].minus
  <2> SUFFICES ASSUME ~(out[Reducer].minus \subseteq out[Top].minus) PROVE FALSE
    OBVIOUS
  <2> DEFINE S == {n \in All : out[n].minus \subseteq out[Top].minus}
  <2>1. \A f \in S \cap Fcns : Servers[f] \subseteq S
    <3> SUFFICES ASSUME NEW f \in S \cap Fcns, NEW n \in Servers[f] PROVE n \in S
      OBVIOUS
    <3>1. n \in All /\ f # Reducer
      BY GraphFacts
    <3>2. out[n].minus \subseteq out[f].minus
      BY <1>6, <3>1
    <3> QED BY <3>1, <3>2
  <2> QED BY <1>3, <1>4, <2>1
<1>9. out[Top].minus \subseteq out[Reducer].minus
  <2> DEFINE S == {n \in All : out[n].minus \subseteq out[Reducer].minus}
  <2>1. Input \in S /\ Vars \subseteq S
    BY <1>2, <1>3
  <2>2. \A f \in Fcns : Servers[f] \subseteq S => f \in S
    BY <1>3, <1>7
  <2> QED BY <1>5, <2>1, <2>2
<1>10. ASSUME out[Reducer].of = Combined(Servers[Reducer]).of \cup Weights
       PROVE  out[Top].of = Worth
  <2>1. Worth = {<<v, val[v]>> : v \in Vars} \cup {<<Input, data>>} \cup Weights
    BY DEF Worth
  <2> HIDE DEF Weights
  <2>2. Worth \subseteq out[Top].of
    <3> DEFINE S == {n \in All : out[n].of \subseteq out[Top].of}
    <3>1. \A f \in S \cap Fcns : Servers[f] \subseteq S
      <4> SUFFICES ASSUME NEW f \in S \cap Fcns, NEW n \in Servers[f] PROVE n \in S
        OBVIOUS
      <4>1. n \in All
        BY GraphFacts
      <4>2. out[n].of \subseteq out[f].of
        BY <1>6, <1>10
      <4> QED BY <4>1, <4>2
    <3>2. Vars \cup {Input, Reducer} \subseteq S
      BY <1>3, <1>4, <3>1
    <3>3. Weights \subseteq out[Reducer].of
      BY <1>10
    <3> QED BY <1>2, <2>1, <3>2, <3>3
  <2>3. out[Top].of \subseteq Worth
    <3> DEFINE S == {n \in All : out[n].of \subseteq Worth}
    <3>1. Input \in S /\ Vars \subseteq S
      BY <1>2, <1>3, <2>1
    <3>2. ASSUME NEW f \in Fcns, Servers[f] \subseteq S PROVE f \in S
      <4>1. CASE f # Reducer
        BY <1>3, <1>7, <3>2, <4>1
      <4>2. CASE f = Reducer
        <5>1. Weights \subseteq Worth
          BY <2>1
        <5>2. Combined(Servers[f]).of \subseteq Worth
          BY <1>1, <3>2
        <5> QED BY <1>3, <1>10, <4>2, <5>1, <5>2
      <4> QED BY <4>1, <4>2
    <3> QED BY <1>5, <3>1, <3>2
  <2> QED BY <2>2, <2>3
<1> QED BY <1>8, <1>9, <1>10
---------------------------------------------------------------------------
(* Types                                                                   *)

USE DEF graphVars, reducerVars, callVars, fitVars

Buffer == [of : SUBSET Facts, minus : SUBSET Facts]

LEMMA FactsOf ==
  /\ \A v \in Vars, x \in Values : <<v, x>> \in Facts
  /\ \A d \in Datasets : <<Input, d>> \in Facts /\ <<SumW, d>> \in Facts
  /\ <<Squared, 0>> \in Facts /\ <<Squared, 1>> \in Facts /\ <<Torn, 0>> \in Facts
BY DEF Facts

LEMMA ValueType ==
  ASSUME NEW a \in SUBSET Facts, NEW b \in SUBSET Facts
  PROVE  Value(a, b) \in Buffer
BY DEF Value, Buffer

(* A node combines the buffers of its servers.                             *)
LEMMA CombinedType ==
  ASSUME TypeOK, NEW f \in Fcns
  PROVE  Combined(Servers[f]) \in Buffer
<1>1. \A s \in Servers[f] : out[s] \in Buffer
  BY GraphFacts DEF TypeOK, Buffer
<1>2. \A s \in Servers[f] : out[s].of \subseteq Facts /\ out[s].minus \subseteq Facts
  BY <1>1 DEF Buffer
<1>3. UNION {out[s].of : s \in Servers[f]} \subseteq Facts /\ UNION {out[s].minus : s \in Servers[f]} \subseteq Facts
  BY <1>2
<1> QED BY <1>3, ValueType DEF Combined

(* Where run() is.                                                         *)
LEMMA NodeFacts ==
  ASSUME TypeOK, Computing
  PROVE  pc \in 1..N /\ Node = Order[pc] /\ Node \in Nodes
BY OrderFacts DEF TypeOK, Computing, Idle, Node, N

(* The flags and the next node after a start.                              *)
LEMMA StartType ==
  ASSUME TypeOK, NEW hidden \in BOOLEAN, Start(hidden)
  PROVE  /\ subtract' = ~hidden /\ resize' = FALSE
         /\ dirty' = FlagsAtStart(~hidden) /\ dirty' \in [Fcns -> BOOLEAN]
         /\ pc' = NextNode(1, seen', dirty') /\ pc' \in 1..(N + 1)
<1>1. dirty' \in [Fcns -> BOOLEAN]
  BY DEF Start, FlagsAtStart, TypeOK
<1>2. 1 \in 1..(N + 1)
  BY OrderFacts
<1> QED BY <1>1, <1>2, NextNodeFacts DEF Start

(* A node that is computed.                                                *)
LEMMA ComputedType ==
  ASSUME TypeOK, Computing, Node \in Fcns, NEW v \in Buffer, Computed(v)
  PROVE  /\ dirty' \in [Fcns -> BOOLEAN]
         /\ out' \in [Nodes \cup {Input} -> Buffer]
         /\ pc' = NextNode(pc + 1, seen, dirty') /\ pc' \in 1..(N + 1)
<1>1. dirty' \in [Fcns -> BOOLEAN]
  BY DEF Computed, ClientsDirty, TypeOK
<1>2. pc + 1 \in 1..(N + 1) /\ \A i \in (pc + 1)..(N + 1) : i \in 1..(N + 1)
  BY NodeFacts, OrderFacts
<1>3. out' \in [Nodes \cup {Input} -> Buffer]
  BY DEF Computed, TypeOK, Buffer
<1> QED BY <1>1, <1>2, <1>3, NextNodeFacts DEF Computed

LEMMA NextTypeOK ==
  ASSUME TypeOK, [Next]_vars
  PROVE  TypeOK'
<1> DEFINE All == Nodes \cup {Input}
<1>0. /\ val \in [Vars -> Values] /\ seen \in [Vars -> BOOLEAN] /\ data \in Datasets /\ resize \in BOOLEAN
      /\ dirty \in [Fcns -> BOOLEAN] /\ out \in [All -> Buffer]
      /\ offset \subseteq Facts /\ fitOffset \subseteq Facts /\ silent \in BOOLEAN /\ aborted \in BOOLEAN
      /\ subtract \in BOOLEAN /\ hide \in BOOLEAN /\ squared \in BOOLEAN /\ doOffset \in BOOLEAN
      /\ sumw \in Datasets \cup {0} /\ pc \in 0..(N + 1) /\ fitting \in BOOLEAN /\ inFit \in BOOLEAN
  BY DEF TypeOK, Buffer, N
<1>1. SUFFICES
      /\ val' \in [Vars -> Values] /\ seen' \in [Vars -> BOOLEAN] /\ data' \in Datasets /\ resize' \in BOOLEAN
      /\ dirty' \in [Fcns -> BOOLEAN] /\ out' \in [All -> Buffer]
      /\ offset' \subseteq Facts /\ fitOffset' \subseteq Facts /\ silent' \in BOOLEAN /\ aborted' \in BOOLEAN
      /\ subtract' \in BOOLEAN /\ hide' \in BOOLEAN /\ squared' \in BOOLEAN /\ doOffset' \in BOOLEAN
      /\ sumw' \in Datasets \cup {0} /\ pc' \in 0..(N + 1) /\ fitting' \in BOOLEAN /\ inFit' \in BOOLEAN
  BY DEF TypeOK, Buffer, N
<1> HIDE DEF All
<1>2. 0 \in 0..(N + 1) /\ \A i \in 1..(N + 1) : i \in 0..(N + 1)
  BY OrderFacts
<1>3. ASSUME NEW v \in Vars, NEW x \in Values, SetVal(v, x) PROVE <1>1!1
  BY <1>0, <1>3 DEF SetVal, Set
<1>4. ASSUME NEW d \in Datasets, SetData(d) PROVE <1>1!1
  <2>1. Value({<<Input, d>>}, {}) \in Buffer
    BY ValueType, FactsOf
  <2> QED BY <1>0, <1>4, <2>1 DEF SetData
<1>5. ASSUME NEW flag \in BOOLEAN, ApplyWeightSquared(flag) PROVE <1>1!1
  BY <1>0, <1>5 DEF ApplyWeightSquared
<1>6. ASSUME NEW flag \in BOOLEAN, EnableOffsetting(flag) PROVE <1>1!1
  BY <1>0, <1>6 DEF EnableOffsetting
<1>7. CASE GetVal
  <2>1. /\ Start(hide) /\ seen' = seen /\ fitting' = FALSE
        /\ UNCHANGED <<val, data, out, hide, reducerVars, fitVars>>
    BY <1>7 DEF GetVal
  <2> QED BY <1>0, <1>2, <2>1, StartType
<1>8. ASSUME NEW new \in [Vars -> Values], Evaluate(new) PROVE <1>1!1
  <2>1. /\ Start(FALSE) /\ Set(new) /\ hide' = FALSE /\ fitting' = TRUE
        /\ UNCHANGED <<data, out, reducerVars, fitVars>>
    BY <1>8 DEF Evaluate
  <2>2. val' = new /\ seen' \in [Vars -> BOOLEAN]
    BY <1>0, <2>1 DEF Set
  <2> QED BY <1>0, <1>2, <2>1, <2>2, StartType
<1>9. CASE ProcessVariable
  <2>1. /\ Computing /\ Node \in Vars /\ seen' = [seen EXCEPT ![Node] = TRUE] /\ dirty' = ClientsDirty(Node)
        /\ out' = [out EXCEPT ![Node] = Value({<<Node, val[Node]>>}, {})]
        /\ pc' = NextNode(pc + 1, seen', dirty')
        /\ UNCHANGED <<val, data, resize, subtract, hide, fitting, reducerVars, fitVars>>
    BY <1>9 DEF ProcessVariable
  <2>2. Value({<<Node, val[Node]>>}, {}) \in Buffer
    BY <1>0, <2>1, FactsOf, ValueType
  <2>3. dirty' \in [Fcns -> BOOLEAN] /\ seen' \in [Vars -> BOOLEAN] /\ out' \in [All -> Buffer]
    BY <1>0, <2>1, <2>2 DEF ClientsDirty
  <2>4. pc + 1 \in 1..(N + 1) /\ \A i \in (pc + 1)..(N + 1) : i \in 0..(N + 1)
    BY <2>1, NodeFacts, OrderFacts
  <2>5. pc' \in 0..(N + 1)
    BY <2>1, <2>4, NextNodeFacts
  <2> QED BY <1>0, <2>1, <2>3, <2>5
<1>10. CASE Compute
  <2>1. /\ Computing /\ Node \in Fcns /\ Computed(Combined(Servers[Node]))
        /\ UNCHANGED <<val, seen, data, resize, subtract, hide, fitting, reducerVars, fitVars>>
    BY <1>10 DEF Compute
  <2>2. Combined(Servers[Node]) \in Buffer
    BY <2>1, CombinedType
  <2> QED BY <1>0, <1>2, <2>1, <2>2, ComputedType DEF All
<1>11. CASE Reduce
  <2> DEFINE weights == IF sumw = 0 THEN data ELSE sumw
             result == Combined(Servers[Reducer]).of
                         \cup {<<SumW, weights>>, <<Squared, IF squared THEN 1 ELSE 0>>}
             v == Value(result, IF subtract THEN offset' ELSE {})
  <2>1. /\ Computing /\ Node = Reducer /\ sumw' = weights /\ offset' = OffsetAfter(result)
        /\ Computed(v) /\ silent' = FALSE
        /\ UNCHANGED <<val, seen, data, resize, subtract, hide, fitting, squared, doOffset, fitVars>>
    BY <1>11 DEF Reduce
  <2>2. weights \in Datasets /\ Reducer \in Fcns
    BY <1>0, GraphFacts
  <2>3. result \subseteq Facts
    <3>1. Combined(Servers[Reducer]).of \subseteq Facts
      BY <2>2, CombinedType DEF Buffer
    <3>2. <<SumW, weights>> \in Facts /\ <<Squared, IF squared THEN 1 ELSE 0>> \in Facts
      BY <2>2, FactsOf
    <3> HIDE DEF weights
    <3> QED BY <3>1, <3>2
  <2> HIDE DEF weights, result
  <2>4. offset' \subseteq Facts
    BY <1>0, <2>1, <2>3 DEF OffsetAfter
  <2>5. v \in Buffer
    BY <2>3, <2>4, ValueType
  <2> HIDE DEF v
  <2>6. Node \in Fcns
    BY <2>1, <2>2
  <2> QED BY <1>0, <1>2, <2>1, <2>2, <2>4, <2>5, <2>6, ComputedType DEF All
<1>12. CASE Throw
  <2>1. Value({<<Torn, 0>>}, {}) \in Buffer
    BY ValueType, FactsOf
  <2>2. dirty' \in [Fcns -> BOOLEAN]
    BY <1>0, <1>12 DEF Throw, ClientsDirty
  <2> QED BY <1>0, <1>2, <1>12, <2>1, <2>2 DEF Throw
<1>13. CASE Return
  <2>1. out[Top].minus \subseteq Facts
    BY <1>0, OrderFacts DEF All, Buffer
  <2> QED BY <1>0, <1>2, <1>13, <2>1 DEF Return
<1>14. CASE BeginFit \/ EndFit
  BY <1>0, <1>14 DEF BeginFit, EndFit
<1>15. CASE UNCHANGED vars
  BY <1>0, <1>15 DEF vars
<1> QED BY <1>3, <1>4, <1>5, <1>6, <1>7, <1>8, <1>9, <1>10, <1>11, <1>12, <1>13, <1>14, <1>15 DEF Next

(* Every variable keeps its type: in particular run() ends where the loop  *)
(* does, whatever it finds to do.                                          *)
THEOREM TypeCorrect == Spec => []TypeOK
<1>1. ASSUME Init PROVE TypeOK
  <2>1. Value({<<Input, data>>}, {}) \in Buffer /\ Value({}, {}) \in Buffer
    BY <1>1, ValueType, FactsOf DEF Init
  <2>2. out \in [Nodes \cup {Input} -> Buffer]
    BY <1>1, <2>1 DEF Init
  <2>3. pc \in 0..(Len(Order) + 1)
    BY <1>1, OrderFacts DEF Init, N
  <2> QED BY <1>1, <2>2, <2>3 DEF Init, TypeOK, Buffer
<1> QED BY <1>1, NextTypeOK, PTL DEF Spec
---------------------------------------------------------------------------
(* The graph                                                               *)

(* A node that is computed only dirties nodes after it, so that those the  *)
(* loop has passed stay as they are.                                       *)
LEMMA PassedOn ==
  ASSUME TypeOK, Computing, Passed,
         Ready(pc, seen', dirty'), resize' = resize, pc' = NextNode(pc + 1, seen', dirty'),
         \A v \in Vars : seen[v] => seen'[v],
         \A f \in Fcns : dirty'[f] => dirty[f] \/ f \in Clients(Node)
  PROVE  Passed'
<1>1. /\ pc \in 1..N /\ Node = Order[pc] /\ N \in Nat /\ pc # 0 /\ ~resize
      /\ \A j \in 1..(pc - 1) : Ready(j, seen, dirty)
  BY NodeFacts, OrderFacts DEF Passed
<1>2. pc + 1 \in 1..(N + 1)
  BY <1>1
<1>3. /\ pc' \in (pc + 1)..(N + 1)
      /\ \A j \in (pc + 1)..(pc' - 1) : Ready(j, seen', dirty')
      /\ pc' \in 1..N => ~Ready(pc', seen', dirty')
  BY <1>2, NextNodeFacts
<1>4. ASSUME NEW j \in 1..(pc - 1) PROVE Ready(j, seen', dirty')
  <2>1. j \in 1..N /\ Ready(j, seen, dirty) /\ ~(pc \in 1..(j - 1)) /\ pc \in DOMAIN Order /\ Order[j] \in Nodes
    BY <1>1, OrderFacts
  <2>2. CASE Order[j] \in Vars
    BY <2>1, <2>2 DEF Ready
  <2>3. CASE Order[j] \notin Vars
    <3>1. Order[j] \in Fcns /\ ~dirty[Order[j]]
      BY <2>1, <2>3 DEF Ready, Fcns
    <3>2. Servers[Order[j]] \subseteq {Input} \cup {Order[l] : l \in 1..(j - 1)}
      BY <2>1, <3>1, GraphFacts
    <3>3. \A l \in 1..(j - 1) : l \in DOMAIN Order /\ l # pc
      BY <1>1, <2>1, OrderFacts
    <3>4. Order[pc] \notin Servers[Order[j]]
      BY <2>1, <3>2, <3>3, ConstantsAssumption
    <3> QED BY <1>1, <2>3, <3>1, <3>4 DEF Ready, Clients
  <2> QED BY <2>2, <2>3
<1>5. \A j \in 1..(pc' - 1) : j \in 1..(pc - 1) \/ j = pc \/ j \in (pc + 1)..(pc' - 1)
  BY <1>1, <1>3
<1> QED BY <1>1, <1>3, <1>4, <1>5 DEF Passed

(* The buffer of a node that is computed, and who is dirty after that.     *)
LEMMA ComputedFacts ==
  ASSUME TypeOK, Computing, Node \in Fcns, NEW v, Computed(v)
  PROVE  /\ out'[Node] = v /\ \A n \in (Nodes \cup {Input}) \ {Node} : out'[n] = out[n]
         /\ \A f \in Fcns : dirty'[f] <=> f # Node /\ (dirty[f] \/ Node \in Servers[f])
         /\ Node \in Nodes /\ Node # Input
<1>1. Node \in Nodes /\ Node # Input
  BY NodeFacts, OrderFacts
<1>2. out \in [Nodes \cup {Input} -> Buffer] /\ dirty \in [Fcns -> BOOLEAN]
  BY DEF TypeOK, Buffer
<1> QED BY <1>1, <1>2 DEF Computed, ClientsDirty, Clients

(* A node whose servers' buffers stay as they are combines what it did.    *)
LEMMA CombinedKept ==
  ASSUME NEW S, \A s \in S : out'[s] = out[s]
  PROVE  Combined(S)' = Combined(S)
BY DEF Combined

(* What an evaluation starts with.                                         *)
LEMMA StartGraph ==
  ASSUME TypeOK, GraphInv, NEW hidden \in BOOLEAN, Start(hidden),
         \A v \in Vars : seen'[v] => seen[v] /\ val'[v] = val[v],
         UNCHANGED <<data, out, reducerVars>>
  PROVE  GraphInv'
<1>1. /\ subtract' = ~hidden /\ resize' = FALSE
      /\ dirty' = FlagsAtStart(~hidden) /\ dirty' \in [Fcns -> BOOLEAN]
      /\ pc' = NextNode(1, seen', dirty')
  BY StartType
<1>2. \A f \in Fcns : ~dirty'[f] => ~dirty[f] /\ ~resize /\ (f = Reducer => subtract' = subtract)
  BY <1>1 DEF FlagsAtStart, TypeOK
<1>3. 1 \in 1..(N + 1) /\ N \in Nat
  BY OrderFacts
<1>4. /\ pc' \in 1..(N + 1)
      /\ \A j \in 1..(pc' - 1) : Ready(j, seen', dirty')
      /\ pc' \in 1..N => ~Ready(pc', seen', dirty')
  BY <1>1, <1>3, NextNodeFacts
<1>5. Passed'
  BY <1>1, <1>4 DEF Passed
<1>6. SourcesCurrent'
  BY DEF GraphInv, SourcesCurrent
<1>7. NodesCurrent' /\ ReducerCurrent'
  BY <1>2, GraphFacts, CombinedKept DEF GraphInv, NodesCurrent, ReducerCurrent, Fcns
<1> QED BY <1>5, <1>6, <1>7 DEF GraphInv
(* A computed node that is not the reducer.                                *)
LEMMA ComputeGraph ==
  ASSUME TypeOK, GraphInv, Compute
  PROVE  GraphInv'
<1>1. /\ Computing /\ Node \in Fcns /\ Node # Reducer /\ Computed(Combined(Servers[Node]))
      /\ UNCHANGED <<val, seen, data, resize, subtract, reducerVars>>
  BY DEF Compute
<1>2. /\ out'[Node] = Combined(Servers[Node])
      /\ \A n \in (Nodes \cup {Input}) \ {Node} : out'[n] = out[n]
      /\ \A f \in Fcns : dirty'[f] <=> f # Node /\ (dirty[f] \/ Node \in Servers[f])
      /\ Node \in Nodes /\ Node # Input
  BY <1>1, ComputedFacts
<1>3. \A f \in Fcns : f = Node \/ Node \notin Servers[f] => Combined(Servers[f])' = Combined(Servers[f])
  <2> SUFFICES ASSUME NEW f \in Fcns, f = Node \/ Node \notin Servers[f]
               PROVE  Combined(Servers[f])' = Combined(Servers[f])
    OBVIOUS
  <2>1. \A n \in Servers[f] : out'[n] = out[n]
    BY <1>2, GraphFacts
  <2> QED BY <2>1, CombinedKept
<1>4. Passed'
  <2>1. pc' = NextNode(pc + 1, seen', dirty')
    BY <1>1 DEF Computed
  <2>2. Ready(pc, seen', dirty')
    BY <1>1, <1>2, NodeFacts DEF Ready, Fcns
  <2> QED BY <1>1, <1>2, <2>1, <2>2, PassedOn DEF GraphInv, Clients
<1>5. SourcesCurrent'
  <2>1. \A v \in Vars : v \in (Nodes \cup {Input}) \ {Node}
    BY <1>1, GraphFacts DEF Fcns
  <2>2. out'[Input] = out[Input] /\ \A v \in Vars : out'[v] = out[v]
    BY <1>2, <2>1
  <2> QED BY <1>1, <2>2 DEF GraphInv, SourcesCurrent
<1>6. NodesCurrent'
  <2>1. \A f \in Fcns \ {Node} : f \in (Nodes \cup {Input}) \ {Node}
    BY DEF Fcns
  <2> QED BY <1>1, <1>2, <1>3, <2>1 DEF GraphInv, NodesCurrent
<1>7. ReducerCurrent'
  <2>1. Reducer \in Fcns /\ Reducer \in (Nodes \cup {Input}) \ {Node}
    BY <1>1, GraphFacts DEF Fcns
  <2> QED BY <1>1, <1>2, <1>3, <2>1 DEF GraphInv, ReducerCurrent
<1> QED BY <1>4, <1>5, <1>6, <1>7 DEF GraphInv

(* The reducer.                                                            *)
LEMMA ReduceGraph ==
  ASSUME TypeOK, GraphInv, Reduce
  PROVE  GraphInv'
<1> DEFINE weights == IF sumw = 0 THEN data ELSE sumw
           result == Combined(Servers[Reducer]).of
                       \cup {<<SumW, weights>>, <<Squared, IF squared THEN 1 ELSE 0>>}
           v == Value(result, IF subtract THEN offset' ELSE {})
<1>1. /\ Computing /\ Node = Reducer /\ Computed(v) /\ sumw' = weights
      /\ UNCHANGED <<val, seen, data, resize, subtract, squared, doOffset>>
  BY DEF Reduce
<1>2. Node \in Fcns /\ weights = data
  BY <1>1, GraphFacts DEF GraphInv, SourcesCurrent
<1>3. v.of = Combined(Servers[Reducer]).of \cup {<<SumW, data>>, <<Squared, IF squared THEN 1 ELSE 0>>}
      /\ v.minus = IF subtract THEN offset' ELSE {}
  BY <1>2 DEF Value
<1> HIDE DEF v, weights
<1>4. /\ out'[Node] = v
      /\ \A n \in (Nodes \cup {Input}) \ {Node} : out'[n] = out[n]
      /\ \A f \in Fcns : dirty'[f] <=> f # Node /\ (dirty[f] \/ Node \in Servers[f])
      /\ Node \in Nodes /\ Node # Input
  BY <1>1, <1>2, ComputedFacts
<1>5. \A f \in Fcns : f = Node \/ Node \notin Servers[f] => Combined(Servers[f])' = Combined(Servers[f])
  <2> SUFFICES ASSUME NEW f \in Fcns, f = Node \/ Node \notin Servers[f]
               PROVE  Combined(Servers[f])' = Combined(Servers[f])
    OBVIOUS
  <2>1. \A n \in Servers[f] : out'[n] = out[n]
    BY <1>4, GraphFacts
  <2> QED BY <2>1, CombinedKept
<1>6. Passed'
  <2>1. pc' = NextNode(pc + 1, seen', dirty')
    BY <1>1 DEF Computed
  <2>2. Ready(pc, seen', dirty')
    BY <1>2, <1>4, NodeFacts, <1>1 DEF Ready, Fcns
  <2> QED BY <1>1, <1>4, <2>1, <2>2, PassedOn DEF GraphInv, Clients
<1>7. SourcesCurrent'
  BY <1>1, <1>2, <1>4, GraphFacts DEF GraphInv, SourcesCurrent, Fcns
<1>8. NodesCurrent'
  <2>1. \A f \in Fcns \ {Reducer} : f \in (Nodes \cup {Input}) \ {Node}
    BY <1>1 DEF Fcns
  <2> QED BY <1>1, <1>4, <1>5, <2>1 DEF GraphInv, NodesCurrent
<1>9. ReducerCurrent'
  BY <1>1, <1>2, <1>3, <1>4, <1>5 DEF ReducerCurrent
<1> QED BY <1>6, <1>7, <1>8, <1>9 DEF GraphInv

LEMMA VariableGraph ==
  ASSUME TypeOK, GraphInv, ProcessVariable
  PROVE  GraphInv'
<1>1. /\ Computing /\ Node \in Vars /\ seen' = [seen EXCEPT ![Node] = TRUE] /\ dirty' = ClientsDirty(Node)
      /\ out' = [out EXCEPT ![Node] = Value({<<Node, val[Node]>>}, {})]
      /\ pc' = NextNode(pc + 1, seen', dirty')
      /\ UNCHANGED <<val, data, resize, subtract, reducerVars>>
  BY DEF ProcessVariable
<1>2. /\ Node \in Nodes /\ Node # Input
      /\ out \in [Nodes \cup {Input} -> Buffer] /\ seen \in [Vars -> BOOLEAN]
  BY <1>1, GraphFacts DEF TypeOK, Buffer
<1>3. /\ out'[Node].of = {<<Node, val[Node]>>} /\ out'[Node].minus = {}
      /\ \A n \in (Nodes \cup {Input}) \ {Node} : out'[n] = out[n]
      /\ \A f \in Fcns : dirty'[f] <=> dirty[f] \/ Node \in Servers[f]
      /\ seen'[Node] /\ \A v \in Vars \ {Node} : seen'[v] = seen[v]
  BY <1>1, <1>2 DEF Value, ClientsDirty, Clients
<1>4. \A f \in Fcns : Node \notin Servers[f] => Combined(Servers[f])' = Combined(Servers[f])
  <2> SUFFICES ASSUME NEW f \in Fcns, Node \notin Servers[f]
               PROVE  Combined(Servers[f])' = Combined(Servers[f])
    OBVIOUS
  <2>1. \A n \in Servers[f] : out'[n] = out[n]
    BY <1>3, GraphFacts
  <2> QED BY <2>1, CombinedKept
<1>5. Passed'
  <2>1. Ready(pc, seen', dirty')
    BY <1>1, <1>3, NodeFacts DEF Ready
  <2>2. \A v \in Vars : seen[v] => seen'[v]
    BY <1>2, <1>3
  <2> QED BY <1>1, <1>3, <2>1, <2>2, PassedOn DEF GraphInv, Clients
<1>6. SourcesCurrent'
  BY <1>1, <1>2, <1>3, GraphFacts DEF GraphInv, SourcesCurrent
<1>7. \A f \in Fcns : f \in (Nodes \cup {Input}) \ {Node}
  BY <1>1 DEF Fcns
<1>8. NodesCurrent'
  BY <1>1, <1>3, <1>4, <1>7 DEF GraphInv, NodesCurrent
<1>9. ReducerCurrent'
  BY <1>1, <1>3, <1>4, <1>7, GraphFacts DEF GraphInv, ReducerCurrent
<1> QED BY <1>5, <1>6, <1>8, <1>9 DEF GraphInv

(* A node that throws keeps its flag and dirties its clients.              *)
LEMMA ThrowGraph ==
  ASSUME TypeOK, GraphInv, Throw
  PROVE  GraphInv'
<1>1. /\ Computing /\ Node \in Failing /\ dirty[Node] /\ dirty' = ClientsDirty(Node)
      /\ out' = [out EXCEPT ![Node] = Value({<<Torn, 0>>}, {})] /\ pc' = 0
      /\ UNCHANGED <<val, seen, data, resize, subtract, reducerVars>>
  BY DEF Throw
<1>2. /\ Node \in Fcns /\ Node \in Nodes /\ Node # Input /\ Node \notin Vars
      /\ out \in [Nodes \cup {Input} -> Buffer]
  BY <1>1, GraphFacts, OrderFacts, NodeFacts DEF TypeOK, Buffer, Fcns
<1>3. /\ \A n \in (Nodes \cup {Input}) \ {Node} : out'[n] = out[n]
      /\ \A f \in Fcns : dirty'[f] <=> dirty[f] \/ Node \in Servers[f]
  BY <1>1, <1>2 DEF ClientsDirty, Clients
<1>4. \A f \in Fcns : Node \notin Servers[f] => Combined(Servers[f])' = Combined(Servers[f])
  <2> SUFFICES ASSUME NEW f \in Fcns, Node \notin Servers[f]
               PROVE  Combined(Servers[f])' = Combined(Servers[f])
    OBVIOUS
  <2>1. \A n \in Servers[f] : out'[n] = out[n]
    BY <1>3, GraphFacts
  <2> QED BY <2>1, CombinedKept
<1>5. Passed'
  BY <1>1 DEF Passed
<1>6. SourcesCurrent'
  BY <1>1, <1>2, <1>3, GraphFacts DEF GraphInv, SourcesCurrent
<1>7. \A f \in Fcns : ~dirty'[f] => f \in (Nodes \cup {Input}) \ {Node}
  BY <1>1, <1>2, <1>3 DEF Fcns
<1>8. NodesCurrent'
  BY <1>1, <1>3, <1>4, <1>7 DEF GraphInv, NodesCurrent
<1>9. ReducerCurrent'
  BY <1>1, <1>3, <1>4, <1>7, GraphFacts DEF GraphInv, ReducerCurrent
<1> QED BY <1>5, <1>6, <1>8, <1>9 DEF GraphInv

LEMMA NextGraphInv ==
  ASSUME TypeOK, GraphInv, [Next]_vars
  PROVE  GraphInv'
<1>1. ASSUME UNCHANGED <<graphVars, subtract, reducerVars>>, pc' = 0 \/ pc' = pc PROVE GraphInv'
  <2>1. Passed'
    BY <1>1 DEF GraphInv, Passed, Ready
  <2> QED BY <1>1, <2>1 DEF GraphInv, SourcesCurrent, NodesCurrent, ReducerCurrent, Combined
<1>2. ASSUME NEW w \in Vars, NEW x \in Values, SetVal(w, x) PROVE GraphInv'
  <2>1. /\ pc = 0 /\ val' = [val EXCEPT ![w] = x]
        /\ seen' = [v \in Vars |-> seen[v] /\ val'[v] = val[v]]
        /\ UNCHANGED <<data, resize, dirty, out, reducerVars, callVars>>
    BY <1>2 DEF SetVal, Set, Idle
  <2>2. \A v \in Vars : seen'[v] => seen[v] /\ val'[v] = val[v]
    BY <2>1
  <2> QED BY <2>1, <2>2 DEF GraphInv, Passed, SourcesCurrent, NodesCurrent, ReducerCurrent, Combined
<1>3. ASSUME NEW d \in Datasets, SetData(d) PROVE GraphInv'
  <2>1. /\ pc' = 0 /\ resize' = TRUE /\ sumw' = 0 /\ data' = d
        /\ out' = [out EXCEPT ![Input] = Value({<<Input, d>>}, {})]
        /\ UNCHANGED <<val, seen, dirty>>
    BY <1>3 DEF SetData, Idle
  <2>2. out'[Input] = Value({<<Input, d>>}, {}) /\ \A v \in Vars : out'[v] = out[v]
    BY <2>1, GraphFacts DEF TypeOK
  <2>3. Passed' /\ NodesCurrent' /\ ReducerCurrent'
    BY <2>1 DEF Passed, NodesCurrent, ReducerCurrent
  <2> QED BY <2>1, <2>2, <2>3 DEF GraphInv, SourcesCurrent
<1>4. ASSUME NEW flag \in BOOLEAN, ApplyWeightSquared(flag) \/ EnableOffsetting(flag) PROVE GraphInv'
  <2>1. pc = 0 /\ silent' /\ UNCHANGED <<graphVars, sumw, callVars>>
    BY <1>4 DEF ApplyWeightSquared, EnableOffsetting, Idle
  <2> QED BY <2>1 DEF GraphInv, Passed, SourcesCurrent, NodesCurrent, ReducerCurrent, Combined
<1>5. CASE GetVal
  <2>1. /\ Start(hide) /\ hide \in BOOLEAN /\ \A v \in Vars : seen'[v] => seen[v] /\ val'[v] = val[v]
        /\ UNCHANGED <<data, out, reducerVars>>
    BY <1>5 DEF GetVal, TypeOK
  <2> QED BY <2>1, StartGraph
<1>6. ASSUME NEW new \in [Vars -> Values], Evaluate(new) PROVE GraphInv'
  <2>1. /\ Start(FALSE) /\ \A v \in Vars : seen'[v] => seen[v] /\ val'[v] = val[v]
        /\ UNCHANGED <<data, out, reducerVars>>
    BY <1>6 DEF Evaluate, Set
  <2> QED BY <2>1, StartGraph
<1>7. CASE Return
  BY <1>1, <1>7 DEF Return
<1>8. CASE BeginFit \/ EndFit
  BY <1>1, <1>8 DEF BeginFit, EndFit
<1>9. CASE UNCHANGED vars
  BY <1>1, <1>9 DEF vars
<1> QED BY <1>2, <1>3, <1>4, <1>5, <1>6, <1>7, <1>8, <1>9, VariableGraph, ComputeGraph, ReduceGraph, ThrowGraph DEF Next

LEMMA InitGraphInv == Init => GraphInv
<1> SUFFICES ASSUME Init PROVE GraphInv
  OBVIOUS
<1>1. out[Input] = Value({<<Input, data>>}, {}) /\ \A n \in Nodes : out[n] = Value({}, {})
  BY OrderFacts DEF Init
<1>2. Passed
  BY DEF Init, Passed
<1>3. \A v \in Vars : out[v].minus = {} /\ ~seen[v]
  BY <1>1, GraphFacts DEF Init, Value
<1> QED BY <1>1, <1>2, <1>3, GraphFacts DEF Init, GraphInv, SourcesCurrent, NodesCurrent, ReducerCurrent
(* What run() returns.                                                     *)
LEMMA Returned ==
  ASSUME TypeOK, GraphInv, Returning
  PROVE  /\ ~subtract => out[Top].minus = {}
         /\ ~silent /\ subtract => out[Top].minus = offset
         /\ ~silent => out[Top].of = Worth
<1>1. pc = N + 1 /\ N \in Nat
  BY OrderFacts DEF Returning, N
<1>2. ~resize /\ \A j \in 1..N : Ready(j, seen, dirty)
  BY <1>1 DEF GraphInv, Passed
<1>3. ASSUME NEW n \in Nodes PROVE IF n \in Vars THEN seen[n] ELSE ~dirty[n]
  <2>1. PICK j \in 1..N : n = Order[j]
    BY OrderFacts
  <2> QED BY <1>2, <2>1 DEF Ready
<1>4. Reducer \in Fcns /\ Vars \subseteq Nodes /\ Fcns = Nodes \ Vars
  BY GraphFacts DEF Fcns
<1>5. /\ out[Input] = Value({<<Input, data>>}, {})
      /\ \A v \in Vars : out[v].minus = {} /\ out[v].of = {<<v, val[v]>>}
      /\ \A f \in Fcns \ {Reducer} : out[f] = Combined(Servers[f])
  BY <1>2, <1>3, <1>4 DEF GraphInv, SourcesCurrent, NodesCurrent
<1>6. /\ out[Top].minus = out[Reducer].minus
      /\ out[Reducer].of = Combined(Servers[Reducer]).of
             \cup {<<SumW, data>>, <<Squared, IF squared THEN 1 ELSE 0>>}
           => out[Top].of = Worth
  BY <1>5, TopIsCurrent
<1> QED BY <1>2, <1>3, <1>4, <1>6 DEF GraphInv, ReducerCurrent

---------------------------------------------------------------------------
(* The offset                                                              *)

LEMMA NextFitInv ==
  ASSUME TypeOK, GraphInv, FitInv, [Next]_vars
  PROVE  FitInv'
<1>1. ASSUME UNCHANGED <<fitting, inFit, subtract, pc, fitOffset, offset>> PROVE FitInv'
  BY <1>1 DEF FitInv
<1>2. ASSUME ~fitting', ~inFit', fitOffset' = {} PROVE FitInv'
  BY <1>2 DEF FitInv
<1>3. ASSUME NEW v \in Vars, NEW x \in Values, SetVal(v, x) PROVE FitInv'
  BY <1>1, <1>3 DEF SetVal
<1>4. ASSUME NEW d \in Datasets, SetData(d) PROVE FitInv'
  BY <1>1, <1>4 DEF SetData
<1>5. ASSUME NEW flag \in BOOLEAN, ApplyWeightSquared(flag) \/ EnableOffsetting(flag) PROVE FitInv'
  BY <1>5 DEF ApplyWeightSquared, EnableOffsetting, FitInv
<1>6. CASE GetVal
  BY <1>6 DEF GetVal, FitInv
<1>7. ASSUME NEW new \in [Vars -> Values], Evaluate(new) PROVE FitInv'
  <2>1. Start(FALSE) /\ inFit /\ fitting' /\ UNCHANGED <<inFit, fitOffset, offset>>
    BY <1>7 DEF Evaluate
  <2>2. subtract' /\ pc' \in 1..(N + 1)
    BY <2>1, StartType
  <2> QED BY <2>1, <2>2, OrderFacts DEF FitInv
<1>8. ASSUME Computing, pc' = NextNode(pc + 1, seen', dirty') PROVE pc' # 0
  <2>1. pc \in 1..N /\ pc + 1 \in 1..(N + 1)
    BY <1>8, NodeFacts, OrderFacts
  <2>2. pc' \in (pc + 1)..(N + 1)
    BY <1>8, <2>1, NextNodeFacts
  <2> QED BY <2>1, <2>2
<1>9. CASE ProcessVariable
  BY <1>8, <1>9 DEF ProcessVariable, FitInv
<1>10. CASE Compute
  BY <1>8, <1>10 DEF Compute, Computed, FitInv
<1>11. CASE Reduce
  <2>1. PICK result : offset' = OffsetAfter(result)
    BY <1>11 DEF Reduce
  <2>2. Computing /\ pc' = NextNode(pc + 1, seen', dirty') /\ UNCHANGED <<fitting, inFit, subtract, fitOffset>>
    BY <1>11 DEF Reduce, Computed
  <2> QED BY <1>8, <2>1, <2>2 DEF OffsetAfter, FitInv
<1>12. CASE Throw
  BY <1>2, <1>12 DEF Throw
<1>13. CASE Return
  <2>1. Returning /\ ~fitting' /\ UNCHANGED <<inFit, offset>>
        /\ fitOffset' = IF fitting /\ ~silent THEN out[Top].minus ELSE fitOffset
    BY <1>13 DEF Return
  <2>2. CASE fitting /\ ~silent
    <3>1. subtract /\ inFit
      BY <2>2 DEF FitInv
    <3>2. out[Top].minus = offset
      BY <2>1, <2>2, <3>1, Returned
    <3> QED BY <2>1, <2>2, <3>1, <3>2 DEF FitInv
  <2>3. CASE ~(fitting /\ ~silent)
    BY <2>1, <2>3 DEF FitInv
  <2> QED BY <2>2, <2>3
<1>14. CASE BeginFit \/ EndFit
  BY <1>14 DEF BeginFit, EndFit, FitInv, Idle
<1>15. CASE UNCHANGED vars
  BY <1>1, <1>15 DEF vars
<1> QED BY <1>3, <1>4, <1>5, <1>6, <1>7, <1>9, <1>10, <1>11, <1>12, <1>13, <1>14, <1>15 DEF Next

LEMMA NextHideInv ==
  ASSUME TypeOK, FitInv, HideInv, [Next]_vars
  PROVE  HideInv'
<1>1. ASSUME UNCHANGED <<fitting, subtract, hide, aborted>>, pc' # 0 => pc # 0 PROVE HideInv'
  BY <1>1 DEF HideInv
<1>2. ASSUME NEW v \in Vars, NEW x \in Values, SetVal(v, x) PROVE HideInv'
  BY <1>1, <1>2 DEF SetVal
<1>3. ASSUME NEW d \in Datasets, SetData(d) PROVE HideInv'
  BY <1>1, <1>3 DEF SetData
<1>4. ASSUME NEW flag \in BOOLEAN, ApplyWeightSquared(flag) \/ EnableOffsetting(flag) PROVE HideInv'
  BY <1>1, <1>4 DEF ApplyWeightSquared, EnableOffsetting
<1>5. CASE GetVal
  BY <1>5 DEF GetVal, Start, HideInv, FitInv
<1>6. ASSUME NEW new \in [Vars -> Values], Evaluate(new) PROVE HideInv'
  BY <1>6 DEF Evaluate, Start, HideInv
<1>7. CASE ProcessVariable \/ Compute \/ Reduce
  BY <1>1, <1>7 DEF ProcessVariable, Compute, Reduce, Computing, Idle
<1>8. CASE Throw
  BY <1>8 DEF Throw, HideInv
<1>9. CASE Return
  BY <1>9 DEF Return, HideInv
<1>10. CASE BeginFit \/ EndFit
  BY <1>1, <1>10 DEF BeginFit, EndFit
<1>11. CASE UNCHANGED vars
  BY <1>1, <1>11 DEF vars
<1> QED BY <1>2, <1>3, <1>4, <1>5, <1>6, <1>7, <1>8, <1>9, <1>10, <1>11 DEF Next
---------------------------------------------------------------------------
(* The theorems                                                            *)

LEMMA Invariance == Spec => [](TypeOK /\ GraphInv /\ FitInv /\ HideInv)
<1>1. Init => FitInv /\ HideInv
  BY DEF Init, FitInv, HideInv
<1> QED BY <1>1, InitGraphInv, NextGraphInv, NextFitInv, NextHideInv, TypeCorrect, PTL DEF Spec

(* run() returns the value for the present parameters, data set, sum of    *)
(* weights and kind of weights, in every graph and after every history of  *)
(* calls and exceptions, unless the likelihood was switched and not        *)
(* computed since.                                                         *)
THEOREM RunReturnsCurrent == Spec => []RunIsCurrent
<1>1. TypeOK /\ GraphInv => RunIsCurrent
  BY Returned DEF RunIsCurrent
<1> QED BY <1>1, Invariance, PTL

(* The values a fit compares have one offset from the first that has one,  *)
(* wherever the reducer is in the graph.                                   *)
THEOREM FitHasOneOffset == Spec => []OneOffsetPerFit
<1>1. TypeOK /\ GraphInv /\ FitInv => OneOffsetPerFit
  BY Returned DEF OneOffsetPerFit, FitInv
<1> QED BY <1>1, Invariance, PTL

(* The program never sees an offset but after a fit that threw.            *)
THEOREM ProgramSeesFullValue == Spec => []FullValueForProgram
<1>1. TypeOK /\ GraphInv /\ HideInv => FullValueForProgram
  <2> SUFFICES ASSUME TypeOK, GraphInv, HideInv, Returning, ~fitting, ~aborted PROVE out[Top].minus = {}
    BY DEF FullValueForProgram
  <2>1. pc # 0
    BY OrderFacts DEF Returning, N
  <2> QED BY <2>1, Returned DEF HideInv
<1> QED BY <1>1, Invariance, PTL
=============================================================================
