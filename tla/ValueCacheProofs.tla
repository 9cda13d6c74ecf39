-------------------------- MODULE ValueCacheProofs --------------------------
(***************************************************************************)
(* Theorems about ValueCache, for any expression graph without cycles and  *)
(* any redirections of its servers.  The inductive invariant Inv says what *)
(* the calls in progress have of the value they compute, what the sampler  *)
(* has done to its observable and to the caches below it, and of which     *)
(* caches a clean flag may be believed now or after the minimization.      *)
(***************************************************************************)
EXTENDS ValueCache, SequenceTheorems, TLAPS

-----------------------------------------------------------------------------
(* Propagation through the graph *)

\* A propagation stays within the nodes it may pass through.
LEMMA ReachedOpen ==
    ASSUME NEW srv, NEW N, NEW open
    PROVE  Reached(srv, N, open) \subseteq open
BY DEF Reached

\* It takes the nodes it starts from,
LEMMA ReachedSource ==
    ASSUME NEW srv, NEW N, NEW open, NEW n \in N \cap open
    PROVE  n \in Reached(srv, N, open)
BY DEF Reached

\* and the clients of what it takes,
LEMMA ReachedClient ==
    ASSUME NEW srv, NEW N, NEW open,
           NEW f \in Funcs \cap open, NEW s \in srv[f] \cap Reached(srv, N, open)
    PROVE  f \in Reached(srv, N, open)
BY DEF Reached

\* and nothing if all it starts from is closed.
LEMMA ReachedNone ==
    ASSUME NEW srv, NEW N, NEW open, N \cap open = {}
    PROVE  Reached(srv, N, open) = {}
<1>1. open \in {S \in SUBSET open : /\ S \cap N = {}
                                    /\ \A n \in S \cap Funcs : srv[n] \cap open \subseteq S}
  OBVIOUS
<1> QED BY <1>1 DEF Reached

-----------------------------------------------------------------------------
(* The modes *)

\* Every client of an always recomputed node is one, for the modes md.
Closed(srv, md) ==
  \A f \in Funcs : \A s \in srv[f] : md[s] = "ADirty" => md[f] = "ADirty"

GraphTypeOK ==
  /\ servers \in [Funcs -> SUBSET Nodes]
  /\ mode \in [Nodes -> Modes]

\* During a minimization the modes are those before it but for the guarded
\* nodes, whose modes are saved.
GuardConsistent ==
  guard # NoGuard =>
    /\ guard.before \in [Nodes -> Modes]
    /\ Closed(servers, guard.before)
    /\ guard.saved = [n \in {m \in GuardedNodes : guard.before[m] # "ADirty"}
                        |-> guard.before[n]]
    /\ mode = [n \in Nodes |-> IF n \in GuardedNodes THEN "ADirty"
                               ELSE guard.before[n]]

ModeInv == GraphTypeOK /\ Closed(servers, mode) /\ GuardConsistent

LEMMA InitModeInv == Init => ModeInv
BY ConstantsAssumption
   DEF Init, ModeInv, GraphTypeOK, Closed, GuardConsistent, Nodes, Modes

\* setOperMode(ADirty) with recursion keeps the types,
LEMMA MadeADirtyType ==
    ASSUME NEW srv, NEW N, mode \in [Nodes -> Modes]
    PROVE  MadeADirty(srv, N) \in [Nodes -> Modes]
BY DEF MadeADirty, Modes

\* and closes the graph if it was closed but for the clients it starts from.
LEMMA MadeADirtyClosed ==
    ASSUME NEW srv \in [Funcs -> SUBSET Nodes], NEW N, mode \in [Nodes -> Modes],
           \A f \in Funcs \ N : \A s \in srv[f] : mode[s] = "ADirty" => mode[f] = "ADirty"
    PROVE  Closed(srv, MadeADirty(srv, N))
<1> DEFINE open == {m \in Nodes : mode[m] # "ADirty"}
           hit == Reached(srv, N, open)
<1>1. MadeADirty(srv, N) = [n \in Nodes |-> IF n \in hit THEN "ADirty" ELSE mode[n]]
  BY DEF MadeADirty
<1>2. SUFFICES ASSUME NEW f \in Funcs, NEW s \in srv[f],
                      MadeADirty(srv, N)[s] = "ADirty"
               PROVE  MadeADirty(srv, N)[f] = "ADirty"
  BY DEF Closed
<1>3. f \in Nodes /\ s \in Nodes
  BY DEF Nodes
<1>4. s \in hit \/ mode[s] = "ADirty"
  <2> HIDE DEF hit
  <2> QED BY <1>1, <1>2, <1>3
<1>5. SUFFICES f \in hit \/ mode[f] = "ADirty"
  <2> HIDE DEF hit
  <2> QED BY <1>1, <1>3
<1>6. CASE f \in open /\ s \in hit
  BY <1>6, ReachedClient
<1>7. CASE f \in open /\ mode[s] = "ADirty"
  <2>1. f \in N
    BY <1>7
  <2> QED BY <2>1, <1>7, ReachedSource
<1>8. CASE f \notin open
  BY <1>8, <1>3
<1> QED BY <1>4, <1>6, <1>7, <1>8

\* The actions that leave the graph alone.
LEMMA SameGraph ==
    ASSUME ModeInv, UNCHANGED graph
    PROVE  ModeInv' /\ (guard' = NoGuard => guard = NoGuard)
BY DEF ModeInv, GraphTypeOK, Closed, GuardConsistent, graph, GuardedNodes

\* A minimization begins: the guarded nodes have their clients among them.
LEMMA GuardBeginInv ==
    ASSUME ModeInv, NEW kind, GuardBegin(kind)
    PROVE  ModeInv'
<1> DEFINE saved == [n \in {m \in GuardedNodes : mode[m] # "ADirty"} |-> mode[n]]
<1>1. servers' = servers
      /\ mode' = [n \in Nodes |-> IF n \in GuardedNodes THEN "ADirty" ELSE mode[n]]
  BY DEF GuardBegin
<1>2. guard' = Guard(kind, GuardedNodes)
  BY DEF GuardBegin
<1>3. guard'.saved = saved /\ guard'.before = mode
  BY <1>2 DEF Guard
<1>4. GuardedNodes' = GuardedNodes
  BY <1>1 DEF GuardedNodes
<1>5. GraphTypeOK'
  BY <1>1 DEF ModeInv, GraphTypeOK, Modes
<1>6. Closed(servers', mode')
  <2>1. SUFFICES ASSUME NEW f \in Funcs, NEW s \in servers[f], mode'[s] = "ADirty"
                 PROVE  mode'[f] = "ADirty"
    BY <1>1 DEF Closed
  <2>2. f \in Nodes /\ s \in Nodes
    BY DEF Nodes, ModeInv, GraphTypeOK
  <2>3. CASE s \in GuardedNodes
    <3>1. f \in GuardedNodes
      BY <2>2, <2>3, ReachedClient DEF GuardedNodes
    <3> QED BY <3>1, <2>2, <1>1
  <2>4. CASE s \notin GuardedNodes
    <3>1. mode[s] = "ADirty"
      BY <2>1, <2>2, <2>4, <1>1
    <3>2. mode[f] = "ADirty"
      BY <3>1 DEF ModeInv, Closed
    <3> QED BY <3>2, <2>2, <1>1
  <2> QED BY <2>3, <2>4
<1>7. GuardConsistent'
  <2>1. Closed(servers', guard'.before) /\ guard'.before \in [Nodes -> Modes]
    BY <1>1, <1>3 DEF ModeInv, GraphTypeOK
  <2>2. guard'.saved = [n \in {m \in GuardedNodes' : guard'.before[m] # "ADirty"}
                          |-> guard'.before[n]]
    BY <1>3, <1>4
  <2> QED BY <2>1, <2>2, <1>1, <1>3, <1>4 DEF GuardConsistent
<1> QED BY <1>5, <1>6, <1>7 DEF ModeInv

\* The destructor of the guard, reached at its end or by an exception, gives
\* back the modes before it.
LEMMA GuardEndInv ==
    ASSUME ModeInv, servers' = servers, guard' = NoGuard, mode' = ModesBefore
    PROVE  ModeInv' /\ (guard # NoGuard => mode' = guard.before)
<1>1. CASE guard = NoGuard
  <2>1. mode' = mode
    BY <1>1 DEF ModesBefore, ModeInv, GraphTypeOK
  <2> QED BY <1>1, <2>1 DEF ModeInv, GraphTypeOK, GuardConsistent, Closed
<1>2. CASE guard # NoGuard
  <2>1. mode' = [n \in Nodes |-> IF n \in DOMAIN guard.saved THEN guard.saved[n]
                                ELSE mode[n]]
    BY <1>2 DEF ModesBefore
  <2>2. /\ guard.before \in [Nodes -> Modes]
        /\ Closed(servers, guard.before)
        /\ guard.saved = [n \in {m \in GuardedNodes : guard.before[m] # "ADirty"}
                            |-> guard.before[n]]
        /\ mode = [n \in Nodes |-> IF n \in GuardedNodes THEN "ADirty"
                                   ELSE guard.before[n]]
    BY <1>2 DEF ModeInv, GuardConsistent
  <2>3. ASSUME NEW n \in Nodes PROVE mode'[n] = guard.before[n]
    <3>1. DOMAIN guard.saved = {m \in GuardedNodes : guard.before[m] # "ADirty"}
      BY <2>2
    <3>2. CASE n \in DOMAIN guard.saved
      BY <3>1, <3>2, <2>1, <2>2
    <3>3. CASE n \notin DOMAIN guard.saved
      BY <3>1, <3>3, <2>1, <2>2
    <3> QED BY <3>2, <3>3
  <2>4. mode' = guard.before
    BY <2>1, <2>2, <2>3
  <2> QED BY <2>2, <2>4 DEF ModeInv, GraphTypeOK, GuardConsistent, Closed
<1> QED BY <1>1, <1>2

\* In a closed graph doEval changes no mode.
LEMMA DoEvalInv ==
    ASSUME ModeInv, NEW f \in Batch, DoEval(f)
    PROVE  ModeInv' /\ guard' = guard /\ mode' = mode
<1> DEFINE own == {s \in servers[f] : mode[s] = "ADirty"}
           clients == {c \in Funcs : servers[c] \cap own # {}}
           open == {m \in Nodes : mode[m] # "ADirty"}
<1>1. mode' = MadeADirty(servers, clients) /\ servers' = servers /\ guard' = guard
  BY DEF DoEval
<1>2. clients \cap open = {}
  BY DEF ModeInv, Closed
<1>3. Reached(servers, clients, open) = {}
  <2> HIDE DEF clients, open
  <2> QED BY <1>2, ReachedNone
<1>4. MadeADirty(servers, clients) = mode
  <2>1. MadeADirty(servers, clients)
          = [n \in Nodes |-> IF n \in Reached(servers, clients, open) THEN "ADirty" ELSE mode[n]]
    BY DEF MadeADirty
  <2> HIDE DEF clients, open
  <2> QED BY <2>1, <1>3 DEF ModeInv, GraphTypeOK
<1> QED BY <1>1, <1>4, SameGraph DEF graph

\* optimizeCacheMode recurses into clients.
LEMMA OptimizeCacheModeInv ==
    ASSUME ModeInv, NEW f, NEW o, OptimizeCacheMode(f, o)
    PROVE  ModeInv' /\ guard = NoGuard
<1> DEFINE N == {n \in Below[f] \cap Funcs : o \in Below[n]}
<1>1. mode' = MadeADirty(servers, N) /\ servers' = servers
      /\ guard' = guard /\ guard = NoGuard
  BY DEF OptimizeCacheMode
<1> HIDE DEF N
<1>2. servers \in [Funcs -> SUBSET Nodes] /\ mode \in [Nodes -> Modes]
  BY DEF ModeInv, GraphTypeOK
<1>3. Closed(servers, MadeADirty(servers, N))
  BY <1>2, MadeADirtyClosed DEF ModeInv, Closed
<1> QED BY <1>1, <1>2, <1>3, MadeADirtyType
   DEF ModeInv, GraphTypeOK, GuardConsistent, Closed

\* A redirected client takes the mode of its new server.
LEMMA RedirectInv ==
    ASSUME ModeInv, NEW f \in Funcs, NEW old, NEW new \in Nodes, Redirect(f, old, new)
    PROVE  ModeInv' /\ guard = NoGuard
<1> DEFINE srv == [servers EXCEPT ![f] = (@ \ {old}) \cup {new}]
<1>1. /\ servers' = srv
      /\ mode' = IF mode[new] = "ADirty" THEN MadeADirty(srv, {f}) ELSE mode
      /\ guard' = guard /\ guard = NoGuard
  BY DEF Redirect
<1>2. servers \in [Funcs -> SUBSET Nodes] /\ mode \in [Nodes -> Modes]
  BY DEF ModeInv, GraphTypeOK
<1>3. srv \in [Funcs -> SUBSET Nodes]
  BY <1>2
<1>4. \A c \in Funcs \ {f} : srv[c] = servers[c]
  BY <1>2
<1>5. srv[f] = (servers[f] \ {old}) \cup {new}
  BY <1>2
<1> HIDE DEF srv
<1>6. Closed(srv, mode')
  <2>1. CASE mode[new] = "ADirty"
    <3>1. \A c \in Funcs \ {f} : \A s \in srv[c] : mode[s] = "ADirty" => mode[c] = "ADirty"
      BY <1>4 DEF ModeInv, Closed
    <3>2. Closed(srv, MadeADirty(srv, {f}))
      BY <1>2, <1>3, <3>1, MadeADirtyClosed
    <3> QED BY <1>1, <2>1, <3>2
  <2>2. CASE mode[new] # "ADirty"
    <3>1. \A c \in Funcs : \A s \in srv[c] : mode[s] = "ADirty" => mode[c] = "ADirty"
      BY <1>4, <1>5, <2>2 DEF ModeInv, Closed
    <3> QED BY <1>1, <2>2, <3>1 DEF Closed
  <2> QED BY <2>1, <2>2
<1> QED BY <1>1, <1>2, <1>3, <1>6, MadeADirtyType
   DEF ModeInv, GraphTypeOK, GuardConsistent, Closed

\* Each step keeps the invariant, and one that ends a guard restores the modes.
LEMMA StepModeInv ==
    ASSUME ModeInv, [Next]_vars
    PROVE  ModeInv' /\ ((guard # NoGuard /\ guard' = NoGuard) => mode' = guard.before)
<1>1. ASSUME UNCHANGED graph PROVE ModeInv' /\ (guard' = NoGuard => guard = NoGuard)
  BY <1>1, SameGraph
<1>2. CASE UNCHANGED vars
  BY <1>1, <1>2 DEF vars, graph
<1>3. CASE \E l \in Leaves, v \in Values : SetVal(l, v)
  BY <1>1, <1>3 DEF SetVal
<1>4. CASE \E f \in Funcs : GetVal(f)
  BY <1>1, <1>4 DEF GetVal
<1>5. CASE ReadServer \/ EvaluateServer \/ Return
  BY <1>1, <1>5 DEF ReadServer, EvaluateServer, Return
<1>6. CASE SampleNext \/ FinishSampling
  BY <1>1, <1>6 DEF SampleNext, FinishSampling
<1>7. CASE \E kind \in {"fit", "contour"} : GuardBegin(kind)
  BY <1>7, GuardBeginInv DEF GuardBegin
<1>8. CASE Throw \/ GuardEnd
  BY <1>8, GuardEndInv DEF Throw, GuardEnd
<1>9. CASE \E f \in Batch : DoEval(f)
  BY <1>9, DoEvalInv
<1>10. CASE \E q \in Optimized : OptimizeCacheMode(q[1], q[2])
  BY <1>10, OptimizeCacheModeInv
<1>11. CASE \E r \in Redirections : Redirect(r[1], r[2], r[3])
  <2>1. PICK r \in Redirections : Redirect(r[1], r[2], r[3])
    BY <1>11
  <2>2. r[1] \in Funcs /\ r[3] \in Nodes
    BY ConstantsAssumption DEF Nodes
  <2> QED BY <2>1, <2>2, RedirectInv
<1> QED BY <1>2, <1>3, <1>4, <1>5, <1>6, <1>7, <1>8, <1>9, <1>10, <1>11 DEF Next

-----------------------------------------------------------------------------
(* The graph *)

\* A graph that the program can have.
GraphOK(srv) ==
  /\ srv \in [Funcs -> SUBSET Nodes]
  /\ \A f \in Funcs : srv[f] \subseteq Possible(f) /\ (f \in Graph => srv[f] # {})
  /\ \E pdf \in Funcs : srv[Sampler] = {pdf, Sampled}

\* A set of nodes that has with a function all its servers.
ServerClosed(srv, S) == \A f \in S \cap Funcs : srv[f] \subseteq S

\* What n depends on, n included: the least such set.
Deps(srv, n) == {m \in Nodes : \A S \in SUBSET Nodes : n \in S /\ ServerClosed(srv, S) => m \in S}

LEMMA DepsSelf ==
    ASSUME NEW srv, NEW n \in Nodes
    PROVE  n \in Deps(srv, n) /\ Deps(srv, n) \subseteq Nodes
BY DEF Deps

\* They are closed,
LEMMA DepsServers ==
    ASSUME NEW srv, srv \in [Funcs -> SUBSET Nodes], NEW n, NEW f \in Deps(srv, n) \cap Funcs
    PROVE  srv[f] \subseteq Deps(srv, n)
<1> SUFFICES ASSUME NEW s \in srv[f], NEW S \in SUBSET Nodes, n \in S, ServerClosed(srv, S)
             PROVE  s \in Nodes /\ s \in S
  BY DEF Deps
<1>1. f \in S
  BY DEF Deps
<1>2. s \in S
  BY <1>1 DEF ServerClosed
<1> QED BY <1>2

\* and the least: nothing else is needed to have n.
LEMMA DepsLeast ==
    ASSUME NEW srv, NEW S \in SUBSET Nodes, NEW n \in S, ServerClosed(srv, S)
    PROVE  Deps(srv, n) \subseteq S
BY DEF Deps

LEMMA DepsClosed ==
    ASSUME NEW srv, srv \in [Funcs -> SUBSET Nodes], NEW n \in Nodes
    PROVE  Deps(srv, n) \in SUBSET Nodes /\ ServerClosed(srv, Deps(srv, n))
BY DepsSelf, DepsServers DEF ServerClosed

\* What is needed of what is needed is needed.
LEMMA DepsTransitive ==
    ASSUME NEW srv, srv \in [Funcs -> SUBSET Nodes], NEW n \in Nodes, NEW m \in Deps(srv, n)
    PROVE  m \in Nodes /\ Deps(srv, m) \subseteq Deps(srv, n)
<1>1. m \in Nodes
  BY DEF Deps
<1> QED BY <1>1, DepsClosed, DepsLeast

\* A function depends on itself and on what its servers depend on; a parameter on
\* nothing else.
LEMMA DepsOfFunction ==
    ASSUME NEW srv, srv \in [Funcs -> SUBSET Nodes], NEW f \in Funcs
    PROVE  Deps(srv, f) = {f} \cup UNION {Deps(srv, s) : s \in srv[f]}
<1> DEFINE All == {f} \cup UNION {Deps(srv, s) : s \in srv[f]}
<1>1. f \in Nodes /\ srv[f] \subseteq Nodes
  BY DEF Nodes
<1>2. All \subseteq Deps(srv, f)
  <2>1. f \in Deps(srv, f)
    BY <1>1, DepsSelf
  <2>2. ASSUME NEW s \in srv[f] PROVE Deps(srv, s) \subseteq Deps(srv, f)
    <3>1. s \in Deps(srv, f)
      BY <2>1, DepsServers
    <3> QED BY <1>1, <3>1, DepsTransitive
  <2> QED BY <2>1, <2>2
<1>3. Deps(srv, f) \subseteq All
  <2>1. All \in SUBSET Nodes
    BY <1>1, DepsSelf
  <2>2. ASSUME NEW g \in All \cap Funcs PROVE srv[g] \subseteq All
    <3>1. CASE g = f
      <4>1. \A s \in srv[f] : s \in Deps(srv, s)
        BY <1>1, DepsSelf
      <4> QED BY <3>1, <4>1
    <3>2. CASE g # f
      <4>1. PICK s \in srv[f] : g \in Deps(srv, s)
        BY <3>2
      <4>2. srv[g] \subseteq Deps(srv, s)
        BY <4>1, DepsServers
      <4> QED BY <4>1, <4>2
    <3> QED BY <3>1, <3>2
  <2> HIDE DEF All
  <2>3. ServerClosed(srv, All)
    BY <2>2 DEF ServerClosed
  <2>4. f \in All
    BY DEF All
  <2> QED BY <2>1, <2>3, <2>4, DepsLeast
<1> QED BY <1>2, <1>3

\* A parameter depends on itself only.
LEMMA DepsOfLeaf ==
    ASSUME NEW srv, NEW l \in Leaves
    PROVE  Deps(srv, l) = {l}
<1>1. {l} \in SUBSET Nodes /\ ServerClosed(srv, {l}) /\ l \in Nodes
  BY ConstantsAssumption DEF Nodes, ServerClosed
<1>2. Deps(srv, l) \subseteq {l}
  BY <1>1, DepsLeast
<1> QED BY <1>1, <1>2, DepsSelf

\* There are no cycles: what holds of a node if it holds of its servers holds of all.
LEMMA Acyclic ==
    ASSUME NEW srv, GraphOK(srv), NEW S \in SUBSET Nodes, S # {}
    PROVE  \E n \in S : n \in Funcs => srv[n] \cap S = {}
<1>1. PICK n \in S : n \in Funcs => Possible(n) \cap S = {}
  BY GraphAssumption
<1>2. n \in Funcs => srv[n] \cap S = {}
  BY <1>1 DEF GraphOK
<1> QED BY <1>1, <1>2

\* In particular no function depends on itself through a server.
LEMMA NoCycle ==
    ASSUME NEW srv, GraphOK(srv), NEW f \in Funcs, NEW s \in srv[f]
    PROVE  f \notin Deps(srv, s)
<1> SUFFICES ASSUME f \in Deps(srv, s) PROVE FALSE
  OBVIOUS
<1> DEFINE S == {m \in Deps(srv, s) : f \in Deps(srv, m)}
<1>0. srv \in [Funcs -> SUBSET Nodes] /\ s \in Nodes /\ f \in Nodes
  BY DEF GraphOK, Nodes
<1>1. S \in SUBSET Nodes /\ S # {} /\ s \in S /\ f \in S
  BY <1>0, DepsSelf
<1>2. PICK m \in S : m \in Funcs => srv[m] \cap S = {}
  <2> HIDE DEF S
  <2> QED BY <1>1, Acyclic
<1>3. CASE m = f
  <2>1. s \in srv[m] \cap S
    BY <1>1, <1>3
  <2> QED BY <1>2, <1>3, <2>1
<1>4. CASE m # f
  <2>1. m \in Funcs
    <3>1. m \in Leaves => Deps(srv, m) = {m}
      BY DepsOfLeaf
    <3>2. m \in Nodes /\ f \in Deps(srv, m)
      BY <1>0, <1>2, DepsSelf
    <3> QED BY <1>4, <3>1, <3>2 DEF Nodes
  <2>2. PICK c \in srv[m] : f \in Deps(srv, c)
    <3>1. f \in Deps(srv, m)
      BY <1>2
    <3>2. Deps(srv, m) = {m} \cup UNION {Deps(srv, c) : c \in srv[m]}
      BY <1>0, <2>1, DepsOfFunction
    <3> QED BY <1>4, <3>1, <3>2
  <2>3. c \in Deps(srv, s)
    <3>1. m \in Deps(srv, s)
      BY <1>2
    <3> QED BY <1>0, <2>1, <2>2, <3>1, DepsServers
  <2> QED BY <1>2, <2>1, <2>2, <2>3
<1> QED BY <1>3, <1>4

\* No two nodes depend on each other.
LEMMA DepsAntisymmetric ==
    ASSUME NEW srv, GraphOK(srv), NEW n \in Nodes, NEW m \in Deps(srv, n), m # n
    PROVE  n \notin Deps(srv, m)
<1>0. srv \in [Funcs -> SUBSET Nodes]
  BY DEF GraphOK
<1>1. n \in Funcs
  BY DepsOfLeaf DEF Nodes
<1>2. PICK s \in srv[n] : m \in Deps(srv, s)
  BY <1>0, <1>1, DepsOfFunction
<1>3. s \in Nodes
  BY <1>0, <1>1, <1>2
<1>4. Deps(srv, m) \subseteq Deps(srv, s)
  BY <1>0, <1>2, <1>3, DepsTransitive
<1>5. n \notin Deps(srv, s)
  BY <1>1, <1>2, NoCycle
<1> QED BY <1>4, <1>5

\* The recursive definition of Below is what a node depends on.
LEMMA BelowIs ==
    ASSUME GraphOK(servers)
    PROVE  Below = [n \in Nodes |-> Deps(servers, n)]
<1>0. servers \in [Funcs -> SUBSET Nodes]
  BY DEF GraphOK
<1> DEFINE D == [n \in Nodes |-> Deps(servers, n)]
           Eq(b) == b = [n \in Nodes |-> {n} \cup (IF n \in Funcs THEN UNION {b[c] : c \in servers[n]} ELSE {})]
<1>1. Eq(D)
  <2>1. ASSUME NEW n \in Nodes
        PROVE  D[n] = {n} \cup (IF n \in Funcs THEN UNION {D[c] : c \in servers[n]} ELSE {})
    <3>1. CASE n \in Funcs
      <4>1. \A c \in servers[n] : D[c] = Deps(servers, c)
        BY <1>0, <3>1
      <4>2. UNION {D[c] : c \in servers[n]} = UNION {Deps(servers, c) : c \in servers[n]}
        <5> HIDE DEF D
        <5> QED BY <4>1
      <4> QED BY <1>0, <3>1, <4>2, DepsOfFunction
    <3>2. CASE n \notin Funcs
      BY <3>2, DepsOfLeaf DEF Nodes
    <3> QED BY <3>1, <3>2
  <2> QED BY <2>1
<1>2. Eq(Below)
  <2>1. Below = CHOOSE b : Eq(b)
    BY DEF Below
  <2> HIDE DEF Eq, D
  <2> QED BY <1>1, <2>1
<1>3. \A n \in Nodes : Below[n] = Deps(servers, n)
  <2> DEFINE S == {n \in Nodes : Below[n] # Deps(servers, n)}
  <2> SUFFICES ASSUME S # {} PROVE FALSE
    OBVIOUS
  <2>1. PICK n \in S : n \in Funcs => servers[n] \cap S = {}
    <3> HIDE DEF S
    <3>1. S \in SUBSET Nodes
      BY DEF S
    <3> QED BY <3>1, Acyclic
  <2>2. Below[n] = {n} \cup (IF n \in Funcs THEN UNION {Below[c] : c \in servers[n]} ELSE {})
    <3> HIDE DEF Below
    <3> QED BY <1>2
  <2> HIDE DEF Below
  <2>3. CASE n \in Funcs
    <3>1. \A c \in servers[n] : Below[c] = Deps(servers, c)
      BY <1>0, <2>1, <2>3
    <3>2. UNION {Below[c] : c \in servers[n]} = UNION {Deps(servers, c) : c \in servers[n]}
      BY <3>1
    <3>3. Deps(servers, n) = {n} \cup UNION {Deps(servers, c) : c \in servers[n]}
      BY <1>0, <2>3, DepsOfFunction
    <3> QED BY <2>1, <2>2, <2>3, <3>2, <3>3
  <2>4. CASE n \notin Funcs
    BY <2>1, <2>2, <2>4, DepsOfLeaf DEF Nodes
  <2> QED BY <2>3, <2>4
<1>4. Below = [n \in Nodes |-> Below[n]]
  <2> HIDE DEF Below
  <2> QED BY <1>2
<1> HIDE DEF Below
<1> QED BY <1>3, <1>4

-----------------------------------------------------------------------------
(* Propagations and dependencies *)

\* What is reached depends on something the propagation starts from,
LEMMA ReachedDown ==
    ASSUME NEW srv, srv \in [Funcs -> SUBSET Nodes], NEW N, NEW open \in SUBSET Nodes,
           NEW n \in Reached(srv, N, open)
    PROVE  \E m \in N : m \in Deps(srv, n)
<1> SUFFICES ASSUME \A m \in N : m \notin Deps(srv, n) PROVE FALSE
  OBVIOUS
<1> DEFINE S == {m \in open : Deps(srv, m) \cap N = {}}
<1>1. S \in SUBSET open /\ S \cap N = {}
  BY DepsSelf
<1>2. ASSUME NEW f \in S \cap Funcs, NEW s \in srv[f] \cap open PROVE s \in S
  <2>1. f \in Nodes /\ s \in Deps(srv, f) /\ Deps(srv, f) \cap N = {}
    BY DepsSelf, DepsServers
  <2>2. Deps(srv, s) \subseteq Deps(srv, f)
    BY <2>1, DepsTransitive
  <2> QED BY <2>1, <2>2
<1> HIDE DEF S
<1>3. n \notin S
  BY <1>1, <1>2 DEF Reached
<1>4. n \in open
  BY ReachedOpen
<1> QED BY <1>3, <1>4 DEF S

\* and if the propagation passes through what a function depends on when it passes
\* through the function, it reaches all that does.
LEMMA ReachedUp ==
    ASSUME NEW srv, GraphOK(srv), NEW N, NEW open \in SUBSET Nodes,
           \A f \in Funcs \cap open : srv[f] \subseteq open,
           NEW n \in open, NEW m \in N, m \in Deps(srv, n)
    PROVE  n \in Reached(srv, N, open)
<1>0. srv \in [Funcs -> SUBSET Nodes]
  BY DEF GraphOK
<1> DEFINE S == {k \in open : m \in Deps(srv, k) /\ k \notin Reached(srv, N, open)}
<1> SUFFICES ASSUME S # {} PROVE FALSE
  OBVIOUS
<1>1. PICK k \in S : k \in Funcs => srv[k] \cap S = {}
  <2>1. S \in SUBSET Nodes
    OBVIOUS
  <2> HIDE DEF S
  <2> QED BY <2>1, Acyclic
<1>2. k \in open /\ k \in Nodes /\ m \in Deps(srv, k) /\ k \notin Reached(srv, N, open)
  BY <1>1
<1> HIDE DEF S
<1>3. CASE m = k
  BY <1>2, <1>3, ReachedSource
<1>4. CASE m # k
  <2>1. k \in Funcs
    BY <1>2, <1>4, DepsOfLeaf DEF Nodes
  <2>2. PICK s \in srv[k] : m \in Deps(srv, s)
    BY <1>0, <1>2, <1>4, <2>1, DepsOfFunction
  <2>3. s \in open
    BY <1>2, <2>1, <2>2
  <2>4. s \in Reached(srv, N, open)
    BY <1>1, <2>1, <2>2, <2>3 DEF S
  <2> QED BY <1>2, <2>1, <2>2, <2>4, ReachedClient
<1> QED BY <1>3, <1>4

\* What does not depend on f depends on the same nodes when f gets other servers.
LEMMA DepsSame ==
    ASSUME NEW srv, NEW srvNew, srv \in [Funcs -> SUBSET Nodes], srvNew \in [Funcs -> SUBSET Nodes],
           NEW f, \A g \in Funcs \ {f} : srvNew[g] = srv[g],
           NEW n \in Nodes, f \notin Deps(srv, n)
    PROVE  Deps(srvNew, n) = Deps(srv, n)
<1>1. Deps(srv, n) \in SUBSET Nodes /\ ServerClosed(srv, Deps(srv, n)) /\ n \in Deps(srv, n)
  BY DepsClosed, DepsSelf
<1>2. Deps(srvNew, n) \in SUBSET Nodes /\ ServerClosed(srvNew, Deps(srvNew, n)) /\ n \in Deps(srvNew, n)
  BY DepsClosed, DepsSelf
<1>3. ServerClosed(srvNew, Deps(srv, n))
  BY <1>1 DEF ServerClosed
<1>4. Deps(srvNew, n) \subseteq Deps(srv, n)
  BY <1>1, <1>3, DepsLeast
<1>5. ServerClosed(srv, Deps(srvNew, n))
  BY <1>2, <1>4 DEF ServerClosed
<1>6. Deps(srv, n) \subseteq Deps(srvNew, n)
  BY <1>2, <1>5, DepsLeast
<1> QED BY <1>4, <1>6

\* What depends on something the Evaluator computes depends on one of its parameters.
LEMMA GraphLeaf ==
    ASSUME NEW srv, GraphOK(srv), NEW g \in Graph
    PROVE  \E l \in Graph \cap Leaves : l \in Deps(srv, g)
<1>0. srv \in [Funcs -> SUBSET Nodes] /\ Graph \subseteq Nodes
  BY ConstantsAssumption DEF GraphOK, Nodes
<1> DEFINE S == {k \in Graph : \A l \in Graph \cap Leaves : l \notin Deps(srv, k)}
<1> SUFFICES ASSUME S # {} PROVE FALSE
  OBVIOUS
<1>1. PICK k \in S : k \in Funcs => srv[k] \cap S = {}
  <2>1. S \in SUBSET Nodes
    BY <1>0
  <2> HIDE DEF S
  <2> QED BY <2>1, Acyclic
<1>2. k \in Graph /\ k \in Nodes /\ \A l \in Graph \cap Leaves : l \notin Deps(srv, k)
  BY <1>0, <1>1
<1> HIDE DEF S
<1>3. k \in Funcs
  BY <1>2, DepsSelf DEF Nodes
<1>4. PICK s \in srv[k] : TRUE
  BY <1>2, <1>3 DEF GraphOK
<1>5. s \in Graph
  BY <1>2, <1>3, <1>4, GraphAssumption DEF GraphOK
<1>6. PICK l \in Graph \cap Leaves : l \in Deps(srv, s)
  BY <1>1, <1>3, <1>4, <1>5 DEF S
<1>7. l \in Deps(srv, k)
  BY <1>0, <1>3, <1>4, <1>6, DepsOfFunction
<1> QED BY <1>2, <1>6, <1>7

-----------------------------------------------------------------------------
(* What a node is worth *)

\* The points of the sampler are in the value of what depends on it, if its density
\* depends on the observable.
SamplesIn(srv) ==
  IF \E pdf \in srv[Sampler] \ {Sampled} : Sampled \in Deps(srv, pdf)
  THEN {<<Sampled, Samples[i]>> : i \in DOMAIN Samples} ELSE {}

\* The value of f, and of any node, for the values v of the parameters.
WorthAt(srv, v, f) ==
  {<<l, v[l]>> : l \in Leaves \cap Deps(srv, f)}
    \cup (IF Sampler \in Deps(srv, f) THEN SamplesIn(srv) ELSE {})
Of(srv, v, n) == IF n \in Leaves THEN {<<n, v[n]>>} ELSE WorthAt(srv, v, n)
Sum(srv, v, N) == UNION {Of(srv, v, n) : n \in N}

\* A function is worth what its servers are worth together.
LEMMA WorthIsSum ==
    ASSUME NEW srv, srv \in [Funcs -> SUBSET Nodes], NEW v, NEW f \in Funcs, f # Sampler
    PROVE  WorthAt(srv, v, f) = Sum(srv, v, srv[f])
<1>1. f \notin Leaves
  BY ConstantsAssumption
<1>2. Deps(srv, f) = {f} \cup UNION {Deps(srv, s) : s \in srv[f]}
  BY DepsOfFunction
<1>3. \A s \in srv[f] : s \in Nodes
  OBVIOUS
<1>4. ASSUME NEW s \in srv[f] PROVE Of(srv, v, s) \subseteq WorthAt(srv, v, f)
  <2>1. Deps(srv, s) \subseteq Deps(srv, f) /\ s \in Deps(srv, f)
    BY <1>2, <1>3, DepsSelf
  <2> QED BY <2>1 DEF Of, WorthAt
<1>5. ASSUME NEW e \in WorthAt(srv, v, f) PROVE \E s \in srv[f] : e \in Of(srv, v, s)
  <2>1. CASE \E l \in Leaves \cap Deps(srv, f) : e = <<l, v[l]>>
    <3>1. PICK l \in Leaves \cap Deps(srv, f) : e = <<l, v[l]>>
      BY <2>1
    <3>2. PICK s \in srv[f] : l \in Deps(srv, s)
      BY <1>1, <1>2, <3>1
    <3>3. CASE s \in Leaves
      BY <3>1, <3>2, <3>3, DepsOfLeaf DEF Of
    <3>4. CASE s \notin Leaves
      BY <3>1, <3>2, <3>4 DEF Of, WorthAt
    <3> QED BY <3>3, <3>4
  <2>2. CASE Sampler \in Deps(srv, f) /\ e \in SamplesIn(srv)
    <3>1. PICK s \in srv[f] : Sampler \in Deps(srv, s)
      BY <1>2, <2>2
    <3>2. s \notin Leaves
      BY <3>1, DepsOfLeaf, ConstantsAssumption
    <3> QED BY <2>2, <3>1, <3>2 DEF Of, WorthAt
  <2> QED BY <2>1, <2>2 DEF WorthAt
<1> QED BY <1>4, <1>5 DEF Sum

\* It does not depend on the parameters that are not below.
LEMMA WorthSame ==
    ASSUME NEW srv, NEW v, NEW w, NEW n, \A l \in Leaves \cap Deps(srv, n) : v[l] = w[l]
    PROVE  WorthAt(srv, v, n) = WorthAt(srv, w, n)
BY DEF WorthAt

\* The sampler has one density, which does not depend on it.
LEMMA Density ==
    ASSUME NEW srv, GraphOK(srv)
    PROVE  \E pdf \in Funcs :
             /\ srv[Sampler] = {pdf, Sampled} /\ pdf # Sampled /\ srv[Sampler] \ {Sampled} = {pdf}
             /\ Sampler \notin Deps(srv, pdf) /\ Sampler # pdf
             /\ Deps(srv, pdf) \subseteq Deps(srv, Sampler)
             /\ Sampled \in Deps(srv, Sampler)
             /\ \A f \in Deps(srv, Sampler) \cap Funcs : f # Sampler => f \in Deps(srv, pdf)
<1>0. srv \in [Funcs -> SUBSET Nodes] /\ Sampler \in Funcs /\ Sampled \in Leaves /\ Sampled \notin Funcs
  BY ConstantsAssumption DEF GraphOK
<1>1. PICK pdf \in Funcs : srv[Sampler] = {pdf, Sampled}
  BY DEF GraphOK
<1>2. pdf # Sampled /\ srv[Sampler] \ {Sampled} = {pdf}
  BY <1>0, <1>1
<1>3. Sampler \notin Deps(srv, pdf)
  BY <1>0, <1>1, NoCycle
<1>4. Sampler # pdf
  BY <1>0, <1>3, DepsSelf DEF Nodes
<1>5. Deps(srv, Sampler) = {Sampler} \cup UNION {Deps(srv, s) : s \in srv[Sampler]}
  BY <1>0, DepsOfFunction
<1>6. Deps(srv, Sampled) = {Sampled}
  BY <1>0, DepsOfLeaf
<1>7. Deps(srv, Sampler) = {Sampler} \cup Deps(srv, pdf) \cup {Sampled}
  BY <1>1, <1>5, <1>6
<1> QED BY <1>0, <1>1, <1>2, <1>3, <1>4, <1>7

\* The value of the sampler is that of its density at all points, and of the observable.
LEMMA WorthOfSampler ==
    ASSUME NEW srv, GraphOK(srv), NEW v, NEW pdf \in Funcs, srv[Sampler] = {pdf, Sampled},
           DOMAIN v = Leaves
    PROVE  WorthAt(srv, v, Sampler)
             = {<<Sampled, v[Sampled]>>}
                 \cup UNION {WorthAt(srv, [v EXCEPT ![Sampled] = Samples[j]], pdf) : j \in DOMAIN Samples}
<1>0. srv \in [Funcs -> SUBSET Nodes] /\ Sampler \in Funcs /\ Sampled \in Leaves /\ Sampled \notin Funcs
      /\ pdf # Sampled /\ Sampler \notin Leaves /\ pdf \notin Leaves
  BY ConstantsAssumption DEF GraphOK
<1>1. Sampler \notin Deps(srv, pdf)
  BY <1>0, NoCycle
<1>2. Deps(srv, Sampler) = {Sampler} \cup Deps(srv, pdf) \cup {Sampled}
  <2>1. Deps(srv, Sampler) = {Sampler} \cup UNION {Deps(srv, s) : s \in srv[Sampler]}
    BY <1>0, DepsOfFunction
  <2>2. Deps(srv, Sampled) = {Sampled}
    BY <1>0, DepsOfLeaf
  <2> QED BY <2>1, <2>2
<1>3. PICK j0 : j0 \in DOMAIN Samples
  BY GraphAssumption
<1> DEFINE At(j) == [v EXCEPT ![Sampled] = Samples[j]]
<1>4. ASSUME NEW j \in DOMAIN Samples
      PROVE  WorthAt(srv, At(j), pdf)
               = {<<l, v[l]>> : l \in (Leaves \cap Deps(srv, pdf)) \ {Sampled}}
                   \cup (IF Sampled \in Deps(srv, pdf) THEN {<<Sampled, Samples[j]>>} ELSE {})
  <2>1. At(j)[Sampled] = Samples[j] /\ \A l \in Leaves \ {Sampled} : At(j)[l] = v[l]
    BY <1>0
  <2> HIDE DEF At
  <2>2. WorthAt(srv, At(j), pdf) = {<<l, At(j)[l]>> : l \in Leaves \cap Deps(srv, pdf)}
    BY <1>1 DEF WorthAt
  <2> QED BY <1>0, <2>1, <2>2
<1>5. SamplesIn(srv) = IF Sampled \in Deps(srv, pdf) THEN {<<Sampled, Samples[i]>> : i \in DOMAIN Samples} ELSE {}
  <2>1. srv[Sampler] \ {Sampled} = {pdf}
    BY <1>0
  <2> QED BY <2>1 DEF SamplesIn
<1>6. WorthAt(srv, v, Sampler)
        = {<<l, v[l]>> : l \in (Leaves \cap Deps(srv, pdf)) \cup {Sampled}} \cup SamplesIn(srv)
  BY <1>0, <1>2 DEF WorthAt
<1> HIDE DEF At
<1>7. UNION {WorthAt(srv, At(j), pdf) : j \in DOMAIN Samples}
        = {<<l, v[l]>> : l \in (Leaves \cap Deps(srv, pdf)) \ {Sampled}} \cup SamplesIn(srv)
  BY <1>3, <1>4, <1>5
<1> QED BY <1>6, <1>7 DEF At

-----------------------------------------------------------------------------
(* The inductive invariant of the caches *)

Frames == [node : Funcs, left : SUBSET Nodes, acc : SUBSET (Leaves \X Points),
           oldX : Points, points : Seq(Points), flagged : BOOLEAN]

Node(i) == stack[i].node

\* The parameters as the sampler found them and will leave them.
OuterVal == [l \in Leaves |-> IF l = Sampled /\ stack # << >> THEN stack[1].oldX ELSE val[l]]

\* The modes that a minimization in progress will give back.
Before(n) == IF guard = NoGuard THEN mode[n] ELSE guard.before[n]
Excluded(n) == Deps(servers, n) \cap (unseen \cup aborted) # {}

\* The cache of n is one that CleanIsCurrent speaks of, now or after the guard.
Claim(n) == Before(n) = "Auto" /\ ~dirty[n] /\ ~Excluded(n)

\* The sampler is at work above the i-th call; it has moved its observable; the
\* nodes whose caches are then of the points.
Inner(i) == \E k \in DOMAIN stack : k < i /\ Node(k) = Sampler
Started == \E k \in DOMAIN stack : Node(k) = Sampler /\ stack[k].points # Samples
BelowSampler(srv) == {f \in Funcs : f # Sampler /\ f \in Deps(srv, Sampler) /\ Sampled \in Deps(srv, f)}
Moved == IF Started THEN BelowSampler(servers) ELSE {}
Flagged == {Node(i) : i \in {k \in DOMAIN stack : stack[k].flagged}}

\* The servers of the i-th call that are in its value.
Done(i) ==
  (servers[Node(i)] \ stack[i].left) \ (IF i + 1 \in DOMAIN stack THEN {Node(i + 1)} ELSE {})

TypeInv ==
  /\ val \in [Leaves -> Points]
  /\ cache \in [Funcs -> SUBSET (Leaves \X Points)]
  /\ dirty \in [Nodes -> BOOLEAN]
  /\ inhibit \in BOOLEAN
  /\ stack \in Seq(Frames)
  /\ unseen \subseteq Leaves /\ aborted \subseteq Funcs

\* The calls in progress are a path through the graph.
PathInv ==
  /\ \A i \in DOMAIN stack :
       stack[i].left \subseteq servers[Node(i)] /\ (Node(i) = Sampler => stack[i].left = {})
  /\ \A i, j \in DOMAIN stack :
       i < j => Node(j) \in Deps(servers, Node(i)) /\ Node(i) \notin Deps(servers, Node(j))
  /\ \A i \in DOMAIN stack :
       i + 1 \in DOMAIN stack => Node(i + 1) \in servers[Node(i)] \ stack[i].left
  /\ inhibit <=> \E k \in DOMAIN stack : Node(k) = Sampler
  /\ \A i \in DOMAIN stack : Inner(i) => ~stack[i].flagged
  /\ \A i \in DOMAIN stack : ~Inner(i) => stack[i].oldX = stack[1].oldX
  /\ guard # NoGuard => \A i \in DOMAIN stack : Node(i) \in Graph

\* Outside the sampler a value in the making is that of the parameters as they are
\* but for the observable.
OuterInv ==
  \A i \in DOMAIN stack :
    ~Inner(i) /\ Node(i) # Sampler /\ ~Excluded(Node(i)) =>
      /\ stack[i].acc = Sum(servers, OuterVal, Done(i))
      /\ i + 1 \in DOMAIN stack => ~Excluded(Node(i + 1))

\* All caches from n on down are those of the parameters as they are.
SubCurrent(n) == \A f \in Deps(servers, n) \cap Funcs : cache[f] = WorthAt(servers, val, f)

InnerInv ==
  \A i \in DOMAIN stack :
    Inner(i) =>
      /\ stack[i].acc = Sum(servers, val, Done(i))
      /\ \A s \in Done(i) : SubCurrent(s)

\* The sampler has the values of its density at the points it has been at.
SampledWorth(srv, v, pdf, m) ==
  {<<Sampled, v[Sampled]>>}
    \cup UNION {WorthAt(srv, [v EXCEPT ![Sampled] = Samples[j]], pdf) : j \in 1..m}
SamplerAt(i, pdf, n, m) ==
  /\ stack[i].points = SubSeq(Samples, n + 1, Len(Samples))
  /\ stack[i].acc = SampledWorth(servers, OuterVal, pdf, m)
  /\ IF n = 0 THEN val = OuterVal ELSE val = [OuterVal EXCEPT ![Sampled] = Samples[n]]
SamplerInv ==
  /\ \A i \in DOMAIN stack : \A pdf \in servers[Sampler] \ {Sampled} :
       Node(i) = Sampler =>
         \E n \in 0..Len(Samples) :
           IF i + 1 \in DOMAIN stack
           THEN n > 0 /\ SamplerAt(i, pdf, n, n - 1)
           ELSE SamplerAt(i, pdf, n, n) /\ (n > 0 => SubCurrent(pdf))
  /\ ~inhibit => val = OuterVal

\* A clean cache is that of the parameters as they are.
CacheInv ==
  \A f \in Funcs : Claim(f) /\ f \notin Flagged /\ f \notin Moved
                     => cache[f] = WorthAt(servers, OuterVal, f)

\* A contour will put back what it remembers, or leaves it among the unseen; a fit
\* found all it computes dirty.
GuardInv ==
  guard # NoGuard =>
    /\ guard.kind \in {"fit", "contour"}
    /\ DOMAIN guard.kept = IF guard.kind = "contour" THEN Graph \cap Leaves ELSE {}
    /\ \A l \in DOMAIN guard.kept : guard.kept[l] \in Points /\ (OuterVal[l] # guard.kept[l] => l \in unseen)
    /\ guard.kind = "fit" =>
         \A f \in GuardedNodes \cap Funcs : guard.before[f] = "Auto" => dirty[f]

StackInv == PathInv /\ OuterInv /\ InnerInv /\ SamplerInv
Inv == ModeInv /\ GraphOK(servers) /\ TypeInv /\ StackInv /\ CacheInv /\ GuardInv

\* What the graph is always.
LEMMA GraphFacts ==
    ASSUME Inv
    PROVE  /\ servers \in [Funcs -> SUBSET Nodes] /\ GraphOK(servers)
           /\ mode \in [Nodes -> Modes] /\ Closed(servers, mode)
           /\ Leaves \subseteq Nodes /\ Funcs \subseteq Nodes /\ Leaves \cap Funcs = {}
           /\ Sampler \in Funcs /\ Sampled \in Leaves
           /\ \A n \in Nodes : mode[n] \in {"Auto", "ADirty"}
BY ConstantsAssumption DEF Inv, ModeInv, GraphTypeOK, Nodes, Modes

\* Between evaluations there is nothing on the stack to speak of.
LEMMA IdleFacts ==
    ASSUME Inv, Idle
    PROVE  stack = << >> /\ inhibit = FALSE /\ OuterVal = val /\ Moved = {} /\ Flagged = {}
<1>1. stack = << >> /\ DOMAIN stack = {}
  BY DEF Idle
<1>2. inhibit = FALSE
  BY <1>1 DEF Inv, StackInv, PathInv, TypeInv
<1>3. OuterVal = val
  BY <1>1 DEF Inv, TypeInv, OuterVal
<1>4. Moved = {} /\ Flagged = {}
  BY <1>1 DEF Moved, Flagged, Started
<1> QED BY <1>1, <1>2, <1>3, <1>4

\* The same after a step that leaves nothing on it.
LEMMA IdleAfter ==
    ASSUME stack' = << >>, inhibit' = FALSE, val' \in [Leaves -> Points]
    PROVE  StackInv' /\ OuterVal' = val' /\ Moved' = {} /\ Flagged' = {} /\ stack' \in Seq(Frames)
<1>1. stack' = << >> /\ DOMAIN stack' = {}
  OBVIOUS
<1>2. OuterVal' = val'
  BY <1>1 DEF OuterVal
<1>3. Moved' = {} /\ Flagged' = {}
  BY <1>1 DEF Moved, Flagged, Started
<1>4. PathInv'
  BY <1>1 DEF PathInv
<1>5. OuterInv' /\ InnerInv' /\ SamplerInv'
  BY <1>1, <1>2 DEF OuterInv, InnerInv, SamplerInv
<1> QED BY <1>1, <1>2, <1>3, <1>4, <1>5 DEF StackInv

\* A node above one that is always recomputed is, before the guard too, and the
\* guarded ones are.
LEMMA BeforeClosed ==
    ASSUME ModeInv, NEW f \in Funcs, NEW s \in servers[f], Before(f) = "Auto"
    PROVE  Before(s) = "Auto"
<1>1. s \in Nodes
  BY DEF ModeInv, GraphTypeOK
<1>2. CASE guard = NoGuard
  <2>1. mode[s] \in Modes /\ mode[f] = "Auto"
    BY <1>1, <1>2 DEF Before, ModeInv, GraphTypeOK
  <2>2. mode[s] # "ADirty"
    BY <2>1 DEF ModeInv, Closed
  <2> QED BY <1>2, <2>1, <2>2 DEF Before, Modes
<1>3. CASE guard # NoGuard
  <2>1. guard.before[s] \in Modes /\ guard.before[f] = "Auto" /\ Closed(servers, guard.before)
    BY <1>1, <1>3 DEF Before, ModeInv, GuardConsistent
  <2>2. guard.before[s] # "ADirty"
    BY <2>1 DEF Closed
  <2> QED BY <1>3, <2>1, <2>2 DEF Before, Modes
<1> QED BY <1>2, <1>3

\* A node out of Auto that will be in it again is guarded.
LEMMA BeforeMode ==
    ASSUME ModeInv, NEW n \in Nodes
    PROVE  /\ Before(n) \in Modes
           /\ mode[n] = "Auto" => Before(n) = "Auto"
           /\ Before(n) = "Auto" /\ mode[n] # "Auto"
                => guard # NoGuard /\ n \in GuardedNodes /\ guard.before[n] = "Auto"
BY DEF ModeInv, GraphTypeOK, GuardConsistent, Before, Modes

LEMMA InitInv == Init => Inv
<1> SUFFICES ASSUME Init PROVE Inv
  OBVIOUS
<1>1. ModeInv
  BY InitModeInv
<1>2. GraphOK(servers)
  BY ConstantsAssumption, GraphAssumption DEF Init, GraphOK, Possible, Nodes
<1>3. TypeInv
  <2>1. val \in [Leaves -> Points] /\ unseen \subseteq Leaves /\ aborted \subseteq Funcs
    BY DEF Init, Points
  <2>2. cache \in [Funcs -> SUBSET (Leaves \X Points)]
    BY DEF Init
  <2>3. dirty \in [Nodes -> BOOLEAN] /\ inhibit \in BOOLEAN
    BY DEF Init
  <2>4. stack \in Seq(Frames)
    <3> HIDE DEF Frames
    <3> QED BY DEF Init
  <2> QED BY <2>1, <2>2, <2>3, <2>4 DEF TypeInv
<1>4. stack = << >> /\ inhibit = FALSE /\ DOMAIN stack = {} /\ guard = NoGuard
  BY DEF Init
<1>5. OuterVal = val
  BY <1>3, <1>4 DEF OuterVal, TypeInv
<1>6. StackInv
  BY <1>4, <1>5 DEF StackInv, PathInv, OuterInv, InnerInv, SamplerInv
<1>7. CacheInv
  BY DEF Init, CacheInv, Claim, Nodes
<1>8. GuardInv
  BY <1>4 DEF GuardInv
<1> QED BY <1>1, <1>2, <1>3, <1>6, <1>7, <1>8 DEF Inv

\* What n depends on and is aborted depends on nothing that n does not.
LEMMA AbortedReached ==
    ASSUME NEW srv, srv \in [Funcs -> SUBSET Nodes], NEW l, NEW open \in SUBSET Nodes,
           NEW n \in Nodes, NEW m \in Deps(srv, n) \cap Reached(srv, {l}, open)
    PROVE  l \in Deps(srv, n)
<1>1. l \in Deps(srv, m)
  BY ReachedDown
<1> QED BY <1>1, DepsTransitive

\* Setting a parameter only adds flags, and gives one to all in Auto that depends
\* on it.
LEMMA FlagsOfClients ==
    ASSUME Inv, NEW l \in Leaves, NEW v
    PROVE  /\ Flags(l, v, FALSE) \in [Nodes -> BOOLEAN]
           /\ \A n \in Nodes : dirty[n] => Flags(l, v, FALSE)[n]
           /\ \A f \in Funcs : val[l] # v /\ mode[f] = "Auto" /\ l \in Deps(servers, f)
                                 => Flags(l, v, FALSE)[f]
<1> DEFINE open == {m \in Nodes : mode[m] = "Auto"}
           hit == Reached(servers, {l}, open)
<1>1. Flags(l, v, FALSE) = [n \in Nodes |-> dirty[n] \/ (val[l] # v /\ n \in hit)]
  BY DEF Flags, Dirtied
<1>2. Funcs \subseteq Nodes /\ dirty \in [Nodes -> BOOLEAN]
  BY DEF Inv, TypeInv, Nodes
<1>3. ASSUME NEW f \in Funcs, mode[f] = "Auto", l \in Deps(servers, f) PROVE f \in hit
  <2>1. /\ servers \in [Funcs -> SUBSET Nodes] /\ GraphOK(servers) /\ Closed(servers, mode)
        /\ \A n \in Nodes : mode[n] \in {"Auto", "ADirty"}
    BY GraphFacts
  <2>2. \A g \in Funcs \cap open : servers[g] \subseteq open
    BY <2>1 DEF Closed
  <2>3. f \in open /\ open \in SUBSET Nodes /\ l \in Nodes
    BY <1>2, <1>3 DEF Nodes
  <2> HIDE DEF open
  <2> QED BY <1>3, <2>1, <2>2, <2>3, ReachedUp
<1> HIDE DEF hit
<1> QED BY <1>1, <1>2, <1>3, Zenon

\* A parameter that is set takes the claims from all that depends on it.
LEMMA SetValTakesClaims ==
    ASSUME Inv, NEW l \in Leaves, NEW v, SetVal(l, v), NEW f \in Funcs, Claim(f)'
    PROVE  l \notin Deps(servers, f) /\ Claim(f)
<1> DEFINE open == {m \in Nodes : mode[m] = "Auto"}
           hit == Reached(servers, {l}, open)
<1>0. /\ servers' = servers /\ mode' = mode /\ guard' = guard /\ f \in Nodes /\ inhibit = FALSE
      /\ servers \in [Funcs -> SUBSET Nodes] /\ ModeInv /\ GuardInv
  BY GraphFacts, IdleFacts DEF SetVal, graph, Inv, Nodes
<1>1. /\ val[l] # v /\ dirty' = Flags(l, v, FALSE)
      /\ unseen' = CASE guard = NoGuard -> unseen \ {l}
                     [] guard # NoGuard /\ guard.kind = "fit" -> unseen
                     [] OTHER -> unseen \cup {l}
      /\ aborted' = aborted \ hit
  BY <1>0 DEF SetVal, Dirtied
<1>2. Before(f)' = Before(f) /\ Before(f) = "Auto"
  BY <1>0 DEF Before, Claim
<1>3. Deps(servers, f)' = Deps(servers, f) /\ ~Excluded(f)' /\ ~dirty'[f]
  BY <1>0 DEF Claim
<1>4. ~dirty[f]
  BY <1>0, <1>1, <1>3, FlagsOfClients, Zenon
<1>5. l \notin Deps(servers, f)
  <2>1. CASE mode[f] = "Auto"
    BY <1>1, <1>3, <2>1, FlagsOfClients, Zenon
  <2>2. CASE mode[f] # "Auto"
    <3>1. guard # NoGuard /\ f \in GuardedNodes /\ guard.before[f] = "Auto"
      BY <1>0, <1>2, <2>2, BeforeMode
    <3>2. guard.kind # "fit"
      BY <1>0, <1>4, <3>1 DEF GuardInv
    <3>3. unseen' = unseen \cup {l}
      BY <1>1, <3>1, <3>2
    <3> QED BY <1>0, <1>3, <3>3 DEF Excluded
  <2> QED BY <2>1, <2>2
<1>6. ~Excluded(f)
  <2>1. ASSUME NEW m \in Deps(servers, f), m \in unseen PROVE m \in unseen'
    BY <1>1, <1>5, <2>1
  <2>2. ASSUME NEW m \in Deps(servers, f), m \in aborted PROVE m \in aborted'
    <3>1. m \notin hit
      BY <1>0, <1>5, AbortedReached
    <3> QED BY <1>1, <2>2, <3>1
  <2> QED BY <1>0, <1>3, <2>1, <2>2 DEF Excluded
<1> QED BY <1>2, <1>4, <1>5, <1>6 DEF Claim

\* setVal keeps the invariant,
LEMMA SetValInv ==
    ASSUME Inv, NEW l \in Leaves, NEW v \in Values, SetVal(l, v)
    PROVE  Inv'
<1>0. /\ stack = << >> /\ inhibit = FALSE /\ OuterVal = val /\ Moved = {} /\ Flagged = {}
  BY IdleFacts DEF SetVal
<1>1. /\ val[l] # v /\ dirty' = Flags(l, v, FALSE) /\ UNCHANGED graph /\ v \in Points
      /\ unseen' = CASE guard = NoGuard -> unseen \ {l}
                     [] guard # NoGuard /\ guard.kind = "fit" -> unseen
                     [] OTHER -> unseen \cup {l}
      /\ aborted' \subseteq aborted
      /\ cache' = cache /\ inhibit' = inhibit /\ stack' = stack
  BY <1>0 DEF SetVal, Points
<1>2. servers' = servers /\ mode' = mode /\ guard' = guard /\ servers \in [Funcs -> SUBSET Nodes]
  BY <1>1, GraphFacts DEF graph
<1>3. val' = [val EXCEPT ![l] = v] /\ val \in [Leaves -> Points]
  BY DEF SetVal, Inv, TypeInv
<1>4. TypeInv'
  <2>1. dirty' \in [Nodes -> BOOLEAN]
    BY <1>1, FlagsOfClients
  <2>2. val' \in [Leaves -> Points] /\ unseen' \subseteq Leaves /\ aborted' \subseteq Funcs
    BY <1>1, <1>3 DEF Inv, TypeInv
  <2> QED BY <1>1, <2>1, <2>2 DEF TypeInv, Inv
<1>5. ModeInv' /\ GraphOK(servers)'
  BY <1>1, <1>2, SameGraph DEF Inv
<1>6. StackInv' /\ OuterVal' = val' /\ Moved' = {} /\ Flagged' = {}
  BY <1>0, <1>1, <1>4, IdleAfter DEF TypeInv
<1>7. CacheInv'
  <2>1. SUFFICES ASSUME NEW f \in Funcs, Claim(f)' PROVE cache'[f] = WorthAt(servers', OuterVal', f)
    BY DEF CacheInv
  <2>2. l \notin Deps(servers, f) /\ Claim(f)
    BY <2>1, SetValTakesClaims
  <2>3. cache[f] = WorthAt(servers, val, f)
    BY <1>0, <2>2 DEF Inv, CacheInv
  <2>4. \A k \in Leaves \cap Deps(servers, f) : val'[k] = val[k]
    BY <1>3, <2>2
  <2>5. WorthAt(servers, val', f) = WorthAt(servers, val, f)
    BY <2>4, WorthSame
  <2> QED BY <1>1, <1>2, <1>6, <2>3, <2>5
<1>8. GuardInv'
  <2>1. SUFFICES ASSUME guard # NoGuard PROVE GuardInv'
    BY <1>2 DEF GuardInv
  <2>2. unseen \subseteq unseen' /\ \A n \in Nodes : dirty[n] => dirty'[n]
    BY <1>1, <2>1, FlagsOfClients
  <2>3. guard.kind \in {"fit", "contour"} /\ (guard.kind = "contour" => l \in unseen')
    BY <1>1, <2>1 DEF Inv, GuardInv
  <2>4. DOMAIN guard.kept = IF guard.kind = "contour" THEN Graph \cap Leaves ELSE {}
    BY <2>1 DEF Inv, GuardInv
  <2>5. ASSUME NEW k \in DOMAIN guard.kept, val'[k] # guard.kept[k] PROVE k \in unseen'
    <3>1. CASE k = l
      BY <2>3, <2>4, <3>1
    <3>2. CASE k # l
      <4>1. val'[k] = val[k]
        BY <1>3, <2>3, <2>4, <3>2
      <4> QED BY <1>0, <2>1, <2>2, <2>5, <4>1 DEF Inv, GuardInv
    <3> QED BY <3>1, <3>2
  <2>6. GuardedNodes' = GuardedNodes
    BY <1>2 DEF GuardedNodes
  <2>7. guard.kind = "fit" => \A f \in GuardedNodes \cap Funcs : guard.before[f] = "Auto" => dirty'[f]
    BY <2>1, <2>2 DEF Inv, GuardInv, Nodes
  <2>8. \A k \in DOMAIN guard.kept : guard.kept[k] \in Points
    BY <2>1 DEF Inv, GuardInv
  <2> QED BY <1>2, <1>6, <2>3, <2>4, <2>5, <2>6, <2>7, <2>8 DEF GuardInv
<1> QED BY <1>4, <1>5, <1>6, <1>7, <1>8 DEF Inv

\* A step between evaluations after which there is no more to be claimed, of the
\* same parameters and the same graph.
LEMMA FewerClaims ==
    ASSUME Inv, Idle, stack' = stack, inhibit' = inhibit, cache' = cache, servers' = servers,
           val' \in [Leaves -> Points],
           \A f \in Funcs : Claim(f)' => Claim(f),
           \A f \in Funcs : \A l \in Leaves \cap Deps(servers, f) : Claim(f)' => val'[l] = val[l]
    PROVE  CacheInv' /\ StackInv' /\ OuterVal' = val'
<1>0. /\ stack = << >> /\ inhibit = FALSE /\ OuterVal = val /\ Moved = {} /\ Flagged = {}
  BY IdleFacts
<1>1. StackInv' /\ OuterVal' = val' /\ Moved' = {} /\ Flagged' = {}
  BY <1>0, IdleAfter
<1>2. SUFFICES ASSUME NEW f \in Funcs, Claim(f)' PROVE cache'[f] = WorthAt(servers', OuterVal', f)
  BY <1>1 DEF CacheInv
<1>3. cache[f] = WorthAt(servers, val, f)
  BY <1>0, <1>2 DEF Inv, CacheInv
<1>4. WorthAt(servers, val', f) = WorthAt(servers, val, f)
  BY <1>2, WorthSame
<1> QED BY <1>1, <1>3, <1>4

\* and so does the begin of a minimization: a fit makes dirty all that it computes.
LEMMA GuardBeginKeeps ==
    ASSUME Inv, NEW kind \in {"fit", "contour"}, GuardBegin(kind)
    PROVE  Inv'
<1> DEFINE open == {m \in Nodes : mode[m] = "Auto"}
           hit == Reached(servers, Graph \cap Leaves, open)
<1>0. /\ stack = << >> /\ inhibit = FALSE /\ OuterVal = val /\ guard = NoGuard
  BY IdleFacts DEF GuardBegin
<1>1. /\ val' = val /\ servers' = servers /\ cache' = cache /\ inhibit' = inhibit /\ stack' = stack
      /\ guard' = Guard(kind, GuardedNodes)
      /\ mode' = [n \in Nodes |-> IF n \in GuardedNodes THEN "ADirty" ELSE mode[n]]
      /\ dirty' = [n \in Nodes |-> dirty[n] \/ n \in Synchronized(kind)]
      /\ unseen' = unseen \ Synchronized(kind) /\ aborted' = aborted \ Synchronized(kind)
  BY DEF GuardBegin
<1>2. Synchronized(kind) = IF kind = "fit" THEN hit ELSE {}
  BY DEF Synchronized
<1>3. /\ servers \in [Funcs -> SUBSET Nodes] /\ GraphOK(servers) /\ Closed(servers, mode)
      /\ mode \in [Nodes -> Modes] /\ Funcs \subseteq Nodes /\ Leaves \subseteq Nodes /\ Graph \subseteq Nodes
  BY GraphFacts, ConstantsAssumption DEF Nodes
<1>4. \A n \in Nodes : dirty'[n] <=> dirty[n] \/ n \in Synchronized(kind)
  BY <1>1, Zenon
<1>5. open \in SUBSET Nodes /\ \A g \in Funcs \cap open : servers[g] \subseteq open
  BY <1>3 DEF Closed, Modes
<1>6. ASSUME NEW n \in open, NEW l \in Graph \cap Leaves, l \in Deps(servers, n) PROVE n \in hit
  <2> HIDE DEF open
  <2> QED BY <1>3, <1>5, <1>6, ReachedUp
<1>7. ASSUME NEW n \in hit PROVE \E l \in Graph \cap Leaves : l \in Deps(servers, n)
  <2> HIDE DEF open
  <2> QED BY <1>3, <1>5, ReachedDown
<1>8. TypeInv'
  <2>1. dirty' \in [Nodes -> BOOLEAN]
    BY <1>1, Zenon
  <2> QED BY <1>1, <2>1 DEF Inv, TypeInv
<1>9. guard' # NoGuard => guard'.before = mode
  BY <1>1 DEF Guard
<1>10. ModeInv'
  BY GuardBeginInv DEF Inv
<1>11. ASSUME NEW f \in Funcs, Claim(f)' PROVE Claim(f)
  <2>0. f \in Nodes /\ ModeInv
    BY <1>3 DEF Inv
  <2>1. mode[f] = "Auto"
    <3>1. CASE guard' = NoGuard
      <4>1. mode'[f] = "Auto"
        BY <1>11, <3>1 DEF Claim, Before
      <4> QED BY <1>1, <2>0, <4>1
    <3>2. CASE guard' # NoGuard
      BY <1>9, <1>11, <3>2 DEF Claim, Before
    <3> QED BY <3>1, <3>2
  <2>2. ~dirty'[f] /\ ~Excluded(f)'
    BY <1>11 DEF Claim
  <2>3. ~dirty[f] /\ f \notin Synchronized(kind)
    BY <1>4, <2>0, <2>2, Zenon
  <2>4. ASSUME NEW m \in Deps(servers, f) PROVE m \notin Synchronized(kind)
    <3> SUFFICES ASSUME m \in Synchronized(kind) PROVE FALSE
      OBVIOUS
    <3>1. kind = "fit" /\ m \in hit
      BY <1>2
    <3>2. PICK l \in Graph \cap Leaves : l \in Deps(servers, m)
      BY <1>7, <3>1
    <3>3. l \in Deps(servers, f)
      BY <1>3, <2>0, <3>2, DepsTransitive
    <3>4. f \in open
      BY <2>0, <2>1
    <3>5. f \in hit
      <4> HIDE DEF open, hit
      <4> QED BY <1>6, <3>3, <3>4
    <3> QED BY <1>2, <2>3, <3>1, <3>5
  <2>5. ~Excluded(f)
    BY <1>1, <2>2, <2>4 DEF Excluded
  <2>6. Before(f) = "Auto"
    BY <1>0, <2>1 DEF Before
  <2> QED BY <2>3, <2>5, <2>6 DEF Claim
<1>12. CacheInv' /\ StackInv' /\ OuterVal' = val'
  <2>1. Idle /\ val' \in [Leaves -> Points]
    BY <1>1, <1>8 DEF GuardBegin, TypeInv
  <2>2. \A f \in Funcs : \A l \in Leaves \cap Deps(servers, f) : Claim(f)' => val'[l] = val[l]
    BY <1>1
  <2> QED BY <1>1, <1>11, <2>1, <2>2, FewerClaims
<1>13. GuardInv'
  <2>1. /\ guard'.kind = kind /\ guard'.before = mode
        /\ guard'.kept = [l \in IF kind = "contour" THEN Graph \cap Leaves ELSE {} |-> val[l]]
    BY <1>1 DEF Guard
  <2>2. DOMAIN guard'.kept = IF guard'.kind = "contour" THEN Graph \cap Leaves ELSE {}
    BY <2>1
  <2>3. \A l \in DOMAIN guard'.kept : guard'.kept[l] = val[l] /\ l \in Leaves
    BY <2>1
  <2>4. GuardedNodes' = GuardedNodes
    BY <1>1 DEF GuardedNodes
  <2>5. ASSUME kind = "fit", NEW f \in GuardedNodes \cap Funcs, mode[f] = "Auto" PROVE dirty'[f]
    <3>0. f \in Nodes
      BY <1>3
    <3>1. PICK g \in Graph : g \in Deps(servers, f)
      BY <1>3, ReachedDown DEF GuardedNodes
    <3>2. PICK l \in Graph \cap Leaves : l \in Deps(servers, g)
      BY <1>3, GraphLeaf
    <3>3. l \in Deps(servers, f)
      BY <1>3, <3>0, <3>1, <3>2, DepsTransitive
    <3>4. f \in open
      BY <2>5, <3>0
    <3>5. f \in Synchronized(kind)
      <4> HIDE DEF open, hit
      <4> QED BY <1>2, <1>6, <2>5, <3>3, <3>4
    <3> QED BY <1>4, <3>0, <3>5, Zenon
  <2>6. \A l \in Leaves : val[l] \in Points
    BY DEF Inv, TypeInv
  <2> QED BY <1>1, <1>12, <2>1, <2>2, <2>3, <2>4, <2>5, <2>6 DEF GuardInv
<1> QED BY <1>1, <1>3, <1>8, <1>10, <1>12, <1>13 DEF Inv

\* At the end of a minimization only parameters that are unseen come back.
LEMMA GuardEndKeeps ==
    ASSUME Inv, GuardEnd
    PROVE  Inv'
<1>0. /\ Idle /\ stack = << >> /\ inhibit = FALSE /\ OuterVal = val /\ guard # NoGuard
  BY IdleFacts DEF GuardEnd
<1>1. /\ val' = [l \in Leaves |-> IF l \in DOMAIN guard.kept THEN guard.kept[l] ELSE val[l]]
      /\ mode' = ModesBefore /\ guard' = NoGuard
      /\ UNCHANGED <<servers, cache, dirty, inhibit, stack, unseen, aborted>>
  BY DEF GuardEnd
<1>2. ModeInv' /\ mode' = guard.before
  BY <1>0, <1>1, GuardEndInv DEF Inv
<1>3. \A l \in DOMAIN guard.kept : guard.kept[l] \in Points /\ (val[l] # guard.kept[l] => l \in unseen)
  BY <1>0 DEF Inv, GuardInv
<1>4. val' \in [Leaves -> Points]
  BY <1>1, <1>3 DEF Inv, TypeInv
<1>5. ASSUME NEW f \in Funcs, Claim(f)' PROVE Claim(f)
  BY <1>0, <1>1, <1>2, <1>5 DEF Claim, Before, Excluded
<1>6. ASSUME NEW f \in Funcs, NEW l \in Leaves \cap Deps(servers, f), Claim(f)' PROVE val'[l] = val[l]
  <2>1. l \notin unseen
    BY <1>1, <1>6 DEF Claim, Excluded
  <2> QED BY <1>1, <1>3, <2>1
<1>7. CacheInv' /\ StackInv'
  BY <1>0, <1>1, <1>4, <1>5, <1>6, FewerClaims
<1>8. TypeInv'
  BY <1>1, <1>4 DEF Inv, TypeInv
<1>9. GuardInv'
  BY <1>1 DEF GuardInv
<1> QED BY <1>1, <1>2, <1>7, <1>8, <1>9 DEF Inv

\* Nodes that become always recomputed lose what is claimed of them.
LEMMA ModesKeep ==
    ASSUME Inv, Idle, UNCHANGED <<val, servers, cache, dirty, inhibit, stack, guard, unseen, aborted>>,
           ModeInv', \A n \in Nodes : mode'[n] = mode[n] \/ (guard = NoGuard /\ mode'[n] = "ADirty")
    PROVE  Inv'
<1>1. val' \in [Leaves -> Points] /\ Funcs \subseteq Nodes
  BY DEF Inv, TypeInv, Nodes
<1>2. ASSUME NEW f \in Funcs, Claim(f)' PROVE Claim(f)
  BY <1>1, <1>2 DEF Claim, Before, Excluded
<1>3. CacheInv' /\ StackInv' /\ OuterVal' = val'
  BY <1>1, <1>2, FewerClaims
<1>4. OuterVal = val
  BY IdleFacts
<1>5. TypeInv'
  BY DEF Inv, TypeInv
<1>6. GuardInv'
  BY <1>3, <1>4 DEF Inv, GuardInv, GuardedNodes
<1> QED BY <1>3, <1>5, <1>6 DEF Inv

\* doEval and optimizeCacheMode only change modes.
LEMMA DoEvalKeeps ==
    ASSUME Inv, NEW f \in Batch, DoEval(f)
    PROVE  Inv'
<1>1. ModeInv' /\ mode' = mode
  BY DoEvalInv DEF Inv
<1> QED BY <1>1, ModesKeep DEF DoEval

LEMMA OptimizeCacheModeKeeps ==
    ASSUME Inv, NEW f, NEW o, OptimizeCacheMode(f, o)
    PROVE  Inv'
<1>1. ModeInv' /\ guard = NoGuard
  BY OptimizeCacheModeInv DEF Inv
<1>2. \A n \in Nodes : mode'[n] = mode[n] \/ mode'[n] = "ADirty"
  BY DEF OptimizeCacheMode, MadeADirty
<1> QED BY <1>1, <1>2, ModesKeep DEF OptimizeCacheMode

\* A node that does not depend on f is worth the same when f gets other servers.
LEMMA WorthUnredirected ==
    ASSUME NEW srv, NEW srvNew, GraphOK(srv), GraphOK(srvNew),
           NEW f, \A g \in Funcs \ {f} : srvNew[g] = srv[g],
           NEW v, NEW n \in Nodes, f \notin Deps(srv, n)
    PROVE  Deps(srvNew, n) = Deps(srv, n) /\ WorthAt(srvNew, v, n) = WorthAt(srv, v, n)
<1>0. srv \in [Funcs -> SUBSET Nodes] /\ srvNew \in [Funcs -> SUBSET Nodes] /\ Sampler \in Funcs
  BY ConstantsAssumption DEF GraphOK
<1>1. Deps(srvNew, n) = Deps(srv, n)
  BY <1>0, DepsSame
<1>2. ASSUME Sampler \in Deps(srv, n) PROVE SamplesIn(srvNew) = SamplesIn(srv)
  <2>1. f \notin Deps(srv, Sampler)
    BY <1>0, <1>2, DepsTransitive
  <2>2. Sampler # f /\ srvNew[Sampler] = srv[Sampler]
    BY <1>0, <2>1, DepsSelf DEF Nodes
  <2>3. ASSUME NEW s \in srv[Sampler] PROVE Deps(srvNew, s) = Deps(srv, s)
    <3>1. s \in Nodes /\ Deps(srv, s) \subseteq Deps(srv, Sampler)
      BY <1>0, DepsOfFunction
    <3> QED BY <1>0, <2>1, <3>1, DepsSame
  <2> QED BY <2>2, <2>3 DEF SamplesIn
<1> QED BY <1>1, <1>2 DEF WorthAt

\* A redirection takes the claims from all that depends on the client.
LEMMA RedirectKeeps ==
    ASSUME Inv, NEW r \in Redirections, Redirect(r[1], r[2], r[3])
    PROVE  Inv'
<1> DEFINE f == r[1]
           srv == [servers EXCEPT ![f] = (@ \ {r[2]}) \cup {r[3]}]
           open == {m \in Nodes : mode'[m] = "Auto"}
           hit == Reached(srv, {f}, open)
<1>0. /\ Idle /\ stack = << >> /\ inhibit = FALSE /\ OuterVal = val /\ guard = NoGuard
      /\ Moved = {} /\ Flagged = {}
  BY IdleFacts DEF Redirect
<1>1. /\ r[2] \in servers[f] /\ servers' = srv
      /\ mode' = IF mode[r[3]] = "ADirty" THEN MadeADirty(srv, {f}) ELSE mode
      /\ UNCHANGED <<val, cache, inhibit, stack, guard, unseen>>
  BY DEF Redirect
<1>2. /\ dirty' = [n \in Nodes |-> dirty[n] \/ n \in hit]
      /\ aborted' = aborted \ hit
  BY <1>0, <1>1 DEF Redirect
<1>3. f \in Funcs /\ r[3] \in Nodes /\ r[3] \in Possible(f)
      /\ (f = Sampler => r[2] # Sampled /\ r[3] \in Funcs) /\ r \in Funcs \X Nodes \X Nodes
  BY ConstantsAssumption, GraphAssumption DEF Nodes, Possible
<1>4. /\ servers \in [Funcs -> SUBSET Nodes] /\ GraphOK(servers) /\ Funcs \subseteq Nodes
      /\ mode \in [Nodes -> Modes]
  BY GraphFacts
<1> HIDE DEF f
<1>5. /\ srv \in [Funcs -> SUBSET Nodes] /\ srv[f] = (servers[f] \ {r[2]}) \cup {r[3]}
      /\ \A g \in Funcs \ {f} : srv[g] = servers[g]
  BY <1>3, <1>4
<1> HIDE DEF srv
<1>6. GraphOK(srv)
  <2>1. \A g \in Funcs : srv[g] \subseteq Possible(g) /\ (g \in Graph => srv[g] # {})
    BY <1>3, <1>4, <1>5 DEF GraphOK
  <2>2. \E pdf \in Funcs : srv[Sampler] = {pdf, Sampled}
    <3>1. PICK pdf \in Funcs : servers[Sampler] = {pdf, Sampled}
      BY <1>4 DEF GraphOK
    <3>2. CASE f = Sampler
      <4>1. r[2] = pdf
        BY <1>1, <1>3, <3>1, <3>2
      <4>2. pdf # Sampled
        BY ConstantsAssumption
      <4>3. srv[Sampler] = {r[3], Sampled}
        BY <1>5, <3>1, <3>2, <4>1, <4>2
      <4> QED BY <1>3, <3>2, <4>3
    <3>3. CASE f # Sampler
      BY <1>5, <3>1, <3>3, ConstantsAssumption
    <3> QED BY <3>2, <3>3
  <2> QED BY <1>5, <2>1, <2>2 DEF GraphOK
<1>7. ModeInv'
  BY <1>3, RedirectInv DEF Inv, f
<1>8. /\ mode' \in [Nodes -> Modes] /\ Closed(srv, mode')
  BY <1>1, <1>7 DEF ModeInv, GraphTypeOK
<1>9. open \in SUBSET Nodes /\ \A g \in Funcs \cap open : srv[g] \subseteq open
  BY <1>5, <1>8 DEF Closed, Modes
<1>10. ASSUME NEW n \in open, f \in Deps(srv, n) PROVE n \in hit
  <2> HIDE DEF open
  <2> QED BY <1>6, <1>9, <1>10, ReachedUp
<1>11. ASSUME NEW n \in hit PROVE f \in Deps(srv, n)
  <2> HIDE DEF open
  <2> QED BY <1>5, <1>9, ReachedDown
<1>12. \A n \in Nodes : dirty'[n] <=> dirty[n] \/ n \in hit
  <2> HIDE DEF hit
  <2> QED BY <1>2, Zenon
<1> HIDE DEF hit, open
\* Modes only become ADirty.
<1>13. \A n \in Nodes : mode'[n] = "Auto" => mode[n] = "Auto"
  BY <1>1, <1>4 DEF MadeADirty
<1>14. ASSUME NEW n \in Funcs, Claim(n)' PROVE Claim(n) /\ f \notin Deps(srv, n) /\ f \notin Deps(servers, n)
  <2>0. n \in Nodes
    BY <1>4
  <2>1. mode'[n] = "Auto" /\ ~dirty'[n] /\ ~Excluded(n)'
    BY <1>0, <1>1, <1>14 DEF Claim, Before
  <2>2. ~dirty[n] /\ n \notin hit
    BY <1>12, <2>0, <2>1, Zenon
  <2>3. n \in open
    BY <2>0, <2>1 DEF open
  <2>4. f \notin Deps(srv, n)
    BY <1>10, <2>2, <2>3
  <2>5. Deps(servers, n) = Deps(srv, n)
    BY <1>4, <1>5, <2>0, <2>4, DepsSame
  <2>6. ASSUME NEW m \in Deps(srv, n) PROVE m \notin hit
    <3>1. Deps(srv, m) \subseteq Deps(srv, n)
      BY <1>5, <2>0, DepsTransitive
    <3> QED BY <1>11, <2>4, <3>1
  <2>7. ~Excluded(n)
    BY <1>1, <1>2, <2>1, <2>5, <2>6 DEF Excluded
  <2> QED BY <1>0, <1>13, <2>0, <2>1, <2>2, <2>4, <2>5, <2>7 DEF Claim, Before
<1>15. TypeInv'
  <2>1. dirty' \in [Nodes -> BOOLEAN]
    <3> HIDE DEF hit
    <3> QED BY <1>2, Zenon
  <2>2. aborted' \subseteq Funcs
    BY <1>2 DEF Inv, TypeInv
  <2> QED BY <1>1, <2>1, <2>2 DEF Inv, TypeInv
<1>16. StackInv' /\ OuterVal' = val' /\ Moved' = {} /\ Flagged' = {}
  BY <1>0, <1>1, <1>15, IdleAfter DEF TypeInv
<1>17. CacheInv'
  <2>1. SUFFICES ASSUME NEW n \in Funcs, Claim(n)' PROVE cache'[n] = WorthAt(servers', OuterVal', n)
    BY DEF CacheInv
  <2>2. cache[n] = WorthAt(servers, val, n)
    BY <1>0, <1>14, <2>1 DEF Inv, CacheInv
  <2>3. WorthAt(srv, val, n) = WorthAt(servers, val, n)
    BY <1>4, <1>5, <1>6, <1>14, <2>1, WorthUnredirected
  <2> QED BY <1>1, <1>16, <2>2, <2>3
<1>18. GuardInv'
  BY <1>0, <1>1 DEF GuardInv
<1> QED BY <1>1, <1>6, <1>7, <1>15, <1>16, <1>17, <1>18 DEF Inv

-----------------------------------------------------------------------------
(* Calls in progress *)

\* The calls in progress are of distinct functions.
LEMMA StackFacts ==
    ASSUME Inv
    PROVE  /\ stack \in Seq(Frames) /\ Len(stack) \in Nat /\ DOMAIN stack = 1..Len(stack)
           /\ stack # << >> => Len(stack) > 0
           /\ \A i \in 1..Len(stack) : stack[i] \in Frames /\ Node(i) \in Funcs /\ Node(i) \in Nodes /\ Node(i) \notin Leaves
           /\ \A i, j \in 1..Len(stack) : i # j => Node(i) # Node(j)
<1>1. stack \in Seq(Frames)
  BY DEF Inv, TypeInv
<1> HIDE DEF Frames
<1>2. Len(stack) \in Nat /\ DOMAIN stack = 1..Len(stack)
  BY <1>1
<1>3. \A i \in 1..Len(stack) : stack[i] \in Frames
  BY <1>1
<1>4. stack # << >> => Len(stack) > 0
  BY <1>1
<1>5. \A i \in 1..Len(stack) : Node(i) \in Funcs /\ Node(i) \in Nodes /\ Node(i) \notin Leaves
  BY <1>3, ConstantsAssumption DEF Frames, Node, Nodes
<1>6. ASSUME NEW i \in 1..Len(stack), NEW j \in 1..Len(stack), i < j PROVE Node(i) # Node(j)
  <2>1. Node(i) \notin Deps(servers, Node(j))
    BY <1>2, <1>6 DEF Inv, StackInv, PathInv
  <2> QED BY <1>5, <2>1, DepsSelf
<1>7. \A i, j \in 1..Len(stack) : i # j => Node(i) # Node(j)
  BY <1>2, <1>6
<1> QED BY <1>1, <1>2, <1>3, <1>4, <1>5, <1>7

\* A function that the last call needs is not itself being computed.
LEMMA NotOnStack ==
    ASSUME Inv, stack # << >>, NEW s \in servers[Node(Len(stack))], s \in Nodes
    PROVE  \A i \in 1..Len(stack) : /\ Node(i) \notin Deps(servers, s) /\ Node(i) # s
                                    /\ s \in Deps(servers, Node(i))
<1> DEFINE L == Len(stack)
<1>0. /\ L \in 1..L /\ L \in Nat /\ DOMAIN stack = 1..L
      /\ \A i \in 1..L : Node(i) \in Funcs /\ Node(i) \in Nodes
      /\ servers \in [Funcs -> SUBSET Nodes] /\ GraphOK(servers)
  BY StackFacts, GraphFacts
<1> SUFFICES ASSUME NEW i \in 1..L PROVE Node(i) \notin Deps(servers, s) /\ s \in Deps(servers, Node(i))
  BY DepsSelf
<1>1. s \in Deps(servers, Node(L)) /\ Deps(servers, s) \subseteq Deps(servers, Node(L))
  <2>1. Node(L) \in Deps(servers, Node(L))
    BY <1>0, DepsSelf
  <2>2. s \in Deps(servers, Node(L))
    BY <1>0, <2>1, DepsServers
  <2> QED BY <1>0, <2>2, DepsTransitive
<1>2. CASE i = L
  <2>1. Node(L) \notin Deps(servers, s)
    BY <1>0, NoCycle
  <2> QED BY <1>1, <1>2, <2>1
<1>3. CASE i # L
  <2>0. i \in DOMAIN stack /\ L \in DOMAIN stack /\ i < L
    <3>1. L \in Nat /\ i \in 1..L /\ L \in 1..L /\ DOMAIN stack = 1..L
      BY <1>0
    <3> HIDE DEF L
    <3> QED BY <1>3, <3>1
  <2>1. Node(L) \in Deps(servers, Node(i)) /\ Node(i) \notin Deps(servers, Node(L))
    <3> HIDE DEF L
    <3> QED BY <2>0 DEF Inv, StackInv, PathInv
  <2>2. Deps(servers, Node(L)) \subseteq Deps(servers, Node(i))
    BY <1>0, <2>1, DepsTransitive
  <2> QED BY <1>1, <2>1, <2>2
<1> QED BY <1>2, <1>3

\* The sampler is in progress once.
LEMMA InnerFacts ==
    ASSUME Inv
    PROVE  /\ \A i \in 1..Len(stack) : Inner(i) <=> \E k \in 1..(i - 1) : Node(k) = Sampler
           /\ \A i \in 1..Len(stack) : Node(i) = Sampler => ~Inner(i) /\ inhibit
           /\ \A i \in 1..Len(stack) : Inner(i) => inhibit
           /\ \A i, j \in 1..Len(stack) : Inner(i) /\ i <= j => Inner(j)
           /\ inhibit => \E k \in 1..Len(stack) : Node(k) = Sampler
<1>0. /\ Len(stack) \in Nat /\ DOMAIN stack = 1..Len(stack)
      /\ \A i, j \in 1..Len(stack) : i # j => Node(i) # Node(j)
  BY StackFacts
<1>1. inhibit <=> \E k \in DOMAIN stack : Node(k) = Sampler
  BY DEF Inv, StackInv, PathInv
<1>2. \A i \in 1..Len(stack) : Inner(i) <=> \E k \in 1..(i - 1) : Node(k) = Sampler
  BY <1>0 DEF Inner
<1>3. \A i \in 1..Len(stack) : Node(i) = Sampler => ~Inner(i) /\ inhibit
  BY <1>0, <1>1, <1>2
<1>4. \A i \in 1..Len(stack) : Inner(i) => inhibit
  BY <1>0, <1>1, <1>2
<1>5. \A i, j \in 1..Len(stack) : Inner(i) /\ i <= j => Inner(j)
  BY <1>0, <1>2
<1>6. inhibit => \E k \in 1..Len(stack) : Node(k) = Sampler
  BY <1>0, <1>1
<1> QED BY <1>2, <1>3, <1>4, <1>5, <1>6

\* While the sampler has not moved its observable, the parameters are as they are.
LEMMA OuterValFacts ==
    ASSUME Inv
    PROVE  /\ OuterVal \in [Leaves -> Points]
           /\ ~Started => val = OuterVal
           /\ \A l \in Leaves \ {Sampled} : OuterVal[l] = val[l]
<1>0. /\ Len(stack) \in Nat /\ DOMAIN stack = 1..Len(stack) /\ (stack # << >> => Len(stack) > 0)
      /\ \A i \in 1..Len(stack) : stack[i] \in Frames
  BY StackFacts
<1>1. OuterVal \in [Leaves -> Points] /\ \A l \in Leaves \ {Sampled} : OuterVal[l] = val[l]
  <2>1. val \in [Leaves -> Points]
    BY DEF Inv, TypeInv
  <2>2. stack # << >> => stack[1].oldX \in Points
    BY <1>0 DEF Frames
  <2> QED BY <2>1, <2>2 DEF OuterVal
<1>2. ASSUME ~Started PROVE val = OuterVal
  <2>1. CASE inhibit
    <3>1. PICK k \in 1..Len(stack) : Node(k) = Sampler
      BY <2>1, InnerFacts
    <3>2. stack[k].points = Samples
      BY <1>0, <1>2, <3>1 DEF Started
    <3>3. PICK pdf \in servers[Sampler] \ {Sampled} : TRUE
      BY GraphFacts, Density
    <3>4. PICK n \in 0..Len(Samples) : \E m : SamplerAt(k, pdf, n, m)
      BY <1>0, <3>1, <3>3 DEF Inv, StackInv, SamplerInv
    <3>5. Samples = SubSeq(Samples, n + 1, Len(Samples))
      BY <3>2, <3>4 DEF SamplerAt
    <3>6. n = 0
      <4> DEFINE S == {Samples[i] : i \in DOMAIN Samples}
      <4>1. Samples \in Seq(S)
        BY GraphAssumption
      <4> HIDE DEF S
      <4>2. Len(Samples) \in Nat /\ n \in Nat /\ n <= Len(Samples)
        BY <4>1
      <4>3. Len(SubSeq(Samples, n + 1, Len(Samples))) = Len(Samples) - n
        BY <4>1, <4>2, SubSeqProperties
      <4> QED BY <3>5, <4>2, <4>3
    <3> QED BY <3>4, <3>6 DEF SamplerAt
  <2>2. CASE ~inhibit
    BY <2>2 DEF Inv, StackInv, SamplerInv
  <2> QED BY <2>1, <2>2
<1> QED BY <1>1, <1>2

\* The call of n is added to those in progress; the last one keeps its value so far
\* and need not ask for n again.
Pushed(L, n) ==
      /\ L = Len(stack)
      /\ stack' \in Seq(Frames) /\ Len(stack') = L + 1 /\ stack'[L + 1] = Frame(n)
      /\ \A i \in 1..L : i < L => stack'[i] = stack[i]
      /\ L > 0 => /\ stack'[L].node = stack[L].node /\ stack'[L].oldX = stack[L].oldX
                  /\ stack'[L].flagged = stack[L].flagged
                  /\ stack'[L].left = stack[L].left \ {n} /\ stack'[L].acc = stack[L].acc
      /\ inhibit' = (inhibit \/ n = Sampler)
      /\ n \in Funcs /\ (L > 0 => n \in servers[Node(L)])
      /\ L = 0 /\ guard # NoGuard => n \in Graph
      /\ UNCHANGED <<cache, unseen, aborted, graph>>

\* What a new call leaves of the others,
LEMMA PushedFacts ==
    ASSUME Inv, NEW L, NEW n, Pushed(L, n)
    PROVE  /\ DOMAIN stack' = 1..(L + 1) /\ DOMAIN stack = 1..L /\ L \in Nat
           /\ \A i \in 1..L : Node(i)' = Node(i) /\ (Inner(i)' <=> Inner(i)) /\ Node(i) # n
                                       /\ stack'[i].flagged = stack[i].flagged
                                       /\ stack'[i].oldX = stack[i].oldX
                                       /\ stack'[i].acc = stack[i].acc
                                       /\ stack'[i].left \subseteq stack[i].left
           /\ \A i \in 1..L : i < L => Node(i + 1)' = Node(i + 1)
           /\ Node(L + 1)' = n /\ n \in Funcs /\ n \in Nodes
           /\ Inner(L + 1)' <=> inhibit
           /\ stack'[L + 1].oldX = val[Sampled]
<1>0. /\ L \in Nat /\ DOMAIN stack = 1..L /\ (stack # << >> => L > 0)
      /\ \A i \in 1..L : stack[i] \in Frames /\ Node(i) \in Funcs
      /\ servers \in [Funcs -> SUBSET Nodes]
  BY StackFacts, GraphFacts DEF Pushed
<1>1. /\ stack' \in Seq(Frames) /\ Len(stack') = L + 1 /\ stack'[L + 1] = Frame(n)
      /\ \A i \in 1..L : i < L => stack'[i] = stack[i]
      /\ L > 0 => /\ stack'[L].node = stack[L].node /\ stack'[L].oldX = stack[L].oldX
                  /\ stack'[L].flagged = stack[L].flagged
                  /\ stack'[L].left = stack[L].left \ {n} /\ stack'[L].acc = stack[L].acc
      /\ n \in Funcs /\ (L > 0 => n \in servers[Node(L)])
  BY DEF Pushed
<1>2. DOMAIN stack' = 1..(L + 1)
  <2> HIDE DEF Frames
  <2> QED BY <1>0, <1>1
<1>3. n \in Nodes
  BY <1>1 DEF Nodes
<1>4. \A i \in 1..L : Node(i) # n
  <2>1. CASE L > 0
    <3>1. stack # << >> /\ L = Len(stack)
      BY <2>1 DEF Pushed
    <3> QED BY <1>1, <1>3, <2>1, <3>1, NotOnStack
  <2>2. CASE ~(L > 0)
    <3> QED BY <1>0, <2>2
  <2> QED BY <2>1, <2>2
<1>5. ASSUME NEW i \in 1..L
      PROVE  /\ Node(i)' = Node(i) /\ stack'[i].flagged = stack[i].flagged /\ stack'[i].oldX = stack[i].oldX
             /\ stack'[i].acc = stack[i].acc /\ stack'[i].left \subseteq stack[i].left
  <2>1. CASE i < L
    BY <1>1, <2>1 DEF Node
  <2>2. CASE i = L
    BY <1>0, <1>1, <2>2 DEF Node
  <2> QED BY <1>0, <2>1, <2>2
<1>6. Node(L + 1)' = n /\ stack'[L + 1].oldX = val[Sampled]
  BY <1>1 DEF Node, Frame
<1>7. ASSUME NEW i \in 1..L PROVE Inner(i)' <=> Inner(i)
  <2>1. \A k \in 1..L : k \in DOMAIN stack /\ k \in DOMAIN stack'
    BY <1>0, <1>2
  <2>2. Inner(i)' <=> \E k \in 1..L : k < i /\ Node(k)' = Sampler
    BY <1>0, <1>2 DEF Inner
  <2>3. Inner(i) <=> \E k \in 1..L : k < i /\ Node(k) = Sampler
    BY <1>0 DEF Inner
  <2> QED BY <1>5, <2>2, <2>3
<1>8. Inner(L + 1)' <=> inhibit
  <2>1. Inner(L + 1)' <=> \E k \in 1..L : Node(k)' = Sampler
    BY <1>0, <1>2 DEF Inner
  <2>2. inhibit <=> \E k \in 1..L : Node(k) = Sampler
    BY <1>0 DEF Inv, StackInv, PathInv
  <2> QED BY <1>5, <2>1, <2>2
<1>9. \A i \in 1..L : i < L => Node(i + 1)' = Node(i + 1)
  BY <1>0, <1>5
<1> QED BY <1>0, <1>1, <1>2, <1>3, <1>4, <1>5, <1>6, <1>7, <1>8, <1>9

\* and that they remain a path.
LEMMA PushedPath ==
    ASSUME Inv, NEW L, NEW n, Pushed(L, n)
    PROVE  PathInv'
<1>0. /\ L \in Nat /\ DOMAIN stack = 1..L /\ DOMAIN stack' = 1..(L + 1)
      /\ n \in Funcs /\ n \in Nodes /\ Node(L + 1)' = n
  BY PushedFacts
<1>a. \A i \in 1..L : /\ Node(i)' = Node(i) /\ (Inner(i)' <=> Inner(i)) /\ Node(i) # n
                      /\ stack'[i].flagged = stack[i].flagged /\ stack'[i].oldX = stack[i].oldX
                      /\ stack'[i].left \subseteq stack[i].left
  BY PushedFacts
<1>b. servers \in [Funcs -> SUBSET Nodes] /\ servers' = servers
  BY GraphFacts DEF Pushed, graph
<1>c. /\ \A i \in 1..L : i < L => stack'[i] = stack[i]
      /\ stack'[L + 1] = Frame(n) /\ inhibit' = (inhibit \/ n = Sampler)
      /\ L > 0 => n \in servers[Node(L)] /\ stack'[L].left = stack[L].left \ {n}
  BY DEF Pushed
<1>d. (Inner(L + 1)' <=> inhibit) /\ stack'[L + 1].oldX = val[Sampled]
  BY PushedFacts
<1>e. L > 0 => \A i \in 1..L : /\ Node(i) \notin Deps(servers, n) /\ n \in Deps(servers, Node(i))
  <2>1. (L > 0 => stack # << >>) /\ L = Len(stack)
    BY DEF Pushed
  <2> QED BY <1>0, <1>c, <2>1, NotOnStack
<1>f. PathInv
  BY DEF Inv, StackInv
<1>g. \A i \in 1..L : i \in 1..(L + 1) /\ L > 0
  <2> QED BY <1>0
<1>h. \A i \in 1..(L + 1) : i \in 1..L \/ i = L + 1
  <2> QED BY <1>0
<1>i. inhibit \/ val[Sampled] = OuterVal[Sampled]
  BY <1>f DEF Inv, StackInv, SamplerInv
<1>j. L > 0 => OuterVal[Sampled] = stack[1].oldX
  BY ConstantsAssumption DEF OuterVal, Pushed
<1>1. ASSUME NEW i \in 1..(L + 1)
      PROVE  stack'[i].left \subseteq servers[Node(i)'] /\ (Node(i)' = Sampler => stack'[i].left = {})
  <2>1. CASE i \in 1..L
    <3>1. stack[i].left \subseteq servers[Node(i)] /\ (Node(i) = Sampler => stack[i].left = {})
      BY <1>0, <1>f, <2>1 DEF PathInv
    <3> QED BY <1>a, <2>1, <3>1
  <2>2. CASE i = L + 1
    BY <1>0, <1>c, <2>2 DEF Frame
  <2> QED BY <1>h, <2>1, <2>2
<1>2. ASSUME NEW i \in 1..(L + 1), NEW j \in 1..(L + 1), i < j
      PROVE  Node(j)' \in Deps(servers, Node(i)') /\ Node(i)' \notin Deps(servers, Node(j)')
  <2>1. i \in 1..L
    BY <1>0, <1>2
  <2>2. CASE j \in 1..L
    <3>1. Node(j) \in Deps(servers, Node(i)) /\ Node(i) \notin Deps(servers, Node(j))
      BY <1>0, <1>f, <1>2, <2>1, <2>2 DEF PathInv
    <3> QED BY <1>a, <2>1, <2>2, <3>1
  <2>3. CASE j = L + 1
    <3>1. Node(i) \notin Deps(servers, n) /\ n \in Deps(servers, Node(i))
      BY <1>e, <1>g, <2>1
    <3> QED BY <1>0, <1>a, <2>1, <2>3, <3>1
  <2> QED BY <1>h, <2>2, <2>3
<1>3. ASSUME NEW i \in 1..(L + 1), i + 1 \in 1..(L + 1)
      PROVE  Node(i + 1)' \in servers[Node(i)'] \ stack'[i].left
  <2>1. i \in 1..L
    BY <1>0, <1>3
  <2>2. CASE i < L
    <3>1. i + 1 \in 1..L
      BY <1>0, <2>1, <2>2
    <3>2. Node(i + 1) \in servers[Node(i)] \ stack[i].left
      BY <1>0, <1>f, <2>1, <3>1 DEF PathInv
    <3> QED BY <1>a, <2>1, <3>1, <3>2
  <2>3. CASE i = L
    BY <1>0, <1>a, <1>c, <1>g, <2>1, <2>3
  <2> QED BY <1>0, <2>1, <2>2, <2>3
<1>4. inhibit' <=> \E k \in 1..(L + 1) : Node(k)' = Sampler
  <2>1. inhibit <=> \E k \in 1..L : Node(k) = Sampler
    BY <1>0, <1>f DEF PathInv
  <2>2. (\E k \in 1..(L + 1) : Node(k)' = Sampler) <=> (\E k \in 1..L : Node(k) = Sampler) \/ n = Sampler
    BY <1>0, <1>a, <1>g, <1>h
  <2> QED BY <1>c, <2>1, <2>2
<1>5. ASSUME NEW i \in 1..(L + 1), Inner(i)' PROVE ~stack'[i].flagged
  <2>1. CASE i \in 1..L
    BY <1>0, <1>a, <1>f, <1>5, <2>1 DEF PathInv
  <2>2. CASE i = L + 1
    <3>1. inhibit /\ stack'[i] = Frame(n)
      BY <1>c, <1>d, <1>5, <2>2
    <3>2. Frame(n).flagged = (n \notin Densities /\ mode[n] = "Auto" /\ ~inhibit)
      BY DEF Frame, ClearedFirst
    <3> QED BY <3>1, <3>2, Zenon
  <2> QED BY <1>h, <2>1, <2>2
<1>6. ASSUME NEW i \in 1..(L + 1), ~Inner(i)' PROVE stack'[i].oldX = stack'[1].oldX
  <2>1. CASE i \in 1..L
    <3>1. 1 \in 1..L
      BY <1>0, <2>1
    <3>2. stack[i].oldX = stack[1].oldX
      BY <1>0, <1>a, <1>f, <1>6, <2>1 DEF PathInv
    <3> QED BY <1>a, <2>1, <3>1, <3>2
  <2>2. CASE i = L + 1
    <3>1. CASE L > 0
      <4>1. 1 \in 1..L
        BY <1>0, <3>1
      <4>2. stack'[1].oldX = stack[1].oldX
        BY <1>a, <4>1
      <4> QED BY <1>d, <1>i, <1>j, <1>6, <2>2, <3>1, <4>2
    <3>2. CASE ~(L > 0)
      <4>1. i = 1
        BY <1>0, <2>2, <3>2
      <4> QED BY <4>1
    <3> QED BY <3>1, <3>2
  <2> QED BY <1>h, <2>1, <2>2
<1>7. ASSUME guard' # NoGuard, NEW i \in 1..(L + 1) PROVE Node(i)' \in Graph
  <2>1. guard # NoGuard /\ \A k \in 1..L : Node(k) \in Graph
    BY <1>0, <1>f, <1>7 DEF Pushed, graph, PathInv
  <2>2. CASE i \in 1..L
    BY <1>a, <2>1, <2>2
  <2>3. CASE i = L + 1
    <3>1. CASE L > 0
      <4>1. L \in 1..L
        BY <1>0, <3>1
      <4>2. Node(L) \in Graph \cap Funcs
        BY <2>1, <4>1, StackFacts DEF Pushed
      <4>3. servers[Node(L)] \subseteq Graph
        BY <4>2, GraphAssumption, GraphFacts DEF GraphOK
      <4> QED BY <1>0, <1>c, <2>3, <3>1, <4>3
    <3>2. CASE ~(L > 0)
      <4>1. L = 0
        BY <1>0, <3>2
      <4> QED BY <1>0, <2>1, <2>3, <4>1 DEF Pushed
    <3> QED BY <3>1, <3>2
  <2> QED BY <1>h, <2>2, <2>3
<1> QED BY <1>0, <1>b, <1>1, <1>2, <1>3, <1>4, <1>5, <1>6, <1>7 DEF PathInv

\* A call that begins takes nothing that is claimed, and promises nothing but of n.
LEMMA PushedClaims ==
    ASSUME Inv, NEW L, NEW n, Pushed(L, n),
           dirty' \in [Nodes -> BOOLEAN], \A f \in Nodes \ {n} : dirty'[f] = dirty[f],
           dirty' = dirty \/ Frame(n).flagged,
           val' \in [Leaves -> Points], val' = val \/ L > 0,
           \A l \in Leaves \ {Sampled} : val'[l] = val[l],
           Started => Started'
    PROVE  /\ TypeInv' /\ ModeInv' /\ GraphOK(servers)' /\ servers' = servers
           /\ \A f \in Nodes : Before(f)' = Before(f) /\ (Excluded(f)' <=> Excluded(f))
           /\ OuterVal' = OuterVal /\ CacheInv'
<1>0. /\ servers' = servers /\ mode' = mode /\ guard' = guard /\ cache' = cache
      /\ unseen' = unseen /\ aborted' = aborted /\ inhibit' = (inhibit \/ n = Sampler)
      /\ stack' \in Seq(Frames) /\ n \in Funcs /\ L = Len(stack) /\ stack'[L + 1] = Frame(n)
  BY DEF Pushed, graph
<1>a. /\ L \in Nat /\ DOMAIN stack = 1..L /\ DOMAIN stack' = 1..(L + 1)
      /\ n \in Funcs /\ n \in Nodes /\ Node(L + 1)' = n /\ stack'[L + 1].oldX = val[Sampled]
  BY PushedFacts
<1>b. \A i \in 1..L : /\ Node(i)' = Node(i) /\ Node(i) # n
                      /\ stack'[i].flagged = stack[i].flagged /\ stack'[i].oldX = stack[i].oldX
  BY PushedFacts
<1>1. TypeInv'
  BY <1>0 DEF Inv, TypeInv
<1>2. ModeInv' /\ GraphOK(servers)'
  <2>1. UNCHANGED graph
    BY DEF Pushed
  <2>2. ModeInv'
    BY <2>1, SameGraph DEF Inv
  <2> QED BY <1>0, <2>2 DEF Inv
<1>3. ASSUME NEW f \in Nodes PROVE Before(f)' = Before(f) /\ (Excluded(f)' <=> Excluded(f))
  BY <1>0 DEF Before, Excluded
<1>4. ASSUME NEW f \in Nodes \ {n} PROVE Claim(f)' <=> Claim(f)
  <2>1. dirty'[f] = dirty[f] /\ mode'[f] = mode[f] /\ guard' = guard
    BY <1>0
  <2> QED BY <1>3, <2>1 DEF Claim
<1>5. OuterVal' = OuterVal
  <2>0. Sampled \in Leaves /\ val \in [Leaves -> Points] /\ stack \in Seq(Frames)
    BY GraphFacts DEF Inv, TypeInv
  <2>1. stack' # << >>
    BY <1>a
  <2>2. CASE L > 0
    <3>1. 1 \in 1..L
      BY <1>a, <2>2
    <3>2. stack # << >> /\ stack'[1].oldX = stack[1].oldX
      BY <1>a, <1>b, <3>1
    <3> QED BY <2>1, <3>2 DEF OuterVal
  <2>3. CASE ~(L > 0)
    <3>1. L = 0 /\ val' = val
      BY <1>a, <2>3
    <3>2. stack = << >>
      BY <1>0, <2>0, <3>1, EmptySeq
    <3>3. stack'[1].oldX = val[Sampled]
      BY <1>a, <3>1
    <3> QED BY <2>1, <3>1, <3>2, <3>3 DEF OuterVal
  <2> QED BY <2>2, <2>3
<1>6. CacheInv'
  <2>1. SUFFICES ASSUME NEW f \in Funcs, Claim(f)', f \notin Flagged', f \notin Moved'
                 PROVE  cache'[f] = WorthAt(servers', OuterVal', f)
    BY DEF CacheInv
  <2>2. f \in Nodes
    BY DEF Nodes
  <2>3. f \notin Flagged
    <3> SUFFICES ASSUME f \in Flagged PROVE FALSE
      OBVIOUS
    <3>1. PICK k \in 1..L : stack[k].flagged /\ f = Node(k)
      BY <1>a DEF Flagged
    <3>2. k \in DOMAIN stack' /\ f = Node(k)'
      BY <1>a, <1>b, <3>1
    <3>3. stack'[k].flagged
      BY <1>b, <3>1, Zenon
    <3> QED BY <2>1, <3>2, <3>3 DEF Flagged
  <2>4. f \notin Moved
    BY <1>0, <2>1 DEF Moved
  <2>5. Claim(f)
    <3>1. CASE f = n
      <4>1. ~Frame(n).flagged
        <5>1. L + 1 \in DOMAIN stack' /\ Node(L + 1)' = n
          BY <1>a
        <5>2. ~stack'[L + 1].flagged
          BY <2>1, <3>1, <5>1 DEF Flagged
        <5> QED BY <1>0, <5>2, Zenon
      <4>2. dirty' = dirty
        BY <4>1
      <4> QED BY <1>3, <2>1, <2>2, <4>2 DEF Claim
    <3>2. CASE f # n
      BY <1>4, <2>1, <2>2, <3>2
    <3> QED BY <3>1, <3>2
  <2> QED BY <1>0, <1>5, <2>3, <2>4, <2>5 DEF Inv, CacheInv
<1> QED BY <1>0, <1>1, <1>2, <1>3, <1>4, <1>5, <1>6

\* The sum of no servers.
LEMMA SumOfNone == \A srv, v : Sum(srv, v, {}) = {}
BY DEF Sum

\* getVal of n, by the program or by the last call in progress, which needs n.
LEMMA EnterKeeps ==
    ASSUME Inv, NEW L, NEW n, Pushed(L, n), val' = val,
           dirty' = IF ClearedFirst(n) THEN [dirty EXCEPT ![n] = FALSE] ELSE dirty,
           L > 0 => n \in stack[L].left /\ stack'[L].points = stack[L].points
    PROVE  Inv'
<1>0. /\ servers' = servers /\ mode' = mode /\ guard' = guard /\ cache' = cache
      /\ unseen' = unseen /\ aborted' = aborted /\ inhibit' = (inhibit \/ n = Sampler)
      /\ stack' \in Seq(Frames) /\ n \in Funcs /\ L = Len(stack) /\ stack'[L + 1] = Frame(n)
      /\ \A i \in 1..L : i < L => stack'[i] = stack[i]
      /\ L > 0 => stack'[L].acc = stack[L].acc /\ stack'[L].left = stack[L].left \ {n}
  BY DEF Pushed, graph
<1>a. /\ L \in Nat /\ DOMAIN stack = 1..L /\ DOMAIN stack' = 1..(L + 1)
      /\ n \in Funcs /\ n \in Nodes /\ Node(L + 1)' = n
      /\ Inner(L + 1)' <=> inhibit
  BY PushedFacts
<1>b. \A i \in 1..L : /\ Node(i)' = Node(i) /\ Node(i) # n /\ (Inner(i)' <=> Inner(i))
                      /\ stack'[i].acc = stack[i].acc
                      /\ i < L => Node(i + 1)' = Node(i + 1)
  BY PushedFacts
<1>c. dirty' \in [Nodes -> BOOLEAN] /\ \A f \in Nodes \ {n} : dirty'[f] = dirty[f]
  BY DEF Inv, TypeInv
<1>d. dirty' = dirty \/ Frame(n).flagged
  <2>1. Frame(n).flagged = ClearedFirst(n)
    BY DEF Frame
  <2> QED BY <2>1, Zenon
<1>e. val \in [Leaves -> Points] /\ PathInv /\ GraphOK(servers)
  BY DEF Inv, TypeInv, StackInv
<1>f. ASSUME NEW i \in 1..L PROVE stack'[i].points = stack[i].points
  <2>1. CASE i < L
    BY <1>0, <2>1
  <2>2. CASE i = L
    BY <1>a, <2>2
  <2> QED BY <1>a, <2>1, <2>2
<1>g. Started => Started'
  <2> SUFFICES ASSUME Started PROVE Started'
    OBVIOUS
  <2>1. PICK k \in 1..L : Node(k) = Sampler /\ stack[k].points # Samples
    BY <1>a DEF Started
  <2>2. k \in DOMAIN stack' /\ Node(k)' = Sampler /\ stack'[k].points # Samples
    BY <1>a, <1>b, <1>f, <2>1
  <2> QED BY <2>2 DEF Started
<1>1. /\ TypeInv' /\ ModeInv' /\ GraphOK(servers)'
      /\ \A f \in Nodes : Before(f)' = Before(f) /\ (Excluded(f)' <=> Excluded(f))
      /\ OuterVal' = OuterVal /\ CacheInv'
  BY <1>c, <1>d, <1>e, <1>g, PushedClaims
<1>2. PathInv'
  BY PushedPath
<1>3. ASSUME NEW i \in 1..L PROVE Done(i)' = Done(i)
  <2>1. CASE i < L
    <3>1. i + 1 \in DOMAIN stack /\ i + 1 \in DOMAIN stack'
      BY <1>a, <2>1
    <3> QED BY <1>0, <1>b, <2>1, <3>1 DEF Done
  <2>2. CASE i = L
    <3>1. L + 1 \in DOMAIN stack' /\ ~(L + 1 \in DOMAIN stack) /\ L > 0
      BY <1>a, <2>2
    <3>2. Done(i) = servers[Node(i)] \ stack[i].left
      BY <2>2, <3>1 DEF Done
    <3>3. Done(i)' = (servers[Node(i)] \ (stack[i].left \ {n})) \ {n}
      BY <1>0, <1>a, <1>b, <2>2, <3>1 DEF Done
    <3>4. n \in stack[i].left
      BY <2>2, <3>1
    <3> QED BY <3>2, <3>3, <3>4
  <2> QED BY <1>a, <2>1, <2>2
<1>4. n # Sampler => stack'[L + 1].acc = {} /\ Done(L + 1)' = {}
  <2>1. ~(L + 1 + 1 \in DOMAIN stack')
    BY <1>a
  <2> QED BY <1>0, <1>a, <2>1 DEF Frame, Done
<1>5. ASSUME L > 0, ~Excluded(Node(L)) PROVE ~Excluded(n)'
  <2>1. Node(L) \in Funcs /\ n \in servers[Node(L)]
    BY <1>a, <1>5, StackFacts DEF Pushed
  <2>2. servers \in [Funcs -> SUBSET Nodes] /\ Node(L) \in Nodes /\ Node(L) \in Deps(servers, Node(L))
    BY <2>1, GraphFacts, DepsSelf DEF Nodes
  <2>3. n \in Deps(servers, Node(L))
    BY <2>1, <2>2, DepsServers
  <2>4. Deps(servers, n) \subseteq Deps(servers, Node(L))
    BY <2>2, <2>3, DepsTransitive
  <2> QED BY <1>1, <1>5, <1>a, <2>4 DEF Excluded
<1>6. OuterInv'
  <2>1. SUFFICES ASSUME NEW i \in 1..(L + 1), ~Inner(i)', Node(i)' # Sampler, ~Excluded(Node(i))'
                 PROVE  /\ stack'[i].acc = Sum(servers, OuterVal, Done(i)')
                        /\ i + 1 \in 1..(L + 1) => ~Excluded(Node(i + 1))'
    BY <1>0, <1>1, <1>a DEF OuterInv
  <2>2. CASE i \in 1..L
    <3>1. /\ Node(i) \in Nodes \ {n} /\ ~Inner(i) /\ Node(i) # Sampler
      BY <1>b, <2>1, <2>2, StackFacts, <1>0
    <3>2. ~Excluded(Node(i))
      BY <1>0, <1>1, <1>b, <2>1, <2>2, <3>1 DEF Excluded
    <3>3. /\ stack[i].acc = Sum(servers, OuterVal, Done(i))
          /\ i + 1 \in 1..L => ~Excluded(Node(i + 1))
      BY <1>a, <2>2, <3>1, <3>2 DEF Inv, StackInv, OuterInv
    <3>4. stack'[i].acc = Sum(servers, OuterVal, Done(i)')
      BY <1>3, <1>b, <2>2, <3>3
    <3>5. ASSUME i < L PROVE ~Excluded(Node(i + 1))'
      <4>1. i + 1 \in 1..L
        BY <1>a, <2>2, <3>5
      <4>2. Node(i + 1) \in Nodes \ {n} /\ Node(i + 1)' = Node(i + 1)
        BY <1>0, <1>b, <4>1, StackFacts
      <4>3. ~Excluded(Node(i + 1))
        BY <3>3, <4>1
      <4> QED BY <1>0, <1>1, <4>2, <4>3 DEF Excluded
    <3>6. ASSUME i = L PROVE ~Excluded(Node(i + 1))'
      <4>1. L > 0
        BY <1>a, <2>2
      <4>2. ~Excluded(n)'
        BY <1>5, <3>2, <3>6, <4>1
      <4>3. Node(i + 1)' = n
        BY <1>a, <3>6
      <4> QED BY <4>2, <4>3 DEF Excluded
    <3> QED BY <1>a, <2>2, <3>4, <3>5, <3>6
  <2>3. CASE i = L + 1
    <3>1. ~(i + 1 \in 1..(L + 1))
      BY <1>a, <2>3
    <3> QED BY <1>4, <1>a, <2>1, <2>3, <3>1, SumOfNone
  <2> QED BY <1>a, <2>2, <2>3
<1>7. InnerInv'
  <2>1. SUFFICES ASSUME NEW i \in 1..(L + 1), Inner(i)'
                 PROVE  stack'[i].acc = Sum(servers, val, Done(i)') /\ \A s \in Done(i)' : SubCurrent(s)
    BY <1>0, <1>1, <1>a DEF InnerInv, SubCurrent
  <2>2. CASE i \in 1..L
    <3>1. Inner(i)
      BY <1>b, <2>1, <2>2
    <3>2. stack[i].acc = Sum(servers, val, Done(i)) /\ \A s \in Done(i) : SubCurrent(s)
      BY <1>a, <2>2, <3>1 DEF Inv, StackInv, InnerInv
    <3> QED BY <1>3, <1>b, <2>2, <3>2
  <2>3. CASE i = L + 1
    <3>1. n # Sampler
      <4>1. inhibit
        BY <1>a, <2>1, <2>3
      <4>2. PICK k \in 1..L : Node(k) = Sampler
        BY <1>0, <4>1, InnerFacts
      <4> QED BY <1>b, <4>2
    <3> QED BY <1>4, <2>3, <3>1, SumOfNone
  <2> QED BY <1>a, <2>2, <2>3
<1>8. SamplerInv'
  <2>1. ~inhibit => val = OuterVal
    BY DEF Inv, StackInv, SamplerInv
  <2>2. ASSUME NEW i \in 1..(L + 1), NEW pdf \in servers[Sampler] \ {Sampled}, Node(i)' = Sampler
        PROVE  \E k \in 0..Len(Samples) :
                 IF i + 1 \in 1..(L + 1)
                 THEN k > 0 /\ SamplerAt(i, pdf, k, k - 1)'
                 ELSE SamplerAt(i, pdf, k, k)' /\ (k > 0 => SubCurrent(pdf)')
    <3>1. CASE i \in 1..L
      <4>1. Node(i) = Sampler
        BY <1>b, <2>2, <3>1
      <4>2. i < L
        <5>1. i = L => stack[i].left = {}
          BY <1>a, <1>e, <3>1, <4>1 DEF PathInv
        <5> QED BY <1>a, <3>1, <5>1
      <4>3. i + 1 \in 1..L /\ i + 1 \in 1..(L + 1)
        BY <1>a, <3>1, <4>2
      <4>4. PICK k \in 0..Len(Samples) : k > 0 /\ SamplerAt(i, pdf, k, k - 1)
        BY <1>a, <2>2, <3>1, <4>1, <4>3 DEF Inv, StackInv, SamplerInv
      <4>5. stack'[i] = stack[i]
        BY <1>0, <3>1, <4>2
      <4>6. SamplerAt(i, pdf, k, k - 1)'
        BY <1>0, <1>1, <4>4, <4>5 DEF SamplerAt
      <4> QED BY <4>3, <4>4, <4>6
    <3>2. CASE i = L + 1
      <4>1. n = Sampler /\ ~(i + 1 \in 1..(L + 1))
        BY <1>a, <2>2, <3>2
      <4>2. ~inhibit
        <5> SUFFICES ASSUME inhibit PROVE FALSE
          OBVIOUS
        <5>1. PICK k \in 1..L : Node(k) = Sampler
          BY <1>0, InnerFacts
        <5> QED BY <1>b, <4>1, <5>1
      <4>3. /\ stack'[i].points = Samples
            /\ stack'[i].acc = {<<Sampled, val[Sampled]>>}
        BY <1>0, <3>2, <4>1 DEF Frame
      <4>4. Samples = SubSeq(Samples, 0 + 1, Len(Samples)) /\ Len(Samples) \in Nat
        <5> DEFINE S == {Samples[k] : k \in DOMAIN Samples}
        <5>1. Samples \in Seq(S)
          BY GraphAssumption
        <5> HIDE DEF S
        <5> QED BY <5>1, SubSeqFull
      <4>5. 1..0 = {}
        OBVIOUS
      <4>6. SamplerAt(i, pdf, 0, 0)'
        BY <1>1, <2>1, <4>2, <4>3, <4>4, <4>5 DEF SamplerAt, SampledWorth
      <4> QED BY <4>1, <4>4, <4>6
    <3> QED BY <1>a, <3>1, <3>2
  <2> QED BY <1>0, <1>1, <1>a, <2>1, <2>2 DEF SamplerInv
<1>9. GuardInv'
  <2>1. ASSUME guard # NoGuard, NEW f \in GuardedNodes \cap Funcs PROVE dirty'[f] = dirty[f]
    <3>1. mode[f] = "ADirty" /\ f \in Nodes
      BY <2>1 DEF Inv, ModeInv, GuardConsistent, Nodes
    <3>2. CASE f = n
      BY <3>1, <3>2 DEF ClearedFirst
    <3>3. CASE f # n
      BY <1>c, <3>1, <3>3
    <3> QED BY <3>2, <3>3
  <2>2. GuardedNodes' = GuardedNodes
    BY <1>0 DEF GuardedNodes
  <2>3. SUFFICES ASSUME guard # NoGuard PROVE GuardInv'
    BY <1>0 DEF GuardInv
  <2>4. /\ guard.kind \in {"fit", "contour"}
        /\ DOMAIN guard.kept = IF guard.kind = "contour" THEN Graph \cap Leaves ELSE {}
        /\ \A l \in DOMAIN guard.kept : guard.kept[l] \in Points /\ (OuterVal[l] # guard.kept[l] => l \in unseen)
    BY <2>3 DEF GuardInv, Inv
  <2>5. guard.kind = "fit" => \A f \in GuardedNodes \cap Funcs : guard.before[f] = "Auto" => dirty'[f]
    BY <2>1, <2>3 DEF GuardInv, Inv
  <2> QED BY <1>0, <1>1, <2>2, <2>4, <2>5 DEF GuardInv
<1> QED BY <1>1, <1>2, <1>6, <1>7, <1>8, <1>9 DEF Inv, StackInv

\* The sampler has at least one point.
LEMMA SamplesType ==
    /\ Samples \in Seq(Points) /\ Len(Samples) \in Nat /\ Len(Samples) > 0
    /\ DOMAIN Samples = 1..Len(Samples) /\ \A j \in DOMAIN Samples : Samples[j] \in Points
<1> DEFINE S == {Samples[k] : k \in DOMAIN Samples}
<1>1. Samples \in Seq(S) /\ Samples # << >>
  BY GraphAssumption
<1>2. S \subseteq Points
  BY DEF Points
<1>3. \A j \in DOMAIN Samples : Samples[j] \in Points
  BY DEF Points
<1> HIDE DEF S
<1>4. Len(Samples) \in Nat /\ DOMAIN Samples = 1..Len(Samples) /\ Len(Samples) > 0
  BY <1>1, EmptySeq, LenProperties
<1>5. Samples \in Seq(Points)
  BY <1>1, <1>2, SeqMonotonic
<1> QED BY <1>3, <1>4, <1>5

LEMMA FrameType ==
    ASSUME Inv, NEW n \in Funcs
    PROVE  Frame(n) \in Frames
<1>1. /\ val \in [Leaves -> Points] /\ servers \in [Funcs -> SUBSET Nodes] /\ Sampled \in Leaves
  BY GraphFacts DEF Inv, TypeInv
<1>2. << >> \in Seq(Points)
  OBVIOUS
<1>3. ClearedFirst(n) \in BOOLEAN
  BY DEF ClearedFirst
<1> HIDE DEF Points
<1>4. (IF n = Sampler THEN Samples ELSE << >>) \in Seq(Points)
  BY <1>2, SamplesType
<1>5. (IF n = Sampler THEN {<<Sampled, val[Sampled]>>} ELSE {}) \in SUBSET (Leaves \X Points)
  BY <1>1
<1>6. (IF n = Sampler THEN {} ELSE servers[n]) \in SUBSET Nodes
  BY <1>1
<1> QED BY <1>1, <1>3, <1>4, <1>5, <1>6 DEF Frame, Frames

\* The program asks for a value.
LEMMA GetValKeeps ==
    ASSUME Inv, NEW f \in Funcs, GetVal(f)
    PROVE  Inv'
<1>1. stack = << >> /\ inhibit = FALSE
  BY IdleFacts DEF GetVal
<1>2. /\ dirty' = IF ClearedFirst(f) THEN [dirty EXCEPT ![f] = FALSE] ELSE dirty
      /\ stack' = Append(stack, Frame(f)) /\ (guard # NoGuard => f \in Graph)
      /\ inhibit' = (inhibit \/ f = Sampler) /\ val' = val
      /\ UNCHANGED <<cache, unseen, aborted, graph>>
  BY DEF GetVal, Enter
<1>3. Frame(f) \in Frames
  BY FrameType
<1> HIDE DEF Frames
<1>4. stack' \in Seq(Frames) /\ Len(stack') = 0 + 1 /\ stack'[0 + 1] = Frame(f) /\ Len(stack) = 0
  BY <1>1, <1>2, <1>3
<1>5. Pushed(0, f)
  BY <1>2, <1>4 DEF Pushed
<1>6. 0 > 0 => f \in stack[0].left /\ stack'[0].points = stack[0].points
  OBVIOUS
<1> QED BY <1>2, <1>5, <1>6, EnterKeeps, Zenon

\* The next server of the last call, and the call without it.
LEMMA TopFacts ==
    ASSUME Inv, ~Idle
    PROVE  \E L \in Nat \ {0} :
             /\ L = Len(stack) /\ DOMAIN stack = 1..L /\ stack \in Seq(Frames) /\ stack # << >>
             /\ Top = stack[L] /\ Top \in Frames /\ Top.node = Node(L) /\ Node(L) \in Funcs
             /\ Top.left \subseteq servers[Node(L)] /\ (Node(L) = Sampler => Top.left = {})
<1>1. stack # << >>
  BY DEF Idle
<1>2. /\ Len(stack) \in Nat \ {0} /\ DOMAIN stack = 1..Len(stack) /\ stack \in Seq(Frames)
      /\ Len(stack) \in 1..Len(stack) /\ stack[Len(stack)] \in Frames /\ Node(Len(stack)) \in Funcs
  BY <1>1, StackFacts
<1>3. Top = stack[Len(stack)] /\ Top.node = Node(Len(stack))
  BY DEF Top, Node
<1>4. Top.left \subseteq servers[Node(Len(stack))] /\ (Node(Len(stack)) = Sampler => Top.left = {})
  BY <1>2, <1>3 DEF Inv, StackInv, PathInv
<1> QED BY <1>1, <1>2, <1>3, <1>4

\* A call needs the value of a server that has to be computed.
LEMMA EvaluateServerKeeps ==
    ASSUME Inv, EvaluateServer
    PROVE  Inv'
<1> DEFINE s == NextServer
<1>1. /\ ~Idle /\ Top.left # {} /\ s \in Funcs
      /\ dirty' = IF ClearedFirst(s) THEN [dirty EXCEPT ![s] = FALSE] ELSE dirty
      /\ stack' = Append(WithTop(WithoutServer), Frame(s))
      /\ inhibit' = (inhibit \/ s = Sampler)
      /\ val' = val /\ UNCHANGED <<cache, unseen, aborted, graph>>
  BY DEF EvaluateServer, Enter
<1>2. PICK L \in Nat \ {0} :
             /\ L = Len(stack) /\ DOMAIN stack = 1..L /\ stack \in Seq(Frames)
             /\ Top = stack[L] /\ Top \in Frames /\ Top.node = Node(L) /\ Node(L) \in Funcs
             /\ Top.left \subseteq servers[Node(L)]
  BY <1>1, TopFacts
<1>3. s \in Top.left
  BY <1>1 DEF NextServer
<1> DEFINE fr == [Top EXCEPT !.left = @ \ {s}]
<1>4. /\ fr \in Frames /\ fr.node = Top.node /\ fr.oldX = Top.oldX /\ fr.flagged = Top.flagged
      /\ fr.left = Top.left \ {s} /\ fr.acc = Top.acc /\ fr.points = Top.points
  <2> HIDE DEF s
  <2> QED BY <1>2 DEF Frames
<1>5. WithTop(WithoutServer) = [stack EXCEPT ![L] = fr]
  BY <1>2 DEF WithTop, WithoutServer
<1>6. Frame(s) \in Frames
  BY <1>1, FrameType
<1> HIDE DEF Frames, fr, s
<1>7. /\ [stack EXCEPT ![L] = fr] \in Seq(Frames) /\ Len([stack EXCEPT ![L] = fr]) = L
      /\ [stack EXCEPT ![L] = fr][L] = fr
      /\ \A i \in 1..L : i < L => [stack EXCEPT ![L] = fr][i] = stack[i]
  BY <1>2, <1>4
<1>8. /\ stack' \in Seq(Frames) /\ Len(stack') = L + 1 /\ stack'[L + 1] = Frame(s) /\ stack'[L] = fr
      /\ \A i \in 1..L : i < L => stack'[i] = stack[i]
  BY <1>1, <1>2, <1>5, <1>6, <1>7
<1>9. Pushed(L, s)
  BY <1>1, <1>2, <1>3, <1>4, <1>8 DEF Pushed
<1>10. s \in stack[L].left /\ stack'[L].points = stack[L].points
  BY <1>2, <1>3, <1>4, <1>8
<1> QED BY <1>1, <1>9, <1>10, EnterKeeps

\* What is left of the points after n of them.
LEMMA PointsLeft ==
    ASSUME NEW n \in 0..Len(Samples), NEW points, points = SubSeq(Samples, n + 1, Len(Samples))
    PROVE  /\ points = << >> <=> n = Len(Samples)
           /\ points # << >> => /\ n + 1 \in 1..Len(Samples) /\ Head(points) = Samples[n + 1]
                                /\ Tail(points) = SubSeq(Samples, n + 2, Len(Samples))
                                /\ Tail(points) # Samples /\ points \in Seq(Points) /\ Tail(points) \in Seq(Points)
<1>1. Samples \in Seq(Points) /\ Len(Samples) \in Nat
  BY SamplesType
<1> HIDE DEF Points
<1>2. n \in Nat /\ n <= Len(Samples)
  BY <1>1
<1>3. points \in Seq(Points) /\ Len(points) = Len(Samples) - n
  BY <1>1, <1>2, SubSeqProperties
<1>4. points = << >> <=> n = Len(Samples)
  <2>1. Len(<< >>) = 0 /\ (points # << >> => Len(points) > 0)
    BY <1>3, EmptySeq
  <2>2. Len(points) = Len(Samples) - n /\ Len(Samples) \in Nat
    BY <1>1, <1>3
  <2>3. ASSUME points = << >> PROVE n = Len(Samples)
    <3>1. Len(points) = 0
      BY <2>1, <2>3
    <3> QED BY <1>2, <2>2, <3>1
  <2>4. ASSUME n = Len(Samples) PROVE points = << >>
    BY <1>2, <2>1, <2>2, <2>4
  <2> QED BY <2>3, <2>4
<1>5. ASSUME points # << >>
      PROVE  /\ n + 1 \in 1..Len(Samples) /\ Head(points) = Samples[n + 1]
             /\ Tail(points) = SubSeq(Samples, n + 2, Len(Samples))
             /\ Tail(points) # Samples /\ Tail(points) \in Seq(Points)
  <2>1. n + 1 \in 1..Len(Samples) /\ Len(Samples) \in (n + 1)..Len(Samples)
    BY <1>1, <1>2, <1>4, <1>5
  <2>2. Head(points) = Samples[n + 1] /\ Tail(points) = SubSeq(Samples, (n + 1) + 1, Len(Samples))
    BY <1>1, <2>1, HeadTailOfSubSeq
  <2>3. (n + 1) + 1 = n + 2
    BY <1>2
  <2>4. Tail(points) \in Seq(Points) /\ Len(Tail(points)) = Len(points) - 1
    BY <1>3, <1>5, HeadTailProperties
  <2>5. Tail(points) # Samples
    <3>1. Len(Tail(points)) # Len(Samples)
      BY <1>1, <1>2, <1>3, <2>4
    <3> QED BY <3>1
  <2>6. Tail(points) = SubSeq(Samples, n + 2, Len(Samples))
    BY <2>2, <2>3
  <2> QED BY <2>1, <2>2, <2>4, <2>5, <2>6
<1> QED BY <1>3, <1>4, <1>5

\* The sampler goes to its next point: from the first on, what is below it is moved.
LEMMA SampleNextKeeps ==
    ASSUME Inv, SampleNext
    PROVE  Inv'
<1>0. /\ ~Idle /\ Top.node = Sampler /\ Top.points # << >>
      /\ val' = [val EXCEPT ![Sampled] = Head(Top.points)]
      /\ UNCHANGED <<cache, dirty, inhibit, unseen, aborted, graph>>
  BY DEF SampleNext
<1>1. PICK pdf \in servers[Sampler] \ {Sampled} :
        stack' = Append(WithTop([Top EXCEPT !.points = Tail(@)]), Frame(pdf))
  BY DEF SampleNext
<1>2. PICK L \in Nat \ {0} :
             /\ L = Len(stack) /\ DOMAIN stack = 1..L /\ stack \in Seq(Frames) /\ stack # << >>
             /\ Top = stack[L] /\ Top \in Frames /\ Top.node = Node(L)
             /\ Top.left \subseteq servers[Node(L)] /\ (Node(L) = Sampler => Top.left = {})
  BY <1>0, TopFacts
<1>3. /\ pdf \in Funcs /\ servers[Sampler] \ {Sampled} = {pdf} /\ pdf # Sampler
      /\ Sampler \notin Deps(servers, pdf) /\ pdf \in servers[Sampler]
      /\ servers \in [Funcs -> SUBSET Nodes]
  BY <1>1, GraphFacts, Density
<1>4. Node(L) = Sampler /\ Top.left = {} /\ inhibit = TRUE /\ L \in 1..L
  BY <1>0, <1>2 DEF Inv, TypeInv, StackInv, PathInv
<1>5. PICK n \in 0..Len(Samples) : SamplerAt(L, pdf, n, n)
  <2>1. ~(L + 1 \in DOMAIN stack) /\ L \in DOMAIN stack
    BY <1>2, <1>4
  <2> QED BY <1>1, <1>4, <2>1 DEF Inv, StackInv, SamplerInv
<1>6. /\ stack[L].points = SubSeq(Samples, n + 1, Len(Samples))
      /\ stack[L].acc = SampledWorth(servers, OuterVal, pdf, n)
      /\ IF n = 0 THEN val = OuterVal ELSE val = [OuterVal EXCEPT ![Sampled] = Samples[n]]
  BY <1>5 DEF SamplerAt
<1>7. /\ n + 1 \in 1..Len(Samples) /\ Head(Top.points) = Samples[n + 1] /\ n \in Nat
      /\ Tail(Top.points) = SubSeq(Samples, (n + 1) + 1, Len(Samples)) /\ Tail(Top.points) # Samples
      /\ Tail(Top.points) \in Seq(Points)
  <2>1. n \in Nat /\ n + 2 = (n + 1) + 1
    BY SamplesType
  <2> QED BY <1>0, <1>2, <1>6, <2>1, PointsLeft
<1> DEFINE fr == [Top EXCEPT !.points = Tail(@)]
<1>8. /\ fr \in Frames /\ fr.node = Top.node /\ fr.oldX = Top.oldX /\ fr.flagged = Top.flagged
      /\ fr.left = Top.left \ {pdf} /\ fr.acc = Top.acc /\ fr.points = Tail(Top.points)
  BY <1>2, <1>4, <1>7 DEF Frames
<1>9. WithTop(fr) = [stack EXCEPT ![L] = fr]
  BY <1>2 DEF WithTop
<1>10. Frame(pdf) \in Frames
  BY <1>3, FrameType
<1> HIDE DEF Frames, fr
<1>11. /\ [stack EXCEPT ![L] = fr] \in Seq(Frames) /\ Len([stack EXCEPT ![L] = fr]) = L
      /\ [stack EXCEPT ![L] = fr][L] = fr
      /\ \A i \in 1..L : i < L => [stack EXCEPT ![L] = fr][i] = stack[i]
  BY <1>2, <1>8
<1>12. stack' = Append([stack EXCEPT ![L] = fr], Frame(pdf))
  BY <1>1, <1>9 DEF fr
<1>13. /\ stack' \in Seq(Frames) /\ Len(stack') = L + 1 /\ stack'[L + 1] = Frame(pdf) /\ stack'[L] = fr
      /\ \A i \in 1..L : i < L => stack'[i] = stack[i]
  BY <1>2, <1>10, <1>11, <1>12
<1>14. Pushed(L, pdf)
  BY <1>0, <1>2, <1>3, <1>4, <1>8, <1>13 DEF Pushed
<1>a. /\ DOMAIN stack' = 1..(L + 1)
      /\ pdf \in Nodes /\ Node(L + 1)' = pdf /\ (Inner(L + 1)' <=> inhibit)
  BY <1>14, PushedFacts
<1>b. \A i \in 1..L : /\ Node(i)' = Node(i) /\ Node(i) # pdf /\ (Inner(i)' <=> Inner(i))
                      /\ stack'[i].acc = stack[i].acc
                      /\ i < L => Node(i + 1)' = Node(i + 1)
  BY <1>14, PushedFacts
<1>c. \A i \in 1..L : ~Inner(i) /\ (i # L => Node(i) # Sampler)
  <2>1. ~Inner(L)
    BY <1>2, <1>4, InnerFacts
  <2>2. ASSUME NEW i \in 1..L PROVE ~Inner(i)
    <3>1. i <= L
      OBVIOUS
    <3> QED BY <1>2, <1>4, <2>1, <3>1, InnerFacts
  <2>3. \A i \in 1..L : i # L => Node(i) # Node(L)
    BY <1>2, <1>4, StackFacts
  <2> QED BY <1>4, <2>2, <2>3
<1>15. /\ TypeInv' /\ ModeInv' /\ GraphOK(servers)' /\ servers' = servers
       /\ \A f \in Nodes : Before(f)' = Before(f) /\ (Excluded(f)' <=> Excluded(f))
       /\ OuterVal' = OuterVal /\ CacheInv'
  <2>1. val' \in [Leaves -> Points] /\ \A l \in Leaves \ {Sampled} : val'[l] = val[l]
    <3>1. Samples[n + 1] \in Points
      BY <1>7, SamplesType
    <3>2. val \in [Leaves -> Points]
      BY DEF Inv, TypeInv
    <3> HIDE DEF Points
    <3> QED BY <1>0, <1>7, <3>1, <3>2
  <2>2. Started'
    <3>1. L \in DOMAIN stack'
      BY <1>a
    <3>2. Node(L)' = Sampler
      BY <1>b, <1>4
    <3>3. stack'[L].points # Samples
      BY <1>7, <1>8, <1>13
    <3> QED BY <3>1, <3>2, <3>3 DEF Started
  <2>3. dirty' = dirty /\ L > 0 /\ dirty' \in [Nodes -> BOOLEAN]
    BY <1>0 DEF Inv, TypeInv
  <2> QED BY <1>14, <2>1, <2>2, <2>3, PushedClaims
<1>16. PathInv'
  BY <1>14, PushedPath
<1>17. OuterInv'
  <2>1. SUFFICES ASSUME NEW i \in 1..(L + 1), ~Inner(i)', Node(i)' # Sampler, ~Excluded(Node(i))'
                 PROVE  /\ stack'[i].acc = Sum(servers, OuterVal, Done(i)')
                        /\ i + 1 \in 1..(L + 1) => ~Excluded(Node(i + 1))'
    BY <1>15, <1>a DEF OuterInv
  <2>2. i \in 1..L /\ i < L /\ i + 1 \in 1..L
    BY <1>a, <1>b, <1>4, <2>1
  <2>3. Node(i) \in Nodes \ {pdf} /\ ~Inner(i) /\ Node(i) # Sampler
    BY <1>b, <1>2, <1>4, <2>1, <2>2, StackFacts
  <2>4. ~Excluded(Node(i))
    BY <1>0, <1>15, <1>b, <2>1, <2>2, <2>3 DEF Excluded, graph
  <2>5. stack[i].acc = Sum(servers, OuterVal, Done(i)) /\ ~Excluded(Node(i + 1))
    BY <1>2, <2>2, <2>3, <2>4 DEF Inv, StackInv, OuterInv
  <2>6. Done(i)' = Done(i)
    <3>1. i + 1 \in DOMAIN stack /\ i + 1 \in DOMAIN stack'
      BY <1>2, <1>a, <2>2
    <3> QED BY <1>13, <1>15, <1>b, <2>2, <3>1 DEF Done
  <2>7. ~Excluded(Node(i + 1))'
    <3>1. Node(i + 1) \in Nodes \ {pdf} /\ Node(i + 1)' = Node(i + 1)
      BY <1>2, <1>b, <2>2, StackFacts
    <3> QED BY <1>0, <1>15, <2>5, <3>1 DEF Excluded, graph
  <2> QED BY <1>b, <2>2, <2>5, <2>6, <2>7
<1>18. InnerInv'
  <2>1. SUFFICES ASSUME NEW i \in 1..(L + 1), Inner(i)'
                 PROVE  stack'[i].acc = Sum(servers', val', Done(i)') /\ \A s \in Done(i)' : SubCurrent(s)'
    BY <1>a DEF InnerInv
  <2>2. i = L + 1
    BY <1>b, <1>c, <2>1
  <2>3. stack'[L + 1].acc = {} /\ Done(L + 1)' = {}
    <3>1. ~(L + 1 + 1 \in DOMAIN stack')
      BY <1>a
    <3> QED BY <1>3, <1>13, <1>15, <1>a, <3>1 DEF Frame, Done
  <2> QED BY <2>2, <2>3, SumOfNone
<1>19. SamplerAt(L, pdf, n + 1, n)'
  <2>1. stack'[L].points = SubSeq(Samples, (n + 1) + 1, Len(Samples))
    BY <1>7, <1>8, <1>13
  <2>2. stack'[L].acc = SampledWorth(servers', OuterVal', pdf, n)
    BY <1>2, <1>6, <1>8, <1>13, <1>15
  <2>3. val' = [OuterVal' EXCEPT ![Sampled] = Samples[n + 1]]
    <3>1. OuterVal \in [Leaves -> Points] /\ val \in [Leaves -> Points]
      BY OuterValFacts DEF Inv, TypeInv
    <3> HIDE DEF Points
    <3> QED BY <1>0, <1>6, <1>7, <1>15, <3>1
  <2>4. n + 1 # 0
    BY <1>7
  <2> QED BY <2>1, <2>2, <2>3, <2>4 DEF SamplerAt
<1>20. SamplerInv'
  <2>1. ASSUME NEW i \in 1..(L + 1), NEW q \in servers[Sampler] \ {Sampled}, Node(i)' = Sampler
        PROVE  \E k \in 0..Len(Samples) :
                 IF i + 1 \in 1..(L + 1)
                 THEN k > 0 /\ SamplerAt(i, q, k, k - 1)'
                 ELSE SamplerAt(i, q, k, k)' /\ (k > 0 => SubCurrent(q)')
    <3>1. i = L
      <4>1. i # L + 1
        BY <1>3, <1>a, <2>1
      <4>2. i \in 1..L
        BY <4>1
      <4>3. Node(i) = Sampler
        BY <1>b, <2>1, <4>2
      <4> QED BY <1>c, <4>2, <4>3
    <3>0. q = pdf
      BY <1>3
    <3>2. i + 1 \in 1..(L + 1) /\ n + 1 \in 0..Len(Samples) /\ n + 1 > 0 /\ (n + 1) - 1 = n
      BY <1>7, <3>1, SamplesType
    <3> QED BY <1>19, <3>0, <3>1, <3>2
  <2>2. inhibit'
    BY <1>0, <1>4
  <2> QED BY <1>15, <1>a, <2>1, <2>2 DEF SamplerInv
<1>21. GuardInv'
  BY <1>0, <1>15 DEF GuardInv, Inv, graph, GuardedNodes
<1> QED BY <1>15, <1>16, <1>17, <1>18, <1>20, <1>21 DEF Inv, StackInv

LEMMA SumUnion == \A srv, v, M, n : Sum(srv, v, M \cup {n}) = Sum(srv, v, M) \cup Of(srv, v, n)
BY DEF Sum

\* In a call that is outside the sampler's, and not the sampler's, the sampler is not
\* at work.
LEMMA TopOuter ==
    ASSUME Inv, NEW L \in 1..Len(stack), L = Len(stack), ~Inner(L), Node(L) # Sampler
    PROVE  inhibit = FALSE /\ val = OuterVal /\ Moved = {} /\ ~Started
           /\ \A i \in 1..L : Node(i) # Sampler /\ ~Inner(i)
<1>1. L \in Nat /\ DOMAIN stack = 1..L
  BY StackFacts
<1>2. ASSUME NEW i \in 1..L PROVE Node(i) # Sampler
  <2>1. CASE i = L
    BY <2>1
  <2>2. CASE i # L
    BY <1>1, <2>2 DEF Inner
  <2> QED BY <2>1, <2>2
<1>3. ~inhibit /\ inhibit \in BOOLEAN
  BY <1>2, InnerFacts DEF Inv, TypeInv
<1>4. ~Started /\ Moved = {}
  BY <1>1, <1>2 DEF Started, Moved
<1>5. \A i \in 1..L : ~Inner(i)
  BY <1>1, <1>2 DEF Inner
<1> QED BY <1>2, <1>3, <1>4, <1>5, OuterValFacts

\* A call takes the value of a server from its cache, or of a parameter.
LEMMA ReadServerKeeps ==
    ASSUME Inv, ReadServer
    PROVE  Inv'
<1> DEFINE s == NextServer
           read == IF s \in Leaves THEN {<<s, val[s]>>} ELSE cache[s]
           fr == [Top EXCEPT !.left = @ \ {s}, !.acc = @ \cup read]
<1>0. /\ ~Idle /\ Top.left # {} /\ (s \in Leaves \/ ~IsValueDirty(s))
      /\ stack' = WithTop([WithoutServer EXCEPT !.acc = @ \cup read])
      /\ val' = val /\ dirty' = dirty /\ UNCHANGED <<cache, inhibit, unseen, aborted, graph>>
  BY DEF ReadServer
<1>1. /\ servers' = servers /\ mode' = mode /\ guard' = guard /\ cache' = cache /\ inhibit' = inhibit
      /\ unseen' = unseen /\ aborted' = aborted
  BY <1>0 DEF graph
<1>2. PICK L \in Nat \ {0} :
             /\ L = Len(stack) /\ DOMAIN stack = 1..L /\ stack \in Seq(Frames) /\ stack # << >>
             /\ Top = stack[L] /\ Top \in Frames /\ Top.node = Node(L) /\ Node(L) \in Funcs
             /\ Top.left \subseteq servers[Node(L)] /\ (Node(L) = Sampler => Top.left = {})
  BY <1>0, TopFacts
<1>3. /\ s \in Top.left /\ s \in servers[Node(L)] /\ s \in Nodes /\ L \in 1..L /\ Node(L) # Sampler
      /\ servers \in [Funcs -> SUBSET Nodes]
  BY <1>0, <1>2, GraphFacts DEF NextServer
<1>4. read \subseteq Leaves \X Points
  <2>1. s \notin Leaves => s \in Funcs
    BY <1>3 DEF Nodes
  <2> HIDE DEF s, Points
  <2> QED BY <2>1 DEF Inv, TypeInv
<1>5. /\ fr \in Frames /\ fr.node = Top.node /\ fr.oldX = Top.oldX /\ fr.flagged = Top.flagged
      /\ fr.left = Top.left \ {s} /\ fr.acc = Top.acc \cup read /\ fr.points = Top.points
  <2> HIDE DEF s, read
  <2> QED BY <1>2, <1>4 DEF Frames
<1>6. stack' = [stack EXCEPT ![L] = fr]
  <2>1. [WithoutServer EXCEPT !.acc = @ \cup read] = fr
    <3> HIDE DEF read
    <3> QED BY <1>2 DEF WithoutServer, Frames
  <2> HIDE DEF fr
  <2> QED BY <1>0, <1>2, <2>1 DEF WithTop
<1> HIDE DEF Frames, fr, s, read
<1>7. /\ stack' \in Seq(Frames) /\ Len(stack') = L /\ DOMAIN stack' = 1..L /\ stack'[L] = fr
      /\ \A i \in 1..L : i # L => stack'[i] = stack[i]
  BY <1>2, <1>5, <1>6
<1>8. ASSUME NEW i \in 1..L
      PROVE  /\ Node(i)' = Node(i) /\ stack'[i].oldX = stack[i].oldX /\ stack'[i].points = stack[i].points
             /\ stack'[i].left \subseteq stack[i].left /\ (stack'[i].flagged = stack[i].flagged)
  <2>1. CASE i = L
    BY <1>2, <1>5, <1>7, <2>1 DEF Node
  <2>2. CASE i # L
    BY <1>7, <2>2 DEF Node
  <2> QED BY <2>1, <2>2
<1>9. \A i \in 1..L : Inner(i)' <=> Inner(i)
  <2>1. \A i \in 1..L : Inner(i)' <=> \E k \in 1..L : k < i /\ Node(k)' = Sampler
    BY <1>7 DEF Inner
  <2>2. \A i \in 1..L : Inner(i) <=> \E k \in 1..L : k < i /\ Node(k) = Sampler
    BY <1>2 DEF Inner
  <2> QED BY <1>8, <2>1, <2>2
<1>10. OuterVal' = OuterVal
  <2>1. 1 \in 1..L /\ stack' # << >>
    BY <1>2, <1>7
  <2>2. stack'[1].oldX = stack[1].oldX
    BY <1>8, <2>1
  <2> QED BY <1>0, <1>2, <2>1, <2>2 DEF OuterVal
<1>11. Flagged' = Flagged /\ Moved' = Moved
  <2>1. Flagged' = {Node(i)' : i \in {k \in 1..L : stack'[k].flagged}}
    BY <1>7 DEF Flagged
  <2>2. Flagged = {Node(i) : i \in {k \in 1..L : stack[k].flagged}}
    BY <1>2 DEF Flagged
  <2>3. {k \in 1..L : stack'[k].flagged} = {k \in 1..L : stack[k].flagged}
    BY <1>8
  <2>4. {Node(i)' : i \in {k \in 1..L : stack[k].flagged}} = {Node(i) : i \in {k \in 1..L : stack[k].flagged}}
    BY <1>8
  <2>5. Started' <=> Started
    BY <1>2, <1>7, <1>8 DEF Started
  <2> QED BY <1>1, <2>1, <2>2, <2>3, <2>4, <2>5 DEF Moved
<1>12. \A f : (Claim(f)' <=> Claim(f)) /\ (~Excluded(f)' <=> ~Excluded(f)) /\ (SubCurrent(f)' <=> SubCurrent(f))
  BY <1>0, <1>1 DEF Claim, Excluded, SubCurrent, Before
<1>13. TypeInv' /\ ModeInv' /\ GraphOK(servers)' /\ GuardInv'
  <2>1. TypeInv'
    BY <1>0, <1>1, <1>7 DEF Inv, TypeInv
  <2>2. ModeInv' /\ GraphOK(servers)'
    BY <1>0, <1>1, SameGraph DEF Inv
  <2>3. GuardInv'
    BY <1>0, <1>1, <1>10 DEF Inv, GuardInv, GuardedNodes
  <2> QED BY <2>1, <2>2, <2>3
<1>14. CacheInv'
  BY <1>1, <1>10, <1>11, <1>12 DEF Inv, CacheInv
<1>p. PathInv
  BY DEF Inv, StackInv
<1>15. PathInv'
  <2>1. ASSUME NEW i \in 1..L
        PROVE  stack'[i].left \subseteq servers[Node(i)'] /\ (Node(i)' = Sampler => stack'[i].left = {})
    BY <1>2, <1>8, <1>p DEF PathInv
  <2>2. ASSUME NEW i \in 1..L, NEW j \in 1..L, i < j
        PROVE  Node(j)' \in Deps(servers, Node(i)') /\ Node(i)' \notin Deps(servers, Node(j)')
    BY <1>2, <1>8, <1>p, <2>2 DEF PathInv
  <2>3. ASSUME NEW i \in 1..L, i + 1 \in 1..L PROVE Node(i + 1)' \in servers[Node(i)'] \ stack'[i].left
    BY <1>2, <1>8, <1>p, <2>3 DEF PathInv
  <2>4. inhibit' <=> \E k \in 1..L : Node(k)' = Sampler
    BY <1>1, <1>2, <1>8, <1>p DEF PathInv
  <2>5. ASSUME NEW i \in 1..L, Inner(i)' PROVE ~stack'[i].flagged
    BY <1>2, <1>8, <1>9, <1>p, <2>5 DEF PathInv
  <2>6. ASSUME NEW i \in 1..L, ~Inner(i)' PROVE stack'[i].oldX = stack'[1].oldX
    <3>1. 1 \in 1..L
      BY <1>2
    <3> QED BY <1>2, <1>8, <1>9, <1>p, <2>6, <3>1 DEF PathInv
  <2>7. guard' # NoGuard => \A i \in 1..L : Node(i)' \in Graph
    BY <1>1, <1>2, <1>8, <1>p DEF PathInv
  <2> QED BY <1>1, <1>7, <2>1, <2>2, <2>3, <2>4, <2>5, <2>6, <2>7 DEF PathInv
<1>16. Done(L)' = Done(L) \cup {s} /\ \A i \in 1..L : i # L => Done(i)' = Done(i)
  <2>1. ~(L + 1 \in DOMAIN stack) /\ ~(L + 1 \in DOMAIN stack')
    BY <1>2, <1>7
  <2>2. Done(L)' = Done(L) \cup {s}
    BY <1>1, <1>2, <1>3, <1>5, <1>7, <1>8, <2>1 DEF Done
  <2>3. ASSUME NEW i \in 1..L, i # L PROVE Done(i)' = Done(i)
    <3>1. i + 1 \in 1..L
      BY <1>2, <2>3
    <3>2. Node(i)' = Node(i) /\ Node(i + 1)' = Node(i + 1) /\ stack'[i] = stack[i]
      BY <1>7, <1>8, <2>3, <3>1
    <3> QED BY <1>1, <1>2, <1>7, <3>1, <3>2 DEF Done
  <2> QED BY <2>2, <2>3
<1>17. ASSUME ~Inner(L), ~Excluded(Node(L)) PROVE read = Of(servers, OuterVal, s)
  <2>1. inhibit = FALSE /\ val = OuterVal /\ Moved = {}
    BY <1>2, <1>3, <1>17, TopOuter
  <2>2. CASE s \in Leaves
    BY <2>1, <2>2 DEF read, Of
  <2>3. CASE s \notin Leaves
    <3>1. s \in Funcs /\ mode[s] = "Auto" /\ ~dirty[s]
      BY <1>0, <1>3, <2>1, <2>3, GraphFacts DEF IsValueDirty, Nodes
    <3>2. Before(s) = "Auto"
      BY <1>3, <3>1, BeforeMode DEF Inv
    <3>3. ~Excluded(s)
      <4>1. Node(L) \in Nodes /\ Node(L) \in Deps(servers, Node(L))
        BY <1>2, DepsSelf DEF Nodes
      <4>2. s \in Deps(servers, Node(L))
        BY <1>2, <1>3, <4>1, DepsServers
      <4>3. Deps(servers, s) \subseteq Deps(servers, Node(L))
        BY <1>3, <4>1, <4>2, DepsTransitive
      <4> QED BY <1>17, <4>3 DEF Excluded
    <3>4. s \notin Flagged
      <4>1. \A i \in 1..L : Node(i) # s
        BY <1>2, <1>3, NotOnStack
      <4> QED BY <1>2, <4>1 DEF Flagged
    <3>5. cache[s] = WorthAt(servers, OuterVal, s)
      BY <2>1, <3>1, <3>2, <3>3, <3>4 DEF Inv, CacheInv, Claim
    <3> QED BY <2>3, <3>5 DEF read, Of
  <2> QED BY <2>2, <2>3
<1>18. ASSUME Inner(L) PROVE s \in Leaves /\ read = Of(servers, val, s) /\ SubCurrent(s)
  <2>1. inhibit
    BY <1>2, <1>3, <1>18, InnerFacts
  <2>2. s \in Leaves
    BY <1>0, <2>1 DEF IsValueDirty
  <2>3. Deps(servers, s) \cap Funcs = {}
    BY <2>2, DepsOfLeaf, ConstantsAssumption
  <2> QED BY <2>2, <2>3 DEF read, Of, SubCurrent
<1>q. stack'[L].acc = stack[L].acc \cup read
  BY <1>2, <1>5, <1>7
<1>19. OuterInv'
  <2>1. SUFFICES ASSUME NEW i \in 1..L, ~Inner(i), Node(i) # Sampler, ~Excluded(Node(i))
                 PROVE  /\ stack'[i].acc = Sum(servers, OuterVal, Done(i)')
                        /\ i + 1 \in 1..L => ~Excluded(Node(i + 1))
    <3>1. \A i \in 1..L : ~Excluded(Node(i))' <=> ~Excluded(Node(i))
      BY <1>0, <1>1, <1>8 DEF Before, Excluded
    <3> QED BY <1>1, <1>7, <1>8, <1>9, <1>10, <3>1 DEF OuterInv
  <2>2. /\ stack[i].acc = Sum(servers, OuterVal, Done(i))
        /\ i + 1 \in 1..L => ~Excluded(Node(i + 1))
    BY <1>2, <2>1 DEF Inv, StackInv, OuterInv
  <2>3. CASE i = L
    <3>1. stack'[L].acc = Sum(servers, OuterVal, Done(L)) \cup Of(servers, OuterVal, s)
      BY <1>q, <1>17, <2>1, <2>2, <2>3
    <3>2. Sum(servers, OuterVal, Done(L)') = Sum(servers, OuterVal, Done(L)) \cup Of(servers, OuterVal, s)
      BY <1>16, SumUnion
    <3>3. ~(i + 1 \in 1..L)
      BY <1>2, <2>3
    <3> QED BY <2>3, <3>1, <3>2, <3>3
  <2>4. CASE i # L
    BY <1>7, <1>16, <2>2, <2>4
  <2> QED BY <2>3, <2>4
<1>20. InnerInv'
  <2>1. SUFFICES ASSUME NEW i \in 1..L, Inner(i)
                 PROVE  stack'[i].acc = Sum(servers, val, Done(i)') /\ \A r \in Done(i)' : SubCurrent(r)
    BY <1>0, <1>1, <1>7, <1>9, <1>12 DEF InnerInv
  <2>2. stack[i].acc = Sum(servers, val, Done(i)) /\ \A r \in Done(i) : SubCurrent(r)
    BY <1>2, <2>1 DEF Inv, StackInv, InnerInv
  <2>3. CASE i = L
    <3>1. stack'[L].acc = Sum(servers, val, Done(L)) \cup Of(servers, val, s)
      BY <1>q, <1>18, <2>1, <2>2, <2>3
    <3>2. Sum(servers, val, Done(L)') = Sum(servers, val, Done(L)) \cup Of(servers, val, s)
      BY <1>16, SumUnion
    <3>3. \A r \in Done(L)' : SubCurrent(r)
      BY <1>16, <1>18, <2>1, <2>2, <2>3
    <3> QED BY <2>3, <3>1, <3>2, <3>3
  <2>4. CASE i # L
    BY <1>7, <1>16, <2>2, <2>4
  <2> QED BY <2>3, <2>4
<1>21. SamplerInv'
  <2>1. ASSUME NEW i \in 1..L, NEW pdf \in servers[Sampler] \ {Sampled}, Node(i)' = Sampler
        PROVE  \E k \in 0..Len(Samples) :
                 IF i + 1 \in 1..L
                 THEN k > 0 /\ SamplerAt(i, pdf, k, k - 1)'
                 ELSE SamplerAt(i, pdf, k, k)' /\ (k > 0 => SubCurrent(pdf)')
    <3>1. Node(i) = Sampler /\ i # L
      BY <1>3, <1>8, <2>1
    <3>2. i + 1 \in 1..L
      BY <1>2, <3>1
    <3>3. PICK k \in 0..Len(Samples) : k > 0 /\ SamplerAt(i, pdf, k, k - 1)
      BY <1>2, <2>1, <3>1, <3>2 DEF Inv, StackInv, SamplerInv
    <3>4. stack'[i] = stack[i]
      BY <1>7, <3>1
    <3>5. SamplerAt(i, pdf, k, k - 1)'
      BY <1>0, <1>1, <1>10, <3>3, <3>4 DEF SamplerAt
    <3> QED BY <3>2, <3>3, <3>5
  <2>2. ~inhibit' => val' = OuterVal'
    BY <1>0, <1>1, <1>10 DEF Inv, StackInv, SamplerInv
  <2> QED BY <1>1, <1>7, <2>1, <2>2 DEF SamplerInv
<1> QED BY <1>13, <1>14, <1>15, <1>19, <1>20, <1>21 DEF Inv, StackInv

\* The last call ends: its value goes into the cache of its node and into the value
\* of the call that needs it.
Popped(L) ==
  /\ L \in Nat \ {0} /\ L = Len(stack) /\ DOMAIN stack = 1..L
  /\ stack' \in Seq(Frames) /\ Len(stack') = L - 1 /\ DOMAIN stack' = 1..(L - 1)
  /\ \A i \in 1..(L - 1) :
       /\ Node(i)' = Node(i) /\ stack'[i].left = stack[i].left /\ stack'[i].oldX = stack[i].oldX
       /\ stack'[i].points = stack[i].points /\ stack'[i].flagged = stack[i].flagged
       /\ stack'[i].acc = IF i = L - 1 THEN stack[i].acc \cup stack[L].acc ELSE stack[i].acc
  /\ cache' = [cache EXCEPT ![Node(L)] = stack[L].acc]
  /\ servers' = servers /\ mode' = mode /\ guard' = guard
  /\ \A i \in 1..(L - 1) : stack[i].acc \subseteq Leaves \X Points /\ i \in 1..L /\ (i < L - 1 => i + 1 \in 1..(L - 1))

\* Leave is such a step.
LEMMA LeaveIsPopped ==
    ASSUME Inv, ~Idle, NEW flags, Leave(flags), UNCHANGED graph
    PROVE  \E L \in Nat \ {0} :
             /\ Popped(L) /\ Node(L) = Top.node
             /\ dirty' = IF Node(L) \in Densities THEN [flags EXCEPT ![Node(L)] = FALSE] ELSE flags
<1>1. PICK L \in Nat \ {0} :
             /\ L = Len(stack) /\ DOMAIN stack = 1..L /\ stack \in Seq(Frames) /\ stack # << >>
             /\ Top = stack[L] /\ Top \in Frames /\ Top.node = Node(L) /\ Node(L) \in Funcs
  BY TopFacts
<1> DEFINE below == SubSeq(stack, 1, Len(stack) - 1)
           K == L - 1
<1>2. /\ cache' = [cache EXCEPT ![Top.node] = Top.acc]
      /\ stack' = IF Len(below) = 0 THEN << >>
                  ELSE [below EXCEPT ![Len(below)].acc = @ \cup Top.acc]
  BY DEF Leave
<1>d. dirty' = IF Node(L) \in Densities THEN [flags EXCEPT ![Node(L)] = FALSE] ELSE flags
  BY <1>1 DEF Leave
<1>3. \A i \in 1..L : stack[i] \in Frames
  BY <1>1, StackFacts
<1>k. K \in Nat /\ K = L - 1 /\ K + 1 = L
  BY <1>1
<1> HIDE DEF Frames, K
<1>4. below \in Seq(Frames) /\ Len(below) = K /\ \A i \in 1..K : below[i] = stack[i]
  <2>1. \A i \in 1..K : stack[i] \in Frames
    BY <1>1, <1>3, <1>k
  <2>2. below = SubSeq(stack, 1, K)
    BY <1>1, <1>k
  <2> HIDE DEF below
  <2>3. 1 \in Int /\ K \in Int
    BY <1>k
  <2>4. /\ SubSeq(stack, 1, K) \in Seq(Frames)
        /\ Len(SubSeq(stack, 1, K)) = IF 1 <= K THEN K - 1 + 1 ELSE 0
        /\ \A i \in 1..(K - 1 + 1) : SubSeq(stack, 1, K)[i] = stack[1 + i - 1]
    BY <2>1, <2>3, SubSeqProperties
  <2> QED BY <1>k, <2>2, <2>4
<1> HIDE DEF below
<1>5. CASE K = 0
  <2>1. stack' = << >>
    BY <1>2, <1>4, <1>5
  <2>2. stack' \in Seq(Frames) /\ Len(stack') = K /\ DOMAIN stack' = 1..K /\ 1..K = {}
    BY <1>5, <2>1
  <2>3. Popped(L)
    <3>1. 1..(L - 1) = {}
      BY <1>k, <2>2
    <3> QED BY <1>1, <1>2, <1>k, <2>2, <3>1 DEF Popped, graph
  <2> QED BY <1>1, <1>d, <2>3
<1>6. CASE K > 0
  <2> DEFINE fr == [stack[K] EXCEPT !.acc = @ \cup Top.acc]
  <2>0. stack[K] \in Frames /\ K \in 1..K
    BY <1>3, <1>k, <1>6
  <2>1. /\ fr \in Frames /\ fr.node = stack[K].node /\ fr.left = stack[K].left /\ fr.oldX = stack[K].oldX
        /\ fr.points = stack[K].points /\ fr.flagged = stack[K].flagged /\ fr.acc = stack[K].acc \cup Top.acc
    BY <1>1, <2>0 DEF Frames
  <2>2. stack' = [below EXCEPT ![K] = fr]
    <3>1. below[K] = stack[K] /\ Len(below) = K /\ ~(K = 0)
      BY <1>4, <1>6, <2>0
    <3>2. stack' = [below EXCEPT ![K].acc = @ \cup Top.acc]
      BY <1>2, <3>1
    <3> QED BY <3>1, <3>2
  <2> HIDE DEF fr
  <2>3. /\ stack' \in Seq(Frames) /\ Len(stack') = K /\ DOMAIN stack' = 1..K
        /\ stack'[K] = fr /\ \A i \in 1..K : i # K => stack'[i] = stack[i]
    BY <1>4, <2>0, <2>1, <2>2
  <2>4. ASSUME NEW i \in 1..K
        PROVE  /\ Node(i)' = Node(i) /\ stack'[i].left = stack[i].left /\ stack'[i].oldX = stack[i].oldX
               /\ stack'[i].points = stack[i].points /\ stack'[i].flagged = stack[i].flagged
               /\ stack'[i].acc = IF i = K THEN stack[i].acc \cup stack[L].acc ELSE stack[i].acc
    <3>1. CASE i = K
      BY <1>1, <2>1, <2>3, <3>1 DEF Node
    <3>2. CASE i # K
      BY <2>3, <3>2 DEF Node
    <3> QED BY <3>1, <3>2
  <2>5. ASSUME NEW i \in 1..K PROVE stack[i].acc \subseteq Leaves \X Points /\ i \in 1..L /\ (i < K => i + 1 \in 1..K)
    <3>1. i \in 1..L /\ (i < K => i + 1 \in 1..K)
      BY <1>k
    <3>2. stack[i] \in Frames
      BY <1>3, <3>1
    <3> QED BY <3>1, <3>2 DEF Frames
  <2>6. Popped(L)
    <3>1. \A i \in 1..(L - 1) :
             /\ Node(i)' = Node(i) /\ stack'[i].left = stack[i].left /\ stack'[i].oldX = stack[i].oldX
             /\ stack'[i].points = stack[i].points /\ stack'[i].flagged = stack[i].flagged
             /\ stack'[i].acc = IF i = L - 1 THEN stack[i].acc \cup stack[L].acc ELSE stack[i].acc
      BY <2>4, Zenon DEF K
    <3>2. \A i \in 1..(L - 1) : stack[i].acc \subseteq Leaves \X Points /\ i \in 1..L
                                   /\ (i < L - 1 => i + 1 \in 1..(L - 1))
      BY <2>5, Zenon DEF K
    <3>3. /\ L \in Nat \ {0} /\ L = Len(stack) /\ DOMAIN stack = 1..L
          /\ stack' \in Seq(Frames) /\ Len(stack') = L - 1 /\ DOMAIN stack' = 1..(L - 1)
          /\ cache' = [cache EXCEPT ![Node(L)] = stack[L].acc]
          /\ servers' = servers /\ mode' = mode /\ guard' = guard
      BY <1>1, <1>2, <1>k, <2>3 DEF graph
    <3> QED BY <3>1, <3>2, <3>3, Zenon DEF Popped
  <2> QED BY <1>1, <1>d, <2>6
<1> QED BY <1>k, <1>5, <1>6

\* What the end of a call leaves of the others,
LEMMA PoppedFacts ==
    ASSUME Inv, NEW L, Popped(L)
    PROVE  /\ L \in 1..L /\ Node(L) \in Funcs /\ Node(L) \notin Leaves /\ Node(L) \in Nodes
           /\ \A i \in 1..(L - 1) : (Inner(i)' <=> Inner(i)) /\ Node(i) # Node(L)
           /\ \A i \in 1..(L - 1) : i # L - 1 => Done(i)' = Done(i)
           /\ L > 1 => L - 1 \in 1..(L - 1) /\ Done(L - 1)' = Done(L - 1) \cup {Node(L)}
           /\ Flagged' \subseteq Flagged /\ Flagged \ {Node(L)} \subseteq Flagged'
           /\ stack[L].acc \in SUBSET (Leaves \X Points)
           /\ cache' \in [Funcs -> SUBSET (Leaves \X Points)]
           /\ cache'[Node(L)] = stack[L].acc /\ \A f \in Funcs : f # Node(L) => cache'[f] = cache[f]
<1> DEFINE K == L - 1
<1>0. /\ L \in Nat \ {0} /\ L = Len(stack) /\ DOMAIN stack = 1..L
      /\ DOMAIN stack' = 1..K /\ K \in Nat /\ K + 1 = L /\ L \in 1..L
      /\ cache' = [cache EXCEPT ![Node(L)] = stack[L].acc]
      /\ servers' = servers
      /\ \A i \in 1..K : i \in 1..L /\ (i < K => i + 1 \in 1..K)
  BY DEF Popped
<1>1. \A i \in 1..K :
       /\ Node(i)' = Node(i) /\ stack'[i].left = stack[i].left /\ (stack'[i].flagged = stack[i].flagged)
  BY DEF Popped
<1> HIDE DEF K
<1>2. /\ \A i \in 1..L : Node(i) \in Funcs /\ Node(i) \in Nodes /\ Node(i) \notin Leaves /\ stack[i] \in Frames
      /\ \A i, j \in 1..L : i # j => Node(i) # Node(j)
  BY <1>0, StackFacts
<1>3. \A i \in 1..K : Inner(i)' <=> Inner(i)
  <2>1. \A i \in 1..K : Inner(i)' <=> \E k \in 1..K : k < i /\ Node(k)' = Sampler
    BY <1>0 DEF Inner
  <2>2. \A i \in 1..K : Inner(i) <=> \E k \in 1..K : k < i /\ Node(k) = Sampler
    BY <1>0 DEF Inner
  <2> QED BY <1>1, <2>1, <2>2
<1>4. ASSUME NEW i \in 1..K, i # K PROVE Done(i)' = Done(i)
  <2>1. i + 1 \in 1..K /\ i + 1 \in 1..L
    BY <1>0, <1>4
  <2> QED BY <1>0, <1>1, <2>1 DEF Done
<1>5. ASSUME L > 1 PROVE K \in 1..K /\ Done(K)' = Done(K) \cup {Node(L)}
  <2>1. K \in 1..K /\ K \in 1..L /\ K + 1 \in DOMAIN stack /\ ~(K + 1 \in DOMAIN stack')
    BY <1>0, <1>5
  <2>2. Node(K + 1) \in servers[Node(K)] \ stack[K].left
    BY <1>0, <2>1 DEF Inv, StackInv, PathInv
  <2>3. Done(K) = (servers[Node(K)] \ stack[K].left) \ {Node(L)}
    BY <1>0, <2>1 DEF Done
  <2>4. Done(K)' = servers'[Node(K)'] \ stack'[K].left
    <3>1. Done(K)' = (servers'[Node(K)'] \ stack'[K].left) \ {}
      <4>1. Done(K)' = (servers'[Node(K)'] \ stack'[K].left)
                         \ (IF K + 1 \in DOMAIN stack' THEN {Node(K + 1)'} ELSE {})
        BY <1>0 DEF Done, K
      <4> QED BY <2>1, <4>1
    <3> QED BY <3>1
  <2> QED BY <1>0, <1>1, <2>1, <2>2, <2>3, <2>4
<1>6. Flagged' \subseteq Flagged /\ Flagged \ {Node(L)} \subseteq Flagged'
  <2>1. ASSUME NEW f \in Flagged' PROVE f \in Flagged
    <3>1. PICK i \in 1..K : stack'[i].flagged /\ f = Node(i)'
      BY <1>0 DEF Flagged
    <3>2. stack[i].flagged
      BY <1>1, <3>1, Zenon
    <3> QED BY <1>0, <1>1, <3>1, <3>2 DEF Flagged
  <2>2. ASSUME NEW f \in Flagged, f # Node(L) PROVE f \in Flagged'
    <3>1. PICK i \in 1..L : stack[i].flagged /\ f = Node(i)
      BY <1>0 DEF Flagged
    <3>2. i \in 1..K
      BY <1>0, <2>2, <3>1
    <3>3. stack'[i].flagged
      BY <1>1, <3>1, <3>2, Zenon
    <3> QED BY <1>0, <1>1, <3>1, <3>2, <3>3 DEF Flagged
  <2> QED BY <2>1, <2>2
<1>7. stack[L].acc \in SUBSET (Leaves \X Points)
  BY <1>0, <1>2 DEF Frames
<1>8. /\ cache' \in [Funcs -> SUBSET (Leaves \X Points)]
      /\ cache'[Node(L)] = stack[L].acc /\ \A f \in Funcs : f # Node(L) => cache'[f] = cache[f]
  BY <1>0, <1>2, <1>7 DEF Inv, TypeInv
<1>9. \A i \in 1..K : Node(i) # Node(L)
  BY <1>0, <1>2
<1> QED BY <1>0, <1>2, <1>3, <1>4, <1>5, <1>6, <1>7, <1>8, <1>9 DEF K

\* and that they remain a path.
LEMMA PoppedPath ==
    ASSUME Inv, NEW L, Popped(L), inhibit' <=> \E k \in 1..(L - 1) : Node(k) = Sampler
    PROVE  PathInv'
<1> DEFINE K == L - 1
<1>0. /\ DOMAIN stack = 1..L /\ DOMAIN stack' = 1..K /\ servers' = servers /\ guard' = guard
      /\ \A i \in 1..K : i \in 1..L /\ (i < K => i + 1 \in 1..K)
      /\ \A i \in 1..K :
           /\ Node(i)' = Node(i) /\ stack'[i].left = stack[i].left /\ stack'[i].oldX = stack[i].oldX
           /\ (stack'[i].flagged = stack[i].flagged)
  BY DEF Popped
<1>1. \A i \in 1..K : Inner(i)' <=> Inner(i)
  BY PoppedFacts
<1>p. PathInv /\ K \in Nat
  BY DEF Inv, StackInv, Popped
<1>i. inhibit' <=> \E k \in 1..K : Node(k) = Sampler
  OBVIOUS
<1> HIDE DEF K
<1>2. ASSUME NEW i \in 1..K
      PROVE  stack'[i].left \subseteq servers[Node(i)'] /\ (Node(i)' = Sampler => stack'[i].left = {})
  BY <1>0, <1>p DEF PathInv
<1>3. ASSUME NEW i \in 1..K, NEW j \in 1..K, i < j
      PROVE  Node(j)' \in Deps(servers, Node(i)') /\ Node(i)' \notin Deps(servers, Node(j)')
  <2>1. Node(j) \in Deps(servers, Node(i)) /\ Node(i) \notin Deps(servers, Node(j))
    BY <1>0, <1>p, <1>3 DEF PathInv
  <2> QED BY <1>0, <2>1
<1>4. ASSUME NEW i \in 1..K, i + 1 \in 1..K PROVE Node(i + 1)' \in servers[Node(i)'] \ stack'[i].left
  BY <1>0, <1>p, <1>4 DEF PathInv
<1>5. inhibit' <=> \E k \in 1..K : Node(k)' = Sampler
  BY <1>0, <1>i
<1>6. ASSUME NEW i \in 1..K, Inner(i)' PROVE ~stack'[i].flagged
  BY <1>0, <1>1, <1>p, <1>6 DEF PathInv
<1>7. ASSUME NEW i \in 1..K, ~Inner(i)' PROVE stack'[i].oldX = stack'[1].oldX
  <2>1. 1 \in 1..K
    BY <1>p
  <2> QED BY <1>0, <1>1, <1>p, <1>7, <2>1 DEF PathInv
<1>8. guard' # NoGuard => \A i \in 1..K : Node(i)' \in Graph
  BY <1>0, <1>p DEF PathInv
<1> QED BY <1>0, <1>2, <1>3, <1>4, <1>5, <1>6, <1>7, <1>8 DEF PathInv

\* The parameters as they will be are the same, the observable having come back with
\* the first call.
LEMMA PoppedOuterVal ==
    ASSUME Inv, NEW L, Popped(L), \A l \in Leaves \ {Sampled} : val'[l] = val[l],
           L = 1 => val'[Sampled] = OuterVal[Sampled]
    PROVE  OuterVal' = OuterVal
<1>1. /\ L \in Nat \ {0} /\ L = Len(stack) /\ stack' \in Seq(Frames) /\ Len(stack') = L - 1
      /\ \A i \in 1..(L - 1) : stack'[i].oldX = stack[i].oldX
  BY DEF Popped
<1>2. Sampled \in Leaves /\ stack # << >>
  BY <1>1, ConstantsAssumption
<1>3. CASE L = 1
  <2>1. stack' = << >>
    BY <1>1, <1>3, EmptySeq
  <2> QED BY <1>2, <1>3, <2>1 DEF OuterVal
<1>4. CASE L # 1
  <2>1. 1 \in 1..(L - 1) /\ stack' # << >>
    BY <1>1, <1>4
  <2>2. stack'[1].oldX = stack[1].oldX
    BY <1>1, <2>1
  <2> QED BY <1>2, <2>1, <2>2 DEF OuterVal
<1> QED BY <1>3, <1>4

\* The caller, outside the sampler, has the value of the call in its own.
LEMMA PoppedOuterInv ==
    ASSUME Inv, NEW L, Popped(L), OuterVal' = OuterVal,
           \A f \in Funcs : ~Excluded(f)' <=> ~Excluded(f),
           L > 1 /\ ~Excluded(Node(L)) /\ ~Inner(L) => stack[L].acc = Of(servers, OuterVal, Node(L))
    PROVE  OuterInv'
<1> DEFINE K == L - 1
<1>0. /\ DOMAIN stack = 1..L /\ DOMAIN stack' = 1..K /\ servers' = servers /\ K \in Nat /\ K + 1 = L
      /\ \A i \in 1..K : i \in 1..L /\ (i < K => i + 1 \in 1..K)
      /\ \A i \in 1..K :
           /\ Node(i)' = Node(i)
           /\ stack'[i].acc = IF i = K THEN stack[i].acc \cup stack[L].acc ELSE stack[i].acc
  <2>1. /\ DOMAIN stack = 1..L /\ DOMAIN stack' = 1..K /\ servers' = servers /\ K \in Nat /\ K + 1 = L
        /\ \A i \in 1..K : i \in 1..L /\ (i < K => i + 1 \in 1..K)
    BY DEF Popped
  <2>2. \A i \in 1..K :
           /\ Node(i)' = Node(i)
           /\ stack'[i].acc = IF i = K THEN stack[i].acc \cup stack[L].acc ELSE stack[i].acc
    BY Zenon DEF Popped
  <2> QED BY <2>1, <2>2
<1>1. /\ L \in 1..L /\ \A i \in 1..K : (Inner(i)' <=> Inner(i))
      /\ \A i \in 1..K : i # K => Done(i)' = Done(i)
      /\ L > 1 => K \in 1..K /\ Done(K)' = Done(K) \cup {Node(L)}
  BY PoppedFacts
<1>2. \A i \in 1..L : Node(i) \in Funcs
  BY <1>0, StackFacts
<1>l. L > 1 /\ ~Excluded(Node(L)) /\ ~Inner(L) => stack[L].acc = Of(servers, OuterVal, Node(L))
  OBVIOUS
<1>m. \A i \in 1..K : ~Excluded(Node(i))' <=> ~Excluded(Node(i))
  <2> SUFFICES ASSUME NEW i \in 1..K PROVE ~Excluded(Node(i))' <=> ~Excluded(Node(i))
    OBVIOUS
  <2>1. Node(i)' = Node(i) /\ Node(i) \in Funcs
    BY <1>0, <1>2
  <2>2. PICK f \in Funcs : f = Node(i)
    BY <2>1
  <2>3. ~Excluded(Node(i))' <=> ~Excluded(f)'
    BY <2>1, <2>2 DEF Excluded
  <2> QED BY <2>2, <2>3
<1> HIDE DEF K
<1>3. SUFFICES ASSUME NEW i \in 1..K, ~Inner(i), Node(i) # Sampler, ~Excluded(Node(i))
               PROVE  /\ stack'[i].acc = Sum(servers, OuterVal, Done(i)')
                      /\ i + 1 \in 1..K => ~Excluded(Node(i + 1))'
  BY <1>0, <1>1, <1>m DEF OuterInv
<1>4. /\ stack[i].acc = Sum(servers, OuterVal, Done(i))
      /\ i + 1 \in 1..L => ~Excluded(Node(i + 1))
  BY <1>0, <1>3 DEF Inv, StackInv, OuterInv
<1>5. CASE i # K
  <2>1. i + 1 \in 1..K /\ i + 1 \in 1..L
    BY <1>0, <1>5
  <2> QED BY <1>0, <1>1, <1>m, <1>4, <1>5, <2>1
<1>6. CASE i = K
  <2>1. L > 1 /\ i + 1 = L /\ ~(i + 1 \in 1..K) /\ L \in 1..L
    BY <1>0, <1>6
  <2>2. ~Inner(L)
    <3> SUFFICES ASSUME Inner(L) PROVE FALSE
      OBVIOUS
    <3>1. PICK k \in 1..L : k < L /\ Node(k) = Sampler
      BY <1>0 DEF Inner
    <3>2. k < i
      BY <1>0, <1>3, <1>6, <3>1
    <3> QED BY <1>0, <1>3, <3>1, <3>2 DEF Inner
  <2>3. stack[L].acc = Of(servers, OuterVal, Node(L))
    BY <1>l, <1>4, <2>1, <2>2
  <2>4. stack'[i].acc = Sum(servers, OuterVal, Done(i)) \cup Of(servers, OuterVal, Node(L))
    BY <1>0, <1>4, <1>6, <2>3
  <2>5. Sum(servers, OuterVal, Done(i)') = Sum(servers, OuterVal, Done(i)) \cup Of(servers, OuterVal, Node(L))
    BY <1>1, <1>6, <2>1, SumUnion
  <2> QED BY <2>1, <2>4, <2>5
<1> QED BY <1>5, <1>6

\* A call of any other function than the sampler ends.
LEMMA ReturnKeeps ==
    ASSUME Inv, Return
    PROVE  Inv'
<1>0. /\ ~Idle /\ Top.left = {} /\ Top.node # Sampler /\ Leave(dirty)
      /\ UNCHANGED <<val, inhibit, unseen, aborted, graph>>
  BY DEF Return
<1>1. PICK L \in Nat \ {0} :
        /\ Popped(L)
        /\ dirty' = IF Node(L) \in Densities THEN [dirty EXCEPT ![Node(L)] = FALSE] ELSE dirty
  BY <1>0, LeaveIsPopped
<1> DEFINE K == L - 1
<1>2. /\ L = Len(stack) /\ DOMAIN stack = 1..L /\ DOMAIN stack' = 1..K /\ K \in Nat /\ K + 1 = L /\ L \in 1..L
      /\ stack' \in Seq(Frames) /\ Top = stack[L] /\ Top.node = Node(L)
      /\ servers' = servers /\ mode' = mode /\ guard' = guard
      /\ val' = val /\ inhibit' = inhibit /\ unseen' = unseen /\ aborted' = aborted
      /\ \A i \in 1..K :
           /\ Node(i)' = Node(i) /\ i \in 1..L /\ (i < K => i + 1 \in 1..K)
           /\ stack'[i].points = stack[i].points
           /\ stack'[i].acc = IF i = K THEN stack[i].acc \cup stack[L].acc ELSE stack[i].acc
  <2>1. /\ L = Len(stack) /\ DOMAIN stack = 1..L /\ DOMAIN stack' = 1..K /\ K \in Nat /\ K + 1 = L /\ L \in 1..L
        /\ stack' \in Seq(Frames)
        /\ servers' = servers /\ mode' = mode /\ guard' = guard
        /\ \A i \in 1..K : i \in 1..L /\ (i < K => i + 1 \in 1..K)
    BY <1>1 DEF Popped
  <2>2. \A i \in 1..K :
           /\ Node(i)' = Node(i) /\ stack'[i].points = stack[i].points
           /\ stack'[i].acc = IF i = K THEN stack[i].acc \cup stack[L].acc ELSE stack[i].acc
    BY <1>1, Zenon DEF Popped
  <2>3. Top = stack[L] /\ Top.node = Node(L)
    BY <2>1 DEF Top, Node
  <2> QED BY <1>0, <2>1, <2>2, <2>3
<1>3. /\ Node(L) \in Funcs /\ Node(L) \notin Leaves /\ Node(L) \in Nodes
      /\ \A i \in 1..K : (Inner(i)' <=> Inner(i)) /\ Node(i) # Node(L)
      /\ \A i \in 1..K : i # K => Done(i)' = Done(i)
      /\ L > 1 => K \in 1..K /\ Done(K)' = Done(K) \cup {Node(L)}
      /\ Flagged \ {Node(L)} \subseteq Flagged'
      /\ cache' \in [Funcs -> SUBSET (Leaves \X Points)]
      /\ cache'[Node(L)] = stack[L].acc /\ \A f \in Funcs : f # Node(L) => cache'[f] = cache[f]
  BY <1>1, PoppedFacts
<1> HIDE DEF K
<1>4. /\ servers \in [Funcs -> SUBSET Nodes] /\ GraphOK(servers) /\ Node(L) # Sampler
      /\ val \in [Leaves -> Points] /\ OuterVal \in [Leaves -> Points]
  BY <1>0, <1>2, GraphFacts, OuterValFacts DEF Inv, TypeInv
<1>5. Done(L) = servers[Node(L)]
  <2>1. ~(L + 1 \in DOMAIN stack) /\ stack[L].left = {}
    BY <1>0, <1>2
  <2> QED BY <2>1 DEF Done
\* The value of the call that ends.
<1>6. ~Inner(L) /\ ~Excluded(Node(L)) => stack[L].acc = WorthAt(servers, OuterVal, Node(L))
  <2> SUFFICES ASSUME ~Inner(L), ~Excluded(Node(L)) PROVE stack[L].acc = WorthAt(servers, OuterVal, Node(L))
    OBVIOUS
  <2>1. stack[L].acc = Sum(servers, OuterVal, servers[Node(L)])
    BY <1>2, <1>4, <1>5 DEF Inv, StackInv, OuterInv
  <2> QED BY <1>3, <1>4, <2>1, WorthIsSum
<1>7. Inner(L) => /\ stack[L].acc = WorthAt(servers, val, Node(L))
                  /\ \A s \in servers[Node(L)] : SubCurrent(s)
  <2> SUFFICES ASSUME Inner(L)
               PROVE  /\ stack[L].acc = WorthAt(servers, val, Node(L))
                      /\ \A s \in servers[Node(L)] : SubCurrent(s)
    OBVIOUS
  <2>1. /\ stack[L].acc = Sum(servers, val, servers[Node(L)])
        /\ \A s \in servers[Node(L)] : SubCurrent(s)
    BY <1>2, <1>5 DEF Inv, StackInv, InnerInv
  <2> QED BY <1>3, <1>4, <2>1, WorthIsSum
<1>8. OuterVal' = OuterVal
  <2>1. L = 1 => val'[Sampled] = OuterVal[Sampled]
    <3> SUFFICES ASSUME L = 1 PROVE val = OuterVal
      BY <1>2
    <3>1. ~Inner(L)
      BY <1>2, <1>4 DEF Inner
    <3> QED BY <1>2, <1>4, <3>1, TopOuter
  <2> QED BY <1>1, <1>2, <2>1, PoppedOuterVal
\* Its flag is cleared now if the node is a density, which no fit asks for.
<1>f. /\ dirty' \in [Nodes -> BOOLEAN] /\ (guard # NoGuard => dirty' = dirty)
      /\ \A n \in Nodes : n # Node(L) => dirty'[n] = dirty[n]
  <2>1. dirty \in [Nodes -> BOOLEAN]
    BY DEF Inv, TypeInv
  <2>2. guard # NoGuard => Node(L) \notin Densities
    BY <1>2, ConstantsAssumption DEF Inv, StackInv, PathInv
  <2> QED BY <1>1, <2>1, <2>2
<1>e. \A n : Excluded(n)' <=> Excluded(n)
  BY <1>2 DEF Excluded
<1>9. ASSUME NEW f \in Funcs, f # Node(L), Claim(f)' PROVE Claim(f)
  <2>1. f \in Nodes
    BY DEF Nodes
  <2> QED BY <1>2, <1>f, <1>e, <1>9, <2>1 DEF Claim, Before
<1>10. Started' <=> Started
  <2>1. \A k \in 1..L : k # L => k \in 1..K
    BY <1>2
  <2>2. Started' => Started
    BY <1>2 DEF Started
  <2>3. ASSUME Started PROVE Started'
    <3>1. PICK k \in 1..L : Node(k) = Sampler /\ stack[k].points # Samples
      BY <1>2, <2>3 DEF Started
    <3>2. k \in 1..K
      BY <1>4, <2>1, <3>1
    <3> QED BY <1>2, <3>1, <3>2 DEF Started
  <2> QED BY <2>2, <2>3
<1>11. Moved' = Moved
  BY <1>2, <1>10 DEF Moved
<1>12. TypeInv' /\ ModeInv' /\ GraphOK(servers)' /\ GuardInv'
  <2>1. TypeInv'
    BY <1>2, <1>3, <1>f DEF Inv, TypeInv
  <2>2. ModeInv' /\ GraphOK(servers)'
    BY <1>0, <1>2, SameGraph DEF Inv
  <2>3. GuardInv'
    BY <1>2, <1>8, <1>f DEF Inv, GuardInv, GuardedNodes
  <2> QED BY <2>1, <2>2, <2>3
\* Inside the sampler all that was current still is, and so is the node.
<1>13. ASSUME Inner(L), NEW n, SubCurrent(n) PROVE SubCurrent(n)'
  <2>1. SUFFICES ASSUME NEW f \in Deps(servers, n) \cap Funcs PROVE cache'[f] = WorthAt(servers, val, f)
    BY <1>2 DEF SubCurrent
  <2> QED BY <1>3, <1>7, <1>13 DEF SubCurrent
<1>14. ASSUME Inner(L), NEW n, n = Node(L) PROVE SubCurrent(n)'
  <2>1. SUFFICES ASSUME NEW f \in Deps(servers, n) \cap Funcs PROVE cache'[f] = WorthAt(servers, val, f)
    BY <1>2 DEF SubCurrent
  <2>2. CASE f = n
    BY <1>3, <1>7, <1>14, <2>2
  <2>3. CASE f # n
    <3>1. PICK s \in servers[n] : f \in Deps(servers, s)
      BY <1>3, <1>4, <1>14, <2>1, <2>3, DepsOfFunction
    <3>2. cache[f] = WorthAt(servers, val, f)
      BY <1>7, <1>14, <2>1, <3>1 DEF SubCurrent
    <3> QED BY <1>3, <1>14, <2>1, <2>3, <3>2
  <2> QED BY <2>2, <2>3
<1>15. CacheInv'
  <2>1. SUFFICES ASSUME NEW f \in Funcs, Claim(f)', f \notin Flagged', f \notin Moved'
                 PROVE  cache'[f] = WorthAt(servers, OuterVal, f)
    BY <1>2, <1>8 DEF CacheInv
  <2>2. ~Excluded(f) /\ f \notin Moved
    BY <1>11, <1>e, <2>1 DEF Claim
  <2>3. CASE f # Node(L)
    <3>1. f \notin Flagged /\ Claim(f)
      BY <1>3, <1>9, <2>1, <2>3
    <3>2. cache[f] = WorthAt(servers, OuterVal, f)
      BY <2>2, <3>1 DEF Inv, CacheInv
    <3> QED BY <1>3, <2>3, <3>2
  <2>4. CASE f = Node(L) /\ ~Inner(L)
    BY <1>3, <1>6, <2>2, <2>4
  <2>5. CASE f = Node(L) /\ Inner(L)
    <3>1. cache'[f] = WorthAt(servers, val, f)
      BY <1>3, <1>7, <2>5
    <3>2. CASE ~Started
      <4>1. val = OuterVal
        BY <3>2, OuterValFacts
      <4> QED BY <3>1, <4>1
    <3>3. CASE Started
      <4>1. PICK k \in 1..L : k < L /\ Node(k) = Sampler
        BY <1>2, <2>5 DEF Inner
      <4>2. f \in Deps(servers, Sampler)
        BY <1>2, <2>5, <4>1 DEF Inv, StackInv, PathInv
      <4>3. Sampled \notin Deps(servers, f)
        BY <1>4, <2>2, <2>5, <3>3, <4>2 DEF Moved, BelowSampler
      <4>4. \A l \in Leaves \cap Deps(servers, f) : val[l] = OuterVal[l]
        BY <4>3, OuterValFacts
      <4> QED BY <3>1, <4>4, WorthSame
    <3> QED BY <3>2, <3>3
  <2> QED BY <2>3, <2>4, <2>5
<1>16. inhibit' <=> \E k \in 1..K : Node(k) = Sampler
  <2>1. inhibit <=> \E k \in 1..L : Node(k) = Sampler
    BY <1>2 DEF Inv, StackInv, PathInv
  <2>2. \A k \in 1..L : k # L => k \in 1..K
    BY <1>2
  <2> QED BY <1>2, <1>4, <2>1, <2>2
<1>17. PathInv'
  BY <1>1, <1>16, PoppedPath DEF K
<1>18. OuterInv'
  <2>1. L > 1 /\ ~Excluded(Node(L)) /\ ~Inner(L) => stack[L].acc = Of(servers, OuterVal, Node(L))
    BY <1>3, <1>6 DEF Of
  <2> QED BY <1>1, <1>8, <1>e, <2>1, PoppedOuterInv
<1>19. InnerInv'
  <2>1. SUFFICES ASSUME NEW i \in 1..K, Inner(i)
                 PROVE  /\ stack'[i].acc = Sum(servers, val, Done(i)')
                        /\ \A s \in Done(i)' : SubCurrent(s)'
    BY <1>2, <1>3 DEF InnerInv
  <2>2. stack[i].acc = Sum(servers, val, Done(i)) /\ \A s \in Done(i) : SubCurrent(s)
    BY <1>2, <2>1 DEF Inv, StackInv, InnerInv
  <2>3. Inner(L)
    <3>1. i \in 1..Len(stack) /\ L \in 1..Len(stack) /\ i <= L
      BY <1>2
    <3> QED BY <2>1, <3>1, InnerFacts
  <2>4. \A s \in Done(i) : SubCurrent(s)'
    BY <1>13, <2>2, <2>3
  <2>5. CASE i # K
    BY <1>2, <1>3, <2>2, <2>4, <2>5
  <2>6. CASE i = K
    <3>1. L > 1
      BY <1>2, <2>6
    <3>2. Done(i)' = Done(i) \cup {Node(L)} /\ stack'[i].acc = stack[i].acc \cup stack[L].acc
      BY <1>2, <1>3, <2>6, <3>1
    <3>3. Sum(servers, val, Done(i) \cup {Node(L)}) = Sum(servers, val, Done(i)) \cup Of(servers, val, Node(L))
      BY SumUnion
    <3>4. Of(servers, val, Node(L)) = stack[L].acc
      BY <1>3, <1>7, <2>3 DEF Of
    <3>5. \A s \in Done(i)' : SubCurrent(s)'
      BY <1>14, <2>3, <2>4, <3>2
    <3> QED BY <2>2, <3>2, <3>3, <3>4, <3>5
  <2> QED BY <2>5, <2>6
\* The sampler gets the value of its density at the point it is at.
<1>20. ASSUME NEW i \in 1..K, NEW pdf \in servers[Sampler] \ {Sampled}, Node(i) = Sampler
       PROVE  \E n \in 0..Len(Samples) :
                IF i + 1 \in 1..K
                THEN n > 0 /\ SamplerAt(i, pdf, n, n - 1)'
                ELSE SamplerAt(i, pdf, n, n)' /\ (n > 0 => SubCurrent(pdf)')
  <2>1. i \in 1..L /\ i + 1 \in 1..L /\ i < L
    BY <1>2
  <2>2. PICK n \in 0..Len(Samples) : n > 0 /\ SamplerAt(i, pdf, n, n - 1)
    BY <1>2, <1>20, <2>1 DEF Inv, StackInv, SamplerInv
  <2>3. CASE i # K
    <3>1. i + 1 \in 1..K
      BY <1>2, <2>3
    <3>2. SamplerAt(i, pdf, n, n - 1)'
      BY <1>2, <1>8, <2>2, <2>3 DEF SamplerAt
    <3> QED BY <2>2, <3>1, <3>2
  <2>4. CASE i = K
    <3>1. Inner(L) /\ ~(i + 1 \in 1..K) /\ i + 1 = L
      BY <1>2, <1>20, <2>1, <2>4 DEF Inner
    <3>2. Node(L) = pdf
      <4>1. Node(L) \in servers[Sampler]
        BY <1>2, <1>20, <2>1, <3>1 DEF Inv, StackInv, PathInv
      <4>2. Node(L) # Sampled
        BY <1>3, ConstantsAssumption
      <4> QED BY <1>4, <1>20, <4>1, <4>2, Density
    <3>3. SubCurrent(pdf)'
      BY <1>14, <3>1, <3>2
    <3>4. stack[L].acc = WorthAt(servers, [OuterVal EXCEPT ![Sampled] = Samples[n]], pdf)
      BY <1>7, <2>2, <3>1, <3>2 DEF SamplerAt
    <3>5. SampledWorth(servers, OuterVal, pdf, n)
            = SampledWorth(servers, OuterVal, pdf, n - 1) \cup stack[L].acc
      <4>1. n \in Nat /\ 1..n = (1..(n - 1)) \cup {n}
        BY <2>2, SamplesType
      <4> QED BY <3>4, <4>1 DEF SampledWorth
    <3>6. stack'[i].acc = SampledWorth(servers, OuterVal, pdf, n)
      <4>1. stack'[i].acc = stack[i].acc \cup stack[L].acc
        BY <1>2, <2>4
      <4> QED BY <2>2, <3>5, <4>1 DEF SamplerAt
    <3>7. SamplerAt(i, pdf, n, n)'
      BY <1>2, <1>8, <2>2, <3>6 DEF SamplerAt
    <3> QED BY <3>1, <3>3, <3>7
  <2> QED BY <2>3, <2>4
<1>21. SamplerInv'
  <2>1. ~inhibit => val = OuterVal
    BY DEF Inv, StackInv, SamplerInv
  <2>2. ~inhibit' => val' = OuterVal'
    BY <1>2, <1>8, <2>1
  <2> QED BY <1>2, <1>20, <2>2 DEF SamplerInv
<1> QED BY <1>12, <1>15, <1>17, <1>18, <1>19, <1>21 DEF Inv, StackInv

\* The sampler has been at all its points: it has its value, and the observable
\* comes back.
LEMMA SamplerAtEnd ==
    ASSUME Inv, ~Idle, Top.node = Sampler, Top.points = << >>, NEW L, Popped(L)
    PROVE  /\ Node(L) = Sampler /\ stack[L].acc = WorthAt(servers, OuterVal, Sampler)
           /\ Top.oldX = OuterVal[Sampled] /\ OuterVal[Sampled] \in Points
           /\ \A i \in 1..L : ~Inner(i) /\ (i # L => Node(i) # Sampler)
           /\ \A f \in Moved : cache[f] = WorthAt(servers, val, f)
<1>1. /\ L \in Nat \ {0} /\ L = Len(stack) /\ DOMAIN stack = 1..L /\ L \in 1..L /\ 1 \in 1..L
  BY DEF Popped
<1>2. Top = stack[L] /\ Node(L) = Sampler /\ stack # << >>
  BY <1>1 DEF Top, Node, Idle
<1>3. \A i \in 1..L : ~Inner(i) /\ (i # L => Node(i) # Sampler)
  <2>1. \A i, j \in 1..L : i # j => Node(i) # Node(j)
    BY <1>1, StackFacts
  <2>2. \A i \in 1..L : i # L => Node(i) # Sampler
    BY <1>1, <1>2, <2>1
  <2>3. \A i, k \in 1..L : k < i => k # L
    BY <1>1
  <2> QED BY <1>1, <2>2, <2>3 DEF Inner
<1>4. Top.oldX = OuterVal[Sampled]
  <2>1. stack[L].oldX = stack[1].oldX
    BY <1>1, <1>3 DEF Inv, StackInv, PathInv
  <2> QED BY <1>2, <2>1, ConstantsAssumption DEF OuterVal
<1>5. OuterVal \in [Leaves -> Points] /\ OuterVal[Sampled] \in Points
  BY OuterValFacts, ConstantsAssumption
<1>6. GraphOK(servers) /\ servers \in [Funcs -> SUBSET Nodes]
  BY GraphFacts
<1>7. PICK pdf \in Funcs :
        /\ servers[Sampler] = {pdf, Sampled} /\ servers[Sampler] \ {Sampled} = {pdf}
        /\ \A f \in Deps(servers, Sampler) \cap Funcs : f # Sampler => f \in Deps(servers, pdf)
  BY <1>6, Density
<1>8. PICK n \in 0..Len(Samples) : SamplerAt(L, pdf, n, n) /\ (n > 0 => SubCurrent(pdf))
  <2>1. ~(L + 1 \in DOMAIN stack) /\ L \in DOMAIN stack /\ pdf \in servers[Sampler] \ {Sampled}
    BY <1>1, <1>7
  <2> QED BY <1>2, <2>1 DEF Inv, StackInv, SamplerInv
<1>9. n = Len(Samples) /\ n > 0
  <2> DEFINE points == stack[L].points
  <2>1. points = SubSeq(Samples, n + 1, Len(Samples)) /\ points = << >>
    BY <1>2, <1>8 DEF SamplerAt
  <2> HIDE DEF points
  <2>2. n = Len(Samples)
    BY <1>8, <2>1, PointsLeft
  <2> QED BY <2>2, SamplesType
<1>10. stack[L].acc = WorthAt(servers, OuterVal, Sampler)
  <2>1. stack[L].acc = SampledWorth(servers, OuterVal, pdf, Len(Samples))
    BY <1>8, <1>9 DEF SamplerAt
  <2>2. DOMAIN OuterVal = Leaves /\ DOMAIN Samples = 1..Len(Samples)
    BY <1>5, SamplesType
  <2>3. WorthAt(servers, OuterVal, Sampler)
          = {<<Sampled, OuterVal[Sampled]>>}
              \cup UNION {WorthAt(servers, [OuterVal EXCEPT ![Sampled] = Samples[j]], pdf) : j \in DOMAIN Samples}
    <3>1. /\ GraphOK(servers) /\ servers[Sampler] = {pdf, Sampled} /\ DOMAIN OuterVal = Leaves
          /\ pdf \in Funcs
      BY <1>6, <1>7, <2>2
    <3> QED BY <3>1, WorthOfSampler, Zenon
  <2>4. SampledWorth(servers, OuterVal, pdf, Len(Samples))
          = {<<Sampled, OuterVal[Sampled]>>}
              \cup UNION {WorthAt(servers, [OuterVal EXCEPT ![Sampled] = Samples[j]], pdf) : j \in DOMAIN Samples}
    BY <2>2, Zenon DEF SampledWorth
  <2> QED BY <2>1, <2>3, <2>4
<1>11. \A f \in Moved : cache[f] = WorthAt(servers, val, f)
  BY <1>7, <1>8, <1>9 DEF Moved, BelowSampler, SubCurrent
<1> QED BY <1>2, <1>3, <1>4, <1>5, <1>10, <1>11

\* The sampler puts its observable back, and if that was elsewhere all that depends on
\* it is dirty, but for the sampler, which has its value.
LEMMA FinishSamplingKeeps ==
    ASSUME Inv, FinishSampling
    PROVE  Inv'
<1> DEFINE flags == Flags(Sampled, Top.oldX, FALSE)
<1>0. /\ ~Idle /\ Top.node = Sampler /\ Top.points = << >>
      /\ inhibit' = FALSE /\ val' = [val EXCEPT ![Sampled] = Top.oldX]
      /\ Leave(flags) /\ unseen' = unseen /\ aborted' = aborted /\ UNCHANGED graph
  BY DEF FinishSampling
<1>1. PICK L \in Nat \ {0} :
        /\ Popped(L)
        /\ dirty' = IF Node(L) \in Densities THEN [flags EXCEPT ![Node(L)] = FALSE] ELSE flags
  <2> HIDE DEF flags
  <2> QED BY <1>0, LeaveIsPopped
<1> DEFINE K == L - 1
           X == OuterVal[Sampled]
<1>2. /\ Node(L) = Sampler /\ stack[L].acc = WorthAt(servers, OuterVal, Sampler)
      /\ Top.oldX = X /\ X \in Points
      /\ \A i \in 1..L : ~Inner(i) /\ (i # L => Node(i) # Sampler)
      /\ \A f \in Moved : cache[f] = WorthAt(servers, val, f)
  BY <1>0, <1>1, SamplerAtEnd
<1>3. /\ L = Len(stack) /\ DOMAIN stack = 1..L /\ DOMAIN stack' = 1..K /\ K \in Nat /\ K + 1 = L /\ L \in 1..L
      /\ stack' \in Seq(Frames)
      /\ servers' = servers /\ mode' = mode /\ guard' = guard
      /\ \A i \in 1..K : i \in 1..L /\ i # L /\ i < L
  BY <1>1 DEF Popped
<1>4. \A i \in 1..K : Node(i)' = Node(i)
  BY <1>1, Zenon DEF Popped
<1>5. /\ \A i \in 1..K : Inner(i)' <=> Inner(i)
      /\ Flagged \ {Node(L)} \subseteq Flagged'
      /\ cache' \in [Funcs -> SUBSET (Leaves \X Points)]
      /\ cache'[Node(L)] = stack[L].acc /\ \A f \in Funcs : f # Node(L) => cache'[f] = cache[f]
  BY <1>1, PoppedFacts
<1> HIDE DEF K
<1>6. /\ servers \in [Funcs -> SUBSET Nodes] /\ GraphOK(servers) /\ Sampler \in Funcs /\ Sampler \notin Leaves
      /\ Sampled \in Leaves /\ val \in [Leaves -> Points] /\ OuterVal \in [Leaves -> Points]
      /\ \A l \in Leaves \ {Sampled} : OuterVal[l] = val[l]
  BY GraphFacts, OuterValFacts DEF Inv, TypeInv
\* The sampler is a density, so no minimization is in progress.
<1>g. guard = NoGuard /\ Sampler \in Densities
  BY <1>2, <1>3, ConstantsAssumption DEF Inv, StackInv, PathInv
<1>7. val' = OuterVal
  BY <1>0, <1>2, <1>6
<1>8. OuterVal' = OuterVal
  BY <1>1, <1>6, <1>7, PoppedOuterVal
<1>9. ~Started' /\ Moved' = {}
  BY <1>2, <1>3, <1>4 DEF Started, Moved
<1>10. /\ dirty' \in [Nodes -> BOOLEAN]
       /\ \A f \in Funcs : f # Sampler => /\ dirty[f] => dirty'[f]
                                          /\ val[Sampled] # X /\ mode[f] = "Auto" /\ Sampled \in Deps(servers, f)
                                               => dirty'[f]
  <2>1. /\ flags \in [Nodes -> BOOLEAN] /\ \A n \in Nodes : dirty[n] => flags[n]
        /\ \A f \in Funcs : val[Sampled] # X /\ mode[f] = "Auto" /\ Sampled \in Deps(servers, f) => flags[f]
    BY <1>2, <1>6, FlagsOfClients, Zenon
  <2> HIDE DEF flags
  <2>2. dirty' = [flags EXCEPT ![Sampler] = FALSE] /\ Funcs \subseteq Nodes
    BY <1>1, <1>2, <1>g DEF Nodes
  <2> QED BY <1>6, <2>1, <2>2
<1>11. TypeInv' /\ ModeInv' /\ GraphOK(servers)'
  <2>1. TypeInv'
    BY <1>0, <1>3, <1>5, <1>6, <1>7, <1>10 DEF Inv, TypeInv
  <2> QED BY <1>0, <1>3, <1>6, <2>1, SameGraph DEF Inv
<1>12. GuardInv'
  BY <1>3, <1>g DEF GuardInv
<1>13. PathInv'
  BY <1>0, <1>1, <1>2, <1>3, PoppedPath DEF K
<1>14. InnerInv' /\ SamplerInv'
  <2>1. InnerInv'
    BY <1>2, <1>3, <1>5 DEF InnerInv
  <2>2. \A i \in DOMAIN stack' : Node(i)' # Sampler
    BY <1>2, <1>3, <1>4
  <2> QED BY <1>7, <1>8, <2>1, <2>2 DEF SamplerInv
<1>15. \A f : Excluded(f)' <=> Excluded(f)
  BY <1>0, <1>3 DEF Excluded
<1>16. OuterInv'
  <2>1. L > 1 /\ ~Excluded(Node(L)) /\ ~Inner(L) => stack[L].acc = Of(servers, OuterVal, Node(L))
    BY <1>2, <1>6 DEF Of
  <2> QED BY <1>1, <1>8, <1>15, <2>1, PoppedOuterInv
\* A clean cache is not of the points, or the observable never left.
<1>17. CacheInv'
  <2>1. SUFFICES ASSUME NEW f \in Funcs, Claim(f)', f \notin Flagged'
                 PROVE  cache'[f] = WorthAt(servers, OuterVal, f)
    BY <1>3, <1>8 DEF CacheInv
  <2>2. CASE f = Sampler
    BY <1>2, <1>5, <2>2
  <2>3. CASE f # Sampler
    <3>1. Claim(f) /\ mode[f] = "Auto"
      BY <1>3, <1>10, <1>15, <1>g, <2>1, <2>3 DEF Claim, Before
    <3>2. f \notin Flagged /\ cache'[f] = cache[f]
      BY <1>2, <1>5, <2>1, <2>3
    <3>3. CASE f \notin Moved
      BY <3>1, <3>2, <3>3 DEF Inv, CacheInv
    <3>4. CASE f \in Moved
      <4>1. Sampled \in Deps(servers, f)
        BY <3>4 DEF Moved, BelowSampler
      <4>2. val[Sampled] = X
        BY <1>10, <2>1, <2>3, <3>1, <4>1 DEF Claim
      <4>3. val = OuterVal
        BY <1>6, <4>2
      <4> QED BY <1>2, <3>2, <3>4, <4>3
    <3> QED BY <3>3, <3>4
  <2> QED BY <2>2, <2>3
<1> QED BY <1>11, <1>12, <1>13, <1>14, <1>16, <1>17 DEF Inv, StackInv

\* An exception unwinds all calls: what was cleared and not computed is aborted, and
\* an observable that was elsewhere stays there, unseen.
LEMMA ThrowKeeps ==
    ASSUME Inv, Throw
    PROVE  Inv'
<1>0. /\ stack' = << >> /\ inhibit' = FALSE /\ guard' = NoGuard /\ mode' = ModesBefore
      /\ val' = val /\ cache' = cache /\ dirty' = dirty /\ servers' = servers
  BY DEF Throw
<1> DEFINE frames == {stack[i] : i \in 1..Len(stack)}
<1>1. /\ aborted' = aborted \cup {fr.node : fr \in {g \in frames : g.flagged}}
      /\ unseen' = IF \E fr \in frames : fr.node = Sampler /\ fr.points # Samples
                   THEN unseen \cup {Sampled} ELSE unseen
  BY DEF Throw
<1>2. DOMAIN stack = 1..Len(stack) /\ \A i \in 1..Len(stack) : Node(i) \in Funcs
  BY StackFacts
<1>3. aborted' = aborted \cup Flagged
  BY <1>1, <1>2 DEF Flagged, Node
<1>4. unseen' = IF Started THEN unseen \cup {Sampled} ELSE unseen
  BY <1>1, <1>2 DEF Started, Node
<1> HIDE DEF frames
<1>5. /\ servers \in [Funcs -> SUBSET Nodes] /\ mode \in [Nodes -> Modes] /\ Sampled \in Leaves
      /\ val \in [Leaves -> Points] /\ Funcs \subseteq Nodes
  BY GraphFacts DEF Inv, TypeInv
<1>6. StackInv' /\ OuterVal' = val /\ Moved' = {} /\ Flagged' = {} /\ stack' \in Seq(Frames)
  BY <1>0, <1>5, IdleAfter
<1>7. ModeInv' /\ (guard # NoGuard => mode' = guard.before)
  BY <1>0, GuardEndInv DEF Inv
<1>8. \A f \in Nodes : Before(f)' = Before(f)
  <2>1. CASE guard = NoGuard
    <3>1. mode' = mode
      BY <1>0, <1>5, <2>1 DEF ModesBefore
    <3> QED BY <1>0, <2>1, <3>1 DEF Before
  <2>2. CASE guard # NoGuard
    BY <1>0, <1>7, <2>2 DEF Before
  <2> QED BY <2>1, <2>2
<1>9. GraphOK(servers)' /\ GuardInv'
  BY <1>0, GraphFacts DEF GuardInv
<1>10. TypeInv'
  <2>1. aborted' \subseteq Funcs
    BY <1>2, <1>3 DEF Flagged, Inv, TypeInv
  <2>2. unseen' \subseteq Leaves
    BY <1>4, <1>5 DEF Inv, TypeInv
  <2> QED BY <1>0, <1>6, <2>1, <2>2 DEF Inv, TypeInv
<1>11. CacheInv'
  <2>1. SUFFICES ASSUME NEW f \in Funcs, Claim(f)' PROVE cache[f] = WorthAt(servers, val, f)
    BY <1>0, <1>6 DEF CacheInv
  <2>2. f \in Nodes /\ f \in Deps(servers, f)
    BY <1>5, DepsSelf
  <2>3. Before(f)' = "Auto" /\ ~dirty'[f] /\ ~Excluded(f)'
    BY <2>1 DEF Claim
  <2>4. \A n \in Deps(servers, f) : n \notin unseen' /\ n \notin aborted'
    BY <1>0, <2>3 DEF Excluded
  <2>5. Claim(f)
    <3>1. ~Excluded(f)
      BY <1>3, <1>4, <2>4 DEF Excluded
    <3> QED BY <1>0, <1>8, <2>2, <2>3, <3>1 DEF Claim
  <2>6. f \notin Flagged
    BY <1>3, <2>2, <2>4
  <2>7. Started => Sampled \notin Deps(servers, f)
    BY <1>4, <2>4
  <2>8. f \notin Moved
    BY <2>7 DEF Moved, BelowSampler
  <2>9. cache[f] = WorthAt(servers, OuterVal, f)
    BY <2>5, <2>6, <2>8 DEF Inv, CacheInv
  <2>10. \A l \in Leaves \cap Deps(servers, f) : val[l] = OuterVal[l]
    BY <2>7, OuterValFacts
  <2> QED BY <2>9, <2>10, WorthSame
<1> QED BY <1>6, <1>7, <1>9, <1>10, <1>11 DEF Inv

\* Each step keeps the invariant.
LEMMA StepInv ==
    ASSUME Inv, [Next]_vars
    PROVE  Inv'
<1>1. CASE UNCHANGED vars
  <2>1. /\ val' = val /\ servers' = servers /\ cache' = cache /\ dirty' = dirty /\ mode' = mode
        /\ inhibit' = inhibit /\ stack' = stack /\ guard' = guard /\ unseen' = unseen /\ aborted' = aborted
    BY <1>1 DEF vars
  <2>2. ModeInv' /\ GraphOK(servers)' /\ TypeInv'
    BY <2>1, SameGraph DEF Inv, TypeInv, graph
  <2>3. PathInv'
    BY <2>1 DEF Inv, StackInv, PathInv, Inner, Node
  <2>5. OuterInv'
    BY <2>1 DEF Inv, StackInv, OuterInv, Inner, Node, Done, OuterVal, Excluded
  <2>6. InnerInv'
    BY <2>1 DEF Inv, StackInv, InnerInv, Inner, Node, Done, SubCurrent
  <2>7. SamplerInv'
    BY <2>1 DEF Inv, StackInv, SamplerInv, SamplerAt, Node, SubCurrent, OuterVal
  <2>4. CacheInv' /\ GuardInv'
    BY <2>1 DEF Inv, CacheInv, GuardInv, Claim, Flagged, Moved, Started, Node, OuterVal, Before, Excluded,
                GuardedNodes
  <2> QED BY <2>2, <2>3, <2>4, <2>5, <2>6, <2>7 DEF Inv, StackInv
<1>2. CASE \E l \in Leaves, v \in Values : SetVal(l, v)
  BY <1>2, SetValInv
<1>3. CASE \E f \in Funcs : GetVal(f)
  BY <1>3, GetValKeeps, ConstantsAssumption
<1>4. CASE ReadServer
  BY <1>4, ReadServerKeeps
<1>5. CASE EvaluateServer
  BY <1>5, EvaluateServerKeeps
<1>6. CASE Return
  BY <1>6, ReturnKeeps
<1>7. CASE SampleNext
  BY <1>7, SampleNextKeeps
<1>8. CASE FinishSampling
  BY <1>8, FinishSamplingKeeps
<1>9. CASE Throw
  BY <1>9, ThrowKeeps
<1>10. CASE \E kind \in {"fit", "contour"} : GuardBegin(kind)
  BY <1>10, GuardBeginKeeps
<1>11. CASE GuardEnd
  BY <1>11, GuardEndKeeps
<1>12. CASE \E f \in Batch : DoEval(f)
  BY <1>12, DoEvalKeeps
<1>13. CASE \E q \in Optimized : OptimizeCacheMode(q[1], q[2])
  BY <1>13, OptimizeCacheModeKeeps
<1>14. CASE \E r \in Redirections : Redirect(r[1], r[2], r[3])
  BY <1>14, RedirectKeeps
<1> QED BY <1>1, <1>2, <1>3, <1>4, <1>5, <1>6, <1>7, <1>8, <1>9, <1>10, <1>11, <1>12, <1>13, <1>14 DEF Next

-----------------------------------------------------------------------------
(* Theorems *)

\* In any expression graph, whatever is evaluated, redirected, optimized and
\* minimized in whatever order: no node with a cache lies above one that is
\* recomputed without change tracking.
THEOREM AlwaysRecomputedAbove == Spec => []ADirtyClosed
<1>1. ModeInv => ADirtyClosed
  BY DEF ModeInv, Closed, ADirtyClosed
<1>2. ModeInv /\ [Next]_vars => ModeInv'
  BY StepModeInv
<1> QED BY <1>1, <1>2, InitModeInv, PTL DEF Spec

\* A minimization leaves every node of the program in the mode it had before,
\* whatever doEval restored meanwhile.
THEOREM ModesComeBack == Spec => GuardRestores
<1>1. ModeInv /\ [Next]_vars => ModeInv'
  BY StepModeInv
<1>2. ModeInv /\ [Next]_vars
        => [(guard # NoGuard /\ guard' = NoGuard) => mode' = guard.before]_vars
  BY StepModeInv
<1> QED BY <1>1, <1>2, InitModeInv, PTL DEF Spec, GuardRestores

\* Every variable stays what it is: the parameters and the caches hold values and
\* points, the calls in progress are of functions.
THEOREM TypeCorrect == Spec => []TypeOK
<1>1. ASSUME Inv PROVE TypeOK
  <2>1. ASSUME NEW i \in DOMAIN stack
        PROVE  stack[i].node \in Funcs /\ stack[i].left \subseteq Nodes /\ stack[i].acc \subseteq Leaves \X Points
    <3>1. stack[i] \in Frames
      BY <1>1, StackFacts
    <3> QED BY <3>1 DEF Frames
  <2>2. guard = NoGuard \/ guard.before \in [Nodes -> Modes]
    BY <1>1 DEF Inv, ModeInv, GuardConsistent
  <2> QED BY <1>1, <2>1, <2>2 DEF Inv, TypeInv, ModeInv, GraphTypeOK, TypeOK
<1>2. Inv /\ [Next]_vars => Inv'
  BY StepInv
<1> QED BY <1>1, <1>2, InitInv, PTL DEF Spec

\* Between evaluations a clean cache is the value of the parameters as they are, in
\* every acyclic expression graph and whatever was evaluated, sampled, redirected,
\* minimized and thrown before.
THEOREM CleanCachesAreCurrent == Spec => []CleanIsCurrent
<1>1. ASSUME Inv PROVE CleanIsCurrent
  <2>1. SUFFICES ASSUME Idle, NEW f \in Funcs, Clean(f), Below[f] \cap (unseen \cup aborted) = {}
                 PROVE  cache[f] = Worth(f)
    BY DEF CleanIsCurrent
  <2>2. /\ servers \in [Funcs -> SUBSET Nodes] /\ GraphOK(servers) /\ Funcs \subseteq Nodes /\ ModeInv
    BY <1>1, GraphFacts DEF Inv
  <2>3. \A n \in Nodes : Below[n] = Deps(servers, n)
    BY <2>2, BelowIs
  <2>4. Claim(f)
    <3>1. Before(f) = "Auto"
      BY <2>1, <2>2, BeforeMode DEF Clean
    <3> QED BY <2>1, <2>2, <2>3, <3>1 DEF Claim, Clean, Excluded
  <2>5. cache[f] = WorthAt(servers, val, f)
    BY <1>1, <2>1, <2>4, IdleFacts DEF Inv, CacheInv
  <2>6. WorthAt(servers, val, f) = Worth(f)
    <3>1. \A pdf \in servers[Sampler] \ {Sampled} : Below[pdf] = Deps(servers, pdf)
      BY <1>1, <2>2, <2>3, GraphFacts
    <3> QED BY <2>2, <2>3, <3>1 DEF WorthAt, SamplesIn, Worth
  <2> QED BY <2>5, <2>6
<1>2. Inv /\ [Next]_vars => Inv'
  BY StepInv
<1> QED BY <1>1, <1>2, InitInv, PTL DEF Spec
=============================================================================
