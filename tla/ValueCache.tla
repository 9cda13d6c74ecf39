----------------------------- MODULE ValueCache -----------------------------
(***************************************************************************)
(* The value caches of RooFit's expression graphs: RooAbsArg's dirty flags *)
(* and operation modes, RooAbsReal::getVal, and the three places that      *)
(* switch change tracking off for a while: RooBinSamplingPdf (globally),   *)
(* RooMinimizer (ADirty for all that shares a node with the likelihood)    *)
(* and RooAbsReal::doEval (AClean for the servers of one node).            *)
(*                                                                         *)
(* A value is the set of <<parameter, value>> pairs it was computed from,  *)
(* so that a cache tells which values of the parameters it is the value    *)
(* of.  One thread evaluates; an evaluation is a stack of calls.           *)
(***************************************************************************)
EXTENDS Naturals, Sequences, FiniteSets

CONSTANTS Leaves,       \* the RooRealVars
          Funcs,        \* the derived nodes
          Densities,    \* the RooAbsPdfs of them, asked with a normalization set
          Values,       \* what the program sets a RooRealVar to
          InitServers,  \* Funcs -> value servers
          Redirections, \* <<f, old, new>>: f may get new for its server old
          Optimized,    \* <<f, o>>: optimizeCacheMode(f, {o}) may be called
          Sampler,      \* the RooBinSamplingPdf of the graph
          Sampled,      \* its observable
          Samples,      \* the points its integrator visits, in order
          Graph,        \* the nodes of the Evaluator RooMinimizer minimizes
          Batch,        \* those of them without a doEval of their own
          Asked,        \* the nodes the program calls getVal of
          Failing,      \* the nodes whose evaluate() may throw
          NoGuard

ASSUME ConstantsAssumption ==
  /\ Leaves \cap Funcs = {}
  /\ InitServers \in [Funcs -> SUBSET (Leaves \cup Funcs)]
  /\ Redirections \subseteq Funcs \X (Leaves \cup Funcs) \X (Leaves \cup Funcs)
  /\ Optimized \subseteq Funcs \X Leaves
  /\ Densities \subseteq Funcs
  /\ Graph \subseteq (Leaves \cup Funcs) \ Densities
  /\ Batch \subseteq Funcs /\ Asked \subseteq Funcs
  /\ Sampler \in Densities /\ Sampled \in Leaves

Nodes == Leaves \cup Funcs

(* What f can have as a server.                                            *)
Possible(f) == InitServers[f] \cup {r[3] : r \in {q \in Redirections : q[1] = f}}

(* There are no cycles, whatever is redirected: some node of every set of  *)
(* nodes depends on none of them. A function in the Evaluator depends on   *)
(* something, and what it depends on is in the Evaluator too; the sampler  *)
(* has one density, its observable, and at least one point.                *)
ASSUME GraphAssumption ==
  /\ \A S \in (SUBSET Nodes) \ {{}} : \E n \in S : n \in Funcs => Possible(n) \cap S = {}
  /\ \A f \in Graph \cap Funcs : InitServers[f] # {} /\ Possible(f) \subseteq Graph
  /\ \E pdf \in Densities : InitServers[Sampler] = {pdf, Sampled}
  /\ \A r \in Redirections : r[1] = Sampler => r[2] # Sampled /\ r[3] \in Densities
  /\ Samples \in Seq({Samples[i] : i \in DOMAIN Samples}) /\ Samples # << >>

VARIABLES val,      \* _value of the RooRealVars
          servers,  \* value servers (and _clientListValue, its inverse)
          cache,    \* _value of the derived nodes
          dirty,    \* _valueDirty
          mode,     \* _operMode; AClean lasts no longer than a doEval
          inhibit,  \* RooAbsArg::_inhibitDirty
          stack,    \* getValV calls in progress
          guard,    \* the minimization in progress: its ChangeOperModeRAII,
                    \* the parameters contour() remembers, and the modes
                    \* before it as history
          unseen,   \* history: parameters whose last change set no flag
          aborted   \* history: nodes whose evaluation threw, flag cleared

vars == <<val, servers, cache, dirty, mode, inhibit, stack, guard,
          unseen, aborted>>
graph == <<servers, mode, guard>>

Modes == {"Auto", "ADirty"}

(* What a propagation from N reaches through the nodes in open only: all of*)
(* open but the sets that neither meet N nor have a server in open outside.*)
Reached(srv, N, open) ==
  open \ UNION {S \in SUBSET open :
                  /\ S \cap N = {}
                  /\ \A n \in S \cap Funcs : srv[n] \cap open \subseteq S}

(* Mutant of Dirtied: a node that has the flag already does not pass it on.*)
DirtiedOnTransition(n, inh) ==
  IF inh THEN {}
  ELSE Reached(servers, {n},
               {m \in Nodes : mode[m] = "Auto" /\ (m \in Leaves \/ ~dirty[m])})

(* RooAbsArg::setValueDirty: nodes out of Auto neither take the flag nor   *)
(* pass it on, and nothing happens while tracking is inhibited.            *)
Dirtied(n, inh) ==
  IF inh THEN {} ELSE Reached(servers, {n}, {m \in Nodes : mode[m] = "Auto"})

(* setOperMode(ADirty) of the nodes in N, clients included.                *)
MadeADirty(srv, N) ==
  LET hit == Reached(srv, N, {m \in Nodes : mode[m] # "ADirty"})
  IN  [n \in Nodes |-> IF n \in hit THEN "ADirty" ELSE mode[n]]

(* n and everything it depends on.                                         *)
Below[n \in Nodes] ==
  {n} \cup (IF n \in Funcs THEN UNION {Below[c] : c \in servers[n]} ELSE {})

---------------------------------------------------------------------------
Init ==
  /\ val \in [Leaves -> Values]
  /\ servers = InitServers
  /\ cache = [f \in Funcs |-> {}]
  /\ dirty = [n \in Nodes |-> TRUE]
  /\ mode = [n \in Nodes |-> "Auto"]
  /\ inhibit = FALSE
  /\ stack = << >>
  /\ guard = NoGuard
  /\ unseen = {} /\ aborted = {}

Idle == stack = << >>

(* The flags when a RooRealVar is set to v.                                *)
Flags(l, v, inh) ==
  [n \in Nodes |-> dirty[n] \/ (val[l] # v /\ n \in Dirtied(l, inh))]

(* RooRealVar::setVal by the program, or by the minimizer during its guard,*)
(* and the histories it bears on. The nodes of a fit got their flags before*)
(* it and keep them; a contour raises none for the caches it fills.        *)
SetVal(l, v) ==
  /\ Idle /\ val[l] # v
  /\ guard # NoGuard => l \in Graph
  /\ val' = [val EXCEPT ![l] = v]
  /\ dirty' = Flags(l, v, inhibit)
  /\ unseen' = CASE guard = NoGuard -> unseen \ {l}
                  [] guard # NoGuard /\ guard.kind = "fit" -> unseen
                  [] OTHER -> unseen \cup {l}
  /\ aborted' = aborted \ Dirtied(l, inhibit)
  /\ UNCHANGED <<cache, inhibit, stack, graph>>

---------------------------------------------------------------------------
(* RooAbsReal::getValV and RooAbsPdf::getValV, one call of evaluate() per  *)
(* frame.                                                                  *)
IsValueDirty(n) ==
  inhibit \/ mode[n] = "ADirty" \/ (mode[n] = "Auto" /\ dirty[n])

(* A density is recomputed for another normalization set or an integral    *)
(* that is out of date, too.                                               *)
MayEvaluate(n) == IsValueDirty(n) \/ n \in Densities

(* isValueDirtyAndClear: a function clears its flag, if it is heeded,      *)
(* before it is evaluated; a density, any flag, after.                     *)
ClearedFirst(n) == n \notin Densities /\ mode[n] = "Auto" /\ ~inhibit

Frame(n) ==
  [node |-> n,
   left |-> IF n = Sampler THEN {} ELSE servers[n],
   acc |-> IF n = Sampler THEN {<<Sampled, val[Sampled]>>} ELSE {},
   oldX |-> val[Sampled],
   points |-> IF n = Sampler THEN Samples ELSE << >>,
   flagged |-> ClearedFirst(n)]

Top == stack[Len(stack)]
WithTop(fr) == [stack EXCEPT ![Len(stack)] = fr]

Enter(n, st) ==
  /\ dirty' = IF ClearedFirst(n) THEN [dirty EXCEPT ![n] = FALSE] ELSE dirty
  /\ stack' = Append(st, Frame(n))
  /\ inhibit' = (inhibit \/ n = Sampler)

(* A frame ends: its node gets the value and so does the caller.           *)
Leave(flags) ==
  LET below == SubSeq(stack, 1, Len(stack) - 1)
      k == Len(below)
  IN  /\ cache' = [cache EXCEPT ![Top.node] = Top.acc]
      /\ dirty' = IF Top.node \in Densities THEN [flags EXCEPT ![Top.node] = FALSE]
                  ELSE flags
      /\ stack' = IF k = 0 THEN << >>
                  ELSE [below EXCEPT ![k].acc = @ \cup Top.acc]

(* The program asks for a value, or a job of the minimizer does of the     *)
(* nodes of its Evaluator.                                                 *)
GetVal(f) ==
  /\ Idle /\ MayEvaluate(f)
  /\ f \in IF guard = NoGuard THEN Asked ELSE Graph
  /\ Enter(f, stack)
  /\ UNCHANGED <<val, cache, unseen, aborted, graph>>

NextServer == CHOOSE s \in Top.left : TRUE
WithoutServer == [Top EXCEPT !.left = @ \ {NextServer}]

ReadServer ==
  /\ ~Idle /\ Top.left # {}
  /\ NextServer \in Leaves \/ ~IsValueDirty(NextServer)
  /\ stack' = WithTop([WithoutServer EXCEPT !.acc = @ \cup
                IF NextServer \in Leaves THEN {<<NextServer, val[NextServer]>>}
                ELSE cache[NextServer]])
  /\ UNCHANGED <<val, cache, dirty, inhibit, unseen, aborted, graph>>

EvaluateServer ==
  /\ ~Idle /\ Top.left # {}
  /\ NextServer \in Funcs /\ MayEvaluate(NextServer)
  /\ Enter(NextServer, WithTop(WithoutServer))
  /\ UNCHANGED <<val, cache, unseen, aborted, graph>>

Return ==
  /\ ~Idle /\ Top.left = {} /\ Top.node # Sampler
  /\ Leave(dirty)
  /\ UNCHANGED <<val, inhibit, unseen, aborted, graph>>

(* RooBinSamplingPdf::evaluate: the integrator moves the observable, which *)
(* sets no flag, and evaluates the density, whose flags say nothing now.   *)
SampleNext ==
  /\ ~Idle /\ Top.node = Sampler /\ Top.points # << >>
  /\ val' = [val EXCEPT ![Sampled] = Head(Top.points)]
  /\ \E pdf \in servers[Sampler] \ {Sampled} :
       stack' = Append(WithTop([Top EXCEPT !.points = Tail(@)]), Frame(pdf))
  /\ UNCHANGED <<cache, dirty, inhibit, unseen, aborted, graph>>

(* The destructor of DisableCachingRAII, then setVal(oldX).                *)
FinishSampling ==
  /\ ~Idle /\ Top.node = Sampler /\ Top.points = << >>
  /\ inhibit' = FALSE
  /\ val' = [val EXCEPT ![Sampled] = Top.oldX]
  /\ Leave(Flags(Sampled, Top.oldX, FALSE))
  /\ UNCHANGED <<unseen, aborted, graph>>

(* The modes after ~ChangeOperModeRAII, if there is one.                   *)
ModesBefore ==
  [n \in Nodes |-> IF guard # NoGuard /\ n \in DOMAIN guard.saved
                   THEN guard.saved[n] ELSE mode[n]]

(* evaluate() throws: the frames are unwound and the guards of the sampler *)
(* and of the minimizer destroyed; the sampler's setVal(oldX) and the end  *)
(* of contour() are not reached.                                           *)
Throw ==
  /\ ~Idle /\ Top.node \in Failing
  /\ LET frames == {stack[i] : i \in 1..Len(stack)}
     IN  /\ aborted' = aborted \cup {fr.node : fr \in {g \in frames : g.flagged}}
         /\ unseen' = IF \E fr \in frames :
                           fr.node = Sampler /\ fr.points # Samples
                      THEN unseen \cup {Sampled} ELSE unseen
  /\ stack' = << >>
  /\ inhibit' = FALSE
  /\ guard' = NoGuard
  /\ mode' = ModesBefore
  /\ UNCHANGED <<val, cache, dirty, servers>>

---------------------------------------------------------------------------
(* Evaluator::setOperModes(ADirty), held by RooMinimizer while Minuit runs.*)
GuardedNodes == Reached(servers, Graph, Nodes)

Guard(kind, nodes) ==
  [kind |-> kind,
   kept |-> [l \in IF kind = "contour" THEN Graph \cap Leaves ELSE {} |-> val[l]],
   saved |-> [n \in {m \in nodes : mode[m] # "ADirty"} |-> mode[n]],
   before |-> mode]

(* Synchronize, which minimize() and exec() call first but contour() does  *)
(* not: the parameters of the fit are set dirty.                           *)
Synchronized(kind) ==
  IF kind = "fit"
  THEN Reached(servers, Graph \cap Leaves, {m \in Nodes : mode[m] = "Auto"})
  ELSE {}

(* Mutants of GuardBegin: the clients outside the graph are not remembered,*)
(* no parameter is set dirty.                                              *)
GuardBeginOfGraph(kind) ==
  /\ Idle /\ guard = NoGuard
  /\ guard' = Guard(kind, Graph)
  /\ mode' = [n \in Nodes |-> IF n \in GuardedNodes THEN "ADirty" ELSE mode[n]]
  /\ UNCHANGED <<val, servers, cache, dirty, inhibit, stack, unseen, aborted>>

GuardBeginUnsynchronized(kind) ==
  /\ Idle /\ guard = NoGuard
  /\ guard' = Guard(kind, GuardedNodes)
  /\ mode' = [n \in Nodes |-> IF n \in GuardedNodes THEN "ADirty" ELSE mode[n]]
  /\ UNCHANGED <<val, servers, cache, dirty, inhibit, stack, unseen, aborted>>

(* minimize(), hesse() and minos() are fits. A contour() comes after a fit,*)
(* which may have been over before anything else happened.                 *)
GuardBegin(kind) ==
  /\ Idle /\ guard = NoGuard
  /\ guard' = Guard(kind, GuardedNodes)
  /\ mode' = [n \in Nodes |-> IF n \in GuardedNodes THEN "ADirty" ELSE mode[n]]
  /\ dirty' = [n \in Nodes |-> dirty[n] \/ n \in Synchronized(kind)]
  /\ unseen' = unseen \ Synchronized(kind)
  /\ aborted' = aborted \ Synchronized(kind)
  /\ UNCHANGED <<val, servers, cache, inhibit, stack>>

(* The parameters come back after a contour, where they set no flag, and   *)
(* then the modes: ~ChangeOperModeRAII.                                    *)
GuardEnd ==
  /\ Idle /\ guard # NoGuard
  /\ val' = [l \in Leaves |-> IF l \in DOMAIN guard.kept THEN guard.kept[l]
                              ELSE val[l]]
  /\ mode' = ModesBefore
  /\ guard' = NoGuard
  /\ UNCHANGED <<servers, cache, dirty, inhibit, stack, unseen, aborted>>

(* Mutant of DoEval: an exit without RestoreStateRAII.                     *)
DoEvalWithoutRestore(f) ==
  /\ Idle
  /\ mode' = [n \in Nodes |-> IF n \in servers[f] THEN "AClean" ELSE mode[n]]
  /\ UNCHANGED <<val, servers, cache, dirty, inhibit, stack, guard,
                 unseen, aborted>>

(* RooAbsReal::doEval of f: its servers are AClean with side-loaded values,*)
(* f is evaluated from them into the buffer of the Evaluator, and values,  *)
(* modes and flags are put back; a server that was ADirty takes its clients*)
(* with it.                                                                *)
DoEval(f) ==
  /\ Idle
  /\ LET own == {s \in servers[f] : mode[s] = "ADirty"}
         clients == {c \in Funcs : servers[c] \cap own # {}}
     IN  mode' = MadeADirty(servers, clients)
  /\ UNCHANGED <<val, servers, cache, dirty, inhibit, stack, guard,
                 unseen, aborted>>

(* optimizeCacheMode of f and all below it for the observable o.           *)
OptimizeCacheMode(f, o) ==
  /\ Idle /\ guard = NoGuard
  /\ mode' = MadeADirty(servers, {n \in Below[f] \cap Funcs : o \in Below[n]})
  /\ UNCHANGED <<val, servers, cache, dirty, inhibit, stack, guard,
                 unseen, aborted>>

(* Mutant of Redirect: the client does not take the mode of its new server.*)
RedirectKeepingMode(f, old, new) ==
  /\ Idle /\ guard = NoGuard
  /\ old \in servers[f]
  /\ LET srv == [servers EXCEPT ![f] = (@ \ {old}) \cup {new}]
         hit == Reached(srv, {f}, {m \in Nodes : mode[m] = "Auto"})
     IN  /\ servers' = srv
         /\ dirty' = [n \in Nodes |-> dirty[n] \/ n \in hit]
         /\ aborted' = aborted \ hit
  /\ UNCHANGED <<val, cache, mode, inhibit, stack, guard, unseen>>

(* redirectServers: substituteServer, the mode of the new server, and the  *)
(* value of the client out of date.                                        *)
Redirect(f, old, new) ==
  /\ Idle /\ guard = NoGuard
  /\ old \in servers[f]
  /\ LET srv == [servers EXCEPT ![f] = (@ \ {old}) \cup {new}]
         md == IF mode[new] = "ADirty" THEN MadeADirty(srv, {f}) ELSE mode
         hit == IF inhibit THEN {}
                ELSE Reached(srv, {f}, {m \in Nodes : md[m] = "Auto"})
     IN  /\ servers' = srv
         /\ mode' = md
         /\ dirty' = [n \in Nodes |-> dirty[n] \/ n \in hit]
         /\ aborted' = aborted \ hit
  /\ UNCHANGED <<val, cache, inhibit, stack, guard, unseen>>

Next ==
  \/ \E l \in Leaves, v \in Values : SetVal(l, v)
  \/ \E f \in Funcs : GetVal(f)
  \/ ReadServer \/ EvaluateServer \/ Return
  \/ SampleNext \/ FinishSampling
  \/ Throw
  \/ \E kind \in {"fit", "contour"} : GuardBegin(kind)
  \/ GuardEnd
  \/ \E f \in Batch : DoEval(f)
  \/ \E q \in Optimized : OptimizeCacheMode(q[1], q[2])
  \/ \E r \in Redirections : Redirect(r[1], r[2], r[3])

Spec == Init /\ [][Next]_vars

---------------------------------------------------------------------------
(* What f is worth now: the values of the parameters it depends on, and the*)
(* points of the sampler, if f depends on that and its density on them.    *)
Worth(f) ==
  {<<l, val[l]>> : l \in Leaves \cap Below[f]}
    \cup (IF Sampler \in Below[f] /\ \E pdf \in servers[Sampler] \ {Sampled} : Sampled \in Below[pdf]
          THEN {<<Sampled, Samples[i]>> : i \in DOMAIN Samples} ELSE {})

Points == Values \cup {Samples[i] : i \in DOMAIN Samples}

TypeOK ==
  /\ val \in [Leaves -> Points]
  /\ servers \in [Funcs -> SUBSET Nodes]
  /\ cache \in [Funcs -> SUBSET (Leaves \X Points)]
  /\ dirty \in [Nodes -> BOOLEAN]
  /\ mode \in [Nodes -> Modes]
  /\ inhibit \in BOOLEAN
  /\ \A i \in DOMAIN stack :
       /\ stack[i].node \in Funcs
       /\ stack[i].left \subseteq Nodes
       /\ stack[i].acc \subseteq Leaves \X Points
  /\ guard = NoGuard \/ guard.before \in [Nodes -> Modes]
  /\ unseen \subseteq Leaves
  /\ aborted \subseteq Funcs

(* The value getVal returns from a cache is the value of the present       *)
(* parameters: no order of settings, evaluations, samplings, exceptions,   *)
(* redirections, mode changes and fits leaves a clean node with an old     *)
(* value, unless it depends on a parameter that a contour or an aborted    *)
(* sampling moved, which set no flag, or on a function whose flag was      *)
(* cleared by an evaluation that threw; both stay so until the program     *)
(* sets a parameter, or a fit sets all of them dirty                       *)
(* (RooAbsArg::setValueDirty, RooAbsReal::getValV, RooAbsPdf::getValV,     *)
(* RooAbsMinimizerFcn::synchronizeParameterSettings).                      *)
Clean(f) == mode[f] = "Auto" /\ ~dirty[f]

CleanIsCurrent ==
  Idle => \A f \in Funcs :
            (Clean(f) /\ Below[f] \cap (unseen \cup aborted) = {})
               => cache[f] = Worth(f)

(* RooAbsReal::getValV: "If the cache is clean, return the cached value,   *)
(* otherwise recalculate on the fly and refill the cache": a clean cache   *)
(* was filled after the last change of its parameters, exceptions or not.  *)
(* Checked with a run that expects the violation: the flag of a function   *)
(* is cleared before evaluate(), and an evaluation that throws leaves it   *)
(* so. RooAbsPdf::getValV clears that of a density after.                  *)
CleanIsRefilled ==
  Idle => \A f \in Funcs :
            (Clean(f) /\ Below[f] \cap unseen = {}) => cache[f] = Worth(f)

(* Between evaluations every client of a node that is always recomputed is *)
(* always recomputed: no cache lies above a value without change tracking  *)
(* (setOperMode, substituteServer, Evaluator::setOperModes).               *)
ADirtyClosed ==
  \A f \in Funcs : \A s \in servers[f] :
     mode[s] = "ADirty" => mode[f] = "ADirty"

(* The end of a minimization gives every node of the program the mode it   *)
(* had before, those outside the likelihood that a doEval could reach too  *)
(* (Evaluator::setOperModes).                                              *)
GuardRestores ==
  [][(guard # NoGuard /\ guard' = NoGuard) => mode' = guard.before]_vars

=============================================================================
