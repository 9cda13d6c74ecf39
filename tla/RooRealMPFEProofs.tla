------------------------- MODULE RooRealMPFEProofs -------------------------
(***************************************************************************)
(* Proofs about RooRealMPFE.                                               *)
(*                                                                         *)
(* What the program receives was computed by servers that lag behind: the  *)
(* invariant does not speak of what a server is but of what it will be     *)
(* when it has read everything that is written for it, in its pipe and in  *)
(* the buffer of its client. A step of a server leaves that future as it   *)
(* is, and a step of the program changes it by the messages it writes.     *)
(***************************************************************************)
EXTENDS RooRealMPFE, SequenceTheorems, WellFoundedInduction, TLAPS

-----------------------------------------------------------------------------
(* Types *)

\* The parameters and weights an offset is computed of, and a term of the sum.
Origins == [at : Points, squared : BOOLEAN]
Terms == [at : Points, squared : BOOLEAN, minus : SUBSET Origins]

ServerStates ==
  [alive : BOOLEAN, vals : Points, mode : Modes, errors : Nat,
   squared : BOOLEAN, doOffset : BOOLEAN, offset : SUBSET Origins, otherOffset : SUBSET Origins,
   dirty : BOOLEAN, cached : Terms, value : Terms]

Switches == [type : {"EnableOffset", "ApplyNLLW2"}, flag : BOOLEAN]
Reals == [type : {"SendReal"}, idx : 1..NPar, val : Values]
Calculations == [type : {"Calculate", "CalculateNoOffset"}]
Logs == [type : {"LogEvalError"}, mode : Modes]
Messages == Switches \cup Reals \cup Calculations \cup Logs \cup [type : {"Retrieve", "Terminate"}]
Replies == [type : {"ReturnValue"}, value : Terms, errors : Nat] \cup [type : {"Terminate"}]

Phases == {"idle", "calculate", "get", "return", "standby", "handshake", "deleted"}

Types ==
  /\ params \in Points
  /\ dirty \in BOOLEAN /\ init \in BOOLEAN /\ inFit \in BOOLEAN
  /\ mode \in Modes
  /\ pc \in Phases
  /\ k \in Clients
  /\ part \in [Clients -> Terms]
  /\ reported \subseteq Clients
  /\ saved \in [Clients -> Points]
  /\ forced \in [Clients -> BOOLEAN]
  /\ changed \in [1..NPar -> BOOLEAN]
  /\ remote \in [Clients -> Modes]
  /\ buffer \in [Clients -> Seq(Switches)]
  /\ pipe \in [Clients -> Seq(Messages)]
  /\ reply \in [Clients -> Seq(Replies)]
  /\ server \in [Clients -> ServerStates]
  /\ asked \in [squared : BOOLEAN, doOffset : BOOLEAN]
  /\ silent \in BOOLEAN

-----------------------------------------------------------------------------
(* The pipes *)

\* A client has asked its server and has no answer yet.
Waits(i) == (pc = "calculate" /\ i < k) \/ (pc = "get" /\ i >= k)
Ends(i) == pc = "handshake" /\ i = k

\* The messages that ask for nothing.
Plain(seq) ==
  \A n \in DOMAIN seq : seq[n].type \in {"SendReal", "EnableOffset", "ApplyNLLW2", "LogEvalError"}

\* A calculation is followed by the question for its value, the question by new
\* logging modes, and the request to end by nothing.
Ordered(seq) ==
  /\ \A m, n \in DOMAIN seq : seq[m].type = "Retrieve" /\ m < n => seq[n].type = "LogEvalError"
  /\ \A m, n \in DOMAIN seq : seq[m].type = "Terminate" => n <= m
  /\ \A n \in DOMAIN seq : seq[n].type \in {"Calculate", "CalculateNoOffset"} =>
       n + 1 \in DOMAIN seq /\ seq[n + 1].type = "Retrieve"

\* One question and one answer at a time.
Questions(i) ==
  /\ Ordered(pipe[i])
  /\ \A n \in DOMAIN pipe[i] : pipe[i][n].type = "Retrieve" => Waits(i) /\ reply[i] = <<>>
  /\ \A n \in DOMAIN pipe[i] : pipe[i][n].type = "Terminate" => Ends(i) /\ reply[i] = <<>>
  /\ Waits(i) => buffer[i] = <<>>

Answers(i) ==
  reply[i] # <<>> =>
    /\ Len(reply[i]) = 1
    /\ Head(reply[i]).type = "ReturnValue" => Waits(i)
    /\ Head(reply[i]).type = "Terminate" => Ends(i)

\* An error that is not sent yet is of the calculation just done.
Errors(i) ==
  server[i].errors > 0 =>
    pipe[i] # <<>> /\ Head(pipe[i]).type = "Retrieve" /\ Bad(i, server[i].vals)

\* Before the processes are forked nothing is written.
Unforked ==
  ~init => /\ \A i \in Clients : buffer[i] = <<>> /\ pipe[i] = <<>> /\ reply[i] = <<>>
           /\ asked = [squared |-> FALSE, doOffset |-> FALSE]
           /\ dirty
           /\ pc = "calculate" => k = 1
           /\ pc \notin {"get", "standby", "handshake"}

PipeInv == Unforked /\ \A i \in Clients : Questions(i) /\ Answers(i) /\ Errors(i)

-----------------------------------------------------------------------------
(* The loop over the parameters *)

\* A set of natural numbers has a least element: induction, by the least number
\* for which a claim fails.
LEMMA LeastElement ==
  ASSUME NEW T \in SUBSET Nat, T # {}
  PROVE  \E x \in T : \A y \in T : x <= y
<1>1. PICK x \in T : \A y \in T : ~(<<y, x>> \in OpToRel(<, Nat))
  BY NatLessThanWellFounded, WFMin, Zenon
<1>2. \A y \in T : ~(y < x)
  BY <1>1, Zenon DEF OpToRel
<1> QED BY <1>2

\* What is sent for parameter j behind what was sent for those before it.
Further(i, j, seq) ==
  IF IsChanged(i, j)
    THEN Append(seq, [type |-> "SendReal", idx |-> j, val |-> params[j]])
    ELSE seq

\* The recursive definition has a solution.
LEMMA SendsIsDefined ==
  ASSUME ConstantsAssumption, NEW i
  PROVE  /\ Sends(i)[0] = <<>>
         /\ \A j \in 1..NPar : Sends(i)[j] = Further(i, j, Sends(i)[j - 1])
<1> DEFINE Sol(j, f) == /\ f = [n \in 0..j |-> f[n]]
                        /\ f[0] = <<>>
                        /\ \A n \in 1..j : f[n] = Further(i, n, f[n - 1])
           Failed == {j \in 0..NPar : ~\E f : Sol(j, f)}
           Eq(f) == f = [j \in 0..NPar |->
                          IF j = 0 THEN <<>>
                          ELSE IF IsChanged(i, j)
                               THEN Append(f[j - 1], [type |-> "SendReal", idx |-> j, val |-> params[j]])
                               ELSE f[j - 1]]
<1>0. NPar \in Nat
  BY DEF ConstantsAssumption
<1>1. Failed = {}
  <2>1. SUFFICES ASSUME Failed # {}
                 PROVE  FALSE
    OBVIOUS
  <2>2. PICK j \in Failed : \A n \in Failed : j <= n
    <3>1. Failed \in SUBSET Nat
      BY <1>0
    <3> HIDE DEF Failed
    <3> QED BY <2>1, <3>1, LeastElement
  <2>3. j \in 0..NPar /\ ~\E f : Sol(j, f)
    BY <2>2
  <2>4. Sol(0, [n \in 0..0 |-> <<>>])
    BY <1>0
  <2>5. j # 0
    BY <2>3, <2>4
  <2>6. j - 1 \in 0..NPar /\ j - 1 \notin Failed
    <3>1. j - 1 \in 0..NPar /\ ~(j <= j - 1)
      BY <1>0, <2>3, <2>5
    <3> HIDE DEF Failed
    <3> QED BY <2>2, <3>1
  <2>7. PICK f : Sol(j - 1, f)
    BY <2>6
  <2> DEFINE g == [n \in 0..j |-> IF n = j THEN Further(i, j, f[j - 1]) ELSE f[n]]
  <2>8. g = [n \in 0..j |-> g[n]]
    OBVIOUS
  <2>9. g[0] = <<>>
    BY <1>0, <2>3, <2>5, <2>7
  <2>10. ASSUME NEW n \in 1..j
         PROVE  g[n] = Further(i, n, g[n - 1])
    <3>1. n \in 0..j /\ n - 1 \in 0..j /\ n - 1 # j
      BY <1>0, <2>3
    <3>2. g[n - 1] = f[n - 1]
      BY <3>1
    <3>3. CASE n = j
      BY <3>1, <3>2, <3>3
    <3>4. CASE n # j
      <4>1. n \in 1..(j - 1)
        BY <1>0, <2>3, <3>4
      <4>2. f[n] = Further(i, n, f[n - 1])
        BY <2>7, <4>1
      <4> QED BY <3>1, <3>2, <3>4, <4>2
    <3> QED BY <3>3, <3>4
  <2>11. Sol(j, g)
    <3> HIDE DEF g
    <3> QED BY <2>8, <2>9, <2>10
  <2> QED BY <2>3, <2>11
<1>2. PICK f : Sol(NPar, f)
  BY <1>0, <1>1
<1>3. Eq(f)
  <2>1. f = [n \in 0..NPar |-> f[n]]
    BY <1>2
  <2>2. ASSUME NEW j \in 0..NPar
        PROVE  f[j] = IF j = 0 THEN <<>>
                      ELSE IF IsChanged(i, j)
                           THEN Append(f[j - 1], [type |-> "SendReal", idx |-> j, val |-> params[j]])
                           ELSE f[j - 1]
    <3>1. CASE j = 0
      BY <1>2, <3>1
    <3>2. CASE j # 0
      <4>1. j \in 1..NPar
        BY <1>0, <3>2
      <4>2. f[j] = Further(i, j, f[j - 1])
        BY <1>2, <4>1
      <4> QED BY <3>2, <4>2 DEF Further
    <3> QED BY <3>1, <3>2
  <2> QED BY <2>1, <2>2
<1>4. Sends(i) = CHOOSE h : Eq(h)
  BY DEF Sends
<1>5. Eq(Sends(i))
  <2> HIDE DEF Eq
  <2> QED BY <1>3, <1>4
<1>6. Sends(i)[0] = <<>>
  BY <1>0, <1>5
<1>7. ASSUME NEW j \in 1..NPar
      PROVE  Sends(i)[j] = Further(i, j, Sends(i)[j - 1])
  <2>1. j \in 0..NPar /\ j # 0
    BY <1>0
  <2> HIDE DEF Failed, Sol
  <2> QED BY <1>5, <2>1 DEF Further
<1> QED BY <1>6, <1>7

-----------------------------------------------------------------------------
(* What a message does *)

\* What a message does to the state of a server.
Effect(i, s, msg) ==
  CASE msg.type = "SendReal" ->
         [s EXCEPT !.vals = [@ EXCEPT ![msg.idx] = msg.val], !.dirty = @ \/ s.vals[msg.idx] # msg.val]
    [] msg.type \in {"Calculate", "CalculateNoOffset"} ->
         LET t == IF s.dirty THEN EvaluatePartition(i, s) ELSE s
         IN  [t EXCEPT !.value = IF msg.type = "Calculate" THEN Hidden(t) ELSE t.cached]
    [] msg.type = "Retrieve" -> [s EXCEPT !.errors = 0]
    [] msg.type = "EnableOffset" ->
         [s EXCEPT !.doOffset = msg.flag, !.offset = IF msg.flag THEN @ ELSE {}, !.dirty = TRUE]
    [] msg.type = "ApplyNLLW2" -> WeightSquared(s, msg.flag)
    [] msg.type = "LogEvalError" -> [s EXCEPT !.mode = msg.mode]
    [] msg.type = "Terminate" -> [s EXCEPT !.alive = FALSE]

LEMMA EvaluatedType ==
  ASSUME NEW i, NEW s \in ServerStates
  PROVE  EvaluatePartition(i, s) \in ServerStates
<1> DEFINE here == [at |-> s.vals, squared |-> s.squared]
           off == IF s.doOffset /\ s.offset = {} /\ ~Zero(i, here) THEN {here} ELSE s.offset
<1>1. here \in Origins /\ off \in SUBSET Origins
  BY DEF ServerStates, Origins
<1>2. Part(s.vals, s.squared, IF s.doOffset THEN off ELSE {}) \in Terms
  BY <1>1 DEF ServerStates, Part, Terms
<1>3. (IF Bad(i, s.vals) /\ s.mode # "PrintErrors" THEN s.errors + 1 ELSE s.errors) \in Nat
  BY DEF ServerStates
<1> HIDE DEF off
<1> QED BY <1>1, <1>2, <1>3 DEF EvaluatePartition, ServerStates, off

LEMMA HiddenType ==
  ASSUME NEW s \in ServerStates
  PROVE  Hidden(s) \in Terms /\ Hidden(s).at = s.cached.at /\ Hidden(s).squared = s.cached.squared
  BY DEF ServerStates, Terms, Hidden

LEMMA EffectType ==
  ASSUME NEW i, NEW s \in ServerStates, NEW msg \in Messages
  PROVE  Effect(i, s, msg) \in ServerStates
<1>1. CASE msg \in Reals
  <2>1. [s.vals EXCEPT ![msg.idx] = msg.val] \in Points
    BY <1>1 DEF ServerStates, Reals, Points
  <2>2. (s.dirty \/ s.vals[msg.idx] # msg.val) \in BOOLEAN
    OBVIOUS
  <2> QED BY <1>1, <2>1, <2>2 DEF Effect, ServerStates, Reals
<1>2. CASE msg \in Calculations
  <2> DEFINE t == IF s.dirty THEN EvaluatePartition(i, s) ELSE s
  <2>1. t \in ServerStates
    BY EvaluatedType
  <2> HIDE DEF t
  <2>2. Hidden(t) \in Terms /\ t.cached \in Terms
    BY <2>1, HiddenType DEF ServerStates
  <2>3. [t EXCEPT !.value = IF msg.type = "Calculate" THEN Hidden(t) ELSE t.cached] \in ServerStates
    BY <2>1, <2>2 DEF ServerStates
  <2> QED BY <1>2, <2>3 DEF Effect, Calculations, t
<1>3. CASE msg \in Switches
  BY <1>3 DEF Effect, Switches, ServerStates, WeightSquared
<1>4. CASE msg \in Logs
  BY <1>4 DEF Effect, Logs, ServerStates
<1>5. CASE msg \in [type : {"Retrieve", "Terminate"}]
  BY <1>5 DEF Effect, ServerStates
<1> QED BY <1>1, <1>2, <1>3, <1>4, <1>5 DEF Messages

-----------------------------------------------------------------------------
(* What a sequence of messages does *)

\* Server i, in state s, is in state t when it has read these messages.
Leads(i, s, seq, t) ==
  \E f \in [0..Len(seq) -> ServerStates] :
     /\ f[0] = s /\ f[Len(seq)] = t
     /\ \A n \in 1..Len(seq) : f[n] = Effect(i, f[n - 1], seq[n])

LEMMA LeadsNowhere ==
  ASSUME NEW i, NEW s \in ServerStates
  PROVE  Leads(i, s, <<>>, s)
<1> DEFINE f == [n \in 0..0 |-> s]
<1>1. f \in [0..Len(<<>>) -> ServerStates] /\ f[0] = s /\ f[Len(<<>>)] = s
  OBVIOUS
<1>2. \A n \in 1..Len(<<>>) : f[n] = Effect(i, f[n - 1], (<<>>)[n])
  OBVIOUS
<1> HIDE DEF f
<1> QED BY <1>1, <1>2 DEF Leads

LEMMA LeadsType ==
  ASSUME NEW i, NEW s, NEW t, NEW seq \in Seq(Messages), Leads(i, s, seq, t)
  PROVE  s \in ServerStates /\ t \in ServerStates
  BY LenProperties DEF Leads

\* One more message at the end.
LEMMA LeadsFurther ==
  ASSUME NEW i, NEW s, NEW t, NEW seq \in Seq(Messages), NEW msg \in Messages, Leads(i, s, seq, t)
  PROVE  Leads(i, s, Append(seq, msg), Effect(i, t, msg))
<1>1. PICK f \in [0..Len(seq) -> ServerStates] :
         /\ f[0] = s /\ f[Len(seq)] = t
         /\ \A n \in 1..Len(seq) : f[n] = Effect(i, f[n - 1], seq[n])
  BY DEF Leads
<1> DEFINE all == Append(seq, msg)
           g == [n \in 0..Len(all) |-> IF n = Len(all) THEN Effect(i, t, msg) ELSE f[n]]
<1>2. /\ all \in Seq(Messages) /\ Len(seq) \in Nat /\ Len(all) = Len(seq) + 1
      /\ \A n \in 1..Len(seq) : all[n] = seq[n]
      /\ all[Len(seq) + 1] = msg
  BY AppendProperties, LenProperties
<1> HIDE DEF all
<1>3. t \in ServerStates /\ Effect(i, t, msg) \in ServerStates
  BY LeadsType, EffectType
<1>4. g \in [0..Len(all) -> ServerStates] /\ g[0] = s /\ g[Len(all)] = Effect(i, t, msg)
  BY <1>1, <1>2, <1>3
<1>5. ASSUME NEW n \in 1..Len(all)
      PROVE  g[n] = Effect(i, g[n - 1], all[n])
  <2>1. g[n - 1] = f[n - 1] /\ n - 1 \in 0..Len(seq) /\ n \in 0..Len(all)
    BY <1>2
  <2>2. CASE n = Len(all)
    BY <1>1, <1>2, <2>1, <2>2
  <2>3. CASE n # Len(all)
    <3>1. n \in 1..Len(seq) /\ g[n] = f[n]
      BY <1>2, <2>3
    <3>2. f[n] = Effect(i, f[n - 1], seq[n]) /\ all[n] = seq[n]
      BY <1>1, <1>2, <3>1
    <3> QED BY <2>1, <3>1, <3>2
  <2> QED BY <2>2, <2>3
<1> HIDE DEF g
<1> QED BY <1>4, <1>5 DEF Leads, all

\* One message less at the beginning, when the server has read it.
LEMMA LeadsOn ==
  ASSUME NEW i, NEW s, NEW t, NEW seq \in Seq(Messages), seq # <<>>, Leads(i, s, seq, t)
  PROVE  Leads(i, Effect(i, s, Head(seq)), Tail(seq), t)
<1>1. PICK f \in [0..Len(seq) -> ServerStates] :
         /\ f[0] = s /\ f[Len(seq)] = t
         /\ \A n \in 1..Len(seq) : f[n] = Effect(i, f[n - 1], seq[n])
  BY DEF Leads
<1> DEFINE rest == Tail(seq)
           g == [n \in 0..Len(rest) |-> f[n + 1]]
<1>2. /\ rest \in Seq(Messages) /\ Len(seq) \in Nat \ {0} /\ Len(rest) = Len(seq) - 1
      /\ \A n \in 1..Len(rest) : rest[n] = seq[n + 1]
      /\ Head(seq) = seq[1]
  BY HeadTailProperties, EmptySeq
<1> HIDE DEF rest
<1>3. f[1] = Effect(i, s, Head(seq))
  BY <1>1, <1>2
<1>4. g \in [0..Len(rest) -> ServerStates] /\ g[0] = Effect(i, s, Head(seq)) /\ g[Len(rest)] = t
  BY <1>1, <1>2, <1>3
<1>5. ASSUME NEW n \in 1..Len(rest)
      PROVE  g[n] = Effect(i, g[n - 1], rest[n])
  <2>1. n + 1 \in 1..Len(seq) /\ g[n] = f[n + 1] /\ g[n - 1] = f[n]
    BY <1>2
  <2>2. f[n + 1] = Effect(i, f[(n + 1) - 1], seq[n + 1])
    BY <1>1, <2>1
  <2>3. (n + 1) - 1 = n
    OBVIOUS
  <2> QED BY <1>2, <2>1, <2>2, <2>3
<1> HIDE DEF g
<1> QED BY <1>4, <1>5 DEF Leads, rest

\* Messages behind messages.
LEMMA LeadsJoined ==
  ASSUME NEW i, NEW s, NEW t, NEW u, NEW p \in Seq(Messages), NEW q \in Seq(Messages),
         Leads(i, s, p, t), Leads(i, t, q, u)
  PROVE  Leads(i, s, p \o q, u)
<1>1. PICK f \in [0..Len(p) -> ServerStates] :
         /\ f[0] = s /\ f[Len(p)] = t
         /\ \A n \in 1..Len(p) : f[n] = Effect(i, f[n - 1], p[n])
  BY DEF Leads
<1>2. PICK g \in [0..Len(q) -> ServerStates] :
         /\ g[0] = t /\ g[Len(q)] = u
         /\ \A n \in 1..Len(q) : g[n] = Effect(i, g[n - 1], q[n])
  BY DEF Leads
<1> DEFINE all == p \o q
           h == [n \in 0..Len(all) |-> IF n <= Len(p) THEN f[n] ELSE g[n - Len(p)]]
<1>3. /\ all \in Seq(Messages) /\ Len(p) \in Nat /\ Len(q) \in Nat /\ Len(all) = Len(p) + Len(q)
      /\ \A n \in 1..Len(all) : all[n] = IF n <= Len(p) THEN p[n] ELSE q[n - Len(p)]
  BY ConcatProperties, LenProperties
<1> HIDE DEF all
<1>4. h \in [0..Len(all) -> ServerStates] /\ h[0] = s
  BY <1>1, <1>2, <1>3
<1>5. h[Len(all)] = u
  BY <1>1, <1>2, <1>3
<1>6. ASSUME NEW n \in 1..Len(all)
      PROVE  h[n] = Effect(i, h[n - 1], all[n])
  <2>1. n \in 0..Len(all) /\ n - 1 \in 0..Len(all)
    BY <1>3
  <2>2. CASE n <= Len(p)
    <3>1. n \in 1..Len(p) /\ h[n] = f[n] /\ h[n - 1] = f[n - 1] /\ all[n] = p[n]
      BY <1>3, <2>1, <2>2
    <3> QED BY <1>1, <3>1
  <2>3. CASE ~(n <= Len(p))
    <3> DEFINE m == n - Len(p)
    <3>1. m \in 1..Len(q) /\ h[n] = g[m] /\ all[n] = q[m]
      BY <1>3, <2>1, <2>3
    <3>2. h[n - 1] = g[m - 1]
      <4>1. CASE m = 1
        <5>1. n - 1 = Len(p)
          BY <1>3, <2>3, <4>1
        <5> QED BY <1>1, <1>2, <1>3, <2>1, <4>1, <5>1
      <4>2. CASE m # 1
        <5>1. ~(n - 1 <= Len(p)) /\ (n - 1) - Len(p) = m - 1
          BY <1>3, <2>3, <4>2
        <5> QED BY <1>3, <2>1, <5>1
      <4> QED BY <4>1, <4>2
    <3>3. g[m] = Effect(i, g[m - 1], q[m])
      BY <1>2, <3>1
    <3> QED BY <3>1, <3>2, <3>3
  <2> QED BY <2>2, <2>3
<1> HIDE DEF h
<1> QED BY <1>4, <1>5, <1>6 DEF Leads, all

\* New logging modes change neither what was computed nor of what.
LEMMA LeadsQuietly ==
  ASSUME NEW i, NEW s, NEW t, NEW seq \in Seq(Messages), Leads(i, s, seq, t),
         \A n \in DOMAIN seq : seq[n].type = "LogEvalError"
  PROVE  t.vals = s.vals /\ t.value = s.value
<1>1. PICK f \in [0..Len(seq) -> ServerStates] :
         /\ f[0] = s /\ f[Len(seq)] = t
         /\ \A n \in 1..Len(seq) : f[n] = Effect(i, f[n - 1], seq[n])
  BY DEF Leads
<1>2. Len(seq) \in Nat /\ DOMAIN seq = 1..Len(seq)
  BY LenProperties
<1> DEFINE Failed == {n \in 0..Len(seq) : ~(f[n].vals = s.vals /\ f[n].value = s.value)}
<1>3. Failed = {}
  <2>1. SUFFICES ASSUME Failed # {}
                 PROVE  FALSE
    OBVIOUS
  <2>2. PICK n \in Failed : \A m \in Failed : n <= m
    <3>1. Failed \in SUBSET Nat
      BY <1>2
    <3> HIDE DEF Failed
    <3> QED BY <2>1, <3>1, LeastElement
  <2>3. n # 0 /\ n \in 1..Len(seq) /\ n - 1 \in 0..Len(seq) /\ n - 1 \notin Failed
    <3>1. n \in 0..Len(seq) /\ n # 0
      BY <1>1, <2>2
    <3>2. n \in 1..Len(seq) /\ n - 1 \in 0..Len(seq) /\ ~(n <= n - 1)
      BY <1>2, <3>1
    <3> HIDE DEF Failed
    <3> QED BY <2>2, <3>1, <3>2
  <2>4. f[n] = [f[n - 1] EXCEPT !.mode = seq[n].mode]
    BY <1>1, <1>2, <2>3 DEF Effect
  <2>5. f[n - 1] \in ServerStates
    BY <1>1, <2>3
  <2>6. f[n].vals = f[n - 1].vals /\ f[n].value = f[n - 1].value
    BY <2>4, <2>5 DEF ServerStates
  <2> QED BY <2>2, <2>3, <2>6
<1> QED BY <1>1, <1>2, <1>3

-----------------------------------------------------------------------------
(* What a client writes for a calculation *)

LEMMA LeadsLoop ==
  ASSUME ConstantsAssumption, params \in Points, NEW i, NEW t \in ServerStates,
         \A j \in 1..NPar : IsChanged(i, j) \/ t.vals[j] = params[j]
  PROVE  /\ Sends(i)[NPar] \in Seq(Reals)
         /\ Leads(i, t, Sends(i)[NPar],
                  [t EXCEPT !.vals = params, !.dirty = t.dirty \/ t.vals # params])
<1> DEFINE At(j) == [n \in 1..NPar |-> IF n <= j THEN params[n] ELSE t.vals[n]]
           To(j) == [t EXCEPT !.vals = At(j), !.dirty = t.dirty \/ \E n \in 1..j : t.vals[n] # params[n]]
           Claim(j) == Sends(i)[j] \in Seq(Reals) /\ Leads(i, t, Sends(i)[j], To(j))
           Failed == {j \in 0..NPar : ~Claim(j)}
<1>0. NPar \in Nat
  BY DEF ConstantsAssumption
<1>1. t.vals \in [1..NPar -> Values] /\ params \in [1..NPar -> Values] /\ t.dirty \in BOOLEAN
  BY DEF ServerStates, Points
<1>2. Claim(0)
  <2>1. At(0) = t.vals
    BY <1>0, <1>1
  <2>2. (t.dirty \/ \E n \in 1..0 : t.vals[n] # params[n]) = t.dirty
    BY <1>1
  <2>3. To(0) = t
    <3> HIDE DEF At
    <3>1. To(0) = [t EXCEPT !.vals = t.vals, !.dirty = t.dirty]
      BY <2>1, <2>2
    <3> QED BY <3>1 DEF ServerStates
  <2>4. Sends(i)[0] = <<>> /\ <<>> \in Seq(Reals)
    BY SendsIsDefined
  <2>5. Leads(i, t, <<>>, t)
    BY LeadsNowhere
  <2> HIDE DEF To
  <2> QED BY <2>3, <2>4, <2>5
<1>3. ASSUME NEW j \in 1..NPar, Claim(j - 1)
      PROVE  Claim(j)
  <2>0. j \in Nat /\ j >= 1 /\ j <= NPar
    BY <1>0
  <2>1. Sends(i)[j] = Further(i, j, Sends(i)[j - 1])
    BY SendsIsDefined
  <2>2. CASE IsChanged(i, j)
    <3> DEFINE msg == [type |-> "SendReal", idx |-> j, val |-> params[j]]
    <3>1. msg \in Reals /\ Reals \subseteq Messages
      BY <1>1 DEF Reals, Messages
    <3>2. Sends(i)[j] = Append(Sends(i)[j - 1], msg)
      BY <2>1, <2>2 DEF Further
    <3>3. Effect(i, To(j - 1), msg) = To(j)
      <4>1. [At(j - 1) EXCEPT ![j] = params[j]] = At(j)
        <5>1. ASSUME NEW n \in 1..NPar
              PROVE  [At(j - 1) EXCEPT ![j] = params[j]][n] = At(j)[n]
          <6>1. CASE n = j
            BY <2>0, <6>1
          <6>2. CASE n # j
            BY <1>0, <2>0, <6>2
          <6> QED BY <6>1, <6>2
        <5> QED BY <5>1
      <4>2. At(j - 1)[j] = t.vals[j]
        BY <1>1, <2>0
      <4>3. (\E n \in 1..j : t.vals[n] # params[n]) <=>
              ((\E n \in 1..(j - 1) : t.vals[n] # params[n]) \/ t.vals[j] # params[j])
        BY <2>0
      <4> HIDE DEF At
      <4>4. Effect(i, To(j - 1), msg) =
              [To(j - 1) EXCEPT !.vals = [@ EXCEPT ![j] = params[j]],
                                !.dirty = @ \/ To(j - 1).vals[j] # params[j]]
        BY DEF Effect
      <4>5. To(j - 1).vals = At(j - 1)
        BY DEF ServerStates
      <4>6. To(j - 1).dirty = (t.dirty \/ \E n \in 1..(j - 1) : t.vals[n] # params[n])
        BY DEF ServerStates
      <4>7. ((t.dirty \/ \E n \in 1..(j - 1) : t.vals[n] # params[n]) \/ t.vals[j] # params[j])
              = (t.dirty \/ \E n \in 1..j : t.vals[n] # params[n])
        BY <4>3
      <4> DEFINE dj == t.dirty \/ \E n \in 1..j : t.vals[n] # params[n]
      <4>8. Effect(i, To(j - 1), msg) = [To(j - 1) EXCEPT !.vals = At(j), !.dirty = dj]
        <5> HIDE DEF To, At
        <5> QED BY <4>1, <4>2, <4>4, <4>5, <4>6, <4>7
      <4> HIDE DEF At, dj
      <4>9. [To(j - 1) EXCEPT !.vals = At(j), !.dirty = dj] = [t EXCEPT !.vals = At(j), !.dirty = dj]
        BY DEF ServerStates
      <4> QED BY <4>8, <4>9 DEF dj
    <3> HIDE DEF To, msg
    <3>4. Sends(i)[j - 1] \in Seq(Reals)
      BY <1>3
    <3>5. Sends(i)[j] \in Seq(Reals)
      BY <3>1, <3>2, <3>4, AppendProperties
    <3>6. Sends(i)[j - 1] \in Seq(Messages) /\ msg \in Messages
      BY <3>1, <3>4, SeqMonotonic
    <3> QED BY <1>3, <3>2, <3>3, <3>5, <3>6, LeadsFurther
  <2>3. CASE ~IsChanged(i, j)
    <3>1. t.vals[j] = params[j]
      BY <2>3
    <3>2. At(j) = At(j - 1)
      BY <2>0, <3>1
    <3>3. (\E n \in 1..j : t.vals[n] # params[n]) <=> (\E n \in 1..(j - 1) : t.vals[n] # params[n])
      BY <2>0, <3>1
    <3>4. To(j) = To(j - 1)
      <4> HIDE DEF At
      <4> QED BY <3>2, <3>3
    <3>5. Sends(i)[j] = Sends(i)[j - 1]
      BY <2>1, <2>3 DEF Further
    <3> HIDE DEF To
    <3> QED BY <1>3, <3>4, <3>5
  <2> QED BY <2>2, <2>3
<1>4. Failed = {}
  <2> HIDE DEF Claim
  <2>1. SUFFICES ASSUME Failed # {}
                 PROVE  FALSE
    OBVIOUS
  <2>2. PICK j \in Failed : \A n \in Failed : j <= n
    <3>1. Failed \in SUBSET Nat
      BY <1>0
    <3> HIDE DEF Failed
    <3> QED BY <2>1, <3>1, LeastElement
  <2>3. j # 0 /\ j \in 1..NPar /\ j - 1 \in 0..NPar /\ j - 1 \notin Failed
    <3>1. j \in 0..NPar /\ j # 0
      BY <1>2, <2>2
    <3>2. j \in 1..NPar /\ j - 1 \in 0..NPar /\ ~(j <= j - 1)
      BY <1>0, <3>1
    <3> HIDE DEF Failed
    <3> QED BY <2>2, <3>1, <3>2
  <2> QED BY <1>3, <2>2, <2>3
<1>5. Claim(NPar)
  <2> HIDE DEF Claim
  <2> QED BY <1>0, <1>4
<1>6. At(NPar) = params
  BY <1>0, <1>1
<1>7. (t.dirty \/ \E n \in 1..NPar : t.vals[n] # params[n]) = (t.dirty \/ t.vals # params)
  BY <1>1
<1>8. To(NPar) = [t EXCEPT !.vals = params, !.dirty = t.dirty \/ t.vals # params]
  <2> HIDE DEF At
  <2> QED BY <1>6, <1>7
<1> HIDE DEF To
<1> QED BY <1>5, <1>8

\* What a clean server has is of its parameters and weights, the offset of a kind
\* of weights is of that kind, and it is missing only where there is no value.
Here(at, squared) == [at |-> at, squared |-> squared]

Sound(i, s) ==
  /\ ~s.dirty => /\ s.cached = Part(s.vals, s.squared, IF s.doOffset THEN s.offset ELSE {})
                 /\ s.doOffset => s.offset # {} \/ Zero(i, Here(s.vals, s.squared))
  /\ \A x \in s.offset : x.squared = s.squared
  /\ \A x \in s.otherOffset : x.squared # s.squared

\* The offset of partition i after an evaluation.
Offset(i, doOffset, offset, here) ==
  IF doOffset /\ offset = {} /\ ~Zero(i, here) THEN {here} ELSE offset

\* Two partitions that are evaluated at the same point still agree.
LEMMA AgreeAfter ==
  ASSUME NEW i, NEW j, NEW A, NEW B, Agree(i, j, A, B), Agree(j, i, B, A), NEW doOffset, NEW here
  PROVE  Agree(i, j, Offset(i, doOffset, A, here), Offset(j, doOffset, B, here))
  BY DEF Agree, Offset

LEMMA CalculationEffect ==
  ASSUME NEW i, NEW s \in ServerStates, Sound(i, s), NEW calc \in {"Calculate", "CalculateNoOffset"},
         NEW u, u = Effect(i, s, [type |-> calc])
  PROVE  /\ u.vals = s.vals /\ u.squared = s.squared /\ u.doOffset = s.doOffset
         /\ u.otherOffset = s.otherOffset /\ ~u.dirty /\ Sound(i, u)
         /\ u.offset = Offset(i, s.doOffset, s.offset, Here(s.vals, s.squared))
         /\ u.value.at = s.vals /\ u.value.squared = s.squared
         /\ calc = "CalculateNoOffset" => u.value.minus = IF s.doOffset THEN u.offset ELSE {}
<1> DEFINE v == IF s.dirty THEN EvaluatePartition(i, s) ELSE s
           value == IF calc = "Calculate" THEN Hidden(v) ELSE v.cached
<1>1. u = [v EXCEPT !.value = value]
  BY DEF Effect
<1>2. v \in ServerStates
  BY EvaluatedType
<1>3. /\ v.vals = s.vals /\ v.squared = s.squared /\ v.doOffset = s.doOffset
      /\ v.otherOffset = s.otherOffset /\ ~v.dirty
      /\ v.offset = Offset(i, s.doOffset, s.offset, Here(s.vals, s.squared))
      /\ v.cached = Part(s.vals, s.squared, IF s.doOffset THEN v.offset ELSE {})
      /\ v.doOffset => v.offset # {} \/ Zero(i, Here(s.vals, s.squared))
  <2>1. CASE s.dirty
    BY <2>1 DEF EvaluatePartition, Offset, ServerStates, Here
  <2>2. CASE ~s.dirty
    BY <2>2 DEF Sound, Offset, ServerStates
  <2> QED BY <2>1, <2>2
<1>4. \A x \in v.offset : x.squared = s.squared
  BY <1>3 DEF Sound, Offset, Here
<1> HIDE DEF v
<1>5. /\ value.at = s.vals /\ value.squared = s.squared
      /\ calc = "CalculateNoOffset" => value = v.cached
  BY <1>2, <1>3, HiddenType DEF Part
<1>6. v.cached.minus = IF s.doOffset THEN v.offset ELSE {}
  BY <1>3 DEF Part
<1> HIDE DEF value
<1>7. /\ u.vals = v.vals /\ u.squared = v.squared /\ u.doOffset = v.doOffset
      /\ u.otherOffset = v.otherOffset /\ u.dirty = v.dirty /\ u.offset = v.offset
      /\ u.cached = v.cached /\ u.value = value
  BY <1>1, <1>2 DEF ServerStates
<1>8. Sound(i, u)
  BY <1>3, <1>4, <1>7 DEF Sound
<1> QED BY <1>3, <1>5, <1>6, <1>7, <1>8

\* The parameters as they are: what was clean for others is not.
LEMMA MovedIsSound ==
  ASSUME params \in Points, NEW i, NEW t \in ServerStates, Sound(i, t),
         NEW s, s = [t EXCEPT !.vals = params, !.dirty = t.dirty \/ t.vals # params]
  PROVE  /\ s \in ServerStates /\ Sound(i, s)
         /\ s.vals = params /\ s.squared = t.squared /\ s.doOffset = t.doOffset
         /\ s.offset = t.offset /\ s.otherOffset = t.otherOffset
<1>1. (t.dirty \/ t.vals # params) \in BOOLEAN
  OBVIOUS
<1>2. /\ s \in ServerStates
      /\ s.vals = params /\ s.squared = t.squared /\ s.doOffset = t.doOffset
      /\ s.offset = t.offset /\ s.otherOffset = t.otherOffset /\ s.cached = t.cached
  BY <1>1 DEF ServerStates
<1>3. s.dirty <=> t.dirty \/ t.vals # params
  BY DEF ServerStates
<1>4. Sound(i, s)
  BY <1>2, <1>3 DEF Sound
<1> QED BY <1>2, <1>4

\* All that is written for a calculation.
Request(i, calc) == Sends(i)[NPar] \o << [type |-> calc], [type |-> "Retrieve"] >>

\* What it makes of t.
Calculated(i, t, u, calc) ==
  /\ u.vals = params /\ u.squared = t.squared /\ u.doOffset = t.doOffset
  /\ u.otherOffset = t.otherOffset /\ ~u.dirty /\ Sound(i, u)
  /\ u.offset = Offset(i, t.doOffset, t.offset, Here(params, t.squared))
  /\ u.value.at = params /\ u.value.squared = t.squared
  /\ calc = "CalculateNoOffset" => u.value.minus = IF t.doOffset THEN u.offset ELSE {}

LEMMA LeadsCalculation ==
  ASSUME ConstantsAssumption, params \in Points, NEW i, NEW t \in ServerStates, Sound(i, t),
         \A j \in 1..NPar : IsChanged(i, j) \/ t.vals[j] = params[j],
         NEW calc \in {"Calculate", "CalculateNoOffset"}
  PROVE  /\ Request(i, calc) \in Seq(Messages)
         /\ \E u \in ServerStates : Leads(i, t, Request(i, calc), u) /\ Calculated(i, t, u, calc)
<1> DEFINE p == Sends(i)[NPar]
           a == [type |-> calc]
           b == [type |-> "Retrieve"]
           s == [t EXCEPT !.vals = params, !.dirty = t.dirty \/ t.vals # params]
           v == Effect(i, s, a)
           u == Effect(i, v, b)
<1>1. p \in Seq(Reals) /\ Leads(i, t, p, s)
  BY LeadsLoop
<1>2. a \in Messages /\ b \in Messages /\ Reals \subseteq Messages
  BY DEF Messages, Calculations
<1>3. /\ s \in ServerStates /\ Sound(i, s)
      /\ s.vals = params /\ s.squared = t.squared /\ s.doOffset = t.doOffset
      /\ s.offset = t.offset /\ s.otherOffset = t.otherOffset
  BY MovedIsSound
<1>4. u = [v EXCEPT !.errors = 0]
  BY DEF Effect
<1> HIDE DEF s, p
<1>5. /\ v \in ServerStates
      /\ v.vals = s.vals /\ v.squared = s.squared /\ v.doOffset = s.doOffset
      /\ v.otherOffset = s.otherOffset /\ ~v.dirty /\ Sound(i, v)
      /\ v.offset = Offset(i, s.doOffset, s.offset, Here(s.vals, s.squared))
      /\ v.value.at = s.vals /\ v.value.squared = s.squared
      /\ calc = "CalculateNoOffset" => v.value.minus = IF s.doOffset THEN v.offset ELSE {}
  BY <1>2, <1>3, EffectType, CalculationEffect
<1> HIDE DEF v
<1>6. /\ u \in ServerStates
      /\ u.vals = v.vals /\ u.squared = v.squared /\ u.doOffset = v.doOffset
      /\ u.otherOffset = v.otherOffset /\ u.dirty = v.dirty /\ u.offset = v.offset
      /\ u.cached = v.cached /\ u.value = v.value
  BY <1>4, <1>5 DEF ServerStates
<1>7. Sound(i, u)
  BY <1>5, <1>6 DEF Sound
<1>8. p \in Seq(Messages) /\ <<a>> \in Seq(Messages) /\ <<a, b>> \in Seq(Messages)
  BY <1>1, <1>2, SeqMonotonic
<1> HIDE DEF u, a, b
<1>9. Leads(i, s, <<a>>, v)
  <2>1. Leads(i, s, <<>>, s)
    BY <1>3, LeadsNowhere
  <2>2. <<a>> = Append(<<>>, a) /\ <<>> \in Seq(Messages)
    OBVIOUS
  <2>3. Leads(i, s, Append(<<>>, a), Effect(i, s, a))
    BY <1>2, <2>1, <2>2, LeadsFurther
  <2> QED BY <2>2, <2>3 DEF v
<1>10. Leads(i, s, <<a, b>>, u)
  <2>1. <<a, b>> = Append(<<a>>, b)
    OBVIOUS
  <2>2. Leads(i, s, Append(<<a>>, b), Effect(i, v, b))
    BY <1>2, <1>8, <1>9, LeadsFurther
  <2> QED BY <2>1, <2>2 DEF u
<1>11. Leads(i, t, p \o <<a, b>>, u)
  BY <1>1, <1>8, <1>10, LeadsJoined
<1>12. p \o <<a, b>> \in Seq(Messages)
  BY <1>8, ConcatProperties
<1>13. Calculated(i, t, u, calc)
  BY <1>3, <1>5, <1>6, <1>7 DEF Calculated
<1>14. Request(i, calc) = p \o <<a, b>>
  BY DEF Request, p, a, b
<1> QED BY <1>6, <1>11, <1>12, <1>13, <1>14

-----------------------------------------------------------------------------
(* The invariant *)

Written(i) == pipe[i] \o buffer[i]

\* A value is of the present parameters and weights.
Good(term, offset) ==
  /\ term.at = params /\ term.squared = asked.squared
  /\ inFit => term.minus = IF asked.doOffset THEN offset ELSE {}

\* What server i will be, s, for its client.
Own(i, s) ==
  /\ s.vals = saved[i] /\ s.squared = asked.squared /\ s.doOffset = asked.doOffset
  /\ Sound(i, s)
  /\ (pc = "get" \/ Waits(i)) => saved[i] = params /\ ~s.dirty
  /\ Waits(i) => Good(s.value, s.offset)
  /\ Waits(i) /\ reply[i] # <<>> => /\ Head(reply[i]).value = s.value
                                    /\ Head(reply[i]).errors > 0 => Bad(i, params)
  /\ (pc = "get" /\ i < k) => Good(part[i], s.offset)

\* The offset of server i when all servers have been asked in this round.
Coming(i, s) ==
  IF pc = "calculate" /\ ~(i < k)
    THEN Offset(i, asked.doOffset, s.offset, Here(params, asked.squared))
    ELSE s.offset

\* The offsets of all servers will agree, those of both kinds of weights.
Together(F) ==
  /\ \A i, j \in Clients : /\ Agree(i, j, F[i].otherOffset, F[j].otherOffset)
                           /\ Agree(i, j, Coming(i, F[i]), Coming(j, F[j]))
  /\ \A i \in Clients : (pc = "calculate" /\ i < k) \/ saved[i] = saved[N]
  /\ (pc = "calculate" /\ k > 1) => \A j \in 1..NPar : changed[j] = (params[j] # saved[N][j])

Live == init /\ pc \in {"idle", "calculate", "get", "return"}

Future ==
  Live => \E F \in [Clients -> ServerStates] :
            /\ \A i \in Clients : Leads(i, server[i], Written(i), F[i]) /\ Own(i, F[i])
            /\ Together(F)

\* What the client side has.
PartInv ==
  /\ pc \in {"calculate", "get"} => dirty
  /\ pc = "calculate" => reported = {}
  /\ pc = "get" => \A i \in reported : i < k /\ Bad(i, params)
  /\ pc = "return" => ~dirty /\ \A i \in reported : Bad(i, params)
  /\ ~dirty /\ ~silent => \A i \in Clients : part[i].at = params /\ part[i].squared = asked.squared
  /\ ~dirty /\ inFit =>
       \A i \in Clients :
          /\ \A j \in Clients : Agree(i, j, part[i].minus, part[j].minus)
          /\ \A o \in part[i].minus : asked.doOffset /\ o.squared = asked.squared
          /\ part[i].minus = {} /\ asked.doOffset => Zero(i, Here(params, asked.squared))

Inv == Types /\ PipeInv /\ Future /\ PartInv

LEMMA Constants ==
  N \in Nat \ {0} /\ NPar \in Nat /\ 1 \in Clients /\ N \in Clients /\ FitModes \subseteq Modes
  BY ConstantsAssumption DEF Clients, Modes

-----------------------------------------------------------------------------
(* Types *)

LEMMA SentTypes ==
  ASSUME Types, NEW i \in Clients, NEW msgs \in Seq(Messages), Sent(i, msgs)
  PROVE  pipe' \in [Clients -> Seq(Messages)] /\ buffer' \in [Clients -> Seq(Switches)]
<1>1. buffer[i] \in Seq(Switches) /\ pipe[i] \in Seq(Messages) /\ <<>> \in Seq(Switches)
  BY DEF Types
<1>2. buffer[i] \in Seq(Messages)
  BY <1>1, SeqMonotonic DEF Messages
<1>3. pipe[i] \o buffer[i] \o msgs \in Seq(Messages)
  BY <1>1, <1>2, ConcatProperties
<1> QED BY <1>1, <1>3 DEF Sent, Types

LEMMA ForkedType ==
  ASSUME NEW p \in Points, NEW m \in Modes
  PROVE  Forked(p, m) \in ServerStates
  BY DEF Forked, ServerStates, Part, Terms, Origins

LEMMA InitializedTypes ==
  ASSUME Types, Initialized
  PROVE  init' \in BOOLEAN /\ server' \in [Clients -> ServerStates] /\ saved' \in [Clients -> Points]
  BY ForkedType DEF Types, Initialized

LEMMA ServedTypes ==
  ASSUME Types, NEW i \in Clients, NEW type, Served(i, type)
  PROVE  /\ pipe[i] \in Seq(Messages) /\ pipe[i] # <<>> /\ Head(pipe[i]) \in Messages
         /\ Head(pipe[i]).type = type
         /\ pipe' \in [Clients -> Seq(Messages)] /\ pipe' = [pipe EXCEPT ![i] = Tail(@)]
         /\ UNCHANGED <<programVars, pc, k, clientVars, buffer, historyVars>>
<1>1. pipe[i] \in Seq(Messages) /\ pipe[i] # <<>>
  BY DEF Types, Served
<1>2. Tail(pipe[i]) \in Seq(Messages) /\ Head(pipe[i]) \in Messages
  BY <1>1, HeadTailProperties
<1> QED BY <1>1, <1>2 DEF Types, Served

\* A step of a server has the effect of the message it reads.
LEMMA ServerEffect ==
  ASSUME Types, NEW i \in Clients, Server(i)
  PROVE  /\ \E type : Served(i, type)
         /\ server' = [server EXCEPT ![i] = Effect(i, server[i], Head(pipe[i]))]
         /\ CASE Head(pipe[i]).type = "Retrieve" ->
                   reply' = [reply EXCEPT ![i] = Append(@,
                     [type |-> "ReturnValue", value |-> server[i].value,
                      errors |-> ErrorsSent(server[i])])]
              [] Head(pipe[i]).type = "Terminate" ->
                   reply' = [reply EXCEPT ![i] = Append(@, [type |-> "Terminate"])]
              [] OTHER -> reply' = reply
<1>0. server \in [Clients -> ServerStates] /\ server[i] \in ServerStates
  BY DEF Types
<1>1. CASE ServeReal(i)
  <2>1. Head(pipe[i]).type = "SendReal" /\ Served(i, "SendReal") /\ reply' = reply
    BY <1>1 DEF ServeReal, Served
  <2>2. server' = [server EXCEPT ![i] = Effect(i, server[i], Head(pipe[i]))]
    BY <1>0, <1>1, <2>1 DEF ServeReal, Effect, ServerStates
  <2> QED BY <2>1, <2>2
<1>2. CASE ServeCalculate(i)
  <2>1. PICK type \in {"Calculate", "CalculateNoOffset"} :
          /\ Served(i, type)
          /\ LET s == IF server[i].dirty THEN EvaluatePartition(i, server[i]) ELSE server[i]
                 value == IF type = "Calculate" THEN Hidden(s) ELSE s.cached
             IN  server' = [server EXCEPT ![i] = [s EXCEPT !.value = value]]
          /\ UNCHANGED reply
    BY <1>2 DEF ServeCalculate
  <2>2. Head(pipe[i]).type = type
    BY <2>1 DEF Served
  <2> QED BY <2>1, <2>2 DEF Effect
<1>3. CASE ServeRetrieve(i)
  BY <1>0, <1>3 DEF ServeRetrieve, Served, Effect, ErrorsLeft
<1>4. CASE ServeEnableOffset(i)
  <2>1. Head(pipe[i]).type = "EnableOffset" /\ Served(i, "EnableOffset") /\ reply' = reply
    BY <1>4 DEF ServeEnableOffset, Served
  <2>2. server' = [server EXCEPT ![i] = Effect(i, server[i], Head(pipe[i]))]
    BY <1>0, <1>4, <2>1 DEF ServeEnableOffset, Effect, ServerStates
  <2> QED BY <2>1, <2>2
<1>5. CASE ServeApplyNLLW2(i)
  BY <1>0, <1>5 DEF ServeApplyNLLW2, Served, Effect
<1>6. CASE ServeLogEvalError(i)
  BY <1>0, <1>6 DEF ServeLogEvalError, Served, Effect
<1>7. CASE ServeTerminate(i)
  BY <1>0, <1>7 DEF ServeTerminate, Served, Effect
<1> QED BY <1>1, <1>2, <1>3, <1>4, <1>5, <1>6, <1>7 DEF Server

LEMMA InitTypes ==
  ASSUME Init
  PROVE  Types
<1>1. params \in Points /\ "PrintErrors" \in Modes
  BY DEF Init, Modes
<1>2. Forked(params, mode) \in ServerStates /\ mode = "PrintErrors"
  BY <1>1, ForkedType DEF Init
<1>3. [Forked(params, mode) EXCEPT !.alive = FALSE] \in ServerStates
  BY <1>2 DEF ServerStates
<1>4. Part(params, FALSE, {}) \in Terms
  BY <1>1 DEF Part, Terms, Origins
<1>5. /\ <<>> \in Seq(Switches) /\ <<>> \in Seq(Messages) /\ <<>> \in Seq(Replies)
  OBVIOUS
<1>6. /\ buffer \in [Clients -> Seq(Switches)] /\ pipe \in [Clients -> Seq(Messages)]
      /\ reply \in [Clients -> Seq(Replies)]
  BY <1>5 DEF Init
<1>7. server \in [Clients -> ServerStates]
  BY <1>3 DEF Init
<1>8. pc \in Phases /\ k \in Clients
  BY Constants DEF Init, Phases
<1>9. /\ dirty \in BOOLEAN /\ init \in BOOLEAN /\ inFit \in BOOLEAN /\ mode \in Modes
      /\ reported \subseteq Clients /\ silent \in BOOLEAN
      /\ asked \in [squared : BOOLEAN, doOffset : BOOLEAN]
      /\ changed \in [1..NPar -> BOOLEAN]
  BY <1>1 DEF Init
<1>10. /\ part \in [Clients -> Terms] /\ saved \in [Clients -> Points]
       /\ forced \in [Clients -> BOOLEAN] /\ remote \in [Clients -> Modes]
  BY <1>1, <1>4 DEF Init
<1> QED BY <1>1, <1>6, <1>7, <1>8, <1>9, <1>10 DEF Types

LEMMA NextClientType ==
  ASSUME Types
  PROVE  NextClient \in Clients
  BY Constants DEF Types, Clients, NextClient

LEMMA NextTypes ==
  ASSUME Types, PipeInv, [Next]_vars
  PROVE  Types'
<1>1. CASE \E new \in Points : SetVal(new) \/ Evaluate(new)
  BY <1>1, Constants DEF Types, SetVal, Evaluate, Set, clientVars, pipeVars, historyVars, Phases
<1>2. ASSUME NEW flag \in BOOLEAN, EnableOffsetting(flag)
      PROVE  Types'
  <2>1. init' \in BOOLEAN /\ server' \in [Clients -> ServerStates] /\ saved' \in [Clients -> Points]
    BY <1>2, InitializedTypes DEF EnableOffsetting
  <2>2. [type |-> "EnableOffset", flag |-> flag] \in Switches
    BY DEF Switches
  <2>3. buffer' \in [Clients -> Seq(Switches)]
    BY <1>2, <2>2, AppendProperties DEF EnableOffsetting, Types
  <2>4. asked' \in [squared : BOOLEAN, doOffset : BOOLEAN]
    BY <1>2 DEF EnableOffsetting, Types
  <2> QED BY <1>2, <2>1, <2>3, <2>4 DEF EnableOffsetting, Types
<1>3. ASSUME NEW flag \in BOOLEAN, ApplyWeightSquared(flag)
      PROVE  Types'
  <2>2. [type |-> "ApplyNLLW2", flag |-> flag] \in Switches
    BY DEF Switches
  <2>3. buffer' \in [Clients -> Seq(Switches)]
    BY <1>3, <2>2, AppendProperties DEF ApplyWeightSquared, Types
  <2>4. asked' \in [squared : BOOLEAN, doOffset : BOOLEAN]
    BY <1>3 DEF ApplyWeightSquared, Types
  <2> QED BY <1>3, <2>3, <2>4 DEF ApplyWeightSquared, Types, programVars, clientVars
<1>4. CASE \E m \in FitModes : BeginFit(m)
  BY <1>4, Constants DEF Types, BeginFit, clientVars, pipeVars, historyVars
<1>5. CASE EndFit
  BY <1>5 DEF Types, EndFit, clientVars, pipeVars, historyVars, Modes
<1>6. CASE GetVal
  BY <1>6, Constants DEF Types, GetVal, programVars, clientVars, pipeVars, historyVars, Phases
<1>7. CASE Delete
  BY <1>7, Constants DEF Types, Delete, programVars, clientVars, pipeVars, historyVars, Phases
<1>8. CASE Initialize
  <2>1. init' \in BOOLEAN /\ server' \in [Clients -> ServerStates] /\ saved' \in [Clients -> Points]
    BY <1>8, InitializedTypes DEF Initialize
  <2> QED BY <1>8, <2>1 DEF Initialize, Types, pipeVars, historyVars
<1>9. CASE Calculate
  <2> DEFINE calc == IF inFit THEN "CalculateNoOffset" ELSE "Calculate"
             msgs == Sends(k)[NPar] \o << [type |-> calc], [type |-> "Retrieve"] >>
  <2>1. Sends(k)[NPar] \in Seq(Reals)
    <3> DEFINE t == Forked(params, mode)
    <3>1. t \in ServerStates
      BY ForkedType DEF Types
    <3>2. t.vals = params
      BY DEF Forked
    <3> HIDE DEF t
    <3> QED BY <3>1, <3>2, LeadsLoop, ConstantsAssumption DEF Types
  <2>2. /\ [type |-> calc] \in Messages /\ [type |-> "Retrieve"] \in Messages
        /\ Reals \subseteq Messages
    BY DEF Messages, Calculations
  <2>3. msgs \in Seq(Messages)
    <3>1. Sends(k)[NPar] \in Seq(Messages)
      BY <2>1, <2>2, SeqMonotonic
    <3> QED BY <2>2, <3>1, ConcatProperties
  <2>4. Sent(k, msgs) /\ k \in Clients
    BY <1>9 DEF Calculate, Types
  <2>5. pipe' \in [Clients -> Seq(Messages)] /\ buffer' \in [Clients -> Seq(Switches)]
    BY <2>3, <2>4, SentTypes
  <2>6. saved[k] \in [1..NPar -> Values] /\ params \in [1..NPar -> Values]
    BY <2>4 DEF Types, Points
  <2>7. [j \in 1..NPar |-> IF IsChanged(k, j) THEN params[j] ELSE saved[k][j]] \in Points
    BY <2>6 DEF Points
  <2>8. saved' = [saved EXCEPT ![k] = [j \in 1..NPar |-> IF IsChanged(k, j) THEN params[j] ELSE saved[k][j]]]
    BY <1>9, <2>4 DEF Calculate, Types
  <2>9. saved' \in [Clients -> Points]
    BY <2>4, <2>7, <2>8 DEF Types
  <2>10. k' \in Clients /\ pc' \in Phases
    BY <1>9, NextClientType DEF Calculate, Phases
  <2>11. changed' \in [1..NPar -> BOOLEAN] /\ forced' \in [Clients -> BOOLEAN]
    BY <1>9 DEF Calculate, Types
  <2> QED BY <1>9, <2>5, <2>9, <2>10, <2>11 DEF Calculate, Types, programVars, historyVars
<1>10. CASE SendMode
  <2>1. << [type |-> "LogEvalError", mode |-> mode] >> \in Seq(Messages)
    BY DEF Messages, Logs, Types
  <2>2. pipe' \in [Clients -> Seq(Messages)] /\ buffer' \in [Clients -> Seq(Switches)]
    BY <1>10, <2>1, SentTypes DEF SendMode, Types
  <2> QED BY <1>10, <2>2 DEF SendMode, Types, programVars, historyVars
<1>11. CASE Receive
  <2>1. k \in Clients /\ reply[k] \in Seq(Replies) /\ reply[k] # <<>>
    BY <1>11 DEF Receive, Types
  <2>2. Head(reply[k]) \in Replies /\ Tail(reply[k]) \in Seq(Replies)
    BY <2>1, HeadTailProperties
  <2>3. Head(reply[k]).type # "Terminate"
    BY <1>11, <2>1 DEF Receive, PipeInv, Answers, Ends
  <2>4. Head(reply[k]).value \in Terms
    BY <2>2, <2>3 DEF Replies
  <2>5. part' \in [Clients -> Terms] /\ reply' \in [Clients -> Seq(Replies)]
    BY <1>11, <2>1, <2>2, <2>4 DEF Receive, Types
  <2>6. k' \in Clients /\ pc' \in Phases
    BY <1>11, NextClientType DEF Receive, Phases
  <2>7. reported' \subseteq Clients /\ dirty' \in BOOLEAN /\ silent' \in BOOLEAN
    BY <1>11, <2>1 DEF Receive, Types
  <2> QED BY <1>11, <2>5, <2>6, <2>7 DEF Receive, Types
<1>12. CASE Return
  BY <1>12 DEF Types, Return, programVars, clientVars, pipeVars, historyVars, Phases
<1>13. CASE Standby
  <2>1. << [type |-> "Terminate"] >> \in Seq(Messages)
    BY DEF Messages
  <2>2. pipe' \in [Clients -> Seq(Messages)] /\ buffer' \in [Clients -> Seq(Switches)]
    BY <1>13, <2>1, SentTypes DEF Standby, Types
  <2> QED BY <1>13, <2>2 DEF Standby, Types, programVars, clientVars, historyVars, Phases
<1>14. CASE Handshake
  <2>1. k \in Clients /\ reply[k] \in Seq(Replies) /\ reply[k] # <<>>
    BY <1>14 DEF Handshake, Types
  <2>2. Tail(reply[k]) \in Seq(Replies)
    BY <2>1, HeadTailProperties
  <2>3. reply' \in [Clients -> Seq(Replies)]
    BY <1>14, <2>1, <2>2 DEF Handshake, Types
  <2>4. k' \in Clients /\ pc' \in Phases
    BY <1>14, NextClientType DEF Handshake, Phases
  <2> QED BY <1>14, <2>3, <2>4 DEF Handshake, Types, programVars, clientVars, historyVars
<1>15. ASSUME NEW i \in Clients, Server(i)
       PROVE  Types'
  <2>1. PICK type : Served(i, type)
    BY <1>15, ServerEffect
  <2>2. /\ pipe[i] \in Seq(Messages) /\ Head(pipe[i]) \in Messages
        /\ pipe' \in [Clients -> Seq(Messages)]
        /\ UNCHANGED <<programVars, pc, k, clientVars, buffer, historyVars>>
    BY <2>1, ServedTypes
  <2>3. server[i] \in ServerStates /\ reply[i] \in Seq(Replies)
    BY DEF Types
  <2>4. server' \in [Clients -> ServerStates]
    <3>1. Effect(i, server[i], Head(pipe[i])) \in ServerStates
      BY <2>2, <2>3, EffectType
    <3>2. server' = [server EXCEPT ![i] = Effect(i, server[i], Head(pipe[i]))]
      BY <1>15, ServerEffect
    <3> QED BY <3>1, <3>2 DEF Types
  <2>5. [type |-> "ReturnValue", value |-> server[i].value, errors |-> ErrorsSent(server[i])] \in Replies
    BY <2>3 DEF Replies, ServerStates, ErrorsSent
  <2>6. [type |-> "Terminate"] \in Replies
    BY DEF Replies
  <2>7. reply' \in [Clients -> Seq(Replies)]
    <3>1. CASE Head(pipe[i]).type = "Retrieve"
      <4>1. reply' = [reply EXCEPT ![i] = Append(@,
                     [type |-> "ReturnValue", value |-> server[i].value,
                      errors |-> ErrorsSent(server[i])])]
        BY <1>15, <3>1, ServerEffect
      <4> QED BY <2>3, <2>5, <4>1, AppendProperties DEF Types
    <3>2. CASE Head(pipe[i]).type = "Terminate"
      <4>1. reply' = [reply EXCEPT ![i] = Append(@, [type |-> "Terminate"])]
        BY <1>15, <3>2, ServerEffect
      <4> QED BY <2>3, <2>6, <4>1, AppendProperties DEF Types
    <3>3. CASE Head(pipe[i]).type \notin {"Retrieve", "Terminate"}
      <4>1. reply' = reply
        BY <1>15, <3>3, ServerEffect
      <4> QED BY <4>1 DEF Types
    <3> QED BY <3>1, <3>2, <3>3
  <2> QED BY <2>2, <2>4, <2>7 DEF Types, programVars, clientVars, historyVars
<1>16. CASE UNCHANGED vars
  BY <1>16 DEF Types, vars, programVars, clientVars, pipeVars, historyVars
<1> QED BY <1>1, <1>2, <1>3, <1>4, <1>5, <1>6, <1>7, <1>8, <1>9, <1>10, <1>11, <1>12, <1>13,
           <1>14, <1>15, <1>16 DEF Next, Working

-----------------------------------------------------------------------------
(* The order of the messages *)

LEMMA MessageTypes ==
  ASSUME NEW msg \in Messages
  PROVE  msg.type \in {"SendReal", "EnableOffset", "ApplyNLLW2", "LogEvalError",
                       "Calculate", "CalculateNoOffset", "Retrieve", "Terminate"}
  BY DEF Messages, Switches, Reals, Calculations, Logs

LEMMA PlainKinds ==
  /\ \A seq \in Seq(Switches) : Plain(seq)
  /\ \A seq \in Seq(Reals) : Plain(seq)
<1>1. ASSUME NEW seq \in Seq(Switches), NEW n \in DOMAIN seq
      PROVE  seq[n].type \in {"SendReal", "EnableOffset", "ApplyNLLW2", "LogEvalError"}
  <2>1. seq[n] \in Switches
    BY LenProperties, ElementOfSeq
  <2> QED BY <2>1 DEF Switches
<1>2. ASSUME NEW seq \in Seq(Reals), NEW n \in DOMAIN seq
      PROVE  seq[n].type \in {"SendReal", "EnableOffset", "ApplyNLLW2", "LogEvalError"}
  <2>1. seq[n] \in Reals
    BY LenProperties, ElementOfSeq
  <2> QED BY <2>1 DEF Reals
<1> QED BY <1>1, <1>2 DEF Plain

LEMMA PlainJoined ==
  ASSUME NEW p \in Seq(Messages), NEW q \in Seq(Messages), Plain(p), Plain(q)
  PROVE  Plain(p \o q)
<1>1. /\ DOMAIN p = 1..Len(p) /\ DOMAIN q = 1..Len(q) /\ Len(p) \in Nat /\ Len(q) \in Nat
      /\ DOMAIN (p \o q) = 1..(Len(p) + Len(q))
  BY ConcatProperties, LenProperties
<1>2. ASSUME NEW n \in DOMAIN (p \o q)
      PROVE  (p \o q)[n].type \in {"SendReal", "EnableOffset", "ApplyNLLW2", "LogEvalError"}
  <2>1. (p \o q)[n] = IF n <= Len(p) THEN p[n] ELSE q[n - Len(p)]
    BY <1>1, ConcatProperties
  <2>2. CASE n <= Len(p)
    BY <1>1, <2>1, <2>2 DEF Plain
  <2>3. CASE ~(n <= Len(p))
    <3>1. n - Len(p) \in DOMAIN q
      BY <1>1, <2>3
    <3> QED BY <2>1, <2>3, <3>1 DEF Plain
  <2> QED BY <2>2, <2>3
<1> QED BY <1>2 DEF Plain

LEMMA PlainOrdered ==
  ASSUME NEW p \in Seq(Messages), Plain(p)
  PROVE  Ordered(p) /\ \A n \in DOMAIN p : p[n].type \notin {"Retrieve", "Terminate"}
  BY DEF Plain, Ordered

\* A question behind messages that ask for nothing.
LEMMA QuestionOrdered ==
  ASSUME NEW p \in Seq(Messages), Plain(p), NEW calc \in {"Calculate", "CalculateNoOffset"}
  PROVE  /\ Ordered(p \o << [type |-> calc], [type |-> "Retrieve"] >>)
         /\ \A n \in DOMAIN (p \o << [type |-> calc], [type |-> "Retrieve"] >>) :
              (p \o << [type |-> calc], [type |-> "Retrieve"] >>)[n].type # "Terminate"
<1> DEFINE q == << [type |-> calc], [type |-> "Retrieve"] >>
           all == p \o q
<1>1. q \in Seq(Messages) /\ Len(q) = 2 /\ q[1].type = calc /\ q[2].type = "Retrieve"
  BY DEF Messages, Calculations
<1>2. Len(p) \in Nat /\ DOMAIN p = 1..Len(p)
  BY LenProperties
<1> HIDE DEF q
<1>0. /\ p \o q \in Seq(Messages) /\ Len(p \o q) = Len(p) + Len(q)
      /\ \A n \in 1..Len(p) + Len(q) : (p \o q)[n] = IF n <= Len(p) THEN p[n] ELSE q[n - Len(p)]
  BY <1>1, ConcatProperties
<1>3. DOMAIN all = 1..(Len(p) + 2)
  BY <1>0, <1>1, LenProperties
<1>4. \A n \in 1..(Len(p) + 2) : all[n] = IF n <= Len(p) THEN p[n] ELSE q[n - Len(p)]
  BY <1>0, <1>1
<1> HIDE DEF all
<1>5. ASSUME NEW n \in 1..Len(p)
      PROVE  all[n].type \in {"SendReal", "EnableOffset", "ApplyNLLW2", "LogEvalError"}
  BY <1>2, <1>4 DEF Plain
<1>6. all[Len(p) + 1].type = calc /\ all[Len(p) + 2].type = "Retrieve"
  <2>1. all[Len(p) + 1] = q[1] /\ all[Len(p) + 2] = q[2]
    BY <1>2, <1>4
  <2> QED BY <1>1, <2>1
<1>7. \A n \in DOMAIN all : n \in 1..Len(p) \/ n = Len(p) + 1 \/ n = Len(p) + 2
  BY <1>2, <1>3
<1>8. Ordered(all)
  <2>1. ASSUME NEW m \in DOMAIN all, NEW n \in DOMAIN all, all[m].type = "Retrieve", m < n
        PROVE  all[n].type = "LogEvalError"
    BY <1>2, <1>3, <1>5, <1>6, <1>7, <2>1
  <2>2. ASSUME NEW n \in DOMAIN all, all[n].type \in {"Calculate", "CalculateNoOffset"}
        PROVE  n + 1 \in DOMAIN all /\ all[n + 1].type = "Retrieve"
    <3>1. n = Len(p) + 1
      BY <1>5, <1>6, <1>7, <2>2
    <3>2. n + 1 = Len(p) + 2
      BY <1>2, <3>1
    <3> QED BY <1>2, <1>3, <1>6, <3>2
  <2>3. ASSUME NEW m \in DOMAIN all
        PROVE  all[m].type # "Terminate"
    BY <1>5, <1>6, <1>7
  <2> QED BY <2>1, <2>2, <2>3 DEF Ordered
<1>9. \A n \in DOMAIN all : all[n].type # "Terminate"
  BY <1>5, <1>6, <1>7
<1> QED BY <1>8, <1>9 DEF all, q

\* The request to end behind messages that ask for nothing.
LEMMA EndOrdered ==
  ASSUME NEW p \in Seq(Messages), Plain(p)
  PROVE  /\ Ordered(Append(p, [type |-> "Terminate"]))
         /\ \A n \in DOMAIN Append(p, [type |-> "Terminate"]) :
              Append(p, [type |-> "Terminate"])[n].type # "Retrieve"
<1> DEFINE msg == [type |-> "Terminate"]
           all == Append(p, msg)
<1>1. msg \in Messages
  BY DEF Messages
<1>2. Len(p) \in Nat /\ DOMAIN p = 1..Len(p)
  BY LenProperties
<1>3. DOMAIN all = 1..(Len(p) + 1) /\ (\A n \in 1..Len(p) : all[n] = p[n]) /\ all[Len(p) + 1] = msg
  <2> HIDE DEF msg
  <2> QED BY <1>1, AppendProperties, LenProperties
<1> HIDE DEF all
<1>4. ASSUME NEW n \in DOMAIN all
      PROVE  \/ n = Len(p) + 1 /\ all[n].type = "Terminate"
             \/ /\ n < Len(p) + 1
                /\ all[n].type \in {"SendReal", "EnableOffset", "ApplyNLLW2", "LogEvalError"}
  <2>1. CASE n = Len(p) + 1
    BY <1>3, <2>1
  <2>2. CASE n # Len(p) + 1
    <3>1. n \in 1..Len(p) /\ all[n] = p[n]
      BY <1>2, <1>3, <2>2
    <3> QED BY <1>2, <3>1 DEF Plain
  <2> QED BY <2>1, <2>2
<1>5. Ordered(all)
  BY <1>2, <1>3, <1>4 DEF Ordered
<1> QED BY <1>4, <1>5 DEF all, msg

\* A new logging mode behind messages none of which asks to end.
LEMMA LogOrdered ==
  ASSUME NEW p \in Seq(Messages), Ordered(p), \A n \in DOMAIN p : p[n].type # "Terminate",
         NEW msg \in Logs
  PROVE  /\ Ordered(Append(p, msg))
         /\ \A n \in DOMAIN Append(p, msg) :
              /\ Append(p, msg)[n].type # "Terminate"
              /\ Append(p, msg)[n].type = "Retrieve" => n \in DOMAIN p /\ p[n].type = "Retrieve"
<1> DEFINE all == Append(p, msg)
<1>1. msg \in Messages /\ msg.type = "LogEvalError"
  BY DEF Messages, Logs
<1>2. Len(p) \in Nat /\ DOMAIN p = 1..Len(p)
  BY LenProperties
<1>3. DOMAIN all = 1..(Len(p) + 1) /\ (\A n \in 1..Len(p) : all[n] = p[n]) /\ all[Len(p) + 1] = msg
  BY <1>1, AppendProperties, LenProperties
<1> HIDE DEF all
<1>4. \A n \in DOMAIN all : n = Len(p) + 1 \/ (n \in DOMAIN p /\ all[n] = p[n])
  BY <1>2, <1>3
<1>5. ASSUME NEW m \in DOMAIN all, NEW n \in DOMAIN all, all[m].type = "Retrieve", m < n
      PROVE  all[n].type = "LogEvalError"
  <2>1. m \in DOMAIN p /\ p[m].type = "Retrieve"
    BY <1>1, <1>3, <1>4, <1>5
  <2>2. CASE n = Len(p) + 1
    BY <1>1, <1>3, <2>2
  <2>3. CASE n \in DOMAIN p /\ all[n] = p[n]
    BY <1>5, <2>1, <2>3 DEF Ordered
  <2> QED BY <1>4, <2>2, <2>3
<1>6. ASSUME NEW n \in DOMAIN all, all[n].type \in {"Calculate", "CalculateNoOffset"}
      PROVE  n + 1 \in DOMAIN all /\ all[n + 1].type = "Retrieve"
  <2>1. n \in DOMAIN p /\ p[n].type \in {"Calculate", "CalculateNoOffset"}
    BY <1>1, <1>3, <1>4, <1>6
  <2>2. n + 1 \in DOMAIN p /\ p[n + 1].type = "Retrieve"
    BY <2>1 DEF Ordered
  <2>3. all[n + 1] = p[n + 1] /\ n + 1 \in DOMAIN all
    BY <1>2, <1>3, <2>2
  <2> QED BY <2>2, <2>3
<1>7. ASSUME NEW n \in DOMAIN all
      PROVE  all[n].type # "Terminate" /\ (all[n].type = "Retrieve" => n \in DOMAIN p /\ p[n].type = "Retrieve")
  BY <1>1, <1>3, <1>4
<1>8. Ordered(all)
  BY <1>5, <1>6, <1>7 DEF Ordered
<1> QED BY <1>7, <1>8 DEF all

\* What is left when the first message is read.
LEMMA TailOrdered ==
  ASSUME NEW p \in Seq(Messages), p # <<>>, Ordered(p)
  PROVE  /\ Ordered(Tail(p))
         /\ \A n \in DOMAIN Tail(p) : n + 1 \in DOMAIN p /\ Tail(p)[n] = p[n + 1]
         /\ Head(p).type = "Retrieve" => \A n \in DOMAIN Tail(p) : Tail(p)[n].type = "LogEvalError"
         /\ Head(p).type = "Terminate" => Tail(p) = <<>>
         /\ Head(p).type \in {"Calculate", "CalculateNoOffset"} =>
              Tail(p) # <<>> /\ Head(Tail(p)).type = "Retrieve"
         /\ 1 \in DOMAIN p /\ Head(p) = p[1]
<1> DEFINE q == Tail(p)
<1>1. /\ q \in Seq(Messages) /\ Len(p) \in Nat \ {0} /\ Len(q) = Len(p) - 1
      /\ DOMAIN p = 1..Len(p) /\ DOMAIN q = 1..Len(q)
      /\ (\A n \in 1..Len(q) : q[n] = p[n + 1]) /\ Head(p) = p[1]
  BY HeadTailProperties, EmptySeq, LenProperties
<1>2. q # <<>> => Head(q) = q[1]
  BY <1>1
<1>3. Len(q) = 0 => q = <<>>
  BY <1>1, EmptySeq
<1> HIDE DEF q
<1>4. \A n \in DOMAIN q : n \in Nat /\ n >= 1 /\ n + 1 \in DOMAIN p /\ q[n] = p[n + 1]
  BY <1>1
<1>5. 1 \in DOMAIN p
  BY <1>1
<1>6. ASSUME NEW m \in DOMAIN q, NEW n \in DOMAIN q, q[m].type = "Retrieve", m < n
      PROVE  q[n].type = "LogEvalError"
  <2>1. m + 1 < n + 1
    BY <1>4, <1>6
  <2> QED BY <1>4, <1>6, <2>1 DEF Ordered
<1>7. ASSUME NEW m \in DOMAIN q, NEW n \in DOMAIN q, q[m].type = "Terminate"
      PROVE  n <= m
  <2>1. n + 1 <= m + 1
    BY <1>4, <1>7 DEF Ordered
  <2> QED BY <1>4, <2>1
<1>8. ASSUME NEW n \in DOMAIN q, q[n].type \in {"Calculate", "CalculateNoOffset"}
      PROVE  n + 1 \in DOMAIN q /\ q[n + 1].type = "Retrieve"
  <2>1. (n + 1) + 1 \in DOMAIN p /\ p[(n + 1) + 1].type = "Retrieve"
    BY <1>4, <1>8 DEF Ordered
  <2>2. n + 1 \in DOMAIN q
    BY <1>1, <1>4, <2>1
  <2> QED BY <1>4, <2>1, <2>2
<1>9. Ordered(q)
  BY <1>6, <1>7, <1>8 DEF Ordered
<1>10. ASSUME Head(p).type = "Retrieve", NEW n \in DOMAIN q
       PROVE  q[n].type = "LogEvalError"
  <2>1. 1 < n + 1
    BY <1>4
  <2> QED BY <1>1, <1>4, <1>5, <1>10, <2>1 DEF Ordered
<1>11. ASSUME Head(p).type = "Terminate"
       PROVE  q = <<>>
  <2>1. Len(p) <= 1
    BY <1>1, <1>5, <1>11 DEF Ordered
  <2> QED BY <1>1, <1>3, <2>1
<1>12. ASSUME Head(p).type \in {"Calculate", "CalculateNoOffset"}
       PROVE  q # <<>> /\ Head(q).type = "Retrieve"
  <2>1. 1 + 1 \in DOMAIN p /\ p[1 + 1].type = "Retrieve"
    BY <1>1, <1>5, <1>12 DEF Ordered
  <2>2. 1 \in DOMAIN q /\ q # <<>>
    BY <1>1, <2>1
  <2> QED BY <1>2, <1>4, <2>1, <2>2
<1> QED BY <1>4, <1>5, <1>1, <1>9, <1>10, <1>11, <1>12 DEF q

-----------------------------------------------------------------------------
(* One question and one answer at a time *)

Pipes(i) == Questions(i) /\ Answers(i) /\ Errors(i)

LEMMA PipesOf ==
  ASSUME PipeInv
  PROVE  Unforked /\ \A i \in Clients : Pipes(i)
  BY DEF PipeInv, Pipes

\* A client that is not waiting has asked for nothing, and has no answer.
LEMMA NothingAsked ==
  ASSUME Types, NEW i \in Clients, Pipes(i), ~Waits(i), ~Ends(i)
  PROVE  /\ Plain(pipe[i]) /\ reply[i] = <<>> /\ server[i].errors = 0
         /\ Plain(Written(i)) /\ Written(i) \in Seq(Messages)
<1>1. pipe[i] \in Seq(Messages) /\ buffer[i] \in Seq(Switches) /\ server[i] \in ServerStates
      /\ reply[i] \in Seq(Replies)
  BY DEF Types
<1>2. buffer[i] \in Seq(Messages) /\ Plain(buffer[i])
  BY <1>1, SeqMonotonic, PlainKinds DEF Messages
<1>3. ASSUME NEW n \in DOMAIN pipe[i]
      PROVE  pipe[i][n].type \in {"SendReal", "EnableOffset", "ApplyNLLW2", "LogEvalError"}
  <2>1. pipe[i][n] \in Messages
    BY <1>1, LenProperties, ElementOfSeq
  <2>2. pipe[i][n].type \notin {"Retrieve", "Terminate"}
    BY DEF Pipes, Questions
  <2>3. pipe[i][n].type \notin {"Calculate", "CalculateNoOffset"}
    BY DEF Pipes, Questions, Ordered
  <2> QED BY <2>1, <2>2, <2>3, MessageTypes
<1>4. Plain(pipe[i])
  BY <1>3 DEF Plain
<1>5. reply[i] = <<>>
  <2>1. SUFFICES ASSUME reply[i] # <<>>
                 PROVE  FALSE
    OBVIOUS
  <2>2. Head(reply[i]) \in Replies
    BY <1>1, <2>1, HeadTailProperties
  <2> QED BY <2>1, <2>2 DEF Pipes, Answers, Replies
<1>6. server[i].errors = 0
  <2>1. pipe[i] # <<>> => Head(pipe[i]).type # "Retrieve"
    <3>1. pipe[i] # <<>> => 1 \in DOMAIN pipe[i] /\ Head(pipe[i]) = pipe[i][1]
      BY <1>1, TailOrdered DEF Pipes, Questions
    <3> QED BY <1>4, <3>1 DEF Plain
  <2>2. ~(server[i].errors > 0) /\ server[i].errors \in Nat
    BY <1>1, <2>1 DEF Pipes, Errors, ServerStates
  <2> QED BY <2>2
<1> QED BY <1>1, <1>2, <1>4, <1>5, <1>6, PlainJoined, ConcatProperties DEF Written

\* Nothing is written and no server moves: who waits is what matters.
LEMMA SamePipes ==
  ASSUME NEW i \in Clients, Pipes(i), UNCHANGED <<pipeVars, server>>,
         Waits(i)' <=> Waits(i), Ends(i)' <=> Ends(i)
  PROVE  Pipes(i)'
<1>1. Questions(i)'
  BY DEF Pipes, Questions, pipeVars
<1>2. Answers(i)'
  BY DEF Pipes, Answers, pipeVars
<1>3. Errors(i)'
  BY DEF Pipes, Errors, pipeVars
<1> QED BY <1>1, <1>2, <1>3 DEF Pipes

\* Only the buffer changes, or a process is forked, and nobody waits.
LEMMA IdlePipes ==
  ASSUME Types, NEW i \in Clients, Pipes(i), ~Waits(i), ~Ends(i), ~Waits(i)',
         pipe' = pipe, reply' = reply, server'[i].errors = 0
  PROVE  Pipes(i)'
<1>1. Plain(pipe[i]) /\ reply[i] = <<>>
  BY NothingAsked
<1>2. pipe[i] \in Seq(Messages)
  BY DEF Types
<1>3. Ordered(pipe[i]) /\ \A n \in DOMAIN pipe[i] : pipe[i][n].type \notin {"Retrieve", "Terminate"}
  BY <1>1, <1>2, PlainOrdered
<1>4. Questions(i)'
  BY <1>3 DEF Questions
<1>5. Answers(i)' /\ Errors(i)'
  BY <1>1 DEF Answers, Errors
<1> QED BY <1>4, <1>5 DEF Pipes

LEMMA CalculatePipes ==
  ASSUME Types, PipeInv, Calculate, NEW i \in Clients
  PROVE  Pipes(i)'
<1> DEFINE calc == IF inFit THEN "CalculateNoOffset" ELSE "Calculate"
           q == << [type |-> calc], [type |-> "Retrieve"] >>
           p == Sends(k)[NPar]
<1>0. k \in Clients /\ k \in Nat /\ N \in Nat /\ i \in Nat /\ i >= 1 /\ i <= N /\ k <= N /\ pc = "calculate"
  BY Constants DEF Types, Clients, Calculate
<1>1. /\ Sent(k, p \o q) /\ reply' = reply /\ server' = server
      /\ pc' = (IF k = N THEN "get" ELSE pc) /\ k' = (IF k = N THEN 1 ELSE k + 1)
  BY DEF Calculate, NextClient
<1>2. p \in Seq(Reals)
  <2> DEFINE t == Forked(params, mode)
  <2>1. t \in ServerStates
    BY ForkedType DEF Types
  <2>2. t.vals = params
    BY DEF Forked
  <2> HIDE DEF t, p
  <2> QED BY <2>1, <2>2, LeadsLoop, ConstantsAssumption DEF Types, p
<1>3. CASE i = k
  <2>1. ~Waits(i) /\ ~Ends(i) /\ Waits(i)' /\ ~Ends(i)'
    BY <1>0, <1>1, <1>3 DEF Waits, Ends
  <2>2. Plain(Written(i)) /\ Written(i) \in Seq(Messages) /\ reply[i] = <<>> /\ server[i].errors = 0
    BY <2>1, PipesOf, NothingAsked
  <2>3. p \in Seq(Messages) /\ Plain(p)
    BY <1>2, SeqMonotonic, PlainKinds DEF Messages
  <2>4. q \in Seq(Messages) /\ calc \in {"Calculate", "CalculateNoOffset"}
    BY DEF Messages, Calculations
  <2>5. pipe'[i] = Written(i) \o (p \o q) /\ buffer'[i] = <<>>
    BY <1>0, <1>1, <1>3 DEF Sent, Written, Types
  <2> HIDE DEF p
  <2>6. pipe'[i] = (Written(i) \o p) \o q
    <3> HIDE DEF q
    <3> QED BY <2>2, <2>3, <2>4, <2>5, ConcatAssociative
  <2>7. Plain(Written(i) \o p) /\ Written(i) \o p \in Seq(Messages)
    BY <2>2, <2>3, PlainJoined, ConcatProperties
  <2> HIDE DEF calc
  <2>8. Ordered(pipe'[i]) /\ \A n \in DOMAIN pipe'[i] : pipe'[i][n].type # "Terminate"
    BY <2>4, <2>6, <2>7, QuestionOrdered
  <2>9. Questions(i)'
    BY <1>1, <2>1, <2>2, <2>5, <2>8 DEF Questions
  <2>10. Answers(i)' /\ Errors(i)'
    BY <1>1, <2>2 DEF Answers, Errors
  <2> QED BY <2>9, <2>10 DEF Pipes
<1>4. CASE i # k
  <2>1. (Waits(i)' <=> Waits(i)) /\ (Ends(i)' <=> Ends(i))
    BY <1>0, <1>1, <1>4 DEF Waits, Ends
  <2>2. pipe'[i] = pipe[i] /\ buffer'[i] = buffer[i]
    BY <1>1, <1>4 DEF Sent, Types
  <2>3. Questions(i) /\ Answers(i) /\ Errors(i)
    BY DEF PipeInv
  <2>4. Questions(i)'
    BY <1>1, <2>1, <2>2, <2>3 DEF Questions
  <2>5. Answers(i)' /\ Errors(i)'
    BY <1>1, <2>1, <2>2, <2>3 DEF Answers, Errors
  <2> QED BY <2>4, <2>5 DEF Pipes
<1> QED BY <1>3, <1>4

LEMMA SendModePipes ==
  ASSUME Types, PipeInv, SendMode, NEW i \in Clients
  PROVE  Pipes(i)'
<1> DEFINE msg == [type |-> "LogEvalError", mode |-> mode]
<1>0. k \in Clients /\ k \in Nat /\ pc = "get"
  BY DEF Types, Clients, SendMode
<1>1. Sent(k, <<msg>>) /\ reply' = reply /\ server' = server /\ pc' = pc /\ k' = k
  BY DEF SendMode
<1>2. (Waits(i)' <=> Waits(i)) /\ (Ends(i)' <=> Ends(i)) /\ ~Ends(i)
  BY <1>0, <1>1 DEF Waits, Ends
<1>3. Questions(i) /\ Answers(i) /\ Errors(i)
  BY DEF PipeInv
<1>4. CASE i = k
  <2>1. Waits(i) /\ buffer[i] = <<>>
    BY <1>0, <1>3, <1>4 DEF Waits, Questions
  <2>2. pipe[i] \in Seq(Messages) /\ msg \in Logs /\ msg \in Messages
    BY DEF Types, Logs, Messages
  <2>3. pipe'[i] = pipe[i] \o <<>> \o <<msg>> /\ buffer'[i] = <<>>
    BY <1>0, <1>1, <1>4, <2>1 DEF Sent, Types
  <2> HIDE DEF msg
  <2>4. pipe'[i] = Append(pipe[i], msg)
    <3>1. pipe[i] \o <<>> = pipe[i]
      BY <2>2, ConcatEmptySeq
    <3> QED BY <2>2, <2>3, <3>1, AppendIsConcat
  <2>5. \A n \in DOMAIN pipe[i] : pipe[i][n].type # "Terminate"
    BY <1>2, <1>3 DEF Questions
  <2>6. /\ Ordered(pipe'[i])
        /\ \A n \in DOMAIN pipe'[i] : /\ pipe'[i][n].type # "Terminate"
                                      /\ pipe'[i][n].type = "Retrieve" =>
                                           n \in DOMAIN pipe[i] /\ pipe[i][n].type = "Retrieve"
    BY <1>3, <2>2, <2>4, <2>5, LogOrdered DEF Questions
  <2>7. Questions(i)'
    BY <1>1, <1>2, <1>3, <2>3, <2>6 DEF Questions
  <2>8. Answers(i)'
    BY <1>1, <1>2, <1>3 DEF Answers
  <2>9. Errors(i)'
    <3>1. pipe[i] # <<>> => pipe'[i] # <<>> /\ Head(pipe'[i]) = Head(pipe[i])
      BY <2>2, <2>4, HeadTailAppend, AppendProperties
    <3> QED BY <1>1, <1>3, <3>1 DEF Errors
  <2> QED BY <2>7, <2>8, <2>9 DEF Pipes
<1>5. CASE i # k
  <2>1. pipe'[i] = pipe[i] /\ buffer'[i] = buffer[i]
    BY <1>1, <1>5 DEF Sent, Types
  <2>2. Questions(i)' /\ Answers(i)'
    BY <1>1, <1>2, <1>3, <2>1 DEF Questions, Answers
  <2>3. Errors(i)'
    BY <1>1, <1>3, <2>1 DEF Errors
  <2> QED BY <2>2, <2>3 DEF Pipes
<1> QED BY <1>4, <1>5

\* An answer is taken, by the client that is waiting for it.
LEMMA TakenPipes ==
  ASSUME Types, PipeInv, NEW i \in Clients, k \in Clients, reply[k] # <<>>,
         reply' = [reply EXCEPT ![k] = Tail(@)], UNCHANGED <<pipe, buffer, server>>,
         i = k => ~Waits(i)' /\ ~Ends(i)',
         i # k => (Waits(i)' <=> Waits(i)) /\ (Ends(i)' <=> Ends(i))
  PROVE  Pipes(i)'
<1>1. Questions(i) /\ Answers(i) /\ Errors(i)
  BY DEF PipeInv
<1>2. Errors(i)'
  BY <1>1 DEF Errors
<1>3. CASE i = k
  <2>1. reply[i] \in Seq(Replies) /\ Len(reply[i]) = 1
    BY <1>1, <1>3 DEF Answers, Types
  <2>2. reply'[i] = <<>>
    <3>1. Tail(reply[i]) \in Seq(Replies) /\ Len(Tail(reply[i])) = 0
      BY <1>3, <2>1, HeadTailProperties
    <3>2. Tail(reply[i]) = <<>>
      BY <3>1, EmptySeq
    <3> QED BY <1>3, <3>2 DEF Types
  <2>3. \A n \in DOMAIN pipe[i] : pipe[i][n].type \notin {"Retrieve", "Terminate"}
    BY <1>1, <1>3 DEF Questions
  <2>4. Questions(i)'
    <3>1. Ordered(pipe[i]) /\ pipe'[i] = pipe[i]
      BY <1>1 DEF Questions
    <3>2. ~Waits(i)'
      BY <1>3
    <3> QED BY <2>3, <3>1, <3>2 DEF Questions
  <2>5. Answers(i)'
    BY <2>2 DEF Answers
  <2> QED BY <1>2, <2>4, <2>5 DEF Pipes
<1>4. CASE i # k
  <2>1. reply'[i] = reply[i]
    BY <1>4 DEF Types
  <2>2. Questions(i)' /\ Answers(i)'
    BY <1>1, <1>4, <2>1 DEF Questions, Answers
  <2> QED BY <1>2, <2>2 DEF Pipes
<1> QED BY <1>3, <1>4

LEMMA StandbyPipes ==
  ASSUME Types, PipeInv, Standby, NEW i \in Clients
  PROVE  Pipes(i)'
<1> DEFINE msg == [type |-> "Terminate"]
<1>0. k \in Clients /\ pc = "standby" /\ pc' = "handshake" /\ k' = k
  BY DEF Types, Standby
<1>1. Sent(k, <<msg>>) /\ reply' = reply /\ server' = server
  BY DEF Standby
<1>2. ~Waits(i) /\ ~Waits(i)' /\ ~Ends(i) /\ (Ends(i)' <=> i = k)
  BY <1>0 DEF Waits, Ends
<1>3. Questions(i) /\ Answers(i) /\ Errors(i)
  BY DEF PipeInv
<1>4. Plain(pipe[i]) /\ reply[i] = <<>> /\ server[i].errors = 0 /\ Plain(Written(i))
      /\ Written(i) \in Seq(Messages)
  BY <1>2, PipesOf, NothingAsked
<1>5. Answers(i)' /\ Errors(i)'
  BY <1>1, <1>4 DEF Answers, Errors
<1>6. CASE i = k
  <2>1. msg \in Messages
    BY DEF Messages
  <2>2. pipe'[i] = Written(i) \o <<msg>> /\ buffer'[i] = <<>>
    BY <1>0, <1>1, <1>6 DEF Sent, Types, Written
  <2>3. pipe'[i] = Append(Written(i), msg)
    <3> HIDE DEF msg
    <3> QED BY <1>4, <2>1, <2>2, AppendIsConcat
  <2>4. Ordered(pipe'[i]) /\ \A n \in DOMAIN pipe'[i] : pipe'[i][n].type # "Retrieve"
    BY <1>4, <2>3, EndOrdered
  <2>5. Questions(i)'
    BY <1>1, <1>2, <1>4, <1>6, <2>4 DEF Questions
  <2> QED BY <1>5, <2>5 DEF Pipes
<1>7. CASE i # k
  <2>1. pipe'[i] = pipe[i]
    BY <1>1, <1>7 DEF Sent, Types
  <2>2. Ordered(pipe[i]) /\ \A n \in DOMAIN pipe[i] : pipe[i][n].type \notin {"Retrieve", "Terminate"}
    BY <1>4, PlainOrdered DEF Types
  <2>3. Questions(i)'
    BY <1>2, <2>1, <2>2 DEF Questions
  <2> QED BY <1>5, <2>3 DEF Pipes
<1> QED BY <1>6, <1>7

LEMMA ServerPipes ==
  ASSUME Types, PipeInv, NEW j \in Clients, Server(j), NEW i \in Clients
  PROVE  Pipes(i)'
<1>1. PICK type : Served(j, type)
  BY ServerEffect
<1>2. /\ pipe[j] \in Seq(Messages) /\ pipe[j] # <<>> /\ Head(pipe[j]) \in Messages
      /\ pipe' = [pipe EXCEPT ![j] = Tail(@)]
      /\ UNCHANGED <<programVars, pc, k, clientVars, buffer, historyVars>>
  BY <1>1, ServedTypes
<1>3. (Waits(i)' <=> Waits(i)) /\ (Ends(i)' <=> Ends(i))
  BY <1>2 DEF Waits, Ends
<1>4. Questions(i) /\ Answers(i) /\ Errors(i)
  BY DEF PipeInv
<1>5. server' = [server EXCEPT ![j] = Effect(j, server[j], Head(pipe[j]))]
  BY ServerEffect
<1>6. Head(pipe[j]).type = "Retrieve" =>
        reply' = [reply EXCEPT ![j] = Append(@,
          [type |-> "ReturnValue", value |-> server[j].value, errors |-> ErrorsSent(server[j])])]
  BY ServerEffect
<1>7. Head(pipe[j]).type = "Terminate" =>
        reply' = [reply EXCEPT ![j] = Append(@, [type |-> "Terminate"])]
  BY ServerEffect
<1>8. Head(pipe[j]).type \notin {"Retrieve", "Terminate"} => reply' = reply
  BY ServerEffect
<1>9. CASE i # j
  <2>1. pipe'[i] = pipe[i] /\ server'[i] = server[i] /\ buffer'[i] = buffer[i]
    BY <1>2, <1>5, <1>9 DEF Types
  <2>2. reply'[i] = reply[i]
    BY <1>9, <1>6, <1>7, <1>8 DEF Types
  <2>3. Questions(i)'
    BY <1>3, <1>4, <2>1, <2>2 DEF Questions
  <2>4. Answers(i)'
    BY <1>3, <1>4, <2>2 DEF Answers
  <2>5. Errors(i)'
    BY <1>4, <2>1 DEF Errors
  <2> QED BY <2>3, <2>4, <2>5 DEF Pipes
<1>10. CASE i = j
  <2> DEFINE head == Head(pipe[i])
             rest == Tail(pipe[i])
  <2>1. pipe'[i] = rest /\ buffer'[i] = buffer[i] /\ server'[i] = Effect(i, server[i], head)
    BY <1>2, <1>5, <1>10 DEF Types
  <2>2. server[i] \in ServerStates /\ reply[i] \in Seq(Replies)
    BY DEF Types
  <2>3. /\ Ordered(rest)
        /\ \A n \in DOMAIN rest : n + 1 \in DOMAIN pipe[i] /\ rest[n] = pipe[i][n + 1]
        /\ head.type = "Retrieve" => \A n \in DOMAIN rest : rest[n].type = "LogEvalError"
        /\ head.type = "Terminate" => rest = <<>>
        /\ head.type \in {"Calculate", "CalculateNoOffset"} =>
             rest # <<>> /\ Head(rest).type = "Retrieve"
        /\ 1 \in DOMAIN pipe[i] /\ head = pipe[i][1]
    BY <1>2, <1>4, <1>10, TailOrdered DEF Questions
  <2>4. Errors(i)'
    <3>1. ASSUME server'[i].errors > 0
          PROVE  /\ rest # <<>> /\ Head(rest).type = "Retrieve"
                 /\ Bad(i, server'[i].vals)
      <4>1. CASE server[i].errors > 0
        <5>1. head.type = "Retrieve"
          BY <1>4, <4>1 DEF Errors
        <5>2. server'[i] = [server[i] EXCEPT !.errors = 0]
          BY <2>1, <5>1 DEF Effect
        <5>3. server'[i].errors = 0
          BY <2>2, <5>2 DEF ServerStates
        <5> QED BY <3>1, <5>3
      <4>2. CASE ~(server[i].errors > 0)
        <5>1. server[i].errors = 0
          BY <2>2, <4>2 DEF ServerStates
        <5>2. CASE head.type \in {"Calculate", "CalculateNoOffset"}
          <6> DEFINE v == IF server[i].dirty THEN EvaluatePartition(i, server[i]) ELSE server[i]
                     value == IF head.type = "Calculate" THEN Hidden(v) ELSE v.cached
          <6>1. server'[i] = [v EXCEPT !.value = value]
            BY <2>1, <5>2 DEF Effect
          <6>2. v \in ServerStates
            BY <2>2, EvaluatedType
          <6>3. v.vals = server[i].vals /\ (v.errors > 0 => Bad(i, server[i].vals))
            BY <2>2, <5>1 DEF EvaluatePartition, ServerStates
          <6> HIDE DEF v, value
          <6>4. server'[i].errors = v.errors /\ server'[i].vals = v.vals
            BY <6>1, <6>2 DEF ServerStates
          <6> QED BY <2>3, <3>1, <5>2, <6>3, <6>4
        <5>3. CASE head.type \notin {"Calculate", "CalculateNoOffset"}
          <6>1. head.type \in {"SendReal", "EnableOffset", "ApplyNLLW2", "LogEvalError", "Retrieve", "Terminate"}
            BY <1>2, <1>10, <5>3, MessageTypes
          <6>2. Effect(i, server[i], head).errors = 0
            BY <2>2, <5>1, <6>1 DEF Effect, WeightSquared, ServerStates
          <6> QED BY <2>1, <3>1, <6>2
        <5> QED BY <5>2, <5>3
      <4> QED BY <4>1, <4>2
    <3> HIDE DEF rest
    <3> QED BY <2>1, <3>1 DEF Errors
  <2>5. CASE head.type = "Retrieve"
    <3>1. Waits(i) /\ reply[i] = <<>>
      BY <1>4, <2>3, <2>5 DEF Questions
    <3>2. reply'[i] = << [type |-> "ReturnValue", value |-> server[i].value,
                          errors |-> ErrorsSent(server[i])] >>
      BY <1>10, <1>6, <2>5, <3>1 DEF Types
    <3>3. Questions(i)'
      <4>1. \A n \in DOMAIN rest : rest[n].type = "LogEvalError"
        BY <2>3, <2>5
      <4>2. Waits(i) => buffer[i] = <<>>
        BY <1>4 DEF Questions
      <4> QED BY <1>3, <2>1, <2>3, <4>1, <4>2 DEF Questions
    <3>4. Answers(i)'
      <4>1. Len(reply'[i]) = 1 /\ Head(reply'[i]).type = "ReturnValue"
        BY <3>2
      <4> QED BY <1>3, <3>1, <4>1 DEF Answers
    <3> QED BY <2>4, <3>3, <3>4 DEF Pipes
  <2>6. CASE head.type = "Terminate"
    <3>1. Ends(i) /\ reply[i] = <<>>
      BY <1>4, <2>3, <2>6 DEF Questions
    <3>2. reply'[i] = << [type |-> "Terminate"] >>
      BY <1>10, <1>7, <2>6, <3>1 DEF Types
    <3>3. Questions(i)'
      <4>1. rest = <<>>
        BY <2>3, <2>6
      <4>2. Waits(i) => buffer[i] = <<>>
        BY <1>4 DEF Questions
      <4> QED BY <1>3, <2>1, <2>3, <4>1, <4>2 DEF Questions
    <3>4. Answers(i)'
      <4>1. Len(reply'[i]) = 1 /\ Head(reply'[i]).type = "Terminate"
        BY <3>2
      <4> QED BY <1>3, <3>1, <4>1 DEF Answers
    <3> QED BY <2>4, <3>3, <3>4 DEF Pipes
  <2>7. CASE head.type \notin {"Retrieve", "Terminate"}
    <3>1. reply'[i] = reply[i]
      BY <1>10, <1>8, <2>7
    <3>2. Questions(i)'
      <4>1. ASSUME NEW n \in DOMAIN rest
            PROVE  /\ rest[n].type = "Retrieve" => Waits(i) /\ reply[i] = <<>>
                   /\ rest[n].type = "Terminate" => Ends(i) /\ reply[i] = <<>>
        BY <1>4, <2>3, <4>1 DEF Questions
      <4>2. Waits(i) => buffer[i] = <<>>
        BY <1>4 DEF Questions
      <4> HIDE DEF rest
      <4> QED BY <1>3, <2>1, <2>3, <3>1, <4>1, <4>2 DEF Questions
    <3>3. Answers(i)'
      BY <1>3, <1>4, <3>1 DEF Answers
    <3> QED BY <2>4, <3>2, <3>3 DEF Pipes
  <2> QED BY <2>5, <2>6, <2>7
<1> QED BY <1>9, <1>10

LEMMA InitPipes ==
  ASSUME Init
  PROVE  PipeInv
<1>1. /\ pc = "idle" /\ k = 1 /\ ~init /\ dirty
      /\ asked = [squared |-> FALSE, doOffset |-> FALSE]
      /\ \A i \in Clients : buffer[i] = <<>> /\ pipe[i] = <<>> /\ reply[i] = <<>>
  BY DEF Init
<1>2. ASSUME NEW i \in Clients
      PROVE  server[i].errors = 0
  BY DEF Init, Forked
<1>3. Unforked
  BY <1>1 DEF Unforked
<1>4. ASSUME NEW i \in Clients
      PROVE  Questions(i) /\ Answers(i) /\ Errors(i)
  BY <1>1, <1>2 DEF Questions, Answers, Errors, Ordered
<1> QED BY <1>3, <1>4 DEF PipeInv

LEMMA NextUnforked ==
  ASSUME Types, Unforked, [Next]_vars
  PROVE  Unforked'
<1>1. CASE \E new \in Points : SetVal(new) \/ Evaluate(new)
  <2>1. /\ UNCHANGED <<init, pipeVars, historyVars>>
        /\ dirty => dirty'
        /\ pc = "idle"
        /\ pc' = pc \/ (k' = 1 /\ pc' = IF dirty' THEN "calculate" ELSE "return")
    BY <1>1 DEF SetVal, Evaluate, Set, Idle
  <2>2. pc' \notin {"get", "standby", "handshake"} /\ (pc' = "calculate" => k' = 1)
    BY <2>1
  <2> QED BY <2>1, <2>2 DEF Unforked, pipeVars, historyVars
<1>2. CASE \E flag \in BOOLEAN : EnableOffsetting(flag) \/ ApplyWeightSquared(flag)
  BY <1>2 DEF Unforked, EnableOffsetting, ApplyWeightSquared, Initialized, programVars, Types
<1>3. CASE \E m \in FitModes : BeginFit(m)
  BY <1>3 DEF Unforked, BeginFit, Idle, pipeVars, historyVars
<1>4. CASE EndFit
  BY <1>4 DEF Unforked, EndFit, pipeVars, historyVars
<1>5. CASE GetVal
  BY <1>5 DEF Unforked, GetVal, programVars, pipeVars, historyVars
<1>6. CASE Delete
  BY <1>6 DEF Unforked, Delete, programVars, pipeVars, historyVars
<1>7. CASE Initialize
  BY <1>7 DEF Unforked, Initialize, Initialized
<1>8. CASE Calculate
  BY <1>8 DEF Unforked, Calculate, programVars
<1>9. CASE SendMode
  BY <1>9 DEF Unforked, SendMode, programVars
<1>10. CASE Receive
  BY <1>10 DEF Unforked, Receive
<1>11. CASE Return
  BY <1>11 DEF Unforked, Return, programVars, pipeVars, historyVars
<1>12. CASE Standby
  BY <1>12 DEF Unforked, Standby, programVars
<1>13. CASE Handshake
  BY <1>13 DEF Unforked, Handshake, programVars
<1>14. ASSUME NEW i \in Clients, Server(i)
       PROVE  Unforked'
  <2>1. PICK type : Served(i, type)
    BY <1>14, ServerEffect
  <2>2. init /\ init' = init
    BY <2>1 DEF Unforked, Served, programVars, Types
  <2> QED BY <2>2 DEF Unforked
<1>15. CASE UNCHANGED vars
  BY <1>15 DEF Unforked, vars, programVars, pipeVars, historyVars
<1> QED BY <1>1, <1>2, <1>3, <1>4, <1>5, <1>6, <1>7, <1>8, <1>9, <1>10, <1>11, <1>12, <1>13,
           <1>14, <1>15 DEF Next, Working

LEMMA NextPipes ==
  ASSUME Types, PipeInv, [Next]_vars
  PROVE  PipeInv'
<1>0. \A i \in Clients : Pipes(i) /\ i \in Nat /\ k \in Clients /\ k \in Nat /\ i >= 1 /\ i <= N /\ k <= N
  BY PipesOf, Constants DEF Types, Clients
<1>00. N \in Nat \ {0} /\ Clients = 1..N
  BY Constants DEF Clients
<1> SUFFICES ASSUME NEW i \in Clients
             PROVE  Pipes(i)'
  <2>1. Unforked'
    BY PipesOf, NextUnforked
  <2> QED BY <2>1 DEF PipeInv, Pipes
<1>1. CASE \E new \in Points : SetVal(new) \/ Evaluate(new)
  <2>1. UNCHANGED <<pipeVars, server>>
    BY <1>1 DEF SetVal, Evaluate
  <2>2. ~Waits(i) /\ ~Ends(i) /\ ~Waits(i)' /\ ~Ends(i)'
    BY <1>0, <1>1 DEF SetVal, Evaluate, Idle, Waits, Ends
  <2> QED BY <1>0, <2>1, <2>2, SamePipes
<1>2. CASE \E flag \in BOOLEAN : EnableOffsetting(flag) \/ ApplyWeightSquared(flag)
  <2>1. ~Waits(i) /\ ~Ends(i) /\ ~Waits(i)' /\ pipe' = pipe /\ reply' = reply
    BY <1>2 DEF EnableOffsetting, ApplyWeightSquared, Idle, Waits, Ends
  <2>2. server'[i] = server[i] \/ server'[i] = Forked(params, mode)
    BY <1>2 DEF EnableOffsetting, ApplyWeightSquared, Initialized
  <2>3. server'[i].errors = 0
    BY <1>0, <2>1, <2>2, NothingAsked DEF Forked
  <2> QED BY <1>0, <2>1, <2>3, IdlePipes
<1>3. CASE \E m \in FitModes : BeginFit(m)
  <2>1. UNCHANGED <<pipeVars, server>> /\ pc' = pc /\ k' = k
    BY <1>3 DEF BeginFit
  <2> QED BY <1>0, <2>1, SamePipes DEF Waits, Ends
<1>4. CASE EndFit
  <2>1. UNCHANGED <<pipeVars, server>> /\ pc' = pc /\ k' = k
    BY <1>4 DEF EndFit
  <2> QED BY <1>0, <2>1, SamePipes DEF Waits, Ends
<1>5. CASE GetVal \/ Delete
  <2>1. UNCHANGED <<pipeVars, server>>
    BY <1>5 DEF GetVal, Delete
  <2>2. ~Waits(i) /\ ~Ends(i) /\ ~Waits(i)' /\ ~Ends(i)'
    BY <1>0, <1>5 DEF GetVal, Delete, Idle, Waits, Ends
  <2> QED BY <1>0, <2>1, <2>2, SamePipes
<1>6. CASE Initialize
  <2>1. pc = "calculate" /\ k = 1 /\ pc' = pc /\ k' = k
    BY <1>6, PipesOf DEF Initialize, Unforked
  <2>2. ~Waits(i) /\ ~Ends(i) /\ ~Waits(i)' /\ pipe' = pipe /\ reply' = reply
    BY <1>0, <1>6, <2>1 DEF Initialize, pipeVars, Waits, Ends
  <2>3. server'[i] = Forked(params, mode)
    BY <1>6 DEF Initialize, Initialized
  <2>4. server'[i].errors = 0
    BY <2>3 DEF Forked
  <2> QED BY <1>0, <2>2, <2>4, IdlePipes
<1>7. CASE Calculate
  BY <1>7, CalculatePipes
<1>8. CASE SendMode
  BY <1>8, SendModePipes
<1>9. CASE Receive
  <2>1. /\ k \in Clients /\ reply[k] # <<>> /\ reply' = [reply EXCEPT ![k] = Tail(@)]
        /\ UNCHANGED <<pipe, buffer, server>>
    BY <1>0, <1>9 DEF Receive
  <2>2. pc = "get" /\ k' = (IF k = N THEN 1 ELSE k + 1) /\ pc' = (IF k = N THEN "return" ELSE pc)
    BY <1>9 DEF Receive, NextClient
  <2>3. ~Ends(i) /\ ~Ends(i)'
    BY <2>2 DEF Ends
  <2>4. Waits(i)' <=> pc' = "get" /\ i >= k'
    BY <2>2 DEF Waits
  <2>5. i = k => ~Waits(i)'
    BY <1>0, <1>00, <2>2, <2>4
  <2>6. i # k => (Waits(i)' <=> Waits(i))
    BY <1>0, <1>00, <2>2, <2>4 DEF Waits
  <2> QED BY <2>1, <2>3, <2>5, <2>6, TakenPipes
<1>10. CASE Return
  <2>1. UNCHANGED <<pipeVars, server>>
    BY <1>10 DEF Return
  <2>2. ~Waits(i) /\ ~Ends(i) /\ ~Waits(i)' /\ ~Ends(i)'
    BY <1>10 DEF Return, Waits, Ends
  <2> QED BY <1>0, <2>1, <2>2, SamePipes
<1>11. CASE Standby
  BY <1>11, StandbyPipes
<1>12. CASE Handshake
  <2>1. /\ k \in Clients /\ reply[k] # <<>> /\ reply' = [reply EXCEPT ![k] = Tail(@)]
        /\ UNCHANGED <<pipe, buffer, server>>
    BY <1>0, <1>12 DEF Handshake
  <2>2. pc = "handshake" /\ pc' \in {"deleted", "standby"}
    BY <1>12 DEF Handshake
  <2>3. ~Waits(i) /\ ~Waits(i)' /\ ~Ends(i)' /\ (i # k => ~Ends(i))
    BY <2>2 DEF Waits, Ends
  <2> QED BY <2>1, <2>3, TakenPipes
<1>13. CASE \E j \in Clients : Server(j)
  BY <1>13, ServerPipes
<1>14. CASE UNCHANGED vars
  <2>1. UNCHANGED <<pipeVars, server>> /\ pc' = pc /\ k' = k
    BY <1>14 DEF vars
  <2> QED BY <1>0, <2>1, SamePipes DEF Waits, Ends
<1> QED BY <1>1, <1>2, <1>3, <1>4, <1>5, <1>6, <1>7, <1>8, <1>9, <1>10, <1>11, <1>12, <1>13,
           <1>14 DEF Next, Working

-----------------------------------------------------------------------------
(* What the servers will be *)

LEMMA EnableEffect ==
  ASSUME NEW i, NEW s \in ServerStates, Sound(i, s), NEW flag \in BOOLEAN, NEW u,
         u = Effect(i, s, [type |-> "EnableOffset", flag |-> flag])
  PROVE  /\ Sound(i, u) /\ u.vals = s.vals /\ u.squared = s.squared /\ u.doOffset = flag
         /\ u.otherOffset = s.otherOffset /\ u.offset = IF flag THEN s.offset ELSE {}
<1>1. u = [s EXCEPT !.doOffset = flag, !.offset = IF flag THEN @ ELSE {}, !.dirty = TRUE]
  BY DEF Effect
<1>2. /\ u.vals = s.vals /\ u.squared = s.squared /\ u.doOffset = flag /\ u.dirty
      /\ u.otherOffset = s.otherOffset /\ u.offset = IF flag THEN s.offset ELSE {}
  BY <1>1 DEF ServerStates
<1> QED BY <1>2 DEF Sound

LEMMA WeightsEffect ==
  ASSUME NEW i, NEW s \in ServerStates, Sound(i, s), NEW flag \in BOOLEAN, flag # s.squared, NEW u,
         u = Effect(i, s, [type |-> "ApplyNLLW2", flag |-> flag])
  PROVE  /\ Sound(i, u) /\ u.vals = s.vals /\ u.squared = flag /\ u.doOffset = s.doOffset
         /\ u.otherOffset = s.offset /\ u.offset = s.otherOffset
<1>1. u = [s EXCEPT !.squared = flag, !.dirty = TRUE,
                    !.offset = s.otherOffset, !.otherOffset = s.offset]
  BY DEF Effect, WeightSquared
<1>2. /\ u.vals = s.vals /\ u.squared = flag /\ u.doOffset = s.doOffset /\ u.dirty
      /\ u.otherOffset = s.offset /\ u.offset = s.otherOffset
  BY <1>1 DEF ServerStates
<1>3. \A x \in u.offset : x.squared = u.squared
  BY <1>2 DEF Sound, ServerStates, Origins
<1>4. \A x \in u.otherOffset : x.squared # u.squared
  BY <1>2 DEF Sound
<1> QED BY <1>2, <1>3, <1>4 DEF Sound

LEMMA WrittenType ==
  ASSUME Types, NEW i \in Clients
  PROVE  Written(i) \in Seq(Messages) /\ pipe[i] \in Seq(Messages) /\ buffer[i] \in Seq(Messages)
<1>1. pipe[i] \in Seq(Messages) /\ buffer[i] \in Seq(Switches)
  BY DEF Types
<1>2. buffer[i] \in Seq(Messages)
  BY <1>1, SeqMonotonic DEF Messages
<1> QED BY <1>1, <1>2, ConcatProperties DEF Written

LEMMA AppendBehind ==
  ASSUME NEW p \in Seq(Messages), NEW q \in Seq(Messages), NEW msg \in Messages
  PROVE  p \o Append(q, msg) = Append(p \o q, msg)
<1> DEFINE m == <<msg>>
<1>1. m \in Seq(Messages)
  OBVIOUS
<1>2. p \o q \in Seq(Messages)
  BY ConcatProperties
<1>3. Append(q, msg) = q \o m /\ Append(p \o q, msg) = (p \o q) \o m
  BY <1>2, AppendIsConcat
<1> HIDE DEF m
<1>4. (p \o q) \o m = p \o (q \o m)
  BY <1>1, ConcatAssociative
<1> QED BY <1>3, <1>4

\* The program begins or ends an evaluation, or changes what it is of.
LEMMA IdleFuture ==
  ASSUME Types, Future, pc \in {"idle", "return"}, UNCHANGED <<pipeVars, server, saved, asked, init>>,
         pc' \in {"idle", "return"} \/ (pc' = "calculate" /\ k' = 1)
  PROVE  Future'
<1> SUFFICES ASSUME Live'
             PROVE  \E F \in [Clients -> ServerStates] :
                      /\ \A i \in Clients : Leads(i, server'[i], Written(i)', F[i]) /\ Own(i, F[i])'
                      /\ Together(F)'
  BY DEF Future
<1>1. Live
  BY DEF Live
<1>2. PICK F \in [Clients -> ServerStates] :
         /\ \A i \in Clients : Leads(i, server[i], Written(i), F[i]) /\ Own(i, F[i])
         /\ Together(F)
  BY <1>1 DEF Future
<1>3. ASSUME NEW i \in Clients
      PROVE  Leads(i, server'[i], Written(i)', F[i]) /\ Own(i, F[i])'
  <2>1. i \in Nat /\ i >= 1
    BY DEF Clients
  <2>2. ~Waits(i)' /\ pc' # "get"
    BY <2>1 DEF Waits
  <2>3. Leads(i, server[i], Written(i), F[i]) /\ Own(i, F[i])
    BY <1>2
  <2>4. Leads(i, server'[i], Written(i)', F[i])
    BY <2>3 DEF Written, pipeVars
  <2>5. Own(i, F[i])'
    BY <2>2, <2>3 DEF Own
  <2> QED BY <2>4, <2>5
<1>4. Together(F)'
  <2>1. ASSUME NEW i \in Clients
        PROVE  ~(pc' = "calculate" /\ i < k') /\ ~(pc = "calculate")
    BY DEF Clients
  <2>2. ~(pc' = "calculate" /\ k' > 1)
    OBVIOUS
  <2>3. ASSUME NEW i \in Clients, NEW j \in Clients
        PROVE  Agree(i, j, Coming(i, F[i])', Coming(j, F[j])')
    <3>1. Agree(i, j, F[i].offset, F[j].offset) /\ Agree(j, i, F[j].offset, F[i].offset)
      BY <1>2, <2>1 DEF Together, Coming
    <3>2. CASE pc' = "calculate"
      <4> DEFINE here == Here(params', asked'.squared)
      <4>1. /\ Coming(i, F[i])' = Offset(i, asked'.doOffset, F[i].offset, here)
            /\ Coming(j, F[j])' = Offset(j, asked'.doOffset, F[j].offset, here)
        BY <2>1, <3>2 DEF Coming, Here, Offset
      <4> HIDE DEF here
      <4> QED BY <3>1, <4>1, AgreeAfter
    <3>3. CASE pc' # "calculate"
      BY <3>1, <3>3 DEF Coming
    <3> QED BY <3>2, <3>3
  <2>4. ASSUME NEW i \in Clients, NEW j \in Clients
        PROVE  Agree(i, j, F[i].otherOffset, F[j].otherOffset)
    BY <1>2 DEF Together
  <2>5. \A i \in Clients : saved'[i] = saved'[N]
    BY <1>2, <2>1 DEF Together
  <2> QED BY <2>2, <2>3, <2>4, <2>5 DEF Together, Agree
<1> QED BY <1>3, <1>4

\* The processes are there, and are forked if they were not.
LEMMA InitializedFuture ==
  ASSUME Types, PipeInv, Future, Initialized, pc = "idle" \/ (pc = "calculate" /\ ~init)
  PROVE  \E F \in [Clients -> ServerStates] : \A i \in Clients :
           /\ Leads(i, server'[i], Written(i), F[i]) /\ Sound(i, F[i])
           /\ F[i].vals = saved'[i] /\ F[i].squared = asked.squared /\ F[i].doOffset = asked.doOffset
           /\ saved'[i] = saved'[N]
           /\ \A j \in Clients : /\ Agree(i, j, F[i].otherOffset, F[j].otherOffset)
                                /\ Agree(i, j, F[i].offset, F[j].offset)
<1>0. N \in Clients
  BY Constants
<1>1. CASE init
  <2>1. server' = server /\ saved' = saved /\ Live /\ pc = "idle"
    BY <1>1 DEF Initialized, Live
  <2>2. PICK F \in [Clients -> ServerStates] :
           /\ \A i \in Clients : Leads(i, server[i], Written(i), F[i]) /\ Own(i, F[i])
           /\ Together(F)
    BY <2>1 DEF Future
  <2>3. \A i, j \in Clients : Agree(i, j, F[i].offset, F[j].offset)
    BY <2>1, <2>2 DEF Together, Coming
  <2> QED BY <2>1, <2>2, <2>3 DEF Own, Together
<1>2. CASE ~init
  <2> DEFINE s == Forked(params, mode)
             F == [i \in Clients |-> s]
  <2>1. s \in ServerStates
    BY ForkedType DEF Types
  <2>2. s.vals = params /\ s.squared = FALSE /\ s.doOffset = FALSE /\ \A i : Sound(i, s)
        /\ s.offset = {} /\ s.otherOffset = {}
    BY DEF Forked, Sound
  <2>3. asked.squared = FALSE /\ asked.doOffset = FALSE
    BY <1>2 DEF PipeInv, Unforked
  <2> HIDE DEF s
  <2>4. ASSUME NEW i \in Clients
        PROVE  /\ Leads(i, server'[i], Written(i), F[i]) /\ Sound(i, F[i])
               /\ F[i].vals = saved'[i] /\ F[i].squared = asked.squared /\ F[i].doOffset = asked.doOffset
               /\ saved'[i] = saved'[N]
               /\ \A j \in Clients : /\ Agree(i, j, F[i].otherOffset, F[j].otherOffset)
                                    /\ Agree(i, j, F[i].offset, F[j].offset)
    <3>1. F[i] = s /\ F[N] = s /\ server'[i] = s /\ saved'[i] = params /\ saved'[N] = params
      BY <1>0, <1>2 DEF Initialized, s
    <3>2. Written(i) = <<>>
      <4>1. pipe[i] = <<>> /\ buffer[i] = <<>>
        BY <1>2 DEF PipeInv, Unforked
      <4> QED BY <4>1, WrittenType, ConcatEmptySeq DEF Written
    <3>3. \A j \in Clients : F[i].otherOffset = {} /\ F[i].offset = {}
      BY <2>2, <3>1
    <3> QED BY <2>1, <2>2, <2>3, <3>1, <3>2, <3>3, LeadsNowhere DEF Agree
  <2>5. F \in [Clients -> ServerStates]
    BY <2>1
  <2> HIDE DEF F
  <2> QED BY <2>4, <2>5
<1> QED BY <1>1, <1>2

\* All clients write one message for their servers.
LEMMA SwitchFuture ==
  ASSUME Types, Types', PipeInv, Future, pc = "idle", pc' = pc, k' = k, NEW flag \in BOOLEAN, NEW msg \in Messages,
         Initialized, pipe' = pipe,
         buffer' = [i \in Clients |-> Append(buffer[i], msg)],
         \/ /\ msg = [type |-> "EnableOffset", flag |-> flag]
            /\ asked' = [asked EXCEPT !.doOffset = flag]
         \/ /\ msg = [type |-> "ApplyNLLW2", flag |-> flag]
            /\ asked' = [asked EXCEPT !.squared = flag] /\ flag # asked.squared
  PROVE  Future'
<1> SUFFICES \E F \in [Clients -> ServerStates] :
               /\ \A i \in Clients : Leads(i, server'[i], Written(i)', F[i]) /\ Own(i, F[i])'
               /\ Together(F)'
  BY DEF Future
<1>0. N \in Clients
  BY Constants
<1>1. PICK F \in [Clients -> ServerStates] : \A i \in Clients :
         /\ Leads(i, server'[i], Written(i), F[i]) /\ Sound(i, F[i])
         /\ F[i].vals = saved'[i] /\ F[i].squared = asked.squared /\ F[i].doOffset = asked.doOffset
         /\ saved'[i] = saved'[N]
         /\ \A j \in Clients : /\ Agree(i, j, F[i].otherOffset, F[j].otherOffset)
                              /\ Agree(i, j, F[i].offset, F[j].offset)
  BY InitializedFuture
<1> DEFINE G == [i \in Clients |-> Effect(i, F[i], msg)]
<1>2. ASSUME NEW i \in Clients
      PROVE  G[i] = Effect(i, F[i], msg) /\ G[i] \in ServerStates
  BY EffectType
<1>3. G \in [Clients -> ServerStates]
  BY EffectType
<1> HIDE DEF G
<1>4. ASSUME NEW i \in Clients
      PROVE  Leads(i, server'[i], Written(i)', G[i])
  <2>1. Written(i)' = Append(Written(i), msg)
    <3>1. Written(i)' = pipe[i] \o Append(buffer[i], msg)
      BY DEF Written
    <3>2. pipe[i] \in Seq(Messages) /\ buffer[i] \in Seq(Messages)
      BY WrittenType
    <3> QED BY <3>1, <3>2, AppendBehind DEF Written
  <2>2. Written(i) \in Seq(Messages)
    BY WrittenType
  <2> QED BY <1>1, <1>2, <2>1, <2>2, LeadsFurther
<1>5. ASSUME NEW i \in Clients
      PROVE  /\ Sound(i, G[i]) /\ G[i].vals = saved'[i]
             /\ G[i].squared = asked'.squared /\ G[i].doOffset = asked'.doOffset
             /\ \A j \in Clients : /\ Agree(i, j, G[i].otherOffset, G[j].otherOffset)
                                  /\ Agree(i, j, G[i].offset, G[j].offset)
  <2>1. asked.squared \in BOOLEAN /\ asked \in [squared : BOOLEAN, doOffset : BOOLEAN]
    BY DEF Types
  <2>2. CASE msg = [type |-> "EnableOffset", flag |-> flag] /\ asked' = [asked EXCEPT !.doOffset = flag]
    <3>1. ASSUME NEW j \in Clients
          PROVE  /\ Sound(j, G[j]) /\ G[j].vals = F[j].vals /\ G[j].squared = F[j].squared /\ G[j].doOffset = flag
                 /\ G[j].otherOffset = F[j].otherOffset /\ G[j].offset = IF flag THEN F[j].offset ELSE {}
      <4>1. F[j] \in ServerStates /\ Sound(j, F[j])
        BY <1>1
      <4>2. G[j] = Effect(j, F[j], [type |-> "EnableOffset", flag |-> flag])
        BY <1>2, <2>2
      <4> QED BY <4>1, <4>2, EnableEffect
    <3>2. asked'.squared = asked.squared /\ asked'.doOffset = flag
      BY <2>1, <2>2
    <3>3. ASSUME NEW j \in Clients
          PROVE  /\ Agree(i, j, G[i].otherOffset, G[j].otherOffset)
                 /\ Agree(i, j, G[i].offset, G[j].offset)
      <4>1. CASE flag
        BY <1>1, <3>1, <4>1
      <4>2. CASE ~flag
        <5>1. G[i].offset = {} /\ G[j].offset = {}
          BY <3>1, <4>2
        <5>2. Agree(i, j, G[i].offset, G[j].offset)
          BY <5>1 DEF Agree
        <5>3. Agree(i, j, G[i].otherOffset, G[j].otherOffset)
          BY <1>1, <3>1
        <5> QED BY <5>2, <5>3
      <4> QED BY <4>1, <4>2
    <3>4. /\ Sound(i, G[i]) /\ G[i].vals = saved'[i]
          /\ G[i].squared = asked'.squared /\ G[i].doOffset = asked'.doOffset
      BY <1>1, <3>1, <3>2
    <3> QED BY <3>3, <3>4
  <2>3. CASE /\ msg = [type |-> "ApplyNLLW2", flag |-> flag]
             /\ asked' = [asked EXCEPT !.squared = flag] /\ flag # asked.squared
    <3>1. ASSUME NEW j \in Clients
          PROVE  /\ Sound(j, G[j]) /\ G[j].vals = F[j].vals /\ G[j].squared = flag /\ G[j].doOffset = F[j].doOffset
                 /\ G[j].otherOffset = F[j].offset /\ G[j].offset = F[j].otherOffset
      <4>1. F[j] \in ServerStates /\ Sound(j, F[j]) /\ flag # F[j].squared
        BY <1>1, <2>3
      <4>2. G[j] = Effect(j, F[j], [type |-> "ApplyNLLW2", flag |-> flag])
        BY <1>2, <2>3
      <4> QED BY <4>1, <4>2, WeightsEffect
    <3>2. asked'.squared = flag /\ asked'.doOffset = asked.doOffset
      BY <2>1, <2>3
    <3>3. ASSUME NEW j \in Clients
          PROVE  /\ Agree(i, j, G[i].otherOffset, G[j].otherOffset)
                 /\ Agree(i, j, G[i].offset, G[j].offset)
      BY <1>1, <3>1
    <3>4. /\ Sound(i, G[i]) /\ G[i].vals = saved'[i]
          /\ G[i].squared = asked'.squared /\ G[i].doOffset = asked'.doOffset
      BY <1>1, <3>1, <3>2
    <3> QED BY <3>3, <3>4
  <2> QED BY <2>2, <2>3
<1>6. ASSUME NEW i \in Clients
      PROVE  Own(i, G[i])'
  <2>1. ~Waits(i)' /\ pc' # "get"
    BY DEF Waits
  <2> QED BY <1>5, <2>1 DEF Own
<1>7. Together(G)'
  <2>1. pc' # "calculate"
    OBVIOUS
  <2>2. ASSUME NEW i \in Clients, NEW j \in Clients
        PROVE  /\ Agree(i, j, G[i].otherOffset, G[j].otherOffset)
               /\ Agree(i, j, Coming(i, G[i])', Coming(j, G[j])')
    <3>1. Coming(i, G[i])' = G[i].offset /\ Coming(j, G[j])' = G[j].offset
      BY <2>1 DEF Coming
    <3> QED BY <1>5, <3>1
  <2>3. \A i \in Clients : saved'[i] = saved'[N]
    BY <1>1
  <2> QED BY <2>1, <2>2, <2>3 DEF Together, Agree
<1> QED BY <1>3, <1>4, <1>6, <1>7

\* The client k writes the parameters that changed, and asks for the value.
LEMMA CalculateFuture ==
  ASSUME Types, PipeInv, Future, Calculate
  PROVE  Future'
<1> SUFFICES \E F \in [Clients -> ServerStates] :
               /\ \A i \in Clients : Leads(i, server'[i], Written(i)', F[i]) /\ Own(i, F[i])'
               /\ Together(F)'
  BY DEF Future
<1> DEFINE calc == IF inFit THEN "CalculateNoOffset" ELSE "Calculate"
           msgs == Request(k, calc)
<1>0. /\ N \in Clients /\ N \in Nat /\ N >= 1 /\ k \in Clients /\ k \in Nat /\ k >= 1 /\ k <= N
      /\ \A i \in Clients : i \in Nat /\ i >= 1 /\ i <= N
      /\ pc = "calculate" /\ init
  BY Constants DEF Types, Clients, Calculate
<1>1. /\ Sent(k, msgs) /\ UNCHANGED <<reply, server, programVars, part, historyVars>>
      /\ pc' = (IF k = N THEN "get" ELSE pc) /\ k' = (IF k = N THEN 1 ELSE k + 1)
      /\ changed' = IF k = 1 THEN [j \in 1..NPar |-> params[j] # saved[1][j]] ELSE changed
      /\ saved' = [saved EXCEPT ![k] = [j \in 1..NPar |-> IF IsChanged(k, j) THEN params[j] ELSE @[j]]]
  BY DEF Calculate, NextClient, Request
<1>2. PICK F \in [Clients -> ServerStates] :
         /\ \A i \in Clients : Leads(i, server[i], Written(i), F[i]) /\ Own(i, F[i])
         /\ Together(F)
  BY <1>0 DEF Future, Live
<1>3. \A i \in Clients : F[i] \in ServerStates
  BY <1>2
<1>4. ASSUME NEW j \in 1..NPar
      PROVE  IsChanged(k, j) \/ saved[k][j] = params[j]
  <2>1. saved[k] = saved[N]
    BY <1>0, <1>2 DEF Together
  <2>2. CASE k = 1
    BY <2>2 DEF IsChanged
  <2>3. CASE k # 1
    <3>1. changed[j] = (params[j] # saved[N][j])
      BY <1>0, <1>2, <2>3 DEF Together
    <3> QED BY <2>1, <2>3, <3>1 DEF IsChanged
  <2> QED BY <2>2, <2>3
<1>5. saved'[k] = params /\ \A i \in Clients : i # k => saved'[i] = saved[i]
  <2>1. saved'[k] = [j \in 1..NPar |-> IF IsChanged(k, j) THEN params[j] ELSE saved[k][j]]
    BY <1>0, <1>1 DEF Types
  <2>2. params \in [1..NPar -> Values]
    BY DEF Types, Points
  <2>3. saved'[k] = params
    BY <1>4, <2>1, <2>2
  <2>4. \A i \in Clients : i # k => saved'[i] = saved[i]
    BY <1>1 DEF Types
  <2> QED BY <2>3, <2>4
<1>6. F[k] \in ServerStates /\ Sound(k, F[k]) /\ F[k].vals = saved[k]
      /\ F[k].squared = asked.squared /\ F[k].doOffset = asked.doOffset
  BY <1>0, <1>2, <1>3 DEF Own
<1>7. \A j \in 1..NPar : IsChanged(k, j) \/ F[k].vals[j] = params[j]
  BY <1>4, <1>6
<1>8. calc \in {"Calculate", "CalculateNoOffset"} /\ (inFit => calc = "CalculateNoOffset")
  OBVIOUS
<1>9. /\ msgs \in Seq(Messages)
      /\ \E u \in ServerStates : Leads(k, F[k], msgs, u) /\ Calculated(k, F[k], u, calc)
  <2>1. params \in Points
    BY DEF Types
  <2> HIDE DEF calc
  <2> QED BY <1>6, <1>7, <1>8, <2>1, ConstantsAssumption, LeadsCalculation
<1> HIDE DEF msgs, calc
<1>10. PICK u \in ServerStates :
           /\ Leads(k, F[k], msgs, u)
           /\ u.vals = params /\ u.squared = asked.squared /\ u.doOffset = asked.doOffset
           /\ u.otherOffset = F[k].otherOffset /\ ~u.dirty /\ Sound(k, u)
           /\ u.offset = Offset(k, asked.doOffset, F[k].offset, Here(params, asked.squared))
           /\ u.value.at = params /\ u.value.squared = asked.squared
           /\ inFit => u.value.minus = IF asked.doOffset THEN u.offset ELSE {}
  BY <1>6, <1>8, <1>9 DEF Calculated
<1>11. PICK G \in [Clients -> ServerStates] : G[k] = u /\ \A i \in Clients : i # k => G[i] = F[i]
  <2>1. [F EXCEPT ![k] = u] \in [Clients -> ServerStates]
    BY <1>2
  <2> QED BY <1>0, <1>2, <2>1
<1>12. /\ params' = params /\ inFit' = inFit /\ init' = init /\ asked' = asked
       /\ reply' = reply /\ server' = server /\ part' = part
  BY <1>1 DEF programVars, historyVars
<1>13. ASSUME NEW i \in Clients
       PROVE  Leads(i, server'[i], Written(i)', G[i])
  <2>1. Leads(i, server[i], Written(i), F[i])
    BY <1>2
  <2>2. /\ Written(i) \in Seq(Messages) /\ pipe[i] \in Seq(Messages) /\ buffer[i] \in Seq(Messages)
    BY WrittenType
  <2>3. CASE i = k
    <3>1. pipe'[i] = Written(i) \o msgs /\ buffer'[i] = <<>>
      BY <1>0, <1>1, <2>3 DEF Sent, Written, Types
    <3>2. Written(i) \o msgs \in Seq(Messages)
      BY <1>9, <2>2, ConcatProperties
    <3>3. Written(i)' = Written(i) \o msgs
      BY <3>1, <3>2, ConcatEmptySeq DEF Written
    <3>4. Leads(i, server[i], Written(i) \o msgs, u)
      BY <1>9, <1>10, <2>1, <2>2, <2>3, LeadsJoined
    <3> QED BY <1>11, <1>12, <2>3, <3>3, <3>4
  <2>4. CASE i # k
    <3>1. pipe'[i] = pipe[i] /\ buffer'[i] = buffer[i]
      BY <1>1, <2>4 DEF Sent, Types
    <3>2. Written(i)' = Written(i)
      BY <3>1 DEF Written
    <3> QED BY <1>11, <1>12, <2>1, <2>4, <3>2
  <2> QED BY <2>3, <2>4
<1>14. ASSUME NEW i \in Clients
       PROVE  Own(i, G[i])'
  <2>1. ~(pc' = "get" /\ i < k')
    BY <1>0, <1>1
  <2>2. CASE i = k
    <3>1. reply[i] = <<>>
      <4>1. ~Waits(i) /\ ~Ends(i)
        BY <1>0, <2>2 DEF Waits, Ends
      <4> QED BY <4>1, PipesOf, NothingAsked
    <3>2. Good(G[i].value, G[i].offset)'
      BY <1>10, <1>11, <1>12, <2>2 DEF Good
    <3>3. saved'[i] = params' /\ G[i].vals = saved'[i] /\ ~G[i].dirty /\ Sound(i, G[i])
          /\ G[i].squared = asked'.squared /\ G[i].doOffset = asked'.doOffset
      BY <1>5, <1>10, <1>11, <1>12, <2>2
    <3> QED BY <1>12, <2>1, <3>1, <3>2, <3>3 DEF Own
  <2>3. CASE i # k
    <3>1. Waits(i)' <=> Waits(i)
      BY <1>0, <1>1, <2>3 DEF Waits
    <3>2. pc' = "get" => Waits(i)
      BY <1>0, <1>1, <2>3 DEF Waits
    <3>3. Own(i, F[i]) /\ G[i] = F[i] /\ saved'[i] = saved[i]
      BY <1>2, <1>5, <1>11, <2>3
    <3>4. Good(G[i].value, G[i].offset)' <=> Good(F[i].value, F[i].offset)
      BY <1>12, <3>3 DEF Good
    <3> QED BY <1>12, <2>1, <3>1, <3>2, <3>3, <3>4 DEF Own
  <2> QED BY <2>2, <2>3
<1>15. Together(G)'
  <2>1. saved[k] = saved[N]
    BY <1>0, <1>2 DEF Together
  <2>2. ASSUME NEW i \in Clients
        PROVE  Coming(i, G[i])' = Coming(i, F[i]) /\ G[i].otherOffset = F[i].otherOffset
    <3>1. CASE i = k
      <4>1. Coming(i, F[i]) = Offset(i, asked.doOffset, F[i].offset, Here(params, asked.squared))
        BY <1>0, <3>1 DEF Coming
      <4>2. ~(pc' = "calculate" /\ ~(i < k'))
        BY <1>0, <1>1, <3>1
      <4>3. Coming(i, G[i])' = G[i].offset
        BY <4>2 DEF Coming
      <4> QED BY <1>10, <1>11, <3>1, <4>1, <4>3
    <3>2. CASE i < k
      <4>1. Coming(i, F[i]) = F[i].offset /\ ~(pc' = "calculate" /\ ~(i < k'))
        BY <1>0, <1>1, <3>2 DEF Coming
      <4>2. Coming(i, G[i])' = G[i].offset
        BY <4>1 DEF Coming
      <4> QED BY <1>0, <1>11, <3>2, <4>1, <4>2
    <3>3. CASE i > k
      <4>1. pc' = "calculate" /\ ~(i < k') /\ ~(i < k)
        BY <1>0, <1>1, <3>3
      <4>2. G[i] = F[i]
        BY <1>0, <1>11, <3>3
      <4> QED BY <1>0, <1>12, <4>1, <4>2 DEF Coming, Offset, Here
    <3> QED BY <1>0, <3>1, <3>2, <3>3
  <2>3. ASSUME NEW i \in Clients, NEW j \in Clients
        PROVE  /\ Agree(i, j, G[i].otherOffset, G[j].otherOffset)
               /\ Agree(i, j, Coming(i, G[i])', Coming(j, G[j])')
    <3>1. /\ Agree(i, j, F[i].otherOffset, F[j].otherOffset)
          /\ Agree(i, j, Coming(i, F[i]), Coming(j, F[j]))
      BY <1>2 DEF Together
    <3> QED BY <2>2, <3>1
  <2>4. ASSUME NEW i \in Clients
        PROVE  (pc' = "calculate" /\ i < k') \/ saved'[i] = saved'[N]
    <3>1. CASE k = N
      <4>1. CASE i = k
        BY <3>1, <4>1
      <4>2. CASE i # k
        <5>1. i < k /\ Waits(i)
          BY <1>0, <3>1, <4>2 DEF Waits
        <5>2. saved[i] = params
          BY <1>2, <5>1 DEF Own
        <5> QED BY <1>5, <3>1, <4>2, <5>2
      <4> QED BY <4>1, <4>2
    <3>2. CASE k # N
      <4>1. pc' = "calculate" /\ k' = k + 1 /\ saved'[N] = saved[N]
        BY <1>0, <1>1, <1>5, <3>2
      <4>2. CASE i > k
        <5>1. saved[i] = saved[N] /\ saved'[i] = saved[i]
          BY <1>0, <1>2, <1>5, <4>2 DEF Together
        <5> QED BY <4>1, <5>1
      <4>3. CASE ~(i > k)
        BY <1>0, <4>1, <4>3
      <4> QED BY <4>2, <4>3
    <3> QED BY <3>1, <3>2
  <2>5. ASSUME pc' = "calculate", NEW j \in 1..NPar
        PROVE  changed'[j] = (params'[j] # saved'[N][j])
    <3>1. k # N /\ saved'[N] = saved[N]
      BY <1>0, <1>1, <1>5, <2>5
    <3>2. CASE k = 1
      BY <1>1, <1>12, <2>1, <3>1, <3>2
    <3>3. CASE k # 1
      <4>1. k > 1
        BY <1>0, <3>3
      <4>2. changed[j] = (params[j] # saved[N][j])
        BY <1>0, <1>2, <4>1 DEF Together
      <4> QED BY <1>1, <1>12, <3>1, <3>3, <4>2
    <3> QED BY <3>2, <3>3
  <2> QED BY <2>3, <2>4, <2>5 DEF Together, Agree
<1> QED BY <1>11, <1>13, <1>14, <1>15

LEMMA SendModeFuture ==
  ASSUME Types, PipeInv, Future, SendMode
  PROVE  Future'
<1> SUFFICES \E F \in [Clients -> ServerStates] :
               /\ \A i \in Clients : Leads(i, server'[i], Written(i)', F[i]) /\ Own(i, F[i])'
               /\ Together(F)'
  BY DEF Future
<1> DEFINE msg == [type |-> "LogEvalError", mode |-> mode]
<1>0. k \in Clients /\ k \in Nat /\ N \in Clients /\ pc = "get" /\ init
  BY Constants DEF Types, Clients, SendMode, PipeInv, Unforked
<1>1. /\ Sent(k, <<msg>>) /\ pc' = pc /\ k' = k
      /\ UNCHANGED <<reply, server, params, inFit, init, part, saved, changed, asked>>
  BY DEF SendMode, programVars, historyVars
<1>2. PICK F \in [Clients -> ServerStates] :
         /\ \A i \in Clients : Leads(i, server[i], Written(i), F[i]) /\ Own(i, F[i])
         /\ Together(F)
  BY <1>0 DEF Future, Live
<1>3. msg \in Messages /\ mode \in Modes /\ msg.type = "LogEvalError" /\ msg.mode = mode
  BY DEF Types, Messages, Logs
<1> HIDE DEF msg
<1>4. PICK u \in ServerStates : u = Effect(k, F[k], msg)
  BY <1>0, <1>3, EffectType
<1>5. /\ u.vals = F[k].vals /\ u.squared = F[k].squared /\ u.doOffset = F[k].doOffset
      /\ u.offset = F[k].offset /\ u.otherOffset = F[k].otherOffset
      /\ u.dirty = F[k].dirty /\ u.cached = F[k].cached /\ u.value = F[k].value
  <2>1. u = [F[k] EXCEPT !.mode = mode]
    BY <1>3, <1>4 DEF Effect
  <2>2. F[k] \in ServerStates
    BY <1>0, <1>2
  <2> QED BY <2>1, <2>2 DEF ServerStates
<1>6. PICK G \in [Clients -> ServerStates] : G[k] = u /\ \A i \in Clients : i # k => G[i] = F[i]
  <2>1. [F EXCEPT ![k] = u] \in [Clients -> ServerStates]
    BY <1>2
  <2> QED BY <1>0, <1>2, <2>1
<1>7. ASSUME NEW i \in Clients
      PROVE  Leads(i, server'[i], Written(i)', G[i])
  <2>1. Leads(i, server[i], Written(i), F[i])
    BY <1>2
  <2>2. /\ Written(i) \in Seq(Messages) /\ pipe[i] \in Seq(Messages) /\ buffer[i] \in Seq(Messages)
    BY WrittenType
  <2>3. CASE i = k
    <3>1. pipe'[i] = Written(i) \o <<msg>> /\ buffer'[i] = <<>>
      BY <1>0, <1>1, <2>3 DEF Sent, Written, Types
    <3>2. Append(Written(i), msg) = Written(i) \o <<msg>> /\ Append(Written(i), msg) \in Seq(Messages)
      BY <1>3, <2>2, AppendIsConcat, AppendProperties
    <3>3. Written(i)' = Append(Written(i), msg)
      BY <3>1, <3>2, ConcatEmptySeq DEF Written
    <3> QED BY <1>1, <1>3, <1>4, <1>6, <2>1, <2>2, <2>3, <3>3, LeadsFurther
  <2>4. CASE i # k
    <3>1. pipe'[i] = pipe[i] /\ buffer'[i] = buffer[i]
      BY <1>1, <2>4 DEF Sent, Types
    <3>2. Written(i)' = Written(i)
      BY <3>1 DEF Written
    <3> QED BY <1>1, <1>6, <2>1, <2>4, <3>2
  <2> QED BY <2>3, <2>4
<1>8. ASSUME NEW i \in Clients
      PROVE  /\ G[i].vals = F[i].vals /\ G[i].squared = F[i].squared /\ G[i].doOffset = F[i].doOffset
             /\ G[i].offset = F[i].offset /\ G[i].otherOffset = F[i].otherOffset
             /\ G[i].dirty = F[i].dirty /\ G[i].cached = F[i].cached /\ G[i].value = F[i].value
  BY <1>5, <1>6
<1>9. ASSUME NEW i \in Clients
      PROVE  Own(i, G[i])'
  <2>1. (Waits(i)' <=> Waits(i)) /\ Own(i, F[i])
    BY <1>1, <1>2 DEF Waits
  <2>2. Sound(i, G[i])
    BY <1>8, <2>1 DEF Own, Sound
  <2>3. \A term : Good(term, G[i].offset)' <=> Good(term, F[i].offset)
    BY <1>1, <1>8 DEF Good
  <2>4. (Waits(i) => Good(G[i].value, G[i].offset)') /\ (pc = "get" /\ i < k => Good(part[i], G[i].offset)')
    <3>1. (Waits(i) => Good(F[i].value, F[i].offset)) /\ (pc = "get" /\ i < k => Good(part[i], F[i].offset))
      BY <2>1 DEF Own
    <3>2. G[i].value = F[i].value /\ part'[i] = part[i]
      BY <1>1, <1>8
    <3>3. Waits(i) => Good(G[i].value, G[i].offset)'
      BY <2>3, <3>1, <3>2
    <3>4. Good(part[i], G[i].offset)' <=> Good(part[i], F[i].offset)
      BY <1>1, <1>8 DEF Good
    <3> QED BY <3>1, <3>3, <3>4
  <2>5. Waits(i) /\ reply[i] # <<>> => /\ Head(reply[i]).value = G[i].value
                                       /\ Head(reply[i]).errors > 0 => Bad(i, params)
    BY <1>8, <2>1 DEF Own
  <2>6. /\ G[i].vals = saved[i] /\ G[i].squared = asked.squared /\ G[i].doOffset = asked.doOffset
        /\ saved[i] = params /\ ~G[i].dirty
    BY <1>0, <1>8, <2>1 DEF Own
  <2>7. (pc = "get" /\ i < k => Good(part[i], G[i].offset))' <=> (pc = "get" /\ i < k => Good(part[i], G[i].offset)')
    BY <1>1 DEF Good
  <2> QED BY <1>1, <2>1, <2>2, <2>4, <2>5, <2>6, <2>7 DEF Own
<1>10. Together(G)'
  <2>1. ASSUME NEW i \in Clients
        PROVE  Coming(i, G[i])' = Coming(i, F[i]) /\ G[i].otherOffset = F[i].otherOffset
    BY <1>0, <1>1, <1>8 DEF Coming
  <2>2. ASSUME NEW i \in Clients, NEW j \in Clients
        PROVE  /\ Agree(i, j, G[i].otherOffset, G[j].otherOffset)
               /\ Agree(i, j, Coming(i, G[i])', Coming(j, G[j])')
    BY <1>2, <2>1 DEF Together
  <2>3. \A i \in Clients : saved'[i] = saved'[N]
    BY <1>0, <1>1, <1>2 DEF Together
  <2> QED BY <1>0, <1>1, <2>2, <2>3 DEF Together, Agree
<1> QED BY <1>7, <1>9, <1>10

LEMMA ReceiveFuture ==
  ASSUME Types, PipeInv, Future, Receive
  PROVE  Future'
<1> SUFFICES \E F \in [Clients -> ServerStates] :
               /\ \A i \in Clients : Leads(i, server'[i], Written(i)', F[i]) /\ Own(i, F[i])'
               /\ Together(F)'
  BY DEF Future
<1>0. /\ N \in Clients /\ N \in Nat /\ N >= 1 /\ k \in Clients /\ k \in Nat /\ k >= 1 /\ k <= N
      /\ \A i \in Clients : i \in Nat /\ i >= 1 /\ i <= N
      /\ pc = "get" /\ init
  BY Constants DEF Types, Clients, Receive, PipeInv, Unforked
<1>1. /\ UNCHANGED <<params, init, inFit, saved, changed, buffer, pipe, server, asked>>
      /\ part' = [part EXCEPT ![k] = Head(reply[k]).value]
      /\ reply' = [reply EXCEPT ![k] = Tail(@)] /\ reply[k] # <<>>
      /\ pc' = (IF k = N THEN "return" ELSE pc) /\ k' = (IF k = N THEN 1 ELSE k + 1)
  BY DEF Receive, NextClient
<1>2. PICK F \in [Clients -> ServerStates] :
         /\ \A i \in Clients : Leads(i, server[i], Written(i), F[i]) /\ Own(i, F[i])
         /\ Together(F)
  BY <1>0 DEF Future, Live
<1>3. ASSUME NEW i \in Clients
      PROVE  Leads(i, server'[i], Written(i)', F[i])
  BY <1>1, <1>2 DEF Written
<1>4. ASSUME NEW i \in Clients
      PROVE  Own(i, F[i])'
  <2>1. Own(i, F[i])
    BY <1>2
  <2>2. \A term : Good(term, F[i].offset)' <=> Good(term, F[i].offset)
    BY <1>1 DEF Good
  <2>3. Waits(i)' => Waits(i) /\ i # k
    BY <1>0, <1>1 DEF Waits
  <2>4. i # k => reply'[i] = reply[i] /\ part'[i] = part[i]
    BY <1>1 DEF Types
  <2>5. pc' = "get" /\ i < k' => Good(part'[i], F[i].offset)
    <3>1. CASE i = k
      <4>1. Waits(i)
        BY <1>0, <3>1 DEF Waits
      <4>2. Good(F[i].value, F[i].offset) /\ Head(reply[i]).value = F[i].value
        BY <1>1, <2>1, <3>1, <4>1 DEF Own
      <4>3. part'[i] = Head(reply[i]).value
        BY <1>1, <3>1 DEF Types
      <4> QED BY <4>2, <4>3
    <3>2. CASE i # k
      <4>1. pc' = "get" /\ i < k' => i < k
        BY <1>0, <1>1, <3>2
      <4> QED BY <1>0, <2>1, <2>4, <3>2, <4>1 DEF Own
    <3> QED BY <3>1, <3>2
  <2>6. (pc = "get" /\ i < k => Good(part[i], F[i].offset))'
    <3>1. (pc = "get" /\ i < k => Good(part[i], F[i].offset))' <=>
            (pc' = "get" /\ i < k' => Good(part'[i], F[i].offset))
      BY <1>1 DEF Good
    <3> QED BY <2>5, <3>1
  <2>7. /\ F[i].vals = saved'[i] /\ F[i].squared = asked'.squared /\ F[i].doOffset = asked'.doOffset
        /\ Sound(i, F[i]) /\ saved'[i] = params' /\ ~F[i].dirty
    BY <1>0, <1>1, <2>1 DEF Own
  <2>8. Waits(i)' => Good(F[i].value, F[i].offset)'
    BY <2>1, <2>2, <2>3 DEF Own
  <2>9. Waits(i)' /\ reply'[i] # <<>> => /\ Head(reply'[i]).value = F[i].value
                                         /\ Head(reply'[i]).errors > 0 => Bad(i, params')
    BY <1>1, <2>1, <2>3, <2>4 DEF Own
  <2> QED BY <2>6, <2>7, <2>8, <2>9 DEF Own
<1>5. Together(F)'
  <2>1. pc' # "calculate"
    BY <1>0, <1>1
  <2>2. \A i \in Clients : Coming(i, F[i])' = Coming(i, F[i])
    BY <1>0, <2>1 DEF Coming
  <2> QED BY <1>0, <1>1, <1>2, <2>1, <2>2 DEF Together, Agree
<1> QED BY <1>3, <1>4, <1>5

LEMMA HeadTailBehind ==
  ASSUME NEW p \in Seq(Messages), NEW q \in Seq(Messages), p # <<>>
  PROVE  /\ p \o q \in Seq(Messages) /\ p \o q # <<>>
         /\ Head(p \o q) = Head(p) /\ Tail(p \o q) = Tail(p) \o q
<1>1. /\ p \o q \in Seq(Messages) /\ Len(p \o q) = Len(p) + Len(q)
      /\ \A n \in 1..Len(p) + Len(q) : (p \o q)[n] = IF n <= Len(p) THEN p[n] ELSE q[n - Len(p)]
  BY ConcatProperties
<1>2. /\ Len(p) \in Nat \ {0} /\ Len(q) \in Nat
      /\ Tail(p) \in Seq(Messages) /\ Len(Tail(p)) = Len(p) - 1
      /\ (\A n \in 1..Len(Tail(p)) : Tail(p)[n] = p[n + 1]) /\ Head(p) = p[1]
  BY EmptySeq, HeadTailProperties, LenProperties
<1>3. p \o q # <<>>
  BY <1>1, <1>2, EmptySeq
<1>4. /\ Tail(p \o q) \in Seq(Messages) /\ Len(Tail(p \o q)) = Len(p \o q) - 1
      /\ (\A n \in 1..Len(Tail(p \o q)) : Tail(p \o q)[n] = (p \o q)[n + 1])
      /\ Head(p \o q) = (p \o q)[1]
  <2> DEFINE all == p \o q
  <2>1. all \in Seq(Messages) /\ all # <<>>
    BY <1>1, <1>3
  <2> HIDE DEF all
  <2>2. /\ Tail(all) \in Seq(Messages) /\ Len(Tail(all)) = Len(all) - 1
        /\ (\A n \in 1..Len(Tail(all)) : Tail(all)[n] = all[n + 1])
        /\ Head(all) = all[1]
    BY <2>1, HeadTailProperties
  <2> QED BY <2>2 DEF all
<1>5. /\ Tail(p) \o q \in Seq(Messages) /\ Len(Tail(p) \o q) = Len(p) - 1 + Len(q)
      /\ \A n \in 1..(Len(p) - 1 + Len(q)) :
            (Tail(p) \o q)[n] = IF n <= Len(p) - 1 THEN Tail(p)[n] ELSE q[n - (Len(p) - 1)]
  BY <1>2, ConcatProperties
<1>6. ASSUME NEW n \in 1..(Len(p) - 1 + Len(q))
      PROVE  Tail(p \o q)[n] = (Tail(p) \o q)[n]
  <2>0. /\ n + 1 \in 1..Len(p) + Len(q) /\ (n + 1) - Len(p) = n - (Len(p) - 1)
        /\ n \in 1..Len(Tail(p \o q)) /\ (n + 1 <= Len(p) <=> n <= Len(p) - 1)
    BY <1>1, <1>2, <1>4
  <2>1. Tail(p \o q)[n] = IF n <= Len(p) - 1 THEN p[n + 1] ELSE q[n - (Len(p) - 1)]
    BY <1>1, <1>4, <2>0
  <2>2. n <= Len(p) - 1 => Tail(p)[n] = p[n + 1]
    BY <1>2
  <2> QED BY <1>5, <2>1, <2>2
<1>7. Tail(p \o q) = Tail(p) \o q
  <2> DEFINE s == Tail(p \o q)
             t == Tail(p) \o q
  <2>1. s \in Seq(Messages) /\ t \in Seq(Messages) /\ Len(s) = Len(t) /\ Len(s) = Len(p) - 1 + Len(q)
    BY <1>1, <1>2, <1>4, <1>5
  <2>2. \A n \in 1..Len(s) : s[n] = t[n]
    BY <1>6, <2>1
  <2> HIDE DEF s, t
  <2>3. s = t
    BY <2>1, <2>2, SeqEqual
  <2> QED BY <2>3 DEF s, t
<1>8. Head(p \o q) = Head(p)
  BY <1>1, <1>2, <1>4
<1> QED BY <1>1, <1>3, <1>7, <1>8

\* A server that reads a message stays what it will be.
LEMMA ServerFuture ==
  ASSUME Types, PipeInv, Future, NEW j \in Clients, Server(j)
  PROVE  Future'
<1> SUFFICES ASSUME Live'
             PROVE  \E F \in [Clients -> ServerStates] :
                      /\ \A i \in Clients : Leads(i, server'[i], Written(i)', F[i]) /\ Own(i, F[i])'
                      /\ Together(F)'
  BY DEF Future
<1>1. PICK type : Served(j, type)
  BY ServerEffect
<1>2. /\ pipe[j] \in Seq(Messages) /\ pipe[j] # <<>> /\ Head(pipe[j]) \in Messages
      /\ pipe' = [pipe EXCEPT ![j] = Tail(@)]
      /\ UNCHANGED <<params, init, inFit, pc, k, part, saved, changed, buffer, asked>>
  BY <1>1, ServedTypes DEF programVars, clientVars, historyVars
<1>3. server' = [server EXCEPT ![j] = Effect(j, server[j], Head(pipe[j]))]
  BY ServerEffect
<1>4. Live
  BY <1>2 DEF Live
<1>5. PICK F \in [Clients -> ServerStates] :
         /\ \A i \in Clients : Leads(i, server[i], Written(i), F[i]) /\ Own(i, F[i])
         /\ Together(F)
  BY <1>4 DEF Future
<1>6. \A i \in Clients : (Waits(i)' <=> Waits(i)) /\ ~Ends(i)
  BY <1>2, <1>4 DEF Waits, Ends, Live
<1>7. Head(pipe[j]).type # "Terminate" /\ Questions(j) /\ Errors(j)
  <2>1. Questions(j) /\ Errors(j)
    BY DEF PipeInv
  <2>2. 1 \in DOMAIN pipe[j] /\ Head(pipe[j]) = pipe[j][1]
    BY <1>2, <2>1, TailOrdered DEF Questions
  <2> QED BY <1>6, <2>1, <2>2 DEF Questions
<1>8. ASSUME NEW i \in Clients
      PROVE  Leads(i, server'[i], Written(i)', F[i])
  <2>1. Leads(i, server[i], Written(i), F[i])
    BY <1>5
  <2>2. CASE i = j
    <3>1. pipe[i] \in Seq(Messages) /\ buffer[i] \in Seq(Messages) /\ pipe[i] # <<>>
      BY <1>2, <2>2, WrittenType
    <3>2. Written(i) \in Seq(Messages) /\ Written(i) # <<>> /\ Head(Written(i)) = Head(pipe[i])
          /\ Tail(Written(i)) = Tail(pipe[i]) \o buffer[i]
      BY <3>1, HeadTailBehind DEF Written
    <3>3. Written(i)' = Tail(Written(i))
      <4>1. pipe'[i] = Tail(pipe[i]) /\ buffer'[i] = buffer[i]
        BY <1>2, <2>2 DEF Types
      <4> QED BY <3>2, <4>1 DEF Written
    <3>4. server'[i] = Effect(i, server[i], Head(Written(i)))
      BY <1>3, <2>2, <3>2 DEF Types
    <3> QED BY <2>1, <3>2, <3>3, <3>4, LeadsOn
  <2>3. CASE i # j
    <3>1. pipe'[i] = pipe[i] /\ buffer'[i] = buffer[i] /\ server'[i] = server[i]
      BY <1>2, <1>3, <2>3 DEF Types
    <3>2. Written(i)' = Written(i)
      BY <3>1 DEF Written
    <3> QED BY <2>1, <3>1, <3>2
  <2> QED BY <2>2, <2>3
<1>9. ASSUME NEW i \in Clients
      PROVE  Waits(i) /\ reply'[i] # <<>> => /\ Head(reply'[i]).value = F[i].value
                                             /\ Head(reply'[i]).errors > 0 => Bad(i, params)
  <2>1. Own(i, F[i])
    BY <1>5
  <2>2. CASE i = j /\ Head(pipe[j]).type = "Retrieve"
    <3> DEFINE rest == Tail(pipe[j])
    <3>1. 1 \in DOMAIN pipe[j] /\ Head(pipe[j]) = pipe[j][1]
          /\ \A n \in DOMAIN rest : rest[n].type = "LogEvalError"
      BY <1>2, <1>7, <2>2, TailOrdered DEF Questions
    <3>2. Waits(j) /\ reply[j] = <<>> /\ buffer[j] = <<>>
      BY <1>7, <2>2, <3>1 DEF Questions
    <3>3. reply'[j] = << [type |-> "ReturnValue", value |-> server[j].value,
                          errors |-> ErrorsSent(server[j])] >>
      <4>1. reply' = [reply EXCEPT ![j] = Append(@,
                        [type |-> "ReturnValue", value |-> server[j].value,
                         errors |-> ErrorsSent(server[j])])]
        BY <2>2, ServerEffect
      <4> QED BY <3>2, <4>1 DEF Types
    <3>4. rest \in Seq(Messages)
      BY <1>2, HeadTailProperties
    <3>5. Written(j)' = rest
      <4>1. pipe'[j] = rest /\ buffer'[j] = <<>>
        BY <1>2, <3>2 DEF Types
      <4> HIDE DEF rest
      <4> QED BY <3>4, <4>1, ConcatEmptySeq DEF Written
    <3>6. server'[j] = [server[j] EXCEPT !.errors = 0] /\ server[j] \in ServerStates
      BY <1>3, <2>2 DEF Types, Effect
    <3>7. server'[j].vals = server[j].vals /\ server'[j].value = server[j].value
      BY <3>6 DEF ServerStates
    <3>8. F[j].vals = server'[j].vals /\ F[j].value = server'[j].value
      <4>1. Leads(j, server'[j], rest, F[j])
        BY <1>8, <3>5
      <4> HIDE DEF rest
      <4> QED BY <3>1, <3>4, <4>1, LeadsQuietly
    <3>9. F[j].vals = params
      BY <2>1, <2>2, <3>2 DEF Own
    <3>10. ErrorsSent(server[j]) > 0 => Bad(j, params)
      <4>1. ErrorsSent(server[j]) > 0 => server[j].errors > 0
        BY <3>6 DEF ErrorsSent, ServerStates
      <4> QED BY <1>7, <3>7, <3>8, <3>9, <4>1 DEF Errors
    <3>11. Head(reply'[j]).value = server[j].value /\ Head(reply'[j]).errors = ErrorsSent(server[j])
      BY <3>3
    <3> QED BY <2>2, <3>7, <3>8, <3>10, <3>11
  <2>3. CASE ~(i = j /\ Head(pipe[j]).type = "Retrieve")
    <3>1. reply'[i] = reply[i]
      <4>1. CASE Head(pipe[j]).type = "Retrieve"
        <5>1. reply' = [reply EXCEPT ![j] = Append(@,
                          [type |-> "ReturnValue", value |-> server[j].value,
                           errors |-> ErrorsSent(server[j])])]
          BY <4>1, ServerEffect
        <5> QED BY <2>3, <4>1, <5>1 DEF Types
      <4>2. CASE Head(pipe[j]).type # "Retrieve"
        BY <1>7, <4>2, ServerEffect
      <4> QED BY <4>1, <4>2
    <3> QED BY <2>1, <3>1 DEF Own
  <2> QED BY <2>2, <2>3
<1>10. ASSUME NEW i \in Clients
       PROVE  Own(i, F[i])'
  <2>1. Own(i, F[i])
    BY <1>5
  <2>2. (Good(F[i].value, F[i].offset)' <=> Good(F[i].value, F[i].offset))
        /\ (Good(part[i], F[i].offset)' <=> Good(part[i], F[i].offset))
    BY <1>2 DEF Good
  <2> QED BY <1>2, <1>6, <1>9, <2>1, <2>2 DEF Own
<1>11. Together(F)'
  BY <1>2, <1>5 DEF Together, Coming, Agree, Offset, Here
<1> QED BY <1>8, <1>10, <1>11

LEMMA InitFuture ==
  ASSUME Init
  PROVE  Future
  BY DEF Init, Future, Live

LEMMA NextFuture ==
  ASSUME Types, Types', PipeInv, Future, [Next]_vars
  PROVE  Future'
<1>1. CASE \E new \in Points : SetVal(new) \/ Evaluate(new)
  <2>1. /\ pc = "idle" /\ UNCHANGED <<pipeVars, server, saved, asked, init>>
        /\ pc' = "idle" \/ (k' = 1 /\ pc' \in {"calculate", "return"})
    BY <1>1 DEF SetVal, Evaluate, Idle, clientVars, historyVars
  <2> QED BY <2>1, IdleFuture
<1>2. ASSUME NEW flag \in BOOLEAN, EnableOffsetting(flag)
      PROVE  Future'
  <2>1. [type |-> "EnableOffset", flag |-> flag] \in Messages
    BY DEF Messages, Switches
  <2>2. PICK msg \in Messages : msg = [type |-> "EnableOffset", flag |-> flag]
    BY <2>1
  <2>3. /\ pc = "idle" /\ pc' = pc /\ k' = k /\ Initialized /\ pipe' = pipe
        /\ buffer' = [i \in Clients |-> Append(buffer[i], msg)]
        /\ asked' = [asked EXCEPT !.doOffset = flag]
    BY <1>2, <2>2 DEF EnableOffsetting, Idle
  <2> QED BY <2>2, <2>3, SwitchFuture
<1>3. ASSUME NEW flag \in BOOLEAN, ApplyWeightSquared(flag)
      PROVE  Future'
  <2>1. [type |-> "ApplyNLLW2", flag |-> flag] \in Messages
    BY DEF Messages, Switches
  <2>2. PICK msg \in Messages : msg = [type |-> "ApplyNLLW2", flag |-> flag]
    BY <2>1
  <2>3. /\ pc = "idle" /\ pc' = pc /\ k' = k /\ pipe' = pipe
        /\ buffer' = [i \in Clients |-> Append(buffer[i], msg)]
        /\ asked' = [asked EXCEPT !.squared = flag] /\ flag # asked.squared
    BY <1>3, <2>2 DEF ApplyWeightSquared, Idle
  <2>4. Initialized
    BY <1>3 DEF ApplyWeightSquared, Initialized, programVars, clientVars
  <2> QED BY <2>2, <2>3, <2>4, SwitchFuture
<1>4. CASE (\E m \in FitModes : BeginFit(m)) \/ EndFit
  <2>1. pc = "idle" /\ pc' = pc /\ UNCHANGED <<pipeVars, server, saved, asked, init>>
    BY <1>4 DEF BeginFit, EndFit, Idle, clientVars, historyVars
  <2> QED BY <2>1, IdleFuture
<1>5. CASE GetVal
  <2>1. /\ pc = "idle" /\ UNCHANGED <<pipeVars, server, saved, asked, init>>
        /\ k' = 1 /\ pc' \in {"calculate", "return"}
    BY <1>5 DEF GetVal, Idle, programVars, historyVars
  <2> QED BY <2>1, IdleFuture
<1>6. CASE Delete \/ Standby \/ Handshake
  <2>1. pc' \in {"standby", "handshake", "deleted"}
    BY <1>6 DEF Delete, Standby, Handshake
  <2> QED BY <2>1 DEF Future, Live
<1>7. CASE Initialize
  <2>1. /\ pc = "calculate" /\ ~init /\ Initialized /\ k = 1
        /\ pc' = pc /\ k' = k /\ UNCHANGED <<pipe, buffer, asked>>
    BY <1>7 DEF Initialize, PipeInv, Unforked, pipeVars, historyVars
  <2>2. PICK F \in [Clients -> ServerStates] : \A i \in Clients :
           /\ Leads(i, server'[i], Written(i), F[i]) /\ Sound(i, F[i])
           /\ F[i].vals = saved'[i] /\ F[i].squared = asked.squared /\ F[i].doOffset = asked.doOffset
           /\ saved'[i] = saved'[N]
           /\ \A j \in Clients : /\ Agree(i, j, F[i].otherOffset, F[j].otherOffset)
                                /\ Agree(i, j, F[i].offset, F[j].offset)
    BY <2>1, InitializedFuture
  <2>3. ASSUME NEW i \in Clients
        PROVE  Leads(i, server'[i], Written(i)', F[i]) /\ Own(i, F[i])'
    <3>1. ~Waits(i)' /\ pc' # "get"
      BY <2>1 DEF Waits, Clients
    <3>2. Written(i)' = Written(i)
      BY <2>1 DEF Written
    <3>3. Own(i, F[i])'
      BY <2>1, <2>2, <3>1 DEF Own
    <3> QED BY <2>2, <3>2, <3>3
  <2>4. Together(F)'
    <3>1. ASSUME NEW i \in Clients
          PROVE  ~(i < k')
      BY <2>1 DEF Clients
    <3> DEFINE here == Here(params', asked'.squared)
    <3>2. ASSUME NEW i \in Clients
          PROVE  Coming(i, F[i])' = Offset(i, asked'.doOffset, F[i].offset, here)
      BY <2>1, <3>1 DEF Coming, Here, Offset
    <3> HIDE DEF here
    <3>3. ASSUME NEW i \in Clients, NEW j \in Clients
          PROVE  Agree(i, j, Coming(i, F[i])', Coming(j, F[j])')
      <4>1. Agree(i, j, F[i].offset, F[j].offset) /\ Agree(j, i, F[j].offset, F[i].offset)
        BY <2>2
      <4> QED BY <3>2, <4>1, AgreeAfter
    <3>4. ~(pc' = "calculate" /\ k' > 1) /\ \A i \in Clients : saved'[i] = saved'[N]
      BY <2>1, <2>2
    <3> QED BY <2>2, <3>3, <3>4 DEF Together, Agree
  <2> QED BY <2>3, <2>4 DEF Future
<1>8. CASE Calculate
  BY <1>8, CalculateFuture
<1>9. CASE SendMode
  BY <1>9, SendModeFuture
<1>10. CASE Receive
  BY <1>10, ReceiveFuture
<1>11. CASE Return
  <2>1. pc = "return" /\ pc' = "idle" /\ UNCHANGED <<pipeVars, server, saved, asked, init>>
    BY <1>11 DEF Return, programVars, clientVars, historyVars
  <2> QED BY <2>1, IdleFuture
<1>12. CASE \E j \in Clients : Server(j)
  BY <1>12, ServerFuture
<1>13. CASE UNCHANGED vars
  <2>1. /\ UNCHANGED <<params, init, inFit, pc, k, part, saved, changed, buffer, pipe, reply, server, asked>>
    BY <1>13 DEF vars, programVars, clientVars, pipeVars, historyVars
  <2> SUFFICES ASSUME Live'
               PROVE  \E F \in [Clients -> ServerStates] :
                        /\ \A i \in Clients : Leads(i, server'[i], Written(i)', F[i]) /\ Own(i, F[i])'
                        /\ Together(F)'
    BY DEF Future
  <2>2. Live
    BY <2>1 DEF Live
  <2>3. PICK F \in [Clients -> ServerStates] :
           /\ \A i \in Clients : Leads(i, server[i], Written(i), F[i]) /\ Own(i, F[i])
           /\ Together(F)
    BY <2>2 DEF Future
  <2>4. ASSUME NEW i \in Clients
        PROVE  Leads(i, server'[i], Written(i)', F[i]) /\ Own(i, F[i])'
    <3>1. Leads(i, server[i], Written(i), F[i]) /\ Own(i, F[i])
      BY <2>3
    <3>2. Written(i)' = Written(i)
      BY <2>1 DEF Written
    <3>3. Own(i, F[i])'
      BY <2>1, <3>1 DEF Own, Waits, Good
    <3> QED BY <2>1, <3>1, <3>2, <3>3
  <2>5. Together(F)'
    BY <2>1, <2>3 DEF Together, Coming, Agree, Offset, Here
  <2> QED BY <2>4, <2>5
<1> QED BY <1>1, <1>2, <1>3, <1>4, <1>5, <1>6, <1>7, <1>8, <1>9, <1>10, <1>11, <1>12, <1>13
        DEF Next, Working

-----------------------------------------------------------------------------
(* What the program has *)

LEMMA InitPart ==
  ASSUME Init
  PROVE  PartInv
  BY DEF Init, PartInv

\* A step that leaves alone what the program has received.
LEMMA SamePart ==
  ASSUME PartInv, UNCHANGED <<params, dirty, inFit, part, asked, silent>>,
         \/ pc' = pc /\ k' = k /\ reported' = reported
         \/ pc' \notin {"calculate", "get", "return"}
  PROVE  PartInv'
  BY DEF PartInv

\* The last answer: all terms are there, and of one offset.
LEMMA ReceivePart ==
  ASSUME Types, PipeInv, Future, PartInv, Receive
  PROVE  PartInv'
<1>0. /\ N \in Clients /\ N \in Nat /\ N >= 1 /\ k \in Clients /\ k \in Nat /\ k >= 1 /\ k <= N
      /\ \A i \in Clients : i \in Nat /\ i >= 1 /\ i <= N
      /\ pc = "get" /\ init /\ 1 \in Clients
  BY Constants DEF Types, Clients, Receive, PipeInv, Unforked
<1>1. /\ UNCHANGED <<params, init, inFit, saved, changed, buffer, pipe, server, asked>>
      /\ part' = [part EXCEPT ![k] = Head(reply[k]).value]
      /\ reported' = (IF Head(reply[k]).errors > 0 THEN reported \cup {k} ELSE reported)
      /\ reply' = [reply EXCEPT ![k] = Tail(@)] /\ reply[k] # <<>>
      /\ pc' = (IF k = N THEN "return" ELSE pc) /\ k' = (IF k = N THEN 1 ELSE k + 1)
      /\ dirty' = (IF k = N THEN FALSE ELSE dirty) /\ silent' = (IF k = N THEN FALSE ELSE silent)
  BY DEF Receive, NextClient
<1>2. PICK F \in [Clients -> ServerStates] :
         /\ \A i \in Clients : Leads(i, server[i], Written(i), F[i]) /\ Own(i, F[i])
         /\ Together(F)
  BY <1>0 DEF Future, Live
<1>3. Waits(k) /\ Own(k, F[k])
  BY <1>0, <1>2 DEF Waits
<1>4. /\ Good(Head(reply[k]).value, F[k].offset)
      /\ Head(reply[k]).errors > 0 => Bad(k, params)
  BY <1>1, <1>3 DEF Own
<1>5. \A i \in reported' : (i < k \/ i = k) /\ Bad(i, params)
  <2>1. \A i \in reported : i < k /\ Bad(i, params)
    BY <1>0 DEF PartInv
  <2> QED BY <1>1, <1>4, <2>1
<1>6. CASE k = N
  <2>1. pc' = "return" /\ dirty' = FALSE
    BY <1>1, <1>6
  <2>2. ASSUME NEW i \in Clients
        PROVE  Good(part'[i], F[i].offset)
    <3>1. CASE i = k
      <4>1. part'[i] = Head(reply[k]).value
        BY <1>0, <1>1, <3>1 DEF Types
      <4> QED BY <1>4, <3>1, <4>1
    <3>2. CASE i # k
      <4>1. i < k /\ part'[i] = part[i]
        BY <1>0, <1>1, <1>6, <3>2 DEF Types
      <4> QED BY <1>0, <1>2, <4>1 DEF Own
    <3> QED BY <3>1, <3>2
  <2>3. \A i \in Clients : part'[i].at = params' /\ part'[i].squared = asked'.squared
    BY <1>1, <2>2 DEF Good
  <2>4. ASSUME NEW i \in Clients
        PROVE  /\ \A j \in Clients : Agree(i, j, F[i].offset, F[j].offset)
               /\ \A o \in F[i].offset : o.squared = asked.squared
               /\ asked.doOffset => F[i].offset # {} \/ Zero(i, Here(params, asked.squared))
    <3>1. \A j \in Clients : Coming(j, F[j]) = F[j].offset
      BY <1>0 DEF Coming
    <3>2. \A j \in Clients : Agree(i, j, F[i].offset, F[j].offset)
      BY <1>2, <3>1 DEF Together
    <3>3. Own(i, F[i])
      BY <1>2
    <3> QED BY <1>0, <3>2, <3>3 DEF Own, Sound
  <2>5. ASSUME NEW i \in Clients, inFit
        PROVE  /\ \A j \in Clients : Agree(i, j, part'[i].minus, part'[j].minus)
               /\ \A o \in part'[i].minus : asked.doOffset /\ o.squared = asked.squared
               /\ part'[i].minus = {} /\ asked.doOffset => Zero(i, Here(params, asked.squared))
    <3>1. \A n \in Clients : part'[n].minus = IF asked.doOffset THEN F[n].offset ELSE {}
      BY <2>2, <2>5 DEF Good
    <3>2. CASE asked.doOffset
      BY <2>4, <3>1, <3>2
    <3>3. CASE ~asked.doOffset
      <4>1. \A n \in Clients : part'[n].minus = {}
        BY <3>1, <3>3
      <4> QED BY <3>3, <4>1 DEF Agree
    <3> QED BY <3>2, <3>3
  <2> QED BY <1>1, <1>5, <2>1, <2>3, <2>5 DEF PartInv, Agree, Here
<1>7. CASE k # N
  <2>1. pc' = "get" /\ dirty' = dirty /\ k' = k + 1 /\ dirty
    BY <1>0, <1>1, <1>7 DEF PartInv
  <2>2. \A i \in reported' : i < k' /\ Bad(i, params')
    <3>1. reported' \subseteq Clients
      BY <1>0, <1>1 DEF Types
    <3> QED BY <1>0, <1>1, <1>5, <2>1, <3>1
  <2> QED BY <2>1, <2>2 DEF PartInv
<1> QED BY <1>6, <1>7

LEMMA NextPart ==
  ASSUME Types, PipeInv, Future, PartInv, [Next]_vars
  PROVE  PartInv'
<1>1. ASSUME NEW new \in Points, SetVal(new)
      PROVE  PartInv'
  <2>1. pc' = "idle" /\ dirty'
    BY <1>1 DEF SetVal, Set, Idle
  <2> QED BY <2>1 DEF PartInv
<1>2. ASSUME NEW new \in Points, Evaluate(new)
      PROVE  PartInv'
  <2>1. /\ reported' = {} /\ k' = 1 /\ pc' = IF dirty' THEN "calculate" ELSE "return"
        /\ UNCHANGED <<inFit, part, asked, silent>> /\ params' = new /\ (dirty' <=> dirty \/ new # params)
    BY <1>2 DEF Evaluate, Set, historyVars
  <2>2. CASE dirty'
    BY <2>1, <2>2 DEF PartInv
  <2>3. CASE ~dirty'
    <3>1. params' = params /\ ~dirty /\ pc' = "return"
      BY <2>1, <2>3
    <3> QED BY <2>1, <2>3, <3>1 DEF PartInv
  <2> QED BY <2>2, <2>3
<1>3. ASSUME NEW flag \in BOOLEAN, EnableOffsetting(flag) \/ ApplyWeightSquared(flag)
      PROVE  PartInv'
  <2>1. pc' = "idle" /\ silent' /\ ~inFit'
    BY <1>3 DEF EnableOffsetting, ApplyWeightSquared, Idle, programVars
  <2> QED BY <2>1 DEF PartInv
<1>4. CASE \E m \in FitModes : BeginFit(m)
  <2>1. pc' = "idle" /\ dirty'
    BY <1>4 DEF BeginFit, Idle
  <2> QED BY <2>1 DEF PartInv
<1>5. CASE EndFit
  <2>1. pc' = "idle" /\ ~inFit' /\ UNCHANGED <<params, dirty, part, asked, silent>>
    BY <1>5 DEF EndFit, Idle, clientVars, historyVars
  <2> QED BY <2>1 DEF PartInv
<1>6. CASE GetVal
  <2>1. /\ reported' = {} /\ k' = 1 /\ pc' = IF dirty THEN "calculate" ELSE "return"
        /\ UNCHANGED <<params, dirty, inFit, part, asked, silent>>
    BY <1>6 DEF GetVal, programVars, historyVars
  <2> QED BY <2>1 DEF PartInv
<1>7. CASE Delete \/ Standby \/ Handshake
  <2>1. /\ pc' \in {"standby", "handshake", "deleted"}
        /\ UNCHANGED <<params, dirty, inFit, part, asked, silent>>
    BY <1>7 DEF Delete, Standby, Handshake, programVars, clientVars, historyVars
  <2> QED BY <2>1, SamePart
<1>8. CASE Initialize
  <2>1. pc' = pc /\ k' = k /\ reported' = reported /\ UNCHANGED <<params, dirty, inFit, part, asked, silent>>
    BY <1>8 DEF Initialize, historyVars
  <2> QED BY <2>1, SamePart
<1>9. CASE Calculate
  <2>1. /\ pc = "calculate" /\ pc' \in {"calculate", "get"} /\ reported' = reported
        /\ UNCHANGED <<params, dirty, inFit, part, asked, silent>>
    BY <1>9 DEF Calculate, programVars, historyVars
  <2> QED BY <2>1 DEF PartInv
<1>10. CASE SendMode
  <2>1. pc' = pc /\ k' = k /\ reported' = reported /\ UNCHANGED <<params, dirty, inFit, part, asked, silent>>
    BY <1>10 DEF SendMode, programVars, historyVars
  <2> QED BY <2>1, SamePart
<1>11. CASE Receive
  BY <1>11, ReceivePart
<1>12. CASE Return
  <2>1. pc' = "idle" /\ UNCHANGED <<params, dirty, inFit, part, asked, silent>>
    BY <1>12 DEF Return, programVars, clientVars, historyVars
  <2> QED BY <2>1, SamePart
<1>13. ASSUME NEW j \in Clients, Server(j)
       PROVE  PartInv'
  <2>1. PICK type : Served(j, type)
    BY <1>13, ServerEffect
  <2>2. pc' = pc /\ k' = k /\ reported' = reported /\ UNCHANGED <<params, dirty, inFit, part, asked, silent>>
    BY <2>1 DEF Served, programVars, clientVars, historyVars
  <2> QED BY <2>2, SamePart
<1>14. CASE UNCHANGED vars
  <2>1. pc' = pc /\ k' = k /\ reported' = reported /\ UNCHANGED <<params, dirty, inFit, part, asked, silent>>
    BY <1>14 DEF vars, programVars, clientVars, historyVars
  <2> QED BY <2>1, SamePart
<1> QED BY <1>1, <1>2, <1>3, <1>4, <1>5, <1>6, <1>7, <1>8, <1>9, <1>10, <1>11, <1>12, <1>13,
           <1>14 DEF Next, Working

-----------------------------------------------------------------------------
(* The theorems *)

LEMMA Invariant == Spec => []Inv
<1>1. Init => Inv
  BY InitTypes, InitPipes, InitFuture, InitPart DEF Inv
<1>2. Inv /\ [Next]_vars => Inv'
  BY NextTypes, NextPipes, NextFuture, NextPart DEF Inv
<1> QED BY <1>1, <1>2, PTL DEF Spec

\* Each variable has its type, and a server has one answer under way at most:
\* what a client reads is a value with its errors, never a message of the end of
\* its server (RooRealMPFE::evaluate).
THEOREM TypeCorrect == Spec => []TypeOK
<1>1. Inv => TypeOK
  <2> SUFFICES ASSUME Inv
               PROVE  TypeOK
    OBVIOUS
  <2>1. ASSUME NEW i \in Clients
        PROVE  /\ server[i].vals \in Points /\ server[i].mode \in Modes
               /\ server[i].errors \in Nat /\ Len(reply[i]) <= 1
    <3>1. server[i] \in ServerStates /\ Answers(i)
      BY DEF Inv, Types, PipeInv
    <3>2. Len(reply[i]) <= 1
      <4>1. CASE reply[i] = <<>>
        BY <4>1
      <4>2. CASE reply[i] # <<>>
        <5>1. Len(reply[i]) = 1
          BY <3>1, <4>2 DEF Answers
        <5> QED BY <5>1
      <4> QED BY <4>1, <4>2
    <3> QED BY <3>1, <3>2 DEF ServerStates
  <2> QED BY <2>1 DEF Inv, Types, TypeOK, Phases
<1> QED BY <1>1, Invariant, PTL

\* The program never gets a term that is of other parameters, or of the other kind
\* of weights, than it has asked for, unless it is the clean value that a switch left
\* as it was: the first client alone compares parameters, the others follow its
\* flags (RooRealMPFE::calculate), and switches wait in the buffers for a flush.
THEOREM SumsAreCurrent == Spec => []SumIsCurrent
<1>1. Inv => SumIsCurrent
  BY DEF Inv, PartInv, SumIsCurrent
<1> QED BY <1>1, Invariant, PTL

\* The offsets that a fit subtracts in the partitions are of the weights it uses,
\* and of one point unless a partition was worth nothing where another one took its
\* offset, though each server takes its own, at the first evaluation after it was
\* told to that gives it a value (RooNLLVar.cxx:243-255).
THEOREM OffsetsStayTogether == Spec => []OffsetsTogether
<1>1. Inv => OffsetsTogether
  BY DEF Inv, PartInv, OffsetsTogether, Here
<1> QED BY <1>1, Invariant, PTL

\* An error that is reported with an evaluation was logged in it: no error of an
\* earlier calculation is left in the log of a server (RooRealMPFE::serverLoop).
THEOREM ErrorsAreOfThisPoint == Spec => []ErrorsOfThisPoint
<1>1. Inv => ErrorsOfThisPoint
  BY DEF Inv, PartInv, ErrorsOfThisPoint
<1> QED BY <1>1, Invariant, PTL
=============================================================================
