----------------------- MODULE LikelihoodOffsetsProofs -----------------------
(***************************************************************************)
(* The workers' offsets are the master's, for any number of workers, event *)
(* sections, components, points and evaluations, if offsetting is not      *)
(* switched off while workers exist.                                       *)
(***************************************************************************)
EXTENDS LikelihoodOffsets, FiniteSetTheorems, TLAPS

USE DEF masterVars, workerVars, bounds

-----------------------------------------------------------------------------
(* Types *)

\* A message is added to every worker's channel, or none is.
LEMMA PublishType ==
    ASSUME mw \in [Workers -> Seq(Update)], NEW u \in Update, Publish(u)
    PROVE  mw' \in [Workers -> Seq(Update)]
BY DEF Publish

\* The offsets an evaluation uses.
LEMMA OffsetsToUseType == TypeOK => OffsetsToUse \in Offsets /\ (doOffset => OffsetsToUse \in Points)
BY DEF TypeOK, OffsetsToUse, Offsets

\* What an evaluation sends, and whether it sends.
LEMMA UpdateWorkersType ==
    ASSUME TypeOK, NEW new \in Offsets, UpdateWorkers(new)
    PROVE  /\ mw' \in [Workers -> Seq(Update)] /\ stateId' \in Nat
           /\ saved' \in Points /\ previous' \in Offsets
<1> USE DEF TypeOK
<1> DEFINE u == [mode |-> "parameters", state |-> stateId + 1,
                 point |-> IF point # saved THEN point ELSE NoPoint,
                 offsets |-> IF SendOffsets(new) THEN new ELSE NotSent]
<1>1. u \in Update
  BY DEF Update
<1>2. CASE point # saved \/ SendOffsets(new)
  <2>1. stateId' = stateId + 1 /\ Publish(u) /\ saved' = point /\ previous' \in {new, previous}
    BY <1>2 DEF UpdateWorkers
  <2> HIDE DEF u
  <2> QED BY <1>1, <2>1, PublishType
<1>3. CASE ~(point # saved \/ SendOffsets(new))
  BY <1>3 DEF UpdateWorkers
<1> QED BY <1>2, <1>3

\* A worker that takes an update keeps its types.
LEMMA ReceiveUpdateType ==
    ASSUME TypeOK, NEW w \in Workers, ReceiveUpdate(w)
    PROVE  TypeOK'
<1> USE DEF TypeOK
<1> DEFINE u == Head(mw[w])
<1>1. mw[w] \in Seq(Update) /\ mw[w] # <<>>
  BY DEF ReceiveUpdate
<1>2. u \in Update /\ Tail(mw[w]) \in Seq(Update)
  BY <1>1
<1>3. mw' = [mw EXCEPT ![w] = Tail(@)] /\ UNCHANGED <<masterVars, todo, results, bounds>>
  BY DEF ReceiveUpdate
<1>4. mw' \in [Workers -> Seq(Update)]
  BY <1>2, <1>3
<1>5. CASE u.mode = "parameters"
  <2>1. /\ wState' = [wState EXCEPT ![w] = u.state]
        /\ wPoint' = [wPoint EXCEPT ![w] = Received(u.point, NoPoint, @)]
        /\ wOffsets' = [wOffsets EXCEPT ![w] = Received(u.offsets, NotSent, @)]
        /\ UNCHANGED wDoOffset
    BY <1>5 DEF ReceiveUpdate
  <2> HIDE DEF u
  <2>2. u.state \in Nat /\ u.point \in Points \cup {NoPoint} /\ u.offsets \in Offsets \cup {NotSent}
    BY <1>2, <1>5 DEF Update
  <2> QED BY <1>3, <1>4, <2>1, <2>2 DEF Received
<1>6. CASE u.mode = "offsetting"
  <2>1. /\ wDoOffset' = [wDoOffset EXCEPT ![w] = u.flag]
        /\ wOffsets' = [wOffsets EXCEPT ![w] = IF u.flag THEN @ ELSE NoOffset]
        /\ UNCHANGED <<wState, wPoint>>
    BY <1>6 DEF ReceiveUpdate
  <2> HIDE DEF u
  <2>2. u.flag \in BOOLEAN
    BY <1>2, <1>6 DEF Update
  <2> QED BY <1>3, <1>4, <2>1, <2>2 DEF Offsets
<1>7. u.mode \in {"parameters", "offsetting"}
  <2> HIDE DEF u
  <2> QED BY <1>2 DEF Update
<1> QED BY <1>5, <1>6, <1>7

\* Every step keeps the types.
LEMMA NextTypeOK ==
    ASSUME TypeOK, [Next]_vars
    PROVE  TypeOK'
<1> USE DEF TypeOK
<1>1. ASSUME NEW p \in Points, SetPoint(p) PROVE TypeOK'
  BY <1>1 DEF SetPoint
<1>2. ASSUME NEW flag \in BOOLEAN, EnableOffsetting(flag) PROVE TypeOK'
  <2> DEFINE u == [mode |-> "offsetting", flag |-> flag]
  <2>1. u \in Update
    BY DEF Update
  <2>2. /\ doOffset' = flag /\ offsets' = OffsetsEnabled(flag) /\ settings < MaxSettings /\ settings' = settings + 1
        /\ UNCHANGED <<mode, previous, point, saved, stateId, forked, evaluating, value>>
        /\ UNCHANGED <<workerVars, todo, results, evaluations>>
        /\ Publish(u) \/ UNCHANGED mw
    BY <1>2 DEF EnableOffsetting
  <2> HIDE DEF u
  <2>3. mw' \in [Workers -> Seq(Update)]
    BY <2>1, <2>2, PublishType
  <2>4. offsets' \in Offsets /\ settings' \in 0 .. MaxSettings
    BY <2>2, OffsetsAssumption DEF OffsetsEnabled, Offsets
  <2> QED BY <2>2, <2>3, <2>4
<1>3. CASE \E m \in Modes : SetOffsettingMode(m)
  BY <1>3, OffsetsAssumption DEF SetOffsettingMode, Offsets
<1>4. CASE StartEvaluate
  <2>1. /\ evaluations < MaxEvaluations /\ evaluations' = evaluations + 1 /\ forked' = TRUE /\ Fork
        /\ offsets' = OffsetsToUse /\ UpdateWorkers(OffsetsToUse) /\ todo' = Tasks /\ evaluating' = TRUE
        /\ UNCHANGED <<doOffset, mode, point, value, results, settings>>
    BY <1>4 DEF StartEvaluate
  <2>2. OffsetsToUse \in Offsets
    BY OffsetsToUseType
  <2>3. /\ mw' \in [Workers -> Seq(Update)] /\ stateId' \in Nat
        /\ saved' \in Points /\ previous' \in Offsets
    BY <2>1, <2>2, UpdateWorkersType
  <2>4. /\ wDoOffset' \in [Workers -> BOOLEAN] /\ wOffsets' \in [Workers -> Offsets]
        /\ wPoint' \in [Workers -> Points] /\ wState' \in [Workers -> Nat]
    BY <2>1 DEF Fork
  <2>5. evaluations' \in 0 .. MaxEvaluations
    BY <2>1, OffsetsAssumption
  <2> QED BY <2>1, <2>2, <2>3, <2>4, <2>5
<1>5. CASE FinishEvaluate
  BY <1>5 DEF FinishEvaluate
<1>6. ASSUME NEW w \in Workers, ReceiveUpdate(w) PROVE TypeOK'
  BY <1>6, ReceiveUpdateType
<1>7. ASSUME NEW w \in Workers, NEW task \in Tasks, EvaluateTask(w, task) PROVE TypeOK'
  <2> DEFINE r == [task |-> task, point |-> wPoint[w], flag |-> wDoOffset[w], offset |-> OffsetOf(w, task)]
  <2>1. OffsetOf(w, task) \in Offsets \cup {Garbage}
    BY DEF OffsetOf, Offsets
  <2>2. r \in Result
    BY <2>1 DEF Result
  <2>3. /\ todo' = todo \ {task} /\ results' = results \cup {r}
        /\ UNCHANGED <<masterVars, workerVars, mw, bounds>>
    BY <1>7 DEF EvaluateTask
  <2> HIDE DEF r
  <2> QED BY <2>2, <2>3
<1>8. CASE UNCHANGED vars
  BY <1>8 DEF vars
<1> HIDE DEF TypeOK
<1> QED BY <1>1, <1>2, <1>3, <1>4, <1>5, <1>6, <1>7, <1>8 DEF Next

\* Every variable keeps its type: in particular the offsets of master and workers
\* are of a point at which the likelihood was evaluated, or there are none.
THEOREM TypeCorrect == Spec => []TypeOK
<1>1. ASSUME Init PROVE TypeOK
  <2>1. mw \in [Workers -> Seq(Update)]
    BY <1>1 DEF Init
  <2>2. evaluations \in 0 .. MaxEvaluations /\ settings \in 0 .. MaxSettings /\ InitPoint \in Points
    BY <1>1, OffsetsAssumption DEF Init
  <2>3. /\ wDoOffset \in [Workers -> BOOLEAN] /\ wOffsets \in [Workers -> Offsets]
        /\ wPoint \in [Workers -> Points] /\ wState \in [Workers -> Nat]
    BY <1>1, <2>2 DEF Init, Offsets
  <2> QED BY <1>1, <2>1, <2>2, <2>3 DEF Init, TypeOK, Offsets, Modes
<1> QED BY <1>1, NextTypeOK, PTL DEF Spec
-----------------------------------------------------------------------------
(* The offsets on their way *)

\* An update that brings offsets.
Carries(u) == u.mode = "parameters" /\ u.offsets # NotSent

\* A worker has the offsets that were sent last, or the last update in its channel
\* that brings any brings those.
Follows(w) ==
    \/ wOffsets[w] = previous /\ \A i \in 1 .. Len(mw[w]) : ~Carries(mw[w][i])
    \/ \E i \in 1 .. Len(mw[w]) :
          /\ Carries(mw[w][i]) /\ mw[w][i].offsets = previous
          /\ \A j \in (i + 1) .. Len(mw[w]) : ~Carries(mw[w][j])

\* No update on its way clears the offsets of a worker.
NothingClears == \A w \in Workers : \A i \in 1 .. Len(mw[w]) : mw[w][i].mode = "offsetting" => mw[w][i].flag

\* Before the workers exist there are no offsets and nothing was sent.
BeforeFork ==
    ~forked => /\ ~evaluating /\ offsets = NoOffset /\ previous = NoOffset
               /\ \A w \in Workers : mw[w] = <<>>

FollowInv ==
    /\ ~doOffset => offsets = NoOffset
    /\ evaluating /\ doOffset => previous = offsets
    /\ BeforeFork
    /\ NothingClears
    /\ \A w \in Workers : Follows(w)

\* What a publication adds to the channel of a worker.
LEMMA PublishFacts ==
    ASSUME mw \in [Workers -> Seq(Update)], NEW u \in Update, Publish(u), NEW w \in Workers
    PROVE  /\ Len(mw[w]) \in Nat /\ Len(mw'[w]) = Len(mw[w]) + 1
           /\ mw'[w][Len(mw[w]) + 1] = u
           /\ \A i \in 1 .. Len(mw[w]) : mw'[w][i] = mw[w][i]
<1>1. mw[w] \in Seq(Update) /\ mw'[w] = Append(mw[w], u)
  BY DEF Publish
<1> HIDE DEF Publish
<1> QED BY <1>1

\* An update without offsets, added to a channel, changes nothing.
LEMMA FollowsAppend ==
    ASSUME mw \in [Workers -> Seq(Update)], NEW u \in Update, Publish(u), ~Carries(u),
           NEW w \in Workers, Follows(w), wOffsets'[w] = wOffsets[w], previous' = previous
    PROVE  Follows(w)'
<1> DEFINE n == Len(mw[w])
<1>1. /\ n \in Nat /\ Len(mw'[w]) = n + 1 /\ mw'[w][n + 1] = u
      /\ \A i \in 1 .. n : mw'[w][i] = mw[w][i]
  BY PublishFacts
<1> HIDE DEF n
<1>2. \A i \in 1 .. n + 1 : i = n + 1 \/ i \in 1 .. n
  BY <1>1
<1>3. CASE wOffsets[w] = previous /\ \A i \in 1 .. n : ~Carries(mw[w][i])
  <2>1. \A i \in 1 .. Len(mw'[w]) : ~Carries(mw'[w][i])
    BY <1>1, <1>2, <1>3
  <2> QED BY <1>3, <2>1 DEF Follows, Carries
<1>4. ASSUME NEW i \in 1 .. n, Carries(mw[w][i]), mw[w][i].offsets = previous,
             \A j \in (i + 1) .. n : ~Carries(mw[w][j])
      PROVE  Follows(w)'
  <2>1. i \in 1 .. Len(mw'[w]) /\ Carries(mw'[w][i]) /\ mw'[w][i].offsets = previous'
    BY <1>1, <1>4
  <2>2. \A j \in (i + 1) .. Len(mw'[w]) : ~Carries(mw'[w][j])
    <3>1. \A j \in (i + 1) .. n + 1 : j = n + 1 \/ (j \in (i + 1) .. n /\ j \in 1 .. n)
      BY <1>1
    <3> QED BY <1>1, <1>4, <3>1
  <2> QED BY <2>1, <2>2 DEF Follows, Carries
<1> QED BY <1>3, <1>4 DEF Follows, n

\* An update with the offsets that are now the last sent settles the matter.
LEMMA FollowsNew ==
    ASSUME mw \in [Workers -> Seq(Update)], NEW u \in Update, Publish(u), Carries(u), u.offsets = previous',
           NEW w \in Workers
    PROVE  Follows(w)'
<1>1. /\ Len(mw[w]) \in Nat /\ Len(mw'[w]) = Len(mw[w]) + 1 /\ mw'[w][Len(mw[w]) + 1] = u
  BY PublishFacts
<1>2. /\ Len(mw'[w]) \in 1 .. Len(mw'[w]) /\ mw'[w][Len(mw'[w])] = u
      /\ \A j \in (Len(mw'[w]) + 1) .. Len(mw'[w]) : FALSE
  BY <1>1
<1> QED BY <1>2 DEF Follows, Carries

\* A worker that takes an update still follows.
LEMMA FollowsReceive ==
    ASSUME TypeOK, NothingClears, NEW v \in Workers, ReceiveUpdate(v), NEW w \in Workers, Follows(w)
    PROVE  Follows(w)'
<1> DEFINE n == Len(mw[v])
           u == Head(mw[v])
<1>1. mw \in [Workers -> Seq(Update)] /\ wOffsets \in [Workers -> Offsets]
  BY DEF TypeOK
<1>2. mw[v] \in Seq(Update) /\ mw[v] # <<>> /\ mw' = [mw EXCEPT ![v] = Tail(@)] /\ previous' = previous
  BY <1>1 DEF ReceiveUpdate
<1>3. CASE w # v
  <2>1. mw'[w] = mw[w] /\ wOffsets'[w] = wOffsets[w] /\ previous' = previous
    <3>1. \/ wOffsets' = [wOffsets EXCEPT ![v] = Received(u.offsets, NotSent, @)]
          \/ wOffsets' = [wOffsets EXCEPT ![v] = IF u.flag THEN @ ELSE NoOffset]
      BY DEF ReceiveUpdate
    <3> QED BY <1>1, <1>2, <1>3, <3>1
  <2> HIDE DEF n, u
  <2> QED BY <2>1 DEF Follows, Carries
<1>4. CASE w = v
  <2>1. /\ n \in Nat /\ n >= 1 /\ u = mw[v][1] /\ u \in Update /\ Len(mw'[v]) = n - 1
        /\ \A i \in 1 .. n - 1 : mw'[v][i] = mw[v][i + 1]
    <3>1. mw'[v] = Tail(mw[v])
      BY <1>1, <1>2
    <3>2. n \in Nat /\ n >= 1 /\ u = mw[v][1] /\ u \in Update
      BY <1>2
    <3>3. /\ Len(Tail(mw[v])) = n - 1
          /\ \A i \in 1 .. n - 1 : Tail(mw[v])[i] = mw[v][i + 1]
      BY <1>2
    <3> QED BY <3>1, <3>2, <3>3
  <2>2. wOffsets'[v] = IF Carries(u) THEN u.offsets ELSE wOffsets[v]
    <3>1. CASE u.mode = "parameters"
      <4>1. wOffsets' = [wOffsets EXCEPT ![v] = Received(u.offsets, NotSent, @)]
        BY <3>1 DEF ReceiveUpdate
      <4> QED BY <1>1, <3>1, <4>1 DEF Received, Carries
    <3>2. CASE u.mode = "offsetting"
      <4>1. wOffsets' = [wOffsets EXCEPT ![v] = IF u.flag THEN @ ELSE NoOffset]
        BY <3>2 DEF ReceiveUpdate
      <4>2. u.flag
        BY <2>1, <3>2 DEF NothingClears
      <4> QED BY <1>1, <3>2, <4>1, <4>2 DEF Carries
    <3> QED BY <3>1, <3>2 DEF ReceiveUpdate
  <2> HIDE DEF n, u
  <2>3. \A i \in 1 .. n - 1 : i + 1 \in 1 .. n
    BY <2>1
  <2>4. CASE wOffsets[v] = previous /\ \A i \in 1 .. n : ~Carries(mw[v][i])
    <3>1. 1 \in 1 .. n
      BY <2>1
    <3>2. \A i \in 1 .. Len(mw'[v]) : ~Carries(mw'[v][i])
      BY <2>1, <2>3, <2>4
    <3>3. wOffsets'[v] = previous'
      BY <1>2, <2>1, <2>2, <2>4, <3>1
    <3> QED BY <1>4, <3>2, <3>3 DEF Follows, Carries
  <2>5. ASSUME NEW i \in 1 .. n, Carries(mw[v][i]), mw[v][i].offsets = previous,
               \A j \in (i + 1) .. n : ~Carries(mw[v][j])
        PROVE  Follows(w)'
    <3>1. CASE i = 1
      <4>1. wOffsets'[v] = previous'
        BY <1>2, <2>1, <2>2, <2>5, <3>1
      <4>2. \A j \in 1 .. n - 1 : j + 1 \in (i + 1) .. n
        BY <2>1, <3>1
      <4>3. \A j \in 1 .. Len(mw'[v]) : ~Carries(mw'[v][j])
        BY <2>1, <2>5, <4>2
      <4> QED BY <1>4, <4>1, <4>3 DEF Follows, Carries
    <3>2. CASE i # 1
      <4>1. i - 1 \in 1 .. n - 1 /\ (i - 1) + 1 = i
        BY <2>1, <3>2
      <4>2. mw'[v][i - 1] = mw[v][i]
        BY <2>1, <4>1
      <4>3. \A j \in ((i - 1) + 1) .. n - 1 : j \in 1 .. n - 1 /\ j + 1 \in (i + 1) .. n
        BY <2>1
      <4>4. \A j \in ((i - 1) + 1) .. n - 1 : ~Carries(mw'[v][j])
        BY <2>1, <2>5, <4>3
      <4>5. /\ i - 1 \in 1 .. Len(mw'[v]) /\ Carries(mw'[v][i - 1]) /\ mw'[v][i - 1].offsets = previous'
            /\ \A j \in ((i - 1) + 1) .. Len(mw'[v]) : ~Carries(mw'[v][j])
        BY <1>2, <2>1, <2>5, <4>1, <4>2, <4>4
      <4> QED BY <1>4, <4>5 DEF Follows, Carries
    <3> QED BY <3>1, <3>2
  <2> QED BY <1>4, <2>4, <2>5 DEF Follows, n
<1> QED BY <1>3, <1>4

-----------------------------------------------------------------------------
(* The steps *)

\* What is published clears nothing unless it is a flag that says so.
LEMMA NothingClearsAppend ==
    ASSUME mw \in [Workers -> Seq(Update)], NothingClears, NEW u \in Update, Publish(u),
           u.mode = "offsetting" => u.flag
    PROVE  NothingClears'
<1> SUFFICES ASSUME NEW w \in Workers, NEW i \in 1 .. Len(mw'[w]), mw'[w][i].mode = "offsetting"
             PROVE  mw'[w][i].flag
  BY DEF NothingClears
<1>1. /\ Len(mw[w]) \in Nat /\ Len(mw'[w]) = Len(mw[w]) + 1 /\ mw'[w][Len(mw[w]) + 1] = u
      /\ \A j \in 1 .. Len(mw[w]) : mw'[w][j] = mw[w][j]
  BY PublishFacts
<1>2. i = Len(mw[w]) + 1 \/ i \in 1 .. Len(mw[w])
  BY <1>1
<1> QED BY <1>1, <1>2 DEF NothingClears

\* The start of an evaluation: whatever was changed before, the offsets to use are
\* those last sent when it ends, and every worker has them or will get them.
LEMMA StartFollowInv ==
    ASSUME TypeOK, FollowInv, StartEvaluate
    PROVE  FollowInv'
<1> DEFINE new == OffsetsToUse
           u == [mode |-> "parameters", state |-> stateId + 1,
                 point |-> IF point # saved THEN point ELSE NoPoint,
                 offsets |-> IF SendOffsets(new) THEN new ELSE NotSent]
<1>1. /\ forked' /\ Fork /\ offsets' = new /\ UpdateWorkers(new) /\ evaluating' /\ doOffset' = doOffset
  BY DEF StartEvaluate
<1>2. new \in Offsets /\ (doOffset => new \in Points) /\ (~doOffset => new = NoOffset)
  BY OffsetsToUseType DEF OffsetsToUse, FollowInv
<1>3. u \in Update /\ u.mode = "parameters" /\ (SendOffsets(new) => u.offsets = new)
      /\ (~SendOffsets(new) => u.offsets = NotSent)
  BY <1>2 DEF Update, TypeOK
<1>4. \/ Publish(u) /\ previous' = IF SendOffsets(new) THEN new ELSE previous
      \/ ~SendOffsets(new) /\ mw' = mw /\ previous' = previous
  BY <1>1 DEF UpdateWorkers
<1>5. NotSent \notin Points /\ mw \in [Workers -> Seq(Update)]
  BY OffsetsAssumption DEF TypeOK
<1>6. SendOffsets(new) <=> doOffset /\ new # previous
  BY DEF SendOffsets
<1> HIDE DEF new, u
<1>7. doOffset => previous' = new
  BY <1>4, <1>6
<1>8. NothingClears'
  BY <1>3, <1>4, <1>5, NothingClearsAppend DEF FollowInv, NothingClears
<1>9. ASSUME NEW w \in Workers PROVE Follows(w)'
  <2>1. CASE Publish(u) /\ SendOffsets(new)
    BY <1>2, <1>3, <1>5, <1>6, <1>7, <2>1, FollowsNew DEF Carries
  <2>2. CASE ~SendOffsets(new)
    <3>1. previous' = previous /\ (Publish(u) \/ mw' = mw) /\ ~Carries(u)
      BY <1>3, <1>4, <2>2 DEF Carries
    <3>2. Follows(w) /\ wOffsets'[w] = wOffsets[w]
      <4>1. CASE forked
        BY <1>1, <4>1 DEF Fork, FollowInv
      <4>2. CASE ~forked
        <5>1. offsets = NoOffset /\ previous = NoOffset /\ mw[w] = <<>> /\ Follows(w)
          BY <4>2 DEF FollowInv, BeforeFork
        <5>2. wOffsets[w] = NoOffset
          BY <5>1 DEF Follows
        <5>3. wOffsets'[w] = offsets
          BY <1>1, <4>2 DEF Fork
        <5> QED BY <5>1, <5>2, <5>3
      <4> QED BY <4>1, <4>2
    <3>3. CASE Publish(u)
      BY <1>3, <1>5, <3>1, <3>2, <3>3, FollowsAppend
    <3>4. CASE mw' = mw
      BY <3>1, <3>2, <3>4 DEF Follows, Carries
    <3> QED BY <3>1, <3>3, <3>4
  <2> QED BY <1>4, <2>1, <2>2
<1> QED BY <1>1, <1>2, <1>7, <1>8, <1>9 DEF FollowInv, BeforeFork

\* Every step keeps the invariant, if the workers are never told to clear their offsets.
LEMMA NextFollowInv ==
    ASSUME ~DisableAfterFork, TypeOK, FollowInv, [Next]_vars
    PROVE  FollowInv'
<1>0. mw \in [Workers -> Seq(Update)] /\ \A w \in Workers : Follows(w)
  BY DEF TypeOK, FollowInv
<1>1. ASSUME UNCHANGED <<offsets, previous, doOffset, forked, evaluating, wOffsets, mw>> PROVE FollowInv'
  BY <1>1 DEF FollowInv, BeforeFork, NothingClears, Follows, Carries
<1>2. ASSUME NEW p \in Points, SetPoint(p) PROVE FollowInv'
  BY <1>1, <1>2 DEF SetPoint
<1>3. ASSUME NEW flag \in BOOLEAN, EnableOffsetting(flag) PROVE FollowInv'
  <2> DEFINE u == [mode |-> "offsetting", flag |-> flag]
  <2>1. /\ doOffset' = flag /\ offsets' = OffsetsEnabled(flag) /\ ~evaluating /\ (forked => flag)
        /\ UNCHANGED <<previous, forked, evaluating, wOffsets>>
        /\ ((forked /\ Publish(u)) \/ UNCHANGED mw)
    BY <1>3 DEF EnableOffsetting
  <2>2. u \in Update /\ u.mode = "offsetting" /\ u.flag = flag /\ ~Carries(u)
    BY DEF Update, Carries
  <2> HIDE DEF u
  <2>3. NothingClears' /\ (~forked => mw' = mw)
    BY <1>0, <2>1, <2>2, NothingClearsAppend DEF FollowInv, NothingClears
  <2>4. ASSUME NEW w \in Workers PROVE Follows(w)'
    <3>1. CASE Publish(u)
      BY <1>0, <2>1, <2>2, <3>1, FollowsAppend
    <3>2. CASE mw' = mw
      BY <1>0, <2>1, <3>2 DEF Follows, Carries
    <3> QED BY <2>1, <3>1, <3>2
  <2> QED BY <2>1, <2>3, <2>4 DEF FollowInv, BeforeFork, OffsetsEnabled
<1>4. CASE \E m \in Modes : SetOffsettingMode(m)
  <2>1. ~evaluating /\ offsets' \in {NoOffset, offsets} /\ UNCHANGED <<previous, doOffset, forked, evaluating, wOffsets, mw>>
    BY <1>4 DEF SetOffsettingMode
  <2> QED BY <2>1 DEF FollowInv, BeforeFork, NothingClears, Follows, Carries
<1>5. CASE StartEvaluate
  BY <1>5, StartFollowInv
<1>6. CASE FinishEvaluate
  <2>1. evaluating /\ ~evaluating' /\ UNCHANGED <<offsets, previous, doOffset, forked, wOffsets, mw>>
    BY <1>6 DEF FinishEvaluate
  <2> QED BY <2>1 DEF FollowInv, BeforeFork, NothingClears, Follows, Carries
<1>7. ASSUME NEW v \in Workers, ReceiveUpdate(v) PROVE FollowInv'
  <2>1. UNCHANGED <<offsets, previous, doOffset, forked, evaluating>> /\ mw[v] # <<>> /\ mw' = [mw EXCEPT ![v] = Tail(@)]
    BY <1>7 DEF ReceiveUpdate
  <2>2. forked
    BY <2>1 DEF FollowInv, BeforeFork
  <2>3. ASSUME NEW w \in Workers PROVE Follows(w)'
    BY <1>0, <1>7, FollowsReceive DEF FollowInv
  <2>4. NothingClears'
    <3> SUFFICES ASSUME NEW w \in Workers, NEW i \in 1 .. Len(mw'[w]), mw'[w][i].mode = "offsetting"
                 PROVE  mw'[w][i].flag
      BY DEF NothingClears
    <3>1. CASE w # v
      BY <1>0, <2>1, <3>1 DEF FollowInv, NothingClears
    <3>2. CASE w = v
      <4>1. mw'[v] = Tail(mw[v]) /\ mw[v] \in Seq(Update) /\ mw[v] # <<>>
        BY <1>0, <2>1
      <4>2. i + 1 \in 1 .. Len(mw[v]) /\ mw'[v][i] = mw[v][i + 1]
        BY <3>2, <4>1
      <4> QED BY <3>2, <4>2 DEF FollowInv, NothingClears
    <3> QED BY <3>1, <3>2
  <2> QED BY <2>1, <2>2, <2>3, <2>4 DEF FollowInv, BeforeFork
<1>8. ASSUME NEW w \in Workers, NEW task \in Tasks, EvaluateTask(w, task) PROVE FollowInv'
  BY <1>1, <1>8 DEF EvaluateTask
<1>9. CASE UNCHANGED vars
  BY <1>1, <1>9 DEF vars
<1> QED BY <1>2, <1>3, <1>4, <1>5, <1>6, <1>7, <1>8, <1>9 DEF Next

\* Whenever tasks of a likelihood with offsets are evaluated, a worker that got all
\* updates has the offsets of the master, however often they were made obsolete and
\* calculated again: updateWorkersParameters sends them if, and only if, they are
\* not those it sent last.
THEOREM OffsetsReachWorkers ==
    ASSUME ~DisableAfterFork
    PROVE  Spec => []OffsetsFollow
<1>1. Init => FollowInv
  <2> SUFFICES ASSUME Init PROVE FollowInv
    OBVIOUS
  <2>1. \A w \in Workers : mw[w] = <<>> /\ wOffsets[w] = NoOffset
    BY DEF Init
  <2> QED BY <2>1 DEF Init, FollowInv, BeforeFork, NothingClears, Follows
<1>2. TypeOK /\ FollowInv /\ [Next]_vars => FollowInv'
  BY NextFollowInv
<1>3. FollowInv => OffsetsFollow
  <2> SUFFICES ASSUME FollowInv, evaluating, doOffset, NEW w \in Workers, mw[w] = <<>>
               PROVE  wOffsets[w] = offsets
    BY DEF OffsetsFollow
  <2>1. Follows(w) /\ previous = offsets
    BY DEF FollowInv
  <2> QED BY <2>1 DEF Follows
<1> QED BY <1>1, <1>2, <1>3, TypeCorrect, PTL DEF Spec

-----------------------------------------------------------------------------
(* The states on their way *)

\* States are numbered in the order they are sent and a worker takes them in that
\* order, so that one with the master's state has no state on its way.
StatesInv ==
    \A w \in Workers :
        /\ wState[w] <= stateId
        /\ \A i \in 1 .. Len(mw[w]) :
              mw[w][i].mode = "parameters" =>
                  /\ wState[w] < mw[w][i].state /\ mw[w][i].state <= stateId
                  /\ \A j \in (i + 1) .. Len(mw[w]) :
                        mw[w][j].mode = "parameters" => mw[w][i].state < mw[w][j].state

\* The same as Follows, for the parameters' values.
Moves(u) == u.mode = "parameters" /\ u.point # NoPoint
Tracks(w) ==
    \/ wPoint[w] = saved /\ \A i \in 1 .. Len(mw[w]) : ~Moves(mw[w][i])
    \/ \E i \in 1 .. Len(mw[w]) :
          /\ Moves(mw[w][i]) /\ mw[w][i].point = saved
          /\ \A j \in (i + 1) .. Len(mw[w]) : ~Moves(mw[w][j])

\* The flag, though it has no state id, comes before the first offsets.
Flags(u) == u.mode = "offsetting"
FlagInv ==
    /\ \A w \in Workers : wOffsets[w] # NoOffset => wDoOffset[w]
    /\ \A w \in Workers : \A i \in 1 .. Len(mw[w]) :
          Carries(mw[w][i]) => wDoOffset[w] \/ \E j \in 1 .. (i - 1) : Flags(mw[w][j])
    /\ forked => \A w \in Workers :
          IF doOffset THEN wDoOffset[w] \/ \E i \in 1 .. Len(mw[w]) : Flags(mw[w][i])
                      ELSE ~wDoOffset[w] /\ \A i \in 1 .. Len(mw[w]) : ~Flags(mw[w][i])

\* The result of a task in this evaluation.
HasOffset(task) == doOffset /\ LastSection(task) /\ task \div NEventTasks \notin Subsidiary
ResultOf(task) ==
    [task |-> task, point |-> point, flag |-> doOffset, offset |-> IF HasOffset(task) THEN offsets ELSE NoOffset]

EvaluationInv ==
    /\ IF evaluating THEN results = {ResultOf(task) : task \in Tasks \ todo}
                     ELSE results = {} /\ todo = {}
    /\ evaluating => saved = point
    /\ evaluating /\ doOffset => offsets # NoOffset

SerialInv == StatesInv /\ FlagInv /\ EvaluationInv /\ (forked => \A w \in Workers : Tracks(w))

\* What a worker does when it takes an update.
LEMMA ReceiveFacts ==
    ASSUME TypeOK, NEW v \in Workers, ReceiveUpdate(v)
    PROVE  /\ Len(mw[v]) \in Nat \ {0} /\ Len(mw'[v]) = Len(mw[v]) - 1
           /\ \A i \in 1 .. Len(mw[v]) - 1 : i + 1 \in 1 .. Len(mw[v]) /\ mw'[v][i] = mw[v][i + 1]
           /\ \A w \in Workers \ {v} :
                 /\ mw'[w] = mw[w] /\ wState'[w] = wState[w] /\ wPoint'[w] = wPoint[w]
                 /\ wOffsets'[w] = wOffsets[w] /\ wDoOffset'[w] = wDoOffset[w]
           /\ mw[v][1] \in Update
           /\ mw[v][1].mode = "parameters" =>
                 /\ wState'[v] = mw[v][1].state
                 /\ wPoint'[v] = Received(mw[v][1].point, NoPoint, wPoint[v])
                 /\ wOffsets'[v] = Received(mw[v][1].offsets, NotSent, wOffsets[v])
                 /\ wDoOffset'[v] = wDoOffset[v]
           /\ mw[v][1].mode = "offsetting" =>
                 /\ wState'[v] = wState[v] /\ wPoint'[v] = wPoint[v] /\ wDoOffset'[v] = mw[v][1].flag
                 /\ wOffsets'[v] = IF mw[v][1].flag THEN wOffsets[v] ELSE NoOffset
           /\ mw[v][1].mode \in {"parameters", "offsetting"}
           /\ UNCHANGED <<masterVars, todo, results>>
<1>1. /\ mw \in [Workers -> Seq(Update)] /\ wOffsets \in [Workers -> Offsets] /\ wState \in [Workers -> Nat]
      /\ wPoint \in [Workers -> Points] /\ wDoOffset \in [Workers -> BOOLEAN]
  BY DEF TypeOK
<1>2. mw[v] \in Seq(Update) /\ mw[v] # <<>> /\ mw' = [mw EXCEPT ![v] = Tail(@)] /\ UNCHANGED <<masterVars, todo, results>>
  BY <1>1 DEF ReceiveUpdate
<1>3. Len(mw[v]) \in Nat \ {0} /\ Head(mw[v]) = mw[v][1] /\ mw[v][1] \in Update
  BY <1>2
<1>4. /\ Len(mw'[v]) = Len(mw[v]) - 1
      /\ \A i \in 1 .. Len(mw[v]) - 1 : i + 1 \in 1 .. Len(mw[v]) /\ mw'[v][i] = mw[v][i + 1]
  <2>1. mw'[v] = Tail(mw[v])
    BY <1>1, <1>2
  <2>2. /\ Len(Tail(mw[v])) = Len(mw[v]) - 1
        /\ \A i \in 1 .. Len(mw[v]) - 1 : i + 1 \in 1 .. Len(mw[v]) /\ Tail(mw[v])[i] = mw[v][i + 1]
    BY <1>2
  <2> QED BY <2>1, <2>2
<1>5. CASE mw[v][1].mode = "parameters"
  <2>1. /\ wState' = [wState EXCEPT ![v] = mw[v][1].state]
        /\ wPoint' = [wPoint EXCEPT ![v] = Received(mw[v][1].point, NoPoint, @)]
        /\ wOffsets' = [wOffsets EXCEPT ![v] = Received(mw[v][1].offsets, NotSent, @)]
        /\ wDoOffset' = wDoOffset
    BY <1>3, <1>5 DEF ReceiveUpdate
  <2> QED BY <1>1, <1>2, <1>3, <1>4, <1>5, <2>1
<1>6. CASE mw[v][1].mode = "offsetting"
  <2>1. /\ wDoOffset' = [wDoOffset EXCEPT ![v] = mw[v][1].flag]
        /\ wOffsets' = [wOffsets EXCEPT ![v] = IF mw[v][1].flag THEN @ ELSE NoOffset]
        /\ wState' = wState /\ wPoint' = wPoint
    BY <1>3, <1>6 DEF ReceiveUpdate
  <2> QED BY <1>1, <1>2, <1>3, <1>4, <1>6, <2>1
<1>7. mw[v][1].mode \in {"parameters", "offsetting"}
  BY <1>3 DEF Update
<1> QED BY <1>5, <1>6, <1>7

LEMMA ReceiveStates ==
    ASSUME TypeOK, StatesInv, NEW v \in Workers, ReceiveUpdate(v)
    PROVE  StatesInv'
<1> DEFINE n == Len(mw[v])
<1>0. /\ n \in Nat \ {0} /\ Len(mw'[v]) = n - 1
      /\ \A i \in 1 .. n - 1 : i + 1 \in 1 .. n /\ mw'[v][i] = mw[v][i + 1]
      /\ 1 \in 1 .. n
  BY ReceiveFacts
<1> HIDE DEF n
<1>1. stateId' = stateId /\ wState \in [Workers -> Nat] /\ stateId \in Nat
  BY ReceiveFacts DEF TypeOK
<1> SUFFICES ASSUME NEW w \in Workers
             PROVE  /\ wState'[w] <= stateId
                    /\ \A i \in 1 .. Len(mw'[w]) :
                          mw'[w][i].mode = "parameters" =>
                              /\ wState'[w] < mw'[w][i].state /\ mw'[w][i].state <= stateId
                              /\ \A j \in (i + 1) .. Len(mw'[w]) :
                                    mw'[w][j].mode = "parameters" => mw'[w][i].state < mw'[w][j].state
  BY <1>1 DEF StatesInv
<1>2. CASE w # v
  BY <1>2, ReceiveFacts DEF StatesInv
<1>3. CASE w = v
  <2>1. wState'[v] <= stateId
    BY <1>0, <1>1, ReceiveFacts DEF StatesInv, n
  <2>2. ASSUME NEW i \in 1 .. n - 1, mw[v][i + 1].mode = "parameters"
        PROVE  /\ wState'[v] < mw[v][i + 1].state /\ mw[v][i + 1].state <= stateId
               /\ \A j \in (i + 1) .. n - 1 :
                     mw[v][j + 1].mode = "parameters" => mw[v][i + 1].state < mw[v][j + 1].state
    <3>1. i + 1 \in 1 .. n /\ i + 1 \in (1 + 1) .. n /\ \A j \in (i + 1) .. n - 1 : j + 1 \in ((i + 1) + 1) .. n
      BY <1>0
    <3>2. /\ wState[v] < mw[v][i + 1].state /\ mw[v][i + 1].state <= stateId
          /\ \A j \in ((i + 1) + 1) .. n : mw[v][j].mode = "parameters" => mw[v][i + 1].state < mw[v][j].state
      BY <2>2, <3>1 DEF StatesInv, n
    <3>3. mw[v][1].mode = "parameters" => mw[v][1].state < mw[v][i + 1].state
      BY <1>0, <2>2, <3>1 DEF StatesInv, n
    <3>4. wState'[v] < mw[v][i + 1].state
      BY <3>2, <3>3, ReceiveFacts
    <3> QED BY <3>1, <3>2, <3>4
  <2>3. \A i \in 1 .. n - 1 : \A j \in (i + 1) .. n - 1 : mw'[v][j] = mw[v][j + 1]
    BY <1>0
  <2>4. ASSUME NEW i \in 1 .. n - 1, mw'[v][i].mode = "parameters"
        PROVE  /\ wState'[v] < mw'[v][i].state /\ mw'[v][i].state <= stateId
               /\ \A j \in (i + 1) .. n - 1 :
                     mw'[v][j].mode = "parameters" => mw'[v][i].state < mw'[v][j].state
    <3>1. mw'[v][i] = mw[v][i + 1]
      BY <1>0
    <3> QED BY <2>2, <2>3, <2>4, <3>1
  <2> QED BY <1>0, <1>3, <2>1, <2>4
<1> QED BY <1>2, <1>3

LEMMA ReceiveFlags ==
    ASSUME TypeOK, NothingClears, FlagInv, NEW v \in Workers, ReceiveUpdate(v)
    PROVE  FlagInv'
<1> DEFINE n == Len(mw[v])
           u == mw[v][1]
<1>0. /\ n \in Nat \ {0} /\ Len(mw'[v]) = n - 1
      /\ \A i \in 1 .. n - 1 : i + 1 \in 1 .. n /\ mw'[v][i] = mw[v][i + 1]
      /\ 1 \in 1 .. n /\ UNCHANGED <<doOffset, forked>>
  BY ReceiveFacts
<1>1. /\ u \in Update /\ u.mode \in {"parameters", "offsetting"}
      /\ wDoOffset'[v] = IF Flags(u) THEN u.flag ELSE wDoOffset[v]
      /\ Flags(u) => u.flag
      /\ wOffsets'[v] = IF Carries(u) THEN u.offsets ELSE wOffsets[v]
  BY <1>0, ReceiveFacts DEF Flags, Carries, Received, NothingClears
<1>2. /\ wOffsets[v] # NoOffset => wDoOffset[v]
      /\ \A i \in 1 .. n : Carries(mw[v][i]) => wDoOffset[v] \/ \E j \in 1 .. (i - 1) : Flags(mw[v][j])
      /\ forked => IF doOffset THEN wDoOffset[v] \/ \E i \in 1 .. n : Flags(mw[v][i])
                               ELSE ~wDoOffset[v] /\ \A i \in 1 .. n : ~Flags(mw[v][i])
  BY DEF FlagInv
<1> HIDE DEF n, u
<1>3. ASSUME NEW i \in 1 .. n, Flags(mw[v][i]) PROVE wDoOffset'[v] \/ (i # 1 /\ i - 1 \in 1 .. n - 1 /\ Flags(mw'[v][i - 1]))
  <2>1. CASE i = 1
    BY <1>1, <1>3, <2>1 DEF u
  <2>2. CASE i # 1
    <3>1. i - 1 \in 1 .. n - 1 /\ (i - 1) + 1 = i
      BY <1>0, <2>2
    <3> QED BY <1>0, <1>3, <2>2, <3>1
  <2> QED BY <2>1, <2>2
<1>4. wDoOffset[v] => wDoOffset'[v]
  BY <1>1
<1>5. wOffsets'[v] # NoOffset => wDoOffset'[v]
  <2>1. CASE Carries(u)
    BY <1>0, <1>2, <1>4, <2>1 DEF u
  <2>2. CASE ~Carries(u)
    BY <1>1, <1>2, <1>4, <2>2
  <2> QED BY <2>1, <2>2
<1>6. ASSUME NEW i \in 1 .. n - 1, Carries(mw'[v][i])
      PROVE  wDoOffset'[v] \/ \E j \in 1 .. (i - 1) : Flags(mw'[v][j])
  <2>1. i + 1 \in 1 .. n /\ Carries(mw[v][i + 1])
    BY <1>0, <1>6
  <2>2. CASE wDoOffset[v]
    BY <1>4, <2>2
  <2>3. ASSUME NEW j \in 1 .. ((i + 1) - 1), Flags(mw[v][j])
        PROVE  wDoOffset'[v] \/ \E l \in 1 .. (i - 1) : Flags(mw'[v][l])
    <3>1. j \in 1 .. n /\ (j # 1 => j - 1 \in 1 .. (i - 1))
      BY <1>0, <2>3
    <3> QED BY <1>3, <2>3, <3>1
  <2> QED BY <1>2, <2>1, <2>2, <2>3
<1>7. forked => IF doOffset THEN wDoOffset'[v] \/ \E i \in 1 .. n - 1 : Flags(mw'[v][i])
                            ELSE ~wDoOffset'[v] /\ \A i \in 1 .. n - 1 : ~Flags(mw'[v][i])
  <2>1. CASE forked /\ doOffset
    BY <1>2, <1>3, <1>4, <2>1
  <2>2. CASE forked /\ ~doOffset
    BY <1>0, <1>1, <1>2, <2>2 DEF u
  <2> QED BY <2>1, <2>2
<1> QED
  <2>1. \A w \in Workers \ {v} : mw'[w] = mw[w] /\ wOffsets'[w] = wOffsets[w] /\ wDoOffset'[w] = wDoOffset[w]
    BY ReceiveFacts
  <2>2. ASSUME NEW w \in Workers
        PROVE  /\ wOffsets'[w] # NoOffset => wDoOffset'[w]
               /\ \A i \in 1 .. Len(mw'[w]) :
                     Carries(mw'[w][i]) => wDoOffset'[w] \/ \E j \in 1 .. (i - 1) : Flags(mw'[w][j])
               /\ forked => IF doOffset THEN wDoOffset'[w] \/ \E i \in 1 .. Len(mw'[w]) : Flags(mw'[w][i])
                                        ELSE ~wDoOffset'[w] /\ \A i \in 1 .. Len(mw'[w]) : ~Flags(mw'[w][i])
    <3>1. CASE w = v
      BY <1>0, <1>5, <1>6, <1>7, <3>1
    <3>2. CASE w # v
      BY <2>1, <3>2 DEF FlagInv
    <3> QED BY <3>1, <3>2
  <2> QED BY <1>0, <2>2 DEF FlagInv, Carries, Flags

\* A worker that takes an update still gets the parameters last sent.
LEMMA ReceiveTracks ==
    ASSUME TypeOK, NEW v \in Workers, ReceiveUpdate(v), NEW w \in Workers, Tracks(w)
    PROVE  Tracks(w)'
<1> DEFINE n == Len(mw[v])
           u == mw[v][1]
<1>0. /\ n \in Nat \ {0} /\ Len(mw'[v]) = n - 1
      /\ \A i \in 1 .. n - 1 : i + 1 \in 1 .. n /\ mw'[v][i] = mw[v][i + 1]
      /\ 1 \in 1 .. n /\ saved' = saved
  BY ReceiveFacts
<1>1. wPoint'[v] = IF Moves(u) THEN u.point ELSE wPoint[v]
  BY ReceiveFacts DEF Moves, Received
<1>2. CASE w # v
  <2>1. mw'[w] = mw[w] /\ wPoint'[w] = wPoint[w]
    BY <1>2, ReceiveFacts
  <2> HIDE DEF n, u
  <2> QED BY <1>0, <2>1 DEF Tracks, Moves
<1> HIDE DEF u
<1>3. CASE wPoint[v] = saved /\ \A i \in 1 .. n : ~Moves(mw[v][i])
  <2>1. ~Moves(u)
    BY <1>0, <1>3 DEF u
  <2>2. \A i \in 1 .. Len(mw'[v]) : ~Moves(mw'[v][i])
    BY <1>0, <1>3
  <2>3. wPoint'[v] = saved'
    BY <1>0, <1>1, <1>3, <2>1
  <2> HIDE DEF n
  <2> QED BY <1>2, <2>2, <2>3 DEF Tracks, Moves
<1>4. ASSUME NEW i \in 1 .. n, Moves(mw[v][i]), mw[v][i].point = saved, \A j \in (i + 1) .. n : ~Moves(mw[v][j])
      PROVE  Tracks(v)'
  <2> HIDE DEF n
  <2>1. CASE i = 1
    <3>1. wPoint'[v] = saved'
      BY <1>0, <1>1, <1>4, <2>1 DEF u
    <3>2. \A j \in 1 .. n - 1 : j + 1 \in (i + 1) .. n
      BY <1>0, <2>1
    <3>3. \A j \in 1 .. Len(mw'[v]) : ~Moves(mw'[v][j])
      BY <1>0, <1>4, <3>2
    <3> QED BY <3>1, <3>3 DEF Tracks, Moves
  <2>2. CASE i # 1
    <3>1. i - 1 \in 1 .. n - 1 /\ (i - 1) + 1 = i
      BY <1>0, <2>2
    <3>2. mw'[v][i - 1] = mw[v][i]
      BY <1>0, <3>1
    <3>3. \A j \in ((i - 1) + 1) .. n - 1 : j \in 1 .. n - 1 /\ j + 1 \in (i + 1) .. n
      BY <1>0
    <3>4. \A j \in ((i - 1) + 1) .. n - 1 : ~Moves(mw'[v][j])
      BY <1>0, <1>4, <3>3
    <3>5. /\ i - 1 \in 1 .. Len(mw'[v]) /\ Moves(mw'[v][i - 1]) /\ mw'[v][i - 1].point = saved'
          /\ \A j \in ((i - 1) + 1) .. Len(mw'[v]) : ~Moves(mw'[v][j])
      BY <1>0, <1>4, <3>1, <3>2, <3>4
    <3> QED BY <3>5 DEF Tracks, Moves
  <2> QED BY <2>1, <2>2
<1> QED BY <1>2, <1>3, <1>4 DEF Tracks, n

-----------------------------------------------------------------------------
(* What an addition to the channels does *)

\* Parameters under a new state are last in their channel's order.
LEMMA AppendStates ==
    ASSUME TypeOK, NEW u \in Update, Publish(u), stateId' \in Nat, stateId <= stateId',
           u.mode = "parameters" => stateId < u.state /\ u.state <= stateId',
           NEW w \in Workers, wState'[w] \in Nat, wState'[w] <= stateId,
           \A i \in 1 .. Len(mw[w]) :
              mw[w][i].mode = "parameters" =>
                  /\ wState'[w] < mw[w][i].state /\ mw[w][i].state <= stateId
                  /\ \A j \in (i + 1) .. Len(mw[w]) :
                        mw[w][j].mode = "parameters" => mw[w][i].state < mw[w][j].state
    PROVE  /\ wState'[w] <= stateId'
           /\ \A i \in 1 .. Len(mw'[w]) :
                 mw'[w][i].mode = "parameters" =>
                     /\ wState'[w] < mw'[w][i].state /\ mw'[w][i].state <= stateId'
                     /\ \A j \in (i + 1) .. Len(mw'[w]) :
                           mw'[w][j].mode = "parameters" => mw'[w][i].state < mw'[w][j].state
<1> DEFINE n == Len(mw[w])
<1>1. /\ n \in Nat /\ Len(mw'[w]) = n + 1 /\ mw'[w][n + 1] = u
      /\ \A i \in 1 .. n : mw'[w][i] = mw[w][i]
  BY PublishFacts DEF TypeOK
<1>2. stateId \in Nat /\ (u.mode = "parameters" => u.state \in Nat)
  BY DEF TypeOK, Update
<1>3. \A i \in 1 .. n : mw[w][i].mode = "parameters" => mw[w][i].state \in Nat
  BY DEF TypeOK, Update
<1>4. wState'[w] <= stateId'
  BY <1>2
<1>5. ASSUME NEW i \in 1 .. n, mw'[w][i].mode = "parameters"
      PROVE  /\ wState'[w] < mw'[w][i].state /\ mw'[w][i].state <= stateId'
             /\ \A j \in (i + 1) .. n + 1 : mw'[w][j].mode = "parameters" => mw'[w][i].state < mw'[w][j].state
  <2>1. mw'[w][i] = mw[w][i] /\ mw[w][i].state \in Nat /\ mw[w][i].state <= stateId /\ wState'[w] < mw[w][i].state
    BY <1>1, <1>3, <1>5
  <2>2. ASSUME NEW j \in (i + 1) .. n + 1, mw'[w][j].mode = "parameters" PROVE mw[w][i].state < mw'[w][j].state
    <3>1. CASE j = n + 1
      BY <1>1, <1>2, <2>1, <2>2, <3>1
    <3>2. CASE j # n + 1
      <4>1. j \in (i + 1) .. n /\ j \in 1 .. n
        BY <1>1, <3>2
      <4> QED BY <1>1, <2>1, <2>2, <1>5, <4>1
    <3> QED BY <3>1, <3>2
  <2> QED BY <1>2, <2>1, <2>2
<1>6. CASE u.mode = "parameters"
  <2>1. wState'[w] < u.state /\ u.state <= stateId'
    BY <1>2, <1>6
  <2>2. \A j \in ((n + 1) + 1) .. n + 1 : FALSE
    BY <1>1
  <2>3. \A i \in 1 .. n + 1 : i = n + 1 \/ i \in 1 .. n
    BY <1>1
  <2> HIDE DEF n
  <2> QED BY <1>1, <1>4, <1>5, <2>1, <2>2, <2>3
<1>7. CASE u.mode # "parameters"
  <2>3. \A i \in 1 .. n + 1 : i = n + 1 \/ i \in 1 .. n
    BY <1>1
  <2> HIDE DEF n
  <2> QED BY <1>1, <1>4, <1>5, <1>7, <2>3
<1> QED BY <1>6, <1>7

\* An update without parameters' values changes nothing for those.
LEMMA AppendTracks ==
    ASSUME mw \in [Workers -> Seq(Update)], NEW u \in Update, Publish(u), ~Moves(u),
           NEW w \in Workers, Tracks(w), wPoint'[w] = wPoint[w], saved' = saved
    PROVE  Tracks(w)'
<1> DEFINE n == Len(mw[w])
<1>1. /\ n \in Nat /\ Len(mw'[w]) = n + 1 /\ mw'[w][n + 1] = u
      /\ \A i \in 1 .. n : mw'[w][i] = mw[w][i]
  BY PublishFacts
<1> HIDE DEF n
<1>2. \A i \in 1 .. n + 1 : i = n + 1 \/ i \in 1 .. n
  BY <1>1
<1>3. CASE wPoint[w] = saved /\ \A i \in 1 .. n : ~Moves(mw[w][i])
  <2>1. \A i \in 1 .. Len(mw'[w]) : ~Moves(mw'[w][i])
    BY <1>1, <1>2, <1>3
  <2> QED BY <1>3, <2>1 DEF Tracks, Moves
<1>4. ASSUME NEW i \in 1 .. n, Moves(mw[w][i]), mw[w][i].point = saved, \A j \in (i + 1) .. n : ~Moves(mw[w][j])
      PROVE  Tracks(w)'
  <2>1. i \in 1 .. Len(mw'[w]) /\ Moves(mw'[w][i]) /\ mw'[w][i].point = saved'
    BY <1>1, <1>4
  <2>2. \A j \in (i + 1) .. Len(mw'[w]) : ~Moves(mw'[w][j])
    <3>1. \A j \in (i + 1) .. n + 1 : j = n + 1 \/ (j \in (i + 1) .. n /\ j \in 1 .. n)
      BY <1>1
    <3> QED BY <1>1, <1>4, <3>1
  <2> QED BY <2>1, <2>2 DEF Tracks, Moves
<1> QED BY <1>3, <1>4 DEF Tracks, n

\* An update with the values that are now the last sent settles the matter.
LEMMA NewTracks ==
    ASSUME mw \in [Workers -> Seq(Update)], NEW u \in Update, Publish(u), Moves(u), u.point = saved',
           NEW w \in Workers
    PROVE  Tracks(w)'
<1>1. /\ Len(mw[w]) \in Nat /\ Len(mw'[w]) = Len(mw[w]) + 1 /\ mw'[w][Len(mw[w]) + 1] = u
  BY PublishFacts
<1>2. /\ Len(mw'[w]) \in 1 .. Len(mw'[w]) /\ mw'[w][Len(mw'[w])] = u
      /\ \A j \in (Len(mw'[w]) + 1) .. Len(mw'[w]) : FALSE
  BY <1>1
<1> QED BY <1>2 DEF Tracks, Moves

\* Where every update with offsets in a channel comes after the flag, one more does.
LEMMA AppendFlags ==
    ASSUME mw \in [Workers -> Seq(Update)], NEW u \in Update, Publish(u), NEW w \in Workers,
           \A i \in 1 .. Len(mw[w]) : Carries(mw[w][i]) => wDoOffset'[w] \/ \E j \in 1 .. (i - 1) : Flags(mw[w][j]),
           Carries(u) => wDoOffset'[w] \/ \E j \in 1 .. Len(mw[w]) : Flags(mw[w][j])
    PROVE  \A i \in 1 .. Len(mw'[w]) :
              Carries(mw'[w][i]) => wDoOffset'[w] \/ \E j \in 1 .. (i - 1) : Flags(mw'[w][j])
<1> DEFINE n == Len(mw[w])
<1>1. /\ n \in Nat /\ Len(mw'[w]) = n + 1 /\ mw'[w][n + 1] = u
      /\ \A i \in 1 .. n : mw'[w][i] = mw[w][i]
  BY PublishFacts
<1> HIDE DEF n
<1> SUFFICES ASSUME NEW i \in 1 .. n + 1, Carries(mw'[w][i]), ~wDoOffset'[w]
             PROVE  \E j \in 1 .. (i - 1) : Flags(mw'[w][j])
  BY <1>1
<1>2. CASE i = n + 1
  <2>1. PICK j \in 1 .. n : Flags(mw[w][j])
    BY <1>1, <1>2 DEF n
  <2>2. j \in 1 .. (i - 1) /\ mw'[w][j] = mw[w][j]
    BY <1>1, <1>2
  <2> QED BY <2>1, <2>2
<1>3. CASE i # n + 1
  <2>1. i \in 1 .. n /\ mw'[w][i] = mw[w][i]
    BY <1>1, <1>3
  <2>2. PICK j \in 1 .. (i - 1) : Flags(mw[w][j])
    BY <2>1 DEF n
  <2>3. j \in 1 .. n /\ mw'[w][j] = mw[w][j]
    BY <1>1, <2>1
  <2> QED BY <2>2, <2>3
<1> QED BY <1>2, <1>3

-----------------------------------------------------------------------------
(* The start of an evaluation *)

\* What it does to the master's variables, and what it may send.
LEMMA StartMaster ==
    ASSUME TypeOK, FollowInv, StartEvaluate
    PROVE  /\ ~evaluating /\ evaluating' /\ forked' /\ offsets' = OffsetsToUse /\ saved' = point /\ todo' = Tasks
           /\ UNCHANGED <<doOffset, point, results, value>>
           /\ \E u \in Update :
                 /\ u.mode = "parameters" /\ u.state = stateId + 1
                 /\ (Moves(u) <=> point # saved) /\ (Moves(u) => u.point = point)
                 /\ Carries(u) => doOffset
                 /\ \/ Publish(u) /\ stateId' = stateId + 1
                    \/ mw' = mw /\ stateId' = stateId /\ point = saved
<1> DEFINE new == OffsetsToUse
           u == [mode |-> "parameters", state |-> stateId + 1,
                 point |-> IF point # saved THEN point ELSE NoPoint,
                 offsets |-> IF SendOffsets(new) THEN new ELSE NotSent]
<1>1. /\ ~evaluating /\ evaluating' /\ forked' /\ offsets' = new /\ UpdateWorkers(new) /\ todo' = Tasks
      /\ UNCHANGED <<doOffset, point, results, value>>
  BY DEF StartEvaluate
<1>2. new \in Offsets /\ point \in Points /\ saved \in Points /\ stateId \in Nat
  BY OffsetsToUseType DEF TypeOK
<1>3. u \in Update /\ u.mode = "parameters" /\ u.state = stateId + 1
      /\ u.point = (IF point # saved THEN point ELSE NoPoint)
      /\ (~SendOffsets(new) => u.offsets = NotSent)
  BY <1>2 DEF Update
<1>4. (Moves(u) <=> point # saved) /\ (Moves(u) => u.point = point) /\ (Carries(u) => doOffset)
  <2> HIDE DEF u
  <2> QED BY <1>2, <1>3, OffsetsAssumption DEF Moves, Carries, SendOffsets
<1>5. CASE point # saved \/ SendOffsets(new)
  <2>1. Publish(u) /\ stateId' = stateId + 1 /\ saved' = point
    BY <1>1, <1>5 DEF UpdateWorkers
  <2> HIDE DEF u, new
  <2> QED BY <1>1, <1>3, <1>4, <2>1 DEF new
<1>6. CASE ~(point # saved \/ SendOffsets(new))
  <2>1. mw' = mw /\ stateId' = stateId /\ point = saved /\ saved' = point
    BY <1>1, <1>6 DEF UpdateWorkers
  <2> HIDE DEF u, new
  <2> QED BY <1>1, <1>3, <1>4, <2>1 DEF new
<1> QED BY <1>5, <1>6

\* What it does to a worker's: nothing, or the worker is a copy of the master.
LEMMA StartWorker ==
    ASSUME TypeOK, FollowInv, StartEvaluate, NEW w \in Workers
    PROVE  \/ /\ forked
              /\ wState'[w] = wState[w] /\ wPoint'[w] = wPoint[w]
              /\ wOffsets'[w] = wOffsets[w] /\ wDoOffset'[w] = wDoOffset[w]
           \/ /\ ~forked /\ mw[w] = <<>>
              /\ wState'[w] = stateId /\ wPoint'[w] = point
              /\ wOffsets'[w] = NoOffset /\ wDoOffset'[w] = doOffset
<1>1. Fork
  BY DEF StartEvaluate
<1>2. CASE forked
  BY <1>1, <1>2 DEF Fork
<1>3. CASE ~forked
  BY <1>1, <1>3 DEF Fork, FollowInv, BeforeFork
<1> QED BY <1>2, <1>3

LEMMA StartStates ==
    ASSUME TypeOK, FollowInv, StatesInv, StartEvaluate
    PROVE  StatesInv'
<1>1. PICK u \in Update :
         /\ u.mode = "parameters" /\ u.state = stateId + 1
         /\ \/ Publish(u) /\ stateId' = stateId + 1
            \/ mw' = mw /\ stateId' = stateId
  BY StartMaster
<1>2. stateId \in Nat /\ wState \in [Workers -> Nat]
  BY DEF TypeOK
<1>3. ASSUME NEW w \in Workers
      PROVE  /\ wState'[w] \in Nat /\ wState'[w] <= stateId
             /\ \A i \in 1 .. Len(mw[w]) :
                   mw[w][i].mode = "parameters" =>
                       /\ wState'[w] < mw[w][i].state /\ mw[w][i].state <= stateId
                       /\ \A j \in (i + 1) .. Len(mw[w]) :
                             mw[w][j].mode = "parameters" => mw[w][i].state < mw[w][j].state
  <2>1. CASE wState'[w] = wState[w]
    BY <1>2, <2>1 DEF StatesInv
  <2>2. CASE mw[w] = <<>> /\ wState'[w] = stateId
    BY <1>2, <2>2
  <2> QED BY <2>1, <2>2, StartWorker
<1>4. CASE Publish(u) /\ stateId' = stateId + 1
  <2>1. stateId' \in Nat /\ stateId <= stateId' /\ stateId < u.state /\ u.state <= stateId'
    BY <1>1, <1>2, <1>4
  <2> QED BY <1>1, <1>3, <1>4, <2>1, AppendStates DEF StatesInv
<1>5. CASE mw' = mw /\ stateId' = stateId
  BY <1>3, <1>5 DEF StatesInv
<1> QED BY <1>1, <1>4, <1>5

LEMMA StartTracks ==
    ASSUME TypeOK, FollowInv, StartEvaluate, NEW w \in Workers, forked => Tracks(w)
    PROVE  Tracks(w)'
<1>1. saved' = point /\ mw \in [Workers -> Seq(Update)]
  BY StartMaster DEF TypeOK
<1>2. PICK u \in Update :
         /\ (Moves(u) <=> point # saved) /\ (Moves(u) => u.point = point)
         /\ Publish(u) \/ (mw' = mw /\ point = saved)
  BY StartMaster, Zenon
<1>3. CASE point # saved
  BY <1>1, <1>2, <1>3, NewTracks
<1>4. CASE point = saved
  <2>1. (wPoint'[w] = wPoint[w] /\ Tracks(w)) \/ (mw[w] = <<>> /\ wPoint'[w] = saved)
    <3>1. (forked /\ wPoint'[w] = wPoint[w]) \/ (mw[w] = <<>> /\ wPoint'[w] = point)
      BY StartWorker, Zenon
    <3> QED BY <1>4, <3>1
  <2>2. CASE wPoint'[w] = wPoint[w] /\ Tracks(w) /\ mw' = mw
    BY <1>1, <1>4, <2>2 DEF Tracks, Moves
  <2>3. CASE wPoint'[w] = wPoint[w] /\ Tracks(w) /\ Publish(u)
    BY <1>1, <1>2, <1>4, <2>3, AppendTracks
  <2>4. CASE mw[w] = <<>> /\ wPoint'[w] = saved /\ mw' = mw
    BY <1>1, <1>4, <2>4 DEF Tracks, Moves
  <2>5. CASE mw[w] = <<>> /\ wPoint'[w] = saved /\ Publish(u)
    <3>1. Len(mw[w]) = 0
      BY <2>5
    <3>2. Len(mw'[w]) = 1 /\ mw'[w][1] = u
      <4>1. Len(mw'[w]) = Len(mw[w]) + 1 /\ mw'[w][Len(mw[w]) + 1] = u
        BY <1>1, <2>5, PublishFacts
      <4> QED BY <3>1, <4>1
    <3>3. \A i \in 1 .. Len(mw'[w]) : ~Moves(mw'[w][i])
      BY <1>2, <1>4, <3>2
    <3> QED BY <1>1, <1>4, <2>5, <3>3 DEF Tracks, Moves
  <2> QED BY <1>2, <2>1, <2>2, <2>3, <2>4, <2>5
<1> QED BY <1>3, <1>4

LEMMA StartFlags ==
    ASSUME TypeOK, FollowInv, FlagInv, StartEvaluate
    PROVE  FlagInv'
<1>1. doOffset' = doOffset /\ mw \in [Workers -> Seq(Update)]
  BY StartMaster DEF TypeOK
<1>2. PICK u \in Update : u.mode = "parameters" /\ (Carries(u) => doOffset) /\ (Publish(u) \/ mw' = mw)
  BY StartMaster
<1>3. ~Flags(u)
  BY <1>2 DEF Flags
<1> SUFFICES ASSUME NEW w \in Workers
             PROVE  /\ wOffsets'[w] # NoOffset => wDoOffset'[w]
                    /\ \A i \in 1 .. Len(mw'[w]) :
                          Carries(mw'[w][i]) => wDoOffset'[w] \/ \E j \in 1 .. (i - 1) : Flags(mw'[w][j])
                    /\ IF doOffset THEN wDoOffset'[w] \/ \E i \in 1 .. Len(mw'[w]) : Flags(mw'[w][i])
                                   ELSE ~wDoOffset'[w] /\ \A i \in 1 .. Len(mw'[w]) : ~Flags(mw'[w][i])
  BY <1>1 DEF FlagInv, Carries, Flags
<1>4. /\ wOffsets'[w] # NoOffset => wDoOffset'[w]
      /\ \A i \in 1 .. Len(mw[w]) : Carries(mw[w][i]) => wDoOffset'[w] \/ \E j \in 1 .. (i - 1) : Flags(mw[w][j])
      /\ IF doOffset THEN wDoOffset'[w] \/ \E i \in 1 .. Len(mw[w]) : Flags(mw[w][i])
                     ELSE ~wDoOffset'[w] /\ \A i \in 1 .. Len(mw[w]) : ~Flags(mw[w][i])
  <2>1. CASE forked /\ wOffsets'[w] = wOffsets[w] /\ wDoOffset'[w] = wDoOffset[w]
    BY <2>1 DEF FlagInv
  <2>2. CASE mw[w] = <<>> /\ wOffsets'[w] = NoOffset /\ wDoOffset'[w] = doOffset
    BY <2>2
  <2> QED BY <2>1, <2>2, StartWorker
<1>5. CASE Publish(u)
  <2>1. \A i \in 1 .. Len(mw'[w]) : Carries(mw'[w][i]) => wDoOffset'[w] \/ \E j \in 1 .. (i - 1) : Flags(mw'[w][j])
    <3>1. Carries(u) => wDoOffset'[w] \/ \E j \in 1 .. Len(mw[w]) : Flags(mw[w][j])
      BY <1>2, <1>4
    <3> QED BY <1>1, <1>4, <1>5, <3>1, AppendFlags
  <2>2. /\ Len(mw[w]) \in Nat /\ Len(mw'[w]) = Len(mw[w]) + 1 /\ mw'[w][Len(mw[w]) + 1] = u
        /\ \A i \in 1 .. Len(mw[w]) : mw'[w][i] = mw[w][i]
    BY <1>1, <1>5, PublishFacts
  <2>3. /\ \A i \in 1 .. Len(mw'[w]) : i = Len(mw[w]) + 1 \/ i \in 1 .. Len(mw[w])
        /\ \A i \in 1 .. Len(mw[w]) : i \in 1 .. Len(mw'[w])
    BY <2>2
  <2>4. (\E i \in 1 .. Len(mw'[w]) : Flags(mw'[w][i])) <=> \E i \in 1 .. Len(mw[w]) : Flags(mw[w][i])
    BY <1>3, <2>2, <2>3
  <2> QED BY <1>4, <2>1, <2>4
<1>6. CASE mw' = mw
  BY <1>4, <1>6
<1> QED BY <1>2, <1>5, <1>6

LEMMA StartEvaluation ==
    ASSUME TypeOK, FollowInv, EvaluationInv, StartEvaluate
    PROVE  EvaluationInv'
<1>1. /\ ~evaluating /\ evaluating' /\ saved' = point' /\ todo' = Tasks /\ results' = results
      /\ doOffset' = doOffset /\ offsets' = OffsetsToUse
  BY StartMaster
<1>2. results' = {} /\ Tasks \ todo' = {}
  BY <1>1 DEF EvaluationInv
<1>3. doOffset' => offsets' # NoOffset
  BY <1>1, OffsetsToUseType, OffsetsAssumption
<1> QED BY <1>1, <1>2, <1>3 DEF EvaluationInv

-----------------------------------------------------------------------------
(* The other steps *)

\* Switching offsetting tells the workers, if there are any, that it is on.
LEMMA EnableSerialInv ==
    ASSUME ~DisableAfterFork, TypeOK, FollowInv, SerialInv, NEW flag \in BOOLEAN, EnableOffsetting(flag)
    PROVE  SerialInv'
<1> DEFINE u == [mode |-> "offsetting", flag |-> flag]
<1>1. /\ ~evaluating /\ evaluating' = evaluating /\ (forked => flag) /\ doOffset' = flag
      /\ UNCHANGED <<saved, stateId, forked, todo, results, wDoOffset, wOffsets, wPoint, wState>>
      /\ IF forked THEN Publish(u) ELSE mw' = mw
  BY DEF EnableOffsetting
<1>2. u \in Update /\ u.mode = "offsetting" /\ ~Carries(u) /\ ~Moves(u) /\ Flags(u)
  BY DEF Update, Carries, Moves, Flags
<1> HIDE DEF u
<1>3. mw \in [Workers -> Seq(Update)] /\ wState \in [Workers -> Nat] /\ stateId \in Nat
  BY DEF TypeOK
<1>4. EvaluationInv'
  BY <1>1 DEF SerialInv, EvaluationInv
<1>5. CASE forked
  <2>1. Publish(u) /\ flag
    BY <1>1, <1>5
  <2>2. StatesInv'
    <3>1. stateId' \in Nat /\ stateId <= stateId' /\ u.mode # "parameters"
      BY <1>1, <1>2, <1>3
    <3> SUFFICES ASSUME NEW w \in Workers
                 PROVE  /\ wState'[w] <= stateId'
                        /\ \A i \in 1 .. Len(mw'[w]) :
                              mw'[w][i].mode = "parameters" =>
                                  /\ wState'[w] < mw'[w][i].state /\ mw'[w][i].state <= stateId'
                                  /\ \A j \in (i + 1) .. Len(mw'[w]) :
                                        mw'[w][j].mode = "parameters" => mw'[w][i].state < mw'[w][j].state
      BY DEF StatesInv
    <3>2. wState'[w] = wState[w] /\ wState[w] \in Nat
      BY <1>1, <1>3
    <3>3. /\ wState'[w] <= stateId
          /\ \A i \in 1 .. Len(mw[w]) :
                mw[w][i].mode = "parameters" =>
                    /\ wState'[w] < mw[w][i].state /\ mw[w][i].state <= stateId
                    /\ \A j \in (i + 1) .. Len(mw[w]) :
                          mw[w][j].mode = "parameters" => mw[w][i].state < mw[w][j].state
      BY <3>2 DEF SerialInv, StatesInv
    <3> QED BY <1>2, <2>1, <3>1, <3>2, <3>3, AppendStates
  <2>3. ASSUME NEW w \in Workers PROVE Tracks(w)'
    BY <1>1, <1>2, <1>3, <1>5, <2>1, AppendTracks DEF SerialInv
  <2>4. ASSUME NEW w \in Workers
        PROVE  /\ wOffsets'[w] # NoOffset => wDoOffset'[w]
               /\ \A i \in 1 .. Len(mw'[w]) :
                     Carries(mw'[w][i]) => wDoOffset'[w] \/ \E j \in 1 .. (i - 1) : Flags(mw'[w][j])
               /\ \E i \in 1 .. Len(mw'[w]) : Flags(mw'[w][i])
    <3>1. \A i \in 1 .. Len(mw[w]) : Carries(mw[w][i]) => wDoOffset'[w] \/ \E j \in 1 .. (i - 1) : Flags(mw[w][j])
      BY <1>1 DEF SerialInv, FlagInv
    <3>2. \A i \in 1 .. Len(mw'[w]) : Carries(mw'[w][i]) => wDoOffset'[w] \/ \E j \in 1 .. (i - 1) : Flags(mw'[w][j])
      BY <1>2, <1>3, <2>1, <3>1, AppendFlags
    <3>3. Len(mw[w]) \in Nat /\ Len(mw'[w]) = Len(mw[w]) + 1 /\ mw'[w][Len(mw[w]) + 1] = u
      BY <1>2, <1>3, <2>1, PublishFacts
    <3>4. Len(mw[w]) + 1 \in 1 .. Len(mw'[w]) /\ Flags(mw'[w][Len(mw[w]) + 1])
      BY <1>2, <3>3
    <3>5. wOffsets'[w] # NoOffset => wDoOffset'[w]
      BY <1>1 DEF SerialInv, FlagInv
    <3> QED BY <3>2, <3>4, <3>5
  <2>5. FlagInv'
    BY <1>1, <2>1, <2>4 DEF FlagInv, Carries, Flags
  <2> QED BY <1>4, <2>2, <2>3, <2>5 DEF SerialInv
<1>6. CASE ~forked
  <2>1. mw' = mw
    BY <1>1, <1>6
  <2>2. StatesInv'
    BY <1>1, <2>1 DEF SerialInv, StatesInv
  <2>3. FlagInv'
    BY <1>1, <1>6, <2>1 DEF SerialInv, FlagInv, Carries, Flags
  <2> QED BY <1>1, <1>4, <1>6, <2>2, <2>3 DEF SerialInv
<1> QED BY <1>5, <1>6

\* A worker that evaluates a task has the parameters, the offsets and the flag of
\* the master: no parameters of this or an earlier evaluation are on their way to it.
LEMMA TaskInState ==
    ASSUME TypeOK, FollowInv, SerialInv, NEW w \in Workers, InTaskState(w), evaluating
    PROVE  /\ wPoint[w] = point /\ wDoOffset[w] = doOffset
           /\ doOffset => wOffsets[w] = offsets /\ offsets # NoOffset
<1>0. /\ mw[w] \in Seq(Update) /\ stateId \in Nat /\ wState[w] = stateId
      /\ doOffset \in BOOLEAN /\ wDoOffset[w] \in BOOLEAN
  BY DEF TypeOK, InTaskState
<1>1. \A i \in 1 .. Len(mw[w]) : mw[w][i].mode # "parameters"
  <2> SUFFICES ASSUME NEW i \in 1 .. Len(mw[w]), mw[w][i].mode = "parameters" PROVE FALSE
    OBVIOUS
  <2>1. mw[w][i] \in Update
    BY <1>0
  <2>2. mw[w][i].state \in Nat
    BY <2>1 DEF Update
  <2>3. wState[w] < mw[w][i].state /\ mw[w][i].state <= stateId
    BY DEF SerialInv, StatesInv
  <2> QED BY <1>0, <2>2, <2>3
<1>2. forked /\ saved = point /\ (doOffset => offsets # NoOffset /\ previous = offsets)
  BY DEF FollowInv, BeforeFork, SerialInv, EvaluationInv
<1>3. wPoint[w] = point
  BY <1>1, <1>2 DEF SerialInv, Tracks, Moves
<1>4. wOffsets[w] = previous
  BY <1>1 DEF FollowInv, Follows, Carries
<1>5. doOffset => wDoOffset[w]
  BY <1>2, <1>4 DEF SerialInv, FlagInv
<1>6. ~doOffset => ~wDoOffset[w]
  BY <1>2 DEF SerialInv, FlagInv
<1> QED BY <1>0, <1>2, <1>3, <1>4, <1>5, <1>6

LEMMA TaskEvaluation ==
    ASSUME TypeOK, FollowInv, SerialInv, NEW w \in Workers, NEW task \in Tasks, EvaluateTask(w, task)
    PROVE  EvaluationInv'
<1>1. /\ task \in todo /\ InTaskState(w) /\ todo' = todo \ {task} /\ UNCHANGED masterVars
      /\ results' = results \cup
            {[task |-> task, point |-> wPoint[w], flag |-> wDoOffset[w], offset |-> OffsetOf(w, task)]}
  BY DEF EvaluateTask
<1>2. evaluating /\ todo \subseteq Tasks /\ results = {ResultOf(t) : t \in Tasks \ todo}
  BY <1>1 DEF SerialInv, EvaluationInv, TypeOK
<1>3. /\ wPoint[w] = point /\ wDoOffset[w] = doOffset
      /\ doOffset => wOffsets[w] = offsets /\ offsets # NoOffset
  BY <1>1, <1>2, TaskInState
<1>4. OffsetOf(w, task) = IF HasOffset(task) THEN offsets ELSE NoOffset
  BY <1>3 DEF OffsetOf, HasOffset, SerialMode
<1>5. results' = results \cup {ResultOf(task)}
  BY <1>1, <1>3, <1>4 DEF ResultOf
<1>6. results' = {ResultOf(t) : t \in Tasks \ todo'}
  BY <1>1, <1>2, <1>5
<1>7. \A t \in Tasks : ResultOf(t)' = ResultOf(t)
  BY <1>1 DEF ResultOf, HasOffset, LastSection
<1> QED BY <1>1, <1>2, <1>6, <1>7 DEF SerialInv, EvaluationInv

-----------------------------------------------------------------------------
(* The sum of the results *)

LEMMA TasksFinite == IsFiniteSet(Tasks) /\ Tasks \subseteq Nat
<1>1. NEventTasks \in Nat /\ NComponentTasks \in Nat
  BY OffsetsAssumption
<1>2. NEventTasks * NComponentTasks - 1 \in Int
  BY <1>1
<1> QED BY <1>2, FS_Interval DEF Tasks

\* As many results as there are tasks: each task has its result.
LEMMA AllEvaluated ==
    ASSUME TypeOK, EvaluationInv, evaluating, Cardinality(results) = Cardinality(Tasks)
    PROVE  todo = {} /\ results = {ResultOf(task) : task \in Tasks}
<1> DEFINE Done == Tasks \ todo
           f == [task \in Done |-> ResultOf(task)]
<1>1. IsFiniteSet(Tasks) /\ Done \in SUBSET Tasks /\ todo \subseteq Tasks
  BY TasksFinite DEF TypeOK
<1>2. results = {ResultOf(task) : task \in Done}
  BY DEF EvaluationInv
<1>3. IsFiniteSet(Done) /\ Cardinality(Done) <= Cardinality(Tasks)
      /\ (Cardinality(Tasks) = Cardinality(Done) => Tasks = Done)
  BY <1>1, FS_Subset
<1>4. f \in Surjection(Done, results)
  BY <1>2 DEF Surjection
<1> HIDE DEF f, Done
<1>5. Cardinality(results) <= Cardinality(Done)
  BY <1>3, <1>4, FS_Surjection
<1>6. Cardinality(Done) \in Nat /\ Cardinality(Tasks) \in Nat
  BY <1>1, <1>3, FS_CardinalityType
<1>7. Tasks = Done
  BY <1>3, <1>5, <1>6
<1> QED BY <1>1, <1>2, <1>7 DEF Done

\* The last event section of a component: a task, the only one of them.
LEMMA LastOfComponent ==
    ASSUME NEW c \in Components
    PROVE  \E last \in Tasks :
              /\ last \div NEventTasks = c
              /\ \A task \in Tasks : task \div NEventTasks = c /\ LastSection(task) <=> task = last
<1> DEFINE n == NEventTasks
           m == NComponentTasks
           last == c * n + (n - 1)
<1>1. n \in Nat \ {0} /\ m \in Nat \ {0} /\ c \in 0 .. m - 1 /\ c \in Nat
  BY OffsetsAssumption DEF Components
<1> HIDE DEF n, m
<1>2. last \in 0 .. n * m - 1
  <2>1. c * n \in Nat /\ n * m \in Nat
    BY <1>1
  <2>2. (m - 1 - c) * n >= 0
    BY <1>1
  <2>3. (m - 1 - c) * n = n * m - n - c * n
    BY <1>1
  <2> QED BY <1>1, <2>1, <2>2, <2>3
<1>3. last \div n = c /\ last % n = n - 1
  BY <1>1
<1>4. ASSUME NEW task \in Nat, task \div n = c, task % n = n - 1 PROVE task = last
  <2>1. task = (task \div n) * n + (task % n)
    BY <1>1
  <2> QED BY <1>4, <2>1
<1> HIDE DEF last
<1> QED BY <1>2, <1>3, <1>4, TasksFinite DEF LastSection, Tasks, n, m

\* The sum is what one process would have: each component's value is of the
\* master's point, and its offset was subtracted once, in the last event section.
LEMMA SumIsSerial ==
    ASSUME results = {ResultOf(task) : task \in Tasks}, doOffset \in BOOLEAN, doOffset => offsets # NoOffset
    PROVE  Sum(results) = [c \in Components |-> Serial!ValueAt(point, Serial!OffsetOf(c))]
<1> DEFINE Of(c) == {r \in results : r.task \div NEventTasks = c}
           Subtracting(c) == {r \in Of(c) : r.offset # NoOffset}
           offset(c) == Serial!OffsetOf(c)
<1>1. ASSUME NEW c \in Components
      PROVE  /\ {r.point : r \in Of(c)} = {point}
             /\ {r.offset : r \in Subtracting(c)} = {offset(c)} \ {NoOffset}
             /\ Cardinality(Subtracting(c)) = IF offset(c) = NoOffset THEN 0 ELSE 1
  <2>1. PICK last \in Tasks :
              /\ last \div NEventTasks = c
              /\ \A task \in Tasks : task \div NEventTasks = c /\ LastSection(task) <=> task = last
    BY LastOfComponent
  <2>2. \A task \in Tasks :
           /\ ResultOf(task).task = task /\ ResultOf(task).point = point
           /\ ResultOf(task).offset = IF HasOffset(task) THEN offsets ELSE NoOffset
    BY DEF ResultOf, HasOffset
  <2>3. ResultOf(last) \in Of(c) /\ \A r \in Of(c) : r.point = point
    BY <2>1, <2>2
  <2>4. {r.point : r \in Of(c)} = {point}
    <3> HIDE DEF Of
    <3> QED BY <2>2, <2>3
  <2>0. offset(c) = IF doOffset /\ c \notin Subsidiary THEN offsets ELSE NoOffset
    BY DEF Serial!OffsetOf, SerialMode
  <2>5. CASE doOffset /\ c \notin Subsidiary
    <3>1. Subtracting(c) = {ResultOf(last)} /\ ResultOf(last).offset = offsets
      <4>1. \A r \in Subtracting(c) : r = ResultOf(last)
        BY <2>1, <2>2 DEF HasOffset
      <4>2. ResultOf(last).offset = offsets /\ offsets # NoOffset
        BY <2>1, <2>2, <2>5 DEF HasOffset
      <4> QED BY <2>3, <4>1, <4>2
    <3> HIDE DEF Subtracting
    <3>2. Cardinality(Subtracting(c)) = 1
      BY <3>1, FS_Singleton
    <3>3. {r.offset : r \in Subtracting(c)} = {offset(c)} \ {NoOffset} /\ offset(c) # NoOffset
      BY <2>0, <2>5, <3>1
    <3> QED BY <2>4, <3>2, <3>3
  <2>6. CASE ~(doOffset /\ c \notin Subsidiary)
    <3>1. Subtracting(c) = {}
      BY <2>2, <2>6 DEF HasOffset
    <3> HIDE DEF Subtracting
    <3>2. Cardinality(Subtracting(c)) = 0
      BY <3>1, FS_EmptySet
    <3> QED BY <2>0, <2>4, <2>6, <3>1, <3>2
  <2> QED BY <2>5, <2>6
<1>2. Sum(results) =
         [c \in Components |-> [points |-> {r.point : r \in Of(c)}, offsets |-> {r.offset : r \in Subtracting(c)},
                                subtractions |-> Cardinality(Subtracting(c))]]
  BY DEF Sum
<1> HIDE DEF Of, Subtracting, offset
<1>3. \A c \in Components :
         [points |-> {r.point : r \in Of(c)}, offsets |-> {r.offset : r \in Subtracting(c)},
          subtractions |-> Cardinality(Subtracting(c))]
             = Serial!ValueAt(point, offset(c))
  BY <1>1 DEF Serial!ValueAt
<1>4. Sum(results) = [c \in Components |-> Serial!ValueAt(point, offset(c))]
  BY <1>2, <1>3
<1> QED BY <1>4 DEF offset

-----------------------------------------------------------------------------
(* The refinement *)

LEMMA NextSerialInv ==
    ASSUME ~DisableAfterFork, TypeOK, FollowInv, SerialInv, [Next]_vars
    PROVE  SerialInv'
<1>1. ASSUME UNCHANGED <<saved, stateId, forked, workerVars, mw, doOffset>>, EvaluationInv' PROVE SerialInv'
  BY <1>1 DEF SerialInv, StatesInv, FlagInv, Tracks, Moves, Carries, Flags
<1>2. ASSUME NEW p \in Points, SetPoint(p) PROVE SerialInv'
  <2>1. ~evaluating /\ UNCHANGED <<doOffset, saved, stateId, forked, evaluating, workerVars, todo, results, mw>>
    BY <1>2 DEF SetPoint
  <2> QED BY <1>1, <2>1 DEF SerialInv, EvaluationInv
<1>3. CASE \E flag \in BOOLEAN : EnableOffsetting(flag)
  BY <1>3, EnableSerialInv
<1>4. CASE \E m \in Modes : SetOffsettingMode(m)
  <2>1. ~evaluating /\ UNCHANGED <<doOffset, saved, stateId, forked, evaluating, workerVars, todo, results, mw>>
    BY <1>4 DEF SetOffsettingMode
  <2> QED BY <1>1, <2>1 DEF SerialInv, EvaluationInv
<1>5. CASE StartEvaluate
  <2>1. \A w \in Workers : Tracks(w)'
    BY <1>5, StartTracks DEF SerialInv
  <2> QED BY <1>5, <2>1, StartStates, StartFlags, StartEvaluation DEF SerialInv
<1>6. CASE FinishEvaluate
  <2>1. /\ evaluating /\ ~evaluating' /\ Cardinality(results) = Cardinality(Tasks) /\ results' = {} /\ todo' = todo
        /\ UNCHANGED <<saved, stateId, forked, workerVars, mw, doOffset>>
    BY <1>6 DEF FinishEvaluate
  <2>2. todo = {}
    BY <2>1, AllEvaluated DEF SerialInv
  <2> QED BY <1>1, <2>1, <2>2 DEF EvaluationInv
<1>7. ASSUME NEW v \in Workers, ReceiveUpdate(v) PROVE SerialInv'
  <2>1. EvaluationInv'
    BY <1>7, ReceiveFacts DEF SerialInv, EvaluationInv, ResultOf, HasOffset
  <2>2. forked' = forked
    BY <1>7, ReceiveFacts
  <2>3. NothingClears
    BY DEF FollowInv
  <2>4. forked => \A w \in Workers : Tracks(w)'
    BY <1>7, ReceiveTracks DEF SerialInv
  <2>5. StatesInv' /\ FlagInv'
    BY <1>7, <2>3, ReceiveStates, ReceiveFlags DEF SerialInv
  <2> QED BY <2>1, <2>2, <2>4, <2>5 DEF SerialInv
<1>8. ASSUME NEW w \in Workers, NEW task \in Tasks, EvaluateTask(w, task) PROVE SerialInv'
  <2>1. UNCHANGED <<saved, stateId, forked, workerVars, mw, doOffset>>
    BY <1>8 DEF EvaluateTask
  <2> QED BY <1>1, <1>8, <2>1, TaskEvaluation
<1>9. CASE UNCHANGED vars
  <2>1. EvaluationInv'
    BY <1>9 DEF vars, SerialInv, EvaluationInv, ResultOf, HasOffset
  <2> QED BY <1>1, <1>9, <2>1 DEF vars
<1> QED BY <1>2, <1>3, <1>4, <1>5, <1>6, <1>7, <1>8, <1>9 DEF Next

\* Each step is one of the serial likelihood, or none.
LEMMA NextSerial ==
    ASSUME TypeOK, SerialInv, [Next]_vars
    PROVE  [Serial!Next]_(Serial!vars)
<1>1. ASSUME UNCHANGED masterVars PROVE UNCHANGED Serial!vars
  BY <1>1 DEF Serial!vars
<1>2. ASSUME NEW p \in Points, SetPoint(p) PROVE Serial!Next
  BY <1>2 DEF SetPoint, Serial!SetPoint, Serial!Next
<1>3. ASSUME NEW flag \in BOOLEAN, EnableOffsetting(flag) PROVE Serial!Next
  BY <1>3 DEF EnableOffsetting, OffsetsEnabled, Serial!EnableOffsetting, Serial!Next
<1>4. CASE \E m \in Modes : SetOffsettingMode(m)
  <2>1. Serial!SetOffsettingMode("legacy")
    BY <1>4 DEF SetOffsettingMode, Serial!SetOffsettingMode, SerialMode
  <2> QED BY <2>1 DEF Serial!Next, Serial!Modes
<1>5. CASE StartEvaluate
  <2>1. ~evaluating /\ offsets' = OffsetsToUse /\ evaluating' = TRUE /\ UNCHANGED <<doOffset, point, value>>
    BY <1>5 DEF StartEvaluate
  <2> QED BY <2>1 DEF OffsetsToUse, Serial!OffsetsToUse, Serial!CalculateOffsets, Serial!Next
<1>6. CASE FinishEvaluate
  <2>1. /\ evaluating /\ Cardinality(results) = Cardinality(Tasks) /\ value' = Sum(results) /\ evaluating' = FALSE
        /\ UNCHANGED <<doOffset, offsets, point>>
    BY <1>6 DEF FinishEvaluate
  <2>2. value' = [c \in Components |-> Serial!ValueAt(point, Serial!OffsetOf(c))]
    <3>1. results = {ResultOf(task) : task \in Tasks} /\ (doOffset => offsets # NoOffset)
      BY <2>1, AllEvaluated DEF SerialInv, EvaluationInv
    <3> QED BY <2>1, <3>1, SumIsSerial DEF TypeOK
  <2>3. Serial!FinishEvaluate
    BY <2>1, <2>2 DEF Serial!FinishEvaluate
  <2> QED BY <2>3 DEF Serial!Next
<1>7. CASE \E w \in Workers : ReceiveUpdate(w)
  BY <1>1, <1>7 DEF ReceiveUpdate
<1>8. CASE \E w \in Workers, task \in Tasks : EvaluateTask(w, task)
  BY <1>1, <1>8 DEF EvaluateTask
<1>9. CASE UNCHANGED vars
  BY <1>1, <1>9 DEF vars
<1> QED BY <1>2, <1>3, <1>4, <1>5, <1>6, <1>7, <1>8, <1>9 DEF Next

\* The parallel likelihood gives the values of the serial one, for any number of
\* workers, event sections and components and in any order in which they take
\* updates and tasks, unless offsetting is switched off while workers exist.
THEOREM GivesSerialValues ==
    ASSUME ~DisableAfterFork
    PROVE  Spec => ImplementsSerial
<1>1. Init => FollowInv /\ SerialInv
  <2> SUFFICES ASSUME Init PROVE FollowInv /\ SerialInv
    OBVIOUS
  <2>1. \A w \in Workers : mw[w] = <<>> /\ wOffsets[w] = NoOffset /\ wState[w] = 0
    BY DEF Init
  <2>2. FollowInv
    BY <2>1 DEF Init, FollowInv, BeforeFork, NothingClears, Follows
  <2>3. StatesInv /\ FlagInv /\ EvaluationInv
    BY <2>1 DEF Init, StatesInv, FlagInv, EvaluationInv
  <2> QED BY <2>2, <2>3 DEF Init, SerialInv
<1>2. Init => Serial!Init
  BY DEF Init, Serial!Init, Serial!ValueAt, SerialMode
<1>3. TypeOK /\ FollowInv /\ [Next]_vars => FollowInv'
  BY NextFollowInv
<1>4. TypeOK /\ FollowInv /\ SerialInv /\ [Next]_vars => SerialInv'
  BY NextSerialInv
<1>5. TypeOK /\ SerialInv /\ [Next]_vars => [Serial!Next]_(Serial!vars)
  BY NextSerial
<1> QED BY <1>1, <1>2, <1>3, <1>4, <1>5, TypeCorrect, PTL DEF Spec, ImplementsSerial, Serial!Spec
=============================================================================
