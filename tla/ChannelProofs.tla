---------------------------- MODULE ChannelProofs ----------------------------
(***************************************************************************)
(* Proofs about Channel, for any processes, sizes and capacity: streams    *)
(* stay intact, the channels implement FrameFIFO, and a process that waits *)
(* for a frame is not stuck.                                               *)
(*                                                                         *)
(* What the frames of a stream are (Frames) and what units they consist of *)
(* (Joined) are concatenations, so both of a concatenation are             *)
(* concatenations of both. That is all the steps need: sending appends the *)
(* units of a frame, receiving removes those of the first, and all else    *)
(* moves units between the three places of a stream.                       *)
(***************************************************************************)
EXTENDS Channel, SequenceTheorems, WellFoundedInduction, TLAPS

-----------------------------------------------------------------------------
(* Concatenations *)

\* A set of natural numbers has a least element: induction, by the least number
\* for which a claim fails.
LEMMA LeastElement ==
  ASSUME NEW T \in SUBSET Nat, T # {}
  PROVE  \E x \in T : \A y \in T : x <= y
<1>1. PICK x \in T : \A y \in T : ~(<<y, x>> \in OpToRel(<, Nat))
  BY NatLessThanWellFounded, WFMin, Zenon
<1>2. \A y \in T : ~(y < x)
  BY <1>1, Zenon DEF OpToRel
<1> QED BY <1>2

\* Concatenation, as a symbol the provers do not look into.
Cat(a, b) == a \o b

LEMMA CatProperties ==
  ASSUME NEW S, NEW a \in Seq(S), NEW b \in Seq(S), NEW c \in Seq(S)
  PROVE  /\ Cat(a, b) \in Seq(S)
         /\ Cat(a, <<>>) = a /\ Cat(<<>>, a) = a
         /\ Cat(Cat(a, b), c) = Cat(a, Cat(b, c))
BY ConcatProperties, ConcatEmptySeq, ConcatAssociative, EmptySeq DEF Cat

\* join[n] is the concatenation of the first n of the sequences in parts.
IsJoin(S, parts, n, join) ==
  /\ join \in [0..n -> Seq(S)]
  /\ join[0] = <<>>
  /\ \A i \in 1..n : join[i] = Cat(join[i - 1], parts[i])

LEMMA JoinExists ==
  ASSUME NEW S, NEW parts \in Seq(Seq(S))
  PROVE  \E join : IsJoin(S, parts, Len(parts), join)
<1> DEFINE Fails == {n \in 0..Len(parts) : ~ \E join : IsJoin(S, parts, n, join)}
<1>1. SUFFICES ASSUME Fails # {}
               PROVE  FALSE
  BY LenProperties
<1>0. Len(parts) \in Nat
  BY LenProperties
<1>2. PICK n \in Fails : \A m \in Fails : n <= m
  <2>1. Fails \in SUBSET Nat
    BY <1>0
  <2> HIDE DEF Fails
  <2> QED BY <1>1, <2>1, LeastElement
<1>3. CASE n = 0
  <2>1. IsJoin(S, parts, 0, [i \in 0..0 |-> <<>>])
    BY EmptySeq DEF IsJoin
  <2> QED BY <1>2, <1>3, <2>1
<1>4. CASE n # 0
  <2>1. n \in Nat \ {0} /\ n \in 1..Len(parts) /\ n - 1 \in 0..Len(parts) /\ ~(n <= n - 1)
    BY <1>0, <1>2, <1>4
  <2>2. PICK join : IsJoin(S, parts, n - 1, join)
    BY <1>2, <2>1
  <2> DEFINE longer == [i \in 0..n |-> IF i = n THEN Cat(join[n - 1], parts[n]) ELSE join[i]]
  <2>3. parts[n] \in Seq(S) /\ join[n - 1] \in Seq(S)
    BY <2>1, <2>2, ElementOfSeq, LenProperties DEF IsJoin
  <2>4. longer \in [0..n -> Seq(S)]
    <3>1. Cat(join[n - 1], parts[n]) \in Seq(S)
      BY <2>3, CatProperties
    <3>2. \A i \in 0..n : i # n => join[i] \in Seq(S)
      BY <2>1, <2>2 DEF IsJoin
    <3> QED BY <3>1, <3>2
  <2>7. /\ \A i \in 0..n : i # n => longer[i] = join[i]
        /\ n \in 0..n => longer[n] = Cat(join[n - 1], parts[n])
    OBVIOUS
  <2> HIDE DEF longer
  <2>5. longer[0] = <<>> /\ \A i \in 1..n : longer[i] = Cat(longer[i - 1], parts[i])
    <3>1. longer[0] = <<>>
      BY <2>1, <2>2, <2>7 DEF IsJoin
    <3>2. ASSUME NEW i \in 1..n
          PROVE  longer[i] = Cat(longer[i - 1], parts[i])
      <4>1. CASE i = n
        BY <2>1, <2>7, <4>1
      <4>2. CASE i # n
        <5>1. i \in 1..(n - 1) /\ i - 1 \in 0..n /\ i - 1 # n
          BY <2>1, <4>2
        <5>2. join[i] = Cat(join[i - 1], parts[i])
          BY <2>2, <5>1 DEF IsJoin
        <5> QED BY <2>7, <4>2, <5>1, <5>2
      <4> QED BY <4>1, <4>2
    <3> QED BY <3>1, <3>2
  <2>6. IsJoin(S, parts, n, longer)
    BY <2>4, <2>5 DEF IsJoin
  <2> QED BY <1>2, <2>6
<1> QED BY <1>3, <1>4

\* The recursive definition of FlattenSeq has that solution and no other.
LEMMA FlattenSeqIsJoin ==
  ASSUME NEW S, NEW parts \in Seq(Seq(S)), NEW join, IsJoin(S, parts, Len(parts), join)
  PROVE  FlattenSeq(parts) = join[Len(parts)]
<1> DEFINE Equation(g) ==
      g = [i \in 1..Len(parts) |-> IF i = 1 THEN parts[i] ELSE Cat(g[i - 1], parts[i])]
<1> DEFINE flatten == CHOOSE g : Equation(g)
<1>0. Len(parts) \in Nat
  BY LenProperties
<1>1. CASE Len(parts) = 0
  <2>1. parts = <<>>
    BY <1>1, EmptySeq
  <2>2. join[Len(parts)] = <<>>
    BY <1>1 DEF IsJoin
  <2> QED BY <1>1, <2>1, <2>2 DEF FlattenSeq
<1>2. CASE Len(parts) # 0
  <2>1. Equation([i \in 1..Len(parts) |-> join[i]])
    <3> DEFINE g == [i \in 1..Len(parts) |-> join[i]]
    <3>0. \A i \in 1..Len(parts) : g[i] = join[i]
      OBVIOUS
    <3>4. g = [i \in 1..Len(parts) |-> g[i]]
      BY <3>0
    <3> HIDE DEF g
    <3>1. ASSUME NEW i \in 1..Len(parts)
          PROVE  g[i] = IF i = 1 THEN parts[i] ELSE Cat(g[i - 1], parts[i])
      <4>1. join[i] = Cat(join[i - 1], parts[i]) /\ join[0] = <<>>
        BY DEF IsJoin
      <4>2. parts[i] \in Seq(S)
        BY ElementOfSeq
      <4>3. CASE i = 1
        <5>1. Cat(<<>>, parts[1]) = parts[1]
          BY <4>2, <4>3, CatProperties
        <5> QED BY <3>0, <4>1, <4>3, <5>1, 1 - 1 = 0
      <4>4. CASE i # 1
        <5>1. i - 1 \in 1..Len(parts)
          BY <4>4, <1>0
        <5> QED BY <3>0, <4>1, <4>4, <5>1
      <4> QED BY <4>3, <4>4
    <3>3. [i \in 1..Len(parts) |-> g[i]]
            = [i \in 1..Len(parts) |-> IF i = 1 THEN parts[i] ELSE Cat(g[i - 1], parts[i])]
      BY <3>1
    <3> QED BY <3>3, <3>4 DEF g
  <2>2. Equation(flatten)
    BY <2>1
  <2> HIDE DEF flatten
  <2> DEFINE Differs == {i \in 1..Len(parts) : flatten[i] # join[i]}
  <2>3. Differs = {}
    <3>1. SUFFICES ASSUME Differs # {}
                   PROVE  FALSE
      OBVIOUS
    <3>2. PICK i \in Differs : \A m \in Differs : i <= m
      <4>1. Differs \in SUBSET Nat
        BY <1>0
      <4> HIDE DEF Differs
      <4> QED BY <3>1, <4>1, LeastElement
    <3>3. join[i] = Cat(join[i - 1], parts[i]) /\ join[0] = <<>> /\ parts[i] \in Seq(S)
      BY ElementOfSeq DEF IsJoin
    <3>4. flatten[i] = IF i = 1 THEN parts[i] ELSE Cat(flatten[i - 1], parts[i])
      BY <2>2
    <3>5. CASE i = 1
      <4>1. Cat(<<>>, parts[i]) = parts[i]
        BY <3>3, CatProperties
      <4>2. join[i] = parts[i] /\ flatten[i] = parts[i]
        BY <3>3, <3>4, <3>5, <4>1, 1 - 1 = 0
      <4> QED BY <3>2, <4>2
    <3>6. CASE i # 1
      <4>1. i - 1 \in 1..Len(parts) /\ ~(i <= i - 1)
        BY <1>0, <3>6
      <4>2. flatten[i - 1] = join[i - 1]
        BY <3>2, <4>1
      <4> QED BY <3>3, <3>4, <3>6, <4>2
    <3> QED BY <3>5, <3>6
  <2>4. flatten[Len(parts)] = join[Len(parts)]
    BY <1>0, <1>2, <2>3
  <2> QED BY <1>2, <2>4, Zenon DEF FlattenSeq, flatten, Cat
<1> QED BY <1>1, <1>2

\* Frames is the same concatenation, but for the way the recursion is written.
LEMMA FramesIsJoin ==
  ASSUME NEW S, NEW units, Len(units) \in Nat, NEW join,
         IsJoin(S, [i \in 1..Len(units) |-> Ended(units[i])], Len(units), join)
  PROVE  Frames(units) = join[Len(units)]
<1> DEFINE Equation(g) ==
      g = [i \in 0..Len(units) |-> IF i = 0 THEN <<>> ELSE Cat(g[i - 1], Ended(units[i]))]
<1> DEFINE ended == CHOOSE g : Equation(g)
<1> DEFINE parts == [i \in 1..Len(units) |-> Ended(units[i])]
<1>0. \A i \in 1..Len(units) : parts[i] = Ended(units[i])
  OBVIOUS
<1> HIDE DEF parts
<1>6. IsJoin(S, parts, Len(units), join)
  BY DEF parts
<1>1. /\ join = [i \in 0..Len(units) |-> join[i]] /\ join[0] = <<>>
      /\ \A i \in 1..Len(units) : join[i] = Cat(join[i - 1], Ended(units[i]))
  BY <1>0, <1>6 DEF IsJoin
<1>2. Equation(join)
  <2>1. [i \in 0..Len(units) |-> join[i]]
          = [i \in 0..Len(units) |-> IF i = 0 THEN <<>> ELSE Cat(join[i - 1], Ended(units[i]))]
    <3>1. ASSUME NEW i \in 0..Len(units)
          PROVE  join[i] = IF i = 0 THEN <<>> ELSE Cat(join[i - 1], Ended(units[i]))
      <4>1. i # 0 => i \in 1..Len(units)
        OBVIOUS
      <4> QED BY <1>1, <4>1
    <3> QED BY <3>1
  <2> QED BY <1>1, <2>1
<1>3. Equation(ended)
  BY <1>2
<1> HIDE DEF ended
<1> DEFINE Differs == {i \in 0..Len(units) : ended[i] # join[i]}
<1>4. Differs = {}
  <2>1. SUFFICES ASSUME Differs # {}
                 PROVE  FALSE
    OBVIOUS
  <2>2. PICK i \in Differs : \A m \in Differs : i <= m
    <3>1. Differs \in SUBSET Nat
      OBVIOUS
    <3> HIDE DEF Differs
    <3> QED BY <2>1, <3>1, LeastElement
  <2>3. ended[i] = IF i = 0 THEN <<>> ELSE Cat(ended[i - 1], Ended(units[i]))
    BY <1>3
  <2>4. CASE i = 0
    BY <1>1, <2>2, <2>3, <2>4
  <2>5. CASE i # 0
    <3>1. i \in 1..Len(units) /\ i - 1 \in 0..Len(units) /\ ~(i <= i - 1)
      BY <2>5
    <3>2. ended[i - 1] = join[i - 1]
      BY <2>2, <3>1
    <3> QED BY <1>1, <2>2, <2>3, <2>5, <3>1, <3>2
  <2> QED BY <2>4, <2>5
<1>5. ended[Len(units)] = join[Len(units)]
  BY <1>4
<1> QED BY <1>5, Zenon DEF Frames, ended, Cat

\* FlattenSeq of a concatenation, of one sequence, and of empty sequences.
LEMMA FlattenSeqConcat ==
  ASSUME NEW S, NEW a \in Seq(Seq(S)), NEW b \in Seq(Seq(S))
  PROVE  /\ FlattenSeq(a \o b) = FlattenSeq(a) \o FlattenSeq(b)
         /\ FlattenSeq(a) \in Seq(S)
<1> DEFINE ab == a \o b
<1>1. PICK ja : IsJoin(S, a, Len(a), ja)
  BY JoinExists
<1>2. PICK jb : IsJoin(S, b, Len(b), jb)
  BY JoinExists
<1>3. /\ Len(a) \in Nat /\ Len(b) \in Nat /\ ab \in Seq(Seq(S)) /\ Len(ab) = Len(a) + Len(b)
      /\ \A i \in 1..Len(ab) : ab[i] = IF i <= Len(a) THEN a[i] ELSE b[i - Len(a)]
  BY ConcatProperties, LenProperties
<1> DEFINE join == [i \in 0..Len(ab) |-> IF i <= Len(a) THEN ja[i] ELSE Cat(ja[Len(a)], jb[i - Len(a)])]
<1> HIDE DEF ab
<1>11. Len(a) \in Nat /\ Len(b) \in Nat /\ Len(ab) \in Nat /\ Len(ab) = Len(a) + Len(b)
  BY <1>3
<1>12. /\ \A i \in 1..Len(a) : a[i] \in Seq(S)
       /\ \A i \in 1..Len(b) : b[i] \in Seq(S)
  BY ElementOfSeq
<1>10. \A i \in 0..Len(ab) :
         join[i] = IF i <= Len(a) THEN ja[i] ELSE Cat(ja[Len(a)], jb[i - Len(a)])
  OBVIOUS
<1> HIDE DEF join
<1>4. /\ ja[0] = <<>> /\ jb[0] = <<>>
      /\ \A i \in 0..Len(a) : ja[i] \in Seq(S)
      /\ \A i \in 0..Len(b) : jb[i] \in Seq(S)
      /\ \A i \in 1..Len(a) : ja[i] = Cat(ja[i - 1], a[i])
      /\ \A i \in 1..Len(b) : jb[i] = Cat(jb[i - 1], b[i])
  BY <1>1, <1>2 DEF IsJoin
<1>5. IsJoin(S, ab, Len(ab), join)
  <2>1. ASSUME NEW i \in 0..Len(ab)
        PROVE  join[i] \in Seq(S)
    <3>1. CASE i <= Len(a)
      <4>1. i \in 0..Len(a)
        BY <1>11, <3>1
      <4>2. ja[i] \in Seq(S) /\ join[i] = ja[i]
        BY <1>4, <1>10, <3>1, <4>1
      <4> QED BY <4>2
    <3>2. CASE ~(i <= Len(a))
      <4>1. i - Len(a) \in 0..Len(b) /\ Len(a) \in 0..Len(a)
        BY <1>3, <3>2
      <4>2. jb[i - Len(a)] \in Seq(S) /\ ja[Len(a)] \in Seq(S)
        BY <1>4, <4>1
      <4>3. Cat(ja[Len(a)], jb[i - Len(a)]) \in Seq(S)
        BY <4>2, CatProperties
      <4> QED BY <1>10, <3>2, <4>3
    <3> QED BY <3>1, <3>2
  <2>2. join[0] = <<>>
    <3>1. 0 \in 0..Len(ab) /\ 0 <= Len(a) /\ ja[0] = <<>>
      BY <1>4, <1>11
    <3>2. join[0] = ja[0]
      BY <1>10, <3>1
    <3> QED BY <3>1, <3>2
  <2>3. ASSUME NEW i \in 1..Len(ab)
        PROVE  join[i] = Cat(join[i - 1], ab[i])
    <3>1. CASE i <= Len(a)
      <4>1. i \in 1..Len(a) /\ i - 1 \in 0..Len(ab) /\ i - 1 <= Len(a) /\ ab[i] = a[i]
        <5>1. i \in 1..Len(a) /\ i - 1 \in 0..Len(ab) /\ i - 1 <= Len(a)
          BY <1>11, <3>1
        <5>2. ab[i] = a[i]
          BY <1>3, <3>1
        <5> QED BY <5>1, <5>2
      <4>2. i \in 0..Len(ab) /\ ja[i] = Cat(ja[i - 1], a[i])
        BY <1>4, <1>11, <4>1
      <4>3. join[i] = ja[i] /\ join[i - 1] = ja[i - 1]
        BY <1>10, <3>1, <4>1, <4>2
      <4> QED BY <4>1, <4>2, <4>3
    <3>2. CASE ~(i <= Len(a))
      <4> DEFINE k == i - Len(a)
      <4>1. k \in 1..Len(b) /\ k - 1 \in 0..Len(b) /\ i - 1 \in 0..Len(ab) /\ ab[i] = b[k]
        BY <1>3, <3>2
      <4>2. /\ jb[k] = Cat(jb[k - 1], b[k]) /\ jb[k - 1] \in Seq(S) /\ b[k] \in Seq(S)
            /\ ja[Len(a)] \in Seq(S)
        BY <1>4, <1>11, <1>12, <4>1
      <4>3. join[i] = Cat(ja[Len(a)], jb[k])
        BY <1>10, <3>2
      <4>4. join[i] = Cat(Cat(ja[Len(a)], jb[k - 1]), b[k])
        <5>1. Cat(Cat(ja[Len(a)], jb[k - 1]), b[k]) = Cat(ja[Len(a)], Cat(jb[k - 1], b[k]))
          <6> DEFINE x == ja[Len(a)] y == jb[k - 1] z == b[k]
          <6>1. x \in Seq(S) /\ y \in Seq(S) /\ z \in Seq(S)
            BY <4>2
          <6> HIDE DEF x, y, z
          <6>2. Cat(Cat(x, y), z) = Cat(x, Cat(y, z))
            BY <6>1, CatProperties
          <6> QED BY <6>2 DEF x, y, z
        <5> QED BY <4>2, <4>3, <5>1
      <4>5. join[i - 1] = Cat(ja[Len(a)], jb[k - 1])
        <5>1. CASE k = 1
          <6>1. i - 1 = Len(a) /\ jb[k - 1] = <<>>
            BY <1>3, <1>4, <5>1
          <6>2. join[i - 1] = ja[Len(a)]
            BY <1>3, <1>10, <4>1, <6>1
          <6> QED BY <4>2, <6>1, <6>2, CatProperties
        <5>2. CASE k # 1
          <6>1. ~(i - 1 <= Len(a)) /\ (i - 1) - Len(a) = k - 1
            BY <1>11, <3>2, <5>2
          <6> QED BY <1>10, <4>1, <6>1
        <5> QED BY <5>1, <5>2
      <4> QED BY <4>1, <4>4, <4>5
    <3> QED BY <3>1, <3>2
  <2>4. join \in [0..Len(ab) -> Seq(S)]
    BY <1>10, <2>1 DEF join
  <2> QED BY <2>2, <2>3, <2>4 DEF IsJoin
<1>6. FlattenSeq(ab) = join[Len(ab)]
  BY <1>3, <1>5, FlattenSeqIsJoin
<1>7. FlattenSeq(a) = ja[Len(a)] /\ FlattenSeq(b) = jb[Len(b)]
  BY <1>1, <1>2, FlattenSeqIsJoin
<1>8. join[Len(ab)] = Cat(ja[Len(a)], jb[Len(b)])
  <2>1. CASE Len(b) = 0
    <3>1. Len(ab) = Len(a) /\ jb[Len(b)] = <<>> /\ ja[Len(a)] \in Seq(S)
      BY <1>3, <1>4, <2>1
    <3>2. join[Len(ab)] = ja[Len(a)]
      BY <1>3, <1>10, <3>1
    <3> QED BY <3>1, <3>2, CatProperties
  <2>2. CASE Len(b) # 0
    <3>1. Len(ab) \in 0..Len(ab) /\ ~(Len(ab) <= Len(a)) /\ Len(ab) - Len(a) = Len(b)
      BY <1>3, <2>2
    <3> QED BY <1>10, <3>1
  <2> QED BY <2>1, <2>2
<1>9. FlattenSeq(a) \in Seq(S)
  BY <1>3, <1>4, <1>7
<1> QED BY <1>6, <1>7, <1>8, <1>9 DEF ab, Cat

LEMMA FlattenSeqOne ==
  ASSUME NEW S, NEW x \in Seq(S)
  PROVE  FlattenSeq(<<x>>) = x
<1> DEFINE join == [i \in 0..1 |-> IF i = 0 THEN <<>> ELSE x]
<1>1. <<x>> \in Seq(Seq(S)) /\ Len(<<x>>) = 1 /\ <<x>>[1] = x
  OBVIOUS
<1>2. Cat(<<>>, x) = x
  BY CatProperties
<1>3. IsJoin(S, <<x>>, Len(<<x>>), join)
  BY <1>1, <1>2, EmptySeq DEF IsJoin
<1>4. FlattenSeq(<<x>>) = join[Len(<<x>>)]
  BY <1>1, <1>3, FlattenSeqIsJoin
<1> QED BY <1>1, <1>4

LEMMA FlattenSeqOfEmpty ==
  ASSUME NEW S, NEW n \in Nat
  PROVE  FlattenSeq([i \in 1..n |-> <<>>]) = <<>>
<1> DEFINE parts == [i \in 1..n |-> <<>>]
<1> DEFINE join == [i \in 0..n |-> <<>>]
<1>1. parts \in Seq(Seq(S)) /\ Len(parts) = n /\ \A i \in 1..n : parts[i] = <<>>
  BY EmptySeq, IsASeq
<1>2. Cat(<<>>, <<>>) = <<>> /\ <<>> \in Seq(S)
  BY EmptySeq, CatProperties
<1> HIDE DEF parts
<1>3. IsJoin(S, parts, Len(parts), join)
  <2>1. join \in [0..n -> Seq(S)] /\ join[0] = <<>>
    BY <1>2
  <2>2. \A i \in 1..n : join[i] = Cat(join[i - 1], parts[i])
    BY <1>1, <1>2
  <2> QED BY <1>1, <2>1, <2>2 DEF IsJoin
<1>4. FlattenSeq(parts) = join[Len(parts)]
  BY <1>1, <1>3, FlattenSeqIsJoin
<1> QED BY <1>1, <1>4 DEF parts

-----------------------------------------------------------------------------
(* Frames and units *)

LEMMA UnitsOfFrame ==
  ASSUME ChannelAssumption, NEW f \in Frame
  PROVE  /\ FrameLength(f) \in Nat \ {0} /\ HeaderSize <= FrameLength(f)
         /\ Units(f) \in Seq(Unit) /\ Len(Units(f)) = FrameLength(f)
         /\ \A i \in 1..FrameLength(f) : Units(f)[i] = [frame |-> f, index |-> i]
<1>1. f.size \in Nat
  BY DEF ChannelAssumption, Frame
<1>2. FrameLength(f) \in Nat \ {0} /\ HeaderSize <= FrameLength(f)
  BY <1>1 DEF ChannelAssumption, FrameLength
<1>3. Units(f) = [i \in 1..FrameLength(f) |-> [frame |-> f, index |-> i]]
  BY DEF Units
<1>4. \A i \in 1..FrameLength(f) : [frame |-> f, index |-> i] \in Unit
  BY <1>2 DEF Unit
<1>5. Units(f) \in Seq(Unit) /\ Len(Units(f)) = FrameLength(f)
  BY <1>2, <1>3, <1>4
<1> QED BY <1>2, <1>3, <1>5

LEMMA EndedType ==
  ASSUME NEW u \in Unit
  PROVE  Ended(u) \in Seq(Frame)
<1>1. u.frame \in Frame
  BY DEF Unit
<1> QED BY <1>1, EmptySeq DEF Ended

LEMMA FramesFlat ==
  ASSUME NEW units \in Seq(Unit)
  PROVE  /\ [i \in 1..Len(units) |-> Ended(units[i])] \in Seq(Seq(Frame))
         /\ Frames(units) = FlattenSeq([i \in 1..Len(units) |-> Ended(units[i])])
<1> DEFINE parts == [i \in 1..Len(units) |-> Ended(units[i])]
<1>1. Len(units) \in Nat /\ \A i \in 1..Len(units) : units[i] \in Unit
  BY LenProperties, ElementOfSeq
<1>2. \A i \in 1..Len(units) : Ended(units[i]) \in Seq(Frame)
  BY <1>1, EndedType
<1>3. parts \in Seq(Seq(Frame)) /\ Len(parts) = Len(units)
  BY <1>1, <1>2
<1>4. PICK join : IsJoin(Frame, parts, Len(parts), join)
  BY <1>3, JoinExists
<1>5. FlattenSeq(parts) = join[Len(parts)]
  BY <1>3, <1>4, FlattenSeqIsJoin
<1>6. Frames(units) = join[Len(units)]
  <2>1. IsJoin(Frame, parts, Len(units), join)
    BY <1>3, <1>4
  <2> QED BY <1>1, <2>1, FramesIsJoin
<1> QED BY <1>3, <1>5, <1>6

LEMMA FramesConcat ==
  ASSUME NEW a \in Seq(Unit), NEW b \in Seq(Unit)
  PROVE  /\ Frames(a \o b) = Frames(a) \o Frames(b)
         /\ Frames(a) \in Seq(Frame)
<1> DEFINE Parts(units) == [i \in 1..Len(units) |-> Ended(units[i])]
<1>1. a \o b \in Seq(Unit) /\ Len(a \o b) = Len(a) + Len(b) /\ Len(a) \in Nat /\ Len(b) \in Nat
  BY ConcatProperties, LenProperties
<1>2. Parts(a) \in Seq(Seq(Frame)) /\ Parts(b) \in Seq(Seq(Frame)) /\ Parts(a \o b) \in Seq(Seq(Frame))
  BY <1>1, FramesFlat
<1>3. Parts(a \o b) = Parts(a) \o Parts(b)
  <2>1. Len(Parts(a)) = Len(a) /\ Len(Parts(b)) = Len(b) /\ Len(Parts(a \o b)) = Len(a) + Len(b)
    BY <1>1
  <2>2. /\ Parts(a) \o Parts(b) \in Seq(Seq(Frame))
        /\ Len(Parts(a) \o Parts(b)) = Len(a) + Len(b)
        /\ \A i \in 1..(Len(a) + Len(b)) : (Parts(a) \o Parts(b))[i] =
             IF i <= Len(a) THEN Parts(a)[i] ELSE Parts(b)[i - Len(a)]
    <3> DEFINE x == Parts(a) y == Parts(b)
    <3>1. x \in Seq(Seq(Frame)) /\ y \in Seq(Seq(Frame)) /\ Len(x) = Len(a) /\ Len(y) = Len(b)
      BY <1>2, <2>1
    <3> HIDE DEF x, y
    <3>2. /\ x \o y \in Seq(Seq(Frame)) /\ Len(x \o y) = Len(x) + Len(y)
          /\ \A i \in 1..(Len(x) + Len(y)) : (x \o y)[i] = IF i <= Len(x) THEN x[i] ELSE y[i - Len(x)]
      BY <3>1, ConcatProperties
    <3>3. /\ x \o y \in Seq(Seq(Frame)) /\ Len(x \o y) = Len(a) + Len(b)
          /\ \A i \in 1..(Len(a) + Len(b)) : (x \o y)[i] = IF i <= Len(a) THEN x[i] ELSE y[i - Len(a)]
      BY <3>1, <3>2, Zenon
    <3> QED BY <3>3, Zenon DEF x, y
  <2>3. ASSUME NEW i \in 1..(Len(a) + Len(b))
        PROVE  Parts(a \o b)[i] = (Parts(a) \o Parts(b))[i]
    <3>1. (a \o b)[i] = IF i <= Len(a) THEN a[i] ELSE b[i - Len(a)]
      BY ConcatProperties
    <3>2. CASE i <= Len(a)
      <4>1. i \in 1..Len(a) /\ i \in 1..Len(a \o b)
        BY <1>1, <3>2
      <4>2. Parts(a \o b)[i] = Ended(a[i]) /\ Parts(a)[i] = Ended(a[i])
        BY <3>1, <3>2, <4>1
      <4>3. (Parts(a) \o Parts(b))[i] = Parts(a)[i]
        BY <2>2, <3>2, Zenon
      <4> QED BY <4>2, <4>3
    <3>3. CASE ~(i <= Len(a))
      <4>1. i - Len(a) \in 1..Len(b) /\ i \in 1..Len(a \o b)
        BY <1>1, <3>3
      <4>2. Parts(a \o b)[i] = Ended(b[i - Len(a)]) /\ Parts(b)[i - Len(a)] = Ended(b[i - Len(a)])
        BY <3>1, <3>3, <4>1
      <4>3. (Parts(a) \o Parts(b))[i] = Parts(b)[i - Len(a)]
        BY <2>2, <3>3, Zenon
      <4> QED BY <4>2, <4>3
    <3> QED BY <3>2, <3>3
  <2> HIDE DEF Parts
  <2> QED BY <1>2, <2>1, <2>2, <2>3, SeqEqual
<1>4. /\ Frames(a) = FlattenSeq(Parts(a)) /\ Frames(b) = FlattenSeq(Parts(b))
      /\ Frames(a \o b) = FlattenSeq(Parts(a \o b))
  BY <1>1, FramesFlat
<1> HIDE DEF Parts
<1>5. FlattenSeq(Parts(a) \o Parts(b)) = FlattenSeq(Parts(a)) \o FlattenSeq(Parts(b))
  BY <1>2, FlattenSeqConcat
<1>6. FlattenSeq(Parts(a)) \in Seq(Frame)
  BY <1>2, FlattenSeqConcat
<1> QED BY <1>3, <1>4, <1>5, <1>6

LEMMA FramesOfUnits ==
  ASSUME ChannelAssumption, NEW f \in Frame
  PROVE  Frames(Units(f)) = <<f>>
<1> DEFINE n == FrameLength(f)
<1> DEFINE join == [i \in 0..n |-> IF i = n THEN <<f>> ELSE <<>>]
<1> DEFINE parts == [i \in 1..Len(Units(f)) |-> Ended(Units(f)[i])]
<1>1. n \in Nat \ {0} /\ Len(Units(f)) = n /\ \A i \in 1..n : Units(f)[i] = [frame |-> f, index |-> i]
  BY UnitsOfFrame
<1> HIDE DEF n
<1>2. \A i \in 1..n : parts[i] = IF i = n THEN <<f>> ELSE <<>>
  BY <1>1 DEF Ended, n
<1>3. \A i \in 0..n : join[i] = IF i = n THEN <<f>> ELSE <<>>
  OBVIOUS
<1>4. <<f>> \in Seq(Frame) /\ <<>> \in Seq(Frame)
  BY EmptySeq
<1>5. Cat(<<>>, <<f>>) = <<f>> /\ Cat(<<>>, <<>>) = <<>>
  BY <1>4, CatProperties
<1>6. join \in [0..n -> Seq(Frame)]
  BY <1>4
<1> HIDE DEF join, parts
<1>7. IsJoin(Frame, parts, n, join)
  <2>1. join[0] = <<>>
    BY <1>1, <1>3
  <2>2. ASSUME NEW i \in 1..n
        PROVE  join[i] = Cat(join[i - 1], parts[i])
    <3>1. i \in 0..n /\ i - 1 \in 0..n /\ i - 1 # n
      BY <1>1
    <3>2. join[i - 1] = <<>>
      BY <1>3, <3>1
    <3>3. join[i] = parts[i] /\ (parts[i] = <<f>> \/ parts[i] = <<>>)
      BY <1>2, <1>3, <3>1
    <3> QED BY <1>5, <3>2, <3>3
  <2> QED BY <1>6, <2>1, <2>2 DEF IsJoin
<1>8. Frames(Units(f)) = join[n]
  BY <1>1, <1>7, FramesIsJoin DEF parts
<1> QED BY <1>1, <1>3, <1>8

LEMMA JoinedFrames ==
  ASSUME ChannelAssumption, NEW a \in Seq(Frame), NEW b \in Seq(Frame), NEW f \in Frame
  PROVE  /\ Joined(a \o b) = Joined(a) \o Joined(b)
         /\ Joined(a) \in Seq(Unit)
         /\ Joined(<<f>>) = Units(f)
         /\ Joined(<<>>) = <<>>
<1> DEFINE Parts(frames) == [i \in DOMAIN frames |-> Units(frames[i])]
<1>1. ASSUME NEW frames \in Seq(Frame)
      PROVE  Parts(frames) \in Seq(Seq(Unit)) /\ Len(Parts(frames)) = Len(frames)
  <2>1. Len(frames) \in Nat /\ DOMAIN frames = 1..Len(frames)
    BY LenProperties
  <2>2. \A i \in 1..Len(frames) : Units(frames[i]) \in Seq(Unit)
    BY ElementOfSeq, UnitsOfFrame
  <2> QED BY <2>1, <2>2
<1>2. Parts(a \o b) = Parts(a) \o Parts(b)
  <2>1. /\ a \o b \in Seq(Frame) /\ Len(a) \in Nat /\ Len(b) \in Nat
        /\ Len(a \o b) = Len(a) + Len(b)
        /\ DOMAIN a = 1..Len(a) /\ DOMAIN b = 1..Len(b) /\ DOMAIN (a \o b) = 1..(Len(a) + Len(b))
    BY ConcatProperties, LenProperties
  <2>2. /\ Parts(a) \in Seq(Seq(Unit)) /\ Parts(b) \in Seq(Seq(Unit)) /\ Parts(a \o b) \in Seq(Seq(Unit))
        /\ Len(Parts(a)) = Len(a) /\ Len(Parts(b)) = Len(b) /\ Len(Parts(a \o b)) = Len(a) + Len(b)
    BY <1>1, <2>1
  <2>3. /\ Parts(a) \o Parts(b) \in Seq(Seq(Unit))
        /\ Len(Parts(a) \o Parts(b)) = Len(a) + Len(b)
        /\ \A i \in 1..(Len(a) + Len(b)) : (Parts(a) \o Parts(b))[i] =
             IF i <= Len(a) THEN Parts(a)[i] ELSE Parts(b)[i - Len(a)]
    <3> DEFINE x == Parts(a) y == Parts(b)
    <3>1. x \in Seq(Seq(Unit)) /\ y \in Seq(Seq(Unit)) /\ Len(x) = Len(a) /\ Len(y) = Len(b)
      BY <2>2
    <3> HIDE DEF x, y
    <3>2. /\ x \o y \in Seq(Seq(Unit)) /\ Len(x \o y) = Len(x) + Len(y)
          /\ \A i \in 1..(Len(x) + Len(y)) : (x \o y)[i] = IF i <= Len(x) THEN x[i] ELSE y[i - Len(x)]
      BY <3>1, ConcatProperties
    <3>3. /\ x \o y \in Seq(Seq(Unit)) /\ Len(x \o y) = Len(a) + Len(b)
          /\ \A i \in 1..(Len(a) + Len(b)) : (x \o y)[i] = IF i <= Len(a) THEN x[i] ELSE y[i - Len(a)]
      BY <3>1, <3>2, Zenon
    <3> QED BY <3>3, Zenon DEF x, y
  <2>4. ASSUME NEW i \in 1..(Len(a) + Len(b))
        PROVE  Parts(a \o b)[i] = (Parts(a) \o Parts(b))[i]
    <3>1. (a \o b)[i] = IF i <= Len(a) THEN a[i] ELSE b[i - Len(a)]
      BY ConcatProperties
    <3>2. CASE i <= Len(a)
      <4>1. i \in 1..Len(a)
        BY <2>1, <3>2
      <4>2. Parts(a \o b)[i] = Units(a[i]) /\ Parts(a)[i] = Units(a[i])
        BY <2>1, <3>1, <3>2, <4>1
      <4>3. (Parts(a) \o Parts(b))[i] = Parts(a)[i]
        BY <2>3, <3>2, Zenon
      <4> QED BY <4>2, <4>3
    <3>3. CASE ~(i <= Len(a))
      <4>1. i - Len(a) \in 1..Len(b)
        BY <2>1, <3>3
      <4>2. Parts(a \o b)[i] = Units(b[i - Len(a)]) /\ Parts(b)[i - Len(a)] = Units(b[i - Len(a)])
        BY <2>1, <3>1, <3>3, <4>1
      <4>3. (Parts(a) \o Parts(b))[i] = Parts(b)[i - Len(a)]
        BY <2>3, <3>3, Zenon
      <4> QED BY <4>2, <4>3
    <3> QED BY <3>2, <3>3
  <2> HIDE DEF Parts
  <2> QED BY <2>2, <2>3, <2>4, SeqEqual
<1>3. Parts(<<f>>) = <<Units(f)>>
  OBVIOUS
<1>4. Parts(<<>>) = [i \in 1..0 |-> <<>>]
  OBVIOUS
<1>5. FlattenSeq(<<Units(f)>>) = Units(f)
  BY UnitsOfFrame, FlattenSeqOne
<1>6. FlattenSeq([i \in 1..0 |-> <<>>]) = <<>>
  BY FlattenSeqOfEmpty
<1>7. \A frames : Joined(frames) = FlattenSeq(Parts(frames))
  BY DEF Joined
<1>8. Parts(a) \in Seq(Seq(Unit)) /\ Parts(b) \in Seq(Seq(Unit))
  BY <1>1
<1> HIDE DEF Parts
<1>9. /\ FlattenSeq(Parts(a) \o Parts(b)) = FlattenSeq(Parts(a)) \o FlattenSeq(Parts(b))
      /\ FlattenSeq(Parts(a)) \in Seq(Unit)
  BY <1>8, FlattenSeqConcat
<1> QED BY <1>2, <1>3, <1>4, <1>5, <1>6, <1>7, <1>9

-----------------------------------------------------------------------------
(* The inductive invariant *)

\* Behind what is read of a frame nothing is read, and a process stays with the
\* frame it has begun to read: a part of one is only where somebody waits for it.
ReadInv ==
  \A s \in Streams : in[s] # <<>> =>
    /\ Len(in[s]) <= FrameLength(in[s][1].frame)
    /\ mode[s[2]] = "recv" /\ source[s[2]] = s

Inv == TypeOK /\ ReadInv /\ StreamsIntact

\* A stream is in three places, and each holds units.
LEMMA InTransitType ==
  ASSUME TypeOK, NEW s \in Streams
  PROVE  /\ in[s] \in Seq(Unit) /\ kernel[s] \in Seq(Unit) /\ out[s] \in Seq(Unit)
         /\ kernel[s] \o out[s] \in Seq(Unit)
         /\ InTransit(s) = in[s] \o (kernel[s] \o out[s])
         /\ InTransit(s) \in Seq(Unit)
<1>1. in[s] \in Seq(Unit) /\ kernel[s] \in Seq(Unit) /\ out[s] \in Seq(Unit)
  BY DEF TypeOK
<1>2. kernel[s] \o out[s] \in Seq(Unit)
  BY <1>1, ConcatProperties
<1>3. InTransit(s) = in[s] \o (kernel[s] \o out[s])
  <2> DEFINE i == in[s] k == kernel[s] o == out[s]
  <2>1. i \in Seq(Unit) /\ k \in Seq(Unit) /\ o \in Seq(Unit)
    BY <1>1
  <2> HIDE DEF i, k, o
  <2>2. (i \o k) \o o = i \o (k \o o)
    BY <2>1, ConcatAssociative
  <2> QED BY <2>2 DEF i, k, o, InTransit
<1>4. in[s] \o (kernel[s] \o out[s]) \in Seq(Unit)
  BY <1>1, <1>2, ConcatProperties
<1> QED BY <1>1, <1>2, <1>3, <1>4

\* What try_flush writes, and what it leaves.
LEMMA Accepted ==
  ASSUME ChannelAssumption, TypeOK, NEW s \in Streams, NEW bytes \in Seq(Unit)
  PROVE  /\ Rest(s, bytes) \in Seq(Unit)
         /\ Flushed(s, bytes) \in Seq(Unit) /\ Len(Flushed(s, bytes)) <= Capacity
         /\ Flushed(s, bytes) \o Rest(s, bytes) = kernel[s] \o bytes
<1> DEFINE n == Accepts(s, bytes)
<1>1. kernel[s] \in Seq(Unit) /\ Len(kernel[s]) \in Nat /\ Len(kernel[s]) <= Capacity /\ Len(bytes) \in Nat
      /\ Capacity \in Nat
  BY LenProperties DEF TypeOK, ChannelAssumption
<1>2. n \in 0..Len(bytes) /\ Len(kernel[s]) + n <= Capacity
  <2> DEFINE r == Capacity - Len(kernel[s])
  <2>1. r \in Nat
    BY <1>1
  <2>2. n = Min({Len(bytes), r})
    BY DEF Accepts
  <2> HIDE DEF n, r
  <2>3. \E x \in {Len(bytes), r} : \A y \in {Len(bytes), r} : x <= y
    BY <1>1, <2>1
  <2>4. n \in {Len(bytes), r} /\ \A y \in {Len(bytes), r} : n <= y
    BY <2>2, <2>3 DEF Min
  <2>5. n \in Nat /\ n <= Len(bytes) /\ n <= r
    BY <1>1, <2>1, <2>4
  <2> QED BY <1>1, <2>5 DEF r
<1> HIDE DEF n
<1> DEFINE first == SubSeq(bytes, 1, n) last == SubSeq(bytes, n + 1, Len(bytes))
<1>3. first \in Seq(Unit) /\ last \in Seq(Unit) /\ Len(first) = n
  BY <1>1, <1>2, ElementOfSeq, SubSeqProperties
<1>4. first \o last = bytes
  <2>1. 1 \in 1..(Len(bytes) + 1) /\ n \in (1 - 1)..Len(bytes) /\ Len(bytes) \in n..Len(bytes)
    BY <1>1, <1>2
  <2>2. SubSeq(bytes, 1, n) \o SubSeq(bytes, n + 1, Len(bytes)) = SubSeq(bytes, 1, Len(bytes))
    BY <2>1, ConcatAdjacentSubSeq, Zenon
  <2> QED BY <2>2, SubSeqFull, Zenon
<1>5. Flushed(s, bytes) = kernel[s] \o first /\ Rest(s, bytes) = last
  BY DEF Flushed, Rest, n
<1> HIDE DEF first, last
<1>6. (kernel[s] \o first) \o last = kernel[s] \o (first \o last)
  <2> DEFINE k == kernel[s]
  <2>1. k \in Seq(Unit) /\ first \in Seq(Unit) /\ last \in Seq(Unit)
    BY <1>1, <1>3
  <2> HIDE DEF k
  <2>2. (k \o first) \o last = k \o (first \o last)
    BY <2>1, ConcatAssociative
  <2> QED BY <2>2 DEF k
<1>7. kernel[s] \o first \in Seq(Unit) /\ Len(kernel[s] \o first) = Len(kernel[s]) + n
  BY <1>1, <1>3, ConcatProperties
<1> QED BY <1>1, <1>2, <1>3, <1>4, <1>5, <1>6, <1>7

\* A complete frame is the first of its stream.
LEMMA FirstFrame ==
  ASSUME ChannelAssumption, Inv, NEW s \in Streams, in[s] # <<>>
  PROVE  LET frames == FramesInTransit(s)
             f == in[s][1].frame
         IN  /\ frames \in Seq(Frame) /\ frames # <<>> /\ f \in Frame /\ f = Head(frames)
             /\ InTransit(s) = Units(f) \o Joined(Tail(frames))
             /\ Len(in[s]) \in Nat \ {0} /\ Len(in[s]) <= FrameLength(f)
<1> DEFINE frames == FramesInTransit(s)
           f == in[s][1].frame
           rest == kernel[s] \o out[s]
<1>1. in[s] \in Seq(Unit) /\ rest \in Seq(Unit) /\ InTransit(s) = in[s] \o rest /\ InTransit(s) \in Seq(Unit)
  BY InTransitType DEF Inv
<1>2. Len(in[s]) \in Nat \ {0} /\ in[s][1] \in Unit
  BY <1>1, EmptySeq, LenProperties, ElementOfSeq
<1>3. f \in Frame /\ Len(in[s]) <= FrameLength(f)
  BY <1>2 DEF Inv, ReadInv, Unit
<1>4. frames \in Seq(Frame)
  BY <1>1, FramesConcat DEF FramesInTransit
<1>5. InTransit(s) = Joined(frames)
  BY DEF Inv, StreamsIntact
<1>6. InTransit(s)[1] = in[s][1] /\ InTransit(s) # <<>>
  <2>1. Len(InTransit(s)) # 0 /\ InTransit(s)[1] = in[s][1]
    <3>1. /\ Len(in[s] \o rest) = Len(in[s]) + Len(rest)
          /\ \A i \in 1..(Len(in[s]) + Len(rest)) :
                (in[s] \o rest)[i] = IF i <= Len(in[s]) THEN in[s][i] ELSE rest[i - Len(in[s])]
      BY <1>1, ConcatProperties, Zenon
    <3>2. Len(rest) \in Nat /\ 1 \in 1..(Len(in[s]) + Len(rest)) /\ 1 <= Len(in[s])
      <4>1. Len(rest) \in Nat
        BY <1>1, LenProperties, Zenon
      <4> DEFINE m == Len(in[s]) n == Len(rest)
      <4>2. m \in Nat \ {0} /\ n \in Nat
        BY <1>2, <4>1, Zenon
      <4> HIDE DEF m, n
      <4>3. 1 \in 1..(m + n) /\ 1 <= m
        BY <4>2
      <4> QED BY <4>1, <4>3 DEF m, n
    <3>3. (in[s] \o rest)[1] = in[s][1]
      BY <3>1, <3>2, Zenon
    <3>4. Len(in[s] \o rest) # 0
      <4> DEFINE m == Len(in[s]) n == Len(rest) mn == Len(in[s] \o rest)
      <4>1. m \in Nat \ {0} /\ n \in Nat /\ mn = m + n
        BY <1>2, <3>1, <3>2, Zenon
      <4> HIDE DEF m, n, mn
      <4>2. mn # 0
        BY <4>1
      <4> QED BY <4>2 DEF mn
    <3> QED BY <1>1, <3>3, <3>4, Zenon
  <2> QED BY <2>1, EmptySeq
<1>7. frames # <<>>
  BY <1>3, <1>4, <1>5, <1>6, JoinedFrames
<1> DEFINE g == Head(frames) tail == Tail(frames)
<1>8. g \in Frame /\ tail \in Seq(Frame) /\ frames = <<g>> \o tail
  BY <1>4, <1>7, HeadTailProperties
<1> HIDE DEF frames, g, tail, rest
<1>9. Joined(frames) = Units(g) \o Joined(tail) /\ Joined(tail) \in Seq(Unit)
  <2>1. <<g>> \in Seq(Frame)
    BY <1>8
  <2>2. Joined(<<g>> \o tail) = Joined(<<g>>) \o Joined(tail) /\ Joined(<<g>>) = Units(g)
    BY <1>8, <2>1, JoinedFrames, Zenon
  <2>3. Joined(tail) \in Seq(Unit)
    BY <1>8, JoinedFrames, Zenon
  <2> QED BY <1>8, <2>2, <2>3, Zenon
<1>10. /\ Units(g) \in Seq(Unit) /\ Len(Units(g)) \in Nat \ {0} /\ Units(g)[1] = [frame |-> g, index |-> 1]
  BY <1>8, UnitsOfFrame
<1>11. InTransit(s)[1] = Units(g)[1]
  BY <1>5, <1>9, <1>10, ConcatProperties, LenProperties
<1>12. f = g
  BY <1>6, <1>10, <1>11
<1> QED BY <1>2, <1>3, <1>4, <1>5, <1>7, <1>9, <1>12 DEF frames, g, tail

-----------------------------------------------------------------------------
(* What a step does to the streams *)

\* Units only move between the places of a stream; a frame is sent; the first
\* frame is received.
Others(s) == \A t \in Streams : t # s => InTransit(t)' = InTransit(t)
Still == msg' = msg /\ \A s \in Streams : InTransit(s)' = InTransit(s)
SentOn(s, f) == msg' = msg /\ Others(s) /\ InTransit(s)' = InTransit(s) \o Units(f)
ReceivedFrom(s) ==
  /\ FramesInTransit(s) # <<>> /\ InTransit(s)' = Joined(Tail(FramesInTransit(s)))
  /\ msg' = [msg EXCEPT ![s] = Head(FramesInTransit(s))] /\ Others(s)

LEMMA Regroup ==
  ASSUME NEW a \in Seq(Unit), NEW b \in Seq(Unit), NEW c \in Seq(Unit)
  PROVE  (a \o b) \o c = a \o (b \o c)
BY ConcatAssociative

LEMMA RegroupFour ==
  ASSUME NEW a \in Seq(Unit), NEW b \in Seq(Unit), NEW c \in Seq(Unit), NEW d \in Seq(Unit)
  PROVE  Cat(a, Cat(b, Cat(c, d))) = Cat(Cat(Cat(a, b), c), d)
<1>1. a \o b \in Seq(Unit) /\ c \o d \in Seq(Unit)
  BY ConcatProperties
<1>2. ASSUME NEW ab \in Seq(Unit)
      PROVE  ab \o (c \o d) = (ab \o c) \o d
  BY Regroup
<1>3. ASSUME NEW cd \in Seq(Unit)
      PROVE  (a \o b) \o cd = a \o (b \o cd)
  BY Regroup
<1> QED BY <1>1, <1>2, <1>3, Zenon DEF Cat

LEMMA SendTypes ==
  ASSUME ChannelAssumption, TypeOK, NEW p \in Processes, NEW s \in From(p), NEW f \in Frame,
         SendFrame(p, s, f)
  PROVE  TypeOK' /\ SentOn(s, f)
<1>1. s \in Streams
  BY DEF From
<1>2. Units(f) \in Seq(Unit)
  BY UnitsOfFrame
<1>3. /\ in[s] \in Seq(Unit) /\ kernel[s] \in Seq(Unit) /\ out[s] \in Seq(Unit)
      /\ Len(kernel[s]) <= Capacity
  BY <1>1 DEF TypeOK
<1> DEFINE i == in[s] k == kernel[s] o == out[s] k2 == kernel'[s] o2 == out'[s] u == Units(f)
<1>4. Queued(s, f) \in Seq(Unit) /\ Queued(s, f) = o \o u
  BY <1>2, <1>3, ConcatProperties DEF Queued
<1>5. k2 \in Seq(Unit) /\ o2 \in Seq(Unit) /\ Len(k2) <= Capacity /\ k2 \o o2 = k \o (o \o u)
  <2>1. CASE f.more
    <3>1. k2 = k /\ o2 = Queued(s, f)
      BY <1>1, <2>1 DEF SendFrame, TypeOK
    <3> QED BY <1>3, <1>4, <3>1
  <2>2. CASE ~f.more
    <3>1. k2 = Flushed(s, Queued(s, f)) /\ o2 = Rest(s, Queued(s, f))
      BY <1>1, <2>2 DEF SendFrame, TypeOK
    <3>2. /\ Rest(s, Queued(s, f)) \in Seq(Unit)
          /\ Flushed(s, Queued(s, f)) \in Seq(Unit) /\ Len(Flushed(s, Queued(s, f))) <= Capacity
          /\ Flushed(s, Queued(s, f)) \o Rest(s, Queued(s, f)) = kernel[s] \o Queued(s, f)
      BY <1>1, <1>4, Accepted
    <3> QED BY <1>4, <3>1, <3>2
  <2> QED BY <2>1, <2>2
<1>6. InTransit(s) = (i \o k) \o o /\ InTransit(s)' = (i \o k2) \o o2
  BY DEF InTransit, SendFrame
<1>7. \A t \in Streams : t # s => out'[t] = out[t] /\ kernel'[t] = kernel[t] /\ in'[t] = in[t]
  BY <1>1 DEF SendFrame, TypeOK
<1>8. Others(s)
  BY <1>7 DEF Others, InTransit
<1>9. InTransit(s)' = InTransit(s) \o Units(f)
  <2>1. i \in Seq(Unit) /\ k \in Seq(Unit) /\ o \in Seq(Unit) /\ u \in Seq(Unit)
    BY <1>2, <1>3
  <2> HIDE DEF i, k, o, k2, o2, u
  <2>2. (i \o k2) \o o2 = i \o (k2 \o o2)
    BY <1>5, <2>1, Regroup
  <2>3. i \o (k \o (o \o u)) = ((i \o k) \o o) \o u
    <3>1. Cat(i, Cat(k, Cat(o, u))) = Cat(Cat(Cat(i, k), o), u)
      BY <2>1, RegroupFour
    <3> QED BY <3>1, Zenon DEF Cat
  <2> QED BY <1>5, <1>6, <2>2, <2>3 DEF u
<1>10. TypeOK'
  <2>1. out' \in [Streams -> Seq(Unit)] /\ kernel' \in [Streams -> Seq(Unit)]
    <3>1. \A t \in Streams : out'[t] \in Seq(Unit) /\ kernel'[t] \in Seq(Unit)
      BY <1>5, <1>7 DEF TypeOK
    <3>2. out' = [t \in Streams |-> out'[t]] /\ kernel' = [t \in Streams |-> kernel'[t]]
      BY DEF SendFrame, TypeOK
    <3> QED BY <3>1, <3>2
  <2>2. \A t \in Streams : Len(kernel'[t]) <= Capacity
    BY <1>5, <1>7 DEF TypeOK
  <2>3. count' \in [Processes -> Nat] /\ \A q \in Processes : count'[q] <= MaxFrames[q]
    BY DEF SendFrame, TypeOK, ChannelAssumption
  <2>4. unfinished' \in [Processes -> Streams \cup {NoStream}]
    BY <1>1 DEF SendFrame, TypeOK
  <2>5. UNCHANGED <<mode, source, in, msg>>
    BY DEF SendFrame
  <2> QED BY <2>1, <2>2, <2>3, <2>4, <2>5 DEF TypeOK
<1>11. msg' = msg
  BY DEF SendFrame
<1> QED BY <1>8, <1>9, <1>10, <1>11 DEF SentOn

LEMMA FlushTypes ==
  ASSUME ChannelAssumption, TypeOK, NEW p \in Processes, Flush(p)
  PROVE  TypeOK' /\ Still
<1>1. ASSUME NEW s \in Streams
      PROVE  /\ out'[s] \in Seq(Unit) /\ kernel'[s] \in Seq(Unit) /\ Len(kernel'[s]) <= Capacity
             /\ InTransit(s)' = InTransit(s)
  <2> DEFINE i == in[s] k == kernel[s] o == out[s] k2 == kernel'[s] o2 == out'[s]
  <2>1. i \in Seq(Unit) /\ k \in Seq(Unit) /\ o \in Seq(Unit) /\ Len(k) <= Capacity
    BY DEF TypeOK
  <2>2. o2 \in Seq(Unit) /\ k2 \in Seq(Unit) /\ Len(k2) <= Capacity /\ k2 \o o2 = k \o o
    <3>1. CASE s \in Writable(p)
      <4>1. k2 = Flushed(s, out[s]) /\ o2 = Rest(s, out[s])
        BY <3>1 DEF Flush
      <4> QED BY <2>1, <4>1, Accepted
    <3>2. CASE s \notin Writable(p)
      <4>1. k2 = k /\ o2 = o
        BY <3>2 DEF Flush
      <4> QED BY <2>1, <4>1
    <3> QED BY <3>1, <3>2
  <2>3. InTransit(s) = (i \o k) \o o /\ InTransit(s)' = (i \o k2) \o o2
    BY DEF InTransit, Flush
  <2>4. InTransit(s)' = InTransit(s)
    <3> HIDE DEF i, k, o, k2, o2
    <3>1. (i \o k2) \o o2 = i \o (k2 \o o2) /\ (i \o k) \o o = i \o (k \o o)
      BY <2>1, <2>2, Regroup
    <3> QED BY <2>2, <2>3, <3>1
  <2> QED BY <2>2, <2>4
<1>2. out' = [s \in Streams |-> out'[s]] /\ kernel' = [s \in Streams |-> kernel'[s]]
  BY DEF Flush
<1>3. UNCHANGED <<mode, source, count, unfinished, in, msg>>
  BY DEF Flush
<1>4. out' \in [Streams -> Seq(Unit)] /\ kernel' \in [Streams -> Seq(Unit)]
  BY <1>1, <1>2
<1>5. TypeOK'
  BY <1>1, <1>3, <1>4 DEF TypeOK
<1> QED BY <1>1, <1>3, <1>5 DEF Still

LEMMA WaitTypes ==
  ASSUME TypeOK, NEW p \in Processes,
         StartPoll(p) \/ (\E s \in To(p) : StartReceive(p, s) \/ PollReturns(p, s))
  PROVE  TypeOK' /\ Still /\ UNCHANGED <<in, kernel, out>>
<1>1. /\ UNCHANGED <<count, unfinished, out, kernel, in, msg>>
      /\ \A q \in Processes : q # p => mode'[q] = mode[q] /\ source'[q] = source[q]
      /\ mode' \in [Processes -> {"run", "poll", "recv"}]
      /\ source' \in [Processes -> Streams \cup {NoStream}]
      /\ mode'[p] = "recv" => source'[p] \in To(p)
  <2>1. CASE StartPoll(p)
    BY <2>1 DEF TypeOK, StartPoll
  <2>2. ASSUME NEW s \in To(p), StartReceive(p, s) \/ PollReturns(p, s)
        PROVE  /\ UNCHANGED <<count, unfinished, out, kernel, in, msg>>
               /\ mode' = [mode EXCEPT ![p] = "recv"] /\ source' = [source EXCEPT ![p] = s]
               /\ s \in Streams
    BY <2>2 DEF StartReceive, PollReturns, To
  <2>3. CASE \E s \in To(p) : StartReceive(p, s) \/ PollReturns(p, s)
    BY <2>2, <2>3 DEF TypeOK
  <2> QED BY <2>1, <2>3
<1>2. TypeOK'
  BY <1>1 DEF TypeOK
<1>3. Still
  BY <1>1 DEF Still, InTransit
<1> QED BY <1>1, <1>2, <1>3

LEMMA ReadTypes ==
  ASSUME ChannelAssumption, TypeOK, ReadInv, NEW p \in Processes, Read(p)
  PROVE  TypeOK' /\ ReadInv' /\ Still
<1>0. PICK s \in To(p) : s = source[p]
  BY DEF Read, TypeOK
<1>1. mode[p] = "recv" /\ ~FrameComplete(in[s]) /\ s \in Streams /\ s[2] = p /\ source[p] = s
  BY <1>0 DEF Read, To
<1>2. PICK n \in 1 .. Min({ReadSize(in[s]), Len(kernel[s])}) :
         /\ in' = [in EXCEPT ![s] = @ \o SubSeq(kernel[s], 1, n)]
         /\ kernel' = [kernel EXCEPT ![s] = SubSeq(@, n + 1, Len(@))]
  BY <1>0 DEF Read
<1>3. /\ in[s] \in Seq(Unit) /\ kernel[s] \in Seq(Unit) /\ out[s] \in Seq(Unit)
      /\ Len(in[s]) \in Nat /\ Len(kernel[s]) \in Nat /\ Len(kernel[s]) <= Capacity
  BY <1>1, LenProperties DEF TypeOK
<1>4. in[s] # <<>> => /\ in[s][1] \in Unit /\ in[s][1].frame \in Frame
                      /\ FrameLength(in[s][1].frame) \in Nat /\ HeaderSize <= FrameLength(in[s][1].frame)
                      /\ Len(in[s]) \in Nat \ {0}
  <2>1. SUFFICES ASSUME in[s] # <<>>
                 PROVE  in[s][1] \in Unit /\ Len(in[s]) \in Nat \ {0}
    BY UnitsOfFrame DEF Unit
  <2>2. Len(in[s]) \in Nat \ {0}
    BY <1>3, <2>1, EmptySeq
  <2> QED BY <1>3, <2>2, ElementOfSeq
<1>5. ReadSize(in[s]) \in Nat /\ (in[s] = <<>> => Len(in[s]) = 0)
  <2>1. in[s] = <<>> => Len(in[s]) = 0
    BY EmptySeq
  <2>2. CASE Len(in[s]) < HeaderSize
    BY <1>3, <2>2 DEF ReadSize, ChannelAssumption
  <2>3. CASE ~(Len(in[s]) < HeaderSize)
    <3>1. in[s] # <<>>
      BY <1>3, <2>1, <2>3 DEF ChannelAssumption
    <3>2. Len(in[s]) <= FrameLength(in[s][1].frame)
      BY <1>1, <3>1 DEF ReadInv
    <3> QED BY <1>4, <2>3, <3>1, <3>2 DEF ReadSize
  <2> QED BY <2>1, <2>2, <2>3
<1>6. n \in Nat \ {0} /\ n <= ReadSize(in[s]) /\ n <= Len(kernel[s])
  <2> DEFINE a == ReadSize(in[s]) b == Len(kernel[s]) m == Min({a, b})
  <2>1. a \in Nat /\ b \in Nat /\ n \in 1..m
    BY <1>3, <1>5, <1>2
  <2>2. m = CHOOSE x \in {a, b} : \A y \in {a, b} : x <= y
    BY DEF Min
  <2> HIDE DEF a, b, m
  <2>3. \E x \in {a, b} : \A y \in {a, b} : x <= y
    BY <2>1
  <2>4. m \in {a, b} /\ \A y \in {a, b} : m <= y
    BY <2>2, <2>3
  <2>5. m \in Nat /\ m <= a /\ m <= b
    BY <2>1, <2>4
  <2>6. n \in Nat \ {0} /\ n <= a /\ n <= b
    BY <2>1, <2>5
  <2> QED BY <2>6 DEF a, b
<1> DEFINE i == in[s] k == kernel[s] o == out[s]
           x == SubSeq(kernel[s], 1, n) y == SubSeq(kernel[s], n + 1, Len(kernel[s]))
<1>7. x \in Seq(Unit) /\ y \in Seq(Unit) /\ Len(x) = n /\ Len(y) = Len(k) - n /\ x[1] \in Unit
  BY <1>3, <1>6, ElementOfSeq, SubSeqProperties
<1>8. x \o y = k
  <2>1. 1 \in 1..(Len(k) + 1) /\ n \in (1 - 1)..Len(k) /\ Len(k) \in n..Len(k)
    BY <1>3, <1>6
  <2>2. x \o y = SubSeq(k, 1, Len(k))
    BY <1>3, <2>1, ConcatAdjacentSubSeq, Zenon
  <2> QED BY <1>3, <2>2, SubSeqFull, Zenon
<1>9. /\ in'[s] = i \o x /\ kernel'[s] = y /\ out' = out /\ msg' = msg
      /\ \A t \in Streams : t # s => in'[t] = in[t] /\ kernel'[t] = kernel[t]
  BY <1>1, <1>2 DEF TypeOK, Read
<1>10. i \in Seq(Unit) /\ o \in Seq(Unit) /\ k \in Seq(Unit)
  BY <1>3
<1>11. InTransit(s)' = InTransit(s)
  <2>1. InTransit(s) = (i \o k) \o o /\ InTransit(s)' = (in'[s] \o kernel'[s]) \o o
    BY <1>9 DEF InTransit
  <2> HIDE DEF i, x, y, k, o
  <2>2. (i \o x) \o y = i \o (x \o y)
    BY <1>7, <1>10, Regroup
  <2> QED BY <1>8, <1>9, <2>1, <2>2
<1>12. /\ i \o x \in Seq(Unit) /\ Len(i \o x) = Len(i) + n
       /\ (i \o x)[1] = IF i = <<>> THEN x[1] ELSE i[1]
  <2>1. Len(i) \in Nat /\ (i = <<>> => Len(i) = 0) /\ (i # <<>> => Len(i) \in Nat \ {0})
    BY <1>3, <1>4, <1>5
  <2> HIDE DEF i, x
  <2>2. /\ i \o x \in Seq(Unit) /\ Len(i \o x) = Len(i) + Len(x)
        /\ \A j \in 1..(Len(i) + Len(x)) : (i \o x)[j] = IF j <= Len(i) THEN i[j] ELSE x[j - Len(i)]
    BY <1>7, <1>10, ConcatProperties
  <2>3. (i \o x)[1] = IF 1 <= Len(i) THEN i[1] ELSE x[1 - Len(i)]
    <3>1. 1 \in 1..(Len(i) + Len(x))
      BY <1>6, <1>7, <2>1
    <3> QED BY <2>2, <3>1, Zenon
  <2>4. CASE i = <<>>
    <3>1. ~(1 <= Len(i)) /\ 1 - Len(i) = 1
      BY <2>1, <2>4
    <3>2. (i \o x)[1] = x[1]
      BY <2>3, <3>1, Zenon
    <3> QED BY <1>7, <2>2, <2>4, <3>2, Zenon
  <2>5. CASE i # <<>>
    <3>1. 1 <= Len(i)
      BY <2>1, <2>5
    <3>2. (i \o x)[1] = i[1]
      BY <2>3, <3>1, Zenon
    <3> QED BY <1>7, <2>2, <2>5, <3>2, Zenon
  <2> QED BY <2>4, <2>5
<1>13. TypeOK'
  <2>1. in' \in [Streams -> Seq(Unit)] /\ kernel' \in [Streams -> Seq(Unit)]
    BY <1>1, <1>2, <1>7, <1>12 DEF TypeOK
  <2>2. \A t \in Streams : Len(kernel'[t]) <= Capacity
    <3>1. Len(kernel'[s]) <= Capacity
      BY <1>3, <1>6, <1>7, <1>9 DEF ChannelAssumption
    <3> QED BY <1>9, <3>1 DEF TypeOK
  <2>3. UNCHANGED <<mode, source, count, unfinished, out, msg>>
    BY DEF Read
  <2> QED BY <2>1, <2>2, <2>3 DEF TypeOK
<1>14. ReadInv'
  <2>1. Len(in'[s]) <= FrameLength(in'[s][1].frame)
    <3>1. Len(in'[s]) = Len(in[s]) + n /\ in'[s][1] = IF in[s] = <<>> THEN x[1] ELSE in[s][1]
      BY <1>9, <1>12
    <3>2. CASE in[s] = <<>>
      <4>1. Len(in'[s]) = n /\ n <= HeaderSize
        BY <1>5, <1>6, <3>1, <3>2 DEF ReadSize, ChannelAssumption
      <4>2. in'[s][1].frame \in Frame
        BY <1>7, <3>1, <3>2 DEF Unit
      <4>3. HeaderSize <= FrameLength(in'[s][1].frame) /\ FrameLength(in'[s][1].frame) \in Nat
        BY <4>2, UnitsOfFrame
      <4> QED BY <1>6, <4>1, <4>3 DEF ChannelAssumption
    <3>3. CASE in[s] # <<>>
      <4> DEFINE l == FrameLength(in[s][1].frame) m == Len(in[s]) r == ReadSize(in[s])
      <4>1. l \in Nat /\ HeaderSize <= l /\ m \in Nat /\ r = (IF m < HeaderSize THEN HeaderSize - m ELSE l - m)
        BY <1>4, <3>3 DEF ReadSize
      <4>2. n \in Nat /\ n <= r
        BY <1>6
      <4>3. Len(in'[s]) = m + n /\ FrameLength(in'[s][1].frame) = l
        BY <3>1, <3>3
      <4> HIDE DEF l, m, r
      <4>4. m + n <= l
        BY <4>1, <4>2 DEF ChannelAssumption
      <4> QED BY <4>3, <4>4
    <3> QED BY <3>2, <3>3
  <2>2. mode'[s[2]] = "recv" /\ source'[s[2]] = s
    BY <1>1 DEF Read
  <2>3. \A t \in Streams : t # s /\ in'[t] # <<>> =>
          /\ Len(in'[t]) <= FrameLength(in'[t][1].frame)
          /\ mode'[t[2]] = "recv" /\ source'[t[2]] = t
    BY <1>9 DEF ReadInv, Read
  <2> QED BY <2>1, <2>2, <2>3 DEF ReadInv
<1>15. Still
  <2>1. \A t \in Streams : t # s => InTransit(t)' = InTransit(t)
    BY <1>9 DEF InTransit
  <2> QED BY <1>9, <1>11, <2>1 DEF Still
<1> QED BY <1>13, <1>14, <1>15

\* What follows equally long first parts of the same sequence is the same.
LEMMA SameRest ==
  ASSUME NEW S, NEW a \in Seq(S), NEW u \in Seq(S), NEW b \in Seq(S), NEW c \in Seq(S),
         Len(a) = Len(u), a \o b = u \o c
  PROVE  b = c
<1> DEFINE n == Len(a) lb == Len(b) lc == Len(c)
<1>1. n \in Nat /\ lb \in Nat /\ lc \in Nat /\ n + lb = n + lc
  <2>1. Len(a \o b) = Len(a) + Len(b) /\ Len(u \o c) = Len(u) + Len(c)
    BY ConcatProperties
  <2> QED BY <2>1, LenProperties
<1>2. lb = lc
  <2> HIDE DEF n, lb, lc
  <2> QED BY <1>1
<1>3. ASSUME NEW i \in 1..Len(b)
      PROVE  b[i] = c[i]
  <2>1. (a \o b)[Len(a) + i] = b[i] /\ (u \o c)[Len(u) + i] = c[i]
    BY <1>1, <1>2
  <2> QED BY <2>1
<1> QED BY <1>2, <1>3, SeqEqual

LEMMA FrameReceivedTypes ==
  ASSUME ChannelAssumption, Inv, NEW p \in Processes, FrameReceived(p)
  PROVE  TypeOK' /\ ReadInv' /\ \E s \in Streams : ReceivedFrom(s)
<1>1. PICK s \in To(p) : s = source[p]
  BY DEF FrameReceived, Inv, TypeOK
<1> DEFINE f == in[s][1].frame
           frames == FramesInTransit(s)
           rest == kernel[s] \o out[s]
<1>2. /\ mode[p] = "recv" /\ source[p] = s /\ s \in Streams /\ s[2] = p
      /\ in[s] # <<>> /\ Len(in[s]) >= FrameLength(f)
      /\ msg' = [msg EXCEPT ![s] = f]
      /\ in' = [in EXCEPT ![s] = SubSeq(@, FrameLength(f) + 1, Len(@))]
      /\ mode' = [mode EXCEPT ![p] = "run"] /\ source' = [source EXCEPT ![p] = NoStream]
      /\ UNCHANGED <<count, unfinished, out, kernel>>
  BY <1>1 DEF FrameReceived, FrameComplete, To
<1>3. /\ frames \in Seq(Frame) /\ frames # <<>> /\ f \in Frame /\ f = Head(frames)
      /\ InTransit(s) = Units(f) \o Joined(Tail(frames))
      /\ Len(in[s]) \in Nat \ {0} /\ Len(in[s]) <= FrameLength(f)
  BY <1>2, FirstFrame
<1>4. FrameLength(f) \in Nat \ {0} /\ Units(f) \in Seq(Unit) /\ Len(Units(f)) = FrameLength(f)
  BY <1>3, UnitsOfFrame
<1>5. Len(in[s]) = FrameLength(f)
  <2> DEFINE l == Len(in[s]) m == FrameLength(f)
  <2>1. l \in Nat /\ m \in Nat /\ l >= m /\ l <= m
    BY <1>2, <1>3, <1>4
  <2> HIDE DEF l, m
  <2>2. l = m
    BY <2>1
  <2> QED BY <2>2 DEF l, m
<1>6. /\ in[s] \in Seq(Unit) /\ rest \in Seq(Unit) /\ InTransit(s) = in[s] \o rest
      /\ kernel[s] \in Seq(Unit) /\ out[s] \in Seq(Unit)
  BY <1>2, InTransitType DEF Inv
<1>7. Joined(Tail(frames)) \in Seq(Unit)
  <2>1. Tail(frames) \in Seq(Frame)
    BY <1>3, HeadTailProperties
  <2> QED BY <1>3, <2>1, JoinedFrames
<1>8. rest = Joined(Tail(frames))
  <2> DEFINE a == in[s] u == Units(f) j == Joined(Tail(frames))
  <2>1. a \in Seq(Unit) /\ u \in Seq(Unit) /\ j \in Seq(Unit) /\ rest \in Seq(Unit)
        /\ Len(a) = Len(u) /\ a \o rest = u \o j
    BY <1>3, <1>4, <1>5, <1>6, <1>7
  <2> HIDE DEF a, u, j, rest
  <2>2. rest = j
    BY <2>1, SameRest, Zenon
  <2> QED BY <2>2 DEF j
<1>9. in'[s] = <<>>
  <2>1. in'[s] = SubSeq(in[s], Len(in[s]) + 1, Len(in[s]))
    BY <1>2, <1>5 DEF Inv, TypeOK
  <2> QED BY <1>3, <2>1, SubSeqEmpty
<1>10. /\ \A t \in Streams : t # s => in'[t] = in[t]
       /\ in' \in [Streams -> Seq(Unit)]
  <2>1. in \in [Streams -> Seq(Unit)] /\ DOMAIN in' = Streams
    BY <1>2 DEF Inv, TypeOK
  <2>2. in' = [t \in Streams |-> in'[t]]
    BY <1>2, <2>1
  <2>3. \A t \in Streams : t # s => in'[t] = in[t]
    BY <1>2, <2>1
  <2>4. \A t \in Streams : in'[t] \in Seq(Unit)
    BY <1>9, <2>1, <2>3, EmptySeq
  <2> QED BY <2>2, <2>3, <2>4
<1>11. InTransit(s)' = rest
  <2>1. InTransit(s)' = (<<>> \o kernel[s]) \o out[s]
    BY <1>2, <1>9 DEF InTransit
  <2>2. <<>> \o kernel[s] = kernel[s]
    BY <1>6, ConcatEmptySeq
  <2> QED BY <2>1, <2>2
<1>12. Others(s)
  BY <1>2, <1>10 DEF Others, InTransit
<1>13. TypeOK'
  <2>1. msg' \in [Streams -> Frame \cup {NoFrame}]
    BY <1>2, <1>3 DEF Inv, TypeOK
  <2>2. /\ mode' \in [Processes -> {"run", "poll", "recv"}]
        /\ source' \in [Processes -> Streams \cup {NoStream}]
        /\ \A q \in Processes : mode'[q] = "recv" => source'[q] \in To(q)
    BY <1>2 DEF Inv, TypeOK
  <2>3. UNCHANGED <<count, unfinished, out, kernel>>
    BY <1>2
  <2> QED BY <1>10, <2>1, <2>2, <2>3 DEF Inv, TypeOK
<1>14. ReadInv'
  <2>1. ASSUME NEW t \in Streams, in'[t] # <<>>
        PROVE  /\ Len(in'[t]) <= FrameLength(in'[t][1].frame)
               /\ mode'[t[2]] = "recv" /\ source'[t[2]] = t
    <3>1. t # s /\ in'[t] = in[t]
      BY <1>9, <1>10, <2>1
    <3>2. Len(in[t]) <= FrameLength(in[t][1].frame) /\ mode[t[2]] = "recv" /\ source[t[2]] = t
      BY <2>1, <3>1 DEF Inv, ReadInv
    <3>3. t[2] # p
      BY <1>2, <3>1, <3>2
    <3>4. mode'[t[2]] = mode[t[2]] /\ source'[t[2]] = source[t[2]]
      BY <1>2, <3>3 DEF Inv, TypeOK, Streams
    <3> QED BY <3>1, <3>2, <3>4
  <2> QED BY <2>1 DEF ReadInv
<1>15. ReceivedFrom(s)
  BY <1>2, <1>3, <1>8, <1>11, <1>12 DEF ReceivedFrom
<1> QED BY <1>2, <1>13, <1>14, <1>15

\* Only receiving changes what is read.
LEMMA KeepsReadInv ==
  ASSUME TypeOK, ReadInv, in' = in,
         \A p \in Processes : mode[p] = "recv" => mode'[p] = "recv" /\ source'[p] = source[p]
  PROVE  ReadInv'
<1>1. ASSUME NEW s \in Streams, in'[s] # <<>>
      PROVE  /\ Len(in'[s]) <= FrameLength(in'[s][1].frame)
             /\ mode'[s[2]] = "recv" /\ source'[s[2]] = s
  <2>1. /\ Len(in[s]) <= FrameLength(in[s][1].frame) /\ mode[s[2]] = "recv" /\ source[s[2]] = s
        /\ s[2] \in Processes
    BY <1>1 DEF ReadInv, Streams
  <2> QED BY <2>1
<1> QED BY <1>1 DEF ReadInv

\* Every step is of one of the three kinds.
LEMMA Steps ==
  ASSUME ChannelAssumption, Inv, Next
  PROVE  /\ TypeOK' /\ ReadInv'
         /\ \/ Still
            \/ \E s \in Streams, f \in Frame : SentOn(s, f)
            \/ \E s \in Streams : ReceivedFrom(s)
<1>1. TypeOK /\ ReadInv
  BY DEF Inv
<1>2. PICK p \in Processes : Send(p) \/ Wait(p) \/ Progress(p)
  BY DEF Next
<1>3. CASE Send(p)
  <2>1. PICK s \in From(p), f \in Frame : SendFrame(p, s, f)
    BY <1>3 DEF Send
  <2>2. TypeOK' /\ SentOn(s, f) /\ s \in Streams
    BY <1>1, <2>1, SendTypes DEF From
  <2>3. ReadInv'
    BY <1>1, <2>1, KeepsReadInv DEF SendFrame
  <2> QED BY <2>2, <2>3
<1>4. CASE StartPoll(p) \/ \E s \in To(p) : StartReceive(p, s) \/ PollReturns(p, s)
  <2>1. TypeOK' /\ Still /\ in' = in
    BY <1>1, <1>4, WaitTypes
  <2>2. \A q \in Processes : mode[q] = "recv" => mode'[q] = "recv" /\ source'[q] = source[q]
    <3>1. /\ mode[p] # "recv"
          /\ \A q \in Processes : q # p => mode'[q] = mode[q] /\ source'[q] = source[q]
      BY <1>1, <1>4 DEF StartPoll, StartReceive, PollReturns, TypeOK
    <3> QED BY <3>1
  <2> QED BY <1>1, <2>1, <2>2, KeepsReadInv
<1>5. CASE Flush(p)
  <2>1. TypeOK' /\ Still
    BY <1>1, <1>5, FlushTypes
  <2>2. ReadInv'
    BY <1>1, <1>5, KeepsReadInv DEF Flush
  <2> QED BY <2>1, <2>2
<1>6. CASE Read(p)
  BY <1>1, <1>6, ReadTypes
<1>7. CASE FrameReceived(p)
  BY <1>7, FrameReceivedTypes
<1> QED BY <1>2, <1>3, <1>4, <1>5, <1>6, <1>7 DEF Wait, Progress

-----------------------------------------------------------------------------
(* What a step does to the frames *)

LEMMA FramesType ==
  ASSUME ChannelAssumption, Inv, NEW s \in Streams
  PROVE  FramesInTransit(s) \in Seq(Frame)
BY InTransitType, FramesConcat DEF Inv, FramesInTransit

LEMMA FramesSent ==
  ASSUME ChannelAssumption, Inv, NEW s \in Streams, NEW f \in Frame, SentOn(s, f)
  PROVE  /\ FramesInTransit(s)' = Append(FramesInTransit(s), f)
         /\ InTransit(s)' = Joined(FramesInTransit(s)')
<1> DEFINE units == InTransit(s) frames == FramesInTransit(s) u == Units(f)
<1>1. units \in Seq(Unit) /\ u \in Seq(Unit) /\ frames = Frames(units) /\ units = Joined(frames)
  BY InTransitType, UnitsOfFrame DEF Inv, StreamsIntact, FramesInTransit
<1>2. InTransit(s)' = units \o u /\ FramesInTransit(s)' = Frames(units \o u)
  BY DEF SentOn, FramesInTransit
<1>3. Frames(u) = <<f>>
  BY FramesOfUnits
<1> HIDE DEF units, frames, u
<1>4. Frames(units \o u) = frames \o <<f>> /\ frames \in Seq(Frame)
  BY <1>1, <1>3, FramesConcat
<1>5. Append(frames, f) = frames \o <<f>> /\ <<f>> \in Seq(Frame)
  BY <1>4, AppendIsConcat
<1>6. Joined(frames \o <<f>>) = units \o u
  <2>1. Joined(frames \o <<f>>) = Joined(frames) \o Joined(<<f>>) /\ Joined(<<f>>) = Units(f)
    BY <1>4, <1>5, JoinedFrames, Zenon
  <2> QED BY <1>1, <2>1 DEF u
<1> QED BY <1>2, <1>4, <1>5, <1>6 DEF frames

LEMMA FramesReceived ==
  ASSUME ChannelAssumption, Inv, NEW s \in Streams, ReceivedFrom(s)
  PROVE  /\ FramesInTransit(s)' = Tail(FramesInTransit(s))
         /\ InTransit(s)' = Joined(FramesInTransit(s)')
         /\ Head(FramesInTransit(s)) \in Frame
<1> DEFINE units == InTransit(s) frames == FramesInTransit(s)
           f == Head(frames) tail == Tail(frames)
<1>1. units \in Seq(Unit) /\ frames = Frames(units) /\ units = Joined(frames) /\ frames # <<>>
  BY InTransitType DEF Inv, StreamsIntact, FramesInTransit, ReceivedFrom
<1>2. InTransit(s)' = Joined(tail) /\ FramesInTransit(s)' = Frames(Joined(tail))
  BY DEF ReceivedFrom, FramesInTransit
<1>3. frames \in Seq(Frame)
  BY <1>1, FramesConcat
<1>4. f \in Frame /\ tail \in Seq(Frame) /\ frames = <<f>> \o tail /\ <<f>> \in Seq(Frame)
  BY <1>1, <1>3, HeadTailProperties
<1> HIDE DEF units, frames, f, tail
<1>5. units = Units(f) \o Joined(tail) /\ Joined(tail) \in Seq(Unit) /\ Units(f) \in Seq(Unit)
  <2>1. Joined(<<f>> \o tail) = Joined(<<f>>) \o Joined(tail) /\ Joined(<<f>>) = Units(f)
    BY <1>4, JoinedFrames, Zenon
  <2>2. Joined(tail) \in Seq(Unit) /\ Units(f) \in Seq(Unit)
    BY <1>4, JoinedFrames, UnitsOfFrame, Zenon
  <2> QED BY <1>1, <1>4, <2>1, <2>2, Zenon
<1>6. frames = <<f>> \o Frames(Joined(tail)) /\ Frames(Joined(tail)) \in Seq(Frame)
  <2>1. Frames(Units(f) \o Joined(tail)) = Frames(Units(f)) \o Frames(Joined(tail))
    BY <1>5, FramesConcat, Zenon
  <2>2. Frames(Units(f)) = <<f>> /\ Frames(Joined(tail)) \in Seq(Frame)
    BY <1>4, <1>5, FramesOfUnits, FramesConcat
  <2> QED BY <1>1, <1>5, <2>1, <2>2, Zenon
<1>7. Frames(Joined(tail)) = tail
  <2> DEFINE x == Frames(Joined(tail)) one == <<f>>
  <2>1. Len(one) = Len(one) /\ one \in Seq(Frame) /\ x \in Seq(Frame) /\ tail \in Seq(Frame) /\ one \o x = one \o tail
    BY <1>4, <1>6
  <2> HIDE DEF x, one
  <2>2. x = tail
    BY <2>1, SameRest, Zenon
  <2> QED BY <2>2 DEF x
<1> QED BY <1>2, <1>4, <1>7 DEF frames, f, tail

-----------------------------------------------------------------------------
(* The theorems *)

LEMMA InitInv ==
  ASSUME ChannelAssumption, Init
  PROVE  Inv
<1>1. TypeOK
  <2>1. <<>> \in Seq(Unit) /\ Len(<<>>) = 0
    BY EmptySeq
  <2> QED BY <2>1 DEF Init, TypeOK, ChannelAssumption
<1>2. ReadInv
  BY DEF Init, ReadInv
<1>3. ASSUME NEW s \in Streams
      PROVE  InTransit(s) = <<>> /\ FramesInTransit(s) = <<>>
  <2>1. InTransit(s) = <<>>
    <3>1. in[s] = <<>> /\ kernel[s] = <<>> /\ out[s] = <<>>
      BY DEF Init
    <3>2. <<>> \o <<>> = <<>>
      OBVIOUS
    <3> QED BY <3>1, <3>2 DEF InTransit
  <2>2. Len(<<>>) = 0 /\ Frames(<<>>) = FlattenSeq([i \in 1..Len(<<>>) |-> Ended((<<>>)[i])])
    BY EmptySeq, FramesFlat
  <2>3. [i \in 1..Len(<<>>) |-> Ended((<<>>)[i])] = [i \in 1..0 |-> <<>>]
    BY <2>2
  <2>4. Frames(<<>>) = <<>>
    BY <2>2, <2>3, FlattenSeqOfEmpty
  <2> QED BY <2>1, <2>4 DEF FramesInTransit
<1>4. StreamsIntact
  <2>1. Joined(<<>>) = <<>>
    <3>1. [i \in DOMAIN <<>> |-> Units((<<>>)[i])] = [i \in 1..0 |-> <<>>]
      OBVIOUS
    <3> QED BY <3>1, FlattenSeqOfEmpty DEF Joined
  <2> QED BY <1>3, <2>1 DEF StreamsIntact
<1> QED BY <1>1, <1>2, <1>4 DEF Inv

LEMMA OtherFrames ==
  ASSUME Inv, NEW t \in Streams, InTransit(t)' = InTransit(t)
  PROVE  FramesInTransit(t)' = FramesInTransit(t) /\ InTransit(t)' = Joined(FramesInTransit(t)')
BY DEF Inv, StreamsIntact, FramesInTransit

LEMMA NextInv ==
  ASSUME ChannelAssumption, Inv, [Next]_vars
  PROVE  Inv'
<1>1. CASE UNCHANGED vars
  <2>1. TypeOK' /\ ReadInv'
    BY <1>1 DEF Inv, TypeOK, ReadInv, vars
  <2>2. \A s \in Streams : InTransit(s)' = InTransit(s)
    BY <1>1 DEF InTransit, vars
  <2>3. StreamsIntact'
    BY <2>2, OtherFrames DEF StreamsIntact
  <2> QED BY <2>1, <2>3 DEF Inv
<1>2. CASE Next
  <2>1. /\ TypeOK' /\ ReadInv'
        /\ \/ Still
           \/ \E s \in Streams, f \in Frame : SentOn(s, f)
           \/ \E s \in Streams : ReceivedFrom(s)
    BY <1>2, Steps
  <2>2. CASE Still
    BY <2>1, <2>2, OtherFrames DEF Still, Inv, StreamsIntact
  <2>3. ASSUME NEW s \in Streams, NEW f \in Frame, SentOn(s, f)
        PROVE  StreamsIntact'
    <3>1. InTransit(s)' = Joined(FramesInTransit(s)')
      BY <2>3, FramesSent
    <3>2. \A t \in Streams : t # s => InTransit(t)' = Joined(FramesInTransit(t)')
      BY <2>3, OtherFrames DEF SentOn, Others
    <3> QED BY <3>1, <3>2 DEF StreamsIntact
  <2>4. ASSUME NEW s \in Streams, ReceivedFrom(s)
        PROVE  StreamsIntact'
    <3>1. InTransit(s)' = Joined(FramesInTransit(s)')
      BY <2>4, FramesReceived
    <3>2. \A t \in Streams : t # s => InTransit(t)' = Joined(FramesInTransit(t)')
      BY <2>4, OtherFrames DEF ReceivedFrom, Others
    <3> QED BY <3>1, <3>2 DEF StreamsIntact
  <2> QED BY <2>1, <2>2, <2>3, <2>4 DEF Inv
<1> QED BY <1>1, <1>2

LEMMA Invariant == Spec => []Inv
<1>1. Init => Inv
  BY ChannelAssumption, InitInv
<1>2. Inv /\ [Next]_vars => Inv'
  BY ChannelAssumption, NextInv
<1> QED BY <1>1, <1>2, PTL DEF Spec

\* Each variable has its type, the streams hold units of frames, and no socket
\* buffer more than its capacity (Channel::try_flush).
THEOREM TypeCorrect == Spec => []TypeOK
<1>1. Inv => TypeOK
  BY DEF Inv
<1> QED BY <1>1, Invariant, PTL

\* Whatever part of its output a process can write at a time, and whatever part of
\* a frame it can read, a stream is the frames that were sent and not received, one
\* after the other (Channel::send_frame, try_flush, try_recv_frame).
THEOREM StreamsStayIntact == Spec => []StreamsIntact
<1>1. Inv => StreamsIntact
  BY DEF Inv
<1> QED BY <1>1, Invariant, PTL

\* Refinement: the channels are queues of whole frames. What is sent arrives once,
\* in order, and as it was sent (Channel::send_frame and recv_frame).
THEOREM QueuesOfFrames == Spec => ImplementsFIFO
<1>1. ASSUME Init
      PROVE  FIFO!Init
  <2>1. Inv
    BY <1>1, InitInv, ChannelAssumption
  <2>2. \A s \in Streams : FramesInTransit(s) = <<>>
    <3>1. \A s \in Streams : InTransit(s) = <<>>
      <4>1. <<>> \o <<>> = <<>>
        OBVIOUS
      <4> QED BY <1>1, <4>1 DEF Init, InTransit
    <3>2. Frames(<<>>) = <<>>
      <4>1. Len(<<>>) = 0 /\ Frames(<<>>) = FlattenSeq([i \in 1..Len(<<>>) |-> Ended((<<>>)[i])])
        BY EmptySeq, FramesFlat
      <4>2. [i \in 1..Len(<<>>) |-> Ended((<<>>)[i])] = [i \in 1..0 |-> <<>>]
        BY <4>1
      <4> QED BY <4>1, <4>2, FlattenSeqOfEmpty
    <3> QED BY <3>1, <3>2 DEF FramesInTransit
  <2> QED BY <1>1, <2>2 DEF Init, FIFO!Init
<1>2. ASSUME Inv, [Next]_vars
      PROVE  [FIFO!Next]_(FIFO!vars)
  <2> DEFINE queue == [s \in Streams |-> FramesInTransit(s)]
  <2>1. CASE UNCHANGED vars
    <3>1. \A s \in Streams : FramesInTransit(s)' = FramesInTransit(s)
      BY <2>1 DEF FramesInTransit, InTransit, vars
    <3>2. queue' = queue /\ msg' = msg
      BY <2>1, <3>1 DEF vars
    <3> QED BY <3>2 DEF FIFO!vars
  <2>2. CASE Still
    <3>1. \A s \in Streams : FramesInTransit(s)' = FramesInTransit(s)
      BY <1>2, <2>2, OtherFrames DEF Still
    <3>2. queue' = queue /\ msg' = msg
      BY <2>2, <3>1 DEF Still
    <3> QED BY <3>2 DEF FIFO!vars
  <2>3. ASSUME NEW s \in Streams, NEW f \in Frame, SentOn(s, f)
        PROVE  FIFO!Next
    <3>1. FramesInTransit(s)' = Append(FramesInTransit(s), f)
      BY <1>2, <2>3, ChannelAssumption, FramesSent
    <3>2. \A t \in Streams : t # s => FramesInTransit(t)' = FramesInTransit(t)
      BY <1>2, <2>3, OtherFrames DEF SentOn, Others
    <3>3. queue' = [queue EXCEPT ![s] = Append(@, f)]
      BY <3>1, <3>2
    <3>4. FIFO!Send(s, f)
      BY <2>3, <3>3 DEF FIFO!Send, SentOn
    <3>5. queue'[s] # queue[s]
      <4>1. FramesInTransit(s) \in Seq(Frame)
        BY <1>2, ChannelAssumption, FramesType
      <4>2. Append(FramesInTransit(s), f) # FramesInTransit(s)
        BY <4>1
      <4> QED BY <3>1, <4>2
    <3> QED BY <3>4, <3>5 DEF FIFO!Next
  <2>4. ASSUME NEW s \in Streams, ReceivedFrom(s)
        PROVE  FIFO!Next
    <3>1. FramesInTransit(s)' = Tail(FramesInTransit(s))
      BY <1>2, <2>4, ChannelAssumption, FramesReceived
    <3>2. \A t \in Streams : t # s => FramesInTransit(t)' = FramesInTransit(t)
      BY <1>2, <2>4, OtherFrames DEF ReceivedFrom, Others
    <3>3. queue' = [queue EXCEPT ![s] = Tail(@)]
      BY <3>1, <3>2
    <3>4. queue[s] = FramesInTransit(s) /\ FramesInTransit(s) # <<>>
          /\ msg' = [msg EXCEPT ![s] = Head(queue[s])]
      BY <2>4 DEF ReceivedFrom
    <3>5. FIFO!Receive(s)
      BY <3>3, <3>4 DEF FIFO!Receive
    <3>6. queue'[s] # queue[s]
      <4>1. FramesInTransit(s) \in Seq(Frame)
        BY <1>2, ChannelAssumption, FramesType
      <4>2. Tail(FramesInTransit(s)) # FramesInTransit(s)
        BY <3>4, <4>1
      <4> QED BY <3>1, <4>2
    <3> QED BY <3>5, <3>6 DEF FIFO!Next
  <2> QED BY <1>2, <2>1, <2>2, <2>3, <2>4, ChannelAssumption, Steps
<1> QED BY <1>1, <1>2, Invariant, PTL DEF Spec, ImplementsFIFO, FIFO!Spec

\* No processes wait for each other with full socket buffers (Channel::wait): for a
\* process that waits for a frame there is something to read or return, or its sender
\* writes some of it as soon as it waits itself, whomever it waits for.
THEOREM NobodyIsStuck == Spec => []NobodyStuck
<1>1. ASSUME Inv
      PROVE  NobodyStuck
  <2> SUFFICES ASSUME NEW p \in Processes, NEW s \in To(p), FramesInTransit(s) # <<>>,
                      mode[p] = "poll" \/ (mode[p] = "recv" /\ source[p] = s),
                      kernel[s] = <<>>, ~(mode[p] = "recv" /\ FrameComplete(in[s]))
               PROVE  s \in Writable(s[1])
    BY DEF NobodyStuck
  <2>1. s \in Streams /\ s[2] = p /\ s \in From(s[1])
    BY DEF To, From
  <2>2. out[s] # <<>>
    <3>1. SUFFICES ASSUME out[s] = <<>>
                   PROVE  FALSE
      OBVIOUS
    <3>2. InTransit(s) = in[s] /\ in[s] \in Seq(Unit)
      <4>1. in[s] \in Seq(Unit)
        BY <1>1, <2>1 DEF Inv, TypeOK
      <4> QED BY <3>1, <4>1, ConcatEmptySeq DEF InTransit
    <3>3. in[s] # <<>>
      <4>1. SUFFICES ASSUME in[s] = <<>>
                     PROVE  FramesInTransit(s) = <<>>
        OBVIOUS
      <4>2. Len(<<>>) = 0 /\ Frames(<<>>) = FlattenSeq([i \in 1..Len(<<>>) |-> Ended((<<>>)[i])])
        BY EmptySeq, FramesFlat
      <4>3. [i \in 1..Len(<<>>) |-> Ended((<<>>)[i])] = [i \in 1..0 |-> <<>>]
        BY <4>2
      <4> QED BY <3>2, <4>1, <4>2, <4>3, FlattenSeqOfEmpty DEF FramesInTransit
    <3> DEFINE f == in[s][1].frame tail == Tail(FramesInTransit(s))
    <3>4. /\ FramesInTransit(s) \in Seq(Frame) /\ f \in Frame
          /\ in[s] = Units(f) \o Joined(tail)
      BY <1>1, <2>1, <3>2, <3>3, ChannelAssumption, FirstFrame
    <3>5. Joined(tail) \in Seq(Unit) /\ Units(f) \in Seq(Unit) /\ Len(Units(f)) = FrameLength(f)
          /\ FrameLength(f) \in Nat
      <4>1. tail \in Seq(Frame)
        BY <3>4, HeadTailProperties
      <4> QED BY <3>4, <4>1, ChannelAssumption, JoinedFrames, UnitsOfFrame
    <3>6. Len(in[s]) >= FrameLength(f)
      <4> DEFINE u == Units(f) j == Joined(tail)
      <4>1. u \in Seq(Unit) /\ j \in Seq(Unit) /\ in[s] = u \o j /\ Len(u) = FrameLength(f)
        BY <3>4, <3>5
      <4> HIDE DEF u, j, f
      <4>2. Len(u \o j) = Len(u) + Len(j) /\ Len(j) \in Nat /\ Len(u) \in Nat
        BY <4>1, ConcatProperties, LenProperties
      <4>3. Len(u \o j) >= Len(u)
        <5> DEFINE a == Len(u) b == Len(j) c == Len(u \o j)
        <5>1. a \in Nat /\ b \in Nat /\ c = a + b
          BY <4>2
        <5> HIDE DEF a, b, c
        <5>2. c >= a
          BY <5>1
        <5> QED BY <5>2 DEF a, c
      <4> QED BY <4>1, <4>3
    <3>7. FrameComplete(in[s])
      BY <3>3, <3>6 DEF FrameComplete
    <3>8. mode[p] = "recv"
      BY <1>1, <2>1, <3>3 DEF Inv, ReadInv
    <3> QED BY <3>7, <3>8
  <2>3. Len(kernel[s]) < Capacity
    <3>1. Len(<<>>) = 0
      OBVIOUS
    <3> QED BY <3>1, ChannelAssumption DEF ChannelAssumption
  <2> QED BY <2>1, <2>2, <2>3 DEF Writable, FlushesOf
<1> QED BY <1>1, Invariant, PTL
=============================================================================
