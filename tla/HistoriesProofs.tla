--------------------------- MODULE HistoriesProofs ---------------------------
(***************************************************************************)
(* Histories: proofs for any number of Runs, replies, calls, blocks and    *)
(* skills, and for any history that the host brings along.                 *)
(***************************************************************************)
EXTENDS Histories, SequenceTheorems, FiniteSetTheorems, TLAPS

-----------------------------------------------------------------------------
(* The invariants                                                          *)

\* Messages as the code makes them, with marks and images up to n.
Proper(n) ==
  {m \in Message :
     /\ m.calls # <<>> => m.role = "assistant"
     /\ m.role = "tool" <=> m.id # None
     /\ m.mark # 0 => m.role = "tool" /\ m.mark <= n
     /\ m.images # <<>> => m.role = "user"
     /\ m.images \in Seq(1 .. n)
     /\ m.parts # <<>> <=> m.role = "system"}

\* Typing, and where in a Run the last message is of which kind.
TypeInv ==
  /\ turn \in 1 .. Turns /\ count \in 0 .. MaxCalls /\ marks \in 0 .. count
  /\ used \subseteq Ids /\ repeated \in BOOLEAN
  /\ pc \in {"model", "called", "answered", "limit", "wrap", "over"}
  /\ msgs \in Seq(Proper(marks)) /\ msgs # <<>>
  /\ said \in Seq(Blocks)
  /\ said # <<>> =>
       Last(msgs) = Assistant(OfKind(said, "text") # <<>>, OfKind(said, "call"))
  /\ pc = "called" =>
       /\ Last(msgs).role = "assistant" /\ Last(msgs).calls # <<>>
       /\ marks + Len(Last(msgs).calls) <= count
  /\ pc = "answered" => Last(msgs).role = "tool"
  /\ pc \in {"limit", "wrap"} => said = <<>>

\* The parts of a system message that has all it should have, once.
GoodParts(ps) ==
  IsInjective(ps) /\ "guide" \in ToSet(ps) /\ ("prompt" \in ToSet(ps) <=> Prompt)

\* A history with one system message, in front.
SystemFirst(ms) ==
  (\A p \in DOMAIN ms : ms[p].role = "system" <=> p = 1) /\ GoodParts(ms[1].parts)

\* The shape of a history at each point.
ShapeInv == TypeInv /\ SystemFirst(msgs)

-----------------------------------------------------------------------------
(* FlattenSeq                                                              *)

\* Induction over the natural numbers, for a set instead of a predicate.
LEMMA NatSetInduction ==
  ASSUME NEW S, 0 \in S, \A n \in Nat : n \in S => n + 1 \in S
  PROVE  Nat \subseteq S
<1>1. IsWellFoundedOn(OpToRel(<, Nat), Nat)
  BY NatLessThanWellFounded
<1>2. ASSUME NEW T, T \subseteq Nat, T # {}
      PROVE  \E x \in T : \A y \in T : ~ (<<y, x>> \in OpToRel(<, Nat))
  BY <1>1, <1>2, WFMin
<1>3. SUFFICES ASSUME Nat \ S # {} PROVE FALSE
  OBVIOUS
<1>4. PICK x \in Nat \ S : \A y \in Nat \ S : ~ (<<y, x>> \in OpToRel(<, Nat))
  BY <1>2, <1>3
<1>5. \A y \in Nat \ S : ~ (y < x)
  BY <1>4 DEF OpToRel
<1>6. x # 0 /\ x - 1 \in Nat
  OBVIOUS
<1>7. QED
  BY <1>5, <1>6

\* What FlattenSeq has put together of the first i of n sequences.
Joined(ss, n) ==
  CHOOSE f : f = [i \in 1 .. n |-> IF i = 1 THEN ss[i] ELSE f[i - 1] \o ss[i]]

\* The recursive function behind FlattenSeq exists: it satisfies its own equation.
LEMMA JoinedDef ==
  ASSUME NEW ss, NEW n \in Nat
  PROVE  Joined(ss, n) = [i \in 1 .. n |-> IF i = 1 THEN ss[i] ELSE Joined(ss, n)[i - 1] \o ss[i]]
<1> DEFINE Eqn(f, m) == f = [i \in 1 .. m |-> IF i = 1 THEN ss[i] ELSE f[i - 1] \o ss[i]]
           S == {m \in Nat : \E f : Eqn(f, m)}
<1>1. 0 \in S
  <2>1. Eqn([i \in 1 .. 0 |-> 0], 0)
    OBVIOUS
  <2>2. QED
    BY <2>1
<1>2. ASSUME NEW m \in Nat, m \in S
      PROVE  m + 1 \in S
  <2>1. PICK f : Eqn(f, m)
    BY <1>2
  <2> DEFINE g == [i \in 1 .. m + 1 |->
                     IF i = m + 1 THEN IF i = 1 THEN ss[i] ELSE f[i - 1] \o ss[i] ELSE f[i]]
  <2>2. \A i \in 1 .. m : f[i] = IF i = 1 THEN ss[i] ELSE f[i - 1] \o ss[i]
    BY <2>1
  <2>3. \A i \in 1 .. m + 1 : g[i] = IF i = 1 THEN ss[i] ELSE f[i - 1] \o ss[i]
    BY <2>2
  <2>4. \A i \in 1 .. m + 1 : i # 1 => i - 1 \in 1 .. m + 1 /\ i - 1 # m + 1
    OBVIOUS
  <2>5. \A i \in 1 .. m + 1 : i # 1 => g[i - 1] = f[i - 1]
    BY <2>4
  <2>6. \A i \in 1 .. m + 1 : g[i] = IF i = 1 THEN ss[i] ELSE g[i - 1] \o ss[i]
    BY <2>3, <2>5
  <2>7. Eqn(g, m + 1)
    <3> HIDE DEF g
    <3>1. g = [i \in 1 .. m + 1 |-> g[i]]
      BY DEF g
    <3>2. QED
      BY <2>6, <3>1
  <2>8. m + 1 \in Nat
    OBVIOUS
  <2>9. QED
    <3> HIDE DEF g, Eqn
    <3>1. QED
      BY <2>7, <2>8
<1>3. \E f : Eqn(f, n)
  <2> HIDE DEF S
  <2>1. n \in S
    BY <1>1, <1>2, NatSetInduction
  <2>2. QED
    BY <2>1 DEF S
<1>4. QED
  BY <1>3 DEF Joined

\* The same from no sequence at all.
Part(ss, m) == IF m = 0 THEN <<>> ELSE Joined(ss, Len(ss))[m]

\* It grows by one sequence at a time, and FlattenSeq is the whole of it.
LEMMA PartStep ==
  ASSUME NEW S, NEW ss \in Seq(Seq(S))
  PROVE  /\ Part(ss, 0) = <<>>
         /\ \A m \in 0 .. Len(ss) - 1 : Part(ss, m + 1) = Part(ss, m) \o ss[m + 1]
         /\ FlattenSeq(ss) = Part(ss, Len(ss))
<1>1. Len(ss) \in Nat /\ \A i \in 1 .. Len(ss) : ss[i] \in Seq(S)
  OBVIOUS
<1>2. \A i \in 1 .. Len(ss) :
        Joined(ss, Len(ss))[i] = IF i = 1 THEN ss[i] ELSE Joined(ss, Len(ss))[i - 1] \o ss[i]
  <2> DEFINE J == Joined(ss, Len(ss))
  <2>1. J = [i \in 1 .. Len(ss) |-> IF i = 1 THEN ss[i] ELSE J[i - 1] \o ss[i]]
    BY <1>1, JoinedDef
  <2> HIDE DEF J
  <2>2. \A i \in 1 .. Len(ss) : J[i] = IF i = 1 THEN ss[i] ELSE J[i - 1] \o ss[i]
    BY <2>1
  <2> QED
    BY <2>2 DEF J
<1>3. ASSUME NEW m \in 0 .. Len(ss) - 1
      PROVE  Part(ss, m + 1) = Part(ss, m) \o ss[m + 1]
  <2>1. m + 1 \in 1 .. Len(ss) /\ m + 1 # 0 /\ m + 1 - 1 = m
    BY <1>1
  <2>2. Part(ss, m + 1) = IF m = 0 THEN ss[m + 1] ELSE Joined(ss, Len(ss))[m] \o ss[m + 1]
    BY <1>2, <2>1 DEF Part
  <2>3. <<>> \o ss[m + 1] = ss[m + 1]
    BY <1>1, <2>1, ConcatEmptySeq
  <2> QED
    BY <2>2, <2>3 DEF Part
<1>4. FlattenSeq(ss) = Part(ss, Len(ss))
  <2>1. CASE Len(ss) = 0
    BY <2>1 DEF FlattenSeq, Part
  <2>2. CASE Len(ss) # 0
    BY <2>2 DEF FlattenSeq, Part, Joined
  <2> QED
    BY <2>1, <2>2
<1> QED
  BY <1>3, <1>4 DEF Part

\* Flattening sequences over S gives a sequence over S.
LEMMA PartType ==
  ASSUME NEW S, NEW ss \in Seq(Seq(S))
  PROVE  \A m \in 0 .. Len(ss) : Part(ss, m) \in Seq(S)
<1> DEFINE T == {m \in Nat : m <= Len(ss) => Part(ss, m) \in Seq(S)}
<1>1. Len(ss) \in Nat /\ \A i \in 1 .. Len(ss) : ss[i] \in Seq(S)
  OBVIOUS
<1>2. 0 \in T
  <2>1. Part(ss, 0) = <<>> /\ <<>> \in Seq(S)
    BY PartStep, EmptySeq
  <2> QED
    BY <2>1
<1>3. ASSUME NEW m \in Nat, m \in T
      PROVE  m + 1 \in T
  <2> SUFFICES ASSUME m + 1 <= Len(ss)
               PROVE  Part(ss, m + 1) \in Seq(S)
    OBVIOUS
  <2>1. m \in 0 .. Len(ss) - 1 /\ m + 1 \in 1 .. Len(ss)
    BY <1>1
  <2>2. Part(ss, m) \in Seq(S) /\ ss[m + 1] \in Seq(S)
    BY <1>1, <1>3, <2>1
  <2>3. Part(ss, m + 1) = Part(ss, m) \o ss[m + 1]
    BY <2>1, PartStep
  <2>4. Part(ss, m) \o ss[m + 1] \in Seq(S)
    BY <2>2, ConcatProperties
  <2> QED
    BY <2>3, <2>4
<1> HIDE DEF T
<1>4. Nat \subseteq T
  BY <1>2, <1>3, NatSetInduction
<1> QED
  BY <1>1, <1>4 DEF T

\* What has been put together is not touched any more.
LEMMA PartPrefix ==
  ASSUME NEW S, NEW ss \in Seq(Seq(S)), NEW m \in 0 .. Len(ss)
  PROVE  \A n \in m .. Len(ss) :
           /\ Len(Part(ss, m)) <= Len(Part(ss, n))
           /\ \A q \in 1 .. Len(Part(ss, m)) : Part(ss, n)[q] = Part(ss, m)[q]
<1> DEFINE Extends(n) == /\ Len(Part(ss, m)) <= Len(Part(ss, n))
                         /\ \A q \in 1 .. Len(Part(ss, m)) : Part(ss, n)[q] = Part(ss, m)[q]
           T == {d \in Nat : m + d <= Len(ss) => Extends(m + d)}
<1>1. Len(ss) \in Nat /\ \A i \in 1 .. Len(ss) : ss[i] \in Seq(S)
  OBVIOUS
<1>2. 0 \in T
  <2>1. Part(ss, m) \in Seq(S) /\ m + 0 = m
    BY PartType
  <2> QED
    BY <2>1
<1>3. ASSUME NEW d \in Nat, d \in T
      PROVE  d + 1 \in T
  <2> SUFFICES ASSUME m + (d + 1) <= Len(ss)
               PROVE  Extends(m + (d + 1))
    OBVIOUS
  <2> DEFINE n == m + d
  <2>1. n \in 0 .. Len(ss) - 1 /\ m + (d + 1) = n + 1 /\ n + 1 \in 1 .. Len(ss)
    BY <1>1
  <2>2. Extends(n)
    BY <1>1, <1>3
  <2> HIDE DEF n
  <2>3. Part(ss, n) \in Seq(S) /\ Part(ss, m) \in Seq(S) /\ ss[n + 1] \in Seq(S)
    BY <1>1, <2>1, PartType
  <2>4. Part(ss, n + 1) = Part(ss, n) \o ss[n + 1]
    BY <2>1, PartStep
  <2>5. Extends(n + 1)
    BY <2>2, <2>3, <2>4
  <2> QED
    BY <2>1, <2>5
<1> HIDE DEF T
<1>4. Nat \subseteq T
  BY <1>2, <1>3, NatSetInduction
<1>5. ASSUME NEW n \in m .. Len(ss)
      PROVE  Extends(n)
  <2>1. n - m \in Nat /\ m + (n - m) = n /\ n <= Len(ss)
    BY <1>1
  <2>2. n - m \in T
    BY <1>4, <2>1
  <2> QED
    BY <2>1, <2>2 DEF T
<1> QED
  BY <1>5

\* Where the i-th of the sequences starts in the result: behind this position.
At(ss, i) == Len(Part(ss, i - 1))

\* Each sequence starts where the one before it ends.
LEMMA AtStep ==
  ASSUME NEW S, NEW ss \in Seq(Seq(S))
  PROVE  /\ At(ss, 1) = 0
         /\ \A i \in 1 .. Len(ss) + 1 : At(ss, i) \in Nat
         /\ \A i \in 1 .. Len(ss) : At(ss, i + 1) = At(ss, i) + Len(ss[i])
         /\ FlattenSeq(ss) \in Seq(S) /\ Len(FlattenSeq(ss)) = At(ss, Len(ss) + 1)
<1>1. Len(ss) \in Nat /\ \A i \in 1 .. Len(ss) : ss[i] \in Seq(S)
  OBVIOUS
<1>2. \A m \in 0 .. Len(ss) : Part(ss, m) \in Seq(S)
  BY PartType
<1>3. At(ss, 1) = 0
  BY PartStep DEF At
<1>4. ASSUME NEW i \in 1 .. Len(ss) + 1
      PROVE  At(ss, i) \in Nat
  <2>1. i - 1 \in 0 .. Len(ss)
    BY <1>1
  <2> QED
    BY <1>2, <2>1 DEF At
<1>5. ASSUME NEW i \in 1 .. Len(ss)
      PROVE  At(ss, i + 1) = At(ss, i) + Len(ss[i])
  <2>1. i - 1 \in 0 .. Len(ss) - 1 /\ i - 1 \in 0 .. Len(ss) /\ i + 1 - 1 = i /\ i - 1 + 1 = i
    BY <1>1
  <2>2. Part(ss, i) = Part(ss, i - 1) \o ss[i]
    BY <2>1, PartStep
  <2>3. Part(ss, i - 1) \in Seq(S) /\ ss[i] \in Seq(S)
    BY <1>1, <1>2, <2>1
  <2>4. Len(Part(ss, i)) = Len(Part(ss, i - 1)) + Len(ss[i])
    BY <2>2, <2>3, ConcatProperties
  <2>5. At(ss, i + 1) = Len(Part(ss, i)) /\ At(ss, i) = Len(Part(ss, i - 1))
    BY <2>1 DEF At
  <2> QED
    BY <2>4, <2>5
<1>6. FlattenSeq(ss) \in Seq(S) /\ Len(FlattenSeq(ss)) = At(ss, Len(ss) + 1)
  <2>1. FlattenSeq(ss) = Part(ss, Len(ss))
    BY PartStep
  <2>2. Len(ss) + 1 - 1 = Len(ss) /\ Len(ss) \in 0 .. Len(ss)
    BY <1>1
  <2> QED
    BY <1>2, <2>1, <2>2 DEF At
<1> QED
  BY <1>3, <1>4, <1>5, <1>6

\* Each element of each sequence is found in the result.
LEMMA FlattenHas ==
  ASSUME NEW S, NEW ss \in Seq(Seq(S)), NEW i \in 1 .. Len(ss), NEW r \in 1 .. Len(ss[i])
  PROVE  /\ At(ss, i) + r \in 1 .. Len(FlattenSeq(ss))
         /\ FlattenSeq(ss)[At(ss, i) + r] = ss[i][r]
<1>1. Len(ss) \in Nat /\ ss[i] \in Seq(S)
  OBVIOUS
<1>2. i \in 0 .. Len(ss) /\ i - 1 \in 0 .. Len(ss) /\ i - 1 \in 0 .. Len(ss) - 1 /\ i - 1 + 1 = i
  BY <1>1
<1>3. Part(ss, i - 1) \in Seq(S) /\ Part(ss, i) = Part(ss, i - 1) \o ss[i]
  BY <1>2, PartType, PartStep
<1>4. /\ Len(Part(ss, i)) = At(ss, i) + Len(ss[i]) /\ At(ss, i) \in Nat
      /\ Part(ss, i)[At(ss, i) + r] = ss[i][r]
  <2> DEFINE before == Part(ss, i - 1)
             piece  == ss[i]
  <2>1. before \in Seq(S) /\ piece \in Seq(S) /\ Part(ss, i) = before \o piece
    BY <1>1, <1>3
  <2>2. At(ss, i) = Len(before) /\ r \in 1 .. Len(piece)
    BY DEF At
  <2> HIDE DEF before, piece
  <2>3. /\ Len(before \o piece) = Len(before) + Len(piece) /\ Len(before) \in Nat
        /\ (before \o piece)[Len(before) + r] = piece[r]
    BY <2>1, <2>2
  <2>4. Part(ss, i)[At(ss, i) + r] = piece[r] /\ Len(Part(ss, i)) = At(ss, i) + Len(piece)
    BY <2>1, <2>2, <2>3
  <2> QED
    BY <2>2, <2>3, <2>4 DEF piece
<1>5. /\ Len(Part(ss, i)) <= Len(FlattenSeq(ss))
      /\ \A q \in 1 .. Len(Part(ss, i)) : FlattenSeq(ss)[q] = Part(ss, i)[q]
  <2>1. Len(ss) \in i .. Len(ss) /\ FlattenSeq(ss) = Part(ss, Len(ss))
    BY <1>1, PartStep
  <2> QED
    BY <1>2, <2>1, PartPrefix
<1>6. Len(FlattenSeq(ss)) \in Nat /\ Len(ss[i]) \in Nat
  <2>1. FlattenSeq(ss) \in Seq(S)
    BY AtStep
  <2> QED
    BY <1>1, <2>1
<1>7. At(ss, i) + r \in 1 .. Len(Part(ss, i)) /\ At(ss, i) + r \in 1 .. Len(FlattenSeq(ss))
  BY <1>4, <1>5, <1>6
<1> QED
  BY <1>4, <1>5, <1>7

\* And nothing else is.
LEMMA FlattenHasOnly ==
  ASSUME NEW S, NEW ss \in Seq(Seq(S)), NEW q \in 1 .. Len(FlattenSeq(ss))
  PROVE  \E i \in 1 .. Len(ss) : \E r \in 1 .. Len(ss[i]) : q = At(ss, i) + r
<1>1. Len(ss) \in Nat /\ \A i \in 1 .. Len(ss) : ss[i] \in Seq(S) /\ Len(ss[i]) \in Nat
  OBVIOUS
<1>2. q \in Nat /\ q >= 1 /\ q <= At(ss, Len(ss) + 1)
  BY AtStep
<1>3. PICK i \in 1 .. Len(ss) : At(ss, i) < q /\ q <= At(ss, i + 1)
  <2> SUFFICES ASSUME \A i \in 1 .. Len(ss) : ~(At(ss, i) < q /\ q <= At(ss, i + 1))
               PROVE  FALSE
    OBVIOUS
  <2> DEFINE T == {m \in Nat : m <= Len(ss) => At(ss, m + 1) < q}
  <2>1. 0 \in T
    BY <1>2, AtStep
  <2>2. ASSUME NEW m \in Nat, m \in T
        PROVE  m + 1 \in T
    <3> SUFFICES ASSUME m + 1 <= Len(ss)
                 PROVE  At(ss, m + 1 + 1) < q
      OBVIOUS
    <3>1. At(ss, m + 1) < q /\ m + 1 \in 1 .. Len(ss) /\ m + 1 + 1 \in 1 .. Len(ss) + 1
      BY <1>1, <2>2
    <3>2. At(ss, m + 1 + 1) \in Nat
      BY <3>1, AtStep
    <3> QED
      BY <1>2, <3>1, <3>2
  <2> HIDE DEF T
  <2>3. Len(ss) \in T
    BY <1>1, <2>1, <2>2, NatSetInduction
  <2>4. At(ss, Len(ss) + 1) < q /\ At(ss, Len(ss) + 1) \in Nat
    BY <1>1, <2>3, AtStep DEF T
  <2> QED
    BY <1>2, <2>4
<1>4. At(ss, i) \in Nat /\ At(ss, i + 1) = At(ss, i) + Len(ss[i])
  BY <1>1, AtStep
<1>5. q - At(ss, i) \in 1 .. Len(ss[i]) /\ q = At(ss, i) + (q - At(ss, i))
  BY <1>1, <1>2, <1>3, <1>4
<1> QED
  BY <1>5

\* Sequences that are all empty make an empty one.
LEMMA FlattenEmpties ==
  ASSUME NEW S, NEW ss \in Seq(Seq(S)), \A i \in 1 .. Len(ss) : ss[i] = <<>>
  PROVE  FlattenSeq(ss) = <<>>
<1>1. FlattenSeq(ss) \in Seq(S)
  BY AtStep
<1>2. 1 \notin 1 .. Len(FlattenSeq(ss))
  <2>1. ASSUME NEW q \in 1 .. Len(FlattenSeq(ss)) PROVE FALSE
    <3>1. PICK i \in 1 .. Len(ss) : \E r \in 1 .. Len(ss[i]) : q = At(ss, i) + r
      BY FlattenHasOnly
    <3>2. Len(ss[i]) = 0
      <4>1. ss[i] = <<>>
        OBVIOUS
      <4> QED
        BY <4>1
    <3> QED
      BY <3>1, <3>2
  <2> QED
    BY <2>1
<1>3. Len(FlattenSeq(ss)) = 0
  BY <1>1, <1>2
<1> QED
  BY <1>1, <1>3

\* Sequences of one element each are one sequence of these elements.
LEMMA FlattenSingles ==
  ASSUME NEW S, NEW e \in Seq(S), NEW ss \in Seq(Seq(S)), Len(ss) = Len(e),
         \A i \in 1 .. Len(e) : ss[i] = <<e[i]>>
  PROVE  FlattenSeq(ss) = e
<1>1. Len(e) \in Nat /\ \A i \in 1 .. Len(ss) : Len(ss[i]) = 1 /\ ss[i][1] = e[i]
  <2>1. ASSUME NEW i \in 1 .. Len(ss)
        PROVE  Len(ss[i]) = 1 /\ ss[i][1] = e[i]
    <3>1. ss[i] = <<e[i]>>
      OBVIOUS
    <3> QED
      BY <3>1
  <2> QED
    BY <2>1
<1>2. \A i \in 1 .. Len(e) + 1 : At(ss, i) = i - 1
  <2> DEFINE T == {m \in Nat : m <= Len(e) => At(ss, m + 1) = m}
  <2>1. 0 \in T
    BY AtStep
  <2>2. ASSUME NEW m \in Nat, m \in T
        PROVE  m + 1 \in T
    <3> SUFFICES ASSUME m + 1 <= Len(e)
                 PROVE  At(ss, m + 1 + 1) = m + 1
      OBVIOUS
    <3>1. m + 1 \in 1 .. Len(ss) /\ At(ss, m + 1) = m
      BY <1>1, <2>2
    <3> QED
      BY <1>1, <3>1, AtStep
  <2> HIDE DEF T
  <2>3. Nat \subseteq T
    BY <2>1, <2>2, NatSetInduction
  <2>4. ASSUME NEW i \in 1 .. Len(e) + 1
        PROVE  At(ss, i) = i - 1
    <3>1. i - 1 \in T /\ i - 1 \in Nat /\ i - 1 + 1 = i /\ i - 1 <= Len(e)
      BY <1>1, <2>3
    <3> QED
      BY <3>1 DEF T
  <2> QED
    BY <2>4
<1>3. FlattenSeq(ss) \in Seq(S) /\ Len(FlattenSeq(ss)) = Len(e)
  <2>1. Len(e) + 1 \in 1 .. Len(e) + 1 /\ Len(e) + 1 - 1 = Len(e)
    BY <1>1
  <2>2. At(ss, Len(ss) + 1) = Len(e)
    BY <1>2, <2>1
  <2> QED
    BY <2>2, AtStep
<1>4. ASSUME NEW i \in 1 .. Len(e)
      PROVE  FlattenSeq(ss)[i] = e[i]
  <2>1. i \in 1 .. Len(e) + 1 /\ i - 1 + 1 = i /\ i \in 1 .. Len(ss)
    BY <1>1
  <2>2. At(ss, i) + 1 = i /\ 1 \in 1 .. Len(ss[i])
    BY <1>1, <1>2, <2>1
  <2>3. FlattenSeq(ss)[At(ss, i) + 1] = ss[i][1]
    BY <2>1, <2>2, FlattenHas
  <2> QED
    BY <1>1, <2>1, <2>2, <2>3
<1> QED
  BY <1>3, <1>4, SeqEqual

-----------------------------------------------------------------------------
(* Least and greatest                                                      *)

\* A set of natural numbers that is not empty has a least element.
LEMMA MinOf ==
  ASSUME NEW S, S \subseteq Nat, S # {}
  PROVE  Min(S) \in S /\ \A y \in S : Min(S) <= y
<1>1. PICK x \in S : \A y \in S : ~ (<<y, x>> \in OpToRel(<, Nat))
  BY NatLessThanWellFounded, WFMin
<1>2. \A y \in S : x <= y
  <2> SUFFICES ASSUME NEW y \in S, y < x PROVE FALSE
    OBVIOUS
  <2>1. <<y, x>> \in OpToRel(<, Nat)
    BY DEF OpToRel
  <2> QED
    BY <1>1, <2>1
<1>3. \E z \in S : \A y \in S : z =< y
  BY <1>2
<1> QED
  BY <1>3 DEF Min

\* When it is bounded, it has a greatest as well.
LEMMA MaxOf ==
  ASSUME NEW n \in Nat, NEW S, S \subseteq 0..n, S # {}
  PROVE  Max(S) \in S /\ \A y \in S : Max(S) >= y
<1> DEFINE T == {n - x : x \in S}
<1>1. T \subseteq Nat /\ T # {}
  <2>1. T \subseteq Nat
    OBVIOUS
  <2>2. PICK x \in S : TRUE
    OBVIOUS
  <2>3. n - x \in T
    OBVIOUS
  <2> QED
    BY <2>1, <2>3
<1>2. Min(T) \in T /\ \A y \in T : Min(T) <= y
  <2> HIDE DEF T
  <2> QED
    BY <1>1, MinOf
<1>3. PICK x \in S : Min(T) = n - x
  BY <1>2
<1>4. \A y \in S : n - x <= n - y
  BY <1>2, <1>3
<1>5. \A y \in S : x >= y
  BY <1>4
<1> QED
  BY <1>5 DEF Max

-----------------------------------------------------------------------------
(* Messages                                                                *)

\* A proper message is a message; its fields.
LEMMA ProperFields ==
  ASSUME NEW n \in Nat, NEW m \in Proper(n)
  PROVE  /\ m \in Message /\ m.role \in {"system", "user", "assistant", "tool"}
         /\ m.text \in BOOLEAN /\ m.calls \in Seq(Ids) /\ m.id \in Ids \cup {None}
         /\ m.mark \in 0 .. n /\ m.images \in Seq(1 .. n)
         /\ m.parts \in Seq({"prompt", "skill", "guide"})
         /\ Len(m.calls) \in Nat /\ DOMAIN m.calls = 1 .. Len(m.calls)
         /\ \A k \in 1 .. Len(m.calls) : m.calls[k] \in Ids
         /\ m.role = "tool" => m.id \in Ids /\ m.calls = <<>>
         /\ m.role # "tool" => m.id = None /\ m.mark = 0
<1>1. /\ m \in Message /\ m.role \in {"system", "user", "assistant", "tool"}
      /\ m.text \in BOOLEAN /\ m.calls \in Seq(Ids) /\ m.id \in Ids \cup {None}
      /\ m.mark \in Nat /\ m.parts \in Seq({"prompt", "skill", "guide"})
  BY DEF Proper, Message
<1>2. /\ m.images \in Seq(1 .. n)
      /\ m.mark # 0 => m.role = "tool" /\ m.mark <= n
      /\ m.calls # <<>> => m.role = "assistant"
      /\ m.role = "tool" <=> m.id # None
  BY DEF Proper
<1>3. m.mark \in 0 .. n
  BY <1>1, <1>2
<1>4. /\ Len(m.calls) \in Nat /\ DOMAIN m.calls = 1 .. Len(m.calls)
      /\ \A k \in 1 .. Len(m.calls) : m.calls[k] \in Ids
  BY <1>1
<1> QED
  BY <1>1, <1>2, <1>3, <1>4

\* A later bound does.
LEMMA ProperGrows ==
  ASSUME NEW n \in Nat, NEW k \in Nat, n <= k
  PROVE  Proper(n) \subseteq Proper(k)
<1> SUFFICES ASSUME NEW m \in Proper(n)
             PROVE  m \in Proper(k)
  OBVIOUS
<1>1. m.images \in Seq(1 .. n) /\ (m.mark # 0 => m.mark <= n) /\ m.mark \in Nat
  BY ProperFields DEF Proper
<1>2. m.images \in Seq(1 .. k)
  <2>1. 1 .. n \subseteq 1 .. k
    OBVIOUS
  <2> QED
    BY <1>1, <2>1
<1>3. m.mark # 0 => m.mark <= k
  BY <1>1
<1> QED
  BY <1>2, <1>3 DEF Proper

\* The messages the code makes are proper.
LEMMA Made ==
  ASSUME NEW n \in Nat
  PROVE  /\ User \in Proper(n)
         /\ \A ps \in Seq({"prompt", "skill", "guide"}) : ps # <<>> => System(ps) \in Proper(n)
         /\ \A is \in Seq(1 .. n) : Images(is) \in Proper(n)
         /\ \A t \in BOOLEAN : \A c \in Seq(Ids) : Assistant(t, c) \in Proper(n)
         /\ \A i \in Ids : \A k \in 0 .. n : Tool(i, k) \in Proper(n)
<1>1. /\ <<>> \in Seq(Ids) /\ <<>> \in Seq(1 .. n) /\ <<>> \in Seq(Nat)
      /\ <<>> \in Seq({"prompt", "skill", "guide"})
  BY EmptySeq
<1>2. None \notin Ids /\ 1 .. n \subseteq Nat
  BY HistoriesAssumption
<1>3. User \in Proper(n)
  BY <1>1, <1>2 DEF User, Blank, Message, Proper
<1>4. ASSUME NEW ps \in Seq({"prompt", "skill", "guide"}), ps # <<>>
      PROVE  System(ps) \in Proper(n)
  BY <1>1, <1>2, <1>4 DEF System, Blank, Message, Proper
<1>5. ASSUME NEW is \in Seq(1 .. n)
      PROVE  Images(is) \in Proper(n)
  <2>1. is \in Seq(Nat)
    BY <1>2
  <2> QED
    BY <1>1, <1>2, <2>1 DEF Images, Blank, Message, Proper
<1>6. ASSUME NEW t \in BOOLEAN, NEW c \in Seq(Ids)
      PROVE  Assistant(t, c) \in Proper(n)
  BY <1>1, <1>2 DEF Assistant, Blank, Message, Proper
<1>7. ASSUME NEW i \in Ids, NEW k \in 0 .. n
      PROVE  Tool(i, k) \in Proper(n)
  <2>1. i # None /\ k \in Nat /\ k <= n
    BY <1>2
  <2> QED
    BY <1>1, <1>2, <2>1 DEF Tool, Blank, Message, Proper
<1> QED
  BY <1>3, <1>4, <1>5, <1>6, <1>7

\* The fields of what the code makes.
LEMMA MadeFields ==
  /\ User.role = "user" /\ User.text = TRUE /\ User.calls = <<>> /\ User.images = <<>>
  /\ User.id = None
  /\ \A ps : /\ System(ps).role = "system" /\ System(ps).calls = <<>>
             /\ System(ps).images = <<>> /\ System(ps).id = None /\ System(ps).parts = ps
  /\ \A is : /\ Images(is).role = "user" /\ Images(is).calls = <<>>
             /\ Images(is).images = is /\ Images(is).id = None
  /\ \A t, c : /\ Assistant(t, c).role = "assistant" /\ Assistant(t, c).calls = c
               /\ Assistant(t, c).images = <<>> /\ Assistant(t, c).text = t
               /\ Assistant(t, c).id = None
  /\ \A i, k : /\ Tool(i, k).role = "tool" /\ Tool(i, k).id = i /\ Tool(i, k).calls = <<>>
               /\ Tool(i, k).images = <<>> /\ Tool(i, k).mark = k
BY DEF User, System, Images, Assistant, Tool, Blank

-----------------------------------------------------------------------------
(* Fix                                                                     *)

\* What Fix puts behind the message at p, by call, and what it makes of each message.
Fills(ms, p) == [k \in DOMAIN ms[p].calls |-> Filled(ms, p, k)]
Kepts(ms)    == [p \in DOMAIN ms |-> Kept(ms, p)]

\* The fields of the message at p.
LEMMA MessageAt ==
  ASSUME NEW n \in Nat, NEW ms \in Seq(Proper(n)), NEW p \in 1 .. Len(ms)
  PROVE  /\ ms[p] \in Proper(n) /\ ms[p].calls \in Seq(Ids) /\ Len(ms[p].calls) \in Nat
         /\ DOMAIN ms[p].calls = 1 .. Len(ms[p].calls)
         /\ \A k \in 1 .. Len(ms[p].calls) : ms[p].calls[k] \in Ids
         /\ ms[p].images \in Seq(1 .. n)
         /\ ms[p].role = "tool" => ms[p].calls = <<>>
         /\ ms[p].role = "tool" <=> ms[p].id # None
         /\ ms[p].calls # <<>> => ms[p].role = "assistant"
         /\ ms[p].images # <<>> => ms[p].role = "user"
<1>1. ms[p] \in Proper(n)
  OBVIOUS
<1> DEFINE m == ms[p]
<1> HIDE DEF m
<1>2. m \in Proper(n)
  BY <1>1 DEF m
<1>3. /\ m \in Proper(n) /\ m.calls \in Seq(Ids) /\ Len(m.calls) \in Nat
      /\ DOMAIN m.calls = 1 .. Len(m.calls)
      /\ \A k \in 1 .. Len(m.calls) : m.calls[k] \in Ids
      /\ m.images \in Seq(1 .. n)
      /\ m.role = "tool" => m.calls = <<>>
  BY <1>2, ProperFields
<1>4. /\ m.role = "tool" <=> m.id # None
      /\ m.calls # <<>> => m.role = "assistant"
      /\ m.images # <<>> => m.role = "user"
  BY <1>2 DEF Proper
<1> QED
  BY <1>3, <1>4 DEF m

\* The ids that a history calls and answers, by position.
LEMMA IdsAt ==
  ASSUME NEW n \in Nat, NEW ms \in Seq(Proper(n))
  PROVE  /\ \A i : i \in CalledIds(ms) <=>
              \E p \in 1 .. Len(ms) : \E k \in 1 .. Len(ms[p].calls) : i = ms[p].calls[k]
         /\ \A i : i \in AnsweredIds(ms) <=>
              \E p \in 1 .. Len(ms) : ms[p].role = "tool" /\ i = ms[p].id
<1>1. DOMAIN ms = 1 .. Len(ms) /\ Len(ms) \in Nat
  OBVIOUS
<1>2. \A p \in 1 .. Len(ms) : DOMAIN ms[p].calls = 1 .. Len(ms[p].calls)
  BY MessageAt
<1>3. ASSUME NEW i
      PROVE  i \in CalledIds(ms) <=>
              \E p \in 1 .. Len(ms) : \E k \in 1 .. Len(ms[p].calls) : i = ms[p].calls[k]
  <2>1. i \in CalledIds(ms) <=> \E p \in 1 .. Len(ms) : i \in ToSet(ms[p].calls)
    BY <1>1 DEF CalledIds
  <2>2. \A p \in 1 .. Len(ms) :
          i \in ToSet(ms[p].calls) <=> \E k \in 1 .. Len(ms[p].calls) : i = ms[p].calls[k]
    BY <1>2 DEF ToSet
  <2> QED
    BY <2>1, <2>2
<1>4. \A i : i \in AnsweredIds(ms) <=>
        \E p \in 1 .. Len(ms) : ms[p].role = "tool" /\ i = ms[p].id
  BY <1>1 DEF AnsweredIds
<1> QED
  BY <1>3, <1>4

\* A call gets a placeholder, or not.
LEMMA FilledIs ==
  ASSUME NEW n \in Nat, NEW ms \in Seq(Proper(n)), NEW p \in 1 .. Len(ms),
         NEW k \in 1 .. Len(ms[p].calls)
  PROVE  /\ Filled(ms, p, k) \in Seq(Proper(n)) /\ Len(Filled(ms, p, k)) \in {0, 1}
         /\ Len(Filled(ms, p, k)) = 1 => /\ Filled(ms, p, k) = <<Tool(ms[p].calls[k], 0)>>
                                         /\ ms[p].calls[k] \notin AnsweredIds(ms)
         /\ ms[p].calls[k] \in AnsweredIds(ms) => Filled(ms, p, k) = <<>>
<1> DEFINE c == ms[p].calls[k]
           before == CalledIds(SubSeq(ms, 1, p - 1)) \cup ToSet(SubSeq(ms[p].calls, 1, k - 1))
<1>1. Filled(ms, p, k) = IF c \in AnsweredIds(ms) \cup before THEN <<>> ELSE <<Tool(c, 0)>>
  BY DEF Filled
<1>2. c \in Ids
  BY MessageAt
<1> HIDE DEF c, before
<1>3. Tool(c, 0) \in Proper(n)
  BY <1>2, Made
<1>4. <<Tool(c, 0)>> \in Seq(Proper(n)) /\ Len(<<Tool(c, 0)>>) = 1
  BY <1>3
<1>5. <<>> \in Seq(Proper(n)) /\ Len(<<>>) = 0
  BY EmptySeq
<1>6. CASE c \in AnsweredIds(ms) \cup before
  <2>1. Filled(ms, p, k) = <<>>
    BY <1>1, <1>6
  <2> QED
    BY <1>5, <2>1 DEF c
<1>7. CASE c \notin AnsweredIds(ms) \cup before
  <2>1. Filled(ms, p, k) = <<Tool(c, 0)>>
    BY <1>1, <1>7
  <2> QED
    BY <1>4, <1>7, <2>1 DEF c
<1> QED
  BY <1>6, <1>7

\* The placeholders behind a message are messages.
LEMMA FillsType ==
  ASSUME NEW n \in Nat, NEW ms \in Seq(Proper(n)), NEW p \in 1 .. Len(ms)
  PROVE  /\ Fills(ms, p) \in Seq(Seq(Proper(n))) /\ Len(Fills(ms, p)) = Len(ms[p].calls)
         /\ \A k \in 1 .. Len(ms[p].calls) : Fills(ms, p)[k] = Filled(ms, p, k)
         /\ FlattenSeq(Fills(ms, p)) \in Seq(Proper(n))
<1>1. DOMAIN ms[p].calls = 1 .. Len(ms[p].calls) /\ Len(ms[p].calls) \in Nat
  BY MessageAt
<1>2. Fills(ms, p) \in [1 .. Len(ms[p].calls) -> Seq(Proper(n))]
  BY <1>1, FilledIs DEF Fills
<1>3. Fills(ms, p) \in Seq(Seq(Proper(n))) /\ Len(Fills(ms, p)) = Len(ms[p].calls)
  BY <1>1, <1>2
<1>4. \A k \in 1 .. Len(ms[p].calls) : Fills(ms, p)[k] = Filled(ms, p, k)
  BY <1>1 DEF Fills
<1>5. FlattenSeq(Fills(ms, p)) \in Seq(Proper(n))
  BY <1>3, AtStep
<1> QED
  BY <1>3, <1>4, <1>5

\* A sequence behind one element.
LEMMA Behind1 ==
  ASSUME NEW S, NEW e \in S, NEW s \in Seq(S)
  PROVE  /\ <<e>> \o s \in Seq(S) /\ Len(<<e>> \o s) = Len(s) + 1 /\ (<<e>> \o s)[1] = e
         /\ \A i \in 1 .. Len(s) : (<<e>> \o s)[i + 1] = s[i]
<1>1. <<e>> \in Seq(S) /\ Len(<<e>>) = 1 /\ <<e>>[1] = e /\ Len(s) \in Nat
  OBVIOUS
<1> DEFINE h == <<e>>
<1>2. h \in Seq(S) /\ Len(h) = 1 /\ h[1] = e
  BY <1>1
<1> HIDE DEF h
<1>3. /\ h \o s \in Seq(S) /\ Len(h \o s) = Len(h) + Len(s)
      /\ \A i \in 1 .. Len(h) + Len(s) :
           (h \o s)[i] = IF i <= Len(h) THEN h[i] ELSE s[i - Len(h)]
  BY <1>2, ConcatProperties
<1>4. (h \o s)[1] = e /\ Len(h \o s) = Len(s) + 1
  BY <1>1, <1>2, <1>3
<1>5. \A i \in 1 .. Len(s) : (h \o s)[i + 1] = s[i]
  <2> SUFFICES ASSUME NEW i \in 1 .. Len(s)
               PROVE  (h \o s)[i + 1] = s[i]
    OBVIOUS
  <2>1. i + 1 \in 1 .. Len(h) + Len(s) /\ ~ (i + 1 <= Len(h)) /\ i + 1 - Len(h) = i
    BY <1>1, <1>2
  <2> QED
    BY <1>3, <2>1
<1> QED
  BY <1>3, <1>4, <1>5 DEF h

\* What becomes of the message at p: it goes, or it stays with its placeholders.
LEMMA KeptIs ==
  ASSUME NEW n \in Nat, NEW ms \in Seq(Proper(n)), NEW p \in 1 .. Len(ms)
  PROVE  /\ Kept(ms, p) \in Seq(Proper(n))
         /\ Kept(ms, p) = IF ms[p].role = "tool" /\ ms[p].id \notin CalledIds(ms)
                          THEN <<>> ELSE <<ms[p]>> \o FlattenSeq(Fills(ms, p))
<1>1. Kept(ms, p) = IF ms[p].role = "tool" /\ ms[p].id \notin CalledIds(ms)
                    THEN <<>> ELSE <<ms[p]>> \o FlattenSeq(Fills(ms, p))
  BY DEF Kept, WithFilled, Fills
<1>2. <<ms[p]>> \o FlattenSeq(Fills(ms, p)) \in Seq(Proper(n))
  <2>1. ms[p] \in Proper(n) /\ FlattenSeq(Fills(ms, p)) \in Seq(Proper(n))
    BY MessageAt, FillsType
  <2> QED
    BY <2>1, Behind1
<1>3. <<>> \in Seq(Proper(n))
  BY EmptySeq
<1> QED
  BY <1>1, <1>2, <1>3

\* Fix makes a history of a history.
LEMMA FixType ==
  ASSUME NEW n \in Nat, NEW ms \in Seq(Proper(n))
  PROVE  /\ Kepts(ms) \in Seq(Seq(Proper(n))) /\ Len(Kepts(ms)) = Len(ms)
         /\ \A p \in 1 .. Len(ms) : Kepts(ms)[p] = Kept(ms, p)
         /\ Fix(ms) \in Seq(Proper(n)) /\ Fix(ms) = FlattenSeq(Kepts(ms))
<1>1. DOMAIN ms = 1 .. Len(ms) /\ Len(ms) \in Nat
  OBVIOUS
<1>2. Kepts(ms) \in [1 .. Len(ms) -> Seq(Proper(n))]
  BY <1>1, KeptIs DEF Kepts
<1>3. Kepts(ms) \in Seq(Seq(Proper(n))) /\ Len(Kepts(ms)) = Len(ms)
  BY <1>1, <1>2
<1>4. \A p \in 1 .. Len(ms) : Kepts(ms)[p] = Kept(ms, p)
  BY <1>1 DEF Kepts
<1>5. Fix(ms) = FlattenSeq(Kepts(ms))
  BY DEF Fix, Kepts
<1>6. FlattenSeq(Kepts(ms)) \in Seq(Proper(n))
  BY <1>3, AtStep
<1> QED
  BY <1>3, <1>4, <1>5, <1>6

\* A history whose calls are all answered, and that answers nothing else, is left alone.
LEMMA FixKeeps ==
  ASSUME NEW n \in Nat, NEW ms \in Seq(Proper(n)),
         \A p \in 1 .. Len(ms) : \A k \in 1 .. Len(ms[p].calls) :
           ms[p].calls[k] \in AnsweredIds(ms),
         AnsweredIds(ms) \subseteq CalledIds(ms)
  PROVE  Fix(ms) = ms
<1>1. ASSUME NEW p \in 1 .. Len(ms)
      PROVE  Kepts(ms)[p] = <<ms[p]>>
  <2>1. ms[p].role = "tool" => ms[p].id \in CalledIds(ms)
    BY IdsAt
  <2>2. FlattenSeq(Fills(ms, p)) = <<>>
    <3>1. /\ Fills(ms, p) \in Seq(Seq(Proper(n))) /\ Len(Fills(ms, p)) = Len(ms[p].calls)
          /\ \A k \in 1 .. Len(ms[p].calls) : Fills(ms, p)[k] = Filled(ms, p, k)
      BY FillsType
    <3>2. \A k \in 1 .. Len(Fills(ms, p)) : Fills(ms, p)[k] = <<>>
      BY <3>1, FilledIs
    <3> QED
      BY <3>1, <3>2, FlattenEmpties
  <2>3. Kept(ms, p) = <<ms[p]>> \o <<>>
    BY <2>1, <2>2, KeptIs
  <2>4. <<ms[p]>> \in Seq(Proper(n))
    BY MessageAt
  <2>5. <<ms[p]>> \o <<>> = <<ms[p]>>
    BY <2>4, ConcatEmptySeq
  <2> QED
    BY <2>3, <2>5, FixType
<1>2. Kepts(ms) \in Seq(Seq(Proper(n))) /\ Len(Kepts(ms)) = Len(ms)
  BY FixType
<1>3. FlattenSeq(Kepts(ms)) = ms
  BY <1>1, <1>2, FlattenSingles
<1> QED
  BY <1>3, FixType

\* So is one whose messages with calls are directly followed by the answers.
LEMMA IntactIsKept == TypeInv => IntactKept
<1> SUFFICES ASSUME TypeInv,
                    \A p \in DOMAIN msgs : \A k \in DOMAIN msgs[p].calls :
                      p + k <= Len(msgs) /\ msgs[p + k].id = msgs[p].calls[k],
                    AnsweredIds(msgs) \subseteq CalledIds(msgs)
             PROVE  Fix(msgs) = msgs
  BY DEF IntactKept
<1>1. msgs \in Seq(Proper(marks)) /\ marks \in Nat
  BY HistoriesAssumption DEF TypeInv
<1>2. Len(msgs) \in Nat /\ DOMAIN msgs = 1 .. Len(msgs)
  BY <1>1
<1>3. ASSUME NEW p \in 1 .. Len(msgs), NEW k \in 1 .. Len(msgs[p].calls)
      PROVE  msgs[p].calls[k] \in AnsweredIds(msgs)
  <2>1. /\ DOMAIN msgs[p].calls = 1 .. Len(msgs[p].calls) /\ Len(msgs[p].calls) \in Nat
        /\ msgs[p].calls[k] \in Ids
    BY <1>1, MessageAt
  <2>2. p + k <= Len(msgs) /\ msgs[p + k].id = msgs[p].calls[k]
    BY <1>2, <2>1
  <2>3. p + k \in 1 .. Len(msgs)
    BY <1>2, <2>1, <2>2
  <2>4. msgs[p + k].role = "tool"
    <3>1. msgs[p + k].id # None
      BY <2>1, <2>2, HistoriesAssumption
    <3> QED
      BY <1>1, <2>3, <3>1, MessageAt
  <2> QED
    BY <1>1, <2>2, <2>3, <2>4, IdsAt
<1> QED
  BY <1>1, <1>3, FixKeeps

\* Sequences start one behind the other.
LEMMA AtMono ==
  ASSUME NEW S, NEW ss \in Seq(Seq(S)), NEW i \in 1 .. Len(ss), NEW j \in 1 .. Len(ss), i < j
  PROVE  /\ At(ss, i) \in Nat /\ At(ss, j) \in Nat /\ Len(ss[i]) \in Nat
         /\ At(ss, i) + Len(ss[i]) <= At(ss, j)
<1>1. Len(ss) \in Nat /\ ss[i] \in Seq(S)
  OBVIOUS
<1>2. /\ i \in 0 .. Len(ss) /\ j - 1 \in i .. Len(ss) /\ i + 1 - 1 = i
      /\ i \in 1 .. Len(ss) + 1 /\ j \in 1 .. Len(ss) + 1
  BY <1>1
<1>3. Len(Part(ss, i)) <= Len(Part(ss, j - 1))
  BY <1>2, PartPrefix
<1>4. At(ss, i + 1) <= At(ss, j)
  BY <1>2, <1>3 DEF At
<1> QED
  BY <1>1, <1>2, <1>4, AtStep

\* The answer to a call that is nowhere in the history.
Orphan(ms, p) == ms[p].role = "tool" /\ ms[p].id \notin CalledIds(ms)

\* Where Fix puts the message at p, and where the placeholder for its call k, if it gets one.
Place(ms, p)        == At(Kepts(ms), p) + 1
FillPlace(ms, p, k) == Place(ms, p) + At(Fills(ms, p), k) + 1

\* A message that stays is found in its place, and so are its placeholders.
LEMMA FixHas ==
  ASSUME NEW n \in Nat, NEW ms \in Seq(Proper(n)), NEW p \in 1 .. Len(ms), ~Orphan(ms, p)
  PROVE  /\ Place(ms, p) \in 1 .. Len(Fix(ms)) /\ Fix(ms)[Place(ms, p)] = ms[p]
         /\ \A k \in 1 .. Len(ms[p].calls) : Len(Filled(ms, p, k)) = 1 =>
              /\ FillPlace(ms, p, k) \in 1 .. Len(Fix(ms))
              /\ Fix(ms)[FillPlace(ms, p, k)] = Tool(ms[p].calls[k], 0)
              /\ Place(ms, p) < FillPlace(ms, p, k)
              /\ FillPlace(ms, p, k) <= At(Kepts(ms), p) + Len(Kepts(ms)[p])
<1> DEFINE ks == Kepts(ms)
           ff == Fills(ms, p)
<1>1. /\ ks \in Seq(Seq(Proper(n))) /\ Len(ks) = Len(ms) /\ Fix(ms) = FlattenSeq(ks)
      /\ ks[p] = <<ms[p]>> \o FlattenSeq(ff)
  BY FixType, KeptIs DEF Orphan
<1>2. ff \in Seq(Seq(Proper(n))) /\ Len(ff) = Len(ms[p].calls)
      /\ \A k \in 1 .. Len(ms[p].calls) : ff[k] = Filled(ms, p, k)
      /\ FlattenSeq(ff) \in Seq(Proper(n))
  BY FillsType
<1>3. ms[p] \in Proper(n) /\ Place(ms, p) = At(ks, p) + 1
      /\ \A k : FillPlace(ms, p, k) = Place(ms, p) + At(ff, k) + 1
  BY MessageAt DEF Place, FillPlace
<1>4. \A k \in 1 .. Len(ms[p].calls) :
        Len(Filled(ms, p, k)) = 1 => Filled(ms, p, k) = <<Tool(ms[p].calls[k], 0)>>
  BY FilledIs
<1> HIDE DEF ks, ff
<1>5. /\ Len(ks[p]) = Len(FlattenSeq(ff)) + 1 /\ ks[p][1] = ms[p]
      /\ \A i \in 1 .. Len(FlattenSeq(ff)) : ks[p][i + 1] = FlattenSeq(ff)[i]
      /\ Len(FlattenSeq(ff)) \in Nat
  BY <1>1, <1>2, <1>3, Behind1
<1>6. p \in 1 .. Len(ks) /\ At(ks, p) \in Nat
  BY <1>1, AtStep
<1>7. Place(ms, p) \in 1 .. Len(Fix(ms)) /\ Fix(ms)[Place(ms, p)] = ms[p]
  <2>1. 1 \in 1 .. Len(ks[p])
    BY <1>5
  <2> QED
    BY <1>1, <1>3, <1>5, <1>6, <2>1, FlattenHas
<1>8. ASSUME NEW k \in 1 .. Len(ms[p].calls), Len(Filled(ms, p, k)) = 1
      PROVE  /\ FillPlace(ms, p, k) \in 1 .. Len(Fix(ms))
             /\ Fix(ms)[FillPlace(ms, p, k)] = Tool(ms[p].calls[k], 0)
             /\ Place(ms, p) < FillPlace(ms, p, k)
             /\ FillPlace(ms, p, k) <= At(Kepts(ms), p) + Len(Kepts(ms)[p])
  <2>1. k \in 1 .. Len(ff) /\ ff[k] = <<Tool(ms[p].calls[k], 0)>> /\ Len(ff[k]) = 1
    BY <1>2, <1>4, <1>8
  <2>2. 1 \in 1 .. Len(ff[k]) /\ ff[k][1] = Tool(ms[p].calls[k], 0)
    BY <2>1
  <2>3. /\ At(ff, k) + 1 \in 1 .. Len(FlattenSeq(ff))
        /\ FlattenSeq(ff)[At(ff, k) + 1] = Tool(ms[p].calls[k], 0)
    <3>1. ff \in Seq(Seq(Proper(n))) /\ k \in 1 .. Len(ff) /\ 1 \in 1 .. Len(ff[k])
      BY <1>2, <2>1, <2>2
    <3>2. At(ff, k) + 1 \in 1 .. Len(FlattenSeq(ff)) /\ FlattenSeq(ff)[At(ff, k) + 1] = ff[k][1]
      BY <3>1, FlattenHas
    <3> QED
      BY <2>2, <3>2
  <2>4. At(ff, k) \in Nat
    <3>1. k \in 1 .. Len(ff) + 1
      BY <1>2, <2>1
    <3> QED
      BY <1>2, <3>1, AtStep
  <2> DEFINE r == At(ff, k) + 1 + 1
  <2>5. r \in 1 .. Len(ks[p]) /\ ks[p][r] = Tool(ms[p].calls[k], 0)
    BY <1>5, <2>3, <2>4
  <2>6. FillPlace(ms, p, k) = At(ks, p) + r /\ r \in Nat
    <3> DEFINE x == At(ks, p)
               y == At(ff, k)
    <3>1. FillPlace(ms, p, k) = x + 1 + y + 1 /\ x \in Nat /\ y \in Nat
      BY <1>3, <1>6, <2>4
    <3> HIDE DEF x, y
    <3>2. x + 1 + y + 1 = x + (y + 1 + 1) /\ y + 1 + 1 \in Nat
      BY <3>1
    <3> QED
      BY <3>1, <3>2 DEF x, y
  <2>7. r > 1
    BY <2>4
  <2> HIDE DEF r
  <2>8. /\ At(ks, p) + r \in 1 .. Len(FlattenSeq(ks))
        /\ FlattenSeq(ks)[At(ks, p) + r] = ks[p][r]
    BY <1>1, <1>6, <2>5, FlattenHas
  <2>9. Place(ms, p) < FillPlace(ms, p, k) /\ FillPlace(ms, p, k) <= At(ks, p) + Len(ks[p])
    <3> DEFINE x == At(ks, p)
               l == Len(ks[p])
    <3>1. /\ Place(ms, p) = x + 1 /\ FillPlace(ms, p, k) = x + r /\ x \in Nat
          /\ r \in Nat /\ r > 1 /\ r \in 1 .. l /\ l \in Nat
      BY <1>3, <1>5, <1>6, <2>5, <2>6, <2>7
    <3> HIDE DEF x, l
    <3>2. x + 1 < x + r /\ x + r <= x + l
      BY <3>1
    <3> QED
      BY <3>1, <3>2 DEF x, l
  <2> QED
    BY <1>1, <2>5, <2>6, <2>8, <2>9 DEF ks
<1> QED
  BY <1>7, <1>8

\* Each placeholder behind the message at p is that of a call without an answer.
LEMMA FillsHasOnly ==
  ASSUME NEW n \in Nat, NEW ms \in Seq(Proper(n)), NEW p \in 1 .. Len(ms),
         NEW q \in 1 .. Len(FlattenSeq(Fills(ms, p)))
  PROVE  \E k \in 1 .. Len(ms[p].calls) :
           /\ Len(Filled(ms, p, k)) = 1 /\ q = At(Fills(ms, p), k) + 1
           /\ At(Fills(ms, p), k) \in Nat
           /\ FlattenSeq(Fills(ms, p))[q] = Tool(ms[p].calls[k], 0)
<1> DEFINE ff == Fills(ms, p)
<1>1. /\ ff \in Seq(Seq(Proper(n))) /\ Len(ff) = Len(ms[p].calls)
      /\ \A k \in 1 .. Len(ms[p].calls) : ff[k] = Filled(ms, p, k)
      /\ q \in 1 .. Len(FlattenSeq(ff))
  BY FillsType
<1>2. \A k \in 1 .. Len(ms[p].calls) :
        /\ Len(Filled(ms, p, k)) = 0 \/ Len(Filled(ms, p, k)) = 1
        /\ Len(Filled(ms, p, k)) = 1 => Filled(ms, p, k)[1] = Tool(ms[p].calls[k], 0)
  <2> SUFFICES ASSUME NEW k \in 1 .. Len(ms[p].calls)
               PROVE  /\ Len(Filled(ms, p, k)) = 0 \/ Len(Filled(ms, p, k)) = 1
                      /\ Len(Filled(ms, p, k)) = 1 =>
                           Filled(ms, p, k)[1] = Tool(ms[p].calls[k], 0)
    OBVIOUS
  <2>1. /\ Len(Filled(ms, p, k)) \in {0, 1}
        /\ Len(Filled(ms, p, k)) = 1 => Filled(ms, p, k) = <<Tool(ms[p].calls[k], 0)>>
    BY FilledIs
  <2> QED
    BY <2>1
<1> HIDE DEF ff
<1>3. PICK k \in 1 .. Len(ff) : \E t \in 1 .. Len(ff[k]) : q = At(ff, k) + t
  BY <1>1, FlattenHasOnly
<1>4. PICK t \in 1 .. Len(ff[k]) : q = At(ff, k) + t
  BY <1>3
<1>5. k \in 1 .. Len(ms[p].calls) /\ ff[k] = Filled(ms, p, k) /\ k \in 1 .. Len(ff)
  BY <1>1
<1>6. Len(ff[k]) = 1 /\ t = 1 /\ ff[k][1] = Tool(ms[p].calls[k], 0)
  <2> DEFINE l == Len(ff[k])
  <2>1. (l = 0 \/ l = 1) /\ t \in 1 .. l
    BY <1>2, <1>5
  <2> HIDE DEF l
  <2>2. l = 1 /\ t = 1
    BY <2>1
  <2> QED
    BY <1>2, <1>5, <2>2 DEF l
<1>7. At(ff, k) \in Nat /\ FlattenSeq(ff)[At(ff, k) + t] = ff[k][t]
  <2>1. ff \in Seq(Seq(Proper(n))) /\ Len(ff) \in Nat
    BY <1>1, LenProperties
  <2>2. k \in 1 .. Len(ff) + 1
    BY <2>1
  <2>3. At(ff, k) \in Nat
    BY <2>1, <2>2, AtStep
  <2>4. FlattenSeq(ff)[At(ff, k) + t] = ff[k][t]
    BY <2>1, FlattenHas
  <2> QED
    BY <2>3, <2>4
<1> QED
  BY <1>4, <1>5, <1>6, <1>7 DEF ff

\* Nothing else is found in what Fix returns.
LEMMA FixHasOnly ==
  ASSUME NEW n \in Nat, NEW ms \in Seq(Proper(n)), NEW x \in 1 .. Len(Fix(ms))
  PROVE  \E p \in 1 .. Len(ms) :
           /\ ~Orphan(ms, p)
           /\ \/ x = Place(ms, p) /\ Fix(ms)[x] = ms[p]
              \/ \E k \in 1 .. Len(ms[p].calls) :
                   /\ Len(Filled(ms, p, k)) = 1 /\ x = FillPlace(ms, p, k)
                   /\ Fix(ms)[x] = Tool(ms[p].calls[k], 0)
<1> DEFINE ks == Kepts(ms)
<1>1. ks \in Seq(Seq(Proper(n))) /\ Len(ks) = Len(ms) /\ Fix(ms) = FlattenSeq(ks)
  BY FixType
<1>2. PICK p \in 1 .. Len(ks) : \E r \in 1 .. Len(ks[p]) : x = At(ks, p) + r
  <2> HIDE DEF ks
  <2> QED
    BY <1>1, FlattenHasOnly
<1>3. PICK r \in 1 .. Len(ks[p]) : x = At(ks, p) + r
  BY <1>2
<1>4. p \in 1 .. Len(ms) /\ ks[p] = Kept(ms, p)
  BY <1>1, FixType
<1>5. ~Orphan(ms, p)
  <2> SUFFICES ASSUME Orphan(ms, p) PROVE FALSE
    OBVIOUS
  <2>1. ks[p] = <<>>
    BY <1>4, KeptIs DEF Orphan
  <2>2. Len(ks[p]) = 0
    BY <2>1
  <2> HIDE DEF ks
  <2> QED
    BY <2>2
<1> DEFINE ff == Fills(ms, p)
<1>6. ff \in Seq(Seq(Proper(n))) /\ Len(ff) = Len(ms[p].calls)
      /\ (\A k \in 1 .. Len(ms[p].calls) : ff[k] = Filled(ms, p, k))
      /\ FlattenSeq(ff) \in Seq(Proper(n))
  BY <1>4, FillsType
<1>7. ks[p] = <<ms[p]>> \o FlattenSeq(ff) /\ ms[p] \in Proper(n)
  BY <1>4, <1>5, KeptIs, MessageAt DEF Orphan
<1>8. Place(ms, p) = At(ks, p) + 1 /\ \A k : FillPlace(ms, p, k) = Place(ms, p) + At(ff, k) + 1
  BY DEF Place, FillPlace
<1> HIDE DEF ks, ff
<1>9. /\ Len(ks[p]) = Len(FlattenSeq(ff)) + 1 /\ ks[p][1] = ms[p]
      /\ \A i \in 1 .. Len(FlattenSeq(ff)) : ks[p][i + 1] = FlattenSeq(ff)[i]
      /\ Len(FlattenSeq(ff)) \in Nat
  BY <1>6, <1>7, Behind1
<1>10. At(ks, p) \in Nat /\ Fix(ms)[x] = ks[p][r]
  BY <1>1, <1>3, FlattenHas, AtStep
<1>11. CASE r = 1
  BY <1>3, <1>4, <1>5, <1>8, <1>9, <1>10, <1>11
<1>12. CASE r # 1
  <2>1. r - 1 \in 1 .. Len(FlattenSeq(ff)) /\ r - 1 + 1 = r
    BY <1>9, <1>12
  <2> DEFINE q == r - 1
  <2>2. q \in 1 .. Len(FlattenSeq(ff)) /\ q + 1 = r /\ q \in Nat
    BY <2>1
  <2> HIDE DEF q
  <2>3. PICK k \in 1 .. Len(ms[p].calls) :
          /\ Len(Filled(ms, p, k)) = 1 /\ q = At(ff, k) + 1 /\ At(ff, k) \in Nat
          /\ FlattenSeq(ff)[q] = Tool(ms[p].calls[k], 0)
    BY <1>4, <2>2, FillsHasOnly DEF ff
  <2>4. Fix(ms)[x] = Tool(ms[p].calls[k], 0)
    BY <1>9, <1>10, <2>2, <2>3
  <2>5. x = FillPlace(ms, p, k)
    <3>1. FillPlace(ms, p, k) = At(ks, p) + 1 + At(ff, k) + 1
      BY <1>8
    <3>2. x = At(ks, p) + (At(ff, k) + 1 + 1)
      BY <1>3, <2>2, <2>3
    <3> QED
      BY <1>10, <2>3, <3>1, <3>2
  <2> QED
    BY <1>4, <1>5, <2>3, <2>4, <2>5
<1> QED
  BY <1>11, <1>12

-----------------------------------------------------------------------------
(* The assembly of a Run                                                   *)

\* What WithHistory takes of a history, by message.
Taken(h) == [p \in DOMAIN h |-> IF h[p].role = "system" THEN <<>> ELSE <<h[p]>>]

\* When only its first message may be a system message, it is the history without that.
LEMMA TakenIs ==
  ASSUME NEW S, NEW h \in Seq(S), \A p \in 1 .. Len(h) : h[p].role = "system" => p = 1
  PROVE  \E off \in {0, 1} :
           /\ FlattenSeq(Taken(h)) \in Seq(S) /\ off + Len(FlattenSeq(Taken(h))) = Len(h)
           /\ off = IF Len(h) > 0 /\ h[1].role = "system" THEN 1 ELSE 0
           /\ \A i \in 1 .. Len(FlattenSeq(Taken(h))) :
                FlattenSeq(Taken(h))[i] = h[off + i] /\ h[off + i].role # "system"
<1> DEFINE ts  == Taken(h)
           off == IF Len(h) > 0 /\ h[1].role = "system" THEN 1 ELSE 0
<1>1. Len(h) \in Nat /\ DOMAIN h = 1 .. Len(h)
  OBVIOUS
<1>2. \A p \in 1 .. Len(h) : ts[p] = IF h[p].role = "system" THEN <<>> ELSE <<h[p]>>
  BY <1>1 DEF Taken
<1>3. ts \in Seq(Seq(S)) /\ Len(ts) = Len(h)
  <2>1. \A p \in 1 .. Len(h) : <<h[p]>> \in Seq(S) /\ <<>> \in Seq(S)
    BY EmptySeq
  <2>2. ts \in [1 .. Len(h) -> Seq(S)]
    BY <1>1, <2>1 DEF Taken
  <2> QED
    BY <1>1, <2>2
<1>4. \A p \in 1 .. Len(h) :
        /\ h[p].role = "system" => Len(ts[p]) = 0
        /\ h[p].role # "system" => Len(ts[p]) = 1 /\ ts[p][1] = h[p]
  <2> SUFFICES ASSUME NEW p \in 1 .. Len(h)
               PROVE  /\ h[p].role = "system" => Len(ts[p]) = 0
                      /\ h[p].role # "system" => Len(ts[p]) = 1 /\ ts[p][1] = h[p]
    OBVIOUS
  <2>1. Len(<<>>) = 0 /\ Len(<<h[p]>>) = 1 /\ <<h[p]>>[1] = h[p]
    BY EmptySeq
  <2> QED
    BY <1>2, <2>1
<1>5. /\ off \in {0, 1} /\ off \in Nat
      /\ off = 1 => Len(h) > 0 /\ h[1].role = "system"
      /\ off = 0 /\ Len(h) > 0 => h[1].role # "system"
  OBVIOUS
<1> HIDE DEF ts, off
<1>6. ASSUME Len(h) > 0
      PROVE  \A m \in Nat : m + 1 <= Len(h) => At(ts, m + 1 + 1) = m + 1 - off
  <2> DEFINE T == {m \in Nat : m + 1 <= Len(h) => At(ts, m + 1 + 1) = m + 1 - off}
  <2>1. 0 \in T
    <3>1. 1 \in 1 .. Len(ts) /\ Len(ts[1]) = 1 - off
      <4>1. 1 \in 1 .. Len(h) /\ 1 \in 1 .. Len(ts)
        BY <1>1, <1>3, <1>6
      <4>2. CASE h[1].role = "system"
        <5>1. off = 1 /\ Len(ts[1]) = 0
          BY <1>4, <1>5, <1>6, <4>1, <4>2
        <5> QED
          BY <4>1, <5>1
      <4>3. CASE h[1].role # "system"
        <5>1. off = 0 /\ Len(ts[1]) = 1
          BY <1>4, <1>5, <1>6, <4>1, <4>3
        <5> QED
          BY <4>1, <5>1
      <4> QED
        BY <4>2, <4>3
    <3>2. At(ts, 1) = 0 /\ At(ts, 1 + 1) = At(ts, 1) + Len(ts[1])
      BY <1>3, <3>1, AtStep
    <3> QED
      BY <1>5, <3>1, <3>2
  <2>2. ASSUME NEW m \in Nat, m \in T
        PROVE  m + 1 \in T
    <3> SUFFICES ASSUME m + 1 + 1 <= Len(h)
                 PROVE  At(ts, m + 1 + 1 + 1) = m + 1 + 1 - off
      OBVIOUS
    <3>1. m + 1 + 1 \in 1 .. Len(ts) /\ m + 1 + 1 \in 1 .. Len(h) /\ m + 1 + 1 # 1
      BY <1>1, <1>3
    <3>2. Len(ts[m + 1 + 1]) = 1
      BY <1>4, <3>1
    <3>3. At(ts, m + 1 + 1 + 1) = At(ts, m + 1 + 1) + Len(ts[m + 1 + 1])
      BY <1>3, <3>1, AtStep
    <3>4. At(ts, m + 1 + 1) = m + 1 - off
      BY <1>1, <2>2
    <3> QED
      BY <1>5, <3>2, <3>3, <3>4
  <2> HIDE DEF T
  <2>3. Nat \subseteq T
    BY <2>1, <2>2, NatSetInduction
  <2> QED
    BY <2>3 DEF T
<1>7. FlattenSeq(ts) \in Seq(S) /\ Len(FlattenSeq(ts)) = At(ts, Len(ts) + 1)
  BY <1>3, AtStep
<1>8. off + Len(FlattenSeq(ts)) = Len(h)
  <2>1. CASE Len(h) = 0
    <3>1. At(ts, 1) = 0
      BY <1>3, AtStep
    <3>2. Len(ts) + 1 = 1 /\ off = 0
      BY <1>3, <1>5, <2>1
    <3> QED
      BY <1>7, <2>1, <3>1, <3>2
  <2>2. CASE Len(h) # 0
    <3>1. Len(h) - 1 \in Nat /\ Len(h) - 1 + 1 = Len(h) /\ Len(h) > 0
      BY <1>1, <2>2
    <3> DEFINE m == Len(h) - 1
    <3>2. m \in Nat /\ m + 1 <= Len(h) /\ m + 1 = Len(h)
      BY <1>1, <3>1
    <3> HIDE DEF m
    <3>3. At(ts, m + 1 + 1) = m + 1 - off
      BY <1>6, <3>1, <3>2
    <3>4. At(ts, Len(ts) + 1) = Len(h) - off
      BY <1>1, <1>3, <1>5, <3>2, <3>3
    <3> QED
      BY <1>1, <1>5, <1>7, <3>4
  <2> QED
    BY <2>1, <2>2
<1>9. ASSUME NEW i \in 1 .. Len(FlattenSeq(ts))
      PROVE  FlattenSeq(ts)[i] = h[off + i] /\ h[off + i].role # "system"
  <2> DEFINE p == off + i
  <2>1. p \in 1 .. Len(h) /\ p \in Nat /\ i \in Nat /\ i = p - off /\ Len(h) > 0
    BY <1>1, <1>5, <1>8
  <2>2. h[p].role # "system"
    <3>1. CASE p = 1
      BY <1>5, <2>1, <3>1
    <3>2. CASE p # 1
      BY <2>1, <3>2
    <3> QED
      BY <3>1, <3>2
  <2> HIDE DEF p
  <2>3. At(ts, p) + 1 = i
    <3>1. CASE p = 1
      <4>1. off = 0 /\ At(ts, 1) = 0
        BY <1>3, <1>5, <2>1, <2>2, <3>1, AtStep
      <4> QED
        BY <2>1, <3>1, <4>1
    <3>2. CASE p # 1
      <4>1. p - 2 \in Nat /\ p - 2 + 1 + 1 = p /\ p - 2 + 1 <= Len(h) /\ p - 2 + 1 = p - 1
        BY <1>1, <2>1, <3>2
      <4> DEFINE m == p - 2
      <4>2. m \in Nat /\ m + 1 <= Len(h) /\ m + 1 + 1 = p /\ m + 1 = p - 1
        BY <4>1
      <4> HIDE DEF m
      <4>3. At(ts, m + 1 + 1) = m + 1 - off
        BY <1>6, <2>1, <4>2
      <4>4. At(ts, p) = p - 1 - off
        BY <1>5, <2>1, <4>2, <4>3
      <4> QED
        BY <1>5, <2>1, <4>4
    <3> QED
      BY <3>1, <3>2
  <2>4. p \in 1 .. Len(ts) /\ 1 \in 1 .. Len(ts[p]) /\ ts[p][1] = h[p]
    BY <1>3, <1>4, <2>1, <2>2
  <2>5. FlattenSeq(ts)[At(ts, p) + 1] = ts[p][1]
    BY <1>3, <2>4, FlattenHas
  <2> QED
    BY <2>2, <2>3, <2>4, <2>5 DEF p
<1> QED
  BY <1>5, <1>7, <1>8, <1>9 DEF ts, off

\* Two messages that differ in their system parts at most.
Alike(a, b) ==
  /\ a.role = b.role /\ a.text = b.text /\ a.calls = b.calls /\ a.id = b.id
  /\ a.mark = b.mark /\ a.images = b.images

\* Text for the system message changes the one in front, or puts a new one there.
LEMMA AddedIs ==
  ASSUME NEW n \in Nat, NEW ms \in Seq(Proper(n)), NEW part \in {"prompt", "skill", "guide"}
  PROVE  \E d \in {0, 1} :
           /\ AddToSystem(ms, part) \in Seq(Proper(n))
           /\ Len(AddToSystem(ms, part)) = Len(ms) + d /\ Len(ms) + d > 0
           /\ \A p \in 1 .. Len(ms) : Alike(AddToSystem(ms, part)[p + d], ms[p])
           /\ d = 0 => /\ ms[1].role = "system" /\ Len(ms) > 0
                       /\ AddToSystem(ms, part)[1].parts = Append(ms[1].parts, part)
           /\ d = 1 => /\ Len(ms) > 0 => ms[1].role # "system"
                       /\ AddToSystem(ms, part)[1] = System(<<part>>)
<1>1. Len(ms) \in Nat /\ DOMAIN ms = 1 .. Len(ms) /\ (ms # <<>> <=> Len(ms) > 0)
  BY EmptySeq
<1>2. CASE ms # <<>> /\ ms[1].role = "system"
  <2> DEFINE m == [ms[1] EXCEPT !.parts = Append(@, part)]
             r == [ms EXCEPT ![1] = m]
  <2>1. AddToSystem(ms, part) = r
    BY <1>2 DEF AddToSystem
  <2>2. 1 \in 1 .. Len(ms) /\ ms[1] \in Proper(n) /\ ms[1] \in Message
        /\ ms[1].parts \in Seq({"prompt", "skill", "guide"})
    BY <1>1, <1>2, ProperFields
  <2>3. /\ Append(ms[1].parts, part) \in Seq({"prompt", "skill", "guide"})
        /\ Append(ms[1].parts, part) # <<>>
    <3>1. /\ Append(ms[1].parts, part) \in Seq({"prompt", "skill", "guide"})
          /\ Len(Append(ms[1].parts, part)) = Len(ms[1].parts) + 1
          /\ Len(ms[1].parts) \in Nat
      BY <2>2
    <3> QED
      BY <3>1, EmptySeq
  <2>4. Alike(m, ms[1]) /\ m.parts = Append(ms[1].parts, part) /\ m \in Message
    BY <2>2, <2>3 DEF Message, Alike
  <2>5. m \in Proper(n)
    <3> HIDE DEF m
    <3>1. ms[1] \in Proper(n) /\ m \in Message /\ m.role = "system" /\ m.parts # <<>>
      BY <1>2, <2>2, <2>3, <2>4 DEF Alike
    <3> QED
      BY <2>4, <3>1 DEF Proper, Alike
  <2> HIDE DEF m
  <2>6. r \in Seq(Proper(n)) /\ Len(r) = Len(ms) /\ r[1] = m
        /\ \A p \in 1 .. Len(ms) : p # 1 => r[p] = ms[p]
    BY <2>2, <2>5
  <2> HIDE DEF r
  <2>7. \A p \in 1 .. Len(ms) : Alike(r[p], ms[p])
    <3>1. \A p \in 1 .. Len(ms) : Alike(ms[p], ms[p])
      BY DEF Alike
    <3> QED
      BY <2>4, <2>6, <3>1
  <2>8. \A p \in 1 .. Len(ms) : p + 0 = p
    OBVIOUS
  <2>9. /\ r \in Seq(Proper(n)) /\ Len(r) = Len(ms) + 0 /\ Len(ms) + 0 > 0
        /\ \A p \in 1 .. Len(ms) : Alike(r[p + 0], ms[p])
        /\ ms[1].role = "system" /\ Len(ms) > 0
        /\ r[1].parts = Append(ms[1].parts, part)
    BY <1>1, <1>2, <2>4, <2>6, <2>7, <2>8
  <2> QED
    BY <2>1, <2>9
<1>3. CASE ~ (ms # <<>> /\ ms[1].role = "system")
  <2> DEFINE m == System(<<part>>)
  <2>1. AddToSystem(ms, part) = <<m>> \o ms
    BY <1>3 DEF AddToSystem
  <2>2. m \in Proper(n)
    <3>1. <<part>> \in Seq({"prompt", "skill", "guide"}) /\ Len(<<part>>) = 1
      OBVIOUS
    <3>2. <<part>> # <<>>
      BY <3>1, EmptySeq
    <3> QED
      BY <3>1, <3>2, Made
  <2> HIDE DEF m
  <2>3. /\ <<m>> \o ms \in Seq(Proper(n)) /\ Len(<<m>> \o ms) = Len(ms) + 1
        /\ (<<m>> \o ms)[1] = m /\ \A i \in 1 .. Len(ms) : (<<m>> \o ms)[i + 1] = ms[i]
    BY <2>2, Behind1
  <2>4. \A p \in 1 .. Len(ms) : Alike(ms[p], ms[p])
    BY DEF Alike
  <2> DEFINE r == <<m>> \o ms
  <2>5. /\ r \in Seq(Proper(n)) /\ Len(r) = Len(ms) + 1 /\ Len(ms) + 1 > 0
        /\ \A p \in 1 .. Len(ms) : Alike(r[p + 1], ms[p])
        /\ Len(ms) > 0 => ms[1].role # "system"
        /\ r[1] = m
    BY <1>1, <1>3, <2>3, <2>4
  <2> HIDE DEF r
  <2>6. AddToSystem(ms, part) = r /\ m = System(<<part>>)
    BY <2>1 DEF r, m
  <2> QED
    BY <2>5, <2>6
<1> QED
  BY <1>2, <1>3

\* What the assembly makes of the fixed messages ms: the same behind one good system message.
Fronted(ms, words) == AddToSystem(SkillOnStart(ms, words), "guide")

\* The only system message of ms is the prompt.
OnlyPrompt(ms) ==
  /\ \A p \in 1 .. Len(ms) : ms[p].role = "system" => p = 1 /\ Prompt /\ ms[p].parts = <<"prompt">>
  /\ Prompt => Len(ms) > 0 /\ ms[1].role = "system"

\* One more element, which is not there yet.
LEMMA AppendOnce ==
  ASSUME NEW S, NEW s \in Seq(S), NEW e \in S
  PROVE  /\ Append(s, e) \in Seq(S) /\ ToSet(Append(s, e)) = ToSet(s) \cup {e}
         /\ IsInjective(s) /\ e \notin ToSet(s) => IsInjective(Append(s, e))
<1> DEFINE r == Append(s, e)
<1>1. Len(s) \in Nat /\ DOMAIN s = 1 .. Len(s)
  OBVIOUS
<1>2. /\ r \in Seq(S) /\ Len(r) = Len(s) + 1 /\ r[Len(s) + 1] = e
      /\ \A i \in 1 .. Len(s) : r[i] = s[i]
  BY AppendProperties
<1> HIDE DEF r
<1>3. DOMAIN r = 1 .. Len(s) + 1
  BY <1>2
<1>4. \A i \in DOMAIN r : i = Len(s) + 1 \/ i \in 1 .. Len(s)
  BY <1>1, <1>3
<1>5. ToSet(r) = ToSet(s) \cup {e}
  <2>1. \A x \in ToSet(r) : x \in ToSet(s) \cup {e}
    BY <1>1, <1>2, <1>4 DEF ToSet
  <2>2. e \in ToSet(r)
    <3>1. Len(s) + 1 \in DOMAIN r
      BY <1>1, <1>3
    <3> QED
      BY <1>2, <3>1 DEF ToSet
  <2>3. \A x \in ToSet(s) : x \in ToSet(r)
    <3>1. \A i \in DOMAIN s : i \in DOMAIN r
      BY <1>1, <1>3
    <3> QED
      BY <1>1, <1>2, <3>1 DEF ToSet
  <2> QED
    BY <2>1, <2>2, <2>3
<1>6. ASSUME IsInjective(s), e \notin ToSet(s)
      PROVE  IsInjective(r)
  <2>1. \A i \in 1 .. Len(s) : s[i] # e
    BY <1>1, <1>6 DEF ToSet
  <2> SUFFICES ASSUME NEW a \in DOMAIN r, NEW b \in DOMAIN r, r[a] = r[b]
               PROVE  a = b
    BY DEF IsInjective
  <2> QED
    BY <1>1, <1>2, <1>4, <1>6, <2>1 DEF IsInjective
<1> QED
  BY <1>2, <1>5, <1>6 DEF r

\* The four ways to make up the system message.
LEMMA PartsAreGood ==
  /\ Prompt => /\ GoodParts(Append(<<"prompt">>, "guide"))
               /\ GoodParts(Append(Append(<<"prompt">>, "skill"), "guide"))
  /\ ~Prompt => GoodParts(<<"guide">>) /\ GoodParts(Append(<<"skill">>, "guide"))
<1> DEFINE Parts == {"prompt", "skill", "guide"}
           p  == <<"prompt">>
           k  == <<"skill">>
           pk == Append(p, "skill")
<1>1. p \in Seq(Parts) /\ IsInjective(p) /\ ToSet(p) = {"prompt"}
  <2>1. ToSet(p) = {p[i] : i \in 1 .. 1}
    BY DEF ToSet
  <2> QED
    BY <2>1 DEF IsInjective
<1>2. k \in Seq(Parts) /\ IsInjective(k) /\ ToSet(k) = {"skill"}
  <2>1. ToSet(k) = {k[i] : i \in 1 .. 1}
    BY DEF ToSet
  <2> QED
    BY <2>1 DEF IsInjective
<1>3. <<"guide">> \in Seq(Parts) /\ IsInjective(<<"guide">>) /\ ToSet(<<"guide">>) = {"guide"}
  <2>1. ToSet(<<"guide">>) = {<<"guide">>[i] : i \in 1 .. 1}
    BY DEF ToSet
  <2> QED
    BY <2>1 DEF IsInjective
<1> HIDE DEF p, k
<1>4. pk \in Seq(Parts) /\ IsInjective(pk) /\ ToSet(pk) = {"prompt", "skill"}
  BY <1>1, AppendOnce
<1> HIDE DEF pk
<1>5. /\ IsInjective(Append(p, "guide")) /\ ToSet(Append(p, "guide")) = {"prompt", "guide"}
      /\ IsInjective(Append(k, "guide")) /\ ToSet(Append(k, "guide")) = {"skill", "guide"}
      /\ IsInjective(Append(pk, "guide"))
      /\ ToSet(Append(pk, "guide")) = {"prompt", "skill", "guide"}
  BY <1>1, <1>2, <1>4, AppendOnce
<1> QED
  BY <1>3, <1>5 DEF GoodParts, p, k, pk

\* The skills and the guides: two messages behind another are as many and alike.
LEMMA FrontedIs ==
  ASSUME NEW n \in Nat, NEW ms \in Seq(Proper(n)), OnlyPrompt(ms), NEW words
  PROVE  \E d \in {0, 1} :
           /\ Fronted(ms, words) \in Seq(Proper(n)) /\ Len(Fronted(ms, words)) = Len(ms) + d
           /\ Len(ms) + d > 0 /\ SystemFirst(Fronted(ms, words))
           /\ \A p \in 1 .. Len(ms) : Alike(Fronted(ms, words)[p + d], ms[p])
<1> DEFINE s == SkillOnStart(ms, words)
           r == Fronted(ms, words)
<1>1. Len(ms) \in Nat /\ DOMAIN ms = 1 .. Len(ms)
  OBVIOUS
<1>2. /\ \A p \in 1 .. Len(ms) : ms[p].role = "system" => p = 1 /\ Prompt
      /\ Len(ms) > 0 /\ ms[1].role = "system" => Prompt /\ ms[1].parts = <<"prompt">>
      /\ Prompt => Len(ms) > 0 /\ ms[1].role = "system"
  <2>1. Len(ms) > 0 => 1 \in 1 .. Len(ms)
    BY <1>1
  <2> QED
    BY <2>1 DEF OnlyPrompt
<1>3. r = AddToSystem(s, "guide") /\ (s = ms \/ s = AddToSystem(ms, "skill"))
  BY DEF SkillOnStart, Fronted
<1>4. \E d \in {0, 1} :
        /\ r \in Seq(Proper(n)) /\ Len(r) = Len(ms) + d /\ Len(ms) + d > 0
        /\ \A p \in 1 .. Len(ms) : Alike(r[p + d], ms[p])
        /\ d = 1 /\ Len(ms) > 0 => ms[1].role # "system"
        /\ r[1].role = "system" /\ GoodParts(r[1].parts)
  <2> HIDE DEF s, r
  <2>1. CASE s = ms
    <3>1. PICK d \in {0, 1} :
            /\ r \in Seq(Proper(n)) /\ Len(r) = Len(ms) + d /\ Len(ms) + d > 0
            /\ \A p \in 1 .. Len(ms) : Alike(r[p + d], ms[p])
            /\ d = 0 => /\ ms[1].role = "system" /\ Len(ms) > 0
                        /\ r[1].parts = Append(ms[1].parts, "guide")
            /\ d = 1 => /\ Len(ms) > 0 => ms[1].role # "system"
                        /\ r[1] = System(<<"guide">>)
      BY <1>3, <2>1, AddedIs
    <3>2. CASE d = 0
      <4>1. 1 \in 1 .. Len(ms) /\ 1 + d = 1
        BY <1>1, <3>1, <3>2
      <4>2. Alike(r[1], ms[1])
        BY <3>1, <4>1
      <4>3. r[1].role = "system" /\ GoodParts(r[1].parts)
        BY <1>2, <3>1, <3>2, <4>2, PartsAreGood DEF Alike
      <4> QED
        BY <3>1, <3>2, <4>3
    <3>3. CASE d = 1
      <4>1. r[1].role = "system" /\ GoodParts(r[1].parts)
        BY <1>2, <3>1, <3>3, PartsAreGood, MadeFields
      <4> QED
        BY <3>1, <3>3, <4>1
    <3> QED
      BY <3>2, <3>3
  <2>2. CASE s = AddToSystem(ms, "skill")
    <3>1. PICK d \in {0, 1} :
            /\ s \in Seq(Proper(n)) /\ Len(s) = Len(ms) + d /\ Len(ms) + d > 0
            /\ \A p \in 1 .. Len(ms) : Alike(s[p + d], ms[p])
            /\ d = 0 => /\ ms[1].role = "system" /\ Len(ms) > 0
                        /\ s[1].parts = Append(ms[1].parts, "skill")
            /\ d = 1 => /\ Len(ms) > 0 => ms[1].role # "system"
                        /\ s[1] = System(<<"skill">>)
      BY <2>2, AddedIs
    <3>2. /\ s[1].role = "system"
          /\ GoodParts(Append(s[1].parts, "guide"))
      <4>1. CASE d = 0
        <5>1. 1 \in 1 .. Len(ms) /\ 1 + d = 1
          BY <1>1, <3>1, <4>1
        <5>2. Alike(s[1], ms[1])
          BY <3>1, <5>1
        <5> QED
          BY <1>2, <3>1, <4>1, <5>2, PartsAreGood DEF Alike
      <4>2. CASE d = 1
        BY <1>2, <3>1, <4>2, PartsAreGood, MadeFields
      <4> QED
        BY <4>1, <4>2
    <3>3. PICK e \in {0, 1} :
            /\ r \in Seq(Proper(n)) /\ Len(r) = Len(s) + e /\ Len(s) + e > 0
            /\ \A p \in 1 .. Len(s) : Alike(r[p + e], s[p])
            /\ e = 0 => r[1].parts = Append(s[1].parts, "guide")
            /\ e = 1 => (Len(s) > 0 => s[1].role # "system")
      BY <1>3, <3>1, AddedIs
    <3>4. e = 0 /\ Len(s) > 0 /\ Len(s) \in Nat
      BY <3>1, <3>2, <3>3
    <3>5. Alike(r[1], s[1])
      <4>1. 1 \in 1 .. Len(s) /\ 1 + e = 1
        BY <3>4
      <4> QED
        BY <3>3, <4>1
    <3>6. \A p \in 1 .. Len(ms) : Alike(r[p + d], ms[p])
      <4> SUFFICES ASSUME NEW p \in 1 .. Len(ms)
                   PROVE  Alike(r[p + d], ms[p])
        OBVIOUS
      <4> DEFINE q == p + d
      <4>1. q \in 1 .. Len(s) /\ q + e = q
        BY <1>1, <3>1, <3>4
      <4> HIDE DEF q
      <4>2. Alike(r[q], s[q])
        BY <3>3, <4>1
      <4>3. Alike(s[q], ms[p])
        BY <3>1 DEF q
      <4>4. Alike(r[q], ms[p])
        BY <4>2, <4>3 DEF Alike
      <4> QED
        BY <4>4 DEF q
    <3>7. Len(r) = Len(ms) + d
      BY <1>1, <3>1, <3>3, <3>4
    <3>8. r[1].role = "system" /\ GoodParts(r[1].parts)
      BY <3>2, <3>3, <3>4, <3>5 DEF Alike
    <3> QED
      BY <3>1, <3>3, <3>6, <3>7, <3>8
  <2> QED
    BY <1>3, <2>1, <2>2
<1> HIDE DEF s, r
<1>5. PICK d \in {0, 1} :
        /\ r \in Seq(Proper(n)) /\ Len(r) = Len(ms) + d /\ Len(ms) + d > 0
        /\ \A p \in 1 .. Len(ms) : Alike(r[p + d], ms[p])
        /\ d = 1 /\ Len(ms) > 0 => ms[1].role # "system"
        /\ r[1].role = "system" /\ GoodParts(r[1].parts)
  BY <1>4
<1>6. ASSUME NEW x \in DOMAIN r, r[x].role = "system"
      PROVE  x = 1
  <2> SUFFICES ASSUME x # 1 PROVE FALSE
    OBVIOUS
  <2> DEFINE p == x - d
  <2>1. p \in 1 .. Len(ms) /\ p + d = x /\ p \in Nat /\ Len(ms) > 0
    BY <1>1, <1>5, <1>6
  <2> HIDE DEF p
  <2>2. ms[p].role = "system"
    BY <1>5, <1>6, <2>1 DEF Alike
  <2>3. p = 1 /\ d # 1
    BY <1>2, <1>5, <2>1, <2>2
  <2> QED
    BY <1>5, <2>1, <2>3
<1>7. SystemFirst(r)
  BY <1>5, <1>6 DEF SystemFirst
<1> QED
  BY <1>5, <1>7 DEF r

\* A message that neither calls nor answers nor shows anything.
Plain(m) == m.role \in {"system", "user"} /\ m.calls = <<>> /\ m.images = <<>>

\* In b, the messages from lo to hi are those of ms, s further on; the others are plain.
Window(b, ms, lo, hi, s) ==
  \A x \in 1 .. Len(b) : IF x \in lo .. hi THEN x + s \in 1 .. Len(ms) /\ b[x] = ms[x + s]
                                           ELSE Plain(b[x])

\* What a Run gives to Fix, and to the hooks after it.
Based(h) ==
  Append(WithHistory(IF Prompt THEN <<System(<<"prompt">>)>> ELSE <<>>, h), User)

\* The assembly in two steps.
LEMMA AssembleIs ==
  ASSUME NEW h, NEW words
  PROVE  Assemble(h, words) = Fronted(Fix(Based(h)), words)
BY DEF Assemble, Fronted, Based

\* The history is put between the prompt and the input.
LEMMA BasedIs ==
  ASSUME NEW n \in Nat, NEW h \in Seq(Proper(n)),
         \A p \in 1 .. Len(h) : h[p].role = "system" => p = 1
  PROVE  \E lo, hi \in Nat, s \in Int :
           /\ Based(h) \in Seq(Proper(n)) /\ OnlyPrompt(Based(h)) /\ Window(Based(h), h, lo, hi, s)
           /\ Len(Based(h)) > 0 /\ Last(Based(h)) = User
<1> DEFINE g   == FlattenSeq(Taken(h))
           pre == IF Prompt THEN <<System(<<"prompt">>)>> ELSE <<>>
           e   == IF Prompt THEN 1 ELSE 0
           b   == Based(h)
<1>1. PICK off \in {0, 1} :
        /\ g \in Seq(Proper(n)) /\ off + Len(g) = Len(h)
        /\ \A i \in 1 .. Len(g) : g[i] = h[off + i] /\ h[off + i].role # "system"
  BY TakenIs
<1>2. /\ pre \in Seq(Proper(n)) /\ Len(pre) = e /\ e \in {0, 1}
      /\ e = 1 => pre[1] = System(<<"prompt">>)
      /\ e = 1 <=> Prompt
  <2>1. <<"prompt">> \in Seq({"prompt", "skill", "guide"}) /\ Len(<<"prompt">>) = 1
    OBVIOUS
  <2>2. <<"prompt">> # <<>>
    BY <2>1, EmptySeq
  <2> DEFINE m == System(<<"prompt">>)
  <2>3. m \in Proper(n)
    BY <2>1, <2>2, Made
  <2> HIDE DEF m
  <2>4. <<m>> \in Seq(Proper(n)) /\ Len(<<m>>) = 1 /\ <<m>>[1] = m
    BY <2>3
  <2>5. <<>> \in Seq(Proper(n)) /\ Len(<<>>) = 0
    BY EmptySeq
  <2>6. pre = (IF Prompt THEN <<m>> ELSE <<>>)
    BY DEF m
  <2> HIDE DEF pre
  <2>7. CASE Prompt
    BY <2>4, <2>6, <2>7 DEF m
  <2>8. CASE ~Prompt
    BY <2>5, <2>6, <2>8
  <2> QED
    BY <2>7, <2>8
<1>3. b = Append(pre \o g, User)
  BY DEF Based, WithHistory, Taken
<1> HIDE DEF g, pre, e, b
<1>4. Len(g) \in Nat /\ Len(h) \in Nat
  BY <1>1
<1> DEFINE c == pre \o g
<1>5. /\ c \in Seq(Proper(n)) /\ Len(c) = e + Len(g)
      /\ \A x \in 1 .. e : c[x] = pre[x]
      /\ \A x \in e + 1 .. e + Len(g) : c[x] = g[x - e]
  <2>1. /\ c \in Seq(Proper(n)) /\ Len(c) = Len(pre) + Len(g)
        /\ \A i \in 1 .. Len(pre) + Len(g) :
             c[i] = IF i <= Len(pre) THEN pre[i] ELSE g[i - Len(pre)]
    BY <1>1, <1>2, ConcatProperties
  <2> HIDE DEF c
  <2> QED
    BY <1>2, <1>4, <2>1
<1>6. b = Append(c, User)
  BY <1>3
<1> HIDE DEF c
<1>7. User \in Proper(n)
  BY Made
<1>8. /\ b \in Seq(Proper(n)) /\ Len(b) = e + Len(g) + 1 /\ b[e + Len(g) + 1] = User
      /\ \A x \in 1 .. e + Len(g) : b[x] = c[x]
  <2>1. /\ b \in Seq(Proper(n)) /\ Len(b) = Len(c) + 1 /\ b[Len(c) + 1] = User
        /\ \A x \in 1 .. Len(c) : b[x] = c[x]
    BY <1>5, <1>6, <1>7, AppendProperties
  <2> QED
    BY <1>5, <2>1
<1> DEFINE s  == off - e
           lo == e + 1
           hi == e + Len(g)
<1>9. lo \in Nat /\ hi \in Nat /\ s \in Int
  BY <1>1, <1>2, <1>4
<1>10. ASSUME NEW x \in lo .. hi
       PROVE  x + s \in 1 .. Len(h) /\ b[x] = h[x + s] /\ b[x].role # "system"
  <2> DEFINE i == x - e
  <2>1. i \in 1 .. Len(g) /\ off + i = x + s /\ x \in e + 1 .. e + Len(g)
        /\ x \in 1 .. e + Len(g)
    BY <1>1, <1>2, <1>4
  <2>2. b[x] = g[i]
    BY <1>5, <1>8, <2>1
  <2>3. x + s \in 1 .. Len(h)
    BY <1>1, <1>2, <1>4
  <2> HIDE DEF i, s
  <2> QED
    BY <1>1, <2>1, <2>2, <2>3
<1>11. ASSUME NEW x \in 1 .. Len(b), x \notin lo .. hi
       PROVE  \/ x = 1 /\ Prompt /\ b[x] = System(<<"prompt">>)
              \/ x = Len(b) /\ b[x] = User
  <2>1. x = Len(b) \/ x \in 1 .. e
    BY <1>2, <1>4, <1>8, <1>11
  <2>2. CASE x = Len(b)
    BY <1>8, <2>2
  <2>3. CASE x \in 1 .. e
    <3>1. x = 1 /\ e = 1 /\ x \in 1 .. e + Len(g)
      BY <1>2, <1>4, <2>3
    <3> QED
      BY <1>2, <1>5, <1>8, <2>3, <3>1
  <2> QED
    BY <2>1, <2>2, <2>3
<1>12. Window(b, h, lo, hi, s)
  <2>1. \A x \in 1 .. Len(b) : x \notin lo .. hi => Plain(b[x])
    BY <1>11, MadeFields DEF Plain
  <2> HIDE DEF lo, hi, s
  <2> QED
    BY <1>10, <2>1 DEF Window
<1>13. OnlyPrompt(b)
  <2>1. ASSUME NEW p \in 1 .. Len(b), b[p].role = "system"
        PROVE  p = 1 /\ Prompt /\ b[p].parts = <<"prompt">>
    <3>1. p \notin lo .. hi
      BY <1>10, <2>1
    <3>2. p = 1 /\ Prompt /\ b[p] = System(<<"prompt">>)
      <4>1. b[p] # User
        BY <2>1, MadeFields
      <4> QED
        BY <1>11, <3>1, <4>1
    <3> QED
      BY <3>2, MadeFields
  <2>2. ASSUME Prompt
        PROVE  Len(b) > 0 /\ b[1].role = "system"
    <3>1. e = 1 /\ 1 \in 1 .. e /\ 1 \in 1 .. e + Len(g) /\ Len(b) > 0
      BY <1>2, <1>4, <1>8, <2>2
    <3>2. b[1] = System(<<"prompt">>)
      BY <1>2, <1>5, <1>8, <3>1
    <3> QED
      BY <3>1, <3>2, MadeFields
  <2> QED
    BY <2>1, <2>2 DEF OnlyPrompt
<1>14. Len(b) > 0 /\ Last(b) = User
  BY <1>2, <1>4, <1>8 DEF Last
<1> HIDE DEF lo, hi, s
<1> QED
  BY <1>8, <1>9, <1>12, <1>13, <1>14 DEF b

\* A part of a sequence.
LEMMA PartOf ==
  ASSUME NEW S, NEW s \in Seq(S), NEW a \in Nat, NEW b \in Nat, a <= b, b <= Len(s)
  PROVE  /\ SubSeq(s, a + 1, b) \in Seq(S) /\ Len(SubSeq(s, a + 1, b)) = b - a
         /\ \A i \in 1..(b - a) : SubSeq(s, a + 1, b)[i] = s[a + i]
<1>1. Len(s) \in Nat
  OBVIOUS
<1>2. SubSeq(s, a + 1, b) \in Seq(S) /\ Len(SubSeq(s, a + 1, b)) = b - a
  BY <1>1
<1>3. \A i \in 1..(b - a) : SubSeq(s, a + 1, b)[i] = s[a + i]
  BY <1>1
<1> QED
  BY <1>2, <1>3

\* What the host may bring along of the messages of a Run.
Cuts(ms) ==
  {<<>>} \cup UNION {{SubSeq(ms, cut, Len(ms)), SubSeq(ms, 1, cut)} : cut \in 1 .. Len(ms)}

\* It is a part of them, and its system message, if any, is in front.
LEMMA CutIs ==
  ASSUME NEW n \in Nat, NEW ms \in Seq(Proper(n)), SystemFirst(ms), NEW h \in Cuts(ms)
  PROVE  \E c \in Nat :
           /\ h \in Seq(Proper(n)) /\ c + Len(h) <= Len(ms)
           /\ \A i \in 1 .. Len(h) : h[i] = ms[c + i] /\ (h[i].role = "system" => i = 1)
<1>1. Len(ms) \in Nat /\ DOMAIN ms = 1 .. Len(ms)
  OBVIOUS
<1>2. \A p \in 1 .. Len(ms) : ms[p].role = "system" => p = 1
  BY <1>1 DEF SystemFirst
<1>3. \E a, b \in Nat : a <= b /\ b <= Len(ms) /\ (h = SubSeq(ms, a + 1, b) \/ (a = b /\ h = <<>>))
  <2>1. CASE h = <<>>
    <3>1. 0 \in Nat /\ 0 <= 0 /\ 0 <= Len(ms)
      BY <1>1
    <3> QED
      BY <2>1, <3>1
  <2>2. CASE \E cut \in 1 .. Len(ms) : h \in {SubSeq(ms, cut, Len(ms)), SubSeq(ms, 1, cut)}
    <3>1. PICK cut \in 1 .. Len(ms) : h \in {SubSeq(ms, cut, Len(ms)), SubSeq(ms, 1, cut)}
      BY <2>2
    <3>2. CASE h = SubSeq(ms, cut, Len(ms))
      <4> DEFINE a == cut - 1
      <4>1. a \in Nat /\ a <= Len(ms) /\ a + 1 = cut /\ Len(ms) <= Len(ms)
        BY <1>1
      <4>2. h = SubSeq(ms, a + 1, Len(ms))
        BY <3>2, <4>1
      <4> HIDE DEF a
      <4> QED
        BY <1>1, <4>1, <4>2
    <3>3. CASE h = SubSeq(ms, 1, cut)
      <4>1. cut \in Nat /\ 0 <= cut /\ cut <= Len(ms) /\ 0 + 1 = 1
        BY <1>1
      <4> QED
        BY <3>3, <4>1
    <3> QED
      BY <3>1, <3>2, <3>3
  <2> QED
    BY <2>1, <2>2 DEF Cuts
<1>4. PICK a, b \in Nat :
        a <= b /\ b <= Len(ms) /\ (h = SubSeq(ms, a + 1, b) \/ (a = b /\ h = <<>>))
  BY <1>3
<1>5. h \in Seq(Proper(n)) /\ Len(h) = b - a /\ \A i \in 1 .. b - a : h[i] = ms[a + i]
  <2>1. CASE h = SubSeq(ms, a + 1, b)
    BY <1>4, <2>1, PartOf
  <2>2. CASE a = b /\ h = <<>>
    <3>1. h \in Seq(Proper(n)) /\ Len(h) = 0
      BY <2>2, EmptySeq
    <3> QED
      BY <2>2, <3>1
  <2> QED
    BY <1>4, <2>1, <2>2
<1>6. ASSUME NEW i \in 1 .. Len(h)
      PROVE  h[i] = ms[a + i] /\ (h[i].role = "system" => i = 1)
  <2>1. a + i \in 1 .. Len(ms) /\ h[i] = ms[a + i]
    BY <1>1, <1>4, <1>5
  <2>2. a + i = 1 => i = 1
    BY <1>5
  <2> QED
    BY <1>2, <2>1, <2>2
<1>7. a + Len(h) <= Len(ms)
  BY <1>1, <1>4, <1>5
<1> QED
  BY <1>4, <1>5, <1>6, <1>7

\* What the next Run gives to Fix is a window on the messages of the Runs before.
LEMMA TurnBase ==
  ASSUME NEW n \in Nat, NEW ms \in Seq(Proper(n)), SystemFirst(ms), NEW h \in Cuts(ms)
  PROVE  \E lo, hi \in Nat, s \in Int :
           /\ Based(h) \in Seq(Proper(n)) /\ OnlyPrompt(Based(h)) /\ Window(Based(h), ms, lo, hi, s)
<1>1. PICK c \in Nat :
        /\ h \in Seq(Proper(n)) /\ c + Len(h) <= Len(ms)
        /\ \A i \in 1 .. Len(h) : h[i] = ms[c + i] /\ (h[i].role = "system" => i = 1)
  BY CutIs
<1> DEFINE b == Based(h)
<1>2. PICK lo, hi \in Nat, s \in Int :
        /\ b \in Seq(Proper(n)) /\ OnlyPrompt(b) /\ Window(b, h, lo, hi, s)
  BY <1>1, BasedIs
<1> HIDE DEF b
<1>3. Len(ms) \in Nat /\ Len(h) \in Nat
  BY <1>1
<1>4. s + c \in Int
  OBVIOUS
<1>5. ASSUME NEW x \in 1 .. Len(b)
      PROVE  IF x \in lo .. hi THEN x + (s + c) \in 1 .. Len(ms) /\ b[x] = ms[x + (s + c)]
                               ELSE Plain(b[x])
  <2>1. CASE x \in lo .. hi
    <3> DEFINE i == x + s
    <3>1. i \in 1 .. Len(h) /\ b[x] = h[i]
      BY <1>2, <2>1 DEF Window
    <3>2. x \in Int /\ i = x + s /\ c + Len(h) <= Len(ms)
      BY <1>1, <2>1
    <3>3. x + (s + c) = c + i
      BY <3>2
    <3>4. c + i \in 1 .. Len(ms)
      <4> HIDE DEF i
      <4> QED
        BY <1>3, <3>1, <3>2
    <3> HIDE DEF i
    <3>5. b[x] = ms[c + i]
      BY <1>1, <3>1
    <3> QED
      BY <2>1, <3>3, <3>4, <3>5
  <2>2. CASE x \notin lo .. hi
    BY <1>2, <2>2 DEF Window
  <2> QED
    BY <2>1, <2>2
<1>6. Window(b, ms, lo, hi, s + c)
  BY <1>5 DEF Window
<1> QED
  BY <1>2, <1>4, <1>6 DEF b

\* Fix does not touch the prompt in front.
LEMMA FixOnlyPrompt ==
  ASSUME NEW n \in Nat, NEW ms \in Seq(Proper(n)), OnlyPrompt(ms)
  PROVE  OnlyPrompt(Fix(ms))
<1>1. Fix(ms) \in Seq(Proper(n)) /\ Len(ms) \in Nat /\ Len(Fix(ms)) \in Nat
  BY FixType
<1>2. ASSUME Len(ms) > 0, ms[1].role = "system"
      PROVE  Place(ms, 1) = 1 /\ 1 \in 1 .. Len(Fix(ms)) /\ Fix(ms)[1] = ms[1]
  <2>1. 1 \in 1 .. Len(ms) /\ ~Orphan(ms, 1)
    BY <1>1, <1>2 DEF Orphan
  <2>2. Place(ms, 1) = 1
    <3>1. At(Kepts(ms), 1) = 0
      BY FixType, AtStep
    <3> QED
      BY <3>1 DEF Place
  <2> QED
    BY <2>1, <2>2, FixHas
<1>3. ASSUME NEW x \in 1 .. Len(Fix(ms)), Fix(ms)[x].role = "system"
      PROVE  x = 1 /\ Prompt /\ Fix(ms)[x].parts = <<"prompt">>
  <2>1. PICK p \in 1 .. Len(ms) :
          /\ ~Orphan(ms, p)
          /\ \/ x = Place(ms, p) /\ Fix(ms)[x] = ms[p]
             \/ \E k \in 1 .. Len(ms[p].calls) :
                  /\ Len(Filled(ms, p, k)) = 1 /\ x = FillPlace(ms, p, k)
                  /\ Fix(ms)[x] = Tool(ms[p].calls[k], 0)
    BY FixHasOnly
  <2>2. x = Place(ms, p) /\ Fix(ms)[x] = ms[p]
    BY <1>3, <2>1, MadeFields
  <2>3. p = 1 /\ Prompt /\ ms[p].parts = <<"prompt">>
    BY <1>3, <2>2 DEF OnlyPrompt
  <2>4. x = 1
    BY <1>1, <1>2, <1>3, <2>2, <2>3
  <2> QED
    BY <2>2, <2>3, <2>4
<1>4. ASSUME Prompt
      PROVE  Len(Fix(ms)) > 0 /\ Fix(ms)[1].role = "system"
  <2>1. Len(ms) > 0 /\ ms[1].role = "system"
    BY <1>4 DEF OnlyPrompt
  <2> QED
    BY <1>1, <1>2, <2>1
<1> QED
  BY <1>3, <1>4 DEF OnlyPrompt

\* A Run begins with messages that have one system message, in front.
LEMMA AssembledIs ==
  ASSUME NEW n \in Nat, NEW h, NEW words, Based(h) \in Seq(Proper(n)), OnlyPrompt(Based(h))
  PROVE  \E d \in {0, 1} :
           /\ Assemble(h, words) \in Seq(Proper(n)) /\ Assemble(h, words) # <<>>
           /\ SystemFirst(Assemble(h, words))
           /\ Len(Assemble(h, words)) = Len(Fix(Based(h))) + d
           /\ \A p \in 1 .. Len(Fix(Based(h))) :
                Alike(Assemble(h, words)[p + d], Fix(Based(h))[p])
<1> DEFINE f == Fix(Based(h))
           r == Assemble(h, words)
<1>1. f \in Seq(Proper(n)) /\ OnlyPrompt(f)
  BY FixType, FixOnlyPrompt
<1>2. r = Fronted(f, words)
  BY AssembleIs
<1> HIDE DEF f, r
<1>3. PICK d \in {0, 1} :
        /\ r \in Seq(Proper(n)) /\ Len(r) = Len(f) + d
        /\ Len(f) + d > 0 /\ SystemFirst(r)
        /\ \A p \in 1 .. Len(f) : Alike(r[p + d], f[p])
  BY <1>1, <1>2, FrontedIs
<1>4. r # <<>>
  <2>1. Len(r) # 0
    BY <1>1, <1>3
  <2> QED
    BY <2>1, EmptySeq
<1> QED
  BY <1>3, <1>4 DEF f, r

-----------------------------------------------------------------------------
(* The rounds of a Run                                                     *)

\* What OfKind takes of a reply, by block.
Picked(r, kind) == [k \in DOMAIN r |-> IF r[k][1] = kind THEN <<r[k][2]>> ELSE <<>>]

\* A block is a pair, of an id when it is a call.
LEMMA BlockIs ==
  ASSUME NEW b \in Blocks
  PROVE  /\ b[2] \in Ids \cup {None} /\ b = <<b[1], b[2]>>
         /\ b[1] \in {"thinking", "text", "call"}
         /\ b[1] = "call" => b[2] \in Ids
         /\ b[1] = "text" => b[2] = None
BY DEF Blocks

\* Each element comes from one block of the kind, and each such block has one.
LEMMA OfKindIs ==
  ASSUME NEW r \in Seq(Blocks), NEW kind
  PROVE  /\ Picked(r, kind) \in Seq(Seq(Ids \cup {None})) /\ Len(Picked(r, kind)) = Len(r)
         /\ OfKind(r, kind) = FlattenSeq(Picked(r, kind))
         /\ OfKind(r, kind) \in Seq(Ids \cup {None})
         /\ \A i \in 1 .. Len(OfKind(r, kind)) : \E k \in 1 .. Len(r) :
              r[k][1] = kind /\ OfKind(r, kind)[i] = r[k][2] /\ i = At(Picked(r, kind), k) + 1
         /\ \A k \in 1 .. Len(r) : r[k][1] = kind =>
              /\ At(Picked(r, kind), k) + 1 \in 1 .. Len(OfKind(r, kind))
              /\ OfKind(r, kind)[At(Picked(r, kind), k) + 1] = r[k][2]
<1> DEFINE S  == Ids \cup {None}
           ps == Picked(r, kind)
<1>1. Len(r) \in Nat /\ DOMAIN r = 1 .. Len(r) /\ \A k \in 1 .. Len(r) : r[k] \in Blocks
  OBVIOUS
<1>2. \A k \in 1 .. Len(r) : ps[k] = IF r[k][1] = kind THEN <<r[k][2]>> ELSE <<>>
  BY <1>1 DEF Picked
<1>3. ps \in Seq(Seq(S)) /\ Len(ps) = Len(r)
  <2>1. \A k \in 1 .. Len(r) : r[k][2] \in S
    BY <1>1, BlockIs
  <2> HIDE DEF S
  <2>2. \A k \in 1 .. Len(r) : <<r[k][2]>> \in Seq(S) /\ <<>> \in Seq(S)
    BY <2>1, EmptySeq
  <2>3. ps \in [1 .. Len(r) -> Seq(S)]
    BY <1>1, <2>2 DEF Picked
  <2> QED
    BY <1>1, <2>3
<1>4. OfKind(r, kind) = FlattenSeq(ps)
  BY DEF OfKind, Picked
<1>5. \A k \in 1 .. Len(r) :
        /\ r[k][1] = kind => Len(ps[k]) = 1 /\ ps[k][1] = r[k][2]
        /\ r[k][1] # kind => Len(ps[k]) = 0
  <2> SUFFICES ASSUME NEW k \in 1 .. Len(r)
               PROVE  /\ r[k][1] = kind => Len(ps[k]) = 1 /\ ps[k][1] = r[k][2]
                      /\ r[k][1] # kind => Len(ps[k]) = 0
    OBVIOUS
  <2>1. Len(<<>>) = 0 /\ Len(<<r[k][2]>>) = 1 /\ <<r[k][2]>>[1] = r[k][2]
    BY EmptySeq
  <2> HIDE DEF ps
  <2> QED
    BY <1>2, <2>1
<1> HIDE DEF ps, S
<1>6. ASSUME NEW i \in 1 .. Len(FlattenSeq(ps))
      PROVE  \E k \in 1 .. Len(r) :
               r[k][1] = kind /\ FlattenSeq(ps)[i] = r[k][2] /\ i = At(ps, k) + 1
  <2>1. PICK k \in 1 .. Len(ps) : \E t \in 1 .. Len(ps[k]) : i = At(ps, k) + t
    BY <1>3, FlattenHasOnly
  <2>2. PICK t \in 1 .. Len(ps[k]) : i = At(ps, k) + t
    BY <2>1
  <2>3. k \in 1 .. Len(r)
    BY <1>3
  <2>4. r[k][1] = kind /\ t = 1
    <3> DEFINE l == Len(ps[k])
    <3>1. (l = 0 \/ l = 1) /\ t \in 1 .. l /\ (r[k][1] # kind => l = 0)
      BY <1>5, <2>3
    <3> HIDE DEF l
    <3>2. t = 1 /\ l # 0
      BY <3>1
    <3> QED
      BY <3>1, <3>2
  <2>5. FlattenSeq(ps)[At(ps, k) + t] = ps[k][t]
    BY <1>3, FlattenHas
  <2> QED
    BY <1>5, <2>2, <2>3, <2>4, <2>5
<1>7. ASSUME NEW k \in 1 .. Len(r), r[k][1] = kind
      PROVE  At(ps, k) + 1 \in 1 .. Len(FlattenSeq(ps)) /\ FlattenSeq(ps)[At(ps, k) + 1] = r[k][2]
  <2>1. k \in 1 .. Len(ps) /\ 1 \in 1 .. Len(ps[k]) /\ ps[k][1] = r[k][2]
    BY <1>3, <1>5, <1>7
  <2> QED
    BY <1>3, <2>1, FlattenHas
<1>8. FlattenSeq(ps) \in Seq(S)
  BY <1>3, AtStep
<1> QED
  BY <1>3, <1>4, <1>6, <1>7, <1>8 DEF ps, S

\* The calls of a reply are ids.
LEMMA CallsType ==
  ASSUME NEW r \in Seq(Blocks)
  PROVE  OfKind(r, "call") \in Seq(Ids)
<1> DEFINE c == OfKind(r, "call")
<1>1. c \in Seq(Ids \cup {None})
  BY OfKindIs
<1>2. \A i \in 1 .. Len(c) : c[i] \in Ids
  <2>1. \A k \in 1 .. Len(r) : r[k] \in Blocks
    OBVIOUS
  <2> QED
    BY <2>1, OfKindIs, BlockIs
<1> HIDE DEF c
<1>3. c \in Seq(Ids)
  BY <1>1, <1>2
<1> QED
  BY <1>3 DEF c

\* The three providers make the same message of a reply.
LEMMA InvokesAgree ==
  ASSUME NEW r \in Seq(Blocks)
  PROVE  /\ OpenAiInvoke(r) = Assistant(OfKind(r, "text") # <<>>, OfKind(r, "call"))
         /\ AnthropicInvoke(r) = Assistant(OfKind(r, "text") # <<>>, OfKind(r, "call"))
         /\ ResponsesInvoke(r) = Assistant(OfKind(r, "text") # <<>>, OfKind(r, "call"))
<1>1. (\E k \in DOMAIN r : r[k][1] = "text") <=> OfKind(r, "text") # <<>>
  <2> DEFINE t == OfKind(r, "text")
  <2>1. DOMAIN r = 1 .. Len(r) /\ t \in Seq(Ids \cup {None})
    BY OfKindIs
  <2>2. ASSUME NEW k \in DOMAIN r, r[k][1] = "text"
        PROVE  t # <<>>
    <3>1. \E i : i \in 1 .. Len(t)
      BY <2>1, <2>2, OfKindIs
    <3> HIDE DEF t
    <3>2. Len(t) # 0
      BY <2>1, <3>1
    <3> QED
      BY <3>2, EmptySeq
  <2>3. ASSUME t # <<>>
        PROVE  \E k \in DOMAIN r : r[k][1] = "text"
    <3>1. 1 \in 1 .. Len(t)
      <4> HIDE DEF t
      <4> QED
        BY <2>1, <2>3, EmptySeq
    <3>2. PICK k \in 1 .. Len(r) : r[k][1] = "text"
      BY <3>1, OfKindIs
    <3> QED
      BY <2>1, <3>2
  <2> QED
    BY <2>2, <2>3
<1>2. (OfKind(r, "text") # <<>>) = (\E k \in DOMAIN r : r[k][1] = "text")
  BY <1>1
<1>3. ResponsesInvoke(r) = Assistant(OfKind(r, "text") # <<>>, OfKind(r, "call"))
  BY <1>2, Zenon DEF ResponsesInvoke, FromOutput
<1>4. AnthropicInvoke(r) = Assistant(OfKind(r, "text") # <<>>, OfKind(r, "call"))
  BY DEF AnthropicInvoke, FromContent
<1>5. OpenAiInvoke(r) = Assistant(OfKind(r, "text") # <<>>, OfKind(r, "call"))
  BY DEF OpenAiInvoke, ChatMessage, FromChatMessage
<1> QED
  BY <1>3, <1>4, <1>5

\* Where the scan for marks starts, and what it finds in each message behind.
ScanStart(ms) == Max({p \in DOMAIN ms : ms[p].role = "assistant"} \cup {0})
Scanned(ms, loadable) ==
  [k \in 1 .. Len(ms) - ScanStart(ms) |->
     IF ms[ScanStart(ms) + k].mark \in loadable THEN <<ms[ScanStart(ms) + k].mark>> ELSE <<>>]

\* One more element behind a sequence.
LEMMA AppendIs ==
  ASSUME NEW S, NEW s \in Seq(S), NEW e \in S
  PROVE  /\ Append(s, e) \in Seq(S) /\ Len(Append(s, e)) = Len(s) + 1 /\ Append(s, e) # <<>>
         /\ Append(s, e)[Len(s) + 1] = e /\ Last(Append(s, e)) = e
         /\ \A i \in 1 .. Len(s) : Append(s, e)[i] = s[i]
<1>1. /\ Append(s, e) \in Seq(S) /\ Len(Append(s, e)) = Len(s) + 1
      /\ Append(s, e)[Len(s) + 1] = e /\ \A i \in 1 .. Len(s) : Append(s, e)[i] = s[i]
  BY AppendProperties
<1>2. Append(s, e) # <<>>
  <2>1. Len(s) \in Nat /\ Len(Append(s, e)) # 0
    BY <1>1
  <2> QED
    BY <2>1, EmptySeq
<1> QED
  BY <1>1, <1>2 DEF Last

\* The scan starts at the last assistant message.
LEMMA ScanStartIs ==
  ASSUME NEW n \in Nat, NEW ms \in Seq(Proper(n))
  PROVE  /\ ScanStart(ms) \in 0 .. Len(ms)
         /\ \A p \in ScanStart(ms) + 1 .. Len(ms) : ms[p].role # "assistant"
         /\ ScanStart(ms) # 0 => ms[ScanStart(ms)].role = "assistant"
<1> DEFINE A == {p \in DOMAIN ms : ms[p].role = "assistant"} \cup {0}
<1>1. Len(ms) \in Nat /\ DOMAIN ms = 1 .. Len(ms)
  OBVIOUS
<1>2. A \subseteq 0 .. Len(ms) /\ A # {}
  BY <1>1
<1>3. Max(A) \in A /\ \A y \in A : Max(A) >= y
  <2> HIDE DEF A
  <2> QED
    BY <1>1, <1>2, MaxOf
<1>4. ScanStart(ms) = Max(A)
  BY DEF ScanStart
<1>5. ScanStart(ms) \in 0 .. Len(ms)
  BY <1>2, <1>3, <1>4
<1>6. ASSUME NEW p \in ScanStart(ms) + 1 .. Len(ms)
      PROVE  ms[p].role # "assistant"
  <2>1. p \in DOMAIN ms /\ ~ (ScanStart(ms) >= p)
    BY <1>1, <1>5
  <2>2. p \notin A
    BY <1>3, <1>4, <2>1
  <2> QED
    BY <2>1, <2>2
<1>7. ScanStart(ms) # 0 => ms[ScanStart(ms)].role = "assistant"
  BY <1>3, <1>4
<1> QED
  BY <1>5, <1>6, <1>7

\* Behind a tool message, OnLoop changes nothing, or it adds one message with the images.
LEMMA LoadedIs ==
  ASSUME NEW n \in Nat, NEW ms \in Seq(Proper(n)), ms # <<>>, Last(ms).role = "tool",
         NEW loadable \in SUBSET (1 .. n)
  PROVE  /\ FlattenSeq(Scanned(ms, loadable)) \in Seq(1 .. n)
         /\ \/ WithImages(ms, loadable) = ms
            \/ WithImages(ms, loadable) = Append(ms, Images(FlattenSeq(Scanned(ms, loadable))))
         /\ \A j \in 1 .. Len(FlattenSeq(Scanned(ms, loadable))) :
              \E k \in 1 .. Len(ms) - ScanStart(ms) :
                /\ FlattenSeq(Scanned(ms, loadable))[j] = ms[ScanStart(ms) + k].mark
                /\ j = At(Scanned(ms, loadable), k) + 1
<1> DEFINE st == ScanStart(ms)
           sc == Scanned(ms, loadable)
           l  == Len(ms) - st
           f  == FlattenSeq(sc)
           tools == {p \in st + 1 .. Len(ms) : ms[p].role = "tool"}
<1>1. /\ st \in Nat /\ Len(ms) \in Nat /\ st < Len(ms) /\ Len(ms) > 0
      /\ ms[Len(ms)].role = "tool"
  <2>1. Len(ms) \in Nat /\ Len(ms) > 0
    BY EmptySeq
  <2>2. ms[Len(ms)].role = "tool"
    BY DEF Last
  <2>3. st \in 0 .. Len(ms) /\ (st # 0 => ms[st].role = "assistant")
    BY ScanStartIs
  <2>4. st # Len(ms)
    BY <2>1, <2>2, <2>3
  <2> HIDE DEF st
  <2> QED
    BY <2>1, <2>2, <2>3, <2>4
<1>2. \A k \in 1 .. l : sc[k] = IF ms[st + k].mark \in loadable THEN <<ms[st + k].mark>> ELSE <<>>
  BY DEF Scanned
<1>3. l \in Nat /\ sc \in Seq(Seq(1 .. n)) /\ Len(sc) = l
  <2>1. l \in Nat
    BY <1>1
  <2>2. ASSUME NEW e \in loadable
        PROVE  <<e>> \in Seq(1 .. n)
    OBVIOUS
  <2>3. sc \in [1 .. l -> Seq(1 .. n)]
    <3>1. <<>> \in Seq(1 .. n)
      BY EmptySeq
    <3> QED
      BY <2>2, <3>1 DEF Scanned
  <2> HIDE DEF l, sc
  <2> QED
    BY <2>1, <2>3
<1>4. WithImages(ms, loadable) =
        IF f = <<>> THEN ms ELSE InsertAt(ms, Max(tools) + 1, Images(f))
  BY DEF WithImages, Scanned, ScanStart
<1>5. Max(tools) = Len(ms)
  <2>1. tools \subseteq 0 .. Len(ms) /\ Len(ms) \in tools
    BY <1>1
  <2>2. \A y \in tools : y <= Len(ms) /\ y \in Nat
    BY <2>1, <1>1
  <2> HIDE DEF tools
  <2>3. tools # {}
    BY <2>1
  <2>4. Max(tools) \in tools /\ Max(tools) >= Len(ms)
    BY <1>1, <2>1, <2>3, MaxOf
  <2> QED
    BY <1>1, <2>2, <2>4
<1>6. f \in Seq(1 .. n)
  <2> HIDE DEF sc
  <2> QED
    BY <1>3, AtStep
<1>7. InsertAt(ms, Len(ms) + 1, Images(f)) = Append(ms, Images(f))
  <2> DEFINE m == Images(f)
  <2>1. m \in Proper(n)
    BY <1>6, Made
  <2> HIDE DEF m
  <2>2. SubSeq(ms, 1, Len(ms) + 1 - 1) = ms
    <3>1. Len(ms) + 1 - 1 = Len(ms)
      BY <1>1
    <3>2. SubSeq(ms, 1, Len(ms)) = ms
      BY SubSeqFull
    <3> QED
      BY <3>1, <3>2
  <2>3. SubSeq(ms, Len(ms) + 1, Len(ms)) = <<>>
    BY <1>1, SubSeqEmpty
  <2>4. ms \o <<m>> = Append(ms, m)
    BY <2>1, AppendIsConcat
  <2>5. Append(ms, m) \o <<>> = Append(ms, m)
    <3>1. Append(ms, m) \in Seq(Proper(n))
      BY <2>1
    <3> QED
      BY <3>1, ConcatEmptySeq
  <2>6. InsertAt(ms, Len(ms) + 1, m) = Append(ms, m)
    <3> DEFINE front == SubSeq(ms, 1, Len(ms) + 1 - 1)
               back  == SubSeq(ms, Len(ms) + 1, Len(ms))
    <3>1. InsertAt(ms, Len(ms) + 1, m) = front \o <<m>> \o back
      BY DEF InsertAt
    <3>2. front = ms /\ back = <<>>
      BY <2>2, <2>3
    <3> HIDE DEF front, back
    <3>3. front \o <<m>> = Append(ms, m)
      BY <2>4, <3>2
    <3> QED
      BY <2>5, <3>1, <3>2, <3>3
  <2> QED
    BY <2>6 DEF m
<1>8. ASSUME NEW j \in 1 .. Len(f)
      PROVE  \E k \in 1 .. l : f[j] = ms[st + k].mark /\ j = At(sc, k) + 1
  <2> HIDE DEF sc
  <2>1. PICK k \in 1 .. Len(sc) : \E t \in 1 .. Len(sc[k]) : j = At(sc, k) + t
    BY <1>3, FlattenHasOnly
  <2>2. PICK t \in 1 .. Len(sc[k]) : j = At(sc, k) + t
    BY <2>1
  <2>3. k \in 1 .. l /\ f[j] = sc[k][t]
    BY <1>3, <2>2, FlattenHas
  <2>4. t = 1 /\ sc[k][1] = ms[st + k].mark
    <3> DEFINE len == Len(sc[k])
               e   == ms[st + k].mark
    <3>1. sc[k] = <<e>> \/ sc[k] = <<>>
      BY <1>2, <2>3
    <3>2. Len(<<e>>) = 1 /\ <<e>>[1] = e /\ Len(<<>>) = 0
      BY EmptySeq
    <3> HIDE DEF e
    <3>3. (len = 1 /\ sc[k][1] = e) \/ len = 0
      BY <3>1, <3>2
    <3>4. t \in 1 .. len
      OBVIOUS
    <3> HIDE DEF len
    <3>5. t = 1 /\ sc[k][1] = e
      BY <3>3, <3>4
    <3> QED
      BY <3>5 DEF e
  <2> QED
    BY <2>2, <2>3, <2>4
<1> QED
  BY <1>4, <1>5, <1>6, <1>7, <1>8

\* The answers of a tool batch, and how many marks there are up to its k-th call.
Nth(images, k) == Cardinality({j \in images : j <= k})
Answers(calls, images) ==
  [k \in DOMAIN calls |-> Tool(calls[k], IF k \in images THEN marks + Nth(images, k) ELSE 0)]

\* The marks of a batch are numbered upwards.
LEMMA NthIs ==
  ASSUME NEW l \in Nat, NEW images \in SUBSET (1 .. l)
  PROVE  /\ IsFiniteSet(images) /\ Cardinality(images) \in 0 .. l
         /\ \A k \in 1 .. l : Nth(images, k) \in 0 .. Cardinality(images)
         /\ \A k \in images : Nth(images, k) # 0
         /\ \A j, k \in images : j < k => Nth(images, j) < Nth(images, k)
<1>1. IsFiniteSet(1 .. l) /\ Cardinality(1 .. l) = l
  <2>1. 1 \in Int /\ l \in Int /\ (1 > l => l = 0)
    OBVIOUS
  <2>2. IsFiniteSet(1 .. l) /\ Cardinality(1 .. l) = IF 1 > l THEN 0 ELSE l - 1 + 1
    BY <2>1, FS_Interval
  <2> QED
    BY <2>1, <2>2
<1>2. IsFiniteSet(images) /\ Cardinality(images) \in Nat /\ Cardinality(images) <= l
  BY <1>1, FS_Subset, FS_CardinalityType
<1> DEFINE U(k) == {j \in images : j <= k}
<1>3. ASSUME NEW k \in 1 .. l
      PROVE  /\ U(k) \subseteq images /\ IsFiniteSet(U(k)) /\ Cardinality(U(k)) \in Nat
             /\ Cardinality(U(k)) <= Cardinality(images) /\ Nth(images, k) = Cardinality(U(k))
  <2>1. U(k) \subseteq images /\ Nth(images, k) = Cardinality(U(k))
    BY DEF Nth
  <2> HIDE DEF U
  <2> QED
    BY <1>2, <2>1, FS_Subset, FS_CardinalityType
<1>4. ASSUME NEW k \in images
      PROVE  Nth(images, k) # 0
  <2>1. k \in U(k) /\ k \in 1 .. l
    OBVIOUS
  <2> HIDE DEF U
  <2> QED
    BY <1>3, <2>1, FS_EmptySet
<1>5. ASSUME NEW j \in images, NEW k \in images, j < k
      PROVE  Nth(images, j) < Nth(images, k)
  <2>0. j \in 1 .. l /\ k \in 1 .. l
    OBVIOUS
  <2>1. U(j) \subseteq U(k) /\ k \in U(k) /\ k \notin U(j)
    <3>1. \A i \in images : i <= j => i <= k
      BY <1>5
    <3>2. U(j) \subseteq U(k)
      BY <3>1
    <3>3. k <= k /\ ~ (k <= j)
      BY <1>5
    <3> QED
      BY <3>2, <3>3
  <2> HIDE DEF U
  <2>2. Cardinality(U(j)) <= Cardinality(U(k)) /\ Cardinality(U(j)) # Cardinality(U(k))
    BY <1>3, <2>0, <2>1, FS_Subset
  <2> QED
    BY <1>3, <2>0, <2>2
<1>6. Cardinality(images) \in 0 .. l
  BY <1>2
<1>7. \A k \in 1 .. l : Nth(images, k) \in 0 .. Cardinality(images)
  <2> HIDE DEF U
  <2> QED
    BY <1>2, <1>3
<1> QED
  BY <1>2, <1>4, <1>5, <1>6, <1>7

\* One answer for each call.
LEMMA AnswersAre ==
  ASSUME marks \in Nat, NEW calls \in Seq(Ids), NEW images \in SUBSET (DOMAIN calls)
  PROVE  /\ Answers(calls, images) \in Seq(Proper(marks + Cardinality(images)))
         /\ Len(Answers(calls, images)) = Len(calls)
         /\ Cardinality(images) \in 0 .. Len(calls)
         /\ \A k \in 1 .. Len(calls) :
              Answers(calls, images)[k] =
                Tool(calls[k], IF k \in images THEN marks + Nth(images, k) ELSE 0)
<1> DEFINE n == marks + Cardinality(images)
           a == Answers(calls, images)
           m(k) == IF k \in images THEN marks + Nth(images, k) ELSE 0
<1>1. DOMAIN calls = 1 .. Len(calls) /\ Len(calls) \in Nat
  OBVIOUS
<1>2. /\ Cardinality(images) \in 0 .. Len(calls)
      /\ \A k \in 1 .. Len(calls) : Nth(images, k) \in 0 .. Cardinality(images)
  BY <1>1, NthIs
<1>3. n \in Nat
  BY <1>2
<1>4. \A k \in 1 .. Len(calls) : m(k) \in 0 .. n
  BY <1>2
<1>5. \A k \in 1 .. Len(calls) : a[k] = Tool(calls[k], m(k))
  BY <1>1 DEF Answers
<1>6. \A k \in 1 .. Len(calls) : calls[k] \in Ids
  BY <1>1
<1>7. \A k \in 1 .. Len(calls) : Tool(calls[k], m(k)) \in Proper(n)
  <2> HIDE DEF n, m
  <2> QED
    BY <1>3, <1>4, <1>6, Made
<1>8. a \in [1 .. Len(calls) -> Proper(n)]
  <2>1. a = [k \in 1 .. Len(calls) |-> Tool(calls[k], m(k))]
    BY <1>1 DEF Answers
  <2> HIDE DEF a, n, m
  <2> QED
    BY <1>7, <2>1
<1> HIDE DEF a, n
<1>9. a \in Seq(Proper(n)) /\ Len(a) = Len(calls)
  BY <1>1, <1>8
<1> QED
  BY <1>2, <1>5, <1>9 DEF a, n

\* What is put behind the system message leaves it the only one.
LEMMA StaysFirst ==
  ASSUME NEW S, NEW ms \in Seq(S), NEW ns \in Seq(S), ms # <<>>, SystemFirst(ms),
         Len(ms) <= Len(ns), \A p \in 1 .. Len(ms) : ns[p] = ms[p],
         \A p \in Len(ms) + 1 .. Len(ns) : ns[p].role # "system"
  PROVE  SystemFirst(ns)
<1>1. Len(ms) \in Nat /\ Len(ns) \in Nat /\ Len(ms) > 0
  BY EmptySeq
<1>2. ASSUME NEW p \in 1 .. Len(ns)
      PROVE  ns[p].role = "system" <=> p = 1
  <2>1. CASE p \in 1 .. Len(ms)
    BY <2>1 DEF SystemFirst
  <2>2. CASE p \notin 1 .. Len(ms)
    BY <1>1, <2>2
  <2> QED
    BY <2>1, <2>2
<1>3. ns[1] = ms[1]
  BY <1>1
<1> QED
  BY <1>2, <1>3 DEF SystemFirst

-----------------------------------------------------------------------------
(* The shape of a history                                                  *)

\* Nothing to bring along for the first Run.
LEMMA ShapeInit == Init => ShapeInv
<1> SUFFICES ASSUME Init PROVE ShapeInv
  OBVIOUS
<1>1. PICK words \in SUBSET UNION Skills : msgs = Assemble(<<>>, words)
  BY DEF Init
<1>2. <<>> \in Seq(Proper(0)) /\ \A p \in 1 .. Len(<<>>) : FALSE
  BY EmptySeq
<1>3. Based(<<>>) \in Seq(Proper(0)) /\ OnlyPrompt(Based(<<>>))
  BY <1>2, BasedIs
<1>4. msgs \in Seq(Proper(0)) /\ msgs # <<>> /\ SystemFirst(msgs)
  BY <1>1, <1>3, AssembledIs
<1>5. <<>> \in Seq(Blocks)
  BY EmptySeq
<1>6. 1 \in 1 .. Turns /\ 0 \in 0 .. MaxCalls /\ 0 \in 0 .. 0
  BY HistoriesAssumption
<1> QED
  BY <1>4, <1>5, <1>6 DEF Init, TypeInv, ShapeInv

\* What NextTurn assembles: the fixed messages behind one good system message.
LEMMA NextTurnIs ==
  ASSUME ShapeInv, NextTurn
  PROVE  \E h \in Cuts(msgs), words \in SUBSET UNION Skills : msgs' = Assemble(h, words)
<1>1. PICK cut \in 1 .. Len(msgs), words \in SUBSET UNION Skills :
        \/ msgs' = Assemble(SubSeq(msgs, cut, Len(msgs)), words)
        \/ msgs' = Assemble(SubSeq(msgs, 1, cut), words)
  BY DEF NextTurn
<1>2. SubSeq(msgs, cut, Len(msgs)) \in Cuts(msgs) /\ SubSeq(msgs, 1, cut) \in Cuts(msgs)
  <2> DEFINE G(c) == {SubSeq(msgs, c, Len(msgs)), SubSeq(msgs, 1, c)}
  <2>1. G(cut) \in {G(c) : c \in 1 .. Len(msgs)}
    OBVIOUS
  <2>2. G(cut) \subseteq Cuts(msgs)
    BY <2>1 DEF Cuts
  <2> QED
    BY <2>2
<1> QED
  BY <1>1, <1>2

\* The next Run.
LEMMA ShapeNextTurn == ShapeInv /\ NextTurn => ShapeInv'
<1> SUFFICES ASSUME ShapeInv, NextTurn PROVE ShapeInv'
  OBVIOUS
<1>1. marks \in Nat /\ msgs \in Seq(Proper(marks)) /\ SystemFirst(msgs) /\ turn \in 1 .. Turns
  BY HistoriesAssumption DEF ShapeInv, TypeInv
<1>2. PICK h \in Cuts(msgs), words \in SUBSET UNION Skills : msgs' = Assemble(h, words)
  BY NextTurnIs
<1>3. Based(h) \in Seq(Proper(marks)) /\ OnlyPrompt(Based(h))
  BY <1>1, TurnBase
<1>4. /\ Assemble(h, words) \in Seq(Proper(marks)) /\ Assemble(h, words) # <<>>
      /\ SystemFirst(Assemble(h, words))
  BY <1>1, <1>3, AssembledIs
<1>5. <<>> \in Seq(Blocks)
  BY EmptySeq
<1>6. turn + 1 \in 1 .. Turns
  BY <1>1, HistoriesAssumption DEF NextTurn
<1>7. /\ msgs' \in Seq(Proper(marks')) /\ msgs' # <<>> /\ turn' \in 1 .. Turns
      /\ said' \in Seq(Blocks) /\ said' = <<>> /\ pc' = "model"
      /\ count' = count /\ marks' = marks /\ used' = used /\ repeated' = repeated
  BY <1>2, <1>4, <1>5, <1>6 DEF NextTurn
<1>8. TypeInv'
  BY <1>7 DEF ShapeInv, TypeInv
<1>9. SystemFirst(msgs)'
  BY <1>2, <1>4 DEF SystemFirst, GoodParts
<1> QED
  BY <1>8, <1>9 DEF ShapeInv

\* A reply is a sequence of different blocks.
LEMMA ReplyIs ==
  ASSUME NEW r \in Replies
  PROVE  r \in Seq(Blocks) /\ IsInjective(r)
<1>1. PICK n \in 0 .. MaxBlocks : r \in [1 .. n -> Blocks]
  BY DEF Replies
<1>2. n \in Nat
  BY HistoriesAssumption
<1> QED
  BY <1>1, <1>2 DEF Replies

\* A reply enters the history as one message.
LEMMA ReplyAppends ==
  ASSUME NEW r \in Replies, Reply(r)
  PROVE  /\ msgs' = Append(msgs, Assistant(OfKind(r, "text") # <<>>, OfKind(r, "call")))
         /\ OfKind(r, "call") \in Seq(Ids)
<1>1. r \in Seq(Blocks)
  BY ReplyIs
<1> DEFINE m == Assistant(OfKind(r, "text") # <<>>, OfKind(r, "call"))
<1>2. OpenAiInvoke(r) = m /\ AnthropicInvoke(r) = m /\ ResponsesInvoke(r) = m
  BY <1>1, InvokesAgree
<1> HIDE DEF m
<1>3. msgs' = Append(msgs, m)
  BY <1>2 DEF Reply
<1> QED
  BY <1>1, <1>3, CallsType DEF m

\* The reply of the model.
LEMMA ShapeReply == ASSUME NEW r \in Replies, ShapeInv, Reply(r) PROVE ShapeInv'
<1> DEFINE c == OfKind(r, "call")
           m == Assistant(OfKind(r, "text") # <<>>, c)
<1>1. /\ marks \in Nat /\ msgs \in Seq(Proper(marks)) /\ SystemFirst(msgs) /\ msgs # <<>>
      /\ count \in 0 .. MaxCalls /\ marks \in 0 .. count
  BY HistoriesAssumption DEF ShapeInv, TypeInv
<1>2. msgs' = Append(msgs, m) /\ c \in Seq(Ids) /\ r \in Seq(Blocks)
  BY ReplyAppends, ReplyIs
<1>3. /\ m \in Proper(marks) /\ m.role = "assistant" /\ m.calls = c
  <2> DEFINE t == OfKind(r, "text") # <<>>
  <2>1. t \in BOOLEAN /\ m = Assistant(t, c)
    OBVIOUS
  <2> HIDE DEF t, c
  <2>2. Assistant(t, c) \in Proper(marks)
    BY <1>1, <1>2, <2>1, Made
  <2>3. Assistant(t, c).role = "assistant" /\ Assistant(t, c).calls = c
    BY MadeFields
  <2> QED
    BY <2>1, <2>2, <2>3
<1>4. ToSet(c) \subseteq Ids /\ Len(c) \in Nat
  BY <1>2 DEF ToSet
<1>5. /\ count' = count + Len(c) /\ count + Len(c) <= MaxCalls /\ said' = r
      /\ pc' = IF Last(msgs').calls = <<>> THEN "over" ELSE "called"
      /\ used' = used \cup ToSet(c) /\ turn' = turn /\ marks' = marks
  BY DEF Reply
<1>6. repeated' \in BOOLEAN
  BY DEF Reply
<1>7. m = Assistant(OfKind(said', "text") # <<>>, OfKind(said', "call"))
  BY <1>5
<1> HIDE DEF m, c
<1>8. /\ msgs' \in Seq(Proper(marks)) /\ msgs' # <<>> /\ Last(msgs') = m
      /\ Len(msgs') = Len(msgs) + 1 /\ msgs'[Len(msgs) + 1] = m
      /\ \A i \in 1 .. Len(msgs) : msgs'[i] = msgs[i]
  BY <1>1, <1>2, <1>3, AppendIs
<1>9. SystemFirst(msgs')
  <2>1. Len(msgs) \in Nat
    BY <1>1
  <2>2. \A p \in Len(msgs) + 1 .. Len(msgs') : msgs'[p].role # "system"
    BY <1>3, <1>8, <2>1
  <2>3. Len(msgs) <= Len(msgs')
    BY <1>8, <2>1
  <2> DEFINE ns == msgs'
  <2>4. /\ ns \in Seq(Proper(marks)) /\ Len(msgs) <= Len(ns)
        /\ \A i \in 1 .. Len(msgs) : ns[i] = msgs[i]
        /\ \A p \in Len(msgs) + 1 .. Len(ns) : ns[p].role # "system"
    BY <1>8, <2>2, <2>3
  <2> HIDE DEF ns
  <2>5. SystemFirst(ns)
    BY <1>1, <2>4, StaysFirst
  <2> QED
    BY <2>5 DEF ns
<1>10. /\ turn' \in 1 .. Turns /\ count' \in 0 .. MaxCalls /\ marks' \in 0 .. count'
       /\ used' \subseteq Ids
  BY <1>1, <1>4, <1>5, HistoriesAssumption DEF ShapeInv, TypeInv
<1>11. /\ pc' \in {"called", "over"}
       /\ pc' = "called" => /\ Last(msgs').role = "assistant" /\ Last(msgs').calls # <<>>
                            /\ marks' + Len(Last(msgs').calls) <= count'
  BY <1>1, <1>3, <1>4, <1>5, <1>8
<1>12. TypeInv'
  BY <1>2, <1>5, <1>6, <1>7, <1>8, <1>10, <1>11 DEF TypeInv
<1>13. SystemFirst(msgs)'
  BY <1>9 DEF SystemFirst, GoodParts
<1> QED
  BY <1>12, <1>13 DEF ShapeInv

\* A tool batch appends its answers.
LEMMA BatchAppends ==
  ASSUME TypeInv, NEW images, ToolBatch(images)
  PROVE  /\ pc = "called" /\ Last(msgs).calls \in Seq(Ids) /\ Len(Last(msgs).calls) > 0
         /\ images \in SUBSET (DOMAIN Last(msgs).calls)
         /\ msgs' = msgs \o Answers(Last(msgs).calls, images)
         /\ marks' = marks + Cardinality(images)
         /\ Last(msgs) = msgs[Len(msgs)] /\ Len(msgs) \in Nat /\ Len(msgs) > 0
<1>1. /\ marks \in Nat /\ msgs \in Seq(Proper(marks)) /\ msgs # <<>>
  BY HistoriesAssumption DEF TypeInv
<1>2. pc = "called" /\ images \in SUBSET (DOMAIN Last(msgs).calls)
      /\ marks' = marks + Cardinality(images)
  BY DEF ToolBatch
<1>3. msgs' = msgs \o Answers(Last(msgs).calls, images)
  BY DEF ToolBatch, Answers, Nth
<1>4. Len(msgs) \in Nat /\ Len(msgs) > 0 /\ Last(msgs) = msgs[Len(msgs)]
  BY <1>1, EmptySeq DEF Last
<1>5. Last(msgs).calls \in Seq(Ids) /\ Last(msgs).calls # <<>>
  <2>1. Len(msgs) \in 1 .. Len(msgs)
    BY <1>4
  <2> QED
    BY <1>1, <1>2, <1>4, <2>1, MessageAt DEF TypeInv
<1>6. Len(Last(msgs).calls) > 0
  <2> DEFINE c == Last(msgs).calls
  <2> HIDE DEF c
  <2>1. c \in Seq(Ids) /\ c # <<>>
    BY <1>5 DEF c
  <2>2. Len(c) > 0
    BY <2>1, EmptySeq
  <2> QED
    BY <2>2 DEF c
<1> QED
  BY <1>2, <1>3, <1>4, <1>5, <1>6

\* The tool batch.
LEMMA ShapeBatch == ASSUME NEW images, ShapeInv, ToolBatch(images) PROVE ShapeInv'
<1> DEFINE c == Last(msgs).calls
           a == Answers(c, images)
           n == marks + Cardinality(images)
<1>1. /\ marks \in Nat /\ msgs \in Seq(Proper(marks)) /\ SystemFirst(msgs) /\ msgs # <<>>
      /\ count \in 0 .. MaxCalls /\ TypeInv
  BY HistoriesAssumption DEF ShapeInv, TypeInv
<1>2. /\ pc = "called" /\ c \in Seq(Ids) /\ Len(c) > 0 /\ images \in SUBSET (DOMAIN c)
      /\ msgs' = msgs \o a /\ marks' = n
  BY <1>1, BatchAppends
<1>3. marks + Len(c) <= count
  BY <1>1, <1>2 DEF TypeInv
<1> HIDE DEF c
<1>4. /\ a \in Seq(Proper(n)) /\ Len(a) = Len(c) /\ Cardinality(images) \in 0 .. Len(c)
      /\ \A k \in 1 .. Len(c) :
           a[k] = Tool(c[k], IF k \in images THEN marks + Nth(images, k) ELSE 0)
  BY <1>1, <1>2, AnswersAre
<1>5. \A k \in 1 .. Len(c) : a[k].role = "tool"
  BY <1>4, MadeFields
<1>6. n \in Nat /\ marks <= n /\ n \in 0 .. count /\ Len(c) \in Nat
  BY <1>1, <1>2, <1>3, <1>4
<1> HIDE DEF a, n
<1>7. msgs \in Seq(Proper(n))
  <2>1. Proper(marks) \subseteq Proper(n)
    BY <1>1, <1>6, ProperGrows
  <2> HIDE DEF ShapeInv
  <2> QED
    BY <1>1, <2>1
<1> DEFINE ns == msgs \o a
<1>8. /\ ns \in Seq(Proper(n)) /\ Len(ns) = Len(msgs) + Len(c)
      /\ \A i \in 1 .. Len(msgs) + Len(c) :
           ns[i] = IF i <= Len(msgs) THEN msgs[i] ELSE a[i - Len(msgs)]
  BY <1>4, <1>7, ConcatProperties
<1> HIDE DEF ns
<1>9. Len(msgs) \in Nat
  BY <1>1
<1>10. /\ \A i \in 1 .. Len(msgs) : ns[i] = msgs[i]
       /\ \A i \in Len(msgs) + 1 .. Len(ns) : ns[i].role = "tool"
  <2>1. ASSUME NEW i \in Len(msgs) + 1 .. Len(ns)
        PROVE  ns[i].role = "tool"
    <3>1. i \in 1 .. Len(msgs) + Len(c) /\ ~ (i <= Len(msgs)) /\ i - Len(msgs) \in 1 .. Len(c)
      BY <1>6, <1>8, <1>9
    <3> QED
      BY <1>5, <1>8, <3>1
  <2> QED
    BY <1>6, <1>8, <1>9, <2>1
<1>11. SystemFirst(ns)
  <2>1. Len(msgs) <= Len(ns) /\ \A i \in Len(msgs) + 1 .. Len(ns) : ns[i].role # "system"
    BY <1>6, <1>8, <1>9, <1>10
  <2> QED
    BY <1>1, <1>7, <1>8, <1>10, <2>1, StaysFirst
<1>12. ns # <<>> /\ Last(ns).role = "tool"
  <2>1. Len(ns) # 0 /\ Len(ns) \in Len(msgs) + 1 .. Len(ns)
    BY <1>2, <1>6, <1>8, <1>9
  <2> QED
    BY <1>8, <1>10, <2>1, EmptySeq DEF Last
<1>13. /\ msgs' = ns /\ marks' = n /\ pc' = "answered" /\ said' = <<>>
       /\ turn' = turn /\ count' = count /\ used' = used /\ repeated' = repeated
  BY <1>2 DEF ToolBatch, ns
<1>14. <<>> \in Seq(Blocks)
  BY EmptySeq
<1>15. TypeInv'
  BY <1>6, <1>8, <1>12, <1>13, <1>14 DEF ShapeInv, TypeInv
<1>16. SystemFirst(msgs)'
  BY <1>11, <1>13 DEF SystemFirst, GoodParts
<1> QED
  BY <1>15, <1>16 DEF ShapeInv

\* The loop hooks append a message with images, or nothing.
LEMMA LoopAppends ==
  ASSUME TypeInv, NEW loadable \in SUBSET (1 .. marks), OnLoop(loadable)
  PROVE  /\ FlattenSeq(Scanned(msgs, loadable)) \in Seq(1 .. marks)
         /\ \/ msgs' = msgs
            \/ msgs' = Append(msgs, Images(FlattenSeq(Scanned(msgs, loadable))))
<1>1. /\ marks \in Nat /\ msgs \in Seq(Proper(marks)) /\ msgs # <<>> /\ Last(msgs).role = "tool"
  BY HistoriesAssumption DEF OnLoop, TypeInv
<1>2. msgs' = WithImages(msgs, loadable)
  BY DEF OnLoop
<1> QED
  BY <1>1, <1>2, LoadedIs

\* The loop hooks.
LEMMA ShapeOnLoop ==
  ASSUME NEW loadable \in SUBSET (1 .. marks), ShapeInv, OnLoop(loadable)
  PROVE  ShapeInv'
<1> DEFINE m == Images(FlattenSeq(Scanned(msgs, loadable)))
<1>1. /\ marks \in Nat /\ msgs \in Seq(Proper(marks)) /\ SystemFirst(msgs) /\ msgs # <<>>
      /\ TypeInv
  BY HistoriesAssumption DEF ShapeInv, TypeInv
<1>2. m \in Proper(marks) /\ m.role = "user" /\ (msgs' = msgs \/ msgs' = Append(msgs, m))
  BY <1>1, LoopAppends, Made, MadeFields
<1> HIDE DEF m
<1> DEFINE ns == msgs'
<1>3. /\ ns \in Seq(Proper(marks)) /\ ns # <<>> /\ Len(msgs) <= Len(ns)
      /\ \A i \in 1 .. Len(msgs) : ns[i] = msgs[i]
      /\ \A i \in Len(msgs) + 1 .. Len(ns) : ns[i].role = "user"
  <2>1. Len(msgs) \in Nat
    BY <1>1
  <2>2. CASE ns = msgs
    BY <1>1, <2>1, <2>2
  <2>3. CASE ns = Append(msgs, m)
    <3>1. /\ ns \in Seq(Proper(marks)) /\ ns # <<>> /\ Len(ns) = Len(msgs) + 1
          /\ ns[Len(msgs) + 1] = m /\ \A i \in 1 .. Len(msgs) : ns[i] = msgs[i]
      BY <1>1, <1>2, <2>3, AppendIs
    <3> HIDE DEF ns
    <3>2. \A i \in Len(msgs) + 1 .. Len(ns) : i = Len(msgs) + 1
      BY <2>1, <3>1
    <3>3. Len(msgs) <= Len(ns)
      BY <2>1, <3>1
    <3> QED
      BY <1>2, <3>1, <3>2, <3>3
  <2> QED
    BY <1>2, <2>2, <2>3
<1> HIDE DEF ns
<1>4. SystemFirst(ns)
  <2>1. \A i \in Len(msgs) + 1 .. Len(ns) : ns[i].role # "system"
    BY <1>3
  <2> QED
    BY <1>1, <1>3, <2>1, StaysFirst
<1>5. /\ msgs' = ns /\ pc = "answered" /\ pc' \in {"model", "limit"} /\ said' = said /\ marks' = marks
      /\ turn' = turn /\ count' = count /\ used' = used /\ repeated' = repeated
  BY DEF OnLoop, ns
<1>6. said = <<>>
  <2>1. said # <<>> => Last(msgs) = Assistant(OfKind(said, "text") # <<>>, OfKind(said, "call"))
    BY <1>1 DEF TypeInv
  <2>2. Last(msgs).role = "tool"
    BY <1>1, <1>5 DEF TypeInv
  <2> QED
    BY <2>1, <2>2, MadeFields
<1>7. TypeInv'
  BY <1>1, <1>3, <1>5, <1>6 DEF TypeInv
<1>8. SystemFirst(msgs)'
  BY <1>4, <1>5 DEF SystemFirst, GoodParts
<1> QED
  BY <1>7, <1>8 DEF ShapeInv

\* A step of finalWrap.
Wrapping == FinalWrap \/ \E text \in BOOLEAN : WrapReply(text)

\* It puts a message behind the others, which calls nothing and shows nothing.
LEMMA WrapAppends ==
  ASSUME TypeInv, Wrapping
  PROVE  \E m \in Proper(marks) :
           /\ msgs' = Append(msgs, m) /\ m.role \in {"user", "assistant"}
           /\ m.calls = <<>> /\ m.images = <<>>
<1>1. marks \in Nat /\ <<>> \in Seq(Ids)
  BY HistoriesAssumption, EmptySeq DEF TypeInv
<1>2. CASE FinalWrap
  <2>1. msgs' = Append(msgs, User) /\ User \in Proper(marks)
    BY <1>1, <1>2, Made DEF FinalWrap
  <2> QED
    BY <2>1, MadeFields
<1>3. ASSUME NEW text \in BOOLEAN, WrapReply(text)
      PROVE  /\ msgs' = Append(msgs, Assistant(text, <<>>))
             /\ Assistant(text, <<>>) \in Proper(marks)
  BY <1>1, <1>3, Made DEF WrapReply
<1>4. CASE \E text \in BOOLEAN : WrapReply(text)
  BY <1>3, <1>4, MadeFields
<1> QED
  BY <1>2, <1>4 DEF Wrapping

\* finalWrap keeps the shape of the history.
LEMMA ShapeWrap == ASSUME ShapeInv, Wrapping PROVE ShapeInv'
<1>1. /\ marks \in Nat /\ msgs \in Seq(Proper(marks)) /\ SystemFirst(msgs) /\ msgs # <<>>
      /\ TypeInv /\ Len(msgs) \in Nat
  BY HistoriesAssumption DEF ShapeInv, TypeInv
<1>2. PICK m \in Proper(marks) : msgs' = Append(msgs, m) /\ m.role \in {"user", "assistant"}
  BY <1>1, WrapAppends
<1> DEFINE ns == msgs'
<1>3. /\ ns \in Seq(Proper(marks)) /\ ns # <<>> /\ Len(ns) = Len(msgs) + 1
      /\ ns[Len(msgs) + 1] = m /\ \A i \in 1 .. Len(msgs) : ns[i] = msgs[i]
  BY <1>1, <1>2, AppendIs
<1> HIDE DEF ns
<1>4. SystemFirst(ns)
  <2>1. \A i \in Len(msgs) + 1 .. Len(ns) : i = Len(msgs) + 1
    BY <1>1, <1>3
  <2>2. \A i \in Len(msgs) + 1 .. Len(ns) : ns[i].role # "system"
    BY <1>2, <1>3, <2>1
  <2>3. Len(msgs) <= Len(ns)
    BY <1>1, <1>3
  <2> QED
    BY <1>1, <1>3, <2>2, <2>3, StaysFirst
<1>5. /\ msgs' = ns /\ pc \in {"limit", "wrap"} /\ pc' \in {"wrap", "over"} /\ said' = said
      /\ marks' = marks /\ turn' = turn /\ count' = count /\ used' = used
      /\ repeated' = repeated
  BY DEF Wrapping, FinalWrap, WrapReply, ns
<1>6. said = <<>>
  BY <1>1, <1>5 DEF TypeInv
<1>7. TypeInv'
  BY <1>1, <1>3, <1>5, <1>6 DEF TypeInv
<1>8. SystemFirst(msgs)'
  BY <1>4, <1>5 DEF SystemFirst, GoodParts
<1> QED
  BY <1>7, <1>8 DEF ShapeInv

\* The end of a Run, and steps that change nothing.
LEMMA ShapeEnd == ShapeInv /\ (End \/ UNCHANGED vars) => ShapeInv'
<1>1. ASSUME ShapeInv, End PROVE ShapeInv'
  <2>1. <<>> \in Seq(Blocks)
    BY EmptySeq
  <2>2. TypeInv'
    BY <1>1, <2>1 DEF ShapeInv, TypeInv, End
  <2>3. SystemFirst(msgs)'
    BY <1>1 DEF ShapeInv, End, SystemFirst, GoodParts
  <2> QED
    BY <2>2, <2>3 DEF ShapeInv
<1>2. ASSUME ShapeInv, UNCHANGED vars PROVE ShapeInv'
  <2>1. TypeInv'
    BY <1>2 DEF ShapeInv, TypeInv, vars
  <2>2. SystemFirst(msgs)'
    BY <1>2 DEF ShapeInv, vars, SystemFirst, GoodParts
  <2> QED
    BY <2>1, <2>2 DEF ShapeInv
<1> QED
  BY <1>1, <1>2

\* A history keeps its shape.
LEMMA ShapeHolds == Spec => []ShapeInv
<1>1. ShapeInv /\ [Next]_vars => ShapeInv'
  BY ShapeNextTurn, ShapeReply, ShapeBatch, ShapeOnLoop, ShapeWrap, ShapeEnd DEF Next, Wrapping
<1> QED
  BY <1>1, ShapeInit, PTL DEF Spec

\* Every message of a history is of the kind its role says, and at each point of a Run the
\* last message is of the role that the next step of Run expects.
THEOREM HistoriesTyped == Spec => []TypeOK
<1>1. ASSUME ShapeInv PROVE TypeOK
  <2>1. marks \in Nat /\ msgs \in Seq(Proper(marks)) /\ msgs # <<>> /\ TypeInv
    BY <1>1, HistoriesAssumption DEF ShapeInv, TypeInv
  <2>2. msgs \in Seq(Message)
    <3>1. Proper(marks) \subseteq Message
      BY DEF Proper
    <3> QED
      BY <2>1, <3>1
  <2>3. ASSUME NEW p \in DOMAIN msgs
        PROVE  /\ msgs[p].calls # <<>> => msgs[p].role = "assistant"
               /\ msgs[p].role = "tool" <=> msgs[p].id # None
               /\ msgs[p].mark # 0 => msgs[p].role = "tool" /\ msgs[p].mark <= marks
               /\ msgs[p].images # <<>> => msgs[p].role = "user"
               /\ msgs[p].parts # <<>> <=> msgs[p].role = "system"
    <3>1. msgs[p] \in Proper(marks)
      BY <2>1
    <3> QED
      BY <3>1 DEF Proper
  <2>4. said # <<>> => Last(msgs).role = "assistant"
    BY <2>1, MadeFields DEF TypeInv
  <2> QED
    BY <2>1, <2>2, <2>3, <2>4 DEF TypeInv, TypeOK
<1> QED
  BY <1>1, ShapeHolds, PTL

\* Fix leaves a history alone in which every call is answered right behind its message, for
\* any ids: the Runs of a host that changes nothing send what the Runs before them sent.
THEOREM IntactHistoriesKept == Spec => []IntactKept
<1>1. ShapeInv => IntactKept
  BY IntactIsKept DEF ShapeInv
<1> QED
  BY <1>1, ShapeHolds, PTL

-----------------------------------------------------------------------------
(* Requests                                                                *)

\* A fork sends the messages up to some point before the reply with its call, and its input;
\* all that is left out on the way is a user message.
LEMMA SnapshotIs ==
  ASSUME ShapeInv, pc = "called"
  PROVE  \E j \in 1 .. Len(msgs) - 1 :
           LET r == ForkMessages(ContextSnapshot(msgs))
           IN /\ r \in Seq(Proper(marks)) /\ Len(r) = j + 1 /\ r[j + 1] = User
              /\ \A i \in 1 .. j : r[i] = msgs[i]
              /\ \A i \in j + 1 .. Len(msgs) - 1 : msgs[i].role = "user"
<1> DEFINE l == Len(msgs)
           r == ForkMessages(ContextSnapshot(msgs))
<1>1. /\ marks \in Nat /\ msgs \in Seq(Proper(marks)) /\ msgs # <<>>
      /\ SystemFirst(msgs) /\ Last(msgs).role = "assistant"
  BY HistoriesAssumption DEF ShapeInv, TypeInv
<1>2. /\ l \in Nat /\ l > 1 /\ msgs[1].role = "system"
  <2>1. Len(msgs) \in Nat /\ Len(msgs) > 0
    BY <1>1, EmptySeq
  <2>2. msgs[1].role = "system" /\ msgs[Len(msgs)].role = "assistant"
    BY <1>1, <2>1 DEF SystemFirst, Last
  <2>3. Len(msgs) # 1
    BY <2>2
  <2> QED
    BY <2>1, <2>2, <2>3
<1>3. ASSUME NEW j \in Nat, j <= l
      PROVE  /\ SubSeq(msgs, 1, j) \in Seq(Proper(marks)) /\ Len(SubSeq(msgs, 1, j)) = j
             /\ \A i \in 1 .. j : SubSeq(msgs, 1, j)[i] = msgs[i]
  <2>1. 0 \in Nat /\ 0 <= j /\ 0 + 1 = 1 /\ j - 0 = j
    BY <1>3
  <2>2. /\ SubSeq(msgs, 0 + 1, j) \in Seq(Proper(marks)) /\ Len(SubSeq(msgs, 0 + 1, j)) = j - 0
        /\ \A i \in 1 .. j - 0 : SubSeq(msgs, 0 + 1, j)[i] = msgs[0 + i]
    BY <1>1, <1>3, <2>1, PartOf
  <2>3. \A i \in 1 .. j : 0 + i = i
    OBVIOUS
  <2> QED
    BY <2>1, <2>2, <2>3
<1> DEFINE front == SubSeq(msgs, 1, l - 1)
<1>4. /\ front \in Seq(Proper(marks)) /\ Len(front) = l - 1 /\ l - 1 \in Nat /\ l - 1 <= l
      /\ l - 1 > 0 /\ \A i \in 1 .. l - 1 : front[i] = msgs[i]
  BY <1>2, <1>3
<1>5. Last(front) = msgs[l - 1] /\ front # <<>>
  <2> HIDE DEF front
  <2>1. Last(front) = front[l - 1] /\ l - 1 \in 1 .. l - 1
    BY <1>4 DEF Last
  <2>2. Len(front) # 0
    BY <1>4
  <2> QED
    BY <1>4, <2>1, <2>2, EmptySeq
<1>6. ASSUME NEW j \in 1 .. l - 1, ContextSnapshot(msgs) = SubSeq(msgs, 1, j),
             \A i \in j + 1 .. l - 1 : msgs[i].role = "user"
      PROVE  \E k \in 1 .. Len(msgs) - 1 :
               /\ r \in Seq(Proper(marks)) /\ Len(r) = k + 1 /\ r[k + 1] = User
               /\ \A i \in 1 .. k : r[i] = msgs[i]
               /\ \A i \in k + 1 .. Len(msgs) - 1 : msgs[i].role = "user"
  <2> DEFINE s == SubSeq(msgs, 1, j)
  <2>1. s \in Seq(Proper(marks)) /\ Len(s) = j /\ \A i \in 1 .. j : s[i] = msgs[i]
    BY <1>2, <1>3
  <2>2. r = Append(s, User)
    BY <1>6 DEF ForkMessages
  <2> HIDE DEF s, r
  <2>3. User \in Proper(marks)
    BY <1>1, Made
  <2>4. /\ r \in Seq(Proper(marks)) /\ Len(r) = j + 1 /\ r[j + 1] = User
        /\ \A i \in 1 .. j : r[i] = msgs[i]
    BY <2>1, <2>2, <2>3, AppendIs
  <2> QED
    BY <1>6, <2>4
<1>7. CASE msgs[l - 1].role = "user"
  <2>1. ContextSnapshot(msgs) = SubSeq(msgs, 1, l - 1 - 1)
    <3>1. ContextSnapshot(msgs) = Front(front)
      BY <1>5, <1>7 DEF ContextSnapshot, Front
    <3>2. Front(front) = SubSeq(front, 1, l - 1 - 1)
      BY <1>4 DEF Front
    <3>3. SubSeq(front, 1, l - 1 - 1) = SubSeq(msgs, 1, l - 1 - 1)
      <4> DEFINE a == SubSeq(front, 1, l - 1 - 1)
                 b == SubSeq(msgs, 1, l - 1 - 1)
                 k == l - 1 - 1
      <4>1. k \in Nat /\ k <= l - 1 /\ k <= l
        BY <1>2
      <4>2. /\ 0 \in Nat /\ 0 <= k /\ 0 + 1 = 1 /\ k - 0 = k
            /\ \A i \in 1 .. k : 0 + i = i /\ i \in 1 .. l - 1
        BY <1>2, <4>1
      <4> HIDE DEF front, k
      <4>3. /\ SubSeq(front, 0 + 1, k) \in Seq(Proper(marks)) /\ Len(SubSeq(front, 0 + 1, k)) = k - 0
            /\ \A i \in 1 .. k - 0 : SubSeq(front, 0 + 1, k)[i] = front[0 + i]
        BY <1>4, <4>1, <4>2, PartOf
      <4>4. /\ SubSeq(front, 1, k) \in Seq(Proper(marks)) /\ Len(SubSeq(front, 1, k)) = k
            /\ \A i \in 1 .. k : SubSeq(front, 1, k)[i] = front[i]
        BY <4>2, <4>3
      <4>5. /\ SubSeq(msgs, 1, k) \in Seq(Proper(marks)) /\ Len(SubSeq(msgs, 1, k)) = k
            /\ \A i \in 1 .. k : SubSeq(msgs, 1, k)[i] = msgs[i]
        BY <1>3, <4>1
      <4>6. \A i \in 1 .. k : SubSeq(front, 1, k)[i] = SubSeq(msgs, 1, k)[i]
        BY <1>4, <4>2, <4>4, <4>5
      <4>7. SubSeq(front, 1, k) = SubSeq(msgs, 1, k)
        BY <4>4, <4>5, <4>6, SeqEqual
      <4> QED
        BY <4>7 DEF k
    <3> QED
      BY <3>1, <3>2, <3>3
  <2>2. l - 1 # 1
    BY <1>2, <1>7
  <2>3. l - 1 - 1 \in 1 .. l - 1 /\ \A i \in (l - 1 - 1) + 1 .. l - 1 : i = l - 1
    <3> HIDE DEF l
    <3>1. l - 1 - 1 \in Nat /\ l - 1 - 1 > 0 /\ l - 1 \in Nat
      BY <1>2, <2>2
    <3> QED
      BY <1>2, <3>1
  <2> DEFINE j == l - 1 - 1
  <2>4. j \in 1 .. l - 1 /\ ContextSnapshot(msgs) = SubSeq(msgs, 1, j)
        /\ \A i \in j + 1 .. l - 1 : msgs[i].role = "user"
    BY <1>7, <2>1, <2>3
  <2> HIDE DEF j, r
  <2> QED
    BY <1>6, <2>4 DEF r
<1>8. CASE msgs[l - 1].role # "user"
  <2>1. ContextSnapshot(msgs) = SubSeq(msgs, 1, l - 1)
    BY <1>5, <1>8 DEF ContextSnapshot, Front
  <2>2. l - 1 \in 1 .. l - 1 /\ \A i \in (l - 1) + 1 .. l - 1 : FALSE
    BY <1>2
  <2> DEFINE j == l - 1
  <2>4. j \in 1 .. l - 1 /\ ContextSnapshot(msgs) = SubSeq(msgs, 1, j)
        /\ \A i \in j + 1 .. l - 1 : msgs[i].role = "user"
    BY <2>1, <2>2
  <2> HIDE DEF j, r
  <2> QED
    BY <1>6, <2>4 DEF r
<1> QED
  BY <1>7, <1>8

\* Every request begins with its only system message: prompt, skills and guides are in it once.
THEOREM OneSystemMessage == Spec => []OneSystem
<1>1. ASSUME ShapeInv, NEW ms \in Requests
      PROVE  /\ {p \in DOMAIN ms : ms[p].role = "system"} = {1}
             /\ GoodParts(ms[1].parts)
  <2>1. /\ msgs \in Seq(Proper(marks)) /\ msgs # <<>> /\ SystemFirst(msgs)
        /\ pc \in {"model", "called", "answered", "limit", "wrap", "over"}
    BY <1>1 DEF ShapeInv, TypeInv
  <2>2. Len(msgs) \in Nat /\ Len(msgs) > 0 /\ DOMAIN msgs = 1 .. Len(msgs)
    BY <2>1, EmptySeq
  <2>3. 1 \in DOMAIN msgs /\ (\A p \in DOMAIN msgs : msgs[p].role = "system" <=> p = 1)
        /\ GoodParts(msgs[1].parts)
    BY <2>1, <2>2 DEF SystemFirst
  <2>4. CASE pc \in {"model", "wrap"}
    <3>1. ms = msgs
      BY <2>4 DEF Requests
    <3> QED
      BY <2>3, <3>1
  <2>5. CASE pc = "called"
    <3>1. ms = ForkMessages(ContextSnapshot(msgs))
      BY <2>5 DEF Requests
    <3>2. PICK j \in 1 .. Len(msgs) - 1 :
            /\ ms \in Seq(Proper(marks)) /\ Len(ms) = j + 1 /\ ms[j + 1] = User
            /\ \A i \in 1 .. j : ms[i] = msgs[i]
      BY <1>1, <2>5, <3>1, SnapshotIs
    <3>3. \A i \in 1 .. j : i \in DOMAIN msgs
      BY <2>2
    <3>4. DOMAIN ms = 1 .. j + 1 /\ 1 \in 1 .. j /\ j + 1 # 1
      BY <2>2, <3>2
    <3>5. \A i \in DOMAIN ms : i = j + 1 \/ i \in 1 .. j
      BY <2>2, <3>4
    <3>6. \A i \in DOMAIN ms : ms[i].role = "system" <=> i = 1
      BY <2>3, <3>2, <3>3, <3>4, <3>5, MadeFields
    <3>7. ms[1] = msgs[1] /\ 1 \in DOMAIN ms
      BY <2>2, <3>2, <3>4
    <3> QED
      BY <2>3, <3>6, <3>7
  <2> QED
    BY <2>1, <2>4, <2>5 DEF Requests
<1>2. ShapeInv => OneSystem
  BY <1>1 DEF OneSystem, GoodParts
<1> QED
  BY <1>2, ShapeHolds, PTL

-----------------------------------------------------------------------------
(* Images                                                                  *)

\* No image is in two places.
UniqueImages(ms) ==
  \A p, q \in 1 .. Len(ms) : \A k \in 1 .. Len(ms[p].images), l \in 1 .. Len(ms[q].images) :
    ms[p].images[k] = ms[q].images[l] => p = q /\ k = l

\* Nor is a call id.
UniqueCalls(ms) ==
  \A p, q \in 1 .. Len(ms) : \A k \in 1 .. Len(ms[p].calls), l \in 1 .. Len(ms[q].calls) :
    ms[p].calls[k] = ms[q].calls[l] => p = q /\ k = l

\* The marks that OnLoop is about to load are different, and no image has been made of them.
FreshMarks(ms) ==
  \A p, q \in ScanStart(ms) + 1 .. Len(ms) : ms[p].mark # 0 =>
    /\ ms[p].mark = ms[q].mark => p = q
    /\ \A x \in 1 .. Len(ms) : \A k \in 1 .. Len(ms[x].images) : ms[x].images[k] # ms[p].mark

\* What makes OnLoop safe to run again and again.
ImageInv == UniqueImages(msgs) /\ (pc = "answered" => FreshMarks(msgs))

\* When all images come from ms, each from a message to a place of its own, they stay unique.
LEMMA ImagesCarried ==
  ASSUME NEW ms, NEW ns, NEW g, UniqueImages(ms),
         \A x \in 1 .. Len(ns) :
           \/ ns[x].images = <<>>
           \/ \E p \in 1 .. Len(ms) : ns[x].images = ms[p].images /\ x = g[p]
  PROVE  UniqueImages(ns)
<1> SUFFICES ASSUME NEW x \in 1 .. Len(ns), NEW y \in 1 .. Len(ns),
                    NEW k \in 1 .. Len(ns[x].images), NEW l \in 1 .. Len(ns[y].images),
                    ns[x].images[k] = ns[y].images[l]
             PROVE  x = y /\ k = l
  BY DEF UniqueImages
<1>1. ns[x].images # <<>> /\ ns[y].images # <<>>
  <2>1. Len(<<>>) = 0
    BY EmptySeq
  <2>2. Len(ns[x].images) # 0 /\ Len(ns[y].images) # 0
    OBVIOUS
  <2> QED
    BY <2>1, <2>2
<1>2. PICK p \in 1 .. Len(ms) : ns[x].images = ms[p].images /\ x = g[p]
  BY <1>1
<1>3. PICK q \in 1 .. Len(ms) : ns[y].images = ms[q].images /\ y = g[q]
  BY <1>1
<1>4. p = q /\ k = l
  BY <1>2, <1>3 DEF UniqueImages
<1> QED
  BY <1>2, <1>3, <1>4

\* The same for calls.
LEMMA CallsCarried ==
  ASSUME NEW ms, NEW ns, NEW g, UniqueCalls(ms),
         \A x \in 1 .. Len(ns) :
           \/ ns[x].calls = <<>>
           \/ \E p \in 1 .. Len(ms) : ns[x].calls = ms[p].calls /\ x = g[p]
  PROVE  UniqueCalls(ns)
<1> SUFFICES ASSUME NEW x \in 1 .. Len(ns), NEW y \in 1 .. Len(ns),
                    NEW k \in 1 .. Len(ns[x].calls), NEW l \in 1 .. Len(ns[y].calls),
                    ns[x].calls[k] = ns[y].calls[l]
             PROVE  x = y /\ k = l
  BY DEF UniqueCalls
<1>1. ns[x].calls # <<>> /\ ns[y].calls # <<>>
  <2>1. Len(<<>>) = 0
    BY EmptySeq
  <2>2. Len(ns[x].calls) # 0 /\ Len(ns[y].calls) # 0
    OBVIOUS
  <2> QED
    BY <2>1, <2>2
<1>2. PICK p \in 1 .. Len(ms) : ns[x].calls = ms[p].calls /\ x = g[p]
  BY <1>1
<1>3. PICK q \in 1 .. Len(ms) : ns[y].calls = ms[q].calls /\ y = g[q]
  BY <1>1
<1>4. p = q /\ k = l
  BY <1>2, <1>3 DEF UniqueCalls
<1> QED
  BY <1>2, <1>3, <1>4

\* What the messages of a window call and show is unique when it was.
LEMMA WindowCarries ==
  ASSUME NEW b, NEW ms, NEW lo \in Nat, NEW hi \in Nat, NEW s \in Int, Window(b, ms, lo, hi, s)
  PROVE  /\ UniqueImages(ms) => UniqueImages(b)
         /\ UniqueCalls(ms) => UniqueCalls(b)
<1> DEFINE g == [p \in 1 .. Len(ms) |-> p - s]
<1>1. ASSUME NEW x \in 1 .. Len(b)
      PROVE  \/ b[x].images = <<>> /\ b[x].calls = <<>>
             \/ \E p \in 1 .. Len(ms) : b[x] = ms[p] /\ x = g[p]
  <2>1. CASE x \in lo .. hi
    <3> DEFINE p == x + s
    <3>1. p \in 1 .. Len(ms) /\ b[x] = ms[p]
      BY <2>1 DEF Window
    <3>2. g[p] = p - s /\ x = p - s
      BY <2>1, <3>1
    <3> HIDE DEF p, g
    <3> QED
      BY <3>1, <3>2
  <2>2. CASE x \notin lo .. hi
    BY <2>2 DEF Window, Plain
  <2> QED
    BY <2>1, <2>2
<1> HIDE DEF g
<1>2. \A x \in 1 .. Len(b) : b[x].images = <<>> \/
        \E p \in 1 .. Len(ms) : b[x].images = ms[p].images /\ x = g[p]
  BY <1>1
<1>3. \A x \in 1 .. Len(b) : b[x].calls = <<>> \/
        \E p \in 1 .. Len(ms) : b[x].calls = ms[p].calls /\ x = g[p]
  BY <1>1
<1> QED
  BY <1>2, <1>3, ImagesCarried, CallsCarried

\* So is what Fix leaves.
LEMMA FixCarries ==
  ASSUME NEW n \in Nat, NEW ms \in Seq(Proper(n))
  PROVE  /\ UniqueImages(ms) => UniqueImages(Fix(ms))
         /\ UniqueCalls(ms) => UniqueCalls(Fix(ms))
<1> DEFINE g  == [p \in 1 .. Len(ms) |-> Place(ms, p)]
           ns == Fix(ms)
<1>1. ASSUME NEW x \in 1 .. Len(ns)
      PROVE  \/ ns[x].images = <<>> /\ ns[x].calls = <<>>
             \/ \E p \in 1 .. Len(ms) : ns[x] = ms[p] /\ x = g[p]
  <2>1. PICK p \in 1 .. Len(ms) :
          \/ x = Place(ms, p) /\ ns[x] = ms[p]
          \/ \E k \in 1 .. Len(ms[p].calls) : ns[x] = Tool(ms[p].calls[k], 0)
    BY FixHasOnly
  <2>2. g[p] = Place(ms, p)
    OBVIOUS
  <2> HIDE DEF g
  <2> QED
    BY <2>1, <2>2, MadeFields
<1> HIDE DEF g, ns
<1>2. \A x \in 1 .. Len(ns) : ns[x].images = <<>> \/
        \E p \in 1 .. Len(ms) : ns[x].images = ms[p].images /\ x = g[p]
  BY <1>1
<1>3. \A x \in 1 .. Len(ns) : ns[x].calls = <<>> \/
        \E p \in 1 .. Len(ms) : ns[x].calls = ms[p].calls /\ x = g[p]
  BY <1>1
<1>4. /\ UniqueImages(ms) => UniqueImages(ns)
      /\ UniqueCalls(ms) => UniqueCalls(ns)
  BY <1>2, <1>3, ImagesCarried, CallsCarried
<1> QED
  BY <1>4 DEF ns

\* And what is put behind one system message.
LEMMA FrontCarries ==
  ASSUME NEW n \in Nat, NEW ns \in Seq(Proper(n)), NEW f \in Seq(Proper(n)), NEW d \in {0, 1},
         SystemFirst(ns), Len(ns) = Len(f) + d, \A p \in 1 .. Len(f) : Alike(ns[p + d], f[p])
  PROVE  /\ UniqueImages(f) => UniqueImages(ns)
         /\ UniqueCalls(f) => UniqueCalls(ns)
<1> DEFINE g == [p \in 1 .. Len(f) |-> p + d]
<1>1. Len(f) \in Nat /\ Len(ns) \in Nat /\ DOMAIN ns = 1 .. Len(ns)
  OBVIOUS
<1>2. ASSUME NEW x \in 1 .. Len(ns)
      PROVE  \/ ns[x].images = <<>> /\ ns[x].calls = <<>>
             \/ \E p \in 1 .. Len(f) :
                  ns[x].images = f[p].images /\ ns[x].calls = f[p].calls /\ x = g[p]
  <2> DEFINE p == x - d
  <2>1. CASE p \in 1 .. Len(f)
    <3>1. p + d = x /\ g[p] = p + d
      BY <2>1
    <3> HIDE DEF p, g
    <3>2. Alike(ns[x], f[p])
      BY <2>1, <3>1
    <3> QED
      BY <2>1, <3>1, <3>2 DEF Alike
  <2>2. CASE p \notin 1 .. Len(f)
    <3>1. x = 1
      BY <1>1, <2>2
    <3>2. ns[x].role = "system" /\ ns[x] \in Proper(n)
      BY <1>1, <3>1 DEF SystemFirst
    <3> QED
      BY <3>2 DEF Proper
  <2> QED
    BY <2>1, <2>2
<1> HIDE DEF g
<1>3. \A x \in 1 .. Len(ns) : ns[x].images = <<>> \/
        \E p \in 1 .. Len(f) : ns[x].images = f[p].images /\ x = g[p]
  BY <1>2
<1>4. \A x \in 1 .. Len(ns) : ns[x].calls = <<>> \/
        \E p \in 1 .. Len(f) : ns[x].calls = f[p].calls /\ x = g[p]
  BY <1>2
<1> QED
  BY <1>3, <1>4, ImagesCarried, CallsCarried

\* The assembly of a Run repeats neither an image nor a call.
LEMMA AssemblyCarries ==
  ASSUME NEW n \in Nat, NEW ms, NEW h, NEW words, NEW lo \in Nat, NEW hi \in Nat, NEW s \in Int,
         Based(h) \in Seq(Proper(n)), OnlyPrompt(Based(h)), Window(Based(h), ms, lo, hi, s)
  PROVE  /\ UniqueImages(ms) => UniqueImages(Assemble(h, words))
         /\ UniqueCalls(ms) => UniqueCalls(Assemble(h, words))
<1> DEFINE b == Based(h)
           r == Assemble(h, words)
<1>1. PICK d \in {0, 1} :
           /\ r \in Seq(Proper(n)) /\ SystemFirst(r) /\ Len(r) = Len(Fix(b)) + d
           /\ \A p \in 1 .. Len(Fix(b)) : Alike(r[p + d], Fix(b)[p])
  BY AssembledIs
<1>2. b \in Seq(Proper(n)) /\ Window(b, ms, lo, hi, s)
  OBVIOUS
<1> HIDE DEF b, r
<1>3. Fix(b) \in Seq(Proper(n))
  BY <1>2, FixType
<1>4. /\ UniqueImages(Fix(b)) => UniqueImages(r)
      /\ UniqueCalls(Fix(b)) => UniqueCalls(r)
  BY <1>1, <1>3, FrontCarries
<1>5. /\ UniqueImages(ms) => UniqueImages(b)
      /\ UniqueCalls(ms) => UniqueCalls(b)
  BY <1>2, WindowCarries
<1>6. /\ UniqueImages(b) => UniqueImages(Fix(b))
      /\ UniqueCalls(b) => UniqueCalls(Fix(b))
  BY <1>2, FixCarries
<1> QED
  BY <1>4, <1>5, <1>6 DEF r

\* The same at the level of the actions that assemble.
LEMMA AssembleSteps ==
  /\ Init => UniqueImages(msgs) /\ UniqueCalls(msgs)
  /\ ShapeInv /\ NextTurn => /\ UniqueImages(msgs) => UniqueImages(msgs')
                             /\ UniqueCalls(msgs) => UniqueCalls(msgs')
<1>1. ASSUME Init PROVE UniqueImages(msgs) /\ UniqueCalls(msgs)
  <2>1. PICK words \in SUBSET UNION Skills : msgs = Assemble(<<>>, words)
    BY <1>1 DEF Init
  <2>2. <<>> \in Seq(Proper(0)) /\ (\A p \in 1 .. Len(<<>>) : FALSE) /\ 0 \in Nat
    BY EmptySeq
  <2>3. PICK lo, hi \in Nat, s \in Int :
          /\ Based(<<>>) \in Seq(Proper(0)) /\ OnlyPrompt(Based(<<>>))
          /\ Window(Based(<<>>), <<>>, lo, hi, s)
    BY <2>2, BasedIs
  <2>4. UniqueImages(<<>>) /\ UniqueCalls(<<>>)
    BY <2>2 DEF UniqueImages, UniqueCalls
  <2> QED
    BY <2>1, <2>2, <2>3, <2>4, AssemblyCarries
<1>2. ASSUME ShapeInv, NextTurn
      PROVE  /\ UniqueImages(msgs) => UniqueImages(msgs')
             /\ UniqueCalls(msgs) => UniqueCalls(msgs')
  <2>1. marks \in Nat /\ msgs \in Seq(Proper(marks)) /\ SystemFirst(msgs)
    BY <1>2, HistoriesAssumption DEF ShapeInv, TypeInv
  <2>2. PICK h \in Cuts(msgs), words \in SUBSET UNION Skills : msgs' = Assemble(h, words)
    BY <1>2, NextTurnIs
  <2>3. PICK lo, hi \in Nat, s \in Int :
          /\ Based(h) \in Seq(Proper(marks)) /\ OnlyPrompt(Based(h))
          /\ Window(Based(h), msgs, lo, hi, s)
    BY <2>1, TurnBase
  <2> QED
    BY <2>1, <2>2, <2>3, AssemblyCarries
<1> QED
  BY <1>1, <1>2

\* Messages behind the others that show nothing.
LEMMA ImagesStay ==
  ASSUME NEW ms, NEW ns, UniqueImages(ms),
         \A x \in 1 .. Len(ns) : \/ x \in 1 .. Len(ms) /\ ns[x] = ms[x]
                                 \/ ns[x].images = <<>>
  PROVE  UniqueImages(ns)
<1> DEFINE g == [p \in 1 .. Len(ms) |-> p]
<1>1. \A x \in 1 .. Len(ns) :
        \/ ns[x].images = <<>>
        \/ \E p \in 1 .. Len(ms) : ns[x].images = ms[p].images /\ x = g[p]
  OBVIOUS
<1> HIDE DEF g
<1> QED
  BY <1>1, ImagesCarried

\* A message with new images, each of them once.
LEMMA ImagesAdded ==
  ASSUME NEW n \in Nat, NEW ms \in Seq(Proper(n)), NEW m \in Proper(n), UniqueImages(ms),
         \A k, l \in 1 .. Len(m.images) : m.images[k] = m.images[l] => k = l,
         \A k \in 1 .. Len(m.images), x \in 1 .. Len(ms) : \A l \in 1 .. Len(ms[x].images) :
           ms[x].images[l] # m.images[k]
  PROVE  UniqueImages(Append(ms, m))
<1> DEFINE ns == Append(ms, m)
<1>1. /\ Len(ns) = Len(ms) + 1 /\ Len(ms) \in Nat /\ ns[Len(ms) + 1] = m
      /\ \A i \in 1 .. Len(ms) : ns[i] = ms[i]
  BY AppendIs
<1> HIDE DEF ns
<1>2. ASSUME NEW x \in 1 .. Len(ns)
      PROVE  (x \in 1 .. Len(ms) /\ ns[x] = ms[x]) \/ (x = Len(ms) + 1 /\ ns[x] = m)
  <2>1. x \in 1 .. Len(ms) \/ x = Len(ms) + 1
    BY <1>1
  <2> QED
    BY <1>1, <2>1
<1> SUFFICES ASSUME NEW x \in 1 .. Len(ns), NEW y \in 1 .. Len(ns),
                    NEW k \in 1 .. Len(ns[x].images), NEW l \in 1 .. Len(ns[y].images),
                    ns[x].images[k] = ns[y].images[l]
             PROVE  x = y /\ k = l
  BY DEF UniqueImages, ns
<1>3. CASE x \in 1 .. Len(ms) /\ ns[x] = ms[x]
  <2>1. CASE y \in 1 .. Len(ms) /\ ns[y] = ms[y]
    BY <1>3, <2>1 DEF UniqueImages
  <2>2. CASE y = Len(ms) + 1 /\ ns[y] = m
    BY <1>3, <2>2
  <2> QED
    BY <1>2, <2>1, <2>2
<1>4. CASE x = Len(ms) + 1 /\ ns[x] = m
  <2>1. CASE y \in 1 .. Len(ms) /\ ns[y] = ms[y]
    BY <1>4, <2>1
  <2>2. CASE y = Len(ms) + 1 /\ ns[y] = m
    BY <1>4, <2>2
  <2> QED
    BY <1>2, <2>1, <2>2
<1> QED
  BY <1>2, <1>3, <1>4

\* What ToolBatch makes of the messages, by position.
LEMMA BatchAt ==
  ASSUME TypeInv, NEW images, ToolBatch(images)
  PROVE  /\ Len(msgs) \in Nat /\ Len(msgs) > 0
         /\ msgs[Len(msgs)].role = "assistant" /\ Len(msgs[Len(msgs)].calls) \in Nat
         /\ images \in SUBSET (1 .. Len(msgs[Len(msgs)].calls))
         /\ Len(msgs') = Len(msgs) + Len(msgs[Len(msgs)].calls)
         /\ \A x \in 1 .. Len(msgs) : msgs'[x] = msgs[x]
         /\ \A k \in 1 .. Len(msgs[Len(msgs)].calls) :
              msgs'[Len(msgs) + k] = Tool(msgs[Len(msgs)].calls[k],
                                          IF k \in images THEN marks + Nth(images, k) ELSE 0)
<1> DEFINE c == Last(msgs).calls
           a == Answers(c, images)
           n == marks + Cardinality(images)
<1>1. /\ pc = "called" /\ c \in Seq(Ids) /\ Len(c) > 0 /\ images \in SUBSET (DOMAIN c)
      /\ msgs' = msgs \o a /\ marks' = n
      /\ Len(msgs) \in Nat /\ Len(msgs) > 0 /\ c = msgs[Len(msgs)].calls
  BY BatchAppends
<1>2. marks \in Nat /\ msgs \in Seq(Proper(marks)) /\ msgs[Len(msgs)].role = "assistant"
  BY <1>1, HistoriesAssumption DEF TypeInv, Last
<1> HIDE DEF c
<1>3. /\ a \in Seq(Proper(n)) /\ Len(a) = Len(c) /\ Cardinality(images) \in 0 .. Len(c)
      /\ \A k \in 1 .. Len(c) :
           a[k] = Tool(c[k], IF k \in images THEN marks + Nth(images, k) ELSE 0)
  BY <1>1, <1>2, AnswersAre
<1>4. Len(c) \in Nat /\ DOMAIN c = 1 .. Len(c) /\ n \in Nat /\ marks <= n
  BY <1>1, <1>2, <1>3
<1> HIDE DEF a, n
<1>5. msgs \in Seq(Proper(n))
  <2>1. Proper(marks) \subseteq Proper(n)
    BY <1>2, <1>4, ProperGrows
  <2> QED
    BY <1>2, <2>1
<1> DEFINE ns == msgs \o a
<1>6. /\ Len(ns) = Len(msgs) + Len(c)
      /\ \A i \in 1 .. Len(msgs) + Len(c) :
           ns[i] = IF i <= Len(msgs) THEN msgs[i] ELSE a[i - Len(msgs)]
  <2>1. /\ Len(ns) = Len(msgs) + Len(a)
        /\ \A i \in 1 .. Len(msgs) + Len(a) :
             ns[i] = IF i <= Len(msgs) THEN msgs[i] ELSE a[i - Len(msgs)]
    BY <1>3, <1>5, ConcatProperties
  <2> HIDE DEF ns
  <2> QED
    BY <1>3, <2>1
<1> HIDE DEF ns
<1>7. \A x \in 1 .. Len(msgs) : ns[x] = msgs[x]
  BY <1>1, <1>4, <1>6
<1>8. ASSUME NEW k \in 1 .. Len(c)
      PROVE  ns[Len(msgs) + k] = a[k]
  <2> DEFINE i == Len(msgs) + k
  <2>1. i \in 1 .. Len(msgs) + Len(c) /\ ~ (i <= Len(msgs)) /\ i - Len(msgs) = k
    BY <1>1, <1>4
  <2> HIDE DEF i
  <2>2. ns[i] = a[k]
    BY <1>6, <2>1
  <2> QED
    BY <2>2 DEF i
<1> QED
  BY <1>1, <1>2, <1>3, <1>4, <1>6, <1>7, <1>8 DEF ns

\* The marks of a batch are new.
LEMMA BatchMarksFresh ==
  ASSUME ShapeInv, NEW images, ToolBatch(images)
  PROVE  FreshMarks(msgs')
<1> DEFINE l  == Len(msgs)
           c  == msgs[l].calls
           ns == msgs'
           mk(k) == IF k \in images THEN marks + Nth(images, k) ELSE 0
<1>1. /\ l \in Nat /\ l > 0 /\ msgs[l].role = "assistant" /\ Len(c) \in Nat
      /\ images \in SUBSET (1 .. Len(c)) /\ Len(ns) = l + Len(c)
      /\ \A x \in 1 .. l : ns[x] = msgs[x]
      /\ \A k \in 1 .. Len(c) : ns[l + k] = Tool(c[k], mk(k))
  BY BatchAt DEF ShapeInv
<1>2. /\ marks \in Nat /\ msgs \in Seq(Proper(marks)) /\ ns \in Seq(Proper(marks')) /\ marks' \in Nat
  <2>1. TypeInv /\ TypeInv'
    BY ShapeBatch DEF ShapeInv
  <2> QED
    BY <2>1, HistoriesAssumption DEF TypeInv
<1>3. \A k \in 1 .. Len(c) : ns[l + k].role = "tool" /\ ns[l + k].mark = mk(k) /\ ns[l + k].images = <<>>
  BY <1>1, MadeFields
<1>4. \A k \in images : Nth(images, k) \in Nat /\ Nth(images, k) # 0
  <2>1. /\ Cardinality(images) \in 0 .. Len(c)
        /\ \A k \in 1 .. Len(c) : Nth(images, k) \in 0 .. Cardinality(images)
        /\ \A k \in images : Nth(images, k) # 0
    BY <1>1, NthIs
  <2>2. \A k \in images : k \in 1 .. Len(c)
    BY <1>1
  <2> HIDE DEF c
  <2> QED
    BY <2>1, <2>2
<1>5. \A j, k \in images : j < k => Nth(images, j) < Nth(images, k)
  BY <1>1, NthIs
<1>6. /\ \A k \in 1 .. Len(c) : mk(k) # 0 => mk(k) > marks
      /\ \A j, k \in 1 .. Len(c) : mk(j) # 0 /\ mk(j) = mk(k) => j = k
  <2>1. \A k \in 1 .. Len(c) : mk(k) # 0 => k \in images /\ mk(k) = marks + Nth(images, k)
    OBVIOUS
  <2>2. \A k \in 1 .. Len(c) : mk(k) # 0 => mk(k) > marks
    <3> HIDE DEF mk
    <3> QED
      BY <1>2, <1>4, <2>1
  <2>3. ASSUME NEW j \in 1 .. Len(c), NEW k \in 1 .. Len(c), mk(j) # 0, mk(j) = mk(k)
        PROVE  j = k
    <3>1. /\ j \in images /\ k \in images
          /\ marks + Nth(images, j) = marks + Nth(images, k)
      <4> HIDE DEF mk
      <4> QED
        BY <2>1, <2>3
    <3>2. Nth(images, j) = Nth(images, k)
      BY <1>2, <1>4, <3>1
    <3>3. ~ (j < k) /\ ~ (k < j)
      BY <1>4, <1>5, <3>1, <3>2
    <3> QED
      BY <3>3
  <2> QED
    BY <2>2, <2>3
<1> HIDE DEF mk, ns
<1>7. ScanStart(ns) = l
  <2>1. /\ ScanStart(ns) \in 0 .. Len(ns)
        /\ \A p \in ScanStart(ns) + 1 .. Len(ns) : ns[p].role # "assistant"
        /\ ScanStart(ns) # 0 => ns[ScanStart(ns)].role = "assistant"
    BY <1>2, ScanStartIs
  <2> DEFINE s == ScanStart(ns)
  <2> HIDE DEF s
  <2>2. s \in Nat /\ s <= l + Len(c) /\ (s # 0 => ns[s].role = "assistant")
        /\ \A p \in s + 1 .. l + Len(c) : ns[p].role # "assistant"
    BY <1>1, <2>1 DEF s
  <2>3. ns[l].role = "assistant"
    <3>1. l \in 1 .. l
      BY <1>1
    <3> QED
      BY <1>1, <3>1
  <2>4. ~ (s < l)
    <3>1. s < l => l \in s + 1 .. l + Len(c)
      BY <1>1, <2>2
    <3> QED
      BY <2>2, <2>3, <3>1
  <2>5. ~ (s > l)
    <3> SUFFICES ASSUME s > l PROVE FALSE
      OBVIOUS
    <3> DEFINE k == s - l
    <3>1. k \in 1 .. Len(c) /\ l + k = s
      BY <1>1, <2>2
    <3> HIDE DEF k
    <3>2. ns[s].role = "tool" /\ s # 0
      BY <1>1, <1>3, <2>2, <3>1
    <3> QED
      BY <2>2, <3>2
  <2>6. s = l
    BY <1>1, <2>2, <2>4, <2>5
  <2> QED
    BY <2>6 DEF s
<1>8. ASSUME NEW p \in l + 1 .. Len(ns)
      PROVE  \E k \in 1 .. Len(c) : p = l + k /\ ns[p].mark = mk(k)
  <2> DEFINE k == p - l
  <2>1. k \in 1 .. Len(c) /\ p = l + k
    BY <1>1
  <2> HIDE DEF k
  <2> QED
    BY <1>3, <2>1
<1>9. ASSUME NEW x \in 1 .. Len(ns), NEW k \in 1 .. Len(ns[x].images)
      PROVE  ns[x].images[k] \in Nat /\ ns[x].images[k] <= marks
  <2>1. x \in 1 .. l
    <3> SUFFICES ASSUME x \notin 1 .. l PROVE FALSE
      OBVIOUS
    <3> DEFINE j == x - l
    <3>1. j \in 1 .. Len(c) /\ x = l + j
      BY <1>1
    <3> HIDE DEF j
    <3>2. ns[x].images = <<>>
      BY <1>3, <3>1
    <3>3. Len(ns[x].images) = 0
      BY <3>2, EmptySeq
    <3> QED
      BY <3>3
  <2>2. ns[x].images \in Seq(1 .. marks)
    <3>1. ns[x] = msgs[x]
      BY <1>1, <2>1
    <3> QED
      BY <1>2, <2>1, <3>1, MessageAt
  <2> DEFINE is == ns[x].images
  <2>3. is \in Seq(1 .. marks) /\ k \in 1 .. Len(is)
    BY <2>2
  <2> HIDE DEF is
  <2>4. is[k] \in 1 .. marks
    <3> DEFINE S == 1 .. marks
    <3>1. is \in Seq(S)
      BY <2>3
    <3> HIDE DEF S
    <3>2. is[k] \in S
      BY <2>3, <3>1, ElementOfSeq
    <3> QED
      BY <3>2 DEF S
  <2>5. ns[x].images[k] \in 1 .. marks
    BY <2>4 DEF is
  <2> QED
    BY <1>2, <2>5
<1>10. ASSUME NEW p \in l + 1 .. Len(ns), NEW q \in l + 1 .. Len(ns), ns[p].mark # 0
       PROVE  /\ ns[p].mark = ns[q].mark => p = q
              /\ \A x \in 1 .. Len(ns) : \A k \in 1 .. Len(ns[x].images) :
                   ns[x].images[k] # ns[p].mark
  <2>1. PICK j \in 1 .. Len(c) : p = l + j /\ ns[p].mark = mk(j)
    BY <1>8
  <2>2. PICK k \in 1 .. Len(c) : q = l + k /\ ns[q].mark = mk(k)
    BY <1>8
  <2>3. ns[p].mark = ns[q].mark => p = q
    BY <1>6, <1>10, <2>1, <2>2
  <2>4. ns[p].mark \in Nat /\ ns[p].mark > marks
    <3>1. p \in 1 .. Len(ns)
      BY <1>1
    <3>2. ns[p] \in Proper(marks')
      BY <1>2, <3>1
    <3>3. ns[p].mark \in Nat
      BY <3>2 DEF Proper, Message
    <3> QED
      BY <1>6, <1>10, <2>1, <3>3
  <2> QED
    BY <1>2, <1>9, <2>3, <2>4
<1> QED
  BY <1>7, <1>10 DEF FreshMarks, ns

\* The loop hooks make images only of marks that are fresh.
LEMMA LoadOnce ==
  ASSUME ShapeInv, NEW loadable \in SUBSET (1 .. marks), OnLoop(loadable),
         UniqueImages(msgs), FreshMarks(msgs)
  PROVE  UniqueImages(msgs')
<1> DEFINE sc == Scanned(msgs, loadable)
           f  == FlattenSeq(sc)
           st == ScanStart(msgs)
           l  == Len(msgs)
<1>1. /\ marks \in Nat /\ msgs \in Seq(Proper(marks)) /\ msgs # <<>> /\ TypeInv
      /\ Last(msgs).role = "tool"
  BY HistoriesAssumption DEF ShapeInv, TypeInv, OnLoop
<1>2. f \in Seq(1 .. marks) /\ (msgs' = msgs \/ msgs' = Append(msgs, Images(f)))
  BY <1>1, LoopAppends
<1>3. \A j \in 1 .. Len(f) : \E k \in 1 .. l - st : f[j] = msgs[st + k].mark /\ j = At(sc, k) + 1
  BY <1>1, LoadedIs
<1>4. l \in Nat /\ st \in 0 .. l
  BY <1>1, ScanStartIs
<1> HIDE DEF sc, f, st
<1>5. ASSUME NEW j \in 1 .. Len(f)
      PROVE  \E p \in st + 1 .. l : f[j] = msgs[p].mark /\ j = At(sc, p - st) + 1
  <2>1. PICK k \in 1 .. l - st : f[j] = msgs[st + k].mark /\ j = At(sc, k) + 1
    BY <1>3
  <2> DEFINE p == st + k
  <2>2. p \in st + 1 .. l /\ p - st = k
    BY <1>4
  <2>3. f[j] = msgs[p].mark /\ j = At(sc, p - st) + 1
    BY <2>1, <2>2
  <2> HIDE DEF p
  <2> QED
    BY <2>2, <2>3
<1>6. \A j \in 1 .. Len(f) : f[j] \in Nat /\ f[j] # 0
  <2> DEFINE S == 1 .. marks
  <2>1. \A x \in S : x \in Nat /\ x # 0
    OBVIOUS
  <2>2. f \in Seq(S)
    BY <1>2
  <2> HIDE DEF S
  <2>3. \A j \in 1 .. Len(f) : f[j] \in S
    BY <2>2, ElementOfSeq
  <2> QED
    BY <2>1, <2>3
<1>7. ASSUME NEW i \in 1 .. Len(f), NEW j \in 1 .. Len(f), f[i] = f[j]
      PROVE  i = j
  <2>1. PICK p \in st + 1 .. l : f[i] = msgs[p].mark /\ i = At(sc, p - st) + 1
    BY <1>5
  <2>2. PICK q \in st + 1 .. l : f[j] = msgs[q].mark /\ j = At(sc, q - st) + 1
    BY <1>5
  <2>3. p = q
    BY <1>6, <1>7, <2>1, <2>2 DEF FreshMarks, st
  <2> QED
    BY <2>1, <2>2, <2>3
<1>8. ASSUME NEW j \in 1 .. Len(f), NEW x \in 1 .. l, NEW k \in 1 .. Len(msgs[x].images)
      PROVE  msgs[x].images[k] # f[j]
  <2>1. PICK p \in st + 1 .. l : f[j] = msgs[p].mark
    BY <1>5
  <2> QED
    BY <1>6, <2>1 DEF FreshMarks, st
<1>9. Images(f) \in Proper(marks) /\ Images(f).images = f
  BY <1>1, <1>2, Made, MadeFields
<1> DEFINE m == Images(f)
<1>10. m \in Proper(marks) /\ m.images = f /\ (msgs' = msgs \/ msgs' = Append(msgs, m))
  BY <1>2, <1>9
<1> HIDE DEF m
<1>11. UniqueImages(Append(msgs, m))
  <2>1. /\ \A j, k \in 1 .. Len(m.images) : m.images[j] = m.images[k] => j = k
        /\ \A k \in 1 .. Len(m.images), x \in 1 .. Len(msgs) : \A j \in 1 .. Len(msgs[x].images) :
             msgs[x].images[j] # m.images[k]
    BY <1>7, <1>8, <1>10
  <2> QED
    BY <1>1, <1>10, <2>1, ImagesAdded
<1> QED
  BY <1>10, <1>11

\* One more message that shows no image.
LEMMA PlainAppend ==
  ASSUME NEW n \in Nat, NEW ms \in Seq(Proper(n)), NEW m \in Proper(n), UniqueImages(ms),
         m.images = <<>>
  PROVE  UniqueImages(Append(ms, m))
<1> DEFINE ns == Append(ms, m)
<1>1. /\ Len(ns) = Len(ms) + 1 /\ ns[Len(ms) + 1] = m /\ Len(ms) \in Nat
      /\ \A i \in 1 .. Len(ms) : ns[i] = ms[i]
  BY AppendIs, LenProperties
<1> HIDE DEF ns
<1>2. \A x \in 1 .. Len(ns) : x \in 1 .. Len(ms) \/ x = Len(ms) + 1
  BY <1>1
<1>3. \A x \in 1 .. Len(ns) : (x \in 1 .. Len(ms) /\ ns[x] = ms[x]) \/ ns[x].images = <<>>
  BY <1>1, <1>2
<1>4. UniqueImages(ns)
  BY <1>3, ImagesStay
<1> QED
  BY <1>4 DEF ns

\* A reply, the answers of a batch and what finalWrap adds show no image.
LEMMA RoundsCarry ==
  ASSUME ShapeInv, UniqueImages(msgs)
  PROVE  /\ \A r \in Replies : Reply(r) => UniqueImages(msgs')
         /\ \A images : ToolBatch(images) => UniqueImages(msgs')
         /\ Wrapping => UniqueImages(msgs')
<1>1. marks \in Nat /\ msgs \in Seq(Proper(marks)) /\ TypeInv /\ Len(msgs) \in Nat
  BY HistoriesAssumption DEF ShapeInv, TypeInv
<1>2. ASSUME NEW r \in Replies, Reply(r) PROVE UniqueImages(msgs')
  <2> DEFINE m == Assistant(OfKind(r, "text") # <<>>, OfKind(r, "call"))
  <2>1. msgs' = Append(msgs, m) /\ OfKind(r, "call") \in Seq(Ids)
    BY <1>2, ReplyAppends
  <2>2. m \in Proper(marks) /\ m.images = <<>>
    <3>1. (OfKind(r, "text") # <<>>) \in BOOLEAN
      OBVIOUS
    <3> QED
      BY <1>1, <2>1, <3>1, Made, MadeFields
  <2> HIDE DEF m
  <2> QED
    BY <1>1, <2>1, <2>2, PlainAppend
<1>3. ASSUME NEW images, ToolBatch(images) PROVE UniqueImages(msgs')
  <2> DEFINE l  == Len(msgs)
             c  == msgs[l].calls
             ns == msgs'
  <2>1. /\ Len(c) \in Nat /\ Len(ns) = l + Len(c) /\ \A x \in 1 .. l : ns[x] = msgs[x]
        /\ \A k \in 1 .. Len(c) :
             ns[l + k] = Tool(c[k], IF k \in images THEN marks + Nth(images, k) ELSE 0)
    BY <1>1, <1>3, BatchAt
  <2>2. \A k \in 1 .. Len(c) : ns[l + k].images = <<>>
    BY <2>1, MadeFields
  <2> HIDE DEF c, ns
  <2>3. ASSUME NEW x \in 1 .. Len(ns)
        PROVE  (x \in 1 .. l /\ ns[x] = msgs[x]) \/ ns[x].images = <<>>
    <3>1. CASE x <= l
      BY <1>1, <2>1, <3>1
    <3>2. CASE ~ (x <= l)
      <4> DEFINE k == x - l
      <4>1. k \in 1 .. Len(c) /\ x = l + k
        BY <1>1, <2>1, <3>2
      <4> HIDE DEF k
      <4> QED
        BY <2>2, <4>1
    <3> QED
      BY <3>1, <3>2
  <2>4. UniqueImages(ns)
    BY <2>3, ImagesStay
  <2> QED
    BY <2>4 DEF ns
<1>4. ASSUME Wrapping PROVE UniqueImages(msgs')
  BY <1>1, <1>4, WrapAppends, PlainAppend
<1> QED
  BY <1>2, <1>3, <1>4

\* A mark becomes an image once: in the round that made it, as long as the Run goes on.
THEOREM ImagesLoadedOnce == Spec => []ImagesOnce
<1>1. Init => ShapeInv /\ ImageInv
  BY ShapeInit, AssembleSteps DEF Init, ImageInv
<1>2. ASSUME ShapeInv, ImageInv, [Next]_vars PROVE ImageInv'
  <2>1. UniqueImages(msgs) /\ (pc = "answered" => FreshMarks(msgs))
    BY <1>2 DEF ImageInv
  <2> SUFFICES UniqueImages(msgs') /\ (pc' = "answered" => FreshMarks(msgs'))
    BY DEF ImageInv, UniqueImages, FreshMarks, ScanStart, Max
  <2>2. CASE NextTurn
    BY <1>2, <2>1, <2>2, AssembleSteps DEF NextTurn
  <2>3. ASSUME NEW r \in Replies, Reply(r)
        PROVE  UniqueImages(msgs') /\ (pc' = "answered" => FreshMarks(msgs'))
    <3>1. pc' # "answered"
      BY <2>3 DEF Reply
    <3> QED
      BY <1>2, <2>1, <2>3, <3>1, RoundsCarry
  <2>4. ASSUME NEW images, ToolBatch(images)
        PROVE  UniqueImages(msgs') /\ (pc' = "answered" => FreshMarks(msgs'))
    BY <1>2, <2>1, <2>4, RoundsCarry, BatchMarksFresh
  <2>5. ASSUME NEW loadable \in SUBSET (1 .. marks), OnLoop(loadable)
        PROVE  UniqueImages(msgs') /\ (pc' = "answered" => FreshMarks(msgs'))
    <3>1. pc = "answered" /\ pc' # "answered"
      BY <2>5 DEF OnLoop
    <3> QED
      BY <1>2, <2>1, <2>5, <3>1, LoadOnce
  <2>6. CASE Wrapping
    <3>1. pc' # "answered"
      BY <2>6 DEF Wrapping, FinalWrap, WrapReply
    <3> QED
      BY <1>2, <2>1, <2>6, <3>1, RoundsCarry
  <2>7. CASE End
    BY <2>1, <2>7 DEF End
  <2>8. CASE UNCHANGED vars
    BY <2>1, <2>8 DEF vars
  <2> QED
    BY <1>2, <2>2, <2>3, <2>4, <2>5, <2>6, <2>7, <2>8 DEF Next, Wrapping
<1>3. ASSUME ShapeInv, ImageInv PROVE ImagesOnce
  <2> DEFINE ss == [p \in DOMAIN msgs |-> msgs[p].images]
             S  == 1 .. marks
  <2>1. marks \in Nat /\ msgs \in Seq(Proper(marks)) /\ Len(msgs) \in Nat
        /\ DOMAIN msgs = 1 .. Len(msgs) /\ UniqueImages(msgs)
    BY <1>3, HistoriesAssumption DEF ShapeInv, TypeInv, ImageInv
  <2>2. \A p \in 1 .. Len(msgs) : msgs[p].images \in Seq(S)
    BY <2>1, MessageAt
  <2>3. ss \in Seq(Seq(S)) /\ Len(ss) = Len(msgs) /\ \A p \in 1 .. Len(msgs) : ss[p] = msgs[p].images
    <3> HIDE DEF S
    <3> QED
      BY <2>1, <2>2
  <2> DEFINE f == FlattenSeq(ss)
  <2> HIDE DEF ss, S
  <2>4. f \in Seq(S)
    BY <2>3, AtStep
  <2>5. ASSUME NEW a \in 1 .. Len(f), NEW b \in 1 .. Len(f), f[a] = f[b]
        PROVE  a = b
    <3>1. PICK p \in 1 .. Len(ss) : \E r \in 1 .. Len(ss[p]) : a = At(ss, p) + r
      BY <2>3, FlattenHasOnly
    <3>2. PICK k \in 1 .. Len(ss[p]) : a = At(ss, p) + k
      BY <3>1
    <3>3. PICK q \in 1 .. Len(ss) : \E r \in 1 .. Len(ss[q]) : b = At(ss, q) + r
      BY <2>3, FlattenHasOnly
    <3>4. PICK l \in 1 .. Len(ss[q]) : b = At(ss, q) + l
      BY <3>3
    <3>5. f[a] = ss[p][k]
      BY <2>3, <3>2, FlattenHas
    <3>6. f[b] = ss[q][l]
      BY <2>3, <3>4, FlattenHas
    <3>7. /\ p \in 1 .. Len(msgs) /\ q \in 1 .. Len(msgs) /\ ss[p] = msgs[p].images
          /\ ss[q] = msgs[q].images /\ ss[p][k] = ss[q][l]
      <4> HIDE DEF f
      <4> QED
        BY <2>3, <2>5, <3>5, <3>6
    <3>8. k \in 1 .. Len(msgs[p].images) /\ l \in 1 .. Len(msgs[q].images)
      BY <3>7
    <3>9. p = q /\ k = l
      BY <2>1, <3>7, <3>8 DEF UniqueImages
    <3> QED
      BY <3>2, <3>4, <3>9
  <2>6. DOMAIN f = 1 .. Len(f)
    BY <2>4
  <2>7. IsInjective(f)
    <3> HIDE DEF f
    <3> QED
      BY <2>5, <2>6 DEF IsInjective
  <2> QED
    BY <2>7 DEF ImagesOnce, f, ss
<1>4. ShapeInv /\ [Next]_vars => ShapeInv'
  BY ShapeNextTurn, ShapeReply, ShapeBatch, ShapeOnLoop, ShapeWrap, ShapeEnd DEF Next, Wrapping
<1> QED
  BY <1>1, <1>2, <1>3, <1>4, PTL DEF Spec

-----------------------------------------------------------------------------
(* Turns                                                                   *)

\* What toAnthropic does with one more block, and the function behind its fold: it takes the
\* positions from the last one down.
Emit(out, b) ==
  IF out # <<>> /\ Last(out)[1].role = b.role
    THEN Append(Front(out), Append(Last(out), b))
    ELSE Append(out, <<b>>)
Grown(w, g, s) == IF s = {} THEN <<>> ELSE Emit(g[s \ {Max(s)}], w[Max(s)])
Merged(w) == CHOOSE g : g = [s \in SUBSET (DOMAIN w) |-> Grown(w, g, s)]

\* The blocks of messages, in order, and the turns they make, in these terms.
Pieces(ms) == [p \in DOMAIN ms |-> AntBlocks(ms[p])]

\* toAnthropic is that fold over the blocks of all messages, one behind the other.
LEMMA ToAnthropicIs ==
  ASSUME NEW ms
  PROVE  ToAnthropic(ms) = Merged(FlattenSeq(Pieces(ms)))[DOMAIN FlattenSeq(Pieces(ms))]
BY DEF ToAnthropic, Pieces, FoldLeft, MapThenFoldSet, Merged, Grown, Emit

\* The positions of a sequence are finitely many, and some position is the last of any of them.
LEMMA Positions ==
  ASSUME NEW S, NEW w \in Seq(S)
  PROVE  /\ IsFiniteSet(DOMAIN w)
         /\ \A s \in SUBSET (DOMAIN w) : s # {} => Max(s) \in s
<1>1. Len(w) \in Nat /\ DOMAIN w = 1..Len(w)
  OBVIOUS
<1>2. IsFiniteSet(1..Len(w))
  <2>1. 1 \in Int /\ Len(w) \in Int
    BY <1>1
  <2> QED
    BY <2>1, FS_Interval
<1>3. ASSUME NEW s \in SUBSET (DOMAIN w), s # {}
      PROVE  Max(s) \in s
  <2>1. s \subseteq 0..Len(w)
    BY <1>1
  <2> QED
    BY <1>1, <1>3, <2>1, MaxOf
<1> QED
  BY <1>1, <1>2, <1>3

\* The recursive function exists: it satisfies its own equation.
LEMMA MergedDef ==
  ASSUME NEW S, NEW w \in Seq(S)
  PROVE  \A s \in SUBSET (DOMAIN w) : Merged(w)[s] = Grown(w, Merged(w), s)
<1> DEFINE D == DOMAIN w
           Upto(g, n) == \A s \in SUBSET D : Cardinality(s) < n => g[s] = Grown(w, g, s)
           T == {n \in Nat : \E g : Upto(g, n)}
<1>1. \A U \in SUBSET D : IsFiniteSet(U) /\ Cardinality(U) \in Nat /\ Cardinality(U) <= Cardinality(D)
  BY Positions, FS_Subset, FS_CardinalityType
<1>2. \A U \in SUBSET D : U # {} =>
        /\ U \ {Max(U)} \in SUBSET D
        /\ Cardinality(U \ {Max(U)}) = Cardinality(U) - 1
  <2> SUFFICES ASSUME NEW U \in SUBSET D, U # {}
               PROVE  Cardinality(U \ {Max(U)}) = Cardinality(U) - 1
    OBVIOUS
  <2>1. Max(U) \in U
    BY Positions
  <2> QED
    BY <1>1, <2>1, FS_RemoveElement
<1> HIDE DEF D
<1>3. 0 \in T
  <2>1. Upto(w, 0)
    BY <1>1
  <2> QED
    BY <2>1
<1>4. ASSUME NEW n \in Nat, n \in T
      PROVE  n + 1 \in T
  <2>1. PICK g : Upto(g, n)
    BY <1>4
  <2> DEFINE h == [s \in SUBSET D |-> IF Cardinality(s) = n THEN Grown(w, g, s) ELSE g[s]]
  <2>2. ASSUME NEW s \in SUBSET D, Cardinality(s) < n + 1
        PROVE  h[s] = Grown(w, g, s)
    <3>1. Cardinality(s) = n \/ Cardinality(s) < n
      BY <1>1, <2>2
    <3> QED
      BY <2>1, <3>1
  <2>3. ASSUME NEW s \in SUBSET D, Cardinality(s) < n + 1, s # {}
        PROVE  h[s \ {Max(s)}] = g[s \ {Max(s)}]
    <3>1. s \ {Max(s)} \in SUBSET D /\ Cardinality(s \ {Max(s)}) # n
      BY <1>1, <1>2, <2>3
    <3> QED
      BY <3>1
  <2> HIDE DEF h
  <2>4. Upto(h, n + 1)
    BY <2>2, <2>3 DEF Grown
  <2>5. n + 1 \in Nat
    OBVIOUS
  <2> HIDE DEF Upto
  <2> QED
    BY <2>4, <2>5
<1>5. PICK g : Upto(g, Cardinality(D) + 1)
  <2> HIDE DEF T
  <2>1. Nat \subseteq T
    BY <1>3, <1>4, NatSetInduction
  <2>2. D \in SUBSET D
    OBVIOUS
  <2>3. Cardinality(D) + 1 \in T
    BY <1>1, <2>1, <2>2
  <2> QED
    BY <2>3 DEF T
<1> DEFINE h == [s \in SUBSET D |-> g[s]]
<1>6. \A s \in SUBSET D : g[s] = Grown(w, g, s) /\ h[s] = g[s]
  <2>1. Cardinality(D) \in Nat
    BY <1>1
  <2> QED
    BY <1>1, <1>5, <2>1
<1>7. \A s \in SUBSET D : s # {} => h[s \ {Max(s)}] = g[s \ {Max(s)}]
  BY <1>2
<1> HIDE DEF h
<1>8. \A s \in SUBSET D : h[s] = Grown(w, h, s)
  BY <1>6, <1>7 DEF Grown
<1>9. h = [s \in SUBSET D |-> Grown(w, h, s)]
  <2>1. h = [s \in SUBSET D |-> h[s]]
    BY DEF h
  <2> QED
    BY <1>8, <2>1
<1> DEFINE F == Merged(w)
<1>10. F = [s \in SUBSET D |-> Grown(w, F, s)]
  BY <1>9 DEF Merged, D
<1> HIDE DEF F
<1>11. \A s \in SUBSET D : F[s] = Grown(w, F, s)
  BY <1>10
<1> QED
  BY <1>11 DEF F, D

\* The turns of the first n blocks, which grow by one block at a time.
TurnsOf(w, n) == Merged(w)[1 .. n]

\* No block makes no turn, all blocks make what toAnthropic returns, and one more is emitted.
LEMMA TurnStep ==
  ASSUME NEW S, NEW w \in Seq(S)
  PROVE  /\ TurnsOf(w, 0) = <<>> /\ Merged(w)[DOMAIN w] = TurnsOf(w, Len(w))
         /\ \A n \in 0 .. Len(w) - 1 : TurnsOf(w, n + 1) = Emit(TurnsOf(w, n), w[n + 1])
<1>1. Len(w) \in Nat /\ DOMAIN w = 1 .. Len(w)
  OBVIOUS
<1>2. \A s \in SUBSET (1 .. Len(w)) : Merged(w)[s] = Grown(w, Merged(w), s)
  BY <1>1, MergedDef
<1>3. TurnsOf(w, 0) = <<>>
  <2>1. 1 .. 0 = {} /\ {} \in SUBSET (1 .. Len(w))
    OBVIOUS
  <2>2. Merged(w)[{}] = <<>>
    BY <1>2, <2>1 DEF Grown
  <2> QED
    BY <2>1, <2>2 DEF TurnsOf
<1>4. ASSUME NEW n \in 0 .. Len(w) - 1
      PROVE  TurnsOf(w, n + 1) = Emit(TurnsOf(w, n), w[n + 1])
  <2> DEFINE s == 1 .. n + 1
  <2>0. n \in Nat /\ n + 1 <= Len(w)
    BY <1>1
  <2>1. s \in SUBSET (1 .. Len(w)) /\ s # {} /\ s \subseteq 0 .. n + 1 /\ n + 1 \in s /\ n + 1 \in Nat
    <3>1. n + 1 \in Nat /\ n + 1 \in s
      BY <2>0
    <3>2. s \in SUBSET (1 .. Len(w))
      BY <1>1, <2>0
    <3>3. s \subseteq 0 .. n + 1
      BY <2>0
    <3> QED
      BY <3>1, <3>2, <3>3
  <2>2. \A y \in s : y <= n + 1
    OBVIOUS
  <2>3. s \ {n + 1} = 1 .. n
    OBVIOUS
  <2> HIDE DEF s
  <2>4. Max(s) = n + 1
    <3>1. Max(s) \in s /\ \A y \in s : Max(s) >= y
      BY <2>1, MaxOf
    <3> DEFINE x == Max(s)
    <3>2. x \in 0 .. n + 1 /\ x >= n + 1 /\ x <= n + 1
      BY <2>1, <2>2, <3>1
    <3> HIDE DEF x
    <3>3. x = n + 1
      BY <2>0, <3>2
    <3> QED
      BY <3>3 DEF x
  <2>5. Merged(w)[s] = Emit(Merged(w)[1 .. n], w[n + 1])
    BY <1>2, <2>1, <2>3, <2>4 DEF Grown
  <2> QED
    BY <2>5 DEF TurnsOf, s
<1>5. Merged(w)[DOMAIN w] = TurnsOf(w, Len(w))
  BY <1>1 DEF TurnsOf
<1> QED
  BY <1>3, <1>4, <1>5

\* The turns ts are the first n blocks of w, cut behind each g[i]: just where the role changes.
Grouped(S, ts, w, n, g) ==
  /\ ts \in Seq(Seq(S))
  /\ g[1] = 0 /\ g[Len(ts) + 1] = n /\ \A i \in 1 .. Len(ts) + 1 : g[i] \in Nat
  /\ \A i \in 1 .. Len(ts) :
       /\ Len(ts[i]) > 0 /\ g[i + 1] = g[i] + Len(ts[i])
       /\ \A r \in 1 .. Len(ts[i]) :
            ts[i][r] = w[g[i] + r] /\ w[g[i] + r].role = w[g[i] + 1].role
  /\ \A i \in 2 .. Len(ts) : w[g[i]].role # w[g[i] + 1].role

\* One more block makes a new turn, or joins the last one.
LEMMA EmitGroups ==
  ASSUME NEW S, NEW w \in Seq(S), NEW n \in 0 .. Len(w) - 1, NEW ts, NEW g,
         Grouped(S, ts, w, n, g)
  PROVE  \E h : Grouped(S, Emit(ts, w[n + 1]), w, n + 1, h)
<1> DEFINE b == w[n + 1]
           L == Len(ts)
<1>1. /\ ts \in Seq(Seq(S)) /\ L \in Nat /\ n \in Nat /\ b \in S
      /\ \A i \in 1 .. L : ts[i] \in Seq(S) /\ Len(ts[i]) \in Nat
  <2>1. n + 1 \in 1 .. Len(w)
    OBVIOUS
  <2> QED
    BY <2>1 DEF Grouped
<1>2. /\ g[1] = 0 /\ g[L + 1] = n /\ \A i \in 1 .. L + 1 : g[i] \in Nat
      /\ \A i \in 2 .. L : w[g[i]].role # w[g[i] + 1].role
  BY DEF Grouped
<1>3. \A i \in 1 .. L :
        /\ Len(ts[i]) > 0 /\ g[i + 1] = g[i] + Len(ts[i])
        /\ \A r \in 1 .. Len(ts[i]) :
             ts[i][r] = w[g[i] + r] /\ w[g[i] + r].role = w[g[i] + 1].role
  BY DEF Grouped
<1>4. /\ ts # <<>> <=> L > 0
      /\ Len(ts) = L /\ b = w[n + 1] /\ Last(ts) = ts[L]
  BY <1>1, EmptySeq DEF Last
<1> HIDE DEF L, b
<1> SUFFICES \E h : Grouped(S, Emit(ts, b), w, n + 1, h)
  BY <1>4
<1>5. CASE ts # <<>> /\ Last(ts)[1].role = b.role
  <2> DEFINE t  == ts[L]
             us == Emit(ts, b)
             u  == Append(t, b)
             h  == [i \in 1 .. L + 1 |-> IF i <= L THEN g[i] ELSE n + 1]
  <2>1. L > 0 /\ L \in 1 .. L /\ t \in Seq(S) /\ Len(t) \in Nat /\ Len(t) > 0 /\ t[1].role = b.role
    BY <1>1, <1>3, <1>4, <1>5
  <2>2. us = Append(Front(ts), u)
    BY <1>4, <1>5 DEF Emit
  <2> HIDE DEF t
  <2>3. u \in Seq(S) /\ Len(u) = Len(t) + 1 /\ u[Len(t) + 1] = b /\ \A r \in 1 .. Len(t) : u[r] = t[r]
    BY <1>1, <2>1, AppendIs
  <2> HIDE DEF u
  <2>4. Front(ts) \in Seq(Seq(S)) /\ Len(Front(ts)) = L - 1
        /\ \A i \in 1 .. L - 1 : Front(ts)[i] = ts[i]
    <3>1. L - 1 \in Nat /\ 0 <= L - 1 /\ L - 1 <= Len(ts) /\ 0 + 1 = 1 /\ L - 1 - 0 = L - 1
      BY <1>1, <1>4, <2>1
    <3>2. Front(ts) = SubSeq(ts, 0 + 1, L - 1)
      BY <1>4 DEF Front
    <3>3. /\ SubSeq(ts, 0 + 1, L - 1) \in Seq(Seq(S)) /\ Len(SubSeq(ts, 0 + 1, L - 1)) = L - 1
          /\ \A i \in 1 .. L - 1 : SubSeq(ts, 0 + 1, L - 1)[i] = ts[0 + i]
      BY <1>1, <3>1, PartOf
    <3>4. \A i \in 1 .. L - 1 : 0 + i = i
      OBVIOUS
    <3> QED
      BY <3>2, <3>3, <3>4
  <2> DEFINE f == Front(ts)
  <2>5. f \in Seq(Seq(S)) /\ Len(f) = L - 1 /\ \A i \in 1 .. L - 1 : f[i] = ts[i]
    BY <2>4
  <2> HIDE DEF f
  <2>6. us = Append(f, u)
    BY <2>2 DEF f
  <2>7. /\ us \in Seq(Seq(S)) /\ Len(us) = L /\ us[L] = u
        /\ \A i \in 1 .. L - 1 : us[i] = ts[i]
    <3>1. /\ us \in Seq(Seq(S)) /\ Len(us) = Len(f) + 1 /\ us[Len(f) + 1] = u
          /\ \A i \in 1 .. Len(f) : us[i] = f[i]
      BY <2>3, <2>5, <2>6, AppendIs
    <3>2. Len(f) + 1 = L /\ \A i \in 1 .. L - 1 : i \in 1 .. Len(f)
      BY <1>1, <2>5
    <3> QED
      BY <2>5, <3>1, <3>2
  <2> HIDE DEF us
  <2>8. h[L + 1] = n + 1 /\ \A i \in 1 .. L : h[i] = g[i]
    BY <1>1
  <2> HIDE DEF h
  <2>9. n = g[L] + Len(t) /\ g[L] \in Nat
    BY <1>1, <1>2, <1>3, <2>1 DEF t
  <2>10. ASSUME NEW i \in 1 .. Len(us)
         PROVE  /\ Len(us[i]) > 0 /\ h[i + 1] = h[i] + Len(us[i])
                /\ \A r \in 1 .. Len(us[i]) :
                     us[i][r] = w[h[i] + r] /\ w[h[i] + r].role = w[h[i] + 1].role
    <3>1. CASE i < L
      <4>1. i \in 1 .. L - 1 /\ i + 1 \in 1 .. L /\ i \in 1 .. L
        BY <1>1, <2>7, <3>1
      <4>2. us[i] = ts[i] /\ h[i] = g[i] /\ h[i + 1] = g[i + 1]
        BY <2>7, <2>8, <4>1
      <4> QED
        BY <1>3, <4>1, <4>2
    <3>2. CASE ~ (i < L)
      <4>1. i = L
        BY <1>1, <2>7, <3>2
      <4>2. us[i] = u /\ h[i] = g[L] /\ h[i + 1] = n + 1
        BY <2>1, <2>7, <2>8, <4>1
      <4>3. Len(u) > 0 /\ n + 1 = g[L] + Len(u)
        <5> DEFINE x == g[L]
                   k == Len(t)
        <5>1. n = x + k /\ x \in Nat /\ k \in Nat /\ Len(u) = k + 1
          BY <2>1, <2>3, <2>9
        <5> HIDE DEF x, k
        <5>2. Len(u) > 0 /\ n + 1 = x + Len(u)
          BY <5>1
        <5> QED
          BY <5>2 DEF x
      <4>4. \A r \in 1 .. Len(t) : t[r] = w[g[L] + r] /\ w[g[L] + r].role = w[g[L] + 1].role
        BY <1>3, <2>1 DEF t
      <4>5. 1 \in 1 .. Len(t) /\ w[g[L] + 1].role = b.role
        BY <2>1, <4>4
      <4>6. ASSUME NEW r \in 1 .. Len(u)
            PROVE  u[r] = w[g[L] + r] /\ w[g[L] + r].role = w[g[L] + 1].role
        <5>1. r \in 1 .. Len(t) \/ r = Len(t) + 1
          BY <2>1, <2>3
        <5>2. CASE r = Len(t) + 1
          <6>1. g[L] + r = n + 1
            <7> DEFINE x == g[L]
                       k == Len(t)
            <7>1. n = x + k /\ x \in Nat /\ k \in Nat /\ r = k + 1
              BY <2>1, <2>9, <5>2
            <7> HIDE DEF x, k
            <7>2. x + r = n + 1
              BY <7>1
            <7> QED
              BY <7>2 DEF x
          <6> QED
            BY <1>4, <2>3, <4>5, <5>2, <6>1
        <5> QED
          BY <2>3, <4>4, <5>1, <5>2
      <4> QED
        BY <4>2, <4>3, <4>6
    <3> QED
      BY <3>1, <3>2
  <2>11. ASSUME NEW i \in 2 .. Len(us) PROVE w[h[i]].role # w[h[i] + 1].role
    <3>1. i \in 2 .. L /\ i \in 1 .. L
      BY <1>1, <2>7
    <3> QED
      BY <1>2, <2>8, <3>1
  <2>12. h[1] = 0 /\ h[Len(us) + 1] = n + 1 /\ \A i \in 1 .. Len(us) + 1 : h[i] \in Nat
    <3>1. 1 \in 1 .. L /\ \A i \in 1 .. L + 1 : i \in 1 .. L \/ i = L + 1
      BY <1>1, <2>1
    <3>2. h[1] = 0
      BY <1>2, <2>8, <3>1
    <3>3. h[Len(us) + 1] = n + 1
      BY <2>7, <2>8
    <3>4. ASSUME NEW i \in 1 .. L + 1 PROVE h[i] \in Nat
      BY <1>1, <1>2, <2>8, <3>1
    <3> QED
      BY <2>7, <3>2, <3>3, <3>4
  <2>13. Grouped(S, us, w, n + 1, h)
    BY <2>7, <2>10, <2>11, <2>12 DEF Grouped
  <2> QED
    BY <2>13 DEF us
<1>6. CASE ~ (ts # <<>> /\ Last(ts)[1].role = b.role)
  <2> DEFINE us == Emit(ts, b)
             u  == <<b>>
             h  == [i \in 1 .. L + 2 |-> IF i <= L + 1 THEN g[i] ELSE n + 1]
  <2>1. us = Append(ts, u)
    BY <1>6 DEF Emit
  <2>2. u \in Seq(S) /\ Len(u) = 1 /\ u[1] = b
    BY <1>1
  <2> HIDE DEF u
  <2>3. /\ us \in Seq(Seq(S)) /\ Len(us) = L + 1 /\ us[L + 1] = u
        /\ \A i \in 1 .. L : us[i] = ts[i]
    BY <1>1, <1>4, <2>1, <2>2, AppendIs
  <2> HIDE DEF us
  <2>4. h[L + 1 + 1] = n + 1 /\ \A i \in 1 .. L + 1 : h[i] = g[i]
    BY <1>1
  <2> HIDE DEF h
  <2>5. ASSUME NEW i \in 1 .. Len(us)
        PROVE  /\ Len(us[i]) > 0 /\ h[i + 1] = h[i] + Len(us[i])
               /\ \A r \in 1 .. Len(us[i]) :
                    us[i][r] = w[h[i] + r] /\ w[h[i] + r].role = w[h[i] + 1].role
    <3>1. CASE i <= L
      <4>1. i \in 1 .. L /\ i + 1 \in 1 .. L + 1 /\ i \in 1 .. L + 1
        BY <1>1, <2>3, <3>1
      <4>2. us[i] = ts[i] /\ h[i] = g[i] /\ h[i + 1] = g[i + 1]
        BY <2>3, <2>4, <4>1
      <4> QED
        BY <1>3, <4>1, <4>2
    <3>2. CASE ~ (i <= L)
      <4>1. i = L + 1 /\ L + 1 \in 1 .. L + 1
        BY <1>1, <2>3, <3>2
      <4>2. us[i] = u /\ h[i] = n /\ h[i + 1] = n + 1
        BY <1>2, <2>3, <2>4, <4>1
      <4>3. \A r \in 1 .. Len(u) : r = 1
        BY <2>2
      <4>4. Len(u) > 0 /\ n + 1 = n + Len(u)
        BY <1>1, <2>2
      <4> QED
        BY <1>1, <1>4, <4>4, <2>2, <4>2, <4>3
    <3> QED
      BY <3>1, <3>2
  <2>6. ASSUME NEW i \in 2 .. Len(us) PROVE w[h[i]].role # w[h[i] + 1].role
    <3>1. CASE i <= L
      <4>1. i \in 2 .. L /\ i \in 1 .. L + 1
        BY <1>1, <3>1
      <4> QED
        BY <1>2, <2>4, <4>1
    <3>2. CASE ~ (i <= L)
      <4>1. i = L + 1 /\ L + 1 \in 1 .. L + 1 /\ L \in 1 .. L /\ L > 0
        BY <1>1, <2>3, <3>2
      <4>2. h[i] = n
        BY <1>2, <2>4, <4>1
      <4> DEFINE t == ts[L]
      <4>3. /\ Len(t) > 0 /\ Len(t) \in Nat /\ n = g[L] + Len(t)
            /\ \A r \in 1 .. Len(t) : t[r] = w[g[L] + r] /\ w[g[L] + r].role = w[g[L] + 1].role
        BY <1>1, <1>2, <1>3, <4>1
      <4>4. t[1].role # b.role
        BY <1>4, <1>6, <4>1
      <4> HIDE DEF t
      <4>5. 1 \in 1 .. Len(t) /\ Len(t) \in 1 .. Len(t)
        BY <4>3
      <4>6. t[1] = w[g[L] + 1] /\ w[n].role = w[g[L] + 1].role
        BY <4>3, <4>5
      <4> QED
        BY <1>4, <4>2, <4>4, <4>6
    <3> QED
      BY <3>1, <3>2
  <2>7. h[1] = 0 /\ h[Len(us) + 1] = n + 1 /\ \A i \in 1 .. Len(us) + 1 : h[i] \in Nat
    <3>1. 1 \in 1 .. L + 1 /\ \A i \in 1 .. L + 1 + 1 : i \in 1 .. L + 1 \/ i = L + 1 + 1
      BY <1>1
    <3>2. Len(us) + 1 = L + 1 + 1 /\ n + 1 \in Nat
      BY <1>1, <2>3
    <3>3. \A i \in 1 .. Len(us) + 1 : h[i] \in Nat
      BY <1>2, <2>4, <3>1, <3>2
    <3> QED
      BY <1>2, <2>4, <3>1, <3>2, <3>3
  <2>8. Grouped(S, us, w, n + 1, h)
    BY <2>3, <2>5, <2>6, <2>7 DEF Grouped
  <2> QED
    BY <2>8 DEF us
<1> QED
  BY <1>5, <1>6

\* The turns of a history are its blocks, cut where the role changes.
LEMMA TurnsAre ==
  ASSUME NEW S, NEW w \in Seq(S)
  PROVE  \E g : Grouped(S, Merged(w)[DOMAIN w], w, Len(w), g)
<1> DEFINE T == {n \in Nat : n <= Len(w) => \E g : Grouped(S, TurnsOf(w, n), w, n, g)}
<1>1. Len(w) \in Nat
  OBVIOUS
<1>2. 0 \in T
  <2> DEFINE g == [i \in {1} |-> 0]
             e == <<>>
  <2>1. TurnsOf(w, 0) = e /\ e \in Seq(Seq(S)) /\ Len(e) = 0
    BY TurnStep, EmptySeq
  <2>2. g[1] = 0
    OBVIOUS
  <2> HIDE DEF g, e
  <2>3. Grouped(S, e, w, 0, g)
    <3>1. /\ Len(e) + 1 = 1 /\ 1 .. Len(e) = {} /\ 2 .. Len(e) = {}
          /\ \A i \in 1 .. Len(e) + 1 : i = 1
      BY <2>1
    <3> QED
      BY <2>1, <2>2, <3>1 DEF Grouped
  <2> QED
    BY <2>1, <2>3
<1>3. ASSUME NEW n \in Nat, n \in T
      PROVE  n + 1 \in T
  <2> SUFFICES ASSUME n + 1 <= Len(w)
               PROVE  \E g : Grouped(S, TurnsOf(w, n + 1), w, n + 1, g)
    OBVIOUS
  <2>1. n \in 0 .. Len(w) - 1 /\ n <= Len(w)
    BY <1>1
  <2>2. PICK g : Grouped(S, TurnsOf(w, n), w, n, g)
    BY <1>3, <2>1
  <2>3. TurnsOf(w, n + 1) = Emit(TurnsOf(w, n), w[n + 1])
    BY <2>1, TurnStep
  <2>4. \E h : Grouped(S, Emit(TurnsOf(w, n), w[n + 1]), w, n + 1, h)
    BY <2>1, <2>2, EmitGroups
  <2> QED
    BY <2>3, <2>4
<1> HIDE DEF T
<1>4. Len(w) \in T
  BY <1>1, <1>2, <1>3, NatSetInduction
<1> QED
  BY <1>1, <1>4, TurnStep DEF T

-----------------------------------------------------------------------------
(* Blocks                                                                  *)

Bits == [role : {"system", "user", "assistant", "tool"}, kind : {"text", "image", "call", "result"},
         of : Ids \cup {None} \cup Nat]

\* The parts that the blocks of a message are made of.
LEMMA PartsOfMessage ==
  ASSUME NEW n \in Nat, NEW m \in Proper(n), NEW role \in {"system", "user", "assistant", "tool"}
  PROVE  /\ TextOf(m, role) \in Seq(Bits)
         /\ TextOf(m, role) = IF m.text THEN <<Block(role, "text", None)>> ELSE <<>>
         /\ ImagesOf(m) \in Seq(Bits) /\ Len(ImagesOf(m)) = Len(m.images)
         /\ \A k \in 1 .. Len(m.images) : ImagesOf(m)[k] = Block("user", "image", m.images[k])
         /\ CallsOf(m) \in Seq(Bits) /\ Len(CallsOf(m)) = Len(m.calls)
         /\ \A k \in 1 .. Len(m.calls) : CallsOf(m)[k] = Block("assistant", "call", m.calls[k])
         /\ <<Block(role, "result", m.id)>> \in Seq(Bits)
<1>1. /\ m.calls \in Seq(Ids) /\ m.images \in Seq(1 .. n) /\ m.id \in Ids \cup {None}
      /\ m.text \in BOOLEAN
  BY ProperFields
<1>2. \A kind \in {"text", "image", "call", "result"} : \A of \in Ids \cup {None} \cup Nat :
        \A r \in {"system", "user", "assistant", "tool"} : Block(r, kind, of) \in Bits
  BY DEF Block, Bits
<1>3. /\ TextOf(m, role) \in Seq(Bits)
      /\ TextOf(m, role) = IF m.text THEN <<Block(role, "text", None)>> ELSE <<>>
  <2>1. Block(role, "text", None) \in Bits
    BY <1>2
  <2> DEFINE b == Block(role, "text", None)
  <2>2. b \in Bits
    BY <2>1
  <2> HIDE DEF b
  <2>3. <<b>> \in Seq(Bits) /\ <<>> \in Seq(Bits)
    BY <2>2, EmptySeq
  <2>4. TextOf(m, role) = IF m.text THEN <<b>> ELSE <<>>
    BY DEF TextOf, b
  <2> QED
    BY <2>3, <2>4 DEF b
<1>4. /\ ImagesOf(m) \in Seq(Bits) /\ Len(ImagesOf(m)) = Len(m.images)
      /\ \A k \in 1 .. Len(m.images) : ImagesOf(m)[k] = Block("user", "image", m.images[k])
  <2> DEFINE is == m.images
             S  == 1 .. n
  <2>1. is \in Seq(S) /\ S \subseteq Nat
    BY <1>1
  <2> HIDE DEF S
  <2>2. ImagesOf(m) = [k \in DOMAIN is |-> Block("user", "image", is[k])]
    BY DEF ImagesOf
  <2> HIDE DEF is
  <2>3. Len(is) \in Nat /\ DOMAIN is = 1 .. Len(is) /\ \A k \in 1 .. Len(is) : is[k] \in Nat
    <3>1. \A k \in 1 .. Len(is) : is[k] \in S
      BY <2>1, ElementOfSeq
    <3>2. \A k \in 1 .. Len(is) : is[k] \in Nat
      BY <2>1, <3>1
    <3>3. Len(is) \in Nat /\ DOMAIN is = 1 .. Len(is)
      BY <2>1, LenProperties
    <3> QED
      BY <3>2, <3>3
  <2>4. \A k \in 1 .. Len(is) : Block("user", "image", is[k]) \in Bits
    BY <1>2, <2>3
  <2>5. ImagesOf(m) \in [1 .. Len(is) -> Bits]
    BY <2>2, <2>3, <2>4
  <2>6. ImagesOf(m) \in Seq(Bits) /\ Len(ImagesOf(m)) = Len(is)
    BY <2>3, <2>5
  <2>7. \A k \in 1 .. Len(is) : ImagesOf(m)[k] = Block("user", "image", is[k])
    BY <2>2, <2>3
  <2> QED
    BY <2>6, <2>7 DEF is
<1>5. /\ CallsOf(m) \in Seq(Bits) /\ Len(CallsOf(m)) = Len(m.calls)
      /\ \A k \in 1 .. Len(m.calls) : CallsOf(m)[k] = Block("assistant", "call", m.calls[k])
  <2> DEFINE cs == m.calls
  <2>1. cs \in Seq(Ids)
    BY <1>1
  <2>2. CallsOf(m) = [k \in DOMAIN cs |-> Block("assistant", "call", cs[k])]
    BY DEF CallsOf
  <2> HIDE DEF cs
  <2>3. Len(cs) \in Nat /\ DOMAIN cs = 1 .. Len(cs) /\ \A k \in 1 .. Len(cs) : cs[k] \in Ids
    BY <2>1
  <2>4. \A k \in 1 .. Len(cs) : Block("assistant", "call", cs[k]) \in Bits
    BY <1>2, <2>3
  <2>5. CallsOf(m) \in [1 .. Len(cs) -> Bits]
    BY <2>2, <2>3, <2>4
  <2>6. CallsOf(m) \in Seq(Bits) /\ Len(CallsOf(m)) = Len(cs)
    BY <2>3, <2>5
  <2>7. \A k \in 1 .. Len(cs) : CallsOf(m)[k] = Block("assistant", "call", cs[k])
    BY <2>2, <2>3
  <2> QED
    BY <2>6, <2>7 DEF cs
<1>6. <<Block(role, "result", m.id)>> \in Seq(Bits)
  <2> DEFINE b == Block(role, "result", m.id)
  <2>1. b \in Bits
    BY <1>1, <1>2
  <2> HIDE DEF b
  <2>2. <<b>> \in Seq(Bits)
    BY <2>1
  <2> QED
    BY <2>2 DEF b
<1> QED
  BY <1>3, <1>4, <1>5, <1>6

\* A sequence of at most one element in front of another.
LEMMA InFront ==
  ASSUME NEW S, NEW a \in Seq(S), NEW s \in Seq(S)
  PROVE  /\ a \o s \in Seq(S) /\ Len(a \o s) = Len(a) + Len(s) /\ Len(a) \in Nat /\ Len(s) \in Nat
         /\ \A i \in 1 .. Len(a) : (a \o s)[i] = a[i]
         /\ \A i \in 1 .. Len(s) : (a \o s)[Len(a) + i] = s[i]
  OBVIOUS

\* The blocks of a message, by its role.
LEMMA BlocksOfMessage ==
  ASSUME NEW n \in Nat, NEW m \in Proper(n)
  PROVE  /\ AntBlocks(m) \in Seq(Bits)
         /\ m.role = "system" => AntBlocks(m) = <<>>
         /\ m.role = "tool" => AntBlocks(m) = <<Block("user", "result", m.id)>>
         /\ m.role = "user" => \A r \in 1 .. Len(AntBlocks(m)) :
              AntBlocks(m)[r].role = "user" /\ AntBlocks(m)[r].kind \notin {"call", "result"}
         /\ m.role = "assistant" => \E t \in {0, 1} :
              /\ Len(AntBlocks(m)) = t + Len(m.calls)
              /\ \A r \in 1 .. t : AntBlocks(m)[r] = Block("assistant", "text", None)
              /\ \A k \in 1 .. Len(m.calls) :
                   AntBlocks(m)[t + k] = Block("assistant", "call", m.calls[k])
<1>1. \A r, k, o : Block(r, k, o).role = r /\ Block(r, k, o).kind = k /\ Block(r, k, o).of = o
  BY DEF Block
<1>2. m.role \in {"system", "user", "assistant", "tool"} /\ m.text \in BOOLEAN
  BY ProperFields
<1>3. CASE m.role = "system"
  <2>1. AntBlocks(m) = <<>>
    BY <1>3 DEF AntBlocks
  <2> QED
    BY <1>3, <2>1, EmptySeq
<1>4. CASE m.role = "tool"
  <2>1. AntBlocks(m) = <<Block("user", "result", m.id)>>
    BY <1>4 DEF AntBlocks
  <2>2. <<Block("user", "result", m.id)>> \in Seq(Bits)
    BY PartsOfMessage
  <2> QED
    BY <1>4, <2>1, <2>2
<1>5. CASE m.role = "user"
  <2> DEFINE a == TextOf(m, "user")
             s == ImagesOf(m)
             r == AntBlocks(m)
  <2>1. /\ r = a \o s /\ a \in Seq(Bits) /\ s \in Seq(Bits) /\ Len(s) = Len(m.images)
        /\ \A k \in 1 .. Len(m.images) : s[k] = Block("user", "image", m.images[k])
        /\ a = IF m.text THEN <<Block("user", "text", None)>> ELSE <<>>
    BY <1>5, PartsOfMessage DEF AntBlocks
  <2>2. \A k \in 1 .. Len(a) : a[k] = Block("user", "text", None)
    <3>1. CASE m.text
      <4>1. a = <<Block("user", "text", None)>>
        BY <2>1, <3>1
      <4> HIDE DEF a
      <4> QED
        BY <4>1
    <3>2. CASE ~m.text
      <4>1. Len(a) = 0
        BY <2>1, <3>2, EmptySeq
      <4> HIDE DEF a
      <4> QED
        BY <4>1
    <3> QED
      BY <3>1, <3>2
  <2> HIDE DEF a, s
  <2>3. /\ r \in Seq(Bits) /\ Len(r) = Len(a) + Len(s) /\ Len(a) \in Nat /\ Len(s) \in Nat
        /\ \A i \in 1 .. Len(a) : r[i] = a[i]
        /\ \A i \in 1 .. Len(s) : r[Len(a) + i] = s[i]
    <3>1. r = a \o s /\ a \in Seq(Bits) /\ s \in Seq(Bits)
      BY <2>1
    <3> HIDE DEF r
    <3>2. /\ a \o s \in Seq(Bits) /\ Len(a \o s) = Len(a) + Len(s) /\ Len(a) \in Nat /\ Len(s) \in Nat
          /\ \A i \in 1 .. Len(a) : (a \o s)[i] = a[i]
          /\ \A i \in 1 .. Len(s) : (a \o s)[Len(a) + i] = s[i]
      BY <3>1, InFront
    <3> QED
      BY <3>1, <3>2
  <2> HIDE DEF r
  <2>4. ASSUME NEW i \in 1 .. Len(r)
        PROVE  r[i].role = "user" /\ r[i].kind \notin {"call", "result"}
    <3>1. CASE i <= Len(a)
      <4>1. i \in 1 .. Len(a)
        BY <2>3, <3>1
      <4> QED
        BY <1>1, <2>2, <2>3, <4>1
    <3>2. CASE ~ (i <= Len(a))
      <4> DEFINE k == i - Len(a)
      <4>1. k \in 1 .. Len(s) /\ i = Len(a) + k
        BY <2>3, <3>2
      <4> HIDE DEF k
      <4>2. r[i] = Block("user", "image", m.images[k])
        BY <2>1, <2>3, <4>1
      <4> QED
        BY <1>1, <4>2
    <3> QED
      BY <3>1, <3>2
  <2> QED
    BY <1>5, <2>3, <2>4 DEF r
<1>6. CASE m.role = "assistant"
  <2> DEFINE a == TextOf(m, "assistant")
             s == CallsOf(m)
             r == AntBlocks(m)
             t == Len(a)
  <2>1. /\ r = a \o s /\ a \in Seq(Bits) /\ s \in Seq(Bits) /\ Len(s) = Len(m.calls)
        /\ \A k \in 1 .. Len(m.calls) : s[k] = Block("assistant", "call", m.calls[k])
        /\ a = IF m.text THEN <<Block("assistant", "text", None)>> ELSE <<>>
    BY <1>6, PartsOfMessage DEF AntBlocks
  <2>2. t \in {0, 1} /\ \A k \in 1 .. t : a[k] = Block("assistant", "text", None)
    <3>1. CASE m.text
      <4>1. a = <<Block("assistant", "text", None)>>
        BY <2>1, <3>1
      <4> HIDE DEF a
      <4> QED
        BY <4>1
    <3>2. CASE ~m.text
      <4>1. Len(a) = 0
        BY <2>1, <3>2, EmptySeq
      <4> HIDE DEF a
      <4> QED
        BY <4>1
    <3> QED
      BY <3>1, <3>2
  <2> HIDE DEF a, s
  <2>3. /\ r \in Seq(Bits) /\ Len(r) = Len(a) + Len(s)
        /\ \A i \in 1 .. Len(a) : r[i] = a[i]
        /\ \A i \in 1 .. Len(s) : r[Len(a) + i] = s[i]
    <3>1. r = a \o s /\ a \in Seq(Bits) /\ s \in Seq(Bits)
      BY <2>1
    <3> HIDE DEF r
    <3>2. /\ a \o s \in Seq(Bits) /\ Len(a \o s) = Len(a) + Len(s) /\ Len(a) \in Nat /\ Len(s) \in Nat
          /\ \A i \in 1 .. Len(a) : (a \o s)[i] = a[i]
          /\ \A i \in 1 .. Len(s) : (a \o s)[Len(a) + i] = s[i]
      BY <3>1, InFront
    <3> QED
      BY <3>1, <3>2
  <2> HIDE DEF r
  <2>4. /\ Len(r) = t + Len(m.calls)
        /\ \A k \in 1 .. t : r[k] = Block("assistant", "text", None)
        /\ \A k \in 1 .. Len(m.calls) : r[t + k] = Block("assistant", "call", m.calls[k])
    <3>1. Len(s) = Len(m.calls) /\ Len(a) = t
      BY <2>1
    <3>2. t \in Nat /\ t <= 1 /\ \A k \in 1 .. t : k \in 1 .. Len(a)
      BY <2>2, <3>1
    <3> HIDE DEF t
    <3> QED
      BY <2>1, <2>2, <2>3, <3>1, <3>2
  <2> HIDE DEF t
  <2> QED
    BY <1>6, <2>2, <2>3, <2>4 DEF r
<1> QED
  BY <1>2, <1>3, <1>4, <1>5, <1>6

\* All blocks of a history, and the position of the last one that message p or one before it has.
Flow(ms)    == FlattenSeq(Pieces(ms))
Ends(ms, p) == At(Pieces(ms), p + 1)

\* The lengths and positions of the blocks of a history, and where each comes to lie.
LEMMA FlowIs ==
  ASSUME NEW n \in Nat, NEW ms \in Seq(Proper(n))
  PROVE  /\ Pieces(ms) \in Seq(Seq(Bits)) /\ Len(Pieces(ms)) = Len(ms) /\ Len(ms) \in Nat
         /\ Flow(ms) \in Seq(Bits) /\ Len(Flow(ms)) \in Nat
         /\ \A p \in 1 .. Len(ms) :
              /\ Pieces(ms)[p] = AntBlocks(ms[p]) /\ AntBlocks(ms[p]) \in Seq(Bits)
              /\ Len(AntBlocks(ms[p])) \in Nat /\ ms[p] \in Proper(n)
         /\ \A p \in 1 .. Len(ms) :
              /\ At(Pieces(ms), p) \in Nat /\ Ends(ms, p) \in Nat
              /\ Ends(ms, p) = At(Pieces(ms), p) + Len(AntBlocks(ms[p]))
              /\ p + 1 \in 1 .. Len(ms) => Ends(ms, p + 1) = Ends(ms, p) + Len(AntBlocks(ms[p + 1]))
<1> DEFINE ps == Pieces(ms)
<1>1. /\ Len(ms) \in Nat /\ DOMAIN ms = 1 .. Len(ms) /\ \A p \in 1 .. Len(ms) : ms[p] \in Proper(n)
  OBVIOUS
<1>2. \A p \in 1 .. Len(ms) : AntBlocks(ms[p]) \in Seq(Bits)
  BY <1>1, BlocksOfMessage
<1>3. /\ ps \in Seq(Seq(Bits)) /\ Len(ps) = Len(ms)
      /\ \A p \in 1 .. Len(ms) : ps[p] = AntBlocks(ms[p])
  <2> DEFINE f(p) == AntBlocks(ms[p])
             S == Seq(Bits)
  <2>1. ps = [p \in 1 .. Len(ms) |-> f(p)]
    BY <1>1 DEF Pieces
  <2>2. \A p \in 1 .. Len(ms) : f(p) \in S
    BY <1>2
  <2> HIDE DEF f, S, ps
  <2>3. ps \in [1 .. Len(ms) -> S]
    BY <2>1, <2>2
  <2>4. ps \in Seq(S) /\ Len(ps) = Len(ms) /\ \A p \in 1 .. Len(ms) : ps[p] = f(p)
    BY <1>1, <2>1, <2>3
  <2> QED
    BY <2>4 DEF f, S
<1> HIDE DEF ps
<1>4. /\ \A i \in 1 .. Len(ms) + 1 : At(ps, i) \in Nat
      /\ \A i \in 1 .. Len(ms) : At(ps, i + 1) = At(ps, i) + Len(ps[i])
      /\ FlattenSeq(ps) \in Seq(Bits)
  BY <1>3, AtStep
<1>5. \A p \in 1 .. Len(ms) : Len(AntBlocks(ms[p])) \in Nat
  BY <1>2, LenProperties
<1>6. Flow(ms) \in Seq(Bits) /\ Len(Flow(ms)) \in Nat
  BY <1>4, LenProperties DEF Flow, ps
<1>7. ASSUME NEW p \in 1 .. Len(ms)
      PROVE  /\ At(ps, p) \in Nat /\ Ends(ms, p) \in Nat
             /\ Ends(ms, p) = At(ps, p) + Len(AntBlocks(ms[p]))
             /\ p + 1 \in 1 .. Len(ms) => Ends(ms, p + 1) = Ends(ms, p) + Len(AntBlocks(ms[p + 1]))
  <2>1. p \in 1 .. Len(ms) + 1 /\ p + 1 \in 1 .. Len(ms) + 1
    BY <1>1
  <2>2. \A i : Ends(ms, i) = At(ps, i + 1)
    BY DEF Ends, ps
  <2> QED
    BY <1>3, <1>4, <2>1, <2>2
<1> QED
  BY <1>1, <1>2, <1>3, <1>5, <1>6, <1>7 DEF ps

\* The calls of a message are its last blocks.
LEMMA CallsAt ==
  ASSUME NEW n \in Nat, NEW ms \in Seq(Proper(n)), NEW p \in 1 .. Len(ms), ms[p].calls # <<>>
  PROVE  /\ Ends(ms, p) \in 1 .. Len(Flow(ms)) /\ Len(ms[p].calls) \in Nat /\ Len(ms[p].calls) > 0
         /\ Ends(ms, p) - Len(ms[p].calls) \in Nat
         /\ \A k \in 1 .. Len(ms[p].calls) :
              /\ Ends(ms, p) - Len(ms[p].calls) + k \in 1 .. Len(Flow(ms))
              /\ Flow(ms)[Ends(ms, p) - Len(ms[p].calls) + k] = Block("assistant", "call", ms[p].calls[k])
<1> DEFINE ps == Pieces(ms)
           c  == Len(ms[p].calls)
           bs == AntBlocks(ms[p])
           a  == At(ps, p)
           e  == Ends(ms, p)
           w  == Flow(ms)
<1>1. /\ ps \in Seq(Seq(Bits)) /\ Len(ps) = Len(ms) /\ Len(w) \in Nat /\ ps[p] = bs
      /\ Len(bs) \in Nat /\ a \in Nat /\ e = a + Len(bs) /\ ms[p] \in Proper(n)
  BY FlowIs
<1>2. c \in Nat /\ c > 0 /\ ms[p].role = "assistant"
  <2>1. ms[p].calls \in Seq(Ids) /\ ms[p].role = "assistant"
    BY MessageAt
  <2> QED
    BY <2>1, EmptySeq
<1>3. PICK t \in {0, 1} :
        /\ Len(bs) = t + c
        /\ \A k \in 1 .. c : bs[t + k] = Block("assistant", "call", ms[p].calls[k])
  BY <1>1, <1>2, BlocksOfMessage
<1>4. p \in 1 .. Len(ps)
  BY <1>1
<1>5. \A r \in 1 .. Len(bs) : a + r \in 1 .. Len(w) /\ w[a + r] = bs[r]
  <2>1. \A r \in 1 .. Len(ps[p]) :
          At(ps, p) + r \in 1 .. Len(FlattenSeq(ps)) /\ FlattenSeq(ps)[At(ps, p) + r] = ps[p][r]
    <3> HIDE DEF ps
    <3> QED
      BY <1>1, <1>4, FlattenHas
  <2> QED
    BY <1>1, <2>1 DEF Flow
<1> HIDE DEF ps, bs, c, a, e, w
<1>6. e - c = a + t /\ e - c \in Nat /\ t \in Nat
  BY <1>1, <1>2, <1>3
<1>7. ASSUME NEW k \in 1 .. c
      PROVE  /\ e - c + k \in 1 .. Len(w)
             /\ w[e - c + k] = Block("assistant", "call", ms[p].calls[k])
  <2>1. t + k \in 1 .. Len(bs) /\ e - c + k = a + (t + k)
    BY <1>1, <1>2, <1>3, <1>6
  <2> QED
    BY <1>3, <1>5, <2>1
<1>8. e \in 1 .. Len(w)
  <2>1. c \in 1 .. c /\ e - c + c = e
    BY <1>1, <1>2
  <2>2. e - c + c \in 1 .. Len(w)
    BY <1>7, <2>1
  <2> QED
    BY <2>1, <2>2
<1> QED
  BY <1>2, <1>6, <1>7, <1>8 DEF c, e, w

\* The block of an answer.
LEMMA ToolAt ==
  ASSUME NEW n \in Nat, NEW ms \in Seq(Proper(n)), NEW q \in 1 .. Len(ms), ms[q].role = "tool"
  PROVE  /\ Ends(ms, q) \in 1 .. Len(Flow(ms))
         /\ Flow(ms)[Ends(ms, q)] = Block("user", "result", ms[q].id)
         /\ Ends(ms, q) = At(Pieces(ms), q) + 1
         /\ q - 1 \in 1 .. Len(ms) => Ends(ms, q) = Ends(ms, q - 1) + 1
<1> DEFINE ps == Pieces(ms)
           b  == Block("user", "result", ms[q].id)
<1>1. /\ ps \in Seq(Seq(Bits)) /\ Len(ps) = Len(ms) /\ ps[q] = AntBlocks(ms[q])
      /\ Ends(ms, q) = At(ps, q) + Len(AntBlocks(ms[q])) /\ ms[q] \in Proper(n)
  BY FlowIs
<1>2. AntBlocks(ms[q]) = <<b>>
  BY <1>1, BlocksOfMessage
<1> HIDE DEF b
<1>3. Len(ps[q]) = 1 /\ ps[q][1] = b
  BY <1>1, <1>2
<1>4. /\ At(ps, q) + 1 \in 1 .. Len(FlattenSeq(ps))
      /\ FlattenSeq(ps)[At(ps, q) + 1] = b
  <2>1. q \in 1 .. Len(ps) /\ 1 \in 1 .. Len(ps[q])
    BY <1>1, <1>3
  <2> HIDE DEF ps
  <2> QED
    BY <1>1, <1>3, <2>1, FlattenHas
<1>5. ASSUME q - 1 \in 1 .. Len(ms)
      PROVE  Ends(ms, q) = Ends(ms, q - 1) + 1
  <2> DEFINE j == q - 1
  <2>1. j \in 1 .. Len(ms) /\ j + 1 = q
    BY <1>5
  <2> HIDE DEF j
  <2>2. Ends(ms, j + 1) = Ends(ms, j) + Len(AntBlocks(ms[j + 1]))
    BY <2>1, FlowIs
  <2>3. Ends(ms, q) = Ends(ms, j) + 1
    BY <1>1, <1>3, <2>1, <2>2
  <2> QED
    BY <2>3 DEF j
<1> QED
  BY <1>1, <1>3, <1>4, <1>5 DEF b, Flow, ps

\* Where the blocks of calls and of answers come from.
LEMMA BlockFrom ==
  ASSUME NEW n \in Nat, NEW ms \in Seq(Proper(n)), NEW x \in 1 .. Len(Flow(ms))
  PROVE  /\ Flow(ms)[x].kind = "call" =>
              \E p \in 1 .. Len(ms) : \E k \in 1 .. Len(ms[p].calls) :
                /\ x = Ends(ms, p) - Len(ms[p].calls) + k /\ Flow(ms)[x].of = ms[p].calls[k]
                /\ ms[p].calls # <<>>
         /\ Flow(ms)[x].kind = "result" =>
              \E q \in 1 .. Len(ms) : ms[q].role = "tool" /\ x = Ends(ms, q)
<1> DEFINE ps == Pieces(ms)
           w  == Flow(ms)
<1>1. ps \in Seq(Seq(Bits)) /\ Len(ps) = Len(ms)
  BY FlowIs
<1>2. x \in 1 .. Len(FlattenSeq(ps)) /\ w = FlattenSeq(ps)
  BY DEF Flow
<1> HIDE DEF ps, w
<1>3. PICK p \in 1 .. Len(ps) : \E r \in 1 .. Len(ps[p]) : x = At(ps, p) + r
  BY <1>1, <1>2, FlattenHasOnly
<1>4. PICK r \in 1 .. Len(ps[p]) : x = At(ps, p) + r
  BY <1>3
<1>5. w[x] = ps[p][r] /\ p \in 1 .. Len(ms)
  BY <1>1, <1>2, <1>4, FlattenHas
<1> DEFINE m  == ms[p]
           bs == AntBlocks(m)
           e  == Ends(ms, p)
           a  == At(ps, p)
<1>6. /\ ps[p] = bs /\ bs \in Seq(Bits) /\ Len(bs) \in Nat /\ m \in Proper(n)
      /\ a \in Nat /\ e = a + Len(bs)
  BY <1>5, FlowIs DEF ps
<1>7. /\ m.role \in {"system", "user", "assistant", "tool"} /\ m.calls \in Seq(Ids)
      /\ Len(m.calls) \in Nat
  BY <1>6, ProperFields
<1>8. /\ bs \in Seq(Bits)
      /\ m.role = "system" => bs = <<>>
      /\ m.role = "tool" => bs = <<Block("user", "result", m.id)>>
      /\ m.role = "user" => \A i \in 1 .. Len(bs) :
           bs[i].role = "user" /\ bs[i].kind \notin {"call", "result"}
      /\ m.role = "assistant" => \E t \in {0, 1} :
           /\ Len(bs) = t + Len(m.calls)
           /\ \A i \in 1 .. t : bs[i] = Block("assistant", "text", None)
           /\ \A k \in 1 .. Len(m.calls) : bs[t + k] = Block("assistant", "call", m.calls[k])
  BY <1>6, BlocksOfMessage
<1>9. r \in 1 .. Len(bs) /\ w[x] = bs[r] /\ x = a + r
  BY <1>4, <1>5, <1>6
<1>10. \A ro, k, o : Block(ro, k, o).kind = k /\ Block(ro, k, o).of = o
  BY DEF Block
<1> HIDE DEF bs, a, e
<1>11. CASE m.role = "system"
  <2>1. Len(bs) = 0
    BY <1>8, <1>11, EmptySeq
  <2> QED
    BY <1>9, <2>1
<1>12. CASE m.role = "user"
  BY <1>8, <1>9, <1>12 DEF w
<1>13. CASE m.role = "tool"
  <2> DEFINE b == Block("user", "result", m.id)
  <2>1. bs = <<b>>
    BY <1>8, <1>13
  <2> HIDE DEF b
  <2>2. Len(bs) = 1 /\ bs[1] = b
    BY <2>1
  <2>3. r = 1 /\ x = e /\ w[x] = b
    BY <1>6, <1>9, <2>2
  <2>4. w[x].kind = "result"
    BY <1>10, <2>3 DEF b
  <2> QED
    BY <1>5, <1>13, <2>3, <2>4 DEF w, e
<1>14. CASE m.role = "assistant"
  <2>1. PICK t \in {0, 1} :
          /\ Len(bs) = t + Len(m.calls)
          /\ \A i \in 1 .. t : bs[i] = Block("assistant", "text", None)
          /\ \A k \in 1 .. Len(m.calls) : bs[t + k] = Block("assistant", "call", m.calls[k])
    BY <1>8, <1>14
  <2>2. CASE r <= t
    <3>1. r \in 1 .. t
      BY <1>6, <1>9, <2>1, <2>2
    <3>2. w[x].kind = "text"
      BY <1>9, <1>10, <2>1, <3>1
    <3> QED
      BY <3>2 DEF w
  <2>3. CASE ~ (r <= t)
    <3> DEFINE k == r - t
               c == Len(m.calls)
    <3>0. c \in Nat /\ Len(bs) = t + c /\ e = a + (t + c) /\ a \in Nat /\ t \in Nat
      BY <1>6, <1>7, <2>1
    <3> HIDE DEF c
    <3>1. k \in 1 .. c /\ r = t + k /\ x = e - c + k
      <4>1. r \in 1 .. t + c /\ x = a + r /\ ~ (r <= t)
        BY <1>9, <2>3, <3>0
      <4> QED
        BY <3>0, <4>1
    <3> HIDE DEF k
    <3>2. w[x] = Block("assistant", "call", m.calls[k]) /\ k \in 1 .. Len(m.calls)
      BY <1>9, <2>1, <3>1 DEF c
    <3>3. m.calls # <<>>
      <4>1. Len(m.calls) # 0
        BY <1>7, <3>2
      <4> QED
        BY <4>1, EmptySeq
    <3>4. w[x].kind = "call" /\ w[x].of = m.calls[k]
      BY <1>10, <3>2
    <3>5. x = e - Len(m.calls) + k
      BY <3>1 DEF c
    <3> QED
      BY <1>5, <3>2, <3>3, <3>4, <3>5 DEF w, e
  <2> QED
    BY <2>2, <2>3
<1> QED
  BY <1>7, <1>11, <1>12, <1>13, <1>14

-----------------------------------------------------------------------------
(* Calls and answers                                                       *)

\* From p to q there are only answers to the calls of p.
Behind(ms, p, q) ==
  p < q /\ \A x \in p + 1 .. q : ms[x].role = "tool" /\ ms[x].id \in ToSet(ms[p].calls)

\* Each answer is behind its call, each call is answered behind it, and no id is answered twice.
Paired(ms) ==
  /\ \A p, q \in 1 .. Len(ms) :
       ms[p].role = "tool" /\ ms[q].role = "tool" /\ ms[p].id = ms[q].id => p = q
  /\ \A q \in 1 .. Len(ms) : ms[q].role = "tool" => \E p \in 1 .. Len(ms) : Behind(ms, p, q)
  /\ \A p \in 1 .. Len(ms) : \A k \in 1 .. Len(ms[p].calls) :
       \E q \in 1 .. Len(ms) : Behind(ms, p, q) /\ ms[q].id = ms[p].calls[k]

\* The elements of a sequence.
LEMMA ToSetIs ==
  ASSUME NEW S, NEW s \in Seq(S)
  PROVE  \A i : i \in ToSet(s) <=> \E k \in 1 .. Len(s) : i = s[k]
BY DEF ToSet

\* A message with calls has as many answers behind it as there are ids in its calls.
LEMMA AnswersOf ==
  ASSUME NEW n \in Nat, NEW ms \in Seq(Proper(n)), Paired(ms), NEW p \in 1 .. Len(ms),
         ms[p].calls # <<>>
  PROVE  \E M \in 1 .. Len(ms) :
           /\ Behind(ms, p, M)
           /\ Cardinality(ToSet(ms[p].calls)) = M - p
           /\ \A i : i \in ToSet(ms[p].calls) <=> \E q \in p + 1 .. M : i = ms[q].id
<1> DEFINE B == {q \in 1 .. Len(ms) : Behind(ms, p, q)}
           C == ToSet(ms[p].calls)
           l == Len(ms)
<1>1. l \in Nat /\ ms[p].calls \in Seq(Ids) /\ Len(ms[p].calls) \in Nat /\ Len(ms[p].calls) > 0
  <2>1. ms[p].calls \in Seq(Ids) /\ Len(ms) \in Nat
    BY MessageAt
  <2> QED
    BY <2>1, EmptySeq
<1>2. \A i : i \in C <=> \E k \in 1 .. Len(ms[p].calls) : i = ms[p].calls[k]
  BY <1>1, ToSetIs
<1>3. \A k \in 1 .. Len(ms[p].calls) : \E q \in B : ms[q].id = ms[p].calls[k]
  BY DEF Paired
<1>4. B # {} /\ B \subseteq 0 .. l
  <2>1. 1 \in 1 .. Len(ms[p].calls)
    BY <1>1
  <2> QED
    BY <1>3, <2>1
<1> DEFINE M == Max(B)
<1>5. M \in B /\ \A q \in B : M >= q
  <2> HIDE DEF B
  <2> QED
    BY <1>1, <1>4, MaxOf
<1> HIDE DEF M, C
<1>6. /\ M \in 1 .. l /\ p < M
      /\ \A x \in p + 1 .. M : ms[x].role = "tool" /\ ms[x].id \in C
  BY <1>5 DEF Behind, C
<1>7. \A q \in B : q \in Nat /\ q \in p + 1 .. M
  <2> SUFFICES ASSUME NEW q \in B PROVE q \in Nat /\ q \in p + 1 .. M
    OBVIOUS
  <2>1. q \in 1 .. l /\ p < q /\ M >= q
    BY <1>5 DEF Behind
  <2> QED
    BY <1>1, <1>6, <2>1
<1> HIDE DEF B
<1>8. \A i : i \in C <=> \E q \in p + 1 .. M : i = ms[q].id
  <2>1. ASSUME NEW i \in C PROVE \E q \in p + 1 .. M : i = ms[q].id
    <3>1. PICK k \in 1 .. Len(ms[p].calls) : i = ms[p].calls[k]
      BY <1>2
    <3>2. PICK q \in B : ms[q].id = ms[p].calls[k]
      BY <1>3
    <3> QED
      BY <1>7, <3>1, <3>2
  <2> QED
    BY <1>6, <2>1
<1>9. Cardinality(C) = M - p
  <2> DEFINE d == M - p
             f == [j \in 1 .. d |-> ms[p + j].id]
  <2>1. /\ d \in Nat /\ \A j \in 1 .. d : p + j \in p + 1 .. M /\ p + j \in 1 .. l
        /\ \A q \in p + 1 .. M : q - p \in 1 .. d /\ p + (q - p) = q
    BY <1>1, <1>6
  <2> HIDE DEF d
  <2>2. f \in [1 .. d -> C]
    BY <1>6, <2>1
  <2>3. \A j, k \in 1 .. d : f[j] = f[k] => j = k
    <3> SUFFICES ASSUME NEW j \in 1 .. d, NEW k \in 1 .. d, ms[p + j].id = ms[p + k].id
                 PROVE  j = k
      OBVIOUS
    <3>1. ms[p + j].role = "tool" /\ ms[p + k].role = "tool"
      BY <1>6, <2>1
    <3>2. p + j = p + k
      BY <2>1, <3>1 DEF Paired
    <3> QED
      BY <2>1, <3>2
  <2>4. \A i \in C : \E j \in 1 .. d : f[j] = i
    <3> SUFFICES ASSUME NEW i \in C PROVE \E j \in 1 .. d : f[j] = i
      OBVIOUS
    <3>1. PICK q \in p + 1 .. M : i = ms[q].id
      BY <1>8
    <3>2. q - p \in 1 .. d /\ ms[p + (q - p)].id = i
      BY <2>1, <3>1
    <3> QED
      BY <3>2
  <2> HIDE DEF f
  <2>5. f \in Bijection(1 .. d, C)
    BY <2>2, <2>3, <2>4 DEF Bijection, Injection, Surjection, IsInjective
  <2>6. ExistsBijection(1 .. d, C)
    BY <2>5 DEF ExistsBijection
  <2>7. Cardinality(C) = d
    BY <2>1, <2>6, FS_CountingElements
  <2> QED
    BY <2>7 DEF d
<1>10. Behind(ms, p, M)
  BY <1>5 DEF B
<1> QED
  BY <1>6, <1>8, <1>9, <1>10 DEF C

\* The blocks of these answers follow the last call one by one.
LEMMA BehindAt ==
  ASSUME NEW n \in Nat, NEW ms \in Seq(Proper(n)), NEW p \in 1 .. Len(ms), NEW q \in 1 .. Len(ms),
         Behind(ms, p, q)
  PROVE  \A j \in p + 1 .. q :
           /\ Ends(ms, j) = Ends(ms, p) + (j - p) /\ Ends(ms, j) \in 1 .. Len(Flow(ms))
           /\ Flow(ms)[Ends(ms, j)] = Block("user", "result", ms[j].id)
<1>1. Len(ms) \in Nat /\ p < q /\ \A j \in p + 1 .. q : ms[j].role = "tool" /\ j \in 1 .. Len(ms)
  BY DEF Behind
<1>2. \A j \in p + 1 .. q :
        /\ Ends(ms, j) \in 1 .. Len(Flow(ms))
        /\ Flow(ms)[Ends(ms, j)] = Block("user", "result", ms[j].id)
        /\ Ends(ms, j) = Ends(ms, j - 1) + 1
  <2> SUFFICES ASSUME NEW j \in p + 1 .. q
               PROVE  /\ Ends(ms, j) \in 1 .. Len(Flow(ms))
                      /\ Flow(ms)[Ends(ms, j)] = Block("user", "result", ms[j].id)
                      /\ Ends(ms, j) = Ends(ms, j - 1) + 1
    OBVIOUS
  <2>1. j \in 1 .. Len(ms) /\ ms[j].role = "tool" /\ j - 1 \in 1 .. Len(ms)
    BY <1>1
  <2> QED
    BY <2>1, ToolAt
<1>3. Ends(ms, p) \in Nat
  BY FlowIs
<1> DEFINE T == {d \in Nat : p + d <= q => Ends(ms, p + d) = Ends(ms, p) + d}
<1>4. 0 \in T
  BY <1>3
<1>5. ASSUME NEW d \in Nat, d \in T
      PROVE  d + 1 \in T
  <2> SUFFICES ASSUME p + (d + 1) <= q PROVE Ends(ms, p + (d + 1)) = Ends(ms, p) + (d + 1)
    OBVIOUS
  <2>1. Ends(ms, p + d) = Ends(ms, p) + d
    BY <1>5
  <2> DEFINE j == p + (d + 1)
  <2>2. j \in p + 1 .. q /\ j - 1 = p + d
    OBVIOUS
  <2> HIDE DEF j
  <2>3. Ends(ms, j) = Ends(ms, p + d) + 1
    BY <1>2, <2>2
  <2>4. Ends(ms, j) = Ends(ms, p) + (d + 1)
    BY <1>3, <2>1, <2>3
  <2> QED
    BY <2>4 DEF j
<1>6. \A d \in Nat : d \in T
  <2> HIDE DEF T
  <2> QED
    BY <1>4, <1>5, NatSetInduction
<1>7. ASSUME NEW j \in p + 1 .. q
      PROVE  Ends(ms, j) = Ends(ms, p) + (j - p)
  <2> DEFINE d == j - p
  <2>1. d \in Nat /\ p + d = j /\ j <= q
    OBVIOUS
  <2> HIDE DEF d
  <2>2. Ends(ms, p + d) = Ends(ms, p) + d
    BY <1>6, <2>1
  <2> QED
    BY <2>1, <2>2 DEF d
<1> QED
  BY <1>2, <1>7

\* A later message with calls ends later.
LEMMA EndsGrow ==
  ASSUME NEW n \in Nat, NEW ms \in Seq(Proper(n)), NEW p \in 1 .. Len(ms), NEW q \in 1 .. Len(ms),
         p < q, ms[q].calls # <<>>
  PROVE  Ends(ms, p) < Ends(ms, q)
<1> DEFINE ps == Pieces(ms)
<1>1. /\ ps \in Seq(Seq(Bits)) /\ Len(ps) = Len(ms)
      /\ ps[p] = AntBlocks(ms[p]) /\ ps[q] = AntBlocks(ms[q]) /\ ms[q] \in Proper(n)
      /\ Ends(ms, p) = At(ps, p) + Len(AntBlocks(ms[p])) /\ Ends(ms, p) \in Nat
      /\ Ends(ms, q) = At(ps, q) + Len(AntBlocks(ms[q])) /\ Ends(ms, q) \in Nat
      /\ At(ps, q) \in Nat /\ Len(AntBlocks(ms[q])) \in Nat
  BY FlowIs
<1>2. At(ps, p) + Len(ps[p]) <= At(ps, q)
  <2> HIDE DEF ps
  <2>1. p \in 1 .. Len(ps) /\ q \in 1 .. Len(ps)
    BY <1>1
  <2> QED
    BY <1>1, <2>1, AtMono
<1>3. Len(AntBlocks(ms[q])) # 0
  <2>1. ms[q].role = "assistant" /\ Len(ms[q].calls) \in Nat
    BY MessageAt
  <2>2. Len(ms[q].calls) # 0
    <3>1. ms[q].calls \in Seq(Ids)
      BY MessageAt
    <3> QED
      BY <3>1, EmptySeq
  <2>3. PICK t \in {0, 1} : Len(AntBlocks(ms[q])) = t + Len(ms[q].calls)
    BY <1>1, <2>1, BlocksOfMessage
  <2> QED
    BY <2>1, <2>2, <2>3
<1> HIDE DEF ps
<1> QED
  BY <1>1, <1>2, <1>3

\* A turn is as long as the role stays the same: it does not end before y when the blocks from
\* one of its own to y are of one role.
LEMMA TurnReaches ==
  ASSUME NEW w \in Seq(Bits), NEW ts, NEW g, Grouped(Bits, ts, w, Len(w), g),
         NEW i \in 1 .. Len(ts), NEW y \in 1 .. Len(w)
  PROVE  /\ \A x \in 1 .. Len(w) :
              /\ x <= g[i + 1] /\ g[i] < x /\ (\A z \in x .. y : w[z].role = w[x].role)
              => y <= g[i + 1]
         /\ \A x \in 1 .. Len(w) :
              /\ y <= g[i + 1] /\ g[i] < y /\ (\A z \in x .. y : w[z].role = w[y].role)
              => g[i] < x
<1> DEFINE L == Len(ts)
<1>1. /\ L \in Nat /\ g[1] = 0 /\ g[L + 1] = Len(w) /\ \A j \in 1 .. L + 1 : g[j] \in Nat
      /\ \A j \in 1 .. L : Len(ts[j]) \in Nat /\ Len(ts[j]) > 0 /\ g[j + 1] = g[j] + Len(ts[j])
      /\ \A j \in 2 .. L : w[g[j]].role # w[g[j] + 1].role
  <2>1. ts \in Seq(Seq(Bits))
    BY DEF Grouped
  <2>2. Len(ts) \in Nat /\ \A j \in 1 .. Len(ts) : Len(ts[j]) \in Nat
    BY <2>1
  <2> QED
    BY <2>2 DEF Grouped
<1>2. Len(w) \in Nat /\ i \in 1 .. L
  OBVIOUS
<1> HIDE DEF L
<1>3. /\ i \in 1 .. L + 1 /\ i + 1 \in 1 .. L + 1 /\ g[i] \in Nat /\ g[i + 1] \in Nat
      /\ g[i] < g[i + 1]
  <2>1. i \in 1 .. L + 1 /\ i + 1 \in 1 .. L + 1
    BY <1>1, <1>2
  <2>2. g[i] \in Nat /\ g[i + 1] \in Nat /\ Len(ts[i]) \in Nat /\ Len(ts[i]) > 0
        /\ g[i + 1] = g[i] + Len(ts[i])
    BY <1>1, <1>2, <2>1
  <2> QED
    BY <2>1, <2>2
<1>4. ASSUME NEW x \in 1 .. Len(w), x <= g[i + 1], g[i] < x, \A z \in x .. y : w[z].role = w[x].role
      PROVE  y <= g[i + 1]
  <2> SUFFICES ASSUME g[i + 1] < y PROVE FALSE
    BY <1>2, <1>3
  <2> DEFINE z == g[i + 1]
  <2>1. z \in Nat /\ x <= z /\ z < y /\ z # Len(w)
    BY <1>2, <1>3, <1>4
  <2>2. i + 1 # L + 1
    BY <1>1, <2>1
  <2>3. i + 1 \in 2 .. L
    BY <1>1, <1>2, <2>2
  <2>4. w[z].role # w[z + 1].role
    BY <1>1, <2>3
  <2> HIDE DEF z
  <2>5. z \in x .. y /\ z + 1 \in x .. y
    BY <1>2, <2>1
  <2> QED
    BY <1>4, <2>4, <2>5
<1>5. ASSUME NEW x \in 1 .. Len(w), y <= g[i + 1], g[i] < y, \A z \in x .. y : w[z].role = w[y].role
      PROVE  g[i] < x
  <2> SUFFICES ASSUME x <= g[i] PROVE FALSE
    BY <1>2, <1>3
  <2> DEFINE z == g[i]
  <2>1. z \in Nat /\ x <= z /\ z < y /\ z # 0
    BY <1>2, <1>3, <1>5
  <2>2. i \in 2 .. L
    BY <1>1, <1>2, <2>1
  <2>3. w[z].role # w[z + 1].role
    BY <1>1, <2>2
  <2> HIDE DEF z
  <2>4. z \in x .. y /\ z + 1 \in x .. y
    BY <1>2, <2>1
  <2> QED
    BY <1>5, <2>3, <2>4
<1> QED
  BY <1>4, <1>5

\* The blocks of a turn.
LEMMA InTurn ==
  ASSUME NEW w \in Seq(Bits), NEW ts, NEW g, Grouped(Bits, ts, w, Len(w), g), NEW i \in 1 .. Len(ts)
  PROVE  /\ g[i] \in Nat /\ g[i + 1] \in Nat /\ g[i] < g[i + 1] /\ g[i + 1] <= Len(w)
         /\ Len(ts[i]) = g[i + 1] - g[i] /\ ts[i] \in Seq(Bits)
         /\ \A r \in 1 .. Len(ts[i]) : g[i] + r \in g[i] + 1 .. g[i + 1] /\ ts[i][r] = w[g[i] + r]
         /\ \A x, y \in g[i] + 1 .. g[i + 1] : w[x].role = w[y].role
         /\ \A x \in g[i] + 1 .. g[i + 1] :
              x \in 1 .. Len(w) /\ x - g[i] \in 1 .. Len(ts[i]) /\ ts[i][x - g[i]] = w[x]
<1> DEFINE L == Len(ts)
           a == g[i]
           b == g[i + 1]
           t == ts[i]
<1>1. /\ L \in Nat /\ g[L + 1] = Len(w) /\ \A j \in 1 .. L + 1 : g[j] \in Nat
      /\ \A j \in 1 .. L : Len(ts[j]) \in Nat /\ g[j + 1] = g[j] + Len(ts[j])
      /\ t \in Seq(Bits)
  <2>1. ts \in Seq(Seq(Bits))
    BY DEF Grouped
  <2>2. Len(ts) \in Nat /\ \A j \in 1 .. Len(ts) : Len(ts[j]) \in Nat /\ ts[j] \in Seq(Bits)
    BY <2>1
  <2> QED
    BY <2>2 DEF Grouped
<1>2. /\ Len(t) > 0 /\ b = a + Len(t)
      /\ \A r \in 1 .. Len(t) : t[r] = w[a + r] /\ w[a + r].role = w[a + 1].role
  BY DEF Grouped
<1>3. i \in 1 .. L /\ Len(w) \in Nat
  OBVIOUS
<1> HIDE DEF L
<1>4. a \in Nat /\ b \in Nat /\ Len(t) \in Nat
  <2>1. i \in 1 .. L + 1 /\ i + 1 \in 1 .. L + 1
    BY <1>1, <1>3
  <2> QED
    BY <1>1, <1>3, <2>1
<1>5. b <= Len(w)
  <2> DEFINE T == {d \in Nat : i + 1 + d <= L + 1 => b <= g[i + 1 + d]}
  <2>1. 0 \in T
    BY <1>3, <1>4
  <2>2. ASSUME NEW d \in Nat, d \in T
        PROVE  d + 1 \in T
    <3> SUFFICES ASSUME i + 1 + (d + 1) <= L + 1 PROVE b <= g[i + 1 + (d + 1)]
      OBVIOUS
    <3> DEFINE j == i + 1 + d
    <3>1. j \in 1 .. L /\ j \in 1 .. L + 1 /\ j + 1 \in 1 .. L + 1 /\ j + 1 = i + 1 + (d + 1)
      BY <1>1, <1>3
    <3>2. b <= g[j]
      BY <1>1, <1>3, <2>2, <3>1
    <3> HIDE DEF j, b
    <3>3. g[j + 1] = g[j] + Len(ts[j]) /\ g[j] \in Nat /\ Len(ts[j]) \in Nat
      BY <1>1, <3>1
    <3>4. b <= g[j + 1]
      BY <1>4, <3>2, <3>3
    <3> QED
      BY <3>1, <3>4
  <2>3. L - i \in Nat /\ i + 1 + (L - i) = L + 1
    BY <1>1, <1>3
  <2>4. L - i \in T
    <3> HIDE DEF T
    <3> QED
      BY <2>1, <2>2, <2>3, NatSetInduction
  <2> HIDE DEF b
  <2> QED
    BY <1>1, <2>3, <2>4
<1> HIDE DEF a, b, t
<1>6. \A r \in 1 .. Len(t) : a + r \in a + 1 .. b
  BY <1>2, <1>4
<1>7. ASSUME NEW x \in a + 1 .. b
      PROVE  /\ x \in 1 .. Len(w) /\ x - a \in 1 .. Len(t) /\ t[x - a] = w[x]
             /\ w[x].role = w[a + 1].role
  <2> DEFINE r == x - a
  <2>1. r \in 1 .. Len(t) /\ a + r = x /\ x \in 1 .. Len(w)
    BY <1>2, <1>3, <1>4, <1>5
  <2> HIDE DEF r
  <2>2. t[r] = w[x] /\ w[x].role = w[a + 1].role
    BY <1>2, <2>1
  <2> QED
    BY <2>1, <2>2 DEF r
<1>8. a < b /\ Len(t) = b - a
  BY <1>2, <1>4
<1> QED
  BY <1>1, <1>2, <1>4, <1>5, <1>6, <1>7, <1>8 DEF a, b, t

\* A turn with calls is a turn of one message, of which it has all calls at its end.
LEMMA CallTurn ==
  ASSUME NEW n \in Nat, NEW ms \in Seq(Proper(n)), Paired(ms), NEW ts, NEW g,
         Grouped(Bits, ts, Flow(ms), Len(Flow(ms)), g), NEW i \in 1 .. Len(ts),
         NEW x \in g[i] + 1 .. g[i + 1], Flow(ms)[x].kind = "call"
  PROVE  \E p \in 1 .. Len(ms) :
           /\ ms[p].calls # <<>> /\ g[i + 1] = Ends(ms, p)
           /\ g[i] <= Ends(ms, p) - Len(ms[p].calls) /\ Flow(ms)[x].of \in ToSet(ms[p].calls)
<1> DEFINE w == Flow(ms)
           a == g[i]
           b == g[i + 1]
<1>1. /\ w \in Seq(Bits) /\ Len(w) \in Nat /\ Grouped(Bits, ts, w, Len(w), g)
  BY FlowIs
<1>2. /\ a \in Nat /\ b \in Nat /\ b <= Len(w) /\ x \in 1 .. Len(w)
      /\ \A y, z \in a + 1 .. b : w[y].role = w[z].role
  <2> HIDE DEF w
  <2> QED
    BY <1>1, InTurn
<1>3. PICK p \in 1 .. Len(ms) : \E k \in 1 .. Len(ms[p].calls) :
        /\ x = Ends(ms, p) - Len(ms[p].calls) + k /\ w[x].of = ms[p].calls[k]
        /\ ms[p].calls # <<>>
  BY <1>2, BlockFrom
<1>4. PICK k \in 1 .. Len(ms[p].calls) :
        /\ x = Ends(ms, p) - Len(ms[p].calls) + k /\ w[x].of = ms[p].calls[k]
        /\ ms[p].calls # <<>>
  BY <1>3
<1> DEFINE e == Ends(ms, p)
           c == Len(ms[p].calls)
<1>5. /\ e \in 1 .. Len(w) /\ c \in Nat /\ c > 0 /\ e - c \in Nat
      /\ \A j \in 1 .. c : w[e - c + j] = Block("assistant", "call", ms[p].calls[j])
  BY <1>4, CallsAt
<1>6. \A ro, ki, o : Block(ro, ki, o).role = ro
  BY DEF Block
<1>7. /\ x = e - c + k /\ k \in 1 .. c
  BY <1>4
<1> HIDE DEF w, a, b, e, c
<1>0. e \in Nat /\ c \in Nat /\ e - c \in Nat
  BY <1>1, <1>5
<1>8. \A z \in e - c + 1 .. e : w[z].role = "assistant"
  <2> SUFFICES ASSUME NEW z \in e - c + 1 .. e PROVE w[z].role = "assistant"
    OBVIOUS
  <2> DEFINE j == z - (e - c)
  <2>1. j \in 1 .. c /\ e - c + j = z
    BY <1>0
  <2> HIDE DEF j
  <2>2. w[e - c + j] = Block("assistant", "call", ms[p].calls[j])
    BY <1>5, <2>1
  <2>3. w[z] = Block("assistant", "call", ms[p].calls[j])
    BY <2>1, <2>2
  <2> QED
    BY <1>6, <2>3
<1>9. x \in e - c + 1 .. e /\ e - c + 1 \in 1 .. Len(w) /\ e \in Nat
  BY <1>1, <1>5, <1>7
<1>10. x <= b /\ a < x /\ a = g[i] /\ b = g[i + 1]
  <2>1. x <= g[i + 1] /\ g[i] < x
    BY <1>2 DEF a, b
  <2> QED
    BY <2>1 DEF a, b
<1>11. e <= b
  <2>1. \A z \in x .. e : w[z].role = w[x].role
    <3>1. \A z \in x .. e : z \in e - c + 1 .. e
      BY <1>5, <1>9
    <3> QED
      BY <1>8, <1>9, <3>1
  <2> QED
    BY <1>1, <1>2, <1>5, <1>10, <2>1, TurnReaches
<1>12. a < e - c + 1
  <2> DEFINE y == e - c + 1
  <2>1. \A z \in y .. x : w[z].role = w[x].role
    <3>1. \A z \in y .. x : z \in e - c + 1 .. e
      BY <1>5, <1>9
    <3> QED
      BY <1>8, <1>9, <3>1
  <2>2. y \in 1 .. Len(w)
    BY <1>9
  <2> HIDE DEF y
  <2>3. a < y
    BY <1>1, <1>2, <1>10, <2>1, <2>2, TurnReaches
  <2> QED
    BY <2>3 DEF y
<1>13. ~ (e < b)
  <2> SUFFICES ASSUME e < b PROVE FALSE
    OBVIOUS
  <2>0. e < b
    OBVIOUS
  <2>1. PICK M \in 1 .. Len(ms) : Behind(ms, p, M)
    BY <1>4, AnswersOf
  <2>2. p + 1 \in p + 1 .. M
    BY <2>1 DEF Behind
  <2> DEFINE j == p + 1
  <2>3. j \in p + 1 .. M /\ j - p = 1
    BY <2>2
  <2> HIDE DEF j
  <2>4. Ends(ms, j) = e + (j - p) /\ w[Ends(ms, j)] = Block("user", "result", ms[j].id)
    BY <2>1, <2>3, BehindAt DEF e, w
  <2>5. w[e + 1].role = "user"
    <3>1. w[e + 1] = Block("user", "result", ms[j].id)
      BY <2>3, <2>4
    <3> QED
      BY <1>6, <3>1
  <2>6. e + 1 \in a + 1 .. b /\ x \in a + 1 .. b
    <3>1. x \in Nat /\ x <= e
      BY <1>0, <1>9
    <3>2. a \in Nat /\ b \in Nat /\ a < x /\ x <= b
      BY <1>2, <1>10
    <3>3. e + 1 \in a + 1 .. b
      BY <1>0, <2>0, <3>1, <3>2
    <3>4. x \in a + 1 .. b
      BY <3>1, <3>2
    <3> QED
      BY <3>3, <3>4
  <2>7. w[x].role = "assistant"
    BY <1>8, <1>9
  <2> QED
    BY <1>2, <2>5, <2>6, <2>7
<1>14. b = e /\ a <= e - c
  BY <1>2, <1>5, <1>9, <1>11, <1>12, <1>13
<1>15. w[x].of \in ToSet(ms[p].calls)
  <2>1. ms[p].calls \in Seq(Ids)
    BY MessageAt
  <2> QED
    BY <1>4, <2>1, ToSetIs DEF w
<1> QED
  BY <1>4, <1>14, <1>15 DEF a, b, e, c, w

\* A turn is the blocks from a up to b, which have one role.
Whole(w, t, a, b) ==
  /\ a \in Nat /\ b \in Nat /\ t \in Seq(Bits)
  /\ \A r \in 1 .. Len(t) : a + r \in a + 1 .. b /\ t[r] = w[a + r]
  /\ \A x, y \in a + 1 .. b : w[x].role = w[y].role
  /\ \A x \in a + 1 .. b : x \in 1 .. Len(w) /\ x - a \in 1 .. Len(t) /\ t[x - a] = w[x]

\* Every turn of a history is one.
LEMMA FlowTurn ==
  ASSUME NEW n \in Nat, NEW ms \in Seq(Proper(n)), NEW ts, NEW g,
         Grouped(Bits, ts, Flow(ms), Len(Flow(ms)), g), NEW i \in 1 .. Len(ts)
  PROVE  Whole(Flow(ms), ts[i], g[i], g[i + 1])
<1> DEFINE w == Flow(ms)
<1>1. w \in Seq(Bits) /\ Grouped(Bits, ts, w, Len(w), g)
  BY FlowIs
<1> HIDE DEF w
<1>2. /\ g[i] \in Nat /\ g[i + 1] \in Nat /\ ts[i] \in Seq(Bits)
      /\ \A r \in 1 .. Len(ts[i]) : g[i] + r \in g[i] + 1 .. g[i + 1] /\ ts[i][r] = w[g[i] + r]
      /\ \A x, y \in g[i] + 1 .. g[i + 1] : w[x].role = w[y].role
      /\ \A x \in g[i] + 1 .. g[i + 1] :
           x \in 1 .. Len(w) /\ x - g[i] \in 1 .. Len(ts[i]) /\ ts[i][x - g[i]] = w[x]
  BY <1>1, InTurn
<1>3. Whole(w, ts[i], g[i], g[i + 1])
  BY <1>2 DEF Whole
<1> QED
  BY <1>3 DEF w

\* Its calls are the calls of this message.
LEMMA TurnUses ==
  ASSUME NEW n \in Nat, NEW ms \in Seq(Proper(n)), Paired(ms), NEW ts, NEW g,
         Grouped(Bits, ts, Flow(ms), Len(Flow(ms)), g), NEW i \in 1 .. Len(ts),
         NEW p \in 1 .. Len(ms), ms[p].calls # <<>>, g[i + 1] = Ends(ms, p),
         g[i] <= Ends(ms, p) - Len(ms[p].calls)
  PROVE  KindIds(ts[i], "call") = ToSet(ms[p].calls)
<1> DEFINE w == Flow(ms)
           e == Ends(ms, p)
           c == Len(ms[p].calls)
           t == ts[i]
<1>1. w \in Seq(Bits) /\ Len(w) \in Nat /\ Grouped(Bits, ts, w, Len(w), g)
  BY FlowIs
<1>2. /\ g[i] \in Nat /\ t \in Seq(Bits)
      /\ \A r \in 1 .. Len(t) : g[i] + r \in g[i] + 1 .. g[i + 1] /\ t[r] = w[g[i] + r]
      /\ \A x \in g[i] + 1 .. g[i + 1] : x - g[i] \in 1 .. Len(t) /\ t[x - g[i]] = w[x]
  <2>1. Whole(Flow(ms), ts[i], g[i], g[i + 1])
    BY FlowTurn
  <2> QED
    BY <2>1 DEF Whole
<1>3. /\ e \in 1 .. Len(w) /\ c \in Nat /\ c > 0 /\ e - c \in Nat
      /\ \A j \in 1 .. c : w[e - c + j] = Block("assistant", "call", ms[p].calls[j])
  BY CallsAt
<1>4. ms[p].calls \in Seq(Ids)
  BY MessageAt
<1>5. \A k : k \in KindIds(t, "call") <=> \E r \in 1 .. Len(t) : t[r].kind = "call" /\ t[r].of = k
  <2> HIDE DEF t
  <2>1. \A b : b \in ToSet(t) <=> \E r \in 1 .. Len(t) : b = t[r]
    BY <1>2, ToSetIs
  <2> QED
    BY <2>1 DEF KindIds
<1>6. ASSUME NEW k \in KindIds(t, "call") PROVE k \in ToSet(ms[p].calls)
  <2>1. PICK r \in 1 .. Len(t) : t[r].kind = "call" /\ t[r].of = k
    BY <1>5, <1>6
  <2> DEFINE x == g[i] + r
  <2>2. x \in g[i] + 1 .. g[i + 1] /\ w[x].kind = "call" /\ w[x].of = k
    BY <1>2, <2>1
  <2> HIDE DEF x, t
  <2>3. PICK q \in 1 .. Len(ms) :
          /\ ms[q].calls # <<>> /\ g[i + 1] = Ends(ms, q) /\ w[x].of \in ToSet(ms[q].calls)
    BY <2>2, CallTurn
  <2>4. Ends(ms, p) = Ends(ms, q) /\ Ends(ms, p) \in Nat
    BY <2>3, FlowIs
  <2>5. ~ (p < q) /\ ~ (q < p)
    BY <2>3, <2>4, EndsGrow
  <2>6. p = q
    <3>1. p \in Int /\ q \in Int
      OBVIOUS
    <3> QED
      BY <2>5, <3>1
  <2> QED
    BY <2>2, <2>3, <2>6
<1>7. ASSUME NEW k \in ToSet(ms[p].calls) PROVE k \in KindIds(t, "call")
  <2>1. PICK j \in 1 .. c : k = ms[p].calls[j]
    BY <1>4, <1>7, ToSetIs
  <2> DEFINE x == e - c + j
  <2>2. g[i] <= e - c /\ g[i + 1] = e
    OBVIOUS
  <2>3. w[x] = Block("assistant", "call", k)
    BY <1>3, <2>1
  <2> HIDE DEF e, c, t, w
  <2>4. x \in g[i] + 1 .. g[i + 1]
    BY <1>2, <1>3, <2>2
  <2> HIDE DEF x
  <2>5. x - g[i] \in 1 .. Len(t) /\ t[x - g[i]] = Block("assistant", "call", k)
    BY <1>2, <2>3, <2>4
  <2>6. t[x - g[i]].kind = "call" /\ t[x - g[i]].of = k
    BY <2>5 DEF Block
  <2> QED
    BY <1>5, <2>5, <2>6
<1> QED
  BY <1>6, <1>7

\* The turn behind a turn with calls begins with their answers.
LEMMA AnswersFollow ==
  ASSUME NEW n \in Nat, NEW ms \in Seq(Proper(n)), Paired(ms), NEW ts, NEW g,
         Grouped(Bits, ts, Flow(ms), Len(Flow(ms)), g), NEW i \in 1 .. Len(ts),
         KindIds(ts[i], "call") # {}
  PROVE  /\ i < Len(ts) /\ Cardinality(KindIds(ts[i], "call")) <= Len(ts[i + 1])
         /\ KindIds(SubSeq(ts[i + 1], 1, Cardinality(KindIds(ts[i], "call"))), "result")
              = KindIds(ts[i], "call")
<1> DEFINE w == Flow(ms)
           t == ts[i]
           C == KindIds(t, "call")
           L == Len(ts)
<1>1. /\ w \in Seq(Bits) /\ Len(w) \in Nat /\ Grouped(Bits, ts, w, Len(w), g)
      /\ L \in Nat /\ i \in 1 .. L
  <2>1. ts \in Seq(Seq(Bits))
    BY DEF Grouped
  <2> QED
    BY <2>1, FlowIs
<1>2. /\ g[i] \in Nat /\ g[i + 1] \in Nat /\ t \in Seq(Bits)
      /\ \A r \in 1 .. Len(t) : g[i] + r \in g[i] + 1 .. g[i + 1] /\ t[r] = w[g[i] + r]
  <2> HIDE DEF w
  <2> QED
    BY <1>1, InTurn
<1>3. PICK r \in 1 .. Len(t) : t[r].kind = "call"
  <2>1. \A b : b \in ToSet(t) <=> \E r \in 1 .. Len(t) : b = t[r]
    BY <1>2, ToSetIs
  <2> HIDE DEF t
  <2>2. PICK k \in C : TRUE
    BY DEF t
  <2>3. PICK b \in ToSet(t) : b.kind = "call"
    BY <2>2 DEF KindIds
  <2> QED
    BY <2>1, <2>3
<1>4. PICK p \in 1 .. Len(ms) :
        /\ ms[p].calls # <<>> /\ g[i + 1] = Ends(ms, p)
        /\ g[i] <= Ends(ms, p) - Len(ms[p].calls)
  <2> DEFINE x == g[i] + r
  <2>1. x \in g[i] + 1 .. g[i + 1] /\ Flow(ms)[x].kind = "call"
    BY <1>2, <1>3
  <2> HIDE DEF x
  <2> QED
    BY <2>1, CallTurn
<1>5. C = ToSet(ms[p].calls)
  BY <1>4, TurnUses
<1> HIDE DEF C
<1> DEFINE D == ToSet(ms[p].calls)
<1>a. PICK M \in 1 .. Len(ms) :
        /\ Behind(ms, p, M)
        /\ Cardinality(D) = M - p
        /\ \A k : k \in D <=> \E q \in p + 1 .. M : k = ms[q].id
  BY <1>4, AnswersOf
<1>b. C = D
  BY <1>5
<1> HIDE DEF D
<1>6. /\ Behind(ms, p, M)
      /\ Cardinality(C) = M - p
      /\ \A k : k \in C <=> \E q \in p + 1 .. M : k = ms[q].id
  BY <1>a, <1>b
<1> DEFINE e == Ends(ms, p)
           N == M - p
           u == ts[i + 1]
<1>7. \A j \in p + 1 .. M :
        /\ Ends(ms, j) = e + (j - p) /\ Ends(ms, j) \in 1 .. Len(w)
        /\ w[Ends(ms, j)] = Block("user", "result", ms[j].id)
  BY <1>6, BehindAt
<1>8. e \in Nat /\ Len(ms) \in Nat /\ p < M /\ N \in Nat /\ N > 0 /\ p + N = M
  BY <1>6, FlowIs DEF Behind
<1> HIDE DEF w, L, e, N
<1>9. \A k \in 1 .. N : e + k \in 1 .. Len(w) /\ w[e + k] = Block("user", "result", ms[p + k].id)
  <2> SUFFICES ASSUME NEW k \in 1 .. N
               PROVE  e + k \in 1 .. Len(w) /\ w[e + k] = Block("user", "result", ms[p + k].id)
    OBVIOUS
  <2> DEFINE j == p + k
  <2>1. j \in p + 1 .. M /\ j - p = k
    BY <1>8
  <2> HIDE DEF j
  <2>2. Ends(ms, j) = e + k /\ Ends(ms, j) \in 1 .. Len(w)
        /\ w[Ends(ms, j)] = Block("user", "result", ms[j].id)
    BY <1>7, <2>1
  <2>3. e + k \in 1 .. Len(w) /\ w[e + k] = Block("user", "result", ms[j].id)
    BY <2>2
  <2> QED
    BY <2>3 DEF j
<1>10. /\ g[L + 1] = Len(w)
  BY <1>1 DEF Grouped, L
<1>11. i < L
  <2>1. 1 \in 1 .. N
    BY <1>8
  <2>2. e + 1 \in 1 .. Len(w)
    BY <1>9, <2>1
  <2>3. g[i + 1] # Len(w)
    BY <1>1, <1>4, <1>8, <2>2 DEF e
  <2>4. i # L
    BY <1>10, <2>3
  <2> QED
    BY <1>1, <2>4
<1> DEFINE i1 == i + 1
<1>12. i1 \in 1 .. Len(ts) /\ g[i1] = e /\ u = ts[i1]
  BY <1>1, <1>4, <1>11 DEF e, L
<1> HIDE DEF i1
<1>13. /\ g[i1 + 1] \in Nat /\ e < g[i1 + 1] /\ Len(u) = g[i1 + 1] - e /\ u \in Seq(Bits)
       /\ \A k \in 1 .. Len(u) : u[k] = w[e + k]
  <2> DEFINE ti == ts[i1]
             a  == g[i1]
  <2>1. /\ g[i1 + 1] \in Nat /\ a < g[i1 + 1] /\ Len(ti) = g[i1 + 1] - a /\ ti \in Seq(Bits)
        /\ \A k \in 1 .. Len(ti) : ti[k] = w[a + k]
    <3>1. i1 \in 1 .. Len(ts) /\ w \in Seq(Bits) /\ Grouped(Bits, ts, w, Len(w), g)
      BY <1>1, <1>12
    <3>2. /\ g[i1 + 1] \in Nat /\ g[i1] < g[i1 + 1] /\ Len(ts[i1]) = g[i1 + 1] - g[i1]
          /\ ts[i1] \in Seq(Bits)
          /\ \A r1 \in 1 .. Len(ts[i1]) : ts[i1][r1] = w[g[i1] + r1]
      BY <3>1, InTurn
    <3> QED
      BY <3>2
  <2>2. ti = u /\ a = e
    BY <1>12
  <2> HIDE DEF ti, a, u
  <2> QED
    BY <2>1, <2>2
<1>14. e + N <= g[i1 + 1]
  <2> DEFINE x == e + 1
             y == e + N
  <2>1. x \in 1 .. Len(w) /\ y \in 1 .. Len(w)
    <3>1. 1 \in 1 .. N /\ N \in 1 .. N
      BY <1>8
    <3> QED
      BY <1>9, <3>1
  <2>2. \A z \in x .. y : w[z].role = "user"
    <3> SUFFICES ASSUME NEW z \in x .. y PROVE w[z].role = "user"
      OBVIOUS
    <3> DEFINE k == z - e
    <3>1. k \in 1 .. N /\ e + k = z
      BY <1>8
    <3> HIDE DEF k
    <3>2. w[e + k] = Block("user", "result", ms[p + k].id)
      BY <1>9, <3>1
    <3>3. w[z] = Block("user", "result", ms[p + k].id)
      BY <3>1, <3>2
    <3> QED
      BY <3>3 DEF Block
  <2>3. x <= g[i1 + 1] /\ g[i1] < x /\ x \in x .. y
    BY <1>8, <1>12, <1>13
  <2> HIDE DEF x, y
  <2>4. \A z \in x .. y : w[z].role = w[x].role
    BY <2>2, <2>3
  <2>5. y <= g[i1 + 1]
    BY <1>1, <1>12, <2>1, <2>3, <2>4, TurnReaches
  <2> QED
    BY <2>5 DEF y
<1>15. N <= Len(u)
  BY <1>8, <1>13, <1>14
<1> HIDE DEF u
<1> DEFINE v == SubSeq(u, 1, N)
<1>16. v \in Seq(Bits) /\ Len(v) = N /\ \A k \in 1 .. N : v[k] = u[k] /\ k \in 1 .. Len(u)
  <2>1. /\ SubSeq(u, 0 + 1, N) \in Seq(Bits) /\ Len(SubSeq(u, 0 + 1, N)) = N - 0
        /\ \A k \in 1 .. (N - 0) : SubSeq(u, 0 + 1, N)[k] = u[0 + k]
    <3>1. u \in Seq(Bits) /\ 0 \in Nat /\ N \in Nat /\ 0 <= N /\ N <= Len(u)
      BY <1>8, <1>13, <1>15
    <3> QED
      BY <3>1, PartOf
  <2>2. 0 + 1 = 1 /\ N - 0 = N /\ \A k \in 1 .. N : 0 + k = k
    BY <1>8
  <2>3. Len(u) \in Nat
    BY <1>13
  <2>4. \A k \in 1 .. N : k \in 1 .. Len(u)
    BY <1>8, <1>15, <2>3
  <2> QED
    BY <2>1, <2>2, <2>4
<1> HIDE DEF v
<1>17. \A k \in 1 .. N : v[k] = Block("user", "result", ms[p + k].id)
  BY <1>9, <1>13, <1>16
<1>18. \A b : b \in ToSet(v) <=> \E k \in 1 .. N : b = v[k]
  BY <1>16, ToSetIs
<1>19. KindIds(v, "result") = C
  <2>1. ASSUME NEW k \in KindIds(v, "result") PROVE k \in C
    <3>1. PICK b \in ToSet(v) : k = b.of
      BY <2>1 DEF KindIds
    <3>2. PICK j \in 1 .. N : b = v[j]
      BY <1>18, <3>1
    <3>3. k = ms[p + j].id
      <4>1. b = Block("user", "result", ms[p + j].id)
        BY <1>17, <3>2
      <4> QED
        BY <3>1, <4>1 DEF Block
    <3>4. p + j \in p + 1 .. M
      BY <1>8
    <3> QED
      BY <1>6, <3>3, <3>4 DEF C
  <2>2. ASSUME NEW k \in C PROVE k \in KindIds(v, "result")
    <3>1. PICK q \in p + 1 .. M : k = ms[q].id
      BY <1>6, <2>2 DEF C
    <3> DEFINE j == q - p
    <3>2. j \in 1 .. N /\ p + j = q
      BY <1>8
    <3> HIDE DEF j
    <3>3. v[j] = Block("user", "result", k)
      BY <1>17, <3>1, <3>2
    <3>4. v[j].kind = "result" /\ v[j].of = k /\ v[j] \in ToSet(v)
      BY <1>18, <3>2, <3>3 DEF Block
    <3> QED
      BY <3>4 DEF KindIds
  <2> QED
    BY <2>1, <2>2
<1>20. Cardinality(C) = N
  BY <1>6 DEF N, C
<1> QED
  BY <1>11, <1>15, <1>19, <1>20 DEF C, L, u, v

\* An answer is in the turn behind that of its call, with answers only before it.
LEMMA ResultTurn ==
  ASSUME NEW n \in Nat, NEW ms \in Seq(Proper(n)), Paired(ms), NEW ts, NEW g,
         Grouped(Bits, ts, Flow(ms), Len(Flow(ms)), g), NEW i \in 1 .. Len(ts),
         NEW k \in 1 .. Len(ts[i]), ts[i][k].kind = "result"
  PROVE  /\ i > 1 /\ ts[i][k].of \in KindIds(ts[i - 1], "call")
         /\ \A j \in 1 .. k : ts[i][j].kind = "result"
<1> DEFINE w == Flow(ms)
           t == ts[i]
           a == g[i]
           b == g[i + 1]
           x == a + k
<1>1. w \in Seq(Bits) /\ Len(w) \in Nat /\ Grouped(Bits, ts, w, Len(w), g) /\ Len(ts) \in Nat
  <2>1. ts \in Seq(Seq(Bits))
    BY DEF Grouped
  <2> QED
    BY <2>1, FlowIs
<1>2. /\ a \in Nat /\ b \in Nat /\ Len(t) \in Nat
      /\ \A r \in 1 .. Len(t) : a + r \in a + 1 .. b /\ t[r] = w[a + r]
      /\ \A y, z \in a + 1 .. b : w[y].role = w[z].role
      /\ \A y \in a + 1 .. b : y \in 1 .. Len(w)
  <2>1. Whole(Flow(ms), ts[i], g[i], g[i + 1])
    BY FlowTurn
  <2>2. Len(ts[i]) \in Nat
    BY <2>1, LenProperties DEF Whole
  <2> QED
    BY <2>1, <2>2 DEF Whole
<1>3. /\ x \in a + 1 .. b /\ x \in 1 .. Len(w) /\ w[x] = t[k] /\ t[k].kind = "result" /\ k \in 1 .. Len(t)
  BY <1>2
<1>4. PICK q \in 1 .. Len(ms) : ms[q].role = "tool" /\ x = Ends(ms, q)
  BY <1>3, BlockFrom
<1>5. PICK p \in 1 .. Len(ms) : Behind(ms, p, q)
  BY <1>4 DEF Paired
<1> DEFINE e == Ends(ms, p)
           c == Len(ms[p].calls)
           N == q - p
<1>6. \A j \in p + 1 .. q :
        /\ Ends(ms, j) = e + (j - p) /\ Ends(ms, j) \in 1 .. Len(w)
        /\ w[Ends(ms, j)] = Block("user", "result", ms[j].id)
  BY <1>5, BehindAt
<1>7. /\ e \in Nat /\ p < q /\ N \in Nat /\ N > 0 /\ q \in p + 1 .. q /\ ms[q].id \in ToSet(ms[p].calls)
  BY <1>5, FlowIs DEF Behind
<1>8. x = e + N /\ w[x] = Block("user", "result", ms[q].id)
  <2> HIDE DEF e, w, x
  <2> QED
    BY <1>4, <1>6, <1>7
<1>9. ms[p].calls \in Seq(Ids) /\ ms[p].calls # <<>>
  <2>1. ms[p].calls \in Seq(Ids)
    BY MessageAt
  <2>2. \A v : v \in ToSet(ms[p].calls) <=> \E j \in 1 .. Len(ms[p].calls) : v = ms[p].calls[j]
    BY <2>1, ToSetIs
  <2>3. PICK j \in 1 .. Len(ms[p].calls) : ms[q].id = ms[p].calls[j]
    BY <1>7, <2>2
  <2> QED
    BY <2>1, <2>3, EmptySeq
<1>10. /\ e \in 1 .. Len(w) /\ c \in Nat /\ c > 0 /\ e - c \in Nat
       /\ \A j \in 1 .. c : w[e - c + j] = Block("assistant", "call", ms[p].calls[j])
  BY <1>9, CallsAt
<1> HIDE DEF w, a, b, e, c, N, t
<1>11. \A z \in e + 1 .. x : z \in 1 .. Len(w) /\ w[z].kind = "result" /\ w[z].role = "user"
  <2> SUFFICES ASSUME NEW z \in e + 1 .. x
               PROVE  z \in 1 .. Len(w) /\ w[z].kind = "result" /\ w[z].role = "user"
    OBVIOUS
  <2> DEFINE j == p + (z - e)
  <2>0. /\ x = e + N /\ N = q - p /\ e \in Nat /\ p \in Nat /\ q \in Nat
        /\ z \in Int /\ e + 1 <= z /\ z <= x
    <3>1. x = e + N /\ N = q - p
      BY <1>8 DEF N
    <3>2. e \in Nat /\ N \in Nat /\ Len(ms) \in Nat
      BY <1>7, LenProperties
    <3>3. p \in Nat /\ q \in Nat
      BY <3>2
    <3> HIDE DEF x
    <3>4. x \in Nat
      BY <3>1, <3>2
    <3> QED
      BY <3>1, <3>2, <3>3, <3>4
  <2> HIDE DEF x
  <2>1. j \in p + 1 .. q /\ e + (j - p) = z
    BY <2>0
  <2> HIDE DEF j
  <2>2. Ends(ms, j) = z /\ Ends(ms, j) \in 1 .. Len(w)
        /\ w[Ends(ms, j)] = Block("user", "result", ms[j].id)
    BY <1>6, <2>1
  <2>3. z \in 1 .. Len(w) /\ w[z] = Block("user", "result", ms[j].id)
    BY <2>2
  <2> QED
    BY <2>3 DEF Block
<1> HIDE DEF x
<1>12. w[e].role = "assistant"
  <2>1. c \in 1 .. c /\ e - c + c = e
    BY <1>7, <1>10
  <2>2. w[e - c + c] = Block("assistant", "call", ms[p].calls[c])
    BY <1>10, <2>1
  <2>3. w[e] = Block("assistant", "call", ms[p].calls[c])
    BY <2>1, <2>2
  <2> QED
    BY <2>3 DEF Block
<1>13. x \in Nat /\ a + 1 <= x /\ x <= b /\ e + 1 <= x /\ w[x].role = "user" /\ x = a + k /\ k \in Nat
  <2>1. x \in Nat /\ a + 1 <= x /\ x <= b
    BY <1>2, <1>3
  <2>2. e + 1 <= x
    BY <1>7, <1>8
  <2>3. x = a + k /\ k \in Nat
    BY <1>2 DEF x
  <2>4. x \in e + 1 .. x
    BY <1>7, <2>1, <2>2
  <2> QED
    BY <1>11, <2>1, <2>2, <2>3, <2>4
<1>14. e <= a
  <2> SUFFICES ASSUME a < e PROVE FALSE
    BY <1>2, <1>7
  <2>1. e \in a + 1 .. b /\ x \in a + 1 .. b
    BY <1>2, <1>7, <1>13
  <2> QED
    BY <1>2, <1>12, <1>13, <2>1
<1>15. \A j \in 1 .. k : t[j].kind = "result"
  <2> SUFFICES ASSUME NEW j \in 1 .. k PROVE t[j].kind = "result"
    OBVIOUS
  <2>1. j \in 1 .. Len(t) /\ a + j \in e + 1 .. x
    BY <1>2, <1>3, <1>7, <1>13, <1>14
  <2> QED
    BY <1>2, <1>11, <2>1
<1>16. a = e
  <2> DEFINE y == e + 1
  <2>1. y \in 1 .. Len(w) /\ x \in 1 .. Len(w) /\ y \in y .. x
    <3>1. e + 1 \in e + 1 .. x
      BY <1>7, <1>13
    <3> QED
      BY <1>3, <1>11, <3>1
  <2>2. \A z \in y .. x : w[z].role = w[x].role
    BY <1>11, <1>13
  <2> HIDE DEF y
  <2>3. x <= g[i + 1] /\ g[i] < x
    <3>1. x <= b /\ a < x
      BY <1>2, <1>13
    <3> QED
      BY <3>1 DEF a, b
  <2>4. g[i] < y
    BY <1>1, <2>1, <2>2, <2>3, TurnReaches
  <2>5. a < e + 1 /\ a \in Nat /\ e \in Nat /\ e <= a
    BY <1>2, <1>7, <1>14, <2>4 DEF a, y
  <2> HIDE DEF a, e
  <2> QED
    BY <2>5
<1>17. i > 1
  <2>1. e > 0
    BY <1>7, <1>10
  <2>2. g[1] = 0
    BY <1>1 DEF Grouped
  <2>3. i # 1
    BY <1>16, <2>1, <2>2 DEF a
  <2> QED
    BY <1>1, <2>3
<1> DEFINE i1 == i - 1
<1>18. i1 \in 1 .. Len(ts) /\ i1 + 1 = i
  BY <1>1, <1>17
<1> HIDE DEF i1
<1>19. g[i1 + 1] = e /\ g[i1] \in Nat /\ g[i1] < e
  <2>1. g[i1] \in Nat /\ g[i1] < g[i1 + 1]
    BY <1>1, <1>18, InTurn
  <2> QED
    BY <1>16, <1>18, <2>1 DEF a
<1>20. g[i1] <= e - c
  <2> DEFINE y == e - c + 1
  <2>1. y \in 1 .. Len(w) /\ e \in 1 .. Len(w)
    <3> DEFINE l == Len(w)
    <3>1. e \in 1 .. l /\ c \in Nat /\ c > 0 /\ e - c \in Nat /\ l \in Nat
      BY <1>1, <1>10
    <3> HIDE DEF l, e, c
    <3>2. e - c + 1 \in 1 .. l
      BY <3>1
    <3> QED
      BY <3>1, <3>2 DEF l
  <2>2. \A z \in y .. e : w[z].role = "assistant"
    <3> SUFFICES ASSUME NEW z \in y .. e PROVE w[z].role = "assistant"
      OBVIOUS
    <3> DEFINE j == z - (e - c)
    <3>0. e \in Nat /\ c \in Nat /\ e - c \in Nat
      BY <1>7, <1>10
    <3>1. j \in 1 .. c /\ e - c + j = z
      BY <3>0
    <3> HIDE DEF j
    <3>2. w[e - c + j] = Block("assistant", "call", ms[p].calls[j])
      BY <1>10, <3>1
    <3>3. w[z] = Block("assistant", "call", ms[p].calls[j])
      BY <3>1, <3>2
    <3> QED
      BY <3>3 DEF Block
  <2>3. \A z \in y .. e : w[z].role = w[e].role
    BY <1>12, <2>2
  <2> HIDE DEF y
  <2>4. e <= g[i1 + 1] /\ g[i1] < e
    BY <1>7, <1>19
  <2>5. g[i1] < y
    BY <1>1, <1>18, <2>1, <2>3, <2>4, TurnReaches
  <2> QED
    BY <1>7, <1>10, <1>19, <2>5 DEF y
<1>21. KindIds(ts[i1], "call") = ToSet(ms[p].calls)
  BY <1>1, <1>9, <1>18, <1>19, <1>20, TurnUses DEF e, c, w
<1>22. t[k].of = ms[q].id
  <2>1. t[k] = Block("user", "result", ms[q].id)
    BY <1>3, <1>8
  <2> QED
    BY <2>1 DEF Block
<1> QED
  BY <1>7, <1>15, <1>17, <1>21, <1>22 DEF t, i1

\* What a protocol with alternating turns expects of turn i.
TurnGood(turns, i) ==
  LET uses == KindIds(turns[i], "call")
      n    == Cardinality(uses)
  IN /\ i > 1 => turns[i][1].role # turns[i - 1][1].role
     /\ uses # {} => /\ i < Len(turns) /\ n <= Len(turns[i + 1])
                     /\ KindIds(SubSeq(turns[i + 1], 1, n), "result") = uses
     /\ \A k \in DOMAIN turns[i] : turns[i][k].kind = "result" =>
          /\ i > 1 /\ turns[i][k].of \in KindIds(turns[i - 1], "call")
          /\ \A j \in 1 .. k : turns[i][j].kind = "result"

\* All turns of a history are good when its calls and answers are paired.
LEMMA PairedTurns ==
  ASSUME NEW n \in Nat, NEW ms \in Seq(Proper(n)), Paired(ms)
  PROVE  \A i \in DOMAIN ToAnthropic(ms) : TurnGood(ToAnthropic(ms), i)
<1> DEFINE w  == Flow(ms)
           ts == ToAnthropic(ms)
<1>1. w \in Seq(Bits) /\ Len(w) \in Nat
  BY FlowIs
<1>2. PICK g : Grouped(Bits, ts, w, Len(w), g)
  <2>1. ts = Merged(w)[DOMAIN w]
    BY ToAnthropicIs DEF Flow
  <2> HIDE DEF w, ts
  <2> QED
    BY <1>1, <2>1, TurnsAre
<1>3. ts \in Seq(Seq(Bits)) /\ Len(ts) \in Nat /\ DOMAIN ts = 1 .. Len(ts)
  <2>1. ts \in Seq(Seq(Bits))
    BY <1>2 DEF Grouped
  <2> HIDE DEF ts
  <2> QED
    BY <2>1
<1> HIDE DEF ts
<1> SUFFICES ASSUME NEW i \in 1 .. Len(ts) PROVE TurnGood(ts, i)
  BY <1>3 DEF ts
<1>4. i > 1 => ts[i][1].role # ts[i - 1][1].role
  <2> HIDE DEF w
  <2> SUFFICES ASSUME i > 1 PROVE ts[i][1].role # ts[i - 1][1].role
    OBVIOUS
  <2> DEFINE i1 == i - 1
  <2>1. i1 \in 1 .. Len(ts) /\ i1 + 1 = i /\ i \in 2 .. Len(ts)
    BY <1>3
  <2> HIDE DEF i1
  <2>2. w[g[i]].role # w[g[i] + 1].role
    BY <1>2, <2>1 DEF Grouped
  <2>3. ts[i][1] = w[g[i] + 1]
    <3>1. Len(ts[i]) > 0 /\ \A r \in 1 .. Len(ts[i]) : ts[i][r] = w[g[i] + r]
      BY <1>2 DEF Grouped
    <3>2. Len(ts[i]) \in Nat
      BY <1>3
    <3>3. 1 \in 1 .. Len(ts[i])
      BY <3>1, <3>2
    <3> QED
      BY <3>1, <3>3
  <2>4. /\ g[i1] \in Nat /\ g[i1 + 1] \in Nat /\ g[i1] < g[i1 + 1]
        /\ \A x, y \in g[i1] + 1 .. g[i1 + 1] : w[x].role = w[y].role
    BY <1>1, <1>2, <2>1, InTurn
  <2>5. ts[i1][1] = w[g[i1] + 1]
    <3>1. Len(ts[i1]) > 0 /\ \A r \in 1 .. Len(ts[i1]) : ts[i1][r] = w[g[i1] + r]
      BY <1>2, <2>1 DEF Grouped
    <3>2. Len(ts[i1]) \in Nat
      BY <1>3, <2>1
    <3>3. 1 \in 1 .. Len(ts[i1])
      BY <3>1, <3>2
    <3> QED
      BY <3>1, <3>3
  <2>6. g[i1] + 1 \in g[i1] + 1 .. g[i1 + 1] /\ g[i1 + 1] \in g[i1] + 1 .. g[i1 + 1]
    BY <2>4
  <2>7. w[g[i1] + 1].role = w[g[i]].role
    BY <2>1, <2>4, <2>6
  <2>8. ts[i][1].role # ts[i1][1].role
    BY <2>2, <2>3, <2>5, <2>7
  <2> QED
    BY <2>8 DEF i1
<1>5. KindIds(ts[i], "call") # {} =>
        /\ i < Len(ts) /\ Cardinality(KindIds(ts[i], "call")) <= Len(ts[i + 1])
        /\ KindIds(SubSeq(ts[i + 1], 1, Cardinality(KindIds(ts[i], "call"))), "result")
             = KindIds(ts[i], "call")
  BY <1>2, AnswersFollow
<1>6. \A k \in 1 .. Len(ts[i]) : ts[i][k].kind = "result" =>
        /\ i > 1 /\ ts[i][k].of \in KindIds(ts[i - 1], "call")
        /\ \A j \in 1 .. k : ts[i][j].kind = "result"
  BY <1>2, ResultTurn
<1>7. DOMAIN ts[i] = 1 .. Len(ts[i])
  BY <1>3
<1> QED
  BY <1>4, <1>5, <1>6, <1>7 DEF TurnGood

-----------------------------------------------------------------------------
(* Calls and answers through the Runs                                      *)

\* Where the messages end that Fix makes of one.
Reach(ms, p) == At(Kepts(ms), p) + Len(Kepts(ms)[p])

\* A message that stays is the first of them.
LEMMA PlaceReach ==
  ASSUME NEW n \in Nat, NEW ms \in Seq(Proper(n)), NEW p \in 1 .. Len(ms), ~Orphan(ms, p)
  PROVE  Place(ms, p) \in Nat /\ Reach(ms, p) \in Nat /\ Place(ms, p) <= Reach(ms, p)
<1>1. /\ Kepts(ms) \in Seq(Seq(Proper(n))) /\ Len(Kepts(ms)) = Len(ms)
      /\ Kepts(ms)[p] = Kept(ms, p)
  BY FixType
<1>2. At(Kepts(ms), p) \in Nat
  <2>1. p \in 1 .. Len(Kepts(ms)) + 1
    BY <1>1
  <2> QED
    BY <1>1, <2>1, AtStep
<1>3. Kepts(ms)[p] = <<ms[p]>> \o FlattenSeq(Fills(ms, p))
  BY <1>1, KeptIs DEF Orphan
<1>4. ms[p] \in Proper(n) /\ FlattenSeq(Fills(ms, p)) \in Seq(Proper(n))
  BY MessageAt, FillsType
<1>5. Len(Kepts(ms)[p]) = Len(FlattenSeq(Fills(ms, p))) + 1
  BY <1>3, <1>4, Behind1
<1>6. Len(FlattenSeq(Fills(ms, p))) \in Nat
  BY <1>4, LenProperties
<1> QED
  BY <1>2, <1>5, <1>6 DEF Place, Reach

\* Each message of a fixed history is from the stretch of one message.
LEMMA FixSpan ==
  ASSUME NEW n \in Nat, NEW ms \in Seq(Proper(n)), NEW x \in 1 .. Len(Fix(ms))
  PROVE  \E p \in 1 .. Len(ms) :
           /\ ~Orphan(ms, p) /\ Place(ms, p) <= x /\ x <= Reach(ms, p)
           /\ \/ x = Place(ms, p) /\ Fix(ms)[x] = ms[p]
              \/ \E k \in 1 .. Len(ms[p].calls) :
                   /\ Len(Filled(ms, p, k)) = 1 /\ x = FillPlace(ms, p, k)
                   /\ Fix(ms)[x] = Tool(ms[p].calls[k], 0)
<1>1. PICK p \in 1 .. Len(ms) :
        /\ ~Orphan(ms, p)
        /\ \/ x = Place(ms, p) /\ Fix(ms)[x] = ms[p]
           \/ \E k \in 1 .. Len(ms[p].calls) :
                /\ Len(Filled(ms, p, k)) = 1 /\ x = FillPlace(ms, p, k)
                /\ Fix(ms)[x] = Tool(ms[p].calls[k], 0)
  BY FixHasOnly
<1>2. /\ Kepts(ms) \in Seq(Seq(Proper(n))) /\ Len(Kepts(ms)) = Len(ms)
      /\ Kepts(ms)[p] = Kept(ms, p) /\ Fix(ms) \in Seq(Proper(n))
  BY FixType
<1>3. At(Kepts(ms), p) \in Nat /\ Place(ms, p) \in 1 .. Len(Fix(ms)) /\ Len(Fix(ms)) \in Nat
  <2>1. p \in 1 .. Len(Kepts(ms)) + 1 /\ Len(Fix(ms)) \in Nat
    BY <1>2
  <2> QED
    BY <1>1, <1>2, <2>1, AtStep, FixHas
<1>4. Place(ms, p) <= Reach(ms, p)
  BY <1>1, PlaceReach
<1>5. CASE x = Place(ms, p) /\ Fix(ms)[x] = ms[p]
  BY <1>1, <1>3, <1>4, <1>5
<1>6. CASE \E k \in 1 .. Len(ms[p].calls) :
             /\ Len(Filled(ms, p, k)) = 1 /\ x = FillPlace(ms, p, k)
             /\ Fix(ms)[x] = Tool(ms[p].calls[k], 0)
  <2>1. PICK k \in 1 .. Len(ms[p].calls) :
          /\ Len(Filled(ms, p, k)) = 1 /\ x = FillPlace(ms, p, k)
          /\ Fix(ms)[x] = Tool(ms[p].calls[k], 0)
    BY <1>6
  <2>2. Place(ms, p) < FillPlace(ms, p, k) /\ FillPlace(ms, p, k) <= Reach(ms, p)
    BY <1>1, <2>1, FixHas DEF Reach
  <2>3. Place(ms, p) <= x /\ x <= Reach(ms, p)
    BY <1>3, <2>1, <2>2
  <2> QED
    BY <1>1, <1>6, <2>3
<1> QED
  BY <1>1, <1>5, <1>6

\* The stretches are in the order of the messages.
LEMMA FixApart ==
  ASSUME NEW n \in Nat, NEW ms \in Seq(Proper(n)), NEW p \in 1 .. Len(ms), NEW q \in 1 .. Len(ms),
         p < q
  PROVE  Reach(ms, p) \in Nat /\ Place(ms, p) \in Nat /\ Place(ms, q) \in Nat
         /\ Reach(ms, p) < Place(ms, q)
<1>1. Kepts(ms) \in Seq(Seq(Proper(n))) /\ Len(Kepts(ms)) = Len(ms)
  BY FixType
<1>2. p \in 1 .. Len(Kepts(ms)) /\ q \in 1 .. Len(Kepts(ms))
  BY <1>1
<1>3. /\ At(Kepts(ms), p) \in Nat /\ At(Kepts(ms), q) \in Nat /\ Len(Kepts(ms)[p]) \in Nat
      /\ At(Kepts(ms), p) + Len(Kepts(ms)[p]) <= At(Kepts(ms), q)
  BY <1>1, <1>2, AtMono
<1> QED
  BY <1>3 DEF Reach, Place

\* With unique calls, a call that nothing answers gets its placeholder.
LEMMA FilledWhen ==
  ASSUME NEW n \in Nat, NEW ms \in Seq(Proper(n)), UniqueCalls(ms), NEW p \in 1 .. Len(ms),
         NEW k \in 1 .. Len(ms[p].calls), ms[p].calls[k] \notin AnsweredIds(ms)
  PROVE  Len(Filled(ms, p, k)) = 1
<1> DEFINE c == ms[p].calls[k]
           a == SubSeq(ms, 1, p - 1)
           s == SubSeq(ms[p].calls, 1, k - 1)
<1>1. Len(ms) \in Nat /\ ms[p].calls \in Seq(Ids) /\ Len(ms[p].calls) \in Nat
  BY MessageAt, LenProperties
<1>2. p - 1 \in Nat /\ k - 1 \in Nat /\ p - 1 <= Len(ms) /\ k - 1 <= Len(ms[p].calls) /\ 0 \in Nat
      /\ 0 <= p - 1 /\ 0 <= k - 1 /\ 0 + 1 = 1 /\ (p - 1) - 0 = p - 1 /\ (k - 1) - 0 = k - 1
  BY <1>1
<1>3. a \in Seq(Proper(n)) /\ Len(a) = p - 1 /\ \A i \in 1 .. p - 1 : a[i] = ms[i]
  <2> DEFINE u == p - 1
  <2>1. u \in Nat /\ 0 <= u /\ u <= Len(ms) /\ u - 0 = u
    BY <1>2
  <2> HIDE DEF u
  <2>2. /\ SubSeq(ms, 0 + 1, u) \in Seq(Proper(n)) /\ Len(SubSeq(ms, 0 + 1, u)) = u - 0
        /\ \A i \in 1 .. u - 0 : SubSeq(ms, 0 + 1, u)[i] = ms[0 + i]
    BY <1>2, <2>1, PartOf
  <2>3. \A i \in 1 .. u : 0 + i = i
    BY <2>1
  <2>4. \A i \in 1 .. u : SubSeq(ms, 1, u)[i] = ms[i]
    BY <1>2, <2>1, <2>2, <2>3
  <2>5. SubSeq(ms, 1, u) \in Seq(Proper(n)) /\ Len(SubSeq(ms, 1, u)) = u
    BY <1>2, <2>1, <2>2
  <2> QED
    BY <2>4, <2>5 DEF u
<1>4. s \in Seq(Ids) /\ Len(s) = k - 1 /\ \A i \in 1 .. k - 1 : s[i] = ms[p].calls[i]
  <2> DEFINE u == k - 1
             cs == ms[p].calls
  <2>1. u \in Nat /\ 0 <= u /\ u <= Len(cs) /\ u - 0 = u /\ cs \in Seq(Ids)
    BY <1>1, <1>2
  <2> HIDE DEF u, cs
  <2>2. /\ SubSeq(cs, 0 + 1, u) \in Seq(Ids) /\ Len(SubSeq(cs, 0 + 1, u)) = u - 0
        /\ \A i \in 1 .. u - 0 : SubSeq(cs, 0 + 1, u)[i] = cs[0 + i]
    BY <1>2, <2>1, PartOf
  <2>3. \A i \in 1 .. u : 0 + i = i
    BY <2>1
  <2>4. \A i \in 1 .. u : SubSeq(cs, 1, u)[i] = cs[i]
    BY <1>2, <2>1, <2>2, <2>3
  <2>5. SubSeq(cs, 1, u) \in Seq(Ids) /\ Len(SubSeq(cs, 1, u)) = u
    BY <1>2, <2>1, <2>2
  <2> QED
    BY <2>4, <2>5 DEF u, cs
<1> HIDE DEF a, s
<1>5. c \notin CalledIds(a)
  <2> SUFFICES ASSUME c \in CalledIds(a) PROVE FALSE
    OBVIOUS
  <2>0. \A i : i \in CalledIds(a) <=>
          \E r \in 1 .. Len(a) : \E l \in 1 .. Len(a[r].calls) : i = a[r].calls[l]
    BY <1>3, IdsAt
  <2>1. PICK i \in 1 .. Len(a) : \E l \in 1 .. Len(a[i].calls) : c = a[i].calls[l]
    BY <2>0
  <2>2. a[i] = ms[i] /\ i \in 1 .. Len(ms) /\ i # p
    BY <1>1, <1>2, <1>3, <2>1
  <2>3. PICK l \in 1 .. Len(ms[i].calls) : c = ms[i].calls[l]
    BY <2>1, <2>2
  <2> QED
    BY <2>2, <2>3 DEF UniqueCalls
<1>6. c \notin ToSet(s)
  <2> SUFFICES ASSUME c \in ToSet(s) PROVE FALSE
    OBVIOUS
  <2>1. PICK l \in 1 .. Len(s) : c = s[l]
    BY <1>4, ToSetIs
  <2>2. l \in 1 .. Len(ms[p].calls) /\ l # k /\ c = ms[p].calls[l]
    BY <1>1, <1>2, <1>4, <2>1
  <2> QED
    BY <2>2 DEF UniqueCalls
<1>7. Filled(ms, p, k) = <<Tool(c, 0)>>
  BY <1>5, <1>6 DEF Filled, a, s
<1> QED
  BY <1>7

\* A placeholder is behind its call.
LEMMA FillBehind ==
  ASSUME NEW n \in Nat, NEW ms \in Seq(Proper(n)), NEW p \in 1 .. Len(ms),
         NEW k \in 1 .. Len(ms[p].calls), Len(Filled(ms, p, k)) = 1, ~Orphan(ms, p)
  PROVE  /\ Place(ms, p) \in 1 .. Len(Fix(ms)) /\ FillPlace(ms, p, k) \in 1 .. Len(Fix(ms))
         /\ Behind(Fix(ms), Place(ms, p), FillPlace(ms, p, k))
<1> DEFINE y == Place(ms, p)
           x == FillPlace(ms, p, k)
           f == Fix(ms)
<1>1. /\ y \in 1 .. Len(f) /\ f[y] = ms[p] /\ x \in 1 .. Len(f) /\ y < x /\ x <= Reach(ms, p)
  BY FixHas DEF Reach
<1>2. Len(f) \in Nat /\ y \in Nat /\ x \in Nat /\ ms[p].calls \in Seq(Ids)
  <2>1. f \in Seq(Proper(n))
    BY FixType
  <2>2. Len(f) \in Nat
    BY <2>1, LenProperties
  <2> HIDE DEF f, x, y
  <2> QED
    BY <1>1, <2>2, MessageAt
<1> HIDE DEF x, y, f
<1>3. ASSUME NEW z \in y + 1 .. x
      PROVE  f[z].role = "tool" /\ f[z].id \in ToSet(f[y].calls)
  <2>1. z \in 1 .. Len(f) /\ y < z /\ z <= Reach(ms, p) /\ z \in Nat
    <3>1. Reach(ms, p) \in Nat
      BY PlaceReach
    <3> QED
      BY <1>1, <1>2, <3>1
  <2>2. PICK r \in 1 .. Len(ms) :
           /\ Place(ms, r) <= z /\ z <= Reach(ms, r)
           /\ \/ z = Place(ms, r) /\ f[z] = ms[r]
              \/ \E l \in 1 .. Len(ms[r].calls) : f[z] = Tool(ms[r].calls[l], 0)
    BY <2>1, FixSpan DEF f
  <2>3. r = p
    <3>1. CASE r < p
      <4>1. Reach(ms, r) \in Nat /\ Reach(ms, r) < y
        BY <3>1, FixApart DEF y
      <4> QED
        BY <1>2, <2>1, <2>2, <4>1
    <3>2. CASE p < r
      <4>1. Reach(ms, p) \in Nat /\ Place(ms, r) \in Nat /\ Reach(ms, p) < Place(ms, r)
        BY <3>2, FixApart
      <4> QED
        BY <2>1, <2>2, <4>1
    <3> QED
      BY <3>1, <3>2
  <2>4. PICK l \in 1 .. Len(ms[p].calls) : f[z] = Tool(ms[p].calls[l], 0)
    <3>1. z # y
      BY <1>2, <2>1
    <3> QED
      BY <2>2, <2>3, <3>1 DEF y
  <2>5. ms[p].calls[l] \in ToSet(f[y].calls)
    BY <1>1, <1>2, <2>4, ToSetIs
  <2> QED
    BY <2>4, <2>5, MadeFields
<1>4. Behind(f, y, x)
  BY <1>1, <1>3 DEF Behind
<1> QED
  BY <1>1, <1>4 DEF x, y, f

\* Messages behind each other stay so.
LEMMA PlaceBehind ==
  ASSUME NEW n \in Nat, NEW ms \in Seq(Proper(n)), NEW p \in 1 .. Len(ms), NEW q \in 1 .. Len(ms),
         Behind(ms, p, q)
  PROVE  /\ ~Orphan(ms, p) /\ ~Orphan(ms, q)
         /\ Place(ms, p) \in 1 .. Len(Fix(ms)) /\ Fix(ms)[Place(ms, p)] = ms[p]
         /\ Place(ms, q) \in 1 .. Len(Fix(ms)) /\ Fix(ms)[Place(ms, q)] = ms[q]
         /\ Behind(Fix(ms), Place(ms, p), Place(ms, q))
<1> DEFINE y == Place(ms, p)
           x == Place(ms, q)
           f == Fix(ms)
<1>1. p < q /\ (\A z \in p + 1 .. q : ms[z].role = "tool" /\ ms[z].id \in ToSet(ms[p].calls))
      /\ Len(ms) \in Nat
  BY LenProperties DEF Behind
<1>2. ms[p].calls \in Seq(Ids) /\ ms[p].role # "tool" /\ ms[q].id \in ToSet(ms[p].calls)
  <2>1. q \in p + 1 .. q
    BY <1>1
  <2>2. ms[p].calls \in Seq(Ids) /\ ms[q].id \in ToSet(ms[p].calls)
    BY <1>1, <2>1, MessageAt
  <2>3. PICK j \in 1 .. Len(ms[p].calls) : ms[q].id = ms[p].calls[j]
    BY <2>2, ToSetIs
  <2>4. ms[p].calls # <<>>
    BY <2>2, <2>3, EmptySeq
  <2>5. ms[p].role = "assistant"
    BY <2>4, MessageAt
  <2> QED
    BY <2>2, <2>5
<1>3. ~Orphan(ms, p) /\ ~Orphan(ms, q)
  <2>1. PICK j \in 1 .. Len(ms[p].calls) : ms[q].id = ms[p].calls[j]
    BY <1>2, ToSetIs
  <2>2. ms[q].id \in CalledIds(ms)
    BY <2>1, IdsAt
  <2> QED
    BY <1>2, <2>2 DEF Orphan
<1>4. y \in 1 .. Len(f) /\ f[y] = ms[p] /\ x \in 1 .. Len(f) /\ f[x] = ms[q]
  BY <1>3, FixHas
<1>5. y \in Nat /\ x \in Nat /\ Reach(ms, p) \in Nat /\ Reach(ms, p) < x /\ Len(f) \in Nat /\ y < x
  <2>1. f \in Seq(Proper(n))
    BY FixType
  <2>2. Len(f) \in Nat
    BY <2>1, LenProperties
  <2>3. Reach(ms, p) \in Nat /\ y \in Nat /\ x \in Nat /\ Reach(ms, p) < x
    BY <1>1, FixApart
  <2>5. y <= Reach(ms, p)
    BY <1>3, PlaceReach
  <2> HIDE DEF x, y, f
  <2> QED
    BY <2>2, <2>3, <2>5
<1> HIDE DEF x, y, f
<1>6. ASSUME NEW z \in y + 1 .. x
      PROVE  f[z].role = "tool" /\ f[z].id \in ToSet(f[y].calls)
  <2>1. z \in 1 .. Len(f) /\ z \in Nat /\ y < z /\ z <= x
    BY <1>4, <1>5
  <2>2. PICK r \in 1 .. Len(ms) :
           /\ Place(ms, r) <= z /\ z <= Reach(ms, r)
           /\ \/ z = Place(ms, r) /\ f[z] = ms[r]
              \/ \E l \in 1 .. Len(ms[r].calls) : f[z] = Tool(ms[r].calls[l], 0)
    BY <2>1, FixSpan DEF f
  <2>3. ~ (r < p)
    <3> SUFFICES ASSUME r < p PROVE FALSE
      OBVIOUS
    <3>1. Reach(ms, r) \in Nat /\ Reach(ms, r) < y
      BY FixApart DEF y
    <3> QED
      BY <1>5, <2>1, <2>2, <3>1
  <2>4. ~ (q < r)
    <3> SUFFICES ASSUME q < r PROVE FALSE
      OBVIOUS
    <3>1. /\ Reach(ms, q) \in Nat /\ Place(ms, r) \in Nat /\ Reach(ms, q) < Place(ms, r)
      BY FixApart
    <3>2. x <= Reach(ms, q)
      BY <1>3, PlaceReach DEF x
    <3> QED
      BY <1>5, <2>1, <2>2, <3>1, <3>2
  <2>5. r \in Nat /\ p \in Nat /\ q \in Nat
    BY <1>1
  <2>6. CASE r = p
    <3>1. z # y
      BY <1>5, <2>1
    <3>2. PICK l \in 1 .. Len(ms[p].calls) : f[z] = Tool(ms[p].calls[l], 0)
      BY <2>2, <2>6, <3>1 DEF y
    <3>3. ms[p].calls[l] \in ToSet(f[y].calls)
      BY <1>2, <1>4, <3>2, ToSetIs
    <3> QED
      BY <3>2, <3>3, MadeFields
  <2>7. CASE r # p
    <3>1. r \in p + 1 .. q
      BY <2>3, <2>4, <2>5, <2>7
    <3>2. ms[r].role = "tool" /\ ms[r].id \in ToSet(ms[p].calls)
      BY <1>1, <3>1
    <3>3. ms[r].calls = <<>>
      BY <3>2, MessageAt
    <3>4. Len(ms[r].calls) = 0
      BY <3>3
    <3>5. f[z] = ms[r]
      BY <2>2, <3>4
    <3> QED
      BY <1>4, <3>2, <3>5
  <2> QED
    BY <2>6, <2>7
<1>7. Behind(f, y, x)
  BY <1>5, <1>6 DEF Behind
<1> QED
  BY <1>3, <1>4, <1>7 DEF x, y, f

\* No two messages answer the same call.
OneAnswer(ms) ==
  \A p, q \in 1 .. Len(ms) :
    ms[p].role = "tool" /\ ms[q].role = "tool" /\ ms[p].id = ms[q].id => p = q

\* A call is answered behind its message.
HasAnswer(ms, p, k) ==
  \E q \in 1 .. Len(ms) : Behind(ms, p, q) /\ ms[q].id = ms[p].calls[k]

\* What Fix makes of an answer or of a call: it is unique, and behind or before the other.
LEMMA FixAnswersOnce ==
  ASSUME NEW n \in Nat, NEW ms \in Seq(Proper(n)), UniqueCalls(ms), OneAnswer(ms)
  PROVE  OneAnswer(Fix(ms))
<1> DEFINE f == Fix(ms)
<1>1. ASSUME NEW x \in 1 .. Len(f), f[x].role = "tool"
      PROVE  \E p \in 1 .. Len(ms) :
               \/ x = Place(ms, p) /\ f[x] = ms[p] /\ ms[p].role = "tool"
                  /\ f[x].id \in AnsweredIds(ms)
               \/ \E k \in 1 .. Len(ms[p].calls) :
                    /\ x = FillPlace(ms, p, k) /\ f[x].id = ms[p].calls[k]
                    /\ f[x].id \notin AnsweredIds(ms)
  <2>1. PICK p \in 1 .. Len(ms) :
          \/ x = Place(ms, p) /\ f[x] = ms[p]
          \/ \E k \in 1 .. Len(ms[p].calls) :
               /\ Len(Filled(ms, p, k)) = 1 /\ x = FillPlace(ms, p, k)
               /\ f[x] = Tool(ms[p].calls[k], 0)
    BY FixHasOnly
  <2> HIDE DEF f
  <2>2. CASE x = Place(ms, p) /\ f[x] = ms[p]
    <3>1. f[x].id \in AnsweredIds(ms)
      BY <1>1, <2>2, IdsAt
    <3> QED
      BY <1>1, <2>2, <3>1
  <2>3. CASE \E k \in 1 .. Len(ms[p].calls) :
               /\ Len(Filled(ms, p, k)) = 1 /\ x = FillPlace(ms, p, k)
               /\ f[x] = Tool(ms[p].calls[k], 0)
    <3>1. PICK k \in 1 .. Len(ms[p].calls) :
            /\ Len(Filled(ms, p, k)) = 1 /\ x = FillPlace(ms, p, k)
            /\ f[x] = Tool(ms[p].calls[k], 0)
      BY <2>3
    <3>2. f[x].id = ms[p].calls[k] /\ ms[p].calls[k] \notin AnsweredIds(ms)
      BY <3>1, MadeFields, FilledIs
    <3> QED
      BY <3>1, <3>2
  <2> QED
    BY <2>1, <2>2, <2>3
<1> HIDE DEF f
<1>2. ASSUME NEW x \in 1 .. Len(f), NEW y \in 1 .. Len(f), f[x].role = "tool", f[y].role = "tool",
             f[x].id = f[y].id
      PROVE  x = y
  <2>1. CASE f[x].id \in AnsweredIds(ms)
    <3>1. PICK p \in 1 .. Len(ms) : x = Place(ms, p) /\ f[x] = ms[p] /\ ms[p].role = "tool"
      BY <1>1, <1>2, <2>1
    <3>2. f[y].id \in AnsweredIds(ms)
      BY <1>2, <2>1
    <3>3. PICK q \in 1 .. Len(ms) : y = Place(ms, q) /\ f[y] = ms[q] /\ ms[q].role = "tool"
      BY <1>1, <1>2, <3>2
    <3>4. ms[p].id = ms[q].id
      BY <1>2, <3>1, <3>3
    <3>5. p = q
      BY <3>1, <3>3, <3>4 DEF OneAnswer
    <3> QED
      BY <3>1, <3>3, <3>5
  <2>2. CASE f[x].id \notin AnsweredIds(ms)
    <3>1. PICK p \in 1 .. Len(ms) : \E k \in 1 .. Len(ms[p].calls) :
            x = FillPlace(ms, p, k) /\ f[x].id = ms[p].calls[k]
      BY <1>1, <1>2, <2>2
    <3>2. PICK k \in 1 .. Len(ms[p].calls) : x = FillPlace(ms, p, k) /\ f[x].id = ms[p].calls[k]
      BY <3>1
    <3>3. f[y].id \notin AnsweredIds(ms)
      BY <1>2, <2>2
    <3>4. PICK q \in 1 .. Len(ms) : \E l \in 1 .. Len(ms[q].calls) :
            y = FillPlace(ms, q, l) /\ f[y].id = ms[q].calls[l]
      BY <1>1, <1>2, <3>3
    <3>5. PICK l \in 1 .. Len(ms[q].calls) : y = FillPlace(ms, q, l) /\ f[y].id = ms[q].calls[l]
      BY <3>4
    <3>6. ms[p].calls[k] = ms[q].calls[l]
      BY <1>2, <3>2, <3>5
    <3>7. p = q /\ k = l
      BY <3>2, <3>5, <3>6 DEF UniqueCalls
    <3> QED
      BY <3>2, <3>5, <3>7
  <2> QED
    BY <2>1, <2>2
<1>3. OneAnswer(f)
  BY <1>2 DEF OneAnswer
<1> QED
  BY <1>3 DEF f

\* Fix leaves every call answered behind its message, and nothing else answered.
LEMMA FixPairs ==
  ASSUME NEW n \in Nat, NEW ms \in Seq(Proper(n)), UniqueCalls(ms), OneAnswer(ms),
         \A q \in 1 .. Len(ms) : ms[q].role = "tool" /\ ms[q].id \in CalledIds(ms) =>
           \E p \in 1 .. Len(ms) : Behind(ms, p, q)
  PROVE  Paired(Fix(ms))
<1> DEFINE f == Fix(ms)
<1>1. OneAnswer(f) /\ f \in Seq(Proper(n))
  BY FixAnswersOnce, FixType
<1>2. ASSUME NEW x \in 1 .. Len(f), f[x].role = "tool"
      PROVE  \E y \in 1 .. Len(f) : Behind(f, y, x)
  <2>1. PICK p \in 1 .. Len(ms) :
          /\ ~Orphan(ms, p)
          /\ \/ x = Place(ms, p) /\ f[x] = ms[p]
             \/ \E k \in 1 .. Len(ms[p].calls) :
                  Len(Filled(ms, p, k)) = 1 /\ x = FillPlace(ms, p, k)
    BY FixHasOnly
  <2>2. CASE x = Place(ms, p) /\ f[x] = ms[p]
    <3> HIDE DEF f
    <3>1. ms[p].role = "tool" /\ ms[p].id \in CalledIds(ms)
      BY <1>2, <2>1, <2>2 DEF Orphan
    <3>2. PICK r \in 1 .. Len(ms) : Behind(ms, r, p)
      BY <3>1
    <3>3. Place(ms, r) \in 1 .. Len(f) /\ Behind(f, Place(ms, r), x)
      BY <2>2, <3>2, PlaceBehind DEF f
    <3> QED
      BY <3>3
  <2>3. CASE \E k \in 1 .. Len(ms[p].calls) :
               Len(Filled(ms, p, k)) = 1 /\ x = FillPlace(ms, p, k)
    <3> HIDE DEF f
    <3>1. PICK k \in 1 .. Len(ms[p].calls) :
            Len(Filled(ms, p, k)) = 1 /\ x = FillPlace(ms, p, k)
      BY <2>3
    <3>2. Place(ms, p) \in 1 .. Len(f) /\ Behind(f, Place(ms, p), x)
      BY <2>1, <3>1, FillBehind DEF f
    <3> QED
      BY <3>2
  <2> QED
    BY <2>1, <2>2, <2>3
<1>3. ASSUME NEW y \in 1 .. Len(f), NEW k \in 1 .. Len(f[y].calls)
      PROVE  HasAnswer(f, y, k)
  <2>1. PICK p \in 1 .. Len(ms) :
          /\ ~Orphan(ms, p)
          /\ \/ y = Place(ms, p) /\ f[y] = ms[p]
             \/ \E l \in 1 .. Len(ms[p].calls) : f[y] = Tool(ms[p].calls[l], 0)
    BY FixHasOnly
  <2> HIDE DEF f
  <2>2. y = Place(ms, p) /\ f[y] = ms[p]
    <3> SUFFICES ASSUME NEW l \in 1 .. Len(ms[p].calls), f[y] = Tool(ms[p].calls[l], 0)
                 PROVE  FALSE
      BY <2>1
    <3>1. f[y].calls = <<>>
      BY MadeFields
    <3>2. Len(f[y].calls) = 0
      BY <3>1
    <3> QED
      BY <1>3, <3>2
  <2> DEFINE c == ms[p].calls[k]
  <2>3. k \in 1 .. Len(ms[p].calls) /\ f[y].calls[k] = c
    BY <1>3, <2>2
  <2>4. CASE c \in AnsweredIds(ms)
    <3>1. PICK q \in 1 .. Len(ms) : ms[q].role = "tool" /\ c = ms[q].id
      BY <2>4, IdsAt
    <3>2. c \in CalledIds(ms)
      BY <2>3, IdsAt
    <3> HIDE DEF c
    <3>3. PICK r \in 1 .. Len(ms) : Behind(ms, r, q)
      BY <3>1, <3>2
    <3>4. r = p
      <4>1. Len(ms) \in Nat /\ ms[r].calls \in Seq(Ids)
        BY LenProperties, MessageAt
      <4>2. q \in r + 1 .. q
        BY <3>3, <4>1 DEF Behind
      <4>3. ms[q].id \in ToSet(ms[r].calls)
        BY <3>3, <4>2 DEF Behind
      <4>4. \A v : v \in ToSet(ms[r].calls) <=>
                    \E l \in 1 .. Len(ms[r].calls) : v = ms[r].calls[l]
        BY <4>1, ToSetIs
      <4>5. PICK l \in 1 .. Len(ms[r].calls) : c = ms[r].calls[l]
        BY <3>1, <4>3, <4>4
      <4> QED
        BY <2>3, <4>5 DEF UniqueCalls, c
    <3>5. /\ Place(ms, q) \in 1 .. Len(f) /\ f[Place(ms, q)] = ms[q]
          /\ Behind(f, y, Place(ms, q))
      BY <2>2, <3>3, <3>4, PlaceBehind DEF f
    <3>6. f[Place(ms, q)].id = f[y].calls[k]
      BY <2>3, <3>1, <3>5
    <3> QED
      BY <3>5, <3>6 DEF HasAnswer
  <2>5. CASE c \notin AnsweredIds(ms)
    <3>1. Len(Filled(ms, p, k)) = 1
      BY <2>3, <2>5, FilledWhen
    <3>2. /\ FillPlace(ms, p, k) \in 1 .. Len(f) /\ f[FillPlace(ms, p, k)] = Tool(c, 0)
      BY <2>1, <2>3, <3>1, FixHas DEF f
    <3>3. Behind(f, y, FillPlace(ms, p, k))
      BY <2>1, <2>2, <2>3, <3>1, FillBehind DEF f
    <3> HIDE DEF c
    <3>4. f[FillPlace(ms, p, k)].id = f[y].calls[k]
      BY <2>3, <3>2, MadeFields
    <3> QED
      BY <3>2, <3>3, <3>4 DEF HasAnswer
  <2> QED
    BY <2>4, <2>5
<1> HIDE DEF f
<1>4. Paired(f)
  BY <1>1, <1>2, <1>3 DEF Paired, OneAnswer, HasAnswer
<1> QED
  BY <1>4 DEF f

\* The answers in a window are unique, and behind their calls or without one in it.
LEMMA WindowPairs ==
  ASSUME NEW n \in Nat, NEW b \in Seq(Proper(n)), NEW ms \in Seq(Proper(n)), NEW lo \in Nat,
         NEW hi \in Nat, NEW s \in Int, Window(b, ms, lo, hi, s), UniqueCalls(ms), OneAnswer(ms),
         \A q \in 1 .. Len(ms) : ms[q].role = "tool" => \E p \in 1 .. Len(ms) : Behind(ms, p, q)
  PROVE  /\ OneAnswer(b)
         /\ \A q \in 1 .. Len(b) : b[q].role = "tool" /\ b[q].id \in CalledIds(b) =>
              \E p \in 1 .. Len(b) : Behind(b, p, q)
<1>1. \A x \in 1 .. Len(b) : b[x].role = "tool" \/ b[x].calls # <<>> =>
        x \in lo .. hi /\ x + s \in 1 .. Len(ms) /\ b[x] = ms[x + s]
  BY DEF Window, Plain
<1>2. OneAnswer(b)
  <2> SUFFICES ASSUME NEW p \in 1 .. Len(b), NEW q \in 1 .. Len(b), b[p].role = "tool",
                      b[q].role = "tool", b[p].id = b[q].id
               PROVE  p = q
    BY DEF OneAnswer
  <2>1. /\ p + s \in 1 .. Len(ms) /\ b[p] = ms[p + s]
        /\ q + s \in 1 .. Len(ms) /\ b[q] = ms[q + s]
    BY <1>1
  <2>2. p + s = q + s
    <3> DEFINE u == p + s
               v == q + s
    <3>1. u \in 1 .. Len(ms) /\ b[p] = ms[u] /\ v \in 1 .. Len(ms) /\ b[q] = ms[v]
      BY <2>1
    <3> HIDE DEF u, v
    <3>2. u = v
      BY <3>1 DEF OneAnswer
    <3> QED
      BY <3>2 DEF u, v
  <2> QED
    BY <2>2
<1>3. ASSUME NEW q \in 1 .. Len(b), b[q].role = "tool", b[q].id \in CalledIds(b)
      PROVE  \E p \in 1 .. Len(b) : Behind(b, p, q)
  <2>1. PICK y \in 1 .. Len(b) : \E k \in 1 .. Len(b[y].calls) : b[q].id = b[y].calls[k]
    <3>1. \A i : i \in CalledIds(b) <=>
            \E y \in 1 .. Len(b) : \E k \in 1 .. Len(b[y].calls) : i = b[y].calls[k]
      BY IdsAt
    <3> QED
      BY <1>3, <3>1
  <2>2. PICK k \in 1 .. Len(b[y].calls) : b[q].id = b[y].calls[k]
    BY <2>1
  <2> DEFINE u == y + s
             v == q + s
  <2>3. Len(b) \in Nat /\ Len(ms) \in Nat /\ b[y].calls # <<>>
    <3>1. b[y].calls \in Seq(Ids)
      BY MessageAt
    <3> QED
      BY <2>2, <3>1, EmptySeq
  <2>4. /\ u \in 1 .. Len(ms) /\ b[y] = ms[u] /\ v \in 1 .. Len(ms) /\ b[q] = ms[v]
        /\ y \in lo .. hi /\ q \in lo .. hi
    BY <1>1, <1>3, <2>3
  <2>5. u \in Nat /\ v \in Nat /\ y \in Nat /\ q \in Nat /\ y = u - s /\ q = v - s
    BY <2>3, <2>4
  <2> HIDE DEF u, v
  <2>6. PICK r \in 1 .. Len(ms) : Behind(ms, r, v)
    BY <1>3, <2>4
  <2>7. r = u
    <3>1. ms[r].calls \in Seq(Ids)
      BY MessageAt
    <3>5. r < v /\ r \in Nat
      BY <2>3, <2>6 DEF Behind
    <3>6. v \in r + 1 .. v
      BY <2>5, <3>5
    <3>2. ms[v].id \in ToSet(ms[r].calls)
      BY <2>6, <3>6 DEF Behind
    <3>7. \A i : i \in ToSet(ms[r].calls) <=> \E l \in 1 .. Len(ms[r].calls) : i = ms[r].calls[l]
      BY <3>1, ToSetIs
    <3>3. PICK l \in 1 .. Len(ms[r].calls) : ms[v].id = ms[r].calls[l]
      BY <3>2, <3>7
    <3>4. k \in 1 .. Len(ms[u].calls) /\ ms[v].id = ms[u].calls[k]
      BY <2>2, <2>4
    <3>8. ms[r].calls[l] = ms[u].calls[k] /\ r \in 1 .. Len(ms) /\ u \in 1 .. Len(ms)
      BY <2>4, <3>3, <3>4
    <3> QED
      BY <3>3, <3>4, <3>8 DEF UniqueCalls
  <2>8. y < q
    <3>1. u < v
      BY <2>6, <2>7 DEF Behind
    <3> QED
      BY <2>5, <3>1
  <2>9. ASSUME NEW x \in y + 1 .. q
        PROVE  b[x].role = "tool" /\ b[x].id \in ToSet(b[y].calls)
    <3> DEFINE z == x + s
    <3>1. x \in 1 .. Len(b) /\ x \in lo .. hi /\ z \in u + 1 .. v
      BY <2>3, <2>4, <2>5
    <3>2. b[x] = ms[z]
      BY <3>1 DEF Window
    <3> HIDE DEF z
    <3>3. ms[z].role = "tool" /\ ms[z].id \in ToSet(ms[u].calls)
      BY <2>6, <2>7, <3>1 DEF Behind
    <3> QED
      BY <2>4, <3>2, <3>3
  <2>10. Behind(b, y, q)
    BY <2>8, <2>9 DEF Behind
  <2> QED
    BY <2>10
<1> QED
  BY <1>2, <1>3

\* Where the messages of a history are that one system message may have come in front of.
LEMMA FrontAt ==
  ASSUME NEW n \in Nat, NEW ns \in Seq(Proper(n)), NEW f \in Seq(Proper(n)), NEW d \in {0, 1},
         SystemFirst(ns), Len(ns) = Len(f) + d, NEW x \in 1 .. Len(ns),
         ns[x].role = "tool" \/ ns[x].calls # <<>>
  PROVE  x - d \in 1 .. Len(f)
<1>1. Len(f) \in Nat /\ Len(ns) \in Nat /\ DOMAIN ns = 1 .. Len(ns)
  OBVIOUS
<1> SUFFICES ASSUME x - d \notin 1 .. Len(f) PROVE FALSE
  OBVIOUS
<1>2. x = 1
  BY <1>1
<1>3. ns[x].role = "system" /\ ns[x] \in Proper(n)
  BY <1>1, <1>2 DEF SystemFirst
<1> QED
  BY <1>3 DEF Proper

\* It does not come between calls and answers.
LEMMA FrontPairs ==
  ASSUME NEW n \in Nat, NEW ns \in Seq(Proper(n)), NEW f \in Seq(Proper(n)), NEW d \in {0, 1},
         SystemFirst(ns), Len(ns) = Len(f) + d, \A p \in 1 .. Len(f) : Alike(ns[p + d], f[p]),
         Paired(f)
  PROVE  Paired(ns)
<1>1. Len(f) \in Nat /\ Len(ns) \in Nat /\ d \in Nat
  OBVIOUS
<1>2. ASSUME NEW x \in 1 .. Len(ns), ns[x].role = "tool" \/ ns[x].calls # <<>>
      PROVE  \E p \in 1 .. Len(f) : x = p + d
  <2>1. x - d \in 1 .. Len(f)
    BY <1>2, FrontAt
  <2> DEFINE p == x - d
  <2>2. p \in 1 .. Len(f) /\ x = p + d
    BY <1>1, <2>1
  <2> QED
    BY <2>2
<1>3. \A p \in 1 .. Len(f) : /\ p + d \in 1 .. Len(ns) /\ ns[p + d].role = f[p].role
                             /\ ns[p + d].calls = f[p].calls /\ ns[p + d].id = f[p].id
  BY <1>1 DEF Alike
<1>4. ASSUME NEW p \in 1 .. Len(f), NEW q \in 1 .. Len(f), Behind(f, p, q)
      PROVE  Behind(ns, p + d, q + d)
  <2>1. p + d < q + d
    BY <1>1, <1>4 DEF Behind
  <2>2. ASSUME NEW x \in p + d + 1 .. q + d
        PROVE  ns[x].role = "tool" /\ ns[x].id \in ToSet(ns[p + d].calls)
    <3> DEFINE z == x - d
    <3>1. z \in p + 1 .. q /\ z \in 1 .. Len(f) /\ z + d = x
      BY <1>1
    <3> HIDE DEF z
    <3>2. f[z].role = "tool" /\ f[z].id \in ToSet(f[p].calls)
      BY <1>4, <3>1 DEF Behind
    <3>3. ns[z + d].role = "tool" /\ ns[z + d].id \in ToSet(ns[p + d].calls)
      BY <1>3, <3>1, <3>2
    <3> QED
      BY <3>1, <3>3
  <2> QED
    BY <2>1, <2>2 DEF Behind
<1>5. ASSUME NEW x \in 1 .. Len(ns), NEW y \in 1 .. Len(ns), ns[x].role = "tool",
             ns[y].role = "tool", ns[x].id = ns[y].id
      PROVE  x = y
  <2>1. PICK p \in 1 .. Len(f) : x = p + d
    BY <1>2, <1>5
  <2>2. PICK q \in 1 .. Len(f) : y = q + d
    BY <1>2, <1>5
  <2>3. f[p].role = "tool" /\ f[q].role = "tool" /\ f[p].id = f[q].id
    BY <1>3, <1>5, <2>1, <2>2
  <2>4. p = q
    BY <2>3 DEF Paired
  <2> QED
    BY <2>1, <2>2, <2>4
<1>6. ASSUME NEW x \in 1 .. Len(ns), ns[x].role = "tool"
      PROVE  \E y \in 1 .. Len(ns) : Behind(ns, y, x)
  <2>1. PICK q \in 1 .. Len(f) : x = q + d
    BY <1>2, <1>6
  <2>2. f[q].role = "tool"
    BY <1>3, <1>6, <2>1
  <2>3. PICK p \in 1 .. Len(f) : Behind(f, p, q)
    BY <2>2 DEF Paired
  <2>4. Behind(ns, p + d, x)
    BY <1>4, <2>1, <2>3
  <2> QED
    BY <1>3, <2>4
<1>7. ASSUME NEW y \in 1 .. Len(ns), NEW k \in 1 .. Len(ns[y].calls)
      PROVE  \E x \in 1 .. Len(ns) : Behind(ns, y, x) /\ ns[x].id = ns[y].calls[k]
  <2>1. ns[y].calls # <<>>
    <3>1. ns[y].calls \in Seq(Ids)
      BY MessageAt
    <3> QED
      BY <1>7, <3>1, EmptySeq
  <2>2. PICK p \in 1 .. Len(f) : y = p + d
    BY <1>2, <2>1
  <2>3. ns[y].calls = f[p].calls
    BY <1>3, <2>2
  <2>4. k \in 1 .. Len(f[p].calls)
    BY <1>7, <2>3
  <2>5. PICK q \in 1 .. Len(f) : Behind(f, p, q) /\ f[q].id = f[p].calls[k]
    BY <2>4 DEF Paired
  <2>6. Behind(ns, y, q + d)
    BY <1>4, <2>2, <2>5
  <2>7. q + d \in 1 .. Len(ns) /\ ns[q + d].id = ns[y].calls[k]
    BY <1>3, <2>3, <2>5
  <2> QED
    BY <2>6, <2>7
<1> QED
  BY <1>5, <1>6, <1>7 DEF Paired

\* An assembled history calls nothing that the last one did not.
LEMMA AssemblyCalls ==
  ASSUME NEW n \in Nat, NEW ms \in Seq(Proper(n)), NEW h, NEW words, NEW lo \in Nat,
         NEW hi \in Nat, NEW s \in Int, Based(h) \in Seq(Proper(n)), OnlyPrompt(Based(h)),
         Window(Based(h), ms, lo, hi, s)
  PROVE  CalledIds(Assemble(h, words)) \subseteq CalledIds(ms)
<1> DEFINE b == Based(h)
           f == Fix(b)
           r == Assemble(h, words)
<1>1. PICK d \in {0, 1} :
           /\ r \in Seq(Proper(n)) /\ SystemFirst(r) /\ Len(r) = Len(f) + d
           /\ \A p \in 1 .. Len(f) : Alike(r[p + d], f[p])
  BY AssembledIs
<1>2. b \in Seq(Proper(n)) /\ Window(b, ms, lo, hi, s)
  OBVIOUS
<1> HIDE DEF b, r
<1>3. f \in Seq(Proper(n))
  BY <1>2, FixType
<1>4. ASSUME NEW i \in CalledIds(b) PROVE i \in CalledIds(ms)
  <2>1. PICK x \in 1 .. Len(b) : \E k \in 1 .. Len(b[x].calls) : i = b[x].calls[k]
    <3>1. \A c : c \in CalledIds(b) <=>
            \E x \in 1 .. Len(b) : \E k \in 1 .. Len(b[x].calls) : c = b[x].calls[k]
      BY <1>2, IdsAt
    <3> QED
      BY <3>1
  <2>2. PICK k \in 1 .. Len(b[x].calls) : i = b[x].calls[k]
    BY <2>1
  <2>3. b[x].calls # <<>>
    <3>1. b[x].calls \in Seq(Ids)
      BY <1>2, MessageAt
    <3> QED
      BY <2>2, <3>1, EmptySeq
  <2> DEFINE u == x + s
  <2>4. u \in 1 .. Len(ms) /\ b[x] = ms[u]
    BY <1>2, <2>3 DEF Window, Plain
  <2> HIDE DEF u
  <2>5. k \in 1 .. Len(ms[u].calls) /\ i = ms[u].calls[k]
    BY <2>2, <2>4
  <2> QED
    BY <2>4, <2>5, IdsAt
<1>5. ASSUME NEW i \in CalledIds(f) PROVE i \in CalledIds(b)
  <2>1. PICK x \in 1 .. Len(f) : \E k \in 1 .. Len(f[x].calls) : i = f[x].calls[k]
    <3>1. \A c : c \in CalledIds(f) <=>
            \E x \in 1 .. Len(f) : \E k \in 1 .. Len(f[x].calls) : c = f[x].calls[k]
      BY <1>3, IdsAt
    <3> QED
      BY <3>1
  <2>2. PICK k \in 1 .. Len(f[x].calls) : i = f[x].calls[k]
    BY <2>1
  <2>3. PICK p \in 1 .. Len(b) : f[x] = b[p] \/
          \E l \in 1 .. Len(b[p].calls) : f[x] = Tool(b[p].calls[l], 0)
    BY <1>2, FixHasOnly
  <2> HIDE DEF f
  <2>4. f[x].calls # <<>>
    <3>1. f[x].calls \in Seq(Ids)
      BY <1>3, MessageAt
    <3> QED
      BY <2>2, <3>1, EmptySeq
  <2>5. f[x] = b[p]
    BY <2>3, <2>4, MadeFields
  <2>6. k \in 1 .. Len(b[p].calls) /\ i = b[p].calls[k]
    BY <2>2, <2>5
  <2>7. \A c : c \in CalledIds(b) <=>
          \E y \in 1 .. Len(b) : \E l \in 1 .. Len(b[y].calls) : c = b[y].calls[l]
    BY <1>2, IdsAt
  <2> QED
    BY <2>6, <2>7
<1> HIDE DEF f
<1>6. ASSUME NEW i \in CalledIds(r) PROVE i \in CalledIds(f)
  <2>1. PICK x \in 1 .. Len(r) : \E k \in 1 .. Len(r[x].calls) : i = r[x].calls[k]
    <3>1. \A c : c \in CalledIds(r) <=>
            \E x \in 1 .. Len(r) : \E k \in 1 .. Len(r[x].calls) : c = r[x].calls[k]
      BY <1>1, IdsAt
    <3> QED
      BY <3>1
  <2>2. PICK k \in 1 .. Len(r[x].calls) : i = r[x].calls[k]
    BY <2>1
  <2>3. r[x].calls # <<>>
    <3>1. r[x].calls \in Seq(Ids)
      BY <1>1, MessageAt
    <3> QED
      BY <2>2, <3>1, EmptySeq
  <2> DEFINE p == x - d
  <2>4. p \in 1 .. Len(f)
    BY <1>1, <1>3, <2>3, FrontAt
  <2>5. p + d = x
    OBVIOUS
  <2> HIDE DEF p
  <2>6. r[x].calls = f[p].calls
    BY <1>1, <2>4, <2>5 DEF Alike
  <2>7. k \in 1 .. Len(f[p].calls) /\ i = f[p].calls[k]
    BY <2>2, <2>6
  <2>8. \A c : c \in CalledIds(f) <=>
          \E y \in 1 .. Len(f) : \E l \in 1 .. Len(f[y].calls) : c = f[y].calls[l]
    BY <1>3, IdsAt
  <2> QED
    BY <2>4, <2>7, <2>8
<1>7. CalledIds(r) \subseteq CalledIds(ms)
  BY <1>4, <1>5, <1>6
<1> QED
  BY <1>7 DEF r

\* What the assembly of a Run leaves is paired, whatever the last Run left open.
LEMMA AssemblyPairs ==
  ASSUME NEW n \in Nat, NEW ms \in Seq(Proper(n)), NEW h, NEW words, NEW lo \in Nat,
         NEW hi \in Nat, NEW s \in Int, Based(h) \in Seq(Proper(n)), OnlyPrompt(Based(h)),
         Window(Based(h), ms, lo, hi, s), UniqueCalls(ms), OneAnswer(ms),
         \A q \in 1 .. Len(ms) : ms[q].role = "tool" => \E p \in 1 .. Len(ms) : Behind(ms, p, q)
  PROVE  UniqueCalls(Assemble(h, words)) /\ Paired(Assemble(h, words))
<1> DEFINE b == Based(h)
           r == Assemble(h, words)
<1>1. PICK d \in {0, 1} :
           /\ r \in Seq(Proper(n)) /\ SystemFirst(r) /\ Len(r) = Len(Fix(b)) + d
           /\ \A p \in 1 .. Len(Fix(b)) : Alike(r[p + d], Fix(b)[p])
  BY AssembledIs
<1>2. UniqueCalls(r)
  BY AssemblyCarries
<1>3. b \in Seq(Proper(n)) /\ Window(b, ms, lo, hi, s)
  OBVIOUS
<1> HIDE DEF b, r
<1>4. UniqueCalls(b)
  BY <1>3, WindowCarries
<1>5. /\ OneAnswer(b)
      /\ \A q \in 1 .. Len(b) : b[q].role = "tool" /\ b[q].id \in CalledIds(b) =>
           \E p \in 1 .. Len(b) : Behind(b, p, q)
  BY <1>3, WindowPairs
<1>6. Paired(Fix(b)) /\ Fix(b) \in Seq(Proper(n))
  BY <1>3, <1>4, <1>5, FixPairs, FixType
<1>7. Paired(r)
  BY <1>1, <1>6, FrontPairs
<1> QED
  BY <1>2, <1>7 DEF r

\* Calls and answers are paired, but for the calls of the open messages.
PairedBut(ms, open) ==
  /\ OneAnswer(ms)
  /\ \A q \in 1 .. Len(ms) : ms[q].role = "tool" => \E p \in 1 .. Len(ms) : Behind(ms, p, q)
  /\ \A p \in 1 .. Len(ms) : p \in open \/ \A k \in 1 .. Len(ms[p].calls) : HasAnswer(ms, p, k)

\* While no id has come twice, only the last message may be open, and only while its calls are
\* being executed or after the Run has ended there.
PairInv ==
  /\ CalledIds(msgs) \subseteq used
  /\ ~repeated => /\ UniqueCalls(msgs)
                  /\ PairedBut(msgs, IF pc \in {"called", "over"} THEN {Len(msgs)} ELSE {})

\* PairInv of the next state, in terms of the next history.
LEMMA PairInvNext ==
  ASSUME CalledIds(msgs') \subseteq used',
         ~repeated' => /\ UniqueCalls(msgs')
                       /\ PairedBut(msgs', IF pc' \in {"called", "over"} THEN {Len(msgs')} ELSE {})
  PROVE  PairInv'
BY DEF PairInv, PairedBut, UniqueCalls, OneAnswer, HasAnswer, Behind, CalledIds, ToSet

\* Without an open message, that is being paired.
LEMMA PairedIs ==
  ASSUME NEW ms
  PROVE  Paired(ms) <=> PairedBut(ms, {})
BY DEF Paired, PairedBut, OneAnswer, HasAnswer

\* What is behind a message stays behind it when the history grows.
LEMMA BehindStays ==
  ASSUME NEW ms, NEW ns, Len(ms) \in Nat, \A x \in 1 .. Len(ms) : ns[x] = ms[x],
         NEW p \in 1 .. Len(ms), NEW q \in 1 .. Len(ms), Behind(ms, p, q)
  PROVE  Behind(ns, p, q)
<1>1. \A x \in p + 1 .. q : x \in 1 .. Len(ms)
  OBVIOUS
<1> QED
  BY <1>1 DEF Behind

\* One more message that is no answer.
LEMMA PairedAppend ==
  ASSUME NEW n \in Nat, NEW ms \in Seq(Proper(n)), NEW m \in Proper(n), m.role # "tool",
         PairedBut(ms, {})
  PROVE  /\ PairedBut(Append(ms, m), {Len(ms) + 1})
         /\ m.calls = <<>> => PairedBut(Append(ms, m), {})
<1> DEFINE ns == Append(ms, m)
           L  == Len(ms)
<1>1. /\ Len(ns) = L + 1 /\ ns[L + 1] = m /\ \A x \in 1 .. L : ns[x] = ms[x]
  BY AppendIs
<1>2. L \in Nat
  BY LenProperties
<1> HIDE DEF ns, L
<1>3. \A x \in 1 .. Len(ns) : x \in 1 .. L \/ x = L + 1
  BY <1>1, <1>2
<1>4. \A x \in 1 .. Len(ns) : ns[x].role = "tool" => x \in 1 .. L /\ ms[x].role = "tool"
  BY <1>1, <1>3
<1>5. \A x \in 1 .. L : x \in 1 .. Len(ns)
  BY <1>1, <1>2
<1>6. \A p, q \in 1 .. L : Behind(ms, p, q) => Behind(ns, p, q)
  BY <1>1, <1>2, BehindStays DEF L
<1>7. OneAnswer(ns)
  BY <1>1, <1>4 DEF PairedBut, OneAnswer, L
<1>8. ASSUME NEW q \in 1 .. Len(ns), ns[q].role = "tool"
      PROVE  \E p \in 1 .. Len(ns) : Behind(ns, p, q)
  <2>1. q \in 1 .. L /\ ms[q].role = "tool"
    BY <1>4, <1>8
  <2>2. PICK p \in 1 .. L : Behind(ms, p, q)
    BY <2>1 DEF PairedBut, L
  <2> QED
    BY <1>5, <1>6, <2>1, <2>2
<1>9. ASSUME NEW p \in 1 .. L, NEW k \in 1 .. Len(ns[p].calls)
      PROVE  HasAnswer(ns, p, k)
  <2>1. ns[p] = ms[p]
    BY <1>1
  <2>2. k \in 1 .. Len(ms[p].calls)
    BY <1>9, <2>1
  <2>3. PICK q \in 1 .. L : Behind(ms, p, q) /\ ms[q].id = ms[p].calls[k]
    BY <2>2 DEF PairedBut, HasAnswer, L
  <2>4. ns[q].id = ns[p].calls[k]
    BY <1>1, <2>1, <2>3
  <2> QED
    BY <1>5, <1>6, <2>3, <2>4 DEF HasAnswer
<1>10. PairedBut(ns, {L + 1})
  BY <1>3, <1>7, <1>8, <1>9 DEF PairedBut
<1>11. ASSUME m.calls = <<>> PROVE PairedBut(ns, {})
  <2>1. Len(ns[L + 1].calls) = 0
    BY <1>1, <1>11
  <2>2. ASSUME NEW p \in 1 .. Len(ns), NEW k \in 1 .. Len(ns[p].calls)
        PROVE  HasAnswer(ns, p, k)
    <3>1. CASE p \in 1 .. L
      BY <1>9, <3>1
    <3>2. CASE p = L + 1
      BY <2>1, <2>2, <3>2
    <3> QED
      BY <1>3, <3>1, <3>2
  <2> QED
    BY <1>7, <1>8, <2>2 DEF PairedBut
<1> QED
  BY <1>10, <1>11 DEF ns, L

\* The calls of a reply are different ones.
LEMMA CallsDiffer ==
  ASSUME NEW r \in Seq(Blocks), IsInjective(r)
  PROVE  \A i, j \in 1 .. Len(OfKind(r, "call")) :
           OfKind(r, "call")[i] = OfKind(r, "call")[j] => i = j
<1> DEFINE c == OfKind(r, "call")
<1>1. \A i \in 1 .. Len(c) : \E k \in 1 .. Len(r) :
        r[k][1] = "call" /\ c[i] = r[k][2] /\ i = At(Picked(r, "call"), k) + 1
  BY OfKindIs
<1> HIDE DEF c
<1> SUFFICES ASSUME NEW i \in 1 .. Len(c), NEW j \in 1 .. Len(c), c[i] = c[j]
             PROVE  i = j
  BY DEF c
<1>2. PICK k \in 1 .. Len(r) :
        r[k][1] = "call" /\ c[i] = r[k][2] /\ i = At(Picked(r, "call"), k) + 1
  BY <1>1
<1>3. PICK l \in 1 .. Len(r) :
        r[l][1] = "call" /\ c[j] = r[l][2] /\ j = At(Picked(r, "call"), l) + 1
  BY <1>1
<1>4. r[k] \in Blocks /\ r[l] \in Blocks /\ DOMAIN r = 1 .. Len(r)
  OBVIOUS
<1>5. r[k] = <<r[k][1], r[k][2]>> /\ r[l] = <<r[l][1], r[l][2]>>
  BY <1>4, BlockIs
<1>6. r[k] = r[l]
  BY <1>2, <1>3, <1>5
<1>7. k = l
  BY <1>4, <1>6 DEF IsInjective
<1> QED
  BY <1>2, <1>3, <1>7

\* The first history has no call yet, so its calls are paired.
LEMMA PairInit == Init => PairInv
<1> SUFFICES ASSUME Init PROVE PairInv
  OBVIOUS
<1>1. PICK words \in SUBSET UNION Skills : msgs = Assemble(<<>>, words)
  BY DEF Init
<1>2. <<>> \in Seq(Proper(0)) /\ Len(<<>>) = 0 /\ 0 \in Nat /\ \A p \in 1 .. 0 : FALSE
  BY EmptySeq
<1>3. PICK lo, hi \in Nat, s \in Int :
        /\ Based(<<>>) \in Seq(Proper(0)) /\ OnlyPrompt(Based(<<>>))
        /\ Window(Based(<<>>), <<>>, lo, hi, s)
  BY <1>2, BasedIs
<1>4. /\ UniqueCalls(<<>>) /\ OneAnswer(<<>>)
      /\ \A q \in 1 .. Len(<<>>) : <<>>[q].role = "tool" => \E p \in 1 .. Len(<<>>) : Behind(<<>>, p, q)
  BY <1>2 DEF UniqueCalls, OneAnswer
<1>5. UniqueCalls(msgs) /\ Paired(msgs)
  BY <1>1, <1>2, <1>3, <1>4, AssemblyPairs
<1>6. CalledIds(msgs) \subseteq CalledIds(<<>>)
  BY <1>1, <1>2, <1>3, AssemblyCalls
<1>7. CalledIds(<<>>) = {}
  <2>1. \A i : i \notin CalledIds(<<>>)
    BY <1>2, IdsAt
  <2> QED
    BY <2>1
<1>8. pc = "model"
  BY DEF Init
<1> QED
  BY <1>5, <1>6, <1>7, <1>8, PairedIs DEF PairInv

\* A new Run finds its history paired, whatever part of the old one it is given.
LEMMA PairTurn == ShapeInv /\ PairInv /\ NextTurn => PairInv'
<1> SUFFICES ASSUME ShapeInv, PairInv, NextTurn PROVE PairInv'
  OBVIOUS
<1>1. marks \in Nat /\ msgs \in Seq(Proper(marks)) /\ SystemFirst(msgs)
  BY HistoriesAssumption DEF ShapeInv, TypeInv
<1>2. PICK h \in Cuts(msgs), words \in SUBSET UNION Skills : msgs' = Assemble(h, words)
  BY NextTurnIs
<1>3. PICK lo, hi \in Nat, s \in Int :
        /\ Based(h) \in Seq(Proper(marks)) /\ OnlyPrompt(Based(h))
        /\ Window(Based(h), msgs, lo, hi, s)
  BY <1>1, TurnBase
<1>4. CalledIds(msgs') \subseteq used
  <2>1. CalledIds(msgs') \subseteq CalledIds(msgs)
    BY <1>1, <1>2, <1>3, AssemblyCalls
  <2> QED
    BY <2>1 DEF PairInv
<1>5. ASSUME ~repeated PROVE UniqueCalls(msgs') /\ Paired(msgs')
  BY <1>1, <1>2, <1>3, <1>5, AssemblyPairs DEF PairInv, PairedBut
<1>6. pc' = "model" /\ used' = used /\ repeated' = repeated
  BY DEF NextTurn
<1>7. /\ CalledIds(msgs') \subseteq used'
      /\ ~repeated' => UniqueCalls(msgs') /\ PairedBut(msgs', {})
  BY <1>4, <1>5, <1>6, PairedIs
<1> QED
  BY <1>6, <1>7, PairInvNext

\* A reply brings calls with fresh ids, or the provider repeats itself.
LEMMA PairReply == ASSUME NEW r \in Replies, ShapeInv, PairInv, Reply(r) PROVE PairInv'
<1> DEFINE m  == Assistant(OfKind(r, "text") # <<>>, OfKind(r, "call"))
           c  == OfKind(r, "call")
           ns == Append(msgs, m)
           L  == Len(msgs)
<1>1. marks \in Nat /\ msgs \in Seq(Proper(marks))
  BY HistoriesAssumption DEF ShapeInv, TypeInv
<1>2. msgs' = ns /\ c \in Seq(Ids) /\ r \in Seq(Blocks) /\ IsInjective(r)
  BY ReplyAppends, ReplyIs
<1>3. m \in Proper(marks) /\ m.calls = c /\ m.role = "assistant"
  <2>1. (OfKind(r, "text") # <<>>) \in BOOLEAN
    OBVIOUS
  <2>2. m \in Proper(marks)
    BY <1>1, <1>2, <2>1, Made
  <2>3. m.calls = c /\ m.role = "assistant"
    BY MadeFields
  <2> QED
    BY <2>2, <2>3
<1>4. /\ pc = "model" /\ used' = used \cup ToSet(c)
      /\ ~repeated' => ~repeated /\ used \cap ToSet(c) = {}
  BY DEF Reply
<1>5. Last(msgs').calls = <<>> => pc' = "over"
  BY DEF Reply
<1>6. Last(msgs').calls # <<>> => pc' = "called"
  BY DEF Reply
<1>7. \A i, j \in 1 .. Len(c) : c[i] = c[j] => i = j
  BY <1>2, CallsDiffer
<1> HIDE DEF m, c
<1>8. /\ ns \in Seq(Proper(marks)) /\ Len(ns) = L + 1 /\ ns[L + 1] = m /\ L \in Nat
      /\ \A x \in 1 .. L : ns[x] = msgs[x]
  BY <1>1, <1>3, AppendIs, LenProperties
<1> HIDE DEF ns
<1>9. \A x \in 1 .. Len(ns) : x \in 1 .. L \/ x = L + 1
  BY <1>8
<1>10. \A i : i \in ToSet(c) <=> \E k \in 1 .. Len(c) : i = c[k]
  BY <1>2, ToSetIs
<1>11. \A i : i \in CalledIds(msgs) <=>
         \E p \in 1 .. L : \E k \in 1 .. Len(msgs[p].calls) : i = msgs[p].calls[k]
  BY <1>1, IdsAt DEF L
<1>12. ASSUME NEW i \in CalledIds(ns) PROVE i \in used \cup ToSet(c)
  <2>1. \A a : a \in CalledIds(ns) <=>
          \E p \in 1 .. Len(ns) : \E k \in 1 .. Len(ns[p].calls) : a = ns[p].calls[k]
    BY <1>1, <1>8, IdsAt
  <2>2. PICK p \in 1 .. Len(ns) : \E k \in 1 .. Len(ns[p].calls) : i = ns[p].calls[k]
    BY <2>1
  <2>3. CASE p \in 1 .. L
    <3>1. i \in CalledIds(msgs)
      BY <1>8, <1>11, <2>2, <2>3
    <3> QED
      BY <3>1 DEF PairInv
  <2>4. CASE p = L + 1
    BY <1>3, <1>8, <1>10, <2>2, <2>4
  <2> QED
    BY <1>9, <2>3, <2>4
<1>13. ASSUME ~repeated' PROVE UniqueCalls(ns) /\ PairedBut(ns, {L + 1})
  <2>1. UniqueCalls(msgs) /\ PairedBut(msgs, {}) /\ used \cap ToSet(c) = {}
    BY <1>4, <1>13 DEF PairInv
  <2>2. PairedBut(ns, {L + 1})
    BY <1>1, <1>3, <2>1, PairedAppend DEF ns, L
  <2>3. \A p \in 1 .. L : \A k \in 1 .. Len(msgs[p].calls) : msgs[p].calls[k] \notin ToSet(c)
    BY <1>11, <2>1 DEF PairInv
  <2>4. ASSUME NEW p \in 1 .. Len(ns), NEW q \in 1 .. Len(ns), NEW k \in 1 .. Len(ns[p].calls),
               NEW l \in 1 .. Len(ns[q].calls), ns[p].calls[k] = ns[q].calls[l]
        PROVE  p = q /\ k = l
    <3>1. CASE p \in 1 .. L /\ q \in 1 .. L
      <4>1. ns[p] = msgs[p] /\ ns[q] = msgs[q]
        BY <1>8, <3>1
      <4> QED
        BY <2>1, <2>4, <3>1, <4>1 DEF UniqueCalls, L
    <3>2. CASE p \in 1 .. L /\ q = L + 1
      <4>1. ns[p] = msgs[p] /\ ns[q].calls = c
        BY <1>3, <1>8, <3>2
      <4>2. msgs[p].calls[k] = c[l] /\ l \in 1 .. Len(c) /\ k \in 1 .. Len(msgs[p].calls)
        BY <2>4, <4>1
      <4> QED
        BY <1>10, <2>3, <3>2, <4>2
    <3>3. CASE p = L + 1 /\ q \in 1 .. L
      <4>1. ns[q] = msgs[q] /\ ns[p].calls = c
        BY <1>3, <1>8, <3>3
      <4>2. msgs[q].calls[l] = c[k] /\ k \in 1 .. Len(c) /\ l \in 1 .. Len(msgs[q].calls)
        BY <2>4, <4>1
      <4> QED
        BY <1>10, <2>3, <3>3, <4>2
    <3>4. CASE p = L + 1 /\ q = L + 1
      <4>1. ns[p].calls = c /\ ns[q].calls = c
        BY <1>3, <1>8, <3>4
      <4>2. k \in 1 .. Len(c) /\ l \in 1 .. Len(c) /\ c[k] = c[l]
        BY <2>4, <4>1
      <4> QED
        BY <1>7, <3>4, <4>2
    <3> QED
      BY <1>9, <3>1, <3>2, <3>3, <3>4
  <2> QED
    BY <2>2, <2>4 DEF UniqueCalls
<1>14. CalledIds(msgs') \subseteq used'
  BY <1>2, <1>4, <1>12
<1>15. pc' \in {"called", "over"}
  BY <1>5, <1>6
<1>16. ~repeated' => /\ UniqueCalls(msgs')
                     /\ PairedBut(msgs', IF pc' \in {"called", "over"} THEN {Len(msgs')} ELSE {})
  BY <1>2, <1>8, <1>13, <1>15
<1> QED
  BY <1>14, <1>16, PairInvNext

\* A batch answers the calls that were open.
LEMMA PairBatch == ASSUME NEW images, ShapeInv, PairInv, ToolBatch(images) PROVE PairInv'
<1> DEFINE ns == msgs'
           L  == Len(msgs)
           c  == msgs[L].calls
<1>1. marks \in Nat /\ msgs \in Seq(Proper(marks)) /\ TypeInv
  BY HistoriesAssumption DEF ShapeInv, TypeInv
<1>2. /\ L \in Nat /\ L > 0 /\ Len(c) \in Nat /\ Len(ns) = L + Len(c)
      /\ \A x \in 1 .. L : ns[x] = msgs[x]
      /\ \A k \in 1 .. Len(c) :
           ns[L + k] = Tool(c[k], IF k \in images THEN marks + Nth(images, k) ELSE 0)
  BY <1>1, BatchAt
<1>3. \A k \in 1 .. Len(c) : /\ ns[L + k].role = "tool" /\ ns[L + k].id = c[k]
                             /\ ns[L + k].calls = <<>>
  BY <1>2, MadeFields
<1>4. pc = "called" /\ pc' = "answered" /\ used' = used /\ repeated' = repeated
  BY DEF ToolBatch
<1>5. c \in Seq(Ids) /\ L \in 1 .. L
  BY <1>1, <1>2, MessageAt
<1> HIDE DEF c, ns, L
<1>6. ASSUME NEW x \in 1 .. Len(ns)
      PROVE  x \in 1 .. L \/ \E k \in 1 .. Len(c) : x = L + k
  <2>1. CASE x <= L
    BY <1>2, <2>1
  <2>2. CASE ~ (x <= L)
    <3> DEFINE k == x - L
    <3>1. k \in 1 .. Len(c) /\ x = L + k
      BY <1>2, <2>2
    <3> HIDE DEF k
    <3> QED
      BY <3>1
  <2> QED
    BY <2>1, <2>2
<1>7. \A x \in 1 .. Len(ns) : \A k \in 1 .. Len(ns[x].calls) : x \in 1 .. L
  <2> SUFFICES ASSUME NEW x \in 1 .. Len(ns), NEW k \in 1 .. Len(ns[x].calls)
               PROVE  x \in 1 .. L
    OBVIOUS
  <2> SUFFICES ASSUME NEW j \in 1 .. Len(c), x = L + j PROVE FALSE
    BY <1>6
  <2>1. Len(ns[x].calls) = 0
    BY <1>3
  <2> QED
    BY <2>1
<1>8. CalledIds(ns) \subseteq used
  <2> SUFFICES ASSUME NEW i \in CalledIds(ns) PROVE i \in used
    OBVIOUS
  <2>1. ns \in Seq(Proper(marks'))
    BY ShapeBatch DEF ShapeInv, TypeInv, Proper, ns
  <2>2. marks' \in Nat
    BY ShapeBatch, HistoriesAssumption DEF ShapeInv, TypeInv
  <2>3. \A a : a \in CalledIds(ns) <=>
          \E p \in 1 .. Len(ns) : \E k \in 1 .. Len(ns[p].calls) : a = ns[p].calls[k]
    BY <2>1, <2>2, IdsAt
  <2>4. PICK p \in 1 .. Len(ns) : \E k \in 1 .. Len(ns[p].calls) : i = ns[p].calls[k]
    BY <2>3
  <2>5. p \in 1 .. L /\ ns[p] = msgs[p]
    BY <1>2, <1>7, <2>4
  <2>6. i \in CalledIds(msgs)
    BY <1>1, <2>4, <2>5, IdsAt DEF L
  <2> QED
    BY <2>6 DEF PairInv
<1>9. ASSUME ~repeated PROVE UniqueCalls(ns) /\ PairedBut(ns, {})
  <2>1. UniqueCalls(msgs) /\ PairedBut(msgs, {L})
    BY <1>4, <1>9 DEF PairInv, L
  <2>2. UniqueCalls(ns)
    <3> SUFFICES ASSUME NEW p \in 1 .. Len(ns), NEW q \in 1 .. Len(ns),
                        NEW k \in 1 .. Len(ns[p].calls), NEW l \in 1 .. Len(ns[q].calls),
                        ns[p].calls[k] = ns[q].calls[l]
                 PROVE  p = q /\ k = l
      BY DEF UniqueCalls
    <3>1. p \in 1 .. L /\ q \in 1 .. L /\ ns[p] = msgs[p] /\ ns[q] = msgs[q]
      BY <1>2, <1>7
    <3>2. /\ k \in 1 .. Len(msgs[p].calls) /\ l \in 1 .. Len(msgs[q].calls)
          /\ msgs[p].calls[k] = msgs[q].calls[l]
      BY <3>1
    <3>3. \A x, y \in 1 .. L : \A i \in 1 .. Len(msgs[x].calls), j \in 1 .. Len(msgs[y].calls) :
            msgs[x].calls[i] = msgs[y].calls[j] => x = y /\ i = j
      BY <2>1 DEF UniqueCalls, L
    <3> HIDE DEF ns, L
    <3> QED
      BY <3>1, <3>2, <3>3
  <2>3. \A p, q \in 1 .. L : Behind(msgs, p, q) => Behind(ns, p, q)
    BY <1>2, BehindStays DEF L
  <2>4. \A i : i \in ToSet(c) <=> \E k \in 1 .. Len(c) : i = c[k]
    BY <1>5, ToSetIs
  <2>5. \A x \in 1 .. L : x \in 1 .. Len(ns)
    BY <1>2
  <2>6. ASSUME NEW k \in 1 .. Len(c) PROVE L + k \in 1 .. Len(ns) /\ Behind(ns, L, L + k)
    <3>1. L + k \in 1 .. Len(ns) /\ L < L + k
      BY <1>2
    <3>2. ASSUME NEW x \in L + 1 .. L + k
          PROVE  ns[x].role = "tool" /\ ns[x].id \in ToSet(ns[L].calls)
      <4> DEFINE j == x - L
      <4>1. j \in 1 .. Len(c) /\ L + j = x
        BY <1>2
      <4> HIDE DEF j
      <4>2. ns[L + j].role = "tool" /\ ns[L + j].id = c[j]
        BY <1>3, <4>1
      <4>3. ns[L].calls = c
        BY <1>2, <1>5 DEF c
      <4> QED
        BY <2>4, <4>1, <4>2, <4>3
    <3> QED
      BY <3>1, <3>2 DEF Behind
  <2>7. \* An answer to an older call is not one to an open call.
        ASSUME NEW q \in 1 .. L, msgs[q].role = "tool", NEW k \in 1 .. Len(c) PROVE msgs[q].id # c[k]
    <3> SUFFICES ASSUME msgs[q].id = c[k] PROVE FALSE
      OBVIOUS
    <3>1. PICK p \in 1 .. L : Behind(msgs, p, q)
      BY <2>1, <2>7 DEF PairedBut, L
    <3>2. p < q /\ p \in Nat /\ q \in Nat
      BY <1>2, <3>1 DEF Behind
    <3>3. q \in p + 1 .. q
      BY <3>2
    <3>4. msgs[q].id \in ToSet(msgs[p].calls)
      BY <3>1, <3>3 DEF Behind
    <3>5. msgs[p].calls \in Seq(Ids)
      BY <1>1, MessageAt DEF L
    <3>6. \A i : i \in ToSet(msgs[p].calls) <=> \E j \in 1 .. Len(msgs[p].calls) : i = msgs[p].calls[j]
      BY <3>5, ToSetIs
    <3>7. PICK j \in 1 .. Len(msgs[p].calls) : msgs[q].id = msgs[p].calls[j]
      BY <3>4, <3>6
    <3>8. p = L
      BY <1>5, <2>1, <3>7 DEF UniqueCalls, L, c
    <3> QED
      BY <1>2, <3>2, <3>8
  <2>8. OneAnswer(ns)
    <3> SUFFICES ASSUME NEW p \in 1 .. Len(ns), NEW q \in 1 .. Len(ns), ns[p].role = "tool",
                        ns[q].role = "tool", ns[p].id = ns[q].id
                 PROVE  p = q
      BY DEF OneAnswer
    <3>1. CASE p \in 1 .. L /\ q \in 1 .. L
      <4>1. ns[p] = msgs[p] /\ ns[q] = msgs[q]
        BY <1>2, <3>1
      <4> QED
        BY <2>1, <3>1, <4>1 DEF PairedBut, OneAnswer, L
    <3>2. ASSUME p \in 1 .. L, NEW l \in 1 .. Len(c), q = L + l PROVE FALSE
      <4>1. ns[p] = msgs[p] /\ ns[q].id = c[l]
        BY <1>2, <1>3, <3>2
      <4>2. msgs[p].role = "tool" /\ msgs[p].id = c[l]
        BY <4>1
      <4> QED
        BY <2>7, <3>2, <4>2
    <3>3. ASSUME q \in 1 .. L, NEW k \in 1 .. Len(c), p = L + k PROVE FALSE
      <4>1. ns[q] = msgs[q] /\ ns[p].id = c[k]
        BY <1>2, <1>3, <3>3
      <4>2. msgs[q].role = "tool" /\ msgs[q].id = c[k]
        BY <4>1
      <4> QED
        BY <2>7, <3>3, <4>2
    <3>4. ASSUME NEW k \in 1 .. Len(c), p = L + k, NEW l \in 1 .. Len(c), q = L + l PROVE k = l
      <4>1. c[k] = c[l]
        BY <1>3, <3>4
      <4> QED
        BY <1>5, <2>1, <4>1 DEF UniqueCalls, L, c
    <3> QED
      BY <1>6, <3>1, <3>2, <3>3, <3>4
  <2>9. ASSUME NEW q \in 1 .. Len(ns), ns[q].role = "tool"
        PROVE  \E p \in 1 .. Len(ns) : Behind(ns, p, q)
    <3>1. CASE q \in 1 .. L
      <4>1. msgs[q].role = "tool"
        BY <1>2, <2>9, <3>1
      <4>2. PICK p \in 1 .. L : Behind(msgs, p, q)
        BY <2>1, <3>1, <4>1 DEF PairedBut, L
      <4> QED
        BY <2>3, <2>5, <3>1, <4>2
    <3>2. ASSUME NEW k \in 1 .. Len(c), q = L + k PROVE \E p \in 1 .. Len(ns) : Behind(ns, p, q)
      BY <1>5, <2>5, <2>6, <3>2
    <3> QED
      BY <1>6, <3>1, <3>2
  <2>10. ASSUME NEW p \in 1 .. Len(ns), NEW k \in 1 .. Len(ns[p].calls) PROVE HasAnswer(ns, p, k)
    <3>1. p \in 1 .. L /\ ns[p] = msgs[p]
      BY <1>2, <1>7, <2>10
    <3>2. k \in 1 .. Len(msgs[p].calls)
      BY <2>10, <3>1
    <3>3. CASE p = L
      <4>1. k \in 1 .. Len(c) /\ ns[p].calls[k] = c[k]
        BY <3>1, <3>2, <3>3 DEF c
      <4>2. ns[L + k].id = c[k]
        BY <1>3, <4>1
      <4>3. L + k \in 1 .. Len(ns) /\ Behind(ns, p, L + k)
        BY <2>6, <3>3, <4>1
      <4> QED
        BY <4>1, <4>2, <4>3 DEF HasAnswer
    <3>4. CASE p # L
      <4>1. PICK q \in 1 .. L : Behind(msgs, p, q) /\ msgs[q].id = msgs[p].calls[k]
        BY <2>1, <3>1, <3>2, <3>4 DEF PairedBut, HasAnswer, L
      <4>2. ns[q].id = ns[p].calls[k]
        BY <1>2, <3>1, <4>1
      <4> QED
        BY <2>3, <2>5, <3>1, <4>1, <4>2 DEF HasAnswer
    <3> QED
      BY <3>3, <3>4
  <2> QED
    BY <2>2, <2>8, <2>9, <2>10 DEF PairedBut
<1>10. /\ CalledIds(msgs') \subseteq used'
       /\ ~repeated' => UniqueCalls(msgs') /\ PairedBut(msgs', {})
  BY <1>4, <1>8, <1>9 DEF ns
<1> QED
  BY <1>4, <1>10, PairInvNext

\* One more message that answers nothing and calls nothing.
LEMMA PairPlain ==
  ASSUME ShapeInv, PairInv, pc \in {"answered", "limit", "wrap"}, NEW m \in Proper(marks),
         msgs' = Append(msgs, m), m.calls = <<>>, m.role # "tool", used' = used,
         repeated' = repeated
  PROVE  PairInv'
<1> DEFINE L  == Len(msgs)
           ns == Append(msgs, m)
<1>1. marks \in Nat /\ msgs \in Seq(Proper(marks))
  BY HistoriesAssumption DEF ShapeInv, TypeInv
<1>2. /\ ns \in Seq(Proper(marks)) /\ Len(ns) = L + 1 /\ ns[L + 1] = m /\ L \in Nat
      /\ \A x \in 1 .. L : ns[x] = msgs[x]
  BY <1>1, AppendIs, LenProperties
<1> HIDE DEF ns, L
<1>3. ASSUME NEW x \in 1 .. Len(ns), NEW k \in 1 .. Len(ns[x].calls)
      PROVE  x \in 1 .. L /\ ns[x] = msgs[x]
  <2>1. CASE x = L + 1
    <3>1. Len(ns[x].calls) = 0
      BY <1>2, <2>1
    <3> QED
      BY <1>3, <3>1
  <2>2. CASE x # L + 1
    BY <1>2, <2>2
  <2> QED
    BY <2>1, <2>2
<1>4. CalledIds(ns) \subseteq used
  <2> SUFFICES ASSUME NEW i \in CalledIds(ns) PROVE i \in used
    OBVIOUS
  <2>1. \A a : a \in CalledIds(ns) <=>
          \E p \in 1 .. Len(ns) : \E k \in 1 .. Len(ns[p].calls) : a = ns[p].calls[k]
    BY <1>1, <1>2, IdsAt
  <2>2. PICK p \in 1 .. Len(ns) : \E k \in 1 .. Len(ns[p].calls) : i = ns[p].calls[k]
    BY <2>1
  <2>3. p \in 1 .. L /\ ns[p] = msgs[p]
    BY <1>3, <2>2
  <2>4. i \in CalledIds(msgs)
    BY <1>1, <2>2, <2>3, IdsAt DEF L
  <2> QED
    BY <2>4 DEF PairInv
<1>5. ASSUME ~repeated
      PROVE  UniqueCalls(ns) /\ PairedBut(ns, {}) /\ PairedBut(ns, {Len(ns)})
  <2>1. UniqueCalls(msgs) /\ PairedBut(msgs, {})
    BY <1>5 DEF PairInv
  <2>2. PairedBut(ns, {}) /\ PairedBut(ns, {Len(ns)})
    BY <1>1, <1>2, <2>1, PairedAppend DEF ns, L
  <2> SUFFICES ASSUME NEW p \in 1 .. Len(ns), NEW q \in 1 .. Len(ns),
                      NEW k \in 1 .. Len(ns[p].calls), NEW l \in 1 .. Len(ns[q].calls),
                      ns[p].calls[k] = ns[q].calls[l]
               PROVE  p = q /\ k = l
    BY <2>2 DEF UniqueCalls
  <2>3. p \in 1 .. L /\ q \in 1 .. L /\ ns[p] = msgs[p] /\ ns[q] = msgs[q]
    BY <1>3
  <2>4. /\ k \in 1 .. Len(msgs[p].calls) /\ l \in 1 .. Len(msgs[q].calls)
        /\ msgs[p].calls[k] = msgs[q].calls[l]
    BY <2>3
  <2> QED
    BY <2>1, <2>3, <2>4 DEF UniqueCalls, L
<1>6. /\ CalledIds(msgs') \subseteq used'
      /\ ~repeated' => /\ UniqueCalls(msgs') /\ PairedBut(msgs', {})
                       /\ PairedBut(msgs', {Len(msgs')})
  BY <1>4, <1>5 DEF ns
<1> QED
  BY <1>6, PairInvNext

\* The loop hook of filetools answers nothing and calls nothing.
LEMMA PairLoop ==
  ASSUME NEW loadable \in SUBSET (1 .. marks), ShapeInv, PairInv, OnLoop(loadable)
  PROVE  PairInv'
<1> DEFINE is == FlattenSeq(Scanned(msgs, loadable))
           m  == Images(is)
<1>1. marks \in Nat /\ TypeInv
  BY HistoriesAssumption DEF ShapeInv, TypeInv
<1>2. pc = "answered" /\ pc' \in {"model", "limit"} /\ used' = used /\ repeated' = repeated
  BY DEF OnLoop
<1>3. is \in Seq(1 .. marks) /\ (msgs' = msgs \/ msgs' = Append(msgs, m))
  BY <1>1, LoopAppends
<1>4. m \in Proper(marks) /\ m.calls = <<>> /\ m.role # "tool"
  BY <1>1, <1>3, Made, MadeFields
<1>5. CASE msgs' = msgs
  <2>1. /\ CalledIds(msgs') \subseteq used'
        /\ ~repeated' => UniqueCalls(msgs') /\ PairedBut(msgs', {})
    BY <1>2, <1>5 DEF PairInv
  <2> QED
    BY <1>2, <2>1, PairInvNext
<1>6. CASE msgs' = Append(msgs, m)
  <2> HIDE DEF m
  <2> QED
    BY <1>2, <1>4, <1>6, PairPlain
<1> QED
  BY <1>3, <1>5, <1>6

\* Nor does what finalWrap adds.
LEMMA PairWrap == ASSUME ShapeInv, PairInv, Wrapping PROVE PairInv'
<1>1. pc \in {"limit", "wrap"} /\ used' = used /\ repeated' = repeated
  BY DEF Wrapping, FinalWrap, WrapReply
<1>2. PICK m \in Proper(marks) :
        msgs' = Append(msgs, m) /\ m.role \in {"user", "assistant"} /\ m.calls = <<>>
  BY WrapAppends DEF ShapeInv
<1> QED
  BY <1>1, <1>2, PairPlain

\* Wherever a Run ends, only the last message may be open.
LEMMA PairEnd == ShapeInv /\ PairInv /\ (End \/ UNCHANGED vars) => PairInv'
<1> SUFFICES ASSUME ShapeInv, PairInv, End \/ UNCHANGED vars PROVE PairInv'
  OBVIOUS
<1>1. msgs' = msgs /\ used' = used /\ repeated' = repeated /\ (pc' = pc \/ pc' = "over")
  BY DEF End, vars
<1>2. CalledIds(msgs') \subseteq used'
  BY <1>1 DEF PairInv
<1>3. ASSUME ~repeated
      PROVE  /\ UniqueCalls(msgs)
             /\ PairedBut(msgs, IF pc' \in {"called", "over"} THEN {Len(msgs)} ELSE {})
  <2>1. /\ UniqueCalls(msgs)
        /\ PairedBut(msgs, IF pc \in {"called", "over"} THEN {Len(msgs)} ELSE {})
    BY <1>3 DEF PairInv
  <2>2. PairedBut(msgs, {}) => PairedBut(msgs, {Len(msgs)})
    BY DEF PairedBut
  <2> QED
    BY <1>1, <2>1, <2>2
<1> QED
  BY <1>1, <1>2, <1>3, PairInvNext

\* What a fork is sent is paired: the snapshot leaves out the open message.
LEMMA SnapshotPaired ==
  ASSUME ShapeInv, PairInv, ~repeated, pc = "called"
  PROVE  /\ ForkMessages(ContextSnapshot(msgs)) \in Seq(Proper(marks))
         /\ Paired(ForkMessages(ContextSnapshot(msgs)))
<1> DEFINE r == ForkMessages(ContextSnapshot(msgs))
           L == Len(msgs)
<1>1. PICK j \in 1 .. L - 1 :
        /\ r \in Seq(Proper(marks)) /\ Len(r) = j + 1 /\ r[j + 1] = User
        /\ \A i \in 1 .. j : r[i] = msgs[i]
        /\ \A i \in j + 1 .. L - 1 : msgs[i].role = "user"
  BY SnapshotIs
<1>2. /\ marks \in Nat /\ msgs \in Seq(Proper(marks)) /\ L \in Nat /\ L > 0
      /\ msgs[L].role = "assistant"
  <2>1. marks \in Nat /\ msgs \in Seq(Proper(marks)) /\ msgs # <<>> /\ Last(msgs).role = "assistant"
    BY HistoriesAssumption DEF ShapeInv, TypeInv
  <2>2. Last(msgs) = msgs[Len(msgs)]
    BY DEF Last
  <2> QED
    BY <2>1, <2>2, EmptySeq
<1>3. UniqueCalls(msgs) /\ PairedBut(msgs, {L})
  BY DEF PairInv
<1>4. User.role = "user" /\ User.calls = <<>>
  BY MadeFields
<1> HIDE DEF r
<1>5. /\ j \in Nat /\ j < L
      /\ \A x \in 1 .. j : x \in 1 .. Len(r) /\ x \in 1 .. L
      /\ \A x \in 1 .. Len(r) : x \in 1 .. j \/ x = j + 1
      /\ \A x \in 1 .. L : x \in 1 .. j \/ x \in j + 1 .. L - 1 \/ x = L
  BY <1>1, <1>2
<1> HIDE DEF L
<1>6. \A x \in 1 .. Len(r) : r[x].role = "tool" => x \in 1 .. j /\ msgs[x].role = "tool"
  BY <1>1, <1>4, <1>5
<1>7. \A x \in 1 .. L : msgs[x].role = "tool" => x \in 1 .. j
  BY <1>1, <1>2, <1>5
<1>8. ASSUME NEW p \in 1 .. j, NEW q \in 1 .. j, Behind(msgs, p, q) PROVE Behind(r, p, q)
  <2>1. \A x \in p + 1 .. q : x \in 1 .. j
    BY <1>5
  <2>2. r[p] = msgs[p] /\ \A x \in p + 1 .. q : r[x] = msgs[x]
    BY <1>1, <2>1
  <2> QED
    BY <1>8, <2>2 DEF Behind
<1>9. OneAnswer(r)
  BY <1>1, <1>3, <1>5, <1>6 DEF PairedBut, OneAnswer, L
<1>10. ASSUME NEW q \in 1 .. Len(r), r[q].role = "tool"
       PROVE  \E p \in 1 .. Len(r) : Behind(r, p, q)
  <2>1. q \in 1 .. j /\ msgs[q].role = "tool" /\ q \in 1 .. L
    BY <1>5, <1>6, <1>10
  <2>2. PICK p \in 1 .. L : Behind(msgs, p, q)
    BY <1>3, <2>1 DEF PairedBut, L
  <2>3. p \in 1 .. j
    <3>1. p < q
      BY <2>2 DEF Behind
    <3> QED
      BY <1>5, <2>1, <3>1
  <2> QED
    BY <1>5, <1>8, <2>1, <2>2, <2>3
<1>11. ASSUME NEW p \in 1 .. Len(r), NEW k \in 1 .. Len(r[p].calls) PROVE HasAnswer(r, p, k)
  <2>1. p \in 1 .. j
    <3> SUFFICES ASSUME p = j + 1 PROVE FALSE
      BY <1>5
    <3>1. r[p].calls = <<>>
      BY <1>1, <1>4
    <3>2. Len(r[p].calls) = 0
      BY <3>1
    <3> QED
      BY <1>11, <3>2
  <2>2. r[p] = msgs[p] /\ p \in 1 .. L
    BY <1>1, <1>5, <2>1
  <2>3. p # L
    BY <1>2, <1>5, <2>1
  <2>4. k \in 1 .. Len(msgs[p].calls)
    BY <1>11, <2>2
  <2>5. PICK q \in 1 .. L : Behind(msgs, p, q) /\ msgs[q].id = msgs[p].calls[k]
    BY <1>3, <2>2, <2>3, <2>4 DEF PairedBut, HasAnswer, L
  <2>6. p < q /\ p \in Nat /\ q \in Nat
    BY <1>2, <2>2, <2>5 DEF Behind
  <2>7. q \in p + 1 .. q
    BY <2>6
  <2>8. msgs[q].role = "tool"
    BY <2>5, <2>7 DEF Behind
  <2>9. q \in 1 .. j
    BY <1>7, <2>8
  <2>10. r[q].id = r[p].calls[k] /\ q \in 1 .. Len(r)
    BY <1>1, <1>5, <2>2, <2>5, <2>9
  <2> QED
    BY <1>8, <2>1, <2>5, <2>9, <2>10 DEF HasAnswer
<1>12. Paired(r)
  BY <1>9, <1>10, <1>11, PairedIs DEF PairedBut
<1> QED
  BY <1>1, <1>12 DEF r

\* toAnthropic on every request of a Run or a fork, whatever a Run before left open: turns
\* alternate, and the answers to the calls of a turn are what the next one begins with.
THEOREM CallsPaired == Spec => []WellPaired
<1>1. Init => ShapeInv /\ PairInv
  BY ShapeInit, PairInit
<1>2. ASSUME ShapeInv, PairInv, [Next]_vars PROVE PairInv'
  BY <1>2, PairTurn, PairReply, PairBatch, PairLoop, PairWrap, PairEnd DEF Next, Wrapping
<1>3. ASSUME ShapeInv, PairInv PROVE WellPaired
  <2> SUFFICES ASSUME ~repeated, NEW ms \in Requests
               PROVE  \A i \in DOMAIN ToAnthropic(ms) : TurnGood(ToAnthropic(ms), i)
    BY DEF WellPaired, TurnGood
  <2>1. /\ marks \in Nat /\ msgs \in Seq(Proper(marks))
        /\ pc \in {"model", "called", "answered", "limit", "wrap", "over"}
    BY <1>3, HistoriesAssumption DEF ShapeInv, TypeInv
  <2>2. ms \in Seq(Proper(marks)) /\ Paired(ms)
    <3>1. CASE pc \in {"model", "wrap"}
      <4>1. ms = msgs
        BY <3>1 DEF Requests
      <4>2. PairedBut(msgs, {})
        BY <1>3, <3>1 DEF PairInv
      <4> QED
        BY <2>1, <4>1, <4>2, PairedIs
    <3>2. CASE pc = "called"
      <4>1. ms = ForkMessages(ContextSnapshot(msgs))
        BY <3>2 DEF Requests
      <4> QED
        BY <1>3, <3>2, <4>1, SnapshotPaired
    <3>3. CASE pc \in {"answered", "limit", "over"}
      BY <3>3 DEF Requests
    <3> QED
      BY <2>1, <3>1, <3>2, <3>3
  <2> QED
    BY <2>1, <2>2, PairedTurns
<1>4. ShapeInv /\ [Next]_vars => ShapeInv'
  BY ShapeNextTurn, ShapeReply, ShapeBatch, ShapeOnLoop, ShapeWrap, ShapeEnd DEF Next, Wrapping
<1> QED
  BY <1>1, <1>2, <1>3, <1>4, PTL DEF Spec

-----------------------------------------------------------------------------
(* What the three protocols send                                           *)

\* Sequences lie end to end on s, from one cut of g to the next.
LaidOut(S, ss, s, g) ==
  /\ ss \in Seq(Seq(S)) /\ s \in Seq(S) /\ g[1] = 0 /\ g[Len(ss) + 1] = Len(s)
  /\ \A i \in 1 .. Len(ss) : g[i + 1] = g[i] + Len(ss[i])
  /\ \A i \in 1 .. Len(ss) : \A r \in 1 .. Len(ss[i]) : ss[i][r] = s[g[i] + r]

\* They flatten to s.
LEMMA FlattenIs ==
  ASSUME NEW S, NEW ss, NEW s, NEW g, LaidOut(S, ss, s, g)
  PROVE  FlattenSeq(ss) = s
<1>0. /\ ss \in Seq(Seq(S)) /\ s \in Seq(S) /\ g[1] = 0 /\ g[Len(ss) + 1] = Len(s)
      /\ \A i \in 1 .. Len(ss) : g[i + 1] = g[i] + Len(ss[i])
      /\ \A i \in 1 .. Len(ss) : \A r \in 1 .. Len(ss[i]) : ss[i][r] = s[g[i] + r]
  BY DEF LaidOut
<1>1. Len(ss) \in Nat
  BY <1>0, LenProperties
<1>2. \A i \in 1 .. Len(ss) + 1 : At(ss, i) = g[i]
  <2> DEFINE T == {m \in Nat : m <= Len(ss) => At(ss, m + 1) = g[m + 1]}
  <2>1. 0 \in T
    <3>1. At(ss, 1) = g[1]
      BY <1>0, AtStep
    <3> QED
      BY <3>1
  <2>2. ASSUME NEW m \in Nat, m \in T
        PROVE  m + 1 \in T
    <3> SUFFICES ASSUME m + 1 <= Len(ss)
                 PROVE  At(ss, m + 1 + 1) = g[m + 1 + 1]
      OBVIOUS
    <3> DEFINE i == m + 1
    <3>1. i \in 1 .. Len(ss) /\ At(ss, i) = g[i]
      BY <1>1, <2>2
    <3> HIDE DEF i
    <3>2. At(ss, i + 1) = At(ss, i) + Len(ss[i])
      BY <1>0, <3>1, AtStep
    <3>3. g[i + 1] = g[i] + Len(ss[i])
      BY <1>0, <3>1
    <3>4. At(ss, i + 1) = g[i + 1]
      BY <3>1, <3>2, <3>3
    <3> QED
      BY <3>4 DEF i
  <2> HIDE DEF T
  <2>3. Nat \subseteq T
    BY <2>1, <2>2, NatSetInduction
  <2>4. ASSUME NEW i \in 1 .. Len(ss) + 1
        PROVE  At(ss, i) = g[i]
    <3>1. i - 1 \in T /\ i - 1 \in Nat /\ i - 1 + 1 = i /\ i - 1 <= Len(ss)
      BY <1>1, <2>3
    <3> QED
      BY <3>1 DEF T
  <2> QED
    BY <2>4
<1>3. FlattenSeq(ss) \in Seq(S) /\ Len(FlattenSeq(ss)) = Len(s)
  <2>1. Len(ss) + 1 \in 1 .. Len(ss) + 1
    BY <1>1
  <2>2. At(ss, Len(ss) + 1) = Len(s)
    BY <1>0, <1>2, <2>1
  <2> QED
    BY <1>0, <2>2, AtStep
<1>4. ASSUME NEW q \in 1 .. Len(s)
      PROVE  FlattenSeq(ss)[q] = s[q]
  <2>1. PICK i \in 1 .. Len(ss) : \E r \in 1 .. Len(ss[i]) : q = At(ss, i) + r
    BY <1>0, <1>3, FlattenHasOnly
  <2>2. PICK r \in 1 .. Len(ss[i]) : q = At(ss, i) + r
    BY <2>1
  <2>3. FlattenSeq(ss)[q] = ss[i][r]
    BY <1>0, <2>2, FlattenHas
  <2>4. At(ss, i) = g[i]
    <3>1. i \in 1 .. Len(ss) + 1
      BY <1>1
    <3> QED
      BY <1>2, <3>1
  <2> QED
    BY <1>0, <2>2, <2>3, <2>4
<1> QED
  BY <1>0, <1>3, <1>4, SeqEqual

\* Two flattened sequences, of parts with the same lengths, relate as their parts do.
LEMMA FlattenBoth ==
  ASSUME NEW S, NEW T, NEW xs \in Seq(Seq(S)), NEW ys \in Seq(Seq(T)), NEW R, Len(xs) = Len(ys),
         \A i \in 1 .. Len(xs) : Len(xs[i]) = Len(ys[i]),
         \A i \in 1 .. Len(xs) : \A r \in 1 .. Len(xs[i]) : <<xs[i][r], ys[i][r]>> \in R
  PROVE  /\ Len(FlattenSeq(xs)) = Len(FlattenSeq(ys))
         /\ \A q \in 1 .. Len(FlattenSeq(xs)) : <<FlattenSeq(xs)[q], FlattenSeq(ys)[q]>> \in R
<1>1. Len(xs) \in Nat
  BY LenProperties
<1>2. \A i \in 1 .. Len(xs) + 1 : At(xs, i) = At(ys, i)
  <2> DEFINE U == {m \in Nat : m <= Len(xs) => At(xs, m + 1) = At(ys, m + 1)}
  <2>1. 0 \in U
    <3>1. At(xs, 1) = At(ys, 1)
      BY AtStep
    <3> QED
      BY <3>1
  <2>2. ASSUME NEW m \in Nat, m \in U
        PROVE  m + 1 \in U
    <3> SUFFICES ASSUME m + 1 <= Len(xs)
                 PROVE  At(xs, m + 1 + 1) = At(ys, m + 1 + 1)
      OBVIOUS
    <3> DEFINE i == m + 1
    <3>1. i \in 1 .. Len(xs) /\ i \in 1 .. Len(ys) /\ At(xs, i) = At(ys, i)
      BY <1>1, <2>2
    <3> HIDE DEF i
    <3>2. At(xs, i + 1) = At(xs, i) + Len(xs[i]) /\ At(ys, i + 1) = At(ys, i) + Len(ys[i])
      BY <3>1, AtStep
    <3>3. At(xs, i + 1) = At(ys, i + 1)
      BY <3>1, <3>2
    <3> QED
      BY <3>3 DEF i
  <2> HIDE DEF U
  <2>3. Nat \subseteq U
    BY <2>1, <2>2, NatSetInduction
  <2>4. ASSUME NEW i \in 1 .. Len(xs) + 1
        PROVE  At(xs, i) = At(ys, i)
    <3>1. i - 1 \in U /\ i - 1 \in Nat /\ i - 1 + 1 = i /\ i - 1 <= Len(xs)
      BY <1>1, <2>3
    <3> QED
      BY <3>1 DEF U
  <2> QED
    BY <2>4
<1>3. Len(FlattenSeq(xs)) = Len(FlattenSeq(ys))
  <2>1. Len(xs) + 1 \in 1 .. Len(xs) + 1
    BY <1>1
  <2> QED
    BY <1>2, <2>1, AtStep
<1>4. ASSUME NEW q \in 1 .. Len(FlattenSeq(xs))
      PROVE  <<FlattenSeq(xs)[q], FlattenSeq(ys)[q]>> \in R
  <2>1. PICK i \in 1 .. Len(xs) : \E r \in 1 .. Len(xs[i]) : q = At(xs, i) + r
    BY FlattenHasOnly
  <2>2. PICK r \in 1 .. Len(xs[i]) : q = At(xs, i) + r
    BY <2>1
  <2>3. FlattenSeq(xs)[q] = xs[i][r]
    BY <2>2, FlattenHas
  <2>4. i \in 1 .. Len(ys) /\ r \in 1 .. Len(ys[i]) /\ i \in 1 .. Len(xs) + 1
    BY <1>1
  <2>5. FlattenSeq(ys)[At(ys, i) + r] = ys[i][r]
    BY <2>4, FlattenHas
  <2>6. FlattenSeq(ys)[q] = ys[i][r]
    BY <1>2, <2>2, <2>4, <2>5
  <2> QED
    BY <2>3, <2>6
<1> QED
  BY <1>3, <1>4

\* A flattened concatenation is the concatenation of what is flattened.
LEMMA FlattenConcat ==
  ASSUME NEW S, NEW a \in Seq(Seq(S)), NEW b \in Seq(Seq(S))
  PROVE  FlattenSeq(a \o b) = FlattenSeq(a) \o FlattenSeq(b)
<1> DEFINE ss == a \o b
           f  == FlattenSeq(a)
           h  == FlattenSeq(b)
           s  == f \o h
           A  == Len(a)
           B  == Len(b)
           g  == [i \in 1 .. A + B + 1 |-> IF i <= A + 1 THEN At(a, i) ELSE Len(f) + At(b, i - A)]
<1>1. /\ ss \in Seq(Seq(S)) /\ Len(ss) = A + B /\ A \in Nat /\ B \in Nat
      /\ \A i \in 1 .. A : ss[i] = a[i]
      /\ \A i \in 1 .. B : ss[A + i] = b[i]
  BY InFront
<1>2. f \in Seq(S) /\ h \in Seq(S) /\ Len(f) = At(a, A + 1) /\ Len(h) = At(b, B + 1)
  BY AtStep
<1>3. /\ s \in Seq(S) /\ Len(s) = Len(f) + Len(h) /\ Len(f) \in Nat /\ Len(h) \in Nat
      /\ \A i \in 1 .. Len(f) : s[i] = f[i]
      /\ \A i \in 1 .. Len(h) : s[Len(f) + i] = h[i]
  <2>1. s = f \o h
    OBVIOUS
  <2> HIDE DEF f, h, s, ss, A, B, g
  <2>3. f \in Seq(S) /\ h \in Seq(S)
    BY <1>2
  <2>2. /\ f \o h \in Seq(S) /\ Len(f \o h) = Len(f) + Len(h) /\ Len(f) \in Nat /\ Len(h) \in Nat
        /\ \A i \in 1 .. Len(f) : (f \o h)[i] = f[i]
        /\ \A i \in 1 .. Len(h) : (f \o h)[Len(f) + i] = h[i]
    BY <2>3, InFront
  <2> QED
    BY <2>1, <2>2
<1>4. /\ \A i \in 1 .. A + 1 : g[i] = At(a, i)
      /\ \A i \in 1 .. B + 1 : g[A + i] = Len(f) + At(b, i)
  <2>1. ASSUME NEW i \in 1 .. A + 1 PROVE g[i] = At(a, i)
    BY <1>1
  <2>2. ASSUME NEW i \in 1 .. B + 1 PROVE g[A + i] = Len(f) + At(b, i)
    <3>1. CASE i = 1
      <4>1. g[A + 1] = At(a, A + 1)
        BY <1>1
      <4>2. At(b, 1) = 0
        BY AtStep
      <4> QED
        BY <1>2, <1>3, <3>1, <4>1, <4>2
    <3>2. CASE i # 1
      <4> DEFINE x == A + i
      <4>1. x \in 1 .. A + B + 1 /\ ~ (x <= A + 1) /\ x - A = i
        BY <1>1, <3>2
      <4>2. g[x] = Len(f) + At(b, x - A)
        <5> HIDE DEF x
        <5> QED
          BY <4>1
      <4> QED
        BY <4>1, <4>2
    <3> QED
      BY <3>1, <3>2
  <2> QED
    BY <2>1, <2>2
<1> HIDE DEF g
<1>5. /\ At(a, 1) = 0 /\ At(b, 1) = 0
      /\ \A i \in 1 .. A + 1 : At(a, i) \in Nat
      /\ \A i \in 1 .. A : At(a, i + 1) = At(a, i) + Len(a[i])
      /\ \A i \in 1 .. B + 1 : At(b, i) \in Nat
      /\ \A i \in 1 .. B : At(b, i + 1) = At(b, i) + Len(b[i])
  BY AtStep
<1> HIDE DEF ss, f, h, s, A, B
<1>6. \A i \in 1 .. Len(ss) : i \in 1 .. A \/ \E j \in 1 .. B : i = A + j
  <2> SUFFICES ASSUME NEW i \in 1 .. Len(ss), ~ (i <= A) PROVE \E j \in 1 .. B : i = A + j
    BY <1>1
  <2> DEFINE j == i - A
  <2>1. j \in 1 .. B /\ i = A + j
    BY <1>1
  <2> QED
    BY <2>1
<1>7. g[1] = 0 /\ g[Len(ss) + 1] = Len(s)
  <2>1. 1 \in 1 .. A + 1 /\ B + 1 \in 1 .. B + 1 /\ A + (B + 1) = A + B + 1
    BY <1>1
  <2>2. g[A + (B + 1)] = Len(f) + At(b, B + 1)
    BY <1>4, <2>1
  <2> QED
    BY <1>1, <1>2, <1>3, <1>4, <1>5, <2>1, <2>2
<1>8. ASSUME NEW i \in 1 .. A
      PROVE  /\ g[i + 1] = g[i] + Len(ss[i])
             /\ \A r \in 1 .. Len(ss[i]) : ss[i][r] = s[g[i] + r]
  <2>1. i \in 1 .. A + 1 /\ i + 1 \in 1 .. A + 1
    BY <1>1
  <2>2. g[i] = At(a, i) /\ g[i + 1] = At(a, i + 1) /\ ss[i] = a[i]
    BY <1>1, <1>4, <2>1
  <2>3. ASSUME NEW r \in 1 .. Len(a[i]) PROVE a[i][r] = s[At(a, i) + r]
    <3>1. At(a, i) + r \in 1 .. Len(f) /\ f[At(a, i) + r] = a[i][r]
      BY FlattenHas DEF f, A
    <3> QED
      BY <1>3, <3>1
  <2> QED
    BY <1>5, <2>2, <2>3
<1>9. ASSUME NEW j \in 1 .. B
      PROVE  /\ g[A + j + 1] = g[A + j] + Len(ss[A + j])
             /\ \A r \in 1 .. Len(ss[A + j]) : ss[A + j][r] = s[g[A + j] + r]
  <2>1. j \in 1 .. B + 1 /\ j + 1 \in 1 .. B + 1 /\ A + (j + 1) = A + j + 1
    BY <1>1
  <2>2. g[A + j] = Len(f) + At(b, j) /\ g[A + (j + 1)] = Len(f) + At(b, j + 1) /\ ss[A + j] = b[j]
    BY <1>1, <1>4, <2>1
  <2>3. At(b, j) \in Nat /\ At(b, j + 1) = At(b, j) + Len(b[j]) /\ Len(f) \in Nat /\ Len(b[j]) \in Nat
    <3>1. b[j] \in Seq(S)
      BY DEF B
    <3> QED
      BY <1>3, <1>5, <2>1, <3>1
  <2>4. g[A + j + 1] = g[A + j] + Len(ss[A + j])
    BY <2>1, <2>2, <2>3
  <2>5. ASSUME NEW r \in 1 .. Len(b[j]) PROVE b[j][r] = s[Len(f) + At(b, j) + r]
    <3> DEFINE y == At(b, j) + r
    <3>1. y \in 1 .. Len(h) /\ h[y] = b[j][r]
      BY FlattenHas DEF h, B
    <3>2. Len(f) + At(b, j) + r = Len(f) + y
      BY <2>3
    <3> HIDE DEF y
    <3> QED
      BY <1>3, <3>1, <3>2
  <2> QED
    BY <2>2, <2>4, <2>5
<1>10. /\ \A i \in 1 .. Len(ss) : g[i + 1] = g[i] + Len(ss[i])
       /\ \A i \in 1 .. Len(ss) : \A r \in 1 .. Len(ss[i]) : ss[i][r] = s[g[i] + r]
  <2>1. ASSUME NEW i \in 1 .. Len(ss)
        PROVE  /\ g[i + 1] = g[i] + Len(ss[i])
               /\ \A r \in 1 .. Len(ss[i]) : ss[i][r] = s[g[i] + r]
    <3>1. CASE i \in 1 .. A
      BY <1>8, <3>1
    <3>2. CASE i \notin 1 .. A
      <4>1. PICK j \in 1 .. B : i = A + j
        BY <1>6, <3>2
      <4> QED
        BY <1>9, <4>1
    <3> QED
      BY <3>1, <3>2
  <2> QED
    BY <2>1
<1>11. FlattenSeq(ss) = s
  <2>1. LaidOut(S, ss, s, g)
    BY <1>1, <1>3, <1>7, <1>10 DEF LaidOut
  <2> QED
    BY <2>1, FlattenIs
<1> QED
  BY <1>11 DEF ss, s, f, h

\* Flattening twice is flattening each part first.
LEMMA FlattenTwice ==
  ASSUME NEW S, NEW its \in Seq(Seq(Seq(S))), NEW fs \in Seq(Seq(S)), Len(fs) = Len(its),
         \A i \in 1 .. Len(its) : fs[i] = FlattenSeq(its[i])
  PROVE  FlattenSeq(FlattenSeq(its)) = FlattenSeq(fs)
<1> DEFINE Q == Seq(S)
           T == {m \in Nat : m <= Len(its) => FlattenSeq(Part(its, m)) = Part(fs, m)}
<1>1. Len(its) \in Nat /\ its \in Seq(Seq(Q)) /\ fs \in Seq(Q)
  BY LenProperties
<1>2. 0 \in T
  <2>1. Part(its, 0) = <<>> /\ Part(fs, 0) = <<>>
    BY DEF Part
  <2> DEFINE e == <<>>
  <2>2. e \in Seq(Seq(S)) /\ Len(e) = 0
    BY EmptySeq
  <2> HIDE DEF e
  <2>3. \A i \in 1 .. Len(e) : e[i] = <<>>
    BY <2>2
  <2>4. FlattenSeq(e) = <<>>
    BY <2>2, <2>3, FlattenEmpties
  <2> QED
    BY <2>1, <2>4 DEF e
<1>3. ASSUME NEW m \in Nat, m \in T PROVE m + 1 \in T
  <2> SUFFICES ASSUME m + 1 <= Len(its) PROVE FlattenSeq(Part(its, m + 1)) = Part(fs, m + 1)
    OBVIOUS
  <2>1. /\ m \in 0 .. Len(its) - 1 /\ m \in 0 .. Len(fs) - 1 /\ m \in 0 .. Len(its)
        /\ m + 1 \in 1 .. Len(its) /\ FlattenSeq(Part(its, m)) = Part(fs, m)
    BY <1>1, <1>3
  <2>2. Part(fs, m + 1) = Part(fs, m) \o fs[m + 1]
    BY <1>1, <2>1, PartStep
  <2> HIDE DEF Q
  <2>3. Part(its, m + 1) = Part(its, m) \o its[m + 1] /\ Part(its, m) \in Seq(Q)
    BY <1>1, <2>1, PartStep, PartType
  <2>4. its[m + 1] \in Seq(Q)
    BY <1>1, <2>1
  <2>5. FlattenSeq(Part(its, m) \o its[m + 1]) = FlattenSeq(Part(its, m)) \o FlattenSeq(its[m + 1])
    BY <2>3, <2>4, FlattenConcat DEF Q
  <2> QED
    BY <2>1, <2>2, <2>3, <2>5
<1> HIDE DEF T
<1>4. Nat \subseteq T
  BY <1>2, <1>3, NatSetInduction
<1>5. FlattenSeq(Part(its, Len(its))) = Part(fs, Len(its))
  <2>1. Len(its) \in T
    BY <1>1, <1>4
  <2> QED
    BY <1>1, <2>1 DEF T
<1>6. FlattenSeq(fs) = Part(fs, Len(fs))
  BY PartStep
<1>7. FlattenSeq(its) = Part(its, Len(its))
  <2> HIDE DEF Q
  <2> QED
    BY <1>1, PartStep
<1> QED
  BY <1>5, <1>6, <1>7

\* Blocks of the same content.
Alikes == {x \in Bits \X Bits : x[1].kind = x[2].kind /\ x[1].of = x[2].of}

\* Blocks that are alike one by one have the same content.
LEMMA SameContent ==
  ASSUME NEW a \in Seq(Bits), NEW b \in Seq(Bits), Len(a) = Len(b),
         \A q \in 1 .. Len(a) : <<a[q], b[q]>> \in Alikes
  PROVE  Content(a) = Content(b)
<1>1. DOMAIN a = 1 .. Len(a) /\ DOMAIN b = 1 .. Len(a)
  OBVIOUS
<1>2. \A q \in 1 .. Len(a) : <<a[q].kind, a[q].of>> = <<b[q].kind, b[q].of>>
  BY DEF Alikes
<1> QED
  BY <1>1, <1>2 DEF Content

\* One sequence flattens to itself.
LEMMA FlattenOne ==
  ASSUME NEW S, NEW s \in Seq(S)
  PROVE  <<s>> \in Seq(Seq(S)) /\ FlattenSeq(<<s>>) = s
<1> DEFINE Q  == Seq(S)
           ss == <<s>>
           g  == <<0, Len(s)>>
<1>1. s \in Q /\ Len(s) \in Nat
  BY LenProperties
<1> HIDE DEF Q
<1>2. ss \in Seq(Q) /\ Len(ss) = 1 /\ ss[1] = s
  BY <1>1
<1>3. g[1] = 0 /\ g[2] = Len(s)
  OBVIOUS
<1> HIDE DEF ss, g
<1>4. \A i \in 1 .. Len(ss) : i = 1
  BY <1>2
<1>5. \A r \in 1 .. Len(s) : 0 + r = r
  BY <1>1
<1>6. LaidOut(S, ss, s, g)
  <2>1. /\ ss \in Seq(Seq(S)) /\ s \in Seq(S) /\ g[1] = 0 /\ g[Len(ss) + 1] = Len(s)
    BY <1>1, <1>2, <1>3 DEF Q
  <2>2. \A i \in 1 .. Len(ss) : g[i + 1] = g[i] + Len(ss[i])
    BY <1>1, <1>2, <1>3, <1>4
  <2>3. \A i \in 1 .. Len(ss) : \A r \in 1 .. Len(ss[i]) : ss[i][r] = s[g[i] + r]
    BY <1>2, <1>3, <1>4, <1>5
  <2> QED
    BY <2>1, <2>2, <2>3 DEF LaidOut
<1>7. FlattenSeq(ss) = s
  BY <1>6, FlattenIs
<1> QED
  BY <1>2, <1>7 DEF ss, Q

\* The turns of anthropic, laid end to end, are the blocks of the history.
LEMMA TurnsFlat ==
  ASSUME NEW n \in Nat, NEW ms \in Seq(Proper(n))
  PROVE  FlattenSeq(ToAnthropic(ms)) = Flow(ms)
<1> DEFINE w  == Flow(ms)
           ts == ToAnthropic(ms)
<1>1. w \in Seq(Bits) /\ Len(w) \in Nat
  BY FlowIs
<1>2. PICK g : Grouped(Bits, ts, w, Len(w), g)
  <2>1. ts = Merged(w)[DOMAIN w]
    BY ToAnthropicIs DEF Flow
  <2> HIDE DEF w, ts
  <2> QED
    BY <1>1, <2>1, TurnsAre
<1> HIDE DEF w, ts
<1>3. LaidOut(Bits, ts, w, g)
  BY <1>1, <1>2 DEF Grouped, LaidOut
<1>4. FlattenSeq(ts) = w
  BY <1>3, FlattenIs
<1> QED
  BY <1>4 DEF w, ts

\* What openai and responses make of a message is what anthropic makes of it, but that the answer
\* to a call has a role of its own.
Variant(m, d) == d = IF m.role = "tool" THEN <<Block("tool", "result", m.id)>> ELSE AntBlocks(m)

\* Such a message has the same blocks as the anthropic one, up to their roles.
LEMMA VariantIs ==
  ASSUME NEW n \in Nat, NEW m \in Proper(n), NEW d, Variant(m, d)
  PROVE  /\ d \in Seq(Bits) /\ Len(AntBlocks(m)) = Len(d)
         /\ \A r \in 1 .. Len(AntBlocks(m)) : <<AntBlocks(m)[r], d[r]>> \in Alikes
<1>1. AntBlocks(m) \in Seq(Bits)
  BY BlocksOfMessage
<1>2. CASE m.role # "tool"
  <2> DEFINE a == AntBlocks(m)
  <2>1. d = a /\ a \in Seq(Bits)
    BY <1>1, <1>2 DEF Variant
  <2> HIDE DEF a
  <2>2. \A r \in 1 .. Len(a) : <<a[r], d[r]>> \in Alikes
    BY <2>1 DEF Alikes
  <2> QED
    BY <2>1, <2>2 DEF a
<1>3. CASE m.role = "tool"
  <2> DEFINE b == Block("tool", "result", m.id)
             c == Block("user", "result", m.id)
             a == AntBlocks(m)
  <2>1. d = <<b>> /\ a = <<c>> /\ <<b>> \in Seq(Bits) /\ <<c>> \in Seq(Bits)
    BY <1>3, BlocksOfMessage, PartsOfMessage DEF Variant
  <2>2. <<c, b>> \in Alikes
    <3>1. m.id \in Ids \cup {None}
      BY ProperFields
    <3>2. b \in Bits /\ c \in Bits
      BY <3>1 DEF Bits, Block
    <3>3. b.kind = c.kind /\ b.of = c.of
      BY DEF Block
    <3> HIDE DEF b, c
    <3> QED
      BY <3>2, <3>3 DEF Alikes
  <2> HIDE DEF a, b, c
  <2>3. d \in Seq(Bits) /\ Len(a) = 1 /\ Len(d) = 1 /\ a[1] = c /\ d[1] = b
    BY <2>1
  <2>4. \A r \in 1 .. Len(a) : <<a[r], d[r]>> \in Alikes
    <3>1. \A r \in 1 .. Len(a) : r = 1
      BY <2>3
    <3> QED
      BY <2>2, <2>3, <3>1
  <2> QED
    BY <2>3, <2>4 DEF a
<1> QED
  BY <1>2, <1>3

\* So is what they make of a history.
LEMMA VariantContent ==
  ASSUME NEW n \in Nat, NEW ms \in Seq(Proper(n)), NEW ds \in Seq(Seq(Bits)), Len(ds) = Len(ms),
         \A p \in 1 .. Len(ms) : Variant(ms[p], ds[p])
  PROVE  Content(Flow(ms)) = Content(FlattenSeq(ds))
<1>1. /\ Pieces(ms) \in Seq(Seq(Bits)) /\ Len(Pieces(ms)) = Len(ms)
      /\ \A p \in 1 .. Len(ms) : Pieces(ms)[p] = AntBlocks(ms[p]) /\ ms[p] \in Proper(n)
  BY FlowIs
<1> DEFINE xs == Pieces(ms)
<1>2. /\ \A p \in 1 .. Len(xs) : Len(xs[p]) = Len(ds[p])
      /\ \A p \in 1 .. Len(xs) : \A r \in 1 .. Len(xs[p]) : <<xs[p][r], ds[p][r]>> \in Alikes
  <2> SUFFICES ASSUME NEW p \in 1 .. Len(ms)
               PROVE  /\ Len(xs[p]) = Len(ds[p])
                      /\ \A r \in 1 .. Len(xs[p]) : <<xs[p][r], ds[p][r]>> \in Alikes
    BY <1>1
  <2>1. ms[p] \in Proper(n) /\ xs[p] = AntBlocks(ms[p]) /\ Variant(ms[p], ds[p])
    BY <1>1
  <2> HIDE DEF xs
  <2> QED
    BY <2>1, VariantIs
<1>3. xs \in Seq(Seq(Bits)) /\ Len(xs) = Len(ds)
  BY <1>1
<1> HIDE DEF xs
<1>4. /\ Len(FlattenSeq(xs)) = Len(FlattenSeq(ds))
      /\ \A q \in 1 .. Len(FlattenSeq(xs)) : <<FlattenSeq(xs)[q], FlattenSeq(ds)[q]>> \in Alikes
  BY <1>2, <1>3, FlattenBoth
<1>5. FlattenSeq(xs) \in Seq(Bits) /\ FlattenSeq(ds) \in Seq(Bits)
  BY <1>3, AtStep
<1>6. Content(FlattenSeq(xs)) = Content(FlattenSeq(ds))
  BY <1>4, <1>5, SameContent
<1> QED
  BY <1>6 DEF xs, Flow

\* The items of a message, and the blocks of its chat message.
LEMMA ItemsAre ==
  ASSUME NEW n \in Nat, NEW m \in Proper(n)
  PROVE  ItemsOf(m) \in Seq(Seq(Bits)) /\ Variant(m, FlattenSeq(ItemsOf(m)))
<1>1. m.role \in {"system", "user", "assistant", "tool"} /\ m.text \in BOOLEAN
  BY ProperFields
<1>2. AntBlocks(m) \in Seq(Bits)
  BY BlocksOfMessage
<1>3. CASE m.role = "system"
  <2> DEFINE e == <<>>
  <2>1. ItemsOf(m) = e /\ AntBlocks(m) = e
    BY <1>3 DEF ItemsOf, AntBlocks
  <2>2. e \in Seq(Seq(Bits)) /\ Len(e) = 0
    BY EmptySeq
  <2>3. m.role # "tool"
    BY <1>3
  <2> HIDE DEF e
  <2>4. \A i \in 1 .. Len(e) : e[i] = <<>>
    BY <2>2
  <2>5. FlattenSeq(e) = <<>>
    BY <2>2, <2>4, FlattenEmpties
  <2> QED
    BY <2>1, <2>2, <2>3, <2>5 DEF Variant, e
<1>4. CASE m.role = "user"
  <2>1. ItemsOf(m) = << AntBlocks(m) >> /\ m.role # "tool"
    BY <1>4 DEF ItemsOf, AntBlocks
  <2> QED
    BY <1>2, <2>1, FlattenOne DEF Variant
<1>5. CASE m.role = "tool"
  <2>1. ItemsOf(m) = << <<Block("tool", "result", m.id)>> >>
    BY <1>5 DEF ItemsOf
  <2>2. <<Block("tool", "result", m.id)>> \in Seq(Bits)
    BY PartsOfMessage
  <2> QED
    BY <1>5, <2>1, <2>2, FlattenOne DEF Variant
<1>6. CASE m.role = "assistant"
  <2> DEFINE T == TextOf(m, "assistant")
             C == CallsOf(m)
             a == IF m.text THEN <<T>> ELSE <<>>
             b == [k \in DOMAIN m.calls |-> <<C[k]>>]
  <2>1. ItemsOf(m) = a \o b /\ AntBlocks(m) = T \o C /\ m.role # "tool"
    BY <1>6 DEF ItemsOf, AntBlocks
  <2>2. /\ T \in Seq(Bits) /\ C \in Seq(Bits) /\ Len(C) = Len(m.calls)
        /\ T = IF m.text THEN <<Block("assistant", "text", None)>> ELSE <<>>
        /\ DOMAIN m.calls = 1 .. Len(m.calls)
    BY PartsOfMessage, ProperFields
  <2>3. a \in Seq(Seq(Bits)) /\ FlattenSeq(a) = T
    <3>1. CASE m.text
      <4>1. a = <<T>>
        BY <3>1
      <4> HIDE DEF a, T
      <4> QED
        BY <2>2, <4>1, FlattenOne
    <3>2. CASE ~m.text
      <4> DEFINE e == <<>>
      <4>1. a = e /\ T = e
        BY <2>2, <3>2
      <4>2. e \in Seq(Seq(Bits)) /\ Len(e) = 0
        BY EmptySeq
      <4> HIDE DEF e
      <4>3. \A i \in 1 .. Len(e) : e[i] = <<>>
        BY <4>2
      <4>4. FlattenSeq(e) = <<>>
        BY <4>2, <4>3, FlattenEmpties
      <4> HIDE DEF a, T
      <4> QED
        BY <4>1, <4>2, <4>4 DEF e
    <3> QED
      BY <3>1, <3>2
  <2>4. b \in Seq(Seq(Bits)) /\ FlattenSeq(b) = C
    <3> DEFINE l == Len(m.calls)
    <3>1. b = [k \in 1 .. l |-> <<C[k]>>] /\ C \in Seq(Bits) /\ Len(C) = l /\ l \in Nat
      BY <2>2, ProperFields
    <3> HIDE DEF b, C, l
    <3>2. \A k \in 1 .. l : C[k] \in Bits
      BY <3>1
    <3>3. \A k \in 1 .. l : <<C[k]>> \in Seq(Bits)
      BY <3>2
    <3> DEFINE Q == Seq(Bits)
    <3>4. \A k \in 1 .. l : <<C[k]>> \in Q
      BY <3>3
    <3> HIDE DEF Q
    <3>5. b \in [1 .. l -> Q]
      BY <3>1, <3>4
    <3>6. b \in Seq(Q) /\ Len(b) = l
      BY <3>1, <3>5
    <3>7. \A k \in 1 .. l : b[k] = <<C[k]>>
      BY <3>1
    <3>8. FlattenSeq(b) = C
      BY <3>1, <3>6, <3>7, FlattenSingles DEF Q
    <3> QED
      BY <3>6, <3>8 DEF Q
  <2> HIDE DEF a, b, T, C
  <2>5. FlattenSeq(a \o b) = T \o C
    BY <2>3, <2>4, FlattenConcat
  <2> DEFINE Q == Seq(Bits)
  <2>6. a \in Seq(Q) /\ b \in Seq(Q)
    BY <2>3, <2>4
  <2> HIDE DEF Q
  <2>7. a \o b \in Seq(Q)
    BY <2>6, InFront
  <2> QED
    BY <2>1, <2>5, <2>7 DEF Variant, Q
<1> QED
  BY <1>1, <1>3, <1>4, <1>5, <1>6

\* A chat message of openai is such a variant of its message.
LEMMA ChatIs ==
  ASSUME NEW n \in Nat, NEW ms \in Seq(Proper(n)), NEW p \in 1 .. Len(ms)
  PROVE  Variant(ms[p], ChatBlocks(ToChat(ms)[p]))
<1> DEFINE m  == ms[p]
           cm == ToChat(ms)[p]
           T  == TextOf(m, m.role)
           I  == ImagesOf(m)
           C  == CallsOf(m)
<1>1. m \in Proper(n) /\ p \in DOMAIN ms
  OBVIOUS
<1>2. cm = [role |-> m.role, calls |-> m.calls, id |-> m.id,
            content |-> T \o (IF m.role = "user" THEN I ELSE <<>>)]
  BY <1>1 DEF ToChat
<1>3. /\ cm.role = m.role /\ cm.calls = m.calls /\ cm.id = m.id
      /\ cm.content = T \o (IF m.role = "user" THEN I ELSE <<>>)
  <2> HIDE DEF cm
  <2> QED
    BY <1>2
<1>4. m.role \in {"system", "user", "assistant", "tool"}
  BY <1>1, ProperFields
<1> SUFFICES Variant(m, ChatBlocks(cm))
  OBVIOUS
<1> HIDE DEF m, cm
<1>5. CallsOf(cm) = C
  BY <1>3 DEF CallsOf
<1>6. T \in Seq(Bits) /\ I \in Seq(Bits) /\ C \in Seq(Bits) /\ Len(C) = Len(m.calls)
  BY <1>1, <1>4, PartsOfMessage
<1> HIDE DEF C
<1>7. CASE m.role = "system"
  BY <1>3, <1>7 DEF ChatBlocks, Variant, AntBlocks
<1>8. CASE m.role = "tool"
  BY <1>3, <1>8 DEF ChatBlocks, Variant
<1>9. CASE m.role = "user"
  <2>1. C = <<>>
    <3>1. m.calls = <<>>
      BY <1>1, <1>9 DEF Proper
    <3>2. Len(C) = 0
      BY <1>6, <3>1
    <3> QED
      BY <1>6, <3>2, EmptySeq
  <2>2. ChatBlocks(cm) = (T \o I) \o C
    BY <1>3, <1>5, <1>9 DEF ChatBlocks
  <2>3. T \o I \in Seq(Bits)
    <3> HIDE DEF T, I
    <3> QED
      BY <1>6, InFront
  <2>4. (T \o I) \o C = T \o I
    BY <2>1, <2>3, ConcatEmptySeq
  <2>5. AntBlocks(m) = T \o I /\ m.role # "tool"
    BY <1>9 DEF AntBlocks
  <2> QED
    BY <2>2, <2>4, <2>5 DEF Variant
<1>10. CASE m.role = "assistant"
  <2>1. ChatBlocks(cm) = (T \o <<>>) \o C
    BY <1>3, <1>5, <1>10 DEF ChatBlocks
  <2>2. T \o <<>> = T
    <3> HIDE DEF T
    <3> QED
      BY <1>6, ConcatEmptySeq
  <2>3. AntBlocks(m) = T \o C /\ m.role # "tool"
    BY <1>10 DEF AntBlocks, C
  <2> QED
    BY <2>1, <2>2, <2>3 DEF Variant
<1> QED
  BY <1>4, <1>7, <1>8, <1>9, <1>10

\* The three send the content of the blocks of a history.
LEMMA SentIs ==
  ASSUME NEW n \in Nat, NEW ms \in Seq(Proper(n))
  PROVE  Sent(ms) = {Content(Flow(ms))}
<1> DEFINE its == [p \in DOMAIN ms |-> ItemsOf(ms[p])]
           fs  == [p \in DOMAIN ms |-> FlattenSeq(ItemsOf(ms[p]))]
           cs  == [p \in DOMAIN ms |-> ChatBlocks(ToChat(ms)[p])]
           l   == Len(ms)
           Q   == Seq(Bits)
           P   == Seq(Q)
<1>1. l \in Nat /\ DOMAIN ms = 1 .. l /\ \A p \in 1 .. l : ms[p] \in Proper(n)
  BY LenProperties
<1>2. \A p \in 1 .. l : /\ ItemsOf(ms[p]) \in P /\ Variant(ms[p], FlattenSeq(ItemsOf(ms[p])))
                        /\ Variant(ms[p], ChatBlocks(ToChat(ms)[p]))
  BY <1>1, ItemsAre, ChatIs
<1>3. \A p \in 1 .. l : FlattenSeq(ItemsOf(ms[p])) \in Q /\ ChatBlocks(ToChat(ms)[p]) \in Q
  BY <1>1, <1>2, VariantIs
<1> HIDE DEF l, Q, P
<1>4. its \in Seq(P) /\ Len(its) = l /\ \A p \in 1 .. l : its[p] = ItemsOf(ms[p])
  <2>1. its \in [1 .. l -> P]
    BY <1>1, <1>2
  <2> QED
    BY <1>1, <2>1
<1>5. fs \in Seq(Q) /\ Len(fs) = l /\ \A p \in 1 .. l : fs[p] = FlattenSeq(ItemsOf(ms[p]))
  <2>1. fs \in [1 .. l -> Q]
    BY <1>1, <1>3
  <2> QED
    BY <1>1, <2>1
<1>6. cs \in Seq(Q) /\ Len(cs) = l /\ \A p \in 1 .. l : cs[p] = ChatBlocks(ToChat(ms)[p])
  <2>1. cs \in [1 .. l -> Q]
    BY <1>1, <1>3
  <2> QED
    BY <1>1, <2>1
<1>7. ToInput(ms) = FlattenSeq(its)
  BY DEF ToInput
<1>8. Sent(ms) = {Content(FlattenSeq(ToAnthropic(ms))), Content(FlattenSeq(ToInput(ms))),
                  Content(FlattenSeq(cs))}
  BY DEF Sent
<1> HIDE DEF its, fs, cs
<1>9. FlattenSeq(FlattenSeq(its)) = FlattenSeq(fs)
  <2>1. /\ its \in Seq(Seq(Seq(Bits))) /\ fs \in Seq(Seq(Bits)) /\ Len(fs) = Len(its)
        /\ \A i \in 1 .. Len(its) : fs[i] = FlattenSeq(its[i])
    BY <1>4, <1>5 DEF Q, P
  <2> QED
    BY <2>1, FlattenTwice
<1>10. Content(Flow(ms)) = Content(FlattenSeq(fs))
  <2>1. fs \in Seq(Seq(Bits)) /\ Len(fs) = Len(ms) /\ \A p \in 1 .. Len(ms) : Variant(ms[p], fs[p])
    BY <1>2, <1>5 DEF Q, l
  <2> QED
    BY <2>1, VariantContent
<1>11. Content(Flow(ms)) = Content(FlattenSeq(cs))
  <2>1. cs \in Seq(Seq(Bits)) /\ Len(cs) = Len(ms) /\ \A p \in 1 .. Len(ms) : Variant(ms[p], cs[p])
    BY <1>2, <1>6 DEF Q, l
  <2> QED
    BY <2>1, VariantContent
<1>12. FlattenSeq(ToAnthropic(ms)) = Flow(ms)
  BY TurnsFlat
<1> QED
  BY <1>7, <1>8, <1>9, <1>10, <1>11, <1>12

\* Every request has one content, whichever protocol carries it.
THEOREM ProtocolsSayTheSame == Spec => []ProtocolsAgree
<1>1. ASSUME ShapeInv PROVE ProtocolsAgree
  <2> SUFFICES ASSUME NEW ms \in Requests PROVE Cardinality(Sent(ms)) = 1
    BY DEF ProtocolsAgree
  <2>1. /\ marks \in Nat /\ msgs \in Seq(Proper(marks))
        /\ pc \in {"model", "called", "answered", "limit", "wrap", "over"}
    BY <1>1, HistoriesAssumption DEF ShapeInv, TypeInv
  <2>2. ms \in Seq(Proper(marks))
    <3>1. CASE pc \in {"model", "wrap"}
      <4>1. ms = msgs
        BY <3>1 DEF Requests
      <4> QED
        BY <2>1, <4>1
    <3>2. CASE pc = "called"
      <4>1. ms = ForkMessages(ContextSnapshot(msgs))
        BY <3>2 DEF Requests
      <4>2. PICK j \in 1 .. Len(msgs) - 1 : ForkMessages(ContextSnapshot(msgs)) \in Seq(Proper(marks))
        BY <1>1, <3>2, SnapshotIs
      <4> QED
        BY <4>1, <4>2
    <3>3. CASE pc \in {"answered", "limit", "over"}
      BY <3>3 DEF Requests
    <3> QED
      BY <2>1, <3>1, <3>2, <3>3
  <2>3. Sent(ms) = {Content(Flow(ms))}
    BY <2>1, <2>2, SentIs
  <2> QED
    BY <2>3, FS_Singleton
<1> QED
  BY <1>1, ShapeHolds, PTL

\* The calls among the blocks of a reply, as the content of a request.
LEMMA CallsEchoed ==
  ASSUME NEW r \in Seq(Blocks)
  PROVE  FlattenSeq([k \in DOMAIN r |-> IF r[k][1] = "call" THEN <<r[k]>> ELSE <<>>])
           = [k \in DOMAIN OfKind(r, "call") |-> <<"call", OfKind(r, "call")[k]>>]
<1> DEFINE xs == Picked(r, "call")
           ys == [k \in DOMAIN r |-> IF r[k][1] = "call" THEN <<r[k]>> ELSE <<>>]
           l  == Len(r)
           I  == Ids \cup {None}
           R  == {<<i, <<"call", i>> >> : i \in I}
           c  == OfKind(r, "call")
           e  == [k \in DOMAIN c |-> <<"call", c[k]>>]
<1>1. /\ xs \in Seq(Seq(I)) /\ Len(xs) = l /\ c = FlattenSeq(xs) /\ c \in Seq(I)
  BY OfKindIs
<1>2. /\ l \in Nat /\ DOMAIN r = 1 .. l
      /\ \A k \in 1 .. l : r[k] \in Blocks /\ r[k][2] \in I /\ r[k] = <<r[k][1], r[k][2]>>
  BY LenProperties, BlockIs
<1>3. \A k \in 1 .. l : xs[k] = IF r[k][1] = "call" THEN <<r[k][2]>> ELSE <<>>
  BY <1>2 DEF Picked
<1>4. \A k \in 1 .. l : ys[k] = IF r[k][1] = "call" THEN <<r[k]>> ELSE <<>>
  BY <1>2
<1>5. ys \in Seq(Seq(Blocks)) /\ Len(ys) = l
  <2> DEFINE Q == Seq(Blocks)
  <2>1. \A k \in 1 .. l : <<r[k]>> \in Q /\ <<>> \in Q
    BY <1>2, EmptySeq
  <2> HIDE DEF Q
  <2>2. ys \in [1 .. l -> Q]
    BY <1>2, <2>1
  <2> HIDE DEF ys, l
  <2>3. ys \in Seq(Q) /\ Len(ys) = l
    BY <1>2, <2>2
  <2> QED
    BY <2>3 DEF Q
<1> HIDE DEF xs, ys, l, I
<1>6. \A k \in 1 .. l : Len(xs[k]) = Len(ys[k])
  <2> SUFFICES ASSUME NEW k \in 1 .. l PROVE Len(xs[k]) = Len(ys[k])
    OBVIOUS
  <2>1. CASE r[k][1] = "call"
    <3>1. xs[k] = <<r[k][2]>> /\ ys[k] = <<r[k]>>
      BY <1>3, <1>4, <2>1
    <3> QED
      BY <3>1
  <2>2. CASE r[k][1] # "call"
    BY <1>3, <1>4, <2>2
  <2> QED
    BY <2>1, <2>2
<1>7. \A k \in 1 .. l : \A j \in 1 .. Len(xs[k]) : <<xs[k][j], ys[k][j]>> \in R
  <2> SUFFICES ASSUME NEW k \in 1 .. l, NEW j \in 1 .. Len(xs[k]) PROVE <<xs[k][j], ys[k][j]>> \in R
    OBVIOUS
  <2>1. CASE r[k][1] = "call"
    <3>1. xs[k] = <<r[k][2]>> /\ ys[k] = <<r[k]>> /\ r[k] = <<"call", r[k][2]>> /\ r[k][2] \in I
      BY <1>2, <1>3, <1>4, <2>1
    <3>2. j = 1
      BY <3>1
    <3>3. xs[k][j] = r[k][2] /\ ys[k][j] = <<"call", r[k][2]>>
      BY <3>1, <3>2
    <3> QED
      BY <3>1, <3>3
  <2>2. CASE r[k][1] # "call"
    <3>1. xs[k] = <<>>
      BY <1>3, <2>2
    <3>2. Len(xs[k]) = 0
      BY <3>1
    <3> QED
      BY <3>2
  <2> QED
    BY <2>1, <2>2
<1>8. /\ Len(FlattenSeq(xs)) = Len(FlattenSeq(ys))
      /\ \A q \in 1 .. Len(FlattenSeq(xs)) : <<FlattenSeq(xs)[q], FlattenSeq(ys)[q]>> \in R
  <2>1. /\ Len(xs) = Len(ys) /\ \A i \in 1 .. Len(xs) : Len(xs[i]) = Len(ys[i])
        /\ \A i \in 1 .. Len(xs) : \A j \in 1 .. Len(xs[i]) : <<xs[i][j], ys[i][j]>> \in R
    BY <1>1, <1>5, <1>6, <1>7
  <2> HIDE DEF R
  <2> QED
    BY <1>1, <1>5, <2>1, FlattenBoth
<1> DEFINE f == FlattenSeq(ys)
<1>9. f \in Seq(Blocks) /\ Len(f) = Len(c)
  BY <1>1, <1>5, <1>8, AtStep
<1> HIDE DEF c
<1>10. \A q \in 1 .. Len(c) : f[q] = <<"call", c[q]>>
  <2> SUFFICES ASSUME NEW q \in 1 .. Len(c) PROVE f[q] = <<"call", c[q]>>
    OBVIOUS
  <2>1. <<c[q], f[q]>> \in R
    BY <1>1, <1>8
  <2> HIDE DEF f
  <2>2. PICK i \in I : <<c[q], f[q]>> = <<i, <<"call", i>> >>
    BY <2>1
  <2>3. c[q] = i /\ f[q] = <<"call", i>>
    BY <2>2
  <2> QED
    BY <2>3
<1> HIDE DEF f
<1>11. f = e
  <2>1. DOMAIN f = 1 .. Len(c) /\ DOMAIN c = 1 .. Len(c)
    BY <1>1, <1>9
  <2>2. f = [q \in 1 .. Len(c) |-> f[q]]
    BY <1>9, <2>1
  <2> QED
    BY <1>10, <2>1, <2>2
<1> QED
  BY <1>11 DEF f, ys, c

\* The content of blocks has one pair for each of them.
LEMMA ContentIs ==
  ASSUME NEW a \in Seq(Bits)
  PROVE  /\ Content(a) \in Seq({<<b.kind, b.of>> : b \in Bits}) /\ Len(Content(a)) = Len(a)
         /\ \A q \in 1 .. Len(a) : Content(a)[q] = <<a[q].kind, a[q].of>>
<1> DEFINE K == {<<b.kind, b.of>> : b \in Bits}
           l == Len(a)
<1>1. l \in Nat /\ DOMAIN a = 1 .. l /\ \A q \in 1 .. l : a[q] \in Bits
  BY LenProperties
<1>2. \A q \in 1 .. l : <<a[q].kind, a[q].of>> \in K
  BY <1>1
<1> HIDE DEF K, l
<1>3. Content(a) = [q \in 1 .. l |-> <<a[q].kind, a[q].of>>]
  BY <1>1 DEF Content
<1>4. Content(a) \in [1 .. l -> K]
  BY <1>2, <1>3
<1>5. Content(a) \in Seq(K) /\ Len(Content(a)) = l
  BY <1>1, <1>4
<1> QED
  BY <1>3, <1>5 DEF K, l

\* The content of two sequences of blocks, one behind the other.
LEMMA ContentConcat ==
  ASSUME NEW a \in Seq(Bits), NEW b \in Seq(Bits)
  PROVE  Content(a \o b) = Content(a) \o Content(b)
<1> DEFINE K == {<<x.kind, x.of>> : x \in Bits}
           s == a \o b
           u == Content(a)
           v == Content(b)
           A == Len(a)
           B == Len(b)
<1>1. /\ s \in Seq(Bits) /\ Len(s) = A + B /\ A \in Nat /\ B \in Nat
      /\ \A i \in 1 .. A : s[i] = a[i]
      /\ \A i \in 1 .. B : s[A + i] = b[i]
  BY InFront
<1>2. /\ u \in Seq(K) /\ Len(u) = A /\ \A q \in 1 .. A : u[q] = <<a[q].kind, a[q].of>>
      /\ v \in Seq(K) /\ Len(v) = B /\ \A q \in 1 .. B : v[q] = <<b[q].kind, b[q].of>>
  BY ContentIs
<1> HIDE DEF s, u, v, A, B, K
<1>3. /\ Content(s) \in Seq(K) /\ Len(Content(s)) = A + B
      /\ \A q \in 1 .. A + B : Content(s)[q] = <<s[q].kind, s[q].of>>
  BY <1>1, ContentIs DEF K
<1>4. /\ u \o v \in Seq(K) /\ Len(u \o v) = A + B
      /\ \A i \in 1 .. A : (u \o v)[i] = u[i]
      /\ \A i \in 1 .. B : (u \o v)[A + i] = v[i]
  <2>1. u \in Seq(K) /\ v \in Seq(K)
    BY <1>2
  <2>2. /\ u \o v \in Seq(K) /\ Len(u \o v) = Len(u) + Len(v)
        /\ \A i \in 1 .. Len(u) : (u \o v)[i] = u[i]
        /\ \A i \in 1 .. Len(v) : (u \o v)[Len(u) + i] = v[i]
    BY <2>1, InFront
  <2>3. Len(u) = A /\ Len(v) = B
    BY <1>2
  <2> QED
    BY <2>2, <2>3
<1>5. ASSUME NEW q \in 1 .. A + B PROVE Content(s)[q] = (u \o v)[q]
  <2>1. CASE q <= A
    <3>1. q \in 1 .. A
      BY <1>1, <2>1
    <3>2. s[q] = a[q]
      BY <1>1, <3>1
    <3>3. u[q] = <<a[q].kind, a[q].of>>
      BY <1>2, <3>1
    <3>4. (u \o v)[q] = u[q]
      BY <1>4, <3>1
    <3>5. Content(s)[q] = <<s[q].kind, s[q].of>>
      BY <1>3
    <3> QED
      BY <3>2, <3>3, <3>4, <3>5
  <2>2. CASE ~ (q <= A)
    <3> DEFINE j == q - A
    <3>1. j \in 1 .. B /\ A + j = q
      BY <1>1, <2>2
    <3> HIDE DEF j
    <3>2. (u \o v)[A + j] = <<b[j].kind, b[j].of>> /\ s[A + j] = b[j]
      BY <1>1, <1>2, <1>4, <3>1
    <3>3. (u \o v)[q] = <<b[j].kind, b[j].of>> /\ s[q] = b[j]
      BY <3>1, <3>2
    <3> QED
      BY <1>3, <3>3
  <2> QED
    BY <2>1, <2>2
<1>6. Content(s) = u \o v
  BY <1>3, <1>4, <1>5, SeqEqual
<1> QED
  BY <1>6 DEF s, u, v

\* What the request says of a reply that has just come.
LEMMA EchoIs ==
  ASSUME NEW n \in Nat, NEW t \in BOOLEAN, NEW c \in Seq(Ids), Assistant(t, c) \in Proper(n)
  PROVE  Sent(<<Assistant(t, c)>>) =
           {(IF t THEN << <<"text", None>> >> ELSE <<>>) \o [k \in DOMAIN c |-> <<"call", c[k]>>]}
<1> DEFINE m  == Assistant(t, c)
           ms == <<m>>
           T  == TextOf(m, "assistant")
           C  == CallsOf(m)
<1>1. m \in Proper(n) /\ m.role = "assistant" /\ m.text = t /\ m.calls = c
  BY MadeFields
<1> HIDE DEF m
<1>2. ms \in Seq(Proper(n)) /\ Len(ms) = 1 /\ DOMAIN ms = {1} /\ ms[1] = m
  BY <1>1
<1>3. Sent(ms) = {Content(Flow(ms))}
  <2> HIDE DEF ms
  <2> QED
    BY <1>2, SentIs
<1>4. AntBlocks(m) = T \o C
  BY <1>1 DEF AntBlocks
<1>5. /\ T \in Seq(Bits) /\ C \in Seq(Bits) /\ AntBlocks(m) \in Seq(Bits) /\ Len(C) = Len(c)
      /\ T = IF t THEN <<Block("assistant", "text", None)>> ELSE <<>>
      /\ \A k \in 1 .. Len(c) : C[k] = Block("assistant", "call", c[k])
  <2>1. /\ TextOf(m, "assistant") \in Seq(Bits) /\ CallsOf(m) \in Seq(Bits)
        /\ TextOf(m, "assistant") = IF m.text THEN <<Block("assistant", "text", None)>> ELSE <<>>
        /\ Len(CallsOf(m)) = Len(m.calls)
        /\ \A k \in 1 .. Len(m.calls) : CallsOf(m)[k] = Block("assistant", "call", m.calls[k])
    BY <1>1, PartsOfMessage
  <2>2. AntBlocks(m) \in Seq(Bits)
    BY <1>1, BlocksOfMessage
  <2> QED
    BY <1>1, <2>1, <2>2
<1> HIDE DEF T, C
<1>6. Flow(ms) = AntBlocks(m)
  <2>1. Pieces(ms) = <<AntBlocks(ms[1])>>
    BY <1>2 DEF Pieces
  <2>2. Pieces(ms) = <<AntBlocks(m)>>
    BY <1>2, <2>1
  <2> QED
    BY <1>5, <2>2, FlattenOne DEF Flow
<1>7. Content(T) = IF t THEN << <<"text", None>> >> ELSE <<>>
  <2>1. CASE t
    <3> DEFINE b == Block("assistant", "text", None)
    <3>1. T = <<b>> /\ b.kind = "text" /\ b.of = None
      BY <1>5, <2>1 DEF Block
    <3> HIDE DEF b
    <3>2. Content(T) = [k \in {1} |-> <<"text", None>>]
      BY <3>1 DEF Content
    <3>3. << <<"text", None>> >> = [k \in {1} |-> <<"text", None>>]
      OBVIOUS
    <3> QED
      BY <2>1, <3>2, <3>3
  <2>2. CASE ~t
    <3>1. T = <<>> /\ Len(Content(T)) = Len(T) /\ Content(T) \in Seq({<<b.kind, b.of>> : b \in Bits})
      BY <1>5, <2>2, ContentIs
    <3>2. Len(Content(T)) = 0
      BY <3>1, EmptySeq
    <3>3. Content(T) = <<>>
      BY <3>1, <3>2, EmptySeq
    <3> QED
      BY <2>2, <3>3
  <2> QED
    BY <2>1, <2>2
<1>8. Content(C) = [k \in DOMAIN c |-> <<"call", c[k]>>]
  <2>1. DOMAIN C = 1 .. Len(c) /\ DOMAIN c = 1 .. Len(c)
    BY <1>5
  <2>2. ASSUME NEW k \in 1 .. Len(c) PROVE C[k].kind = "call" /\ C[k].of = c[k]
    <3>1. C[k] = Block("assistant", "call", c[k])
      BY <1>5
    <3> QED
      BY <3>1 DEF Block
  <2> QED
    BY <2>1, <2>2 DEF Content
<1>9. Content(T \o C) = Content(T) \o Content(C)
  BY <1>5, ContentConcat
<1> QED
  BY <1>3, <1>4, <1>6, <1>7, <1>8, <1>9 DEF ms, m

\* The next request tells the model that it said what it said.
THEOREM RepliesEchoed == Spec => []EchoFaithful
<1>1. ASSUME ShapeInv PROVE EchoFaithful
  <2> SUFFICES ASSUME said # <<>>
               PROVE  Sent(<<Last(msgs)>>) =
                        {(IF OfKind(said, "text") = <<>> THEN <<>> ELSE << <<"text", None>> >>)
                           \o FlattenSeq([k \in DOMAIN said |->
                                            IF said[k][1] = "call" THEN <<said[k]>> ELSE <<>>])}
    BY DEF EchoFaithful
  <2> DEFINE t == OfKind(said, "text") # <<>>
             c == OfKind(said, "call")
  <2>1. marks \in Nat /\ said \in Seq(Blocks) /\ Last(msgs) = Assistant(t, c)
    BY <1>1, HistoriesAssumption DEF ShapeInv, TypeInv
  <2>2. t \in BOOLEAN /\ c \in Seq(Ids)
    BY <2>1, CallsType
  <2>3. FlattenSeq([k \in DOMAIN said |-> IF said[k][1] = "call" THEN <<said[k]>> ELSE <<>>])
          = [k \in DOMAIN c |-> <<"call", c[k]>>]
    BY <2>1, CallsEchoed
  <2> HIDE DEF c
  <2>4. (IF OfKind(said, "text") = <<>> THEN <<>> ELSE << <<"text", None>> >>)
          = IF t THEN << <<"text", None>> >> ELSE <<>>
    OBVIOUS
  <2> HIDE DEF t
  <2>5. Assistant(t, c) \in Proper(marks)
    BY <2>1, <2>2, Made
  <2>6. Sent(<<Assistant(t, c)>>) =
          {(IF t THEN << <<"text", None>> >> ELSE <<>>) \o [k \in DOMAIN c |-> <<"call", c[k]>>]}
    BY <2>1, <2>2, <2>5, EchoIs
  <2> QED
    BY <2>1, <2>3, <2>4, <2>6
<1> QED
  BY <1>1, ShapeHolds, PTL

=============================================================================
