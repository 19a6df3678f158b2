--------------------------- MODULE ToolOutputProofs ---------------------------
(***************************************************************************)
(* ToolOutput: proofs for every length of the output, every capacity of    *)
(* the channel and every threshold, page size and choice of limits.        *)
(***************************************************************************)
EXTENDS ToolOutput, FiniteSetTheorems, SequenceTheorems, TLAPS

-----------------------------------------------------------------------------
(* Least and greatest                                                      *)

\* A set of natural numbers that is not empty has a least element.
LEMMA MinOf ==
  ASSUME NEW S, S \subseteq Nat, S # {}
  PROVE  Min(S) \in S /\ \A y \in S : Min(S) <= y
<1>1. PICK x \in S : \A y \in S : ~ (<<y, x>> \in OpToRel(<, Nat))
  BY NatLessThanWellFounded, WFMin
<1>2. \A y \in S : x <= y
  <2> SUFFICES ASSUME NEW y \in S, y < x PROVE FALSE
    OBVIOUS
  <2>1. <<y, x>> \in OpToRel(<, Nat)
    BY DEF OpToRel
  <2> QED
    BY <1>1, <2>1
<1>3. \E z \in S : \A y \in S : z =< y
  BY <1>2
<1> QED
  BY <1>3 DEF Min

\* When it is bounded, it has a greatest as well.
LEMMA MaxOf ==
  ASSUME NEW n \in Nat, NEW S, S \subseteq 0..n, S # {}
  PROVE  Max(S) \in S /\ \A y \in S : Max(S) >= y
<1> DEFINE T == {n - x : x \in S}
<1>1. T \subseteq Nat /\ T # {}
  <2>1. T \subseteq Nat
    OBVIOUS
  <2>2. PICK x \in S : TRUE
    OBVIOUS
  <2>3. n - x \in T
    OBVIOUS
  <2> QED
    BY <2>1, <2>3
<1>2. Min(T) \in T /\ \A y \in T : Min(T) <= y
  <2> HIDE DEF T
  <2> QED
    BY <1>1, MinOf
<1>3. PICK x \in S : Min(T) = n - x
  BY <1>2
<1>4. \A y \in S : n - x <= n - y
  BY <1>2, <1>3
<1>5. \A y \in S : x >= y
  BY <1>4
<1> QED
  BY <1>5 DEF Max

\* The smaller of two numbers.
LEMMA MinPair ==
  ASSUME NEW a \in Nat, NEW b \in Nat
  PROVE  Min({a, b}) = IF a <= b THEN a ELSE b
<1> DEFINE S == {a, b}
<1>1. S \subseteq Nat /\ S # {} /\ a \in S /\ b \in S /\ \A x \in S : x = a \/ x = b
  OBVIOUS
<1>2. Min(S) \in S /\ \A y \in S : Min(S) <= y
  <2> HIDE DEF S
  <2> QED
    BY <1>1, MinOf
<1> HIDE DEF S
<1>3. Min(S) <= a /\ Min(S) <= b /\ (Min(S) = a \/ Min(S) = b)
  BY <1>1, <1>2
<1>4. Min(S) = IF a <= b THEN a ELSE b
  BY <1>3
<1> QED
  BY <1>4 DEF S

-----------------------------------------------------------------------------
(* Text                                                                    *)

\* A part of a text is a text.
LEMMA PartOf ==
  ASSUME NEW S, NEW s \in Seq(S), NEW a \in Nat, NEW b \in Nat, a <= b, b <= Len(s)
  PROVE  /\ SubSeq(s, a + 1, b) \in Seq(S) /\ Len(SubSeq(s, a + 1, b)) = b - a
         /\ \A i \in 1..(b - a) : SubSeq(s, a + 1, b)[i] = s[a + i]
<1>1. Len(s) \in Nat
  OBVIOUS
<1>2. SubSeq(s, a + 1, b) \in Seq(S) /\ Len(SubSeq(s, a + 1, b)) = b - a
  BY <1>1
<1>3. \A i \in 1..(b - a) : SubSeq(s, a + 1, b)[i] = s[a + i]
  BY <1>1
<1> QED
  BY <1>2, <1>3

\* What a flush takes is part of what is pending.
LEMMA CompleteBound ==
  ASSUME NEW s \in Seq(Bytes)
  PROVE  Complete(s) \in 0..Len(s)
<1> DEFINE cuts == {i \in 1..3 : i < Len(s) /\ Valid(SubSeq(s, 1, Len(s) - i))}
<1>1. Len(s) \in Nat
  OBVIOUS
<1>2. CASE Valid(s) \/ cuts = {}
  BY <1>1, <1>2 DEF Complete
<1>3. CASE ~ (Valid(s) \/ cuts = {})
  <2>1. cuts \subseteq Nat /\ cuts # {}
    BY <1>3
  <2>2. Min(cuts) \in cuts
    <3> HIDE DEF cuts
    <3> QED
      BY <2>1, MinOf
  <2>3. Complete(s) = Len(s) - Min(cuts)
    BY <1>3 DEF Complete
  <2>4. Min(cuts) \in Nat /\ Min(cuts) < Len(s)
    BY <2>2
  <2> HIDE DEF cuts
  <2> QED
    BY <1>1, <2>3, <2>4
<1> QED
  BY <1>2, <1>3

\* When what was copied ends with a whole character, a flush takes all that is pending: either
\* no character is split there, or an earlier flush took the first half of one and nothing
\* that begins with the other half is valid.
LEMMA WholeIsTaken ==
  ASSUME NEW w \in Seq(Bytes), NEW t \in Nat, NEW n \in Nat, t <= n, n <= Len(w),
         Valid(SubSeq(w, 1, n))
  PROVE  Complete(SubSeq(w, t + 1, n)) = n - t
<1> DEFINE v == SubSeq(w, 1, n)
           s == SubSeq(w, t + 1, n)
           m == n - t
<1>1. v \in Seq(Bytes) /\ Len(v) = n /\ \A i \in 1..n : v[i] = w[i]
  BY PartOf
<1>2. s \in Seq(Bytes) /\ Len(s) = m /\ \A i \in 1..m : s[i] = w[t + i]
  BY PartOf
<1>3. m \in Nat /\ DOMAIN v = 1..n /\ DOMAIN s = 1..m
  BY <1>1, <1>2
<1>4. \A i \in 1..n : /\ w[i] = "h" => i < n /\ w[i + 1] = "t"
                      /\ w[i] = "t" => i > 1 /\ w[i - 1] = "h"
  <2> SUFFICES ASSUME NEW i \in 1..n
               PROVE  /\ w[i] = "h" => i < n /\ w[i + 1] = "t"
                      /\ w[i] = "t" => i > 1 /\ w[i - 1] = "h"
    OBVIOUS
  <2>1. /\ v[i] = "h" => i < n /\ v[i + 1] = "t"
        /\ v[i] = "t" => i > 1 /\ v[i - 1] = "h"
    <3> HIDE DEF v
    <3> QED
      BY <1>1, <1>3 DEF Valid, v
  <2>2. v[i] = w[i] /\ (i < n => v[i + 1] = w[i + 1]) /\ (i > 1 => v[i - 1] = w[i - 1])
    BY <1>1
  <2> QED
    BY <2>1, <2>2
<1> SUFFICES Complete(s) = m
  OBVIOUS
<1> HIDE DEF s, m, v
<1>5. CASE Valid(s)
  BY <1>2, <1>5 DEF Complete
<1>6. CASE ~Valid(s)
  <2>1. PICK j \in DOMAIN s : ~ (/\ s[j] = "h" => j < Len(s) /\ s[j + 1] = "t"
                                 /\ s[j] = "t" => j > 1 /\ s[j - 1] = "h")
    BY <1>6 DEF Valid
  <2>2. t + j \in 1..n /\ s[j] = w[t + j] /\ j \in Nat /\ j \in 1..m /\ n = t + m
    BY <1>2, <1>3 DEF m
  <2>3. /\ s[j] = "h" => t + j < n /\ w[t + j + 1] = "t"
        /\ s[j] = "t" => t + j > 1 /\ w[t + j - 1] = "h"
    BY <1>4, <2>2
  <2>4. s[j] = "h" => j < m /\ s[j + 1] = "t"
    <3> SUFFICES ASSUME s[j] = "h" PROVE j < m /\ s[j + 1] = "t"
      OBVIOUS
    <3>1. j < m /\ j + 1 \in 1..m
      BY <1>3, <2>2, <2>3
    <3>2. s[j + 1] = w[t + (j + 1)] /\ t + (j + 1) = t + j + 1
      BY <1>2, <2>2, <3>1
    <3> QED
      BY <2>3, <3>1, <3>2
  <2>5. s[j] = "t" /\ ~ (j > 1 /\ s[j - 1] = "h")
    BY <1>2, <2>1, <2>4
  <2>6. j = 1
    <3> SUFFICES ASSUME j > 1 PROVE FALSE
      BY <2>2
    <3>1. j - 1 \in 1..m
      BY <1>3, <2>2
    <3>2. s[j - 1] = w[t + (j - 1)] /\ t + (j - 1) = t + j - 1
      BY <1>2, <2>2, <3>1
    <3> QED
      BY <2>3, <2>5, <3>2
  <2>7. s[1] = "t" /\ 1 \in 1..m
    BY <2>2, <2>5, <2>6
  <2>8. ASSUME NEW i \in 1..3, i < m
        PROVE  ~Valid(SubSeq(s, 1, m - i))
    <3> DEFINE p == SubSeq(s, 1, m - i)
    <3>1. m - i \in Nat /\ m - i <= m /\ 0 <= m - i /\ m - i >= 1
      BY <1>3, <2>8
    <3>2. \A k \in Nat : k <= m => /\ SubSeq(s, 1, k) \in Seq(Bytes) /\ Len(SubSeq(s, 1, k)) = k
                                  /\ \A x \in 1..k : SubSeq(s, 1, k)[x] = s[x]
      BY <1>2
    <3>3. p \in Seq(Bytes) /\ Len(p) = m - i /\ \A x \in 1..(m - i) : p[x] = s[x]
      BY <3>1, <3>2
    <3> HIDE DEF p
    <3>4. 1 \in DOMAIN p /\ p[1] = "t"
      BY <2>7, <3>1, <3>3
    <3>5. ~Valid(p)
      BY <3>4 DEF Valid
    <3> QED
      BY <3>5 DEF p
  <2>9. {i \in 1..3 : i < Len(s) /\ Valid(SubSeq(s, 1, Len(s) - i))} = {}
    BY <1>2, <2>8
  <2>10. Complete(s) = Len(s)
    BY <2>9 DEF Complete
  <2> QED
    BY <1>2, <2>10
<1> QED
  BY <1>5, <1>6

\* Trimming white space leaves a text.
LEMMA TrimType ==
  ASSUME NEW s \in Seq(Bytes)
  PROVE  TrimSpace(s) \in Seq(Bytes)
<1> DEFINE solid == {i \in DOMAIN s : s[i] # "n"}
<1>1. CASE solid = {}
  BY <1>1 DEF TrimSpace
<1>2. CASE solid # {}
  <2>1. Len(s) \in Nat /\ solid \subseteq 1..Len(s)
    OBVIOUS
  <2>2. Min(solid) \in solid /\ Max(solid) \in solid
    <3> HIDE DEF solid
    <3>1. solid \subseteq Nat /\ solid \subseteq 0..Len(s)
      BY <2>1
    <3> QED
      BY <1>2, <2>1, <3>1, MinOf, MaxOf
  <2>3. \A a, b \in 1..Len(s) : SubSeq(s, a, b) \in Seq(Bytes)
    BY <2>1
  <2>4. TrimSpace(s) = SubSeq(s, Min(solid), Max(solid))
    BY <1>2 DEF TrimSpace
  <2> HIDE DEF solid
  <2> QED
    BY <2>1, <2>2, <2>3, <2>4
<1> QED
  BY <1>1, <1>2

-----------------------------------------------------------------------------
(* Lines                                                                   *)

\* Induction over the natural numbers, for a set instead of a predicate.
LEMMA NatSetInduction ==
  ASSUME NEW S, 0 \in S, \A n \in Nat : n \in S => n + 1 \in S
  PROVE  Nat \subseteq S
<1>1. IsWellFoundedOn(OpToRel(<, Nat), Nat)
  BY NatLessThanWellFounded
<1>2. ASSUME NEW T, T \subseteq Nat, T # {}
      PROVE  \E x \in T : \A y \in T : ~ (<<y, x>> \in OpToRel(<, Nat))
  BY <1>1, <1>2, WFMin
<1>3. SUFFICES ASSUME Nat \ S # {} PROVE FALSE
  OBVIOUS
<1>4. PICK x \in Nat \ S : \A y \in Nat \ S : ~ (<<y, x>> \in OpToRel(<, Nat))
  BY <1>2, <1>3
<1>5. \A y \in Nat \ S : ~ (y < x)
  BY <1>4 DEF OpToRel
<1>6. x # 0 /\ x - 1 \in Nat
  OBVIOUS
<1>7. QED
  BY <1>5, <1>6

\* Induction over the subsets of a finite set, for a set instead of a predicate.
LEMMA SubsetInduction ==
  ASSUME NEW S, IsFiniteSet(S), NEW T,
         \A U \in SUBSET S : (\A x \in U : U \ {x} \in T) => U \in T
  PROVE  SUBSET S \subseteq T
<1>1. SUFFICES ASSUME (SUBSET S) \ T # {} PROVE FALSE
  OBVIOUS
<1> DEFINE N == {Cardinality(U) : U \in (SUBSET S) \ T}
<1>2. \A U \in SUBSET S : IsFiniteSet(U) /\ Cardinality(U) \in Nat
  BY FS_Subset, FS_CardinalityType
<1>3. N \subseteq Nat /\ N # {}
  BY <1>1, <1>2
<1> HIDE DEF N
<1>4. PICK n \in N : \A m \in N : ~ (<<m, n>> \in OpToRel(<, Nat))
  BY <1>3, NatLessThanWellFounded, WFMin
<1>5. PICK U \in (SUBSET S) \ T : n = Cardinality(U)
  BY DEF N
<1>6. PICK x \in U : U \ {x} \notin T
  BY <1>5
<1>7. Cardinality(U \ {x}) \in N /\ Cardinality(U \ {x}) = n - 1 /\ n \in Nat /\ n - 1 \in Nat
  <2>1. U \ {x} \in (SUBSET S) \ T
    BY <1>5, <1>6
  <2>2. Cardinality(U \ {x}) \in Nat
    BY <1>2, <2>1
  <2>3. Cardinality(U \ {x}) = n - 1
    BY <1>2, <1>5, <1>6, FS_RemoveElement
  <2> QED
    BY <1>2, <1>5, <2>1, <2>2, <2>3 DEF N
<1>8. <<n - 1, n>> \in OpToRel(<, Nat)
  BY <1>7 DEF OpToRel
<1> QED
  BY <1>4, <1>7, <1>8

\* What splitLines does with one more byte, and the function behind the fold over a text: it
\* takes the positions from the last one down.
NextByte(ls, b) ==
  IF b = "n" THEN Append(ls, <<>>) ELSE Append(Front(ls), Append(Last(ls), b))
Body(w, g, s) == IF s = {} THEN << <<>> >> ELSE NextByte(g[s \ {Max(s)}], w[Max(s)])
Split(w) == CHOOSE g : g = [s \in SUBSET (DOMAIN w) |-> Body(w, g, s)]

\* Lines in these terms.
LEMMA LinesIsSplit ==
  ASSUME NEW s
  PROVE  LET body == IF s # <<>> /\ Last(s) = "n" THEN Front(s) ELSE s
         IN Lines(s) = IF body = <<>> THEN <<>> ELSE Split(body)[DOMAIN body]
BY DEF Lines, FoldLeft, MapThenFoldSet, Split, Body, NextByte

\* The positions of a text are finitely many, and some position is the last of any of them.
LEMMA Positions ==
  ASSUME NEW w \in Seq(Bytes)
  PROVE  /\ IsFiniteSet(DOMAIN w)
         /\ \A s \in SUBSET (DOMAIN w) : s # {} => Max(s) \in s
<1>1. Len(w) \in Nat /\ DOMAIN w = 1..Len(w)
  OBVIOUS
<1>2. IsFiniteSet(1..Len(w))
  <2>1. 1 \in Int /\ Len(w) \in Int
    BY <1>1
  <2> QED
    BY <2>1, FS_Interval
<1>3. ASSUME NEW s \in SUBSET (DOMAIN w), s # {}
      PROVE  Max(s) \in s
  <2>1. s \subseteq 0..Len(w)
    BY <1>1
  <2> QED
    BY <1>1, <1>3, <2>1, MaxOf
<1> QED
  BY <1>1, <1>2, <1>3

\* The recursive function exists: it satisfies its own equation.
LEMMA SplitDef ==
  ASSUME NEW w \in Seq(Bytes)
  PROVE  \A s \in SUBSET (DOMAIN w) : Split(w)[s] = Body(w, Split(w), s)
<1> DEFINE S == DOMAIN w
           Upto(g, n) == \A s \in SUBSET S : Cardinality(s) < n => g[s] = Body(w, g, s)
           T == {n \in Nat : \E g : Upto(g, n)}
<1>1. \A U \in SUBSET S : IsFiniteSet(U) /\ Cardinality(U) \in Nat /\ Cardinality(U) <= Cardinality(S)
  BY Positions, FS_Subset, FS_CardinalityType
<1>2. \A U \in SUBSET S : U # {} =>
        /\ U \ {Max(U)} \in SUBSET S
        /\ Cardinality(U \ {Max(U)}) = Cardinality(U) - 1
  <2> SUFFICES ASSUME NEW U \in SUBSET S, U # {}
               PROVE  Cardinality(U \ {Max(U)}) = Cardinality(U) - 1
    OBVIOUS
  <2>1. Max(U) \in U
    BY Positions
  <2> QED
    BY <1>1, <2>1, FS_RemoveElement
<1> HIDE DEF S
<1>3. 0 \in T
  <2>1. Upto(w, 0)
    BY <1>1
  <2> QED
    BY <2>1
<1>4. ASSUME NEW n \in Nat, n \in T
      PROVE  n + 1 \in T
  <2>1. PICK g : Upto(g, n)
    BY <1>4
  <2> DEFINE h == [s \in SUBSET S |-> IF Cardinality(s) = n THEN Body(w, g, s) ELSE g[s]]
  <2>2. ASSUME NEW s \in SUBSET S, Cardinality(s) < n + 1
        PROVE  h[s] = Body(w, g, s)
    <3>1. Cardinality(s) = n \/ Cardinality(s) < n
      BY <1>1, <2>2
    <3> QED
      BY <2>1, <3>1
  <2>3. ASSUME NEW s \in SUBSET S, Cardinality(s) < n + 1, s # {}
        PROVE  h[s \ {Max(s)}] = g[s \ {Max(s)}]
    <3>1. s \ {Max(s)} \in SUBSET S /\ Cardinality(s \ {Max(s)}) # n
      BY <1>1, <1>2, <2>3
    <3> QED
      BY <3>1
  <2> HIDE DEF h
  <2>4. Upto(h, n + 1)
    BY <2>2, <2>3 DEF Body
  <2>5. n + 1 \in Nat
    OBVIOUS
  <2> HIDE DEF Upto
  <2> QED
    BY <2>4, <2>5
<1>5. PICK g : Upto(g, Cardinality(S) + 1)
  <2> HIDE DEF T
  <2>1. Nat \subseteq T
    BY <1>3, <1>4, NatSetInduction
  <2>2. S \in SUBSET S
    OBVIOUS
  <2>3. Cardinality(S) + 1 \in T
    BY <1>1, <2>1, <2>2
  <2> QED
    BY <2>3 DEF T
<1> DEFINE h == [s \in SUBSET S |-> g[s]]
<1>6. \A s \in SUBSET S : g[s] = Body(w, g, s) /\ h[s] = g[s]
  <2>1. Cardinality(S) \in Nat
    BY <1>1
  <2> QED
    BY <1>1, <1>5, <2>1
<1>7. \A s \in SUBSET S : s # {} => h[s \ {Max(s)}] = g[s \ {Max(s)}]
  BY <1>2
<1> HIDE DEF h
<1>8. \A s \in SUBSET S : h[s] = Body(w, h, s)
  BY <1>6, <1>7 DEF Body
<1>9. h = [s \in SUBSET S |-> Body(w, h, s)]
  <2>1. h = [s \in SUBSET S |-> h[s]]
    BY DEF h
  <2> QED
    BY <1>8, <2>1
<1> DEFINE F == Split(w)
<1>10. F = [s \in SUBSET S |-> Body(w, F, s)]
  BY <1>9 DEF Split, S
<1> HIDE DEF F
<1>11. \A s \in SUBSET S : F[s] = Body(w, F, s)
  BY <1>10
<1> QED
  BY <1>11 DEF F, S

\* Texts split into texts.
LEMMA LinesType ==
  ASSUME NEW s \in Seq(Bytes)
  PROVE  Lines(s) \in Seq(Seq(Bytes))
<1> DEFINE Texts == {ls \in Seq(Seq(Bytes)) : ls # <<>>}
<1>1. ASSUME NEW ls \in Texts, NEW b \in Bytes
      PROVE  NextByte(ls, b) \in Texts
  <2>1. /\ ls \in Seq(Seq(Bytes)) /\ Len(ls) \in Nat /\ Len(ls) # 0
        /\ <<>> \in Seq(Bytes)
    BY EmptySeq
  <2>0. \A x : Len(x) # 0 => x # <<>>
    <3>1. Len(<<>>) = 0
      BY EmptySeq
    <3> QED
      BY <3>1
  <2>2. CASE b = "n"
    <3>1. Append(ls, <<>>) \in Seq(Seq(Bytes)) /\ Len(Append(ls, <<>>)) = Len(ls) + 1
      BY <2>1
    <3>2. Append(ls, <<>>) # <<>>
      <4>1. Len(Append(ls, <<>>)) # 0
        BY <2>1, <3>1
      <4> QED
        BY <2>0, <4>1
    <3> QED
      BY <2>2, <3>1, <3>2 DEF NextByte
  <2>3. CASE b # "n"
    <3>1. Last(ls) \in Seq(Bytes)
      BY <2>1 DEF Last
    <3>2. Append(Last(ls), b) \in Seq(Bytes)
      BY <3>1
    <3>3. Front(ls) \in Seq(Seq(Bytes)) /\ Len(Front(ls)) \in Nat
      BY <2>1 DEF Front
    <3>4. /\ Append(Front(ls), Append(Last(ls), b)) \in Seq(Seq(Bytes))
          /\ Len(Append(Front(ls), Append(Last(ls), b))) = Len(Front(ls)) + 1
      BY <3>2, <3>3
    <3>5. Append(Front(ls), Append(Last(ls), b)) # <<>>
      <4>1. Len(Append(Front(ls), Append(Last(ls), b))) # 0
        BY <3>3, <3>4
      <4> QED
        BY <2>0, <4>1
    <3> QED
      BY <2>3, <3>4, <3>5 DEF NextByte
  <2> QED
    BY <2>2, <2>3
<1>2. ASSUME NEW w \in Seq(Bytes)
      PROVE  Split(w)[DOMAIN w] \in Texts
  <2> DEFINE S == DOMAIN w
             T == {U \in SUBSET S : Split(w)[U] \in Texts}
  <2>1. ASSUME NEW U \in SUBSET S, \A x \in U : U \ {x} \in T
        PROVE  U \in T
    <3>1. Split(w)[U] = Body(w, Split(w), U)
      BY SplitDef
    <3>2. CASE U = {}
      <4>1. << <<>> >> \in Texts
        <5>1. <<>> \in Seq(Bytes)
          BY EmptySeq
        <5> QED
          BY <5>1
      <4> QED
        BY <3>1, <3>2, <4>1 DEF Body
    <3>3. CASE U # {}
      <4>1. Max(U) \in U
        BY <3>3, Positions
      <4>2. Split(w)[U \ {Max(U)}] \in Texts /\ w[Max(U)] \in Bytes
        BY <2>1, <4>1
      <4>3. NextByte(Split(w)[U \ {Max(U)}], w[Max(U)]) \in Texts
        BY <1>1, <4>2
      <4> QED
        BY <3>1, <3>3, <4>3 DEF Body
    <3> QED
      BY <3>2, <3>3
  <2>2. IsFiniteSet(S) /\ S \in SUBSET S
    BY Positions
  <2>3. S \in T
    <3> HIDE DEF S, T
    <3> QED
      BY <2>1, <2>2, SubsetInduction
  <2> QED
    BY <2>3
<1> DEFINE body == IF s # <<>> /\ Last(s) = "n" THEN Front(s) ELSE s
<1>3. body \in Seq(Bytes)
  <2>1. CASE s # <<>>
    <3>1. Len(s) \in Nat /\ Len(s) # 0
      BY <2>1, EmptySeq
    <3>2. Front(s) \in Seq(Bytes)
      BY <3>1 DEF Front
    <3> QED
      BY <3>2
  <2> QED
    BY <2>1
<1>4. Lines(s) = IF body = <<>> THEN <<>> ELSE Split(body)[DOMAIN body]
  BY LinesIsSplit
<1> HIDE DEF body
<1>5. Split(body)[DOMAIN body] \in Seq(Seq(Bytes))
  BY <1>2, <1>3
<1> QED
  BY <1>4, <1>5, EmptySeq

-----------------------------------------------------------------------------
(* The inductive invariant                                                 *)

\* Types, by the parts of the system.
CommandTypes ==
  /\ made \in Seq(Bytes) /\ Len(made) <= MaxBytes
  /\ pipe \in {"open", "closed"} /\ cmd \in {"running", "exited"}
  /\ tctx \in {"none", "deadline", "cancelled"} /\ err \in {"none", "exit", "run"}

StreamTypes ==
  /\ copied \in 0..Len(made) /\ taken \in 0..copied
  /\ chunk \subseteq 1..taken /\ shown \subseteq 1..taken /\ shown \cap chunk = {}
  /\ halves \subseteq 1..taken
  /\ ticker \in {"waiting", "ticked", "sending", "stopped"}
  /\ tool \in {"running", "closing", "sending", "closed", "returned", "stored"}
  /\ ~(ticker = "sending" /\ tool = "sending")
  /\ (chunk # {}) <=> (ticker = "sending" \/ tool = "sending")

MessageTypes ==
  /\ outcome \in {"none", "ok", "timeout", "code", "error"}
  /\ result \in Seq(Bytes) /\ offloaded \in BOOLEAN
  /\ offset \in Nat \ {0} /\ seen \in Seq(Seq(Bytes))
  /\ note \in {"none", "more", "cut", "end"}

EventTypes == buffered \in 0..Capacity /\ reading \in BOOLEAN

\* The parts make up the type invariant.
LEMMA TypesAreTyped == TypeOK <=> CommandTypes /\ StreamTypes /\ MessageTypes /\ EventTypes
BY DEF TypeOK, CommandTypes, StreamTypes, MessageTypes, EventTypes

\* What flushes have taken is shown or about to be, white space aside; close() takes the rest
\* unless it ends inside a character, and nobody is showing anything when the call returns.
FlushInv ==
  /\ \A i \in 1..taken : made[i] # "n" => i \in shown \cup chunk
  /\ tool \notin {"running", "closing"} /\ Whole => taken = copied
  /\ Returned /\ Whole => chunk = {}

\* Run has returned when the command has ended, and without an error when all is copied;
\* the outcome is decided with the return.
RunInv ==
  /\ tool # "running" => cmd = "exited"
  /\ tool # "running" /\ err = "none" => copied = Len(made)
  /\ outcome # "none" => Returned

\* The model reads a file that is there, from the line behind those it has read.
ReadInv ==
  /\ offloaded => tool = "stored"
  /\ ~offloaded => offset = 1 /\ seen = <<>> /\ note = "none"
  /\ Len(seen) = offset - 1 /\ Len(seen) <= Len(Lines(result))
  /\ \A i \in 1..Len(seen) : seen[i] = Lines(result)[i]
  /\ note = "end" => Len(seen) = Len(Lines(result))

Inv == TypeOK /\ FlushInv /\ RunInv /\ OkIsComplete /\ ReadInv

-----------------------------------------------------------------------------
(* Flushing                                                                *)

\* One flush: it goes up to somewhere in what was copied, to the end of it if that is the
\* end of a character, and what it takes is the chunk, unless that is white space.
LEMMA FlushTakes ==
  ASSUME TypeOK, Flush
  PROVE  /\ taken' \in taken..copied /\ taken' \in Nat
         /\ chunk' \subseteq taken + 1..taken'
         /\ halves' \subseteq 1..taken'
         /\ \A i \in taken + 1..taken' : made[i] # "n" => i \in chunk'
         /\ Whole => taken' = copied
<1> DEFINE s == SubSeq(made, taken + 1, copied)
           upto == taken + Complete(s)
<1>1. /\ made \in Seq(Bytes) /\ taken \in Nat /\ copied \in Nat
      /\ taken <= copied /\ copied <= Len(made) /\ halves \subseteq 1..taken
  BY DEF TypeOK
<1>2. s \in Seq(Bytes) /\ Len(s) = copied - taken
  BY <1>1, PartOf
<1>3. Complete(s) \in 0..(copied - taken)
  <2> HIDE DEF s
  <2> QED
    BY <1>2, CompleteBound
<1>4. Whole => Complete(s) = copied - taken
  BY <1>1, WholeIsTaken DEF Whole
<1> HIDE DEF s
<1>5. upto \in taken..copied /\ upto \in Nat /\ (Whole => upto = copied)
  BY <1>1, <1>3, <1>4
<1>6. /\ taken' = upto
      /\ chunk' = IF \E i \in taken + 1..upto : made[i] # "n" THEN taken + 1..upto ELSE {}
      /\ halves' = IF upto > taken /\ made[upto] = "h" THEN halves \cup {upto} ELSE halves
  BY DEF Flush, s
<1> HIDE DEF upto
<1>7. halves' \subseteq 1..upto
  BY <1>1, <1>5, <1>6
<1> QED
  BY <1>5, <1>6, <1>7

\* A flush with the lock held, and what it leaves to be sent: by the ticker, or by close().
FlushBy(who) ==
  /\ Unlocked /\ Flush
  /\ UNCHANGED <<commandVars, err, copied, shown, outcome, result, messageVars, eventVars>>
  /\ \/ /\ who = "ticker" /\ ticker = "ticked" /\ tool' = tool
        /\ ticker' = IF chunk' = {} THEN "waiting" ELSE "sending"
     \/ /\ who = "tool" /\ tool = "closing" /\ ticker' = ticker
        /\ tool' = IF chunk' = {} THEN "closed" ELSE "sending"

\* It keeps the invariant.
LEMMA FlushStep ==
  ASSUME Inv, NEW who, FlushBy(who)
  PROVE  Inv'
<1>1. /\ CommandTypes /\ StreamTypes /\ MessageTypes /\ EventTypes /\ TypeOK
  BY TypesAreTyped DEF Inv
<1>2. /\ UNCHANGED <<made, pipe, cmd, tctx, err, copied, shown, outcome, result, offloaded,
                     offset, seen, note, buffered, reading>>
  BY DEF FlushBy, commandVars, messageVars, eventVars
<1>3. /\ taken' \in taken..copied /\ taken' \in Nat
      /\ chunk' \subseteq taken + 1..taken'
      /\ halves' \subseteq 1..taken'
      /\ \A i \in taken + 1..taken' : made[i] # "n" => i \in chunk'
      /\ Whole => taken' = copied
  BY <1>1, FlushTakes DEF FlushBy
<1>4. chunk = {} /\ Unlocked
  BY <1>1 DEF FlushBy, Unlocked, StreamTypes
<1>5. /\ copied \in 0..Len(made) /\ taken \in 0..copied /\ shown \subseteq 1..taken
      /\ taken \in Nat /\ copied \in Nat /\ Len(made) \in Nat
  BY <1>1 DEF StreamTypes, CommandTypes
<1>6. (chunk' # {}) <=> (ticker' = "sending" \/ tool' = "sending")
  BY <1>4 DEF FlushBy, Unlocked
<1>7. /\ ticker' \in {"waiting", "ticked", "sending", "stopped"}
      /\ tool' \in {"running", "closing", "sending", "closed", "returned", "stored"}
      /\ ~(ticker' = "sending" /\ tool' = "sending")
  BY <1>1, <1>4 DEF FlushBy, Unlocked, StreamTypes
<1>8. /\ taken' \in 0..copied /\ chunk' \subseteq 1..taken' /\ shown \subseteq 1..taken'
      /\ shown \cap chunk' = {}
  BY <1>3, <1>5
<1>9. StreamTypes'
  BY <1>2, <1>3, <1>5, <1>6, <1>7, <1>8 DEF StreamTypes
<1>10. CommandTypes' /\ MessageTypes' /\ EventTypes'
  BY <1>1, <1>2 DEF CommandTypes, MessageTypes, EventTypes
<1>11. TypeOK'
  BY <1>9, <1>10 DEF TypeOK, CommandTypes, StreamTypes, MessageTypes, EventTypes
<1>12. Whole' <=> Whole
  BY <1>2 DEF Whole
<1>13. Returned' => Returned
  BY <1>1 DEF FlushBy, Returned, StreamTypes
<1>14. FlushInv'
  <2>1. \A i \in 1..taken' : made[i] # "n" => i \in shown \cup chunk'
    <3> SUFFICES ASSUME NEW i \in 1..taken', made[i] # "n"
                 PROVE  i \in shown \cup chunk'
      OBVIOUS
    <3>1. CASE i \in 1..taken
      BY <1>4, <3>1 DEF Inv, FlushInv
    <3>2. CASE i \in taken + 1..taken'
      BY <1>3, <3>2
    <3> QED
      BY <1>3, <1>5, <3>1, <3>2
  <2>2. ASSUME Returned, Whole PROVE chunk' = {}
    <3>1. taken = copied
      BY <2>2 DEF Inv, FlushInv, Returned
    <3>2. taken' = taken
      BY <1>3, <1>5, <3>1
    <3> QED
      BY <1>3, <1>5, <3>2
  <2> QED
    BY <1>2, <1>3, <1>12, <1>13, <2>1, <2>2 DEF FlushInv
<1>15. RunInv'
  BY <1>2 DEF Inv, RunInv, FlushBy, Returned
<1>16. OkIsComplete'
  BY <1>2 DEF Inv, OkIsComplete
<1>17. ReadInv'
  BY <1>2 DEF Inv, ReadInv, FlushBy
<1> QED
  BY <1>11, <1>14, <1>15, <1>16, <1>17 DEF Inv

\* The send that ends a flush.
LEMMA SendStep ==
  ASSUME Inv, TickSend \/ CloseSend
  PROVE  Inv'
<1>1. CommandTypes /\ StreamTypes /\ MessageTypes /\ EventTypes
  BY TypesAreTyped DEF Inv
<1>2. /\ UNCHANGED <<made, pipe, cmd, tctx, err, copied, taken, halves, outcome, result,
                     offloaded, offset, seen, note, reading>>
      /\ buffered < Capacity /\ buffered' = buffered + 1
      /\ shown' = shown \cup chunk /\ chunk' = {}
  BY DEF TickSend, CloseSend, Send, commandVars, messageVars
<1>3. \/ ticker = "sending" /\ ticker' = "waiting" /\ tool' = tool /\ tool # "sending"
      \/ tool = "sending" /\ tool' = "closed" /\ ticker' = ticker /\ ticker # "sending"
  BY <1>1 DEF TickSend, CloseSend, StreamTypes
<1>4. StreamTypes'
  BY <1>1, <1>2, <1>3 DEF StreamTypes
<1>5. EventTypes'
  BY <1>1, <1>2, OutputAssumption DEF EventTypes
<1>6. CommandTypes' /\ MessageTypes'
  BY <1>1, <1>2 DEF CommandTypes, MessageTypes
<1>7. TypeOK'
  BY <1>4, <1>5, <1>6 DEF TypeOK, CommandTypes, StreamTypes, MessageTypes, EventTypes
<1>8. Whole' <=> Whole
  BY <1>2 DEF Whole
<1>9. FlushInv'
  BY <1>2, <1>3, <1>8 DEF Inv, FlushInv, Returned
<1>10. RunInv' /\ OkIsComplete' /\ ReadInv'
  BY <1>2, <1>3 DEF Inv, RunInv, OkIsComplete, ReadInv, Returned
<1> QED
  BY <1>7, <1>9, <1>10 DEF Inv

\* Output goes on only while the tool runs, and is behind what was copied.
LEMMA OutputStep ==
  ASSUME Inv, NEW b \in Bytes, Output(b)
  PROVE  Inv'
<1>1. CommandTypes /\ StreamTypes /\ MessageTypes /\ EventTypes
  BY TypesAreTyped DEF Inv
<1>2. /\ UNCHANGED <<pipe, cmd, tctx, err, copied, taken, chunk, shown, halves, ticker, tool,
                     outcome, result, offloaded, offset, seen, note, buffered, reading>>
      /\ tool = "running" /\ Len(made) < MaxBytes /\ made' = Append(made, b)
  BY DEF Output, streamVars, messageVars, eventVars
<1>3. /\ made' \in Seq(Bytes) /\ Len(made') = Len(made) + 1 /\ Len(made) \in Nat
      /\ \A i \in 1..Len(made) : made'[i] = made[i]
  BY <1>1, <1>2 DEF CommandTypes
<1>4. Len(made') <= MaxBytes /\ copied \in 0..Len(made')
  BY <1>1, <1>2, <1>3, OutputAssumption DEF StreamTypes
<1>5. CommandTypes'
  BY <1>1, <1>2, <1>3, <1>4 DEF CommandTypes
<1>6. StreamTypes'
  BY <1>1, <1>2, <1>4 DEF StreamTypes
<1>7. TypeOK'
  BY <1>1, <1>2, <1>5, <1>6 DEF TypeOK, CommandTypes, StreamTypes, MessageTypes, EventTypes
<1>8. FlushInv'
  <2>1. \A i \in 1..taken : i \in 1..Len(made)
    BY <1>1, <1>3 DEF StreamTypes
  <2> QED
    BY <1>2, <1>3, <2>1 DEF Inv, FlushInv, Returned
<1>9. RunInv' /\ OkIsComplete' /\ ReadInv'
  BY <1>2 DEF Inv, RunInv, OkIsComplete, ReadInv, Returned
<1> QED
  BY <1>7, <1>8, <1>9 DEF Inv

\* The end of the command, by itself or killed.
LEMMA EndStep ==
  ASSUME Inv, Exit \/ CloseOutput \/ Kill
  PROVE  Inv'
<1>1. CommandTypes /\ StreamTypes /\ MessageTypes /\ EventTypes
  BY TypesAreTyped DEF Inv
<1>2. /\ UNCHANGED <<made, tctx, copied, taken, chunk, shown, halves, ticker, tool,
                     outcome, result, offloaded, offset, seen, note, buffered, reading>>
      /\ err' \in {"none", "exit", "run"}
  BY <1>1 DEF Exit, CloseOutput, Kill, streamVars, messageVars, eventVars, CommandTypes
<1>3. pipe' \in {"open", "closed"} /\ cmd' = "exited"
  BY <1>1 DEF Exit, CloseOutput, Kill, CommandTypes
<1>4. cmd = "running" \/ err' = err
  BY DEF Exit, CloseOutput, Kill
<1>5. CommandTypes' /\ StreamTypes' /\ MessageTypes' /\ EventTypes'
  BY <1>1, <1>2, <1>3 DEF CommandTypes, StreamTypes, MessageTypes, EventTypes
<1>6. TypeOK'
  BY <1>5 DEF TypeOK, CommandTypes, StreamTypes, MessageTypes, EventTypes
<1>7. FlushInv' /\ ReadInv'
  BY <1>2 DEF Inv, FlushInv, ReadInv, Returned, Whole
<1>8. RunInv'
  BY <1>2, <1>3, <1>4 DEF Inv, RunInv, Returned
<1>9. OkIsComplete'
  BY <1>2, <1>4 DEF Inv, RunInv, OkIsComplete, Returned
<1> QED
  BY <1>6, <1>7, <1>8, <1>9 DEF Inv

\* The time limit and the call's ctx end nothing that has returned.
LEMMA TctxStep ==
  ASSUME Inv, Deadline \/ Cancel
  PROVE  Inv'
<1>1. CommandTypes /\ StreamTypes /\ MessageTypes /\ EventTypes
  BY TypesAreTyped DEF Inv
<1>2. /\ UNCHANGED <<made, pipe, cmd, err, copied, taken, chunk, shown, halves, ticker, tool,
                     outcome, result, offloaded, offset, seen, note, buffered, reading>>
      /\ tctx' \in {"deadline", "cancelled"} /\ tool \notin {"returned", "stored"}
  BY DEF Deadline, Cancel, streamVars, messageVars, eventVars
<1>3. TypeOK'
  BY <1>1, <1>2 DEF TypeOK, CommandTypes, StreamTypes, MessageTypes, EventTypes
<1>4. FlushInv' /\ RunInv' /\ ReadInv'
  BY <1>2 DEF Inv, FlushInv, RunInv, ReadInv, Returned, Whole
<1>5. OkIsComplete'
  BY <1>2 DEF Inv, RunInv, OkIsComplete, Returned
<1> QED
  BY <1>3, <1>4, <1>5 DEF Inv

\* The copying of the pipe.
LEMMA CopyStep ==
  ASSUME Inv, NEW n \in 1..MaxBytes, Copy(n)
  PROVE  Inv'
<1>1. CommandTypes /\ StreamTypes /\ MessageTypes /\ EventTypes
  BY TypesAreTyped DEF Inv
<1>2. /\ UNCHANGED <<made, pipe, cmd, tctx, err, taken, chunk, shown, halves, ticker, tool,
                     outcome, result, offloaded, offset, seen, note, buffered, reading>>
      /\ tool = "running" /\ n \in copied + 1..Len(made) /\ copied' = n
  BY DEF Copy, commandVars, streamVars, messageVars, eventVars
<1>3. copied' \in 0..Len(made) /\ taken \in 0..copied'
  BY <1>1, <1>2 DEF StreamTypes, CommandTypes
<1>4. StreamTypes'
  BY <1>1, <1>2, <1>3 DEF StreamTypes
<1>5. TypeOK'
  BY <1>1, <1>2, <1>4 DEF TypeOK, CommandTypes, StreamTypes, MessageTypes, EventTypes
<1>6. FlushInv' /\ RunInv' /\ OkIsComplete' /\ ReadInv'
  BY <1>2 DEF Inv, FlushInv, RunInv, OkIsComplete, ReadInv, Returned
<1> QED
  BY <1>5, <1>6 DEF Inv

\* The ticker between two flushes, and the consumer of events.
LEMMA TickStep ==
  ASSUME Inv, Tick \/ TickStop \/ Deliver \/ StopReading
  PROVE  Inv'
<1>1. CommandTypes /\ StreamTypes /\ MessageTypes /\ EventTypes
  BY TypesAreTyped DEF Inv
<1>2. /\ UNCHANGED <<made, pipe, cmd, tctx, err, copied, taken, chunk, shown, halves, tool,
                     outcome, result, offloaded, offset, seen, note>>
      /\ ticker' = ticker \/ (ticker = "waiting" /\ ticker' \in {"ticked", "stopped"})
  <2>1. CASE Tick
    BY <2>1 DEF Tick, commandVars, streamVars, messageVars
  <2>2. CASE TickStop
    BY <2>2 DEF TickStop, commandVars, streamVars, messageVars
  <2>3. CASE Deliver
    BY <2>3 DEF Deliver, commandVars, streamVars, messageVars
  <2>4. CASE StopReading
    BY <2>4 DEF StopReading, commandVars, streamVars, messageVars
  <2> QED
    BY <2>1, <2>2, <2>3, <2>4
<1>3. EventTypes'
  <2>1. CASE Tick \/ TickStop
    BY <1>1, <2>1 DEF EventTypes, Tick, TickStop, eventVars
  <2>2. CASE Deliver
    BY <1>1, <2>2, OutputAssumption DEF EventTypes, Deliver
  <2>3. CASE StopReading
    BY <1>1, <2>3 DEF EventTypes, StopReading
  <2> QED
    BY <2>1, <2>2, <2>3
<1>4. StreamTypes'
  BY <1>1, <1>2 DEF StreamTypes
<1>5. TypeOK'
  BY <1>1, <1>2, <1>3, <1>4 DEF TypeOK, CommandTypes, StreamTypes, MessageTypes, EventTypes
<1>6. FlushInv' /\ RunInv' /\ OkIsComplete' /\ ReadInv'
  BY <1>2 DEF Inv, FlushInv, RunInv, OkIsComplete, ReadInv, Returned, Whole
<1> QED
  BY <1>5, <1>6 DEF Inv

-----------------------------------------------------------------------------
(* Returning                                                               *)

\* Run returns: without an error only when all was copied.
LEMMA RunStep ==
  ASSUME Inv, RunReturns
  PROVE  Inv'
<1>1. CommandTypes /\ StreamTypes /\ MessageTypes /\ EventTypes
  BY TypesAreTyped DEF Inv
<1>2. /\ UNCHANGED <<made, pipe, cmd, tctx, copied, taken, chunk, shown, halves, ticker,
                     outcome, result, offloaded, offset, seen, note, buffered, reading>>
      /\ tool = "running" /\ cmd = "exited" /\ tool' = "closing"
      /\ err' \in {"none", "exit", "run"} /\ (err' = "none" => copied = Len(made))
  <2>1. CASE pipe = "closed" /\ copied = Len(made) /\ UNCHANGED err
    BY <1>1, <2>1
       DEF RunReturns, commandVars, streamVars, messageVars, eventVars, CommandTypes
  <2>2. CASE Unlocked /\ err' = (IF err = "none" THEN "run" ELSE err)
    BY <1>1, <2>2
       DEF RunReturns, commandVars, streamVars, messageVars, eventVars, CommandTypes
  <2> QED
    BY <2>1, <2>2 DEF RunReturns
<1>3. StreamTypes'
  BY <1>1, <1>2 DEF StreamTypes
<1>4. TypeOK'
  BY <1>1, <1>2, <1>3 DEF TypeOK, CommandTypes, StreamTypes, MessageTypes, EventTypes
<1>5. FlushInv' /\ RunInv' /\ ReadInv'
  BY <1>2 DEF Inv, FlushInv, RunInv, ReadInv, Returned
<1>6. OkIsComplete'
  BY <1>2 DEF Inv, RunInv, OkIsComplete, Returned
<1> QED
  BY <1>4, <1>5, <1>6 DEF Inv

\* The tool returns: what has no error and no marker is all that was written, trimmed.
LEMMA ReturnStep ==
  ASSUME Inv, Return
  PROVE  Inv'
<1> DEFINE text == TrimSpace(SubSeq(made, 1, copied))
<1>1. CommandTypes /\ StreamTypes /\ MessageTypes /\ EventTypes
  BY TypesAreTyped DEF Inv
<1>2. /\ UNCHANGED <<made, pipe, cmd, tctx, err, copied, taken, chunk, shown, halves, ticker,
                     offloaded, offset, seen, note, buffered, reading>>
      /\ tool = "closed" /\ tool' = "returned" /\ Unlocked
  BY DEF Return, commandVars, streamVars, messageVars, eventVars
<1>3. /\ outcome' \in {"ok", "timeout", "code", "error"}
      /\ result' = text \/ result' = text \o Marker
      /\ outcome' = "ok" => tctx # "deadline" /\ err = "none" /\ result' = text
  <2>1. CASE tctx = "deadline"
    BY <2>1 DEF Return
  <2>2. CASE tctx # "deadline" /\ err = "exit"
    BY <2>2 DEF Return
  <2>3. CASE tctx # "deadline" /\ err = "run"
    BY <2>3 DEF Return
  <2>4. CASE tctx # "deadline" /\ err = "none"
    BY <2>4 DEF Return
  <2> QED
    BY <1>1, <2>1, <2>2, <2>3, <2>4 DEF CommandTypes
<1>4. /\ copied \in Nat /\ copied <= Len(made) /\ made \in Seq(Bytes)
  BY <1>1 DEF CommandTypes, StreamTypes
<1>5. text \in Seq(Bytes)
  <2>1. SubSeq(made, 0 + 1, copied) \in Seq(Bytes)
    BY <1>4, PartOf
  <2>2. SubSeq(made, 1, copied) \in Seq(Bytes)
    BY <2>1
  <2> QED
    BY <2>2, TrimType
<1>6. result' \in Seq(Bytes)
  <2>1. Marker \in Seq(Bytes)
    BY DEF Marker, Bytes
  <2> HIDE DEF text
  <2>2. text \o Marker \in Seq(Bytes)
    BY <1>5, <2>1, ConcatProperties
  <2> QED
    BY <1>3, <1>5, <2>2
<1>7. MessageTypes' /\ CommandTypes' /\ EventTypes' /\ StreamTypes'
  <2>1. MessageTypes' /\ CommandTypes' /\ EventTypes'
    BY <1>1, <1>2, <1>3, <1>6 DEF MessageTypes, CommandTypes, EventTypes
  <2>2. StreamTypes'
    BY <1>1, <1>2 DEF StreamTypes
  <2> QED
    BY <2>1, <2>2
<1>8. TypeOK'
  BY <1>7 DEF TypeOK, CommandTypes, StreamTypes, MessageTypes, EventTypes
<1>9. FlushInv'
  <2>1. chunk = {}
    BY <1>1, <1>2 DEF StreamTypes, Unlocked
  <2> QED
    BY <1>2, <2>1 DEF Inv, FlushInv, Returned, Whole
<1>10. RunInv'
  BY <1>2 DEF Inv, RunInv, Returned
<1>11. OkIsComplete'
  <2> SUFFICES ASSUME outcome' = "ok"
               PROVE  err = "none" /\ tctx # "deadline" /\ result' = TrimSpace(made)
    BY <1>2 DEF OkIsComplete
  <2>1. copied = Len(made)
    BY <1>2, <1>3 DEF Inv, RunInv
  <2>2. SubSeq(made, 1, Len(made)) = made
    BY <1>4
  <2> QED
    BY <1>3, <2>1, <2>2
<1>12. ReadInv'
  <2>1. ~offloaded
    BY <1>2 DEF Inv, ReadInv
  <2>2. offset = 1 /\ seen = <<>> /\ note = "none" /\ Len(seen) = 0
    BY <2>1, EmptySeq DEF Inv, ReadInv
  <2>3. Len(Lines(result')) \in Nat
    BY <1>6, LinesType
  <2> QED
    BY <1>2, <2>1, <2>2, <2>3 DEF ReadInv
<1> QED
  BY <1>8, <1>9, <1>10, <1>11, <1>12 DEF Inv

-----------------------------------------------------------------------------
(* Reading back                                                            *)

\* The result may go to a file, of which nothing has been read.
LEMMA OffloadStep ==
  ASSUME Inv, OnToolEnd
  PROVE  Inv'
<1>1. CommandTypes /\ StreamTypes /\ MessageTypes /\ EventTypes
  BY TypesAreTyped DEF Inv
<1>2. /\ UNCHANGED <<made, pipe, cmd, tctx, err, copied, taken, chunk, shown, halves, ticker,
                     outcome, result, offset, seen, note, buffered, reading>>
      /\ tool = "returned" /\ tool' = "stored"
  BY DEF OnToolEnd, commandVars, streamVars, eventVars
<1>3. offloaded' \in BOOLEAN
  BY DEF OnToolEnd
<1>4. StreamTypes'
  BY <1>1, <1>2 DEF StreamTypes
<1>5. TypeOK'
  BY <1>1, <1>2, <1>3, <1>4 DEF TypeOK, CommandTypes, StreamTypes, MessageTypes, EventTypes
<1>6. FlushInv' /\ RunInv' /\ OkIsComplete'
  BY <1>2 DEF Inv, FlushInv, RunInv, OkIsComplete, Returned, Whole
<1>7. ReadInv'
  BY <1>2 DEF Inv, ReadInv
<1> QED
  BY <1>5, <1>6, <1>7 DEF Inv

\* A page goes on where the pages before it ended, or is cut and nothing is read.
LEMMA ReadStep ==
  ASSUME Inv, NEW limit \in Limits, ReadPage(limit)
  PROVE  Inv'
<1> DEFINE lines == Lines(result)
           last == Min({offset - 1 + limit, Len(lines)})
           page == SubSeq(lines, offset, last)
<1>1. CommandTypes /\ StreamTypes /\ MessageTypes /\ EventTypes
  BY TypesAreTyped DEF Inv
<1>2. /\ UNCHANGED <<made, pipe, cmd, tctx, err, copied, taken, chunk, shown, halves, ticker,
                     tool, outcome, result, offloaded, buffered, reading>>
      /\ offloaded
  BY DEF ReadPage, commandVars, streamVars, eventVars
<1>3. \/ note' = "cut" /\ UNCHANGED <<offset, seen>>
      \/ /\ seen' = seen \o page
         /\ note' = IF last < Len(lines) THEN "more" ELSE "end"
         /\ offset' = last + 1
  BY DEF ReadPage
<1>4. /\ lines \in Seq(Seq(Bytes)) /\ Len(lines) \in Nat
      /\ limit \in Nat /\ limit # 0 /\ offset \in Nat /\ offset # 0
      /\ seen \in Seq(Seq(Bytes)) /\ Len(seen) = offset - 1 /\ offset - 1 <= Len(lines)
      /\ \A i \in 1..Len(seen) : seen[i] = lines[i]
  <2>1. lines \in Seq(Seq(Bytes))
    BY <1>1, LinesType DEF MessageTypes
  <2> HIDE DEF lines
  <2>2. Len(lines) \in Nat
    BY <2>1
  <2>3. Len(seen) = offset - 1 /\ offset - 1 <= Len(lines) /\ \A i \in 1..Len(seen) : seen[i] = lines[i]
    BY DEF Inv, ReadInv, lines
  <2> QED
    BY <1>1, <2>1, <2>2, <2>3, OutputAssumption DEF MessageTypes
<1> HIDE DEF lines
<1>5. /\ last \in Nat /\ offset - 1 <= last /\ last <= Len(lines)
  <2>1. offset - 1 + limit \in Nat
    BY <1>4
  <2>2. last = IF offset - 1 + limit <= Len(lines) THEN offset - 1 + limit ELSE Len(lines)
    BY <1>4, <2>1, MinPair
  <2> HIDE DEF last
  <2> QED
    BY <1>4, <2>2
<1> HIDE DEF last
<1>6. /\ seen' \in Seq(Seq(Bytes)) /\ offset' \in Nat \ {0} /\ note' \in {"more", "cut", "end"}
      /\ Len(seen') = offset' - 1 /\ Len(seen') <= Len(lines)
      /\ \A i \in 1..Len(seen') : seen'[i] = lines[i]
      /\ note' = "end" => Len(seen') = Len(lines)
  <2>1. CASE note' = "cut" /\ UNCHANGED <<offset, seen>>
    BY <1>4, <2>1
  <2>2. CASE /\ seen' = seen \o page
             /\ note' = IF last < Len(lines) THEN "more" ELSE "end"
             /\ offset' = last + 1
    <3> DEFINE a == offset - 1
    <3>1. a \in Nat /\ a + 1 = offset /\ a <= last /\ last <= Len(lines) /\ Len(seen) = a
      BY <1>4, <1>5
    <3>2. /\ page \in Seq(Seq(Bytes)) /\ Len(page) = last - a
          /\ \A i \in 1..(last - a) : page[i] = lines[a + i]
      <4>1. /\ SubSeq(lines, a + 1, last) \in Seq(Seq(Bytes))
            /\ Len(SubSeq(lines, a + 1, last)) = last - a
            /\ \A i \in 1..(last - a) : SubSeq(lines, a + 1, last)[i] = lines[a + i]
        <5> HIDE DEF a
        <5> QED
          BY <1>4, <1>5, <3>1, PartOf
      <4> QED
        BY <3>1, <4>1
    <3> HIDE DEF page, a
    <3>3. /\ seen \o page \in Seq(Seq(Bytes)) /\ Len(seen \o page) = Len(seen) + Len(page)
          /\ \A i \in 1..Len(seen) + Len(page) :
               (seen \o page)[i] = IF i <= Len(seen) THEN seen[i] ELSE page[i - Len(seen)]
      BY <1>4, <3>2, ConcatProperties
    <3>4. Len(seen \o page) = last
      BY <1>5, <3>1, <3>2, <3>3
    <3>5. ASSUME NEW i \in 1..last
          PROVE  (seen \o page)[i] = lines[i]
      <4>1. CASE i <= a
        BY <1>4, <1>5, <3>1, <3>2, <3>3, <4>1
      <4>2. CASE ~ (i <= a)
        <5>1. i - a \in 1..(last - a) /\ i \in 1..Len(seen) + Len(page) /\ ~ (i <= Len(seen))
          BY <1>5, <3>1, <3>2, <4>2
        <5>2. (seen \o page)[i] = page[i - Len(seen)]
          BY <3>3, <5>1
        <5>3. page[i - a] = lines[a + (i - a)] /\ a + (i - a) = i
          BY <3>1, <3>2, <5>1
        <5> QED
          BY <3>1, <5>2, <5>3
      <4> QED
        BY <4>1, <4>2
    <3>6. note' \in {"more", "end"} /\ (note' = "end" => last = Len(lines))
      BY <1>4, <1>5, <2>2
    <3> QED
      BY <1>5, <2>2, <3>3, <3>4, <3>5, <3>6
  <2> QED
    BY <1>3, <2>1, <2>2
<1>7. MessageTypes'
  BY <1>1, <1>2, <1>6 DEF MessageTypes
<1>8. TypeOK'
  BY <1>1, <1>2, <1>7 DEF TypeOK, CommandTypes, StreamTypes, MessageTypes, EventTypes
<1>9. FlushInv' /\ RunInv' /\ OkIsComplete'
  BY <1>2 DEF Inv, FlushInv, RunInv, OkIsComplete, Returned, Whole
<1>10. ReadInv'
  BY <1>2, <1>6 DEF Inv, ReadInv, lines
<1> QED
  BY <1>8, <1>9, <1>10 DEF Inv

-----------------------------------------------------------------------------
(* The theorems                                                            *)

\* It holds at first.
LEMMA InitInv == Init => Inv
<1> SUFFICES ASSUME Init PROVE Inv
  OBVIOUS
<1>1. /\ made = <<>> /\ Len(made) = 0 /\ made \in Seq(Bytes)
      /\ seen = <<>> /\ Len(seen) = 0 /\ seen \in Seq(Seq(Bytes))
      /\ result = <<>> /\ result \in Seq(Bytes)
  BY EmptySeq DEF Init
<1>2. CommandTypes
  BY <1>1, OutputAssumption DEF Init, CommandTypes
<1>3. StreamTypes
  <2>1. 1..0 = {}
    OBVIOUS
  <2> QED
    BY <1>1, <2>1 DEF Init, StreamTypes
<1>4. MessageTypes
  <2>1. offloaded \in BOOLEAN
    BY Zenon DEF Init
  <2>2. outcome = "none" /\ offset = 1 /\ note = "none"
    BY DEF Init
  <2>3. offset \in Nat \ {0}
    BY <2>2
  <2>4. result \in Seq(Bytes) /\ seen \in Seq(Seq(Bytes))
    BY <1>1
  <2> QED
    BY <2>1, <2>2, <2>3, <2>4 DEF MessageTypes
<1>5. EventTypes
  BY OutputAssumption DEF Init, EventTypes
<1>6. TypeOK
  BY <1>2, <1>3, <1>4, <1>5, TypesAreTyped
<1>7. FlushInv /\ RunInv /\ OkIsComplete
  BY DEF Init, FlushInv, RunInv, OkIsComplete, Returned
<1>8. Len(Lines(result)) \in Nat
  BY <1>1, LinesType
<1>9. ReadInv
  BY <1>1, <1>8 DEF Init, ReadInv
<1> QED
  BY <1>6, <1>7, <1>9 DEF Inv

\* Every step keeps it.
LEMMA NextInv == Inv /\ [Next]_vars => Inv'
<1> SUFFICES ASSUME Inv, [Next]_vars PROVE Inv'
  OBVIOUS
<1>1. ASSUME NEW b \in Bytes, Output(b) PROVE Inv'
  BY <1>1, OutputStep
<1>2. CASE Exit \/ CloseOutput \/ Kill
  BY <1>2, EndStep
<1>3. CASE Deadline \/ Cancel
  BY <1>3, TctxStep
<1>4. ASSUME NEW n \in 1..MaxBytes, Copy(n) PROVE Inv'
  BY <1>4, CopyStep
<1>5. CASE Tick \/ TickStop \/ Deliver \/ StopReading
  BY <1>5, TickStep
<1>6. CASE TickFlush
  <2>1. FlushBy("ticker")
    BY <1>6 DEF TickFlush, FlushBy
  <2> QED
    BY <2>1, FlushStep
<1>7. CASE CloseFlush
  <2>1. FlushBy("tool")
    BY <1>7 DEF CloseFlush, FlushBy
  <2> QED
    BY <2>1, FlushStep
<1>8. CASE TickSend \/ CloseSend
  BY <1>8, SendStep
<1>9. CASE RunReturns
  BY <1>9, RunStep
<1>10. CASE Return
  BY <1>10, ReturnStep
<1>11. CASE OnToolEnd
  BY <1>11, OffloadStep
<1>12. ASSUME NEW limit \in Limits, ReadPage(limit) PROVE Inv'
  BY <1>12, ReadStep
<1>13. CASE UNCHANGED vars
  <2>1. /\ UNCHANGED <<made, pipe, cmd, tctx, err, copied, taken, chunk, shown, halves>>
        /\ UNCHANGED <<ticker, tool, outcome, result, offloaded, offset, seen, note,
                       buffered, reading>>
    BY <1>13 DEF vars, commandVars, streamVars, messageVars, eventVars
  <2>2. CommandTypes /\ StreamTypes /\ MessageTypes /\ EventTypes
    BY TypesAreTyped DEF Inv
  <2>3. CommandTypes' /\ StreamTypes' /\ MessageTypes' /\ EventTypes'
    BY <2>1, <2>2 DEF CommandTypes, StreamTypes, MessageTypes, EventTypes
  <2>4. TypeOK'
    BY <2>3 DEF TypeOK, CommandTypes, StreamTypes, MessageTypes, EventTypes
  <2>5. FlushInv' /\ RunInv' /\ OkIsComplete' /\ ReadInv'
    BY <2>1 DEF Inv, FlushInv, RunInv, OkIsComplete, ReadInv, Returned, Whole
  <2> QED
    BY <2>4, <2>5 DEF Inv
<1> QED
  BY <1>1, <1>2, <1>3, <1>4, <1>5, <1>6, <1>7, <1>8, <1>9, <1>10, <1>11, <1>12, <1>13
     DEF Next

\* So it holds in every run.
LEMMA Always == Spec => []Inv
<1> QED
  BY InitInv, NextInv, PTL DEF Spec

\* The types hold in every run: streamWriter.mu is held by at most one of the two that flush,
\* and who holds it has something to show; the channel of events never holds more than it can.
THEOREM OutputTyped == Spec => []TypeOK
<1>1. Inv => TypeOK
  BY DEF Inv
<1> QED
  BY <1>1, Always, PTL

\* When a call returns, all of its result, white space aside, has been shown live, unless the
\* output ends inside a character (streamWriter, tools.go:284).
THEOREM AllIsShown == Spec => []LiveComplete
<1>1. ASSUME Inv PROVE LiveComplete
  <2> SUFFICES ASSUME Returned, Whole, NEW i \in 1..copied, made[i] # "n"
               PROVE  i \in shown
    BY DEF LiveComplete
  <2>1. taken = copied /\ chunk = {}
    BY <1>1 DEF Inv, FlushInv, Returned
  <2> QED
    BY <1>1, <2>1 DEF Inv, FlushInv
<1> QED
  BY <1>1, Always, PTL

\* Nothing is shown once the call has returned, unless the output ends inside a character
\* (close, tools.go:361).
THEOREM NothingAfterwards == Spec => QuietAfterReturn
<1>1. Inv /\ [Next]_vars => [Returned /\ Whole => shown' = shown]_shown
  <2> SUFFICES ASSUME Inv, [Next]_vars, Returned, Whole
               PROVE  shown' = shown
    OBVIOUS
  <2>1. chunk = {} /\ StreamTypes
    BY TypesAreTyped DEF Inv, FlushInv
  <2>2. ~ TickSend /\ ~ CloseSend
    BY <2>1 DEF TickSend, CloseSend, StreamTypes
  <2> QED
    BY <2>2 DEF Next, Output, Exit, CloseOutput, Deadline, Cancel, Kill, Copy, Tick, TickFlush,
       TickStop, RunReturns, CloseFlush, Return, OnToolEnd, ReadPage, Deliver, StopReading,
       streamVars, vars
<1> QED
  BY <1>1, Always, PTL DEF Spec, QuietAfterReturn

\* A result without an error or a marker is all that the command wrote, and the command ended
\* by itself with code 0 (terminalTool, tools.go:252-268).
THEOREM OkIsAll == Spec => []OkIsComplete
<1>1. Inv => OkIsComplete
  BY DEF Inv
<1> QED
  BY <1>1, Always, PTL

\* Pages of any limits, each at the offset the last one named, give every line of the result
\* once and in order (readTool, tools.go:94-111).
THEOREM PagesAreWhole == Spec => []ReadBackWhole
<1>1. ASSUME Inv PROVE ReadBackWhole
  <2> SUFFICES ASSUME note = "end" PROVE seen = Lines(result)
    BY DEF ReadBackWhole
  <2> DEFINE lines == Lines(result)
  <2>1. seen \in Seq(Seq(Bytes)) /\ lines \in Seq(Seq(Bytes))
    BY <1>1, TypesAreTyped, LinesType DEF Inv, MessageTypes
  <2>2. Len(seen) = Len(lines) /\ \A i \in 1..Len(seen) : seen[i] = lines[i]
    BY <1>1 DEF Inv, ReadInv
  <2> HIDE DEF lines
  <2>3. seen = lines
    BY <2>1, <2>2, SeqEqual
  <2> QED
    BY <2>3 DEF lines
<1> QED
  BY <1>1, Always, PTL

=============================================================================
