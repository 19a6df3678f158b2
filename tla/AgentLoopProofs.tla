--------------------------- MODULE AgentLoopProofs ---------------------------
(***************************************************************************)
(* AgentLoop: proofs for any number of Runs, iterations, calls and hooks.  *)
(* RunInv says, for every point of Run, what has been decided about its    *)
(* end; LateInv what the loop has done since its ctx ended; HistoryInv     *)
(* where the messages may lack answers, and that Fix can then mend them.   *)
(***************************************************************************)
EXTENDS AgentLoop, SequenceTheorems, FiniteSetTheorems, TLAPS

-----------------------------------------------------------------------------
(* The invariants                                                          *)

\* Where the loop has not ended.
Looping == {"onStart", "guides", "head", "modelStart", "inModel", "modelEnd", "batch",
            "loopHooks"}

\* Where it has.
Ended == {"endHooks", "closing", "done"}

\* The error event of the run itself.
OfRun == IF reason = "error" THEN 1 ELSE 0

\* Before the end hooks: nothing is returned, reported or recorded, and Stop is set
\* only where it is about to be looked at.
BeforeEnd ==
  pc \notin Ended =>
    /\ ret = "nil" /\ ~lastError /\ errors = 0 /\ endRan = 0
    /\ pc \in Looping => reason = "none" /\ ~wrapped
    /\ pc \in {"modelStart", "inModel", "modelEnd", "batch", "inWrap"} => ~stop

\* From the reply to finalWrap: what the reason found after the loop rests on.
AfterLoop ==
  /\ pc = "modelEnd" => Last(msgs) = Assistant(Last(msgs).calls)
  /\ pc = "post" =>
       /\ ~wrapped /\ reason \in {"none", "completed", "aborted"}
       /\ reason = "completed" => ~stop /\ Last(msgs) = Assistant(<<>>)
       /\ reason = "aborted" => stop
       /\ reason = "none" /\ ~stop => iter = MaxIterations
  /\ pc = "inWrap" => reason = "max_iterations" /\ iter = MaxIterations /\ wrapped

\* The Run has ended: its reason explains it, and ret and errors agree with it.
AtEnd ==
  pc \in Ended =>
    /\ reason # "none"
    /\ reason = "completed" => ~stop /\ Last(msgs) = Assistant(<<>>)
    /\ reason = "aborted" => stop
    /\ reason = "max_iterations" => iter = MaxIterations /\ ~stop /\ (wrapped \/ cancelled)
    /\ reason = "cancelled" => cancelled
    /\ (reason = "error") <=> lastError
    /\ (ret = "run") <=> (reason \in {"cancelled", "error"})
    /\ pc = "endHooks" => errors = OfRun /\ ret # "endHook"
    /\ errors - OfRun \in {0, 1}
    /\ pc # "endHooks" /\ endRan < NEnd => errors - OfRun = 1
    /\ ret = "endHook" => errors - OfRun = 1
    /\ ret = "nil" => errors - OfRun = 0

RunInv == BeforeEnd /\ AfterLoop /\ AtEnd

\* Since ctx ended at most one model call has started, and the tests of ctx bar another.
LateInv ==
  /\ lateCalls <= 1
  /\ ~cancelled => lateCalls = 0
  /\ pc \in {"onStart", "guides", "modelStart"} => lateCalls = 0

\* None of the calls of the message at p is answered anywhere.
Unanswered(ms, p) == \A k \in DOMAIN ms[p].calls : ms[p].calls[k] \notin AnsweredIds(ms)

\* What Fix can mend: a call lacks an answer only when all calls of its message do.
Mendable(ms) ==
  /\ \A p \in DOMAIN ms : ms[p].calls # <<>> => ms[p].role = "assistant"
  /\ \A p \in DOMAIN ms : AnsweredAt(ms, p) \/ Unanswered(ms, p)
  /\ AnsweredIds(ms) \subseteq CalledIds(ms)

\* The history at each point of Run; the reply that has just come may lack answers.
HistoryInv ==
  /\ Mendable(msgs)
  /\ \A i \in CalledIds(msgs) : i < nextId
  /\ pc \in {"guides", "head", "modelStart", "inModel", "loopHooks", "inWrap"} => Complete(msgs)
  /\ pc = "post" /\ ~stop => Complete(msgs)
  /\ pc \in {"modelEnd", "batch"} =>
       /\ msgs # <<>>
       /\ \A p \in 1 .. Len(msgs) - 1 : AnsweredAt(msgs, p)

-----------------------------------------------------------------------------
(* FlattenSeq                                                              *)

\* Induction over the natural numbers, for a set instead of a predicate.
LEMMA NatSetInduction ==
  ASSUME NEW S, 0 \in S, \A n \in Nat : n \in S => n + 1 \in S
  PROVE  Nat \subseteq S
<1>1. IsWellFoundedOn(OpToRel(<, Nat), Nat)
  BY NatLessThanWellFounded
<1>2. ASSUME NEW T, T \subseteq Nat, T # {}
      PROVE  \E x \in T : \A y \in T : ~ (<<y, x>> \in OpToRel(<, Nat))
  BY <1>1, <1>2, WFMin
<1>3. SUFFICES ASSUME Nat \ S # {} PROVE FALSE
  OBVIOUS
<1>4. PICK x \in Nat \ S : \A y \in Nat \ S : ~ (<<y, x>> \in OpToRel(<, Nat))
  BY <1>2, <1>3
<1>5. \A y \in Nat \ S : ~ (y < x)
  BY <1>4 DEF OpToRel
<1>6. x # 0 /\ x - 1 \in Nat
  OBVIOUS
<1>7. QED
  BY <1>5, <1>6

\* What FlattenSeq has put together of the first i of n sequences.
Joined(ss, n) ==
  CHOOSE f : f = [i \in 1 .. n |-> IF i = 1 THEN ss[i] ELSE f[i - 1] \o ss[i]]

\* The recursive function behind FlattenSeq exists: it satisfies its own equation.
LEMMA JoinedDef ==
  ASSUME NEW ss, NEW n \in Nat
  PROVE  Joined(ss, n) = [i \in 1 .. n |-> IF i = 1 THEN ss[i] ELSE Joined(ss, n)[i - 1] \o ss[i]]
<1> DEFINE Eqn(f, m) == f = [i \in 1 .. m |-> IF i = 1 THEN ss[i] ELSE f[i - 1] \o ss[i]]
           S == {m \in Nat : \E f : Eqn(f, m)}
<1>1. 0 \in S
  <2>1. Eqn([i \in 1 .. 0 |-> 0], 0)
    OBVIOUS
  <2>2. QED
    BY <2>1
<1>2. ASSUME NEW m \in Nat, m \in S
      PROVE  m + 1 \in S
  <2>1. PICK f : Eqn(f, m)
    BY <1>2
  <2> DEFINE g == [i \in 1 .. m + 1 |->
                     IF i = m + 1 THEN IF i = 1 THEN ss[i] ELSE f[i - 1] \o ss[i] ELSE f[i]]
  <2>2. \A i \in 1 .. m : f[i] = IF i = 1 THEN ss[i] ELSE f[i - 1] \o ss[i]
    BY <2>1
  <2>3. \A i \in 1 .. m + 1 : g[i] = IF i = 1 THEN ss[i] ELSE f[i - 1] \o ss[i]
    BY <2>2
  <2>4. \A i \in 1 .. m + 1 : i # 1 => i - 1 \in 1 .. m + 1 /\ i - 1 # m + 1
    OBVIOUS
  <2>5. \A i \in 1 .. m + 1 : i # 1 => g[i - 1] = f[i - 1]
    BY <2>4
  <2>6. \A i \in 1 .. m + 1 : g[i] = IF i = 1 THEN ss[i] ELSE g[i - 1] \o ss[i]
    BY <2>3, <2>5
  <2>7. Eqn(g, m + 1)
    <3> HIDE DEF g
    <3>1. g = [i \in 1 .. m + 1 |-> g[i]]
      BY DEF g
    <3>2. QED
      BY <2>6, <3>1
  <2>8. m + 1 \in Nat
    OBVIOUS
  <2>9. QED
    <3> HIDE DEF g, Eqn
    <3>1. QED
      BY <2>7, <2>8
<1>3. \E f : Eqn(f, n)
  <2> HIDE DEF S
  <2>1. n \in S
    BY <1>1, <1>2, NatSetInduction
  <2>2. QED
    BY <2>1 DEF S
<1>4. QED
  BY <1>3 DEF Joined

\* The same from no sequence at all.
Part(ss, m) == IF m = 0 THEN <<>> ELSE Joined(ss, Len(ss))[m]

\* It grows by one sequence at a time, and FlattenSeq is the whole of it.
LEMMA PartStep ==
  ASSUME NEW S, NEW ss \in Seq(Seq(S))
  PROVE  /\ Part(ss, 0) = <<>>
         /\ \A m \in 0 .. Len(ss) - 1 : Part(ss, m + 1) = Part(ss, m) \o ss[m + 1]
         /\ FlattenSeq(ss) = Part(ss, Len(ss))
<1>1. Len(ss) \in Nat /\ \A i \in 1 .. Len(ss) : ss[i] \in Seq(S)
  OBVIOUS
<1>2. \A i \in 1 .. Len(ss) :
        Joined(ss, Len(ss))[i] = IF i = 1 THEN ss[i] ELSE Joined(ss, Len(ss))[i - 1] \o ss[i]
  <2> DEFINE J == Joined(ss, Len(ss))
  <2>1. J = [i \in 1 .. Len(ss) |-> IF i = 1 THEN ss[i] ELSE J[i - 1] \o ss[i]]
    BY <1>1, JoinedDef
  <2> HIDE DEF J
  <2>2. \A i \in 1 .. Len(ss) : J[i] = IF i = 1 THEN ss[i] ELSE J[i - 1] \o ss[i]
    BY <2>1
  <2> QED
    BY <2>2 DEF J
<1>3. ASSUME NEW m \in 0 .. Len(ss) - 1
      PROVE  Part(ss, m + 1) = Part(ss, m) \o ss[m + 1]
  <2>1. m + 1 \in 1 .. Len(ss) /\ m + 1 # 0 /\ m + 1 - 1 = m
    BY <1>1
  <2>2. Part(ss, m + 1) = IF m = 0 THEN ss[m + 1] ELSE Joined(ss, Len(ss))[m] \o ss[m + 1]
    BY <1>2, <2>1 DEF Part
  <2>3. <<>> \o ss[m + 1] = ss[m + 1]
    BY <1>1, <2>1, ConcatEmptySeq
  <2> QED
    BY <2>2, <2>3 DEF Part
<1>4. FlattenSeq(ss) = Part(ss, Len(ss))
  <2>1. CASE Len(ss) = 0
    BY <2>1 DEF FlattenSeq, Part
  <2>2. CASE Len(ss) # 0
    BY <2>2 DEF FlattenSeq, Part, Joined
  <2> QED
    BY <2>1, <2>2
<1> QED
  BY <1>3, <1>4 DEF Part

\* Flattening sequences over S gives a sequence over S.
LEMMA PartType ==
  ASSUME NEW S, NEW ss \in Seq(Seq(S))
  PROVE  \A m \in 0 .. Len(ss) : Part(ss, m) \in Seq(S)
<1> DEFINE T == {m \in Nat : m <= Len(ss) => Part(ss, m) \in Seq(S)}
<1>1. Len(ss) \in Nat /\ \A i \in 1 .. Len(ss) : ss[i] \in Seq(S)
  OBVIOUS
<1>2. 0 \in T
  <2>1. Part(ss, 0) = <<>> /\ <<>> \in Seq(S)
    BY PartStep, EmptySeq
  <2> QED
    BY <2>1
<1>3. ASSUME NEW m \in Nat, m \in T
      PROVE  m + 1 \in T
  <2> SUFFICES ASSUME m + 1 <= Len(ss)
               PROVE  Part(ss, m + 1) \in Seq(S)
    OBVIOUS
  <2>1. m \in 0 .. Len(ss) - 1 /\ m + 1 \in 1 .. Len(ss)
    BY <1>1
  <2>2. Part(ss, m) \in Seq(S) /\ ss[m + 1] \in Seq(S)
    BY <1>1, <1>3, <2>1
  <2>3. Part(ss, m + 1) = Part(ss, m) \o ss[m + 1]
    BY <2>1, PartStep
  <2>4. Part(ss, m) \o ss[m + 1] \in Seq(S)
    BY <2>2, ConcatProperties
  <2> QED
    BY <2>3, <2>4
<1> HIDE DEF T
<1>4. Nat \subseteq T
  BY <1>2, <1>3, NatSetInduction
<1> QED
  BY <1>1, <1>4 DEF T

\* What has been put together is not touched any more.
LEMMA PartPrefix ==
  ASSUME NEW S, NEW ss \in Seq(Seq(S)), NEW m \in 0 .. Len(ss)
  PROVE  \A n \in m .. Len(ss) :
           /\ Len(Part(ss, m)) <= Len(Part(ss, n))
           /\ \A q \in 1 .. Len(Part(ss, m)) : Part(ss, n)[q] = Part(ss, m)[q]
<1> DEFINE Extends(n) == /\ Len(Part(ss, m)) <= Len(Part(ss, n))
                         /\ \A q \in 1 .. Len(Part(ss, m)) : Part(ss, n)[q] = Part(ss, m)[q]
           T == {d \in Nat : m + d <= Len(ss) => Extends(m + d)}
<1>1. Len(ss) \in Nat /\ \A i \in 1 .. Len(ss) : ss[i] \in Seq(S)
  OBVIOUS
<1>2. 0 \in T
  <2>1. Part(ss, m) \in Seq(S) /\ m + 0 = m
    BY PartType
  <2> QED
    BY <2>1
<1>3. ASSUME NEW d \in Nat, d \in T
      PROVE  d + 1 \in T
  <2> SUFFICES ASSUME m + (d + 1) <= Len(ss)
               PROVE  Extends(m + (d + 1))
    OBVIOUS
  <2> DEFINE n == m + d
  <2>1. n \in 0 .. Len(ss) - 1 /\ m + (d + 1) = n + 1 /\ n + 1 \in 1 .. Len(ss)
    BY <1>1
  <2>2. Extends(n)
    BY <1>1, <1>3
  <2> HIDE DEF n
  <2>3. Part(ss, n) \in Seq(S) /\ Part(ss, m) \in Seq(S) /\ ss[n + 1] \in Seq(S)
    BY <1>1, <2>1, PartType
  <2>4. Part(ss, n + 1) = Part(ss, n) \o ss[n + 1]
    BY <2>1, PartStep
  <2>5. Extends(n + 1)
    BY <2>2, <2>3, <2>4
  <2> QED
    BY <2>1, <2>5
<1> HIDE DEF T
<1>4. Nat \subseteq T
  BY <1>2, <1>3, NatSetInduction
<1>5. ASSUME NEW n \in m .. Len(ss)
      PROVE  Extends(n)
  <2>1. n - m \in Nat /\ m + (n - m) = n /\ n <= Len(ss)
    BY <1>1
  <2>2. n - m \in T
    BY <1>4, <2>1
  <2> QED
    BY <2>1, <2>2 DEF T
<1> QED
  BY <1>5

\* Where the i-th of the sequences starts in the result: behind this position.
At(ss, i) == Len(Part(ss, i - 1))

\* Each sequence starts where the one before it ends.
LEMMA AtStep ==
  ASSUME NEW S, NEW ss \in Seq(Seq(S))
  PROVE  /\ At(ss, 1) = 0
         /\ \A i \in 1 .. Len(ss) + 1 : At(ss, i) \in Nat
         /\ \A i \in 1 .. Len(ss) : At(ss, i + 1) = At(ss, i) + Len(ss[i])
         /\ FlattenSeq(ss) \in Seq(S) /\ Len(FlattenSeq(ss)) = At(ss, Len(ss) + 1)
<1>1. Len(ss) \in Nat /\ \A i \in 1 .. Len(ss) : ss[i] \in Seq(S)
  OBVIOUS
<1>2. \A m \in 0 .. Len(ss) : Part(ss, m) \in Seq(S)
  BY PartType
<1>3. At(ss, 1) = 0
  BY PartStep DEF At
<1>4. ASSUME NEW i \in 1 .. Len(ss) + 1
      PROVE  At(ss, i) \in Nat
  <2>1. i - 1 \in 0 .. Len(ss)
    BY <1>1
  <2> QED
    BY <1>2, <2>1 DEF At
<1>5. ASSUME NEW i \in 1 .. Len(ss)
      PROVE  At(ss, i + 1) = At(ss, i) + Len(ss[i])
  <2>1. i - 1 \in 0 .. Len(ss) - 1 /\ i - 1 \in 0 .. Len(ss) /\ i + 1 - 1 = i /\ i - 1 + 1 = i
    BY <1>1
  <2>2. Part(ss, i) = Part(ss, i - 1) \o ss[i]
    BY <2>1, PartStep
  <2>3. Part(ss, i - 1) \in Seq(S) /\ ss[i] \in Seq(S)
    BY <1>1, <1>2, <2>1
  <2>4. Len(Part(ss, i)) = Len(Part(ss, i - 1)) + Len(ss[i])
    BY <2>2, <2>3, ConcatProperties
  <2>5. At(ss, i + 1) = Len(Part(ss, i)) /\ At(ss, i) = Len(Part(ss, i - 1))
    BY <2>1 DEF At
  <2> QED
    BY <2>4, <2>5
<1>6. FlattenSeq(ss) \in Seq(S) /\ Len(FlattenSeq(ss)) = At(ss, Len(ss) + 1)
  <2>1. FlattenSeq(ss) = Part(ss, Len(ss))
    BY PartStep
  <2>2. Len(ss) + 1 - 1 = Len(ss) /\ Len(ss) \in 0 .. Len(ss)
    BY <1>1
  <2> QED
    BY <1>2, <2>1, <2>2 DEF At
<1> QED
  BY <1>3, <1>4, <1>5, <1>6

\* Each element of each sequence is found in the result.
LEMMA FlattenHas ==
  ASSUME NEW S, NEW ss \in Seq(Seq(S)), NEW i \in 1 .. Len(ss), NEW r \in 1 .. Len(ss[i])
  PROVE  /\ At(ss, i) + r \in 1 .. Len(FlattenSeq(ss))
         /\ FlattenSeq(ss)[At(ss, i) + r] = ss[i][r]
<1>1. Len(ss) \in Nat /\ ss[i] \in Seq(S)
  OBVIOUS
<1>2. i \in 0 .. Len(ss) /\ i - 1 \in 0 .. Len(ss) /\ i - 1 \in 0 .. Len(ss) - 1 /\ i - 1 + 1 = i
  BY <1>1
<1>3. Part(ss, i - 1) \in Seq(S) /\ Part(ss, i) = Part(ss, i - 1) \o ss[i]
  BY <1>2, PartType, PartStep
<1>4. /\ Len(Part(ss, i)) = At(ss, i) + Len(ss[i]) /\ At(ss, i) \in Nat
      /\ Part(ss, i)[At(ss, i) + r] = ss[i][r]
  <2> DEFINE before == Part(ss, i - 1)
             piece  == ss[i]
  <2>1. before \in Seq(S) /\ piece \in Seq(S) /\ Part(ss, i) = before \o piece
    BY <1>1, <1>3
  <2>2. At(ss, i) = Len(before) /\ r \in 1 .. Len(piece)
    BY DEF At
  <2> HIDE DEF before, piece
  <2>3. /\ Len(before \o piece) = Len(before) + Len(piece) /\ Len(before) \in Nat
        /\ (before \o piece)[Len(before) + r] = piece[r]
    BY <2>1, <2>2
  <2>4. Part(ss, i)[At(ss, i) + r] = piece[r] /\ Len(Part(ss, i)) = At(ss, i) + Len(piece)
    BY <2>1, <2>2, <2>3
  <2> QED
    BY <2>2, <2>3, <2>4 DEF piece
<1>5. /\ Len(Part(ss, i)) <= Len(FlattenSeq(ss))
      /\ \A q \in 1 .. Len(Part(ss, i)) : FlattenSeq(ss)[q] = Part(ss, i)[q]
  <2>1. Len(ss) \in i .. Len(ss) /\ FlattenSeq(ss) = Part(ss, Len(ss))
    BY <1>1, PartStep
  <2> QED
    BY <1>2, <2>1, PartPrefix
<1>6. Len(FlattenSeq(ss)) \in Nat /\ Len(ss[i]) \in Nat
  <2>1. FlattenSeq(ss) \in Seq(S)
    BY AtStep
  <2> QED
    BY <1>1, <2>1
<1>7. At(ss, i) + r \in 1 .. Len(Part(ss, i)) /\ At(ss, i) + r \in 1 .. Len(FlattenSeq(ss))
  BY <1>4, <1>5, <1>6
<1> QED
  BY <1>4, <1>5, <1>7

\* And nothing else is.
LEMMA FlattenHasOnly ==
  ASSUME NEW S, NEW ss \in Seq(Seq(S)), NEW q \in 1 .. Len(FlattenSeq(ss))
  PROVE  \E i \in 1 .. Len(ss) : \E r \in 1 .. Len(ss[i]) : q = At(ss, i) + r
<1>1. Len(ss) \in Nat /\ \A i \in 1 .. Len(ss) : ss[i] \in Seq(S) /\ Len(ss[i]) \in Nat
  OBVIOUS
<1>2. q \in Nat /\ q >= 1 /\ q <= At(ss, Len(ss) + 1)
  BY AtStep
<1>3. PICK i \in 1 .. Len(ss) : At(ss, i) < q /\ q <= At(ss, i + 1)
  <2> SUFFICES ASSUME \A i \in 1 .. Len(ss) : ~(At(ss, i) < q /\ q <= At(ss, i + 1))
               PROVE  FALSE
    OBVIOUS
  <2> DEFINE T == {m \in Nat : m <= Len(ss) => At(ss, m + 1) < q}
  <2>1. 0 \in T
    BY <1>2, AtStep
  <2>2. ASSUME NEW m \in Nat, m \in T
        PROVE  m + 1 \in T
    <3> SUFFICES ASSUME m + 1 <= Len(ss)
                 PROVE  At(ss, m + 1 + 1) < q
      OBVIOUS
    <3>1. At(ss, m + 1) < q /\ m + 1 \in 1 .. Len(ss) /\ m + 1 + 1 \in 1 .. Len(ss) + 1
      BY <1>1, <2>2
    <3>2. At(ss, m + 1 + 1) \in Nat
      BY <3>1, AtStep
    <3> QED
      BY <1>2, <3>1, <3>2
  <2> HIDE DEF T
  <2>3. Len(ss) \in T
    BY <1>1, <2>1, <2>2, NatSetInduction
  <2>4. At(ss, Len(ss) + 1) < q /\ At(ss, Len(ss) + 1) \in Nat
    BY <1>1, <2>3, AtStep DEF T
  <2> QED
    BY <1>2, <2>4
<1>4. At(ss, i) \in Nat /\ At(ss, i + 1) = At(ss, i) + Len(ss[i])
  BY <1>1, AtStep
<1>5. q - At(ss, i) \in 1 .. Len(ss[i]) /\ q = At(ss, i) + (q - At(ss, i))
  BY <1>1, <1>2, <1>3, <1>4
<1> QED
  BY <1>5

\* Sequences that are all empty make an empty one.
LEMMA FlattenEmpties ==
  ASSUME NEW S, NEW ss \in Seq(Seq(S)), \A i \in 1 .. Len(ss) : ss[i] = <<>>
  PROVE  FlattenSeq(ss) = <<>>
<1>1. FlattenSeq(ss) \in Seq(S)
  BY AtStep
<1>2. 1 \notin 1 .. Len(FlattenSeq(ss))
  <2>1. ASSUME NEW q \in 1 .. Len(FlattenSeq(ss)) PROVE FALSE
    <3>1. PICK i \in 1 .. Len(ss) : \E r \in 1 .. Len(ss[i]) : q = At(ss, i) + r
      BY FlattenHasOnly
    <3>2. Len(ss[i]) = 0
      <4>1. ss[i] = <<>>
        OBVIOUS
      <4> QED
        BY <4>1
    <3> QED
      BY <3>1, <3>2
  <2> QED
    BY <2>1
<1>3. Len(FlattenSeq(ss)) = 0
  BY <1>1, <1>2
<1> QED
  BY <1>1, <1>3

\* Sequences of one element each are one sequence of these elements.
LEMMA FlattenSingles ==
  ASSUME NEW S, NEW e \in Seq(S), NEW ss \in Seq(Seq(S)), Len(ss) = Len(e),
         \A i \in 1 .. Len(e) : ss[i] = <<e[i]>>
  PROVE  FlattenSeq(ss) = e
<1>1. Len(e) \in Nat /\ \A i \in 1 .. Len(ss) : Len(ss[i]) = 1 /\ ss[i][1] = e[i]
  <2>1. ASSUME NEW i \in 1 .. Len(ss)
        PROVE  Len(ss[i]) = 1 /\ ss[i][1] = e[i]
    <3>1. ss[i] = <<e[i]>>
      OBVIOUS
    <3> QED
      BY <3>1
  <2> QED
    BY <2>1
<1>2. \A i \in 1 .. Len(e) + 1 : At(ss, i) = i - 1
  <2> DEFINE T == {m \in Nat : m <= Len(e) => At(ss, m + 1) = m}
  <2>1. 0 \in T
    BY AtStep
  <2>2. ASSUME NEW m \in Nat, m \in T
        PROVE  m + 1 \in T
    <3> SUFFICES ASSUME m + 1 <= Len(e)
                 PROVE  At(ss, m + 1 + 1) = m + 1
      OBVIOUS
    <3>1. m + 1 \in 1 .. Len(ss) /\ At(ss, m + 1) = m
      BY <1>1, <2>2
    <3> QED
      BY <1>1, <3>1, AtStep
  <2> HIDE DEF T
  <2>3. Nat \subseteq T
    BY <2>1, <2>2, NatSetInduction
  <2>4. ASSUME NEW i \in 1 .. Len(e) + 1
        PROVE  At(ss, i) = i - 1
    <3>1. i - 1 \in T /\ i - 1 \in Nat /\ i - 1 + 1 = i /\ i - 1 <= Len(e)
      BY <1>1, <2>3
    <3> QED
      BY <3>1 DEF T
  <2> QED
    BY <2>4
<1>3. FlattenSeq(ss) \in Seq(S) /\ Len(FlattenSeq(ss)) = Len(e)
  <2>1. Len(e) + 1 \in 1 .. Len(e) + 1 /\ Len(e) + 1 - 1 = Len(e)
    BY <1>1
  <2>2. At(ss, Len(ss) + 1) = Len(e)
    BY <1>2, <2>1
  <2> QED
    BY <2>2, AtStep
<1>4. ASSUME NEW i \in 1 .. Len(e)
      PROVE  FlattenSeq(ss)[i] = e[i]
  <2>1. i \in 1 .. Len(e) + 1 /\ i - 1 + 1 = i /\ i \in 1 .. Len(ss)
    BY <1>1
  <2>2. At(ss, i) + 1 = i /\ 1 \in 1 .. Len(ss[i])
    BY <1>1, <1>2, <2>1
  <2>3. FlattenSeq(ss)[At(ss, i) + 1] = ss[i][1]
    BY <2>1, <2>2, FlattenHas
  <2> QED
    BY <1>1, <2>1, <2>2, <2>3
<1> QED
  BY <1>3, <1>4, SeqEqual

-----------------------------------------------------------------------------
(* Fix                                                                     *)

\* The fields of a message of a history.
LEMMA MessageFields ==
  ASSUME NEW ms \in Seq(Message), NEW p \in DOMAIN ms
  PROVE  /\ p \in 1 .. Len(ms) /\ ms[p] \in Message
         /\ ms[p].calls \in Seq(Nat) /\ ms[p].id \in Nat
         /\ Len(ms[p].calls) \in Nat /\ DOMAIN ms[p].calls = 1 .. Len(ms[p].calls)
         /\ \A k \in DOMAIN ms[p].calls : ms[p].calls[k] \in Nat
<1>1. p \in 1 .. Len(ms) /\ ms[p] \in Message
  OBVIOUS
<1>2. ms[p].calls \in Seq(Nat) /\ ms[p].id \in Nat
  BY <1>1 DEF Message
<1> QED
  BY <1>1, <1>2

\* The fields of a tool message.
LEMMA ToolMessage ==
  ASSUME NEW i \in Nat
  PROVE  /\ Tool(i) \in Message /\ Tool(i).calls = <<>> /\ Tool(i).id = i
         /\ Tool(i).role = "tool"
<1>1. <<>> \in Seq(Nat)
  BY EmptySeq
<1> QED
  BY <1>1 DEF Tool, Message

\* The placeholders behind a message.
LEMMA PlaceholderType ==
  ASSUME NEW ms, NEW c \in Seq(Nat)
  PROVE  [k \in DOMAIN c |-> Placeholder(ms, c[k])] \in Seq(Seq(Message))
<1>1. DOMAIN c = 1 .. Len(c) /\ Len(c) \in Nat
  OBVIOUS
<1>2. ASSUME NEW k \in 1 .. Len(c)
      PROVE  Placeholder(ms, c[k]) \in Seq(Message)
  <2>1. Tool(c[k]) \in Message
    <3>1. c[k] \in Nat
      OBVIOUS
    <3> QED
      BY <3>1, ToolMessage
  <2>2. <<>> \in Seq(Message) /\ <<Tool(c[k])>> \in Seq(Message)
    BY <2>1, EmptySeq
  <2> QED
    BY <2>2 DEF Placeholder
<1> DEFINE s == [k \in DOMAIN c |-> Placeholder(ms, c[k])]
<1>3. s \in [1 .. Len(c) -> Seq(Message)]
  BY <1>1, <1>2
<1> HIDE DEF s
<1>4. s \in Seq(Seq(Message))
  BY <1>1, <1>3
<1> QED
  BY <1>4 DEF s

\* What Fix makes of one message is a sequence of messages.
LEMMA KeptType ==
  ASSUME NEW ms \in Seq(Message), NEW p \in DOMAIN ms
  PROVE  Kept(ms, ms[p]) \in Seq(Message)
<1> DEFINE m == ms[p]
           s == FlattenSeq([k \in DOMAIN m.calls |-> Placeholder(ms, m.calls[k])])
<1>1. m \in Message /\ m.calls \in Seq(Nat)
  BY MessageFields
<1>2. s \in Seq(Message)
  BY <1>1, PlaceholderType, AtStep
<1>3. Kept(ms, m) = <<>> \/ Kept(ms, m) = <<m>> \o s
  BY DEF Kept
<1> HIDE DEF m, s
<1>4. <<m>> \in Seq(Message) /\ <<>> \in Seq(Message)
  BY <1>1, EmptySeq
<1>5. <<m>> \o s \in Seq(Message)
  BY <1>2, <1>4, ConcatProperties
<1>6. Kept(ms, m) \in Seq(Message)
  BY <1>3, <1>4, <1>5
<1> QED
  BY <1>6 DEF m

\* What Fix flattens.
KeptAll(ms) == [p \in DOMAIN ms |-> Kept(ms, ms[p])]

\* It is a sequence of sequences of messages, one for each message.
LEMMA KeptAllType ==
  ASSUME NEW ms \in Seq(Message)
  PROVE  /\ KeptAll(ms) \in Seq(Seq(Message)) /\ Len(KeptAll(ms)) = Len(ms)
         /\ \A p \in 1 .. Len(ms) : KeptAll(ms)[p] = Kept(ms, ms[p])
<1>1. DOMAIN ms = 1 .. Len(ms) /\ Len(ms) \in Nat
  OBVIOUS
<1>2. KeptAll(ms) \in [1 .. Len(ms) -> Seq(Message)]
  BY <1>1, KeptType DEF KeptAll
<1>3. KeptAll(ms) \in Seq(Seq(Message)) /\ Len(KeptAll(ms)) = Len(ms)
  BY <1>1, <1>2
<1>4. \A p \in 1 .. Len(ms) : KeptAll(ms)[p] = Kept(ms, ms[p])
  BY <1>1 DEF KeptAll
<1> QED
  BY <1>3, <1>4

\* Fix makes a history of a history.
LEMMA FixType ==
  ASSUME NEW ms \in Seq(Message)
  PROVE  Fix(ms) \in Seq(Message)
<1>1. FlattenSeq(KeptAll(ms)) \in Seq(Message)
  BY KeptAllType, AtStep
<1> QED
  BY <1>1 DEF Fix, KeptAll

\* A call that is answered right behind its message is answered.
LEMMA AnsweredAtIds ==
  ASSUME NEW ms \in Seq(Message), NEW p \in DOMAIN ms, AnsweredAt(ms, p),
         NEW k \in DOMAIN ms[p].calls
  PROVE  /\ p + k \in DOMAIN ms /\ ms[p + k] = Tool(ms[p].calls[k])
         /\ ms[p].calls[k] \in AnsweredIds(ms)
<1>1. /\ p \in 1 .. Len(ms) /\ Len(ms) \in Nat /\ DOMAIN ms = 1 .. Len(ms)
      /\ k \in 1 .. Len(ms[p].calls) /\ Len(ms[p].calls) \in Nat /\ ms[p].calls[k] \in Nat
  BY MessageFields
<1>2. p + k \in DOMAIN ms /\ ms[p + k] = Tool(ms[p].calls[k])
  BY <1>1 DEF AnsweredAt
<1>3. ms[p + k].role = "tool" /\ ms[p + k].id = ms[p].calls[k]
  BY <1>1, <1>2, ToolMessage
<1> QED
  BY <1>2, <1>3 DEF AnsweredIds

\* What becomes of the message at p in a history that can be mended.
LEMMA KeptIs ==
  ASSUME NEW ms \in Seq(Message), Mendable(ms), NEW p \in 1 .. Len(ms)
  PROVE  /\ AnsweredAt(ms, p) => Kept(ms, ms[p]) = <<ms[p]>>
         /\ Unanswered(ms, p) =>
              Kept(ms, ms[p]) = <<ms[p]>> \o [k \in DOMAIN ms[p].calls |-> Tool(ms[p].calls[k])]
<1> DEFINE m == ms[p]
           s == [k \in DOMAIN m.calls |-> Placeholder(ms, m.calls[k])]
<1>1. p \in DOMAIN ms
  OBVIOUS
<1>2. /\ m \in Message /\ m.calls \in Seq(Nat)
      /\ DOMAIN m.calls = 1 .. Len(m.calls) /\ Len(m.calls) \in Nat
      /\ \A k \in DOMAIN m.calls : m.calls[k] \in Nat
  BY <1>1, MessageFields
<1>3. s \in Seq(Seq(Message))
  BY <1>2, PlaceholderType
<1>4. Len(s) = Len(m.calls) /\ \A k \in 1 .. Len(m.calls) : s[k] = Placeholder(ms, m.calls[k])
  BY <1>2
<1>5. Kept(ms, m) = <<m>> \o FlattenSeq(s)
  <2>1. m.role = "tool" => m.id \in CalledIds(ms)
    BY <1>1 DEF Mendable, AnsweredIds
  <2> QED
    BY <2>1 DEF Kept
<1>6. ASSUME AnsweredAt(ms, p)
      PROVE  Kept(ms, m) = <<m>>
  <2>1. \A k \in 1 .. Len(s) : s[k] = <<>>
    BY <1>1, <1>2, <1>4, <1>6, AnsweredAtIds DEF Placeholder
  <2> HIDE DEF s
  <2>2. FlattenSeq(s) = <<>>
    BY <1>3, <2>1, FlattenEmpties
  <2>3. <<m>> \o <<>> = <<m>>
    <3>1. <<m>> \in Seq(Message)
      BY <1>2
    <3> QED
      BY <3>1, ConcatEmptySeq
  <2> QED
    BY <1>5, <2>2, <2>3
<1>7. ASSUME Unanswered(ms, p)
      PROVE  Kept(ms, m) = <<m>> \o [k \in DOMAIN m.calls |-> Tool(m.calls[k])]
  <2> DEFINE e == [k \in DOMAIN m.calls |-> Tool(m.calls[k])]
  <2>1. e \in [1 .. Len(m.calls) -> Message]
    BY <1>2, ToolMessage
  <2>2. \A k \in 1 .. Len(m.calls) : s[k] = <<e[k]>>
    BY <1>2, <1>4, <1>7 DEF Placeholder, Unanswered
  <2> HIDE DEF s, e
  <2>3. e \in Seq(Message) /\ Len(e) = Len(m.calls)
    <3> DEFINE n == Len(m.calls)
    <3>1. n \in Nat /\ e \in [1 .. n -> Message]
      BY <1>2, <2>1
    <3> HIDE DEF n
    <3>2. e \in Seq(Message) /\ Len(e) = n
      BY <3>1
    <3> QED
      BY <3>2 DEF n
  <2>4. FlattenSeq(s) = e
    BY <1>3, <1>4, <2>2, <2>3, FlattenSingles
  <2> QED
    BY <1>5, <2>4 DEF e
<1> QED
  BY <1>6, <1>7

\* A sequence with one element put in front of it.
LEMMA PutInFront ==
  ASSUME NEW S, NEW m \in S, NEW e \in Seq(S)
  PROVE  /\ <<m>> \o e \in Seq(S) /\ Len(<<m>> \o e) = 1 + Len(e)
         /\ (<<m>> \o e)[1] = m
         /\ \A k \in 1 .. Len(e) : (<<m>> \o e)[1 + k] = e[k]
<1> DEFINE f == <<m>>
<1>1. f \in Seq(S) /\ Len(f) = 1 /\ f[1] = m /\ Len(e) \in Nat
  OBVIOUS
<1> HIDE DEF f
<1>2. /\ f \o e \in Seq(S) /\ Len(f \o e) = Len(f) + Len(e)
      /\ \A i \in 1 .. Len(f) + Len(e) : (f \o e)[i] = IF i <= Len(f) THEN f[i] ELSE e[i - Len(f)]
  BY <1>1, ConcatProperties
<1>3. (f \o e)[1] = m
  BY <1>1, <1>2
<1>4. ASSUME NEW k \in 1 .. Len(e)
      PROVE  (f \o e)[1 + k] = e[k]
  <2>1. 1 + k \in 1 .. 1 + Len(e) /\ ~(1 + k <= 1) /\ 1 + k - 1 = k
    BY <1>1
  <2> QED
    BY <1>1, <1>2, <2>1
<1> QED
  BY <1>1, <1>2, <1>3, <1>4 DEF f

\* A message without calls has nothing to be answered.
LEMMA NoCallsAnswered ==
  ASSUME NEW ms \in Seq(Message), NEW p \in 1 .. Len(ms), ms[p].calls = <<>>
  PROVE  AnsweredAt(ms, p)
<1>1. Len(ms[p].calls) = 0 /\ DOMAIN ms[p].calls = {}
  OBVIOUS
<1> QED
  BY <1>1 DEF AnsweredAt

\* The pieces that Fix puts together, and where they go.
LEMMA FixPieces ==
  ASSUME NEW ms \in Seq(Message), Mendable(ms), NEW p \in 1 .. Len(ms)
  PROVE  /\ At(KeptAll(ms), p) \in Nat
         /\ At(KeptAll(ms), p) + 1 \in 1 .. Len(Fix(ms))
         /\ Fix(ms)[At(KeptAll(ms), p) + 1] = ms[p]
         /\ AnsweredAt(ms, p) => At(KeptAll(ms), p + 1) = At(KeptAll(ms), p) + 1
         /\ Unanswered(ms, p) =>
              \A k \in 1 .. Len(ms[p].calls) :
                /\ At(KeptAll(ms), p) + 1 + k \in 1 .. Len(Fix(ms))
                /\ Fix(ms)[At(KeptAll(ms), p) + 1 + k] = Tool(ms[p].calls[k])
<1> DEFINE ss == KeptAll(ms)
           e == [k \in DOMAIN ms[p].calls |-> Tool(ms[p].calls[k])]
           n == Len(ms[p].calls)
<1>1. ss \in Seq(Seq(Message)) /\ Len(ss) = Len(ms) /\ ss[p] = Kept(ms, ms[p]) /\ p \in 1 .. Len(ss)
  BY KeptAllType
<1>2. Fix(ms) = FlattenSeq(ss)
  BY DEF Fix, KeptAll
<1>3. /\ ms[p] \in Message /\ n \in Nat /\ DOMAIN ms[p].calls = 1 .. n
      /\ \A k \in 1 .. n : ms[p].calls[k] \in Nat
  BY MessageFields
<1>4. e \in [1 .. n -> Message] /\ \A k \in 1 .. n : e[k] = Tool(ms[p].calls[k])
  BY <1>3, ToolMessage
<1>5. (AnsweredAt(ms, p) => ss[p] = <<ms[p]>>) /\ (Unanswered(ms, p) => ss[p] = <<ms[p]>> \o e)
  BY <1>1, KeptIs
<1>6. AnsweredAt(ms, p) \/ Unanswered(ms, p)
  BY <1>3 DEF Mendable
<1>7. At(ss, p) \in Nat /\ At(ss, p + 1) = At(ss, p) + Len(ss[p])
  BY <1>1, AtStep
<1> HIDE DEF ss, e, n
<1>8. e \in Seq(Message) /\ Len(e) = n
  BY <1>3, <1>4
<1>9. <<ms[p]>> \in Seq(Message) /\ Len(<<ms[p]>>) = 1 /\ <<ms[p]>>[1] = ms[p]
  BY <1>3
<1>10. /\ <<ms[p]>> \o e \in Seq(Message) /\ Len(<<ms[p]>> \o e) = 1 + n
       /\ (<<ms[p]>> \o e)[1] = ms[p]
       /\ \A k \in 1 .. n : (<<ms[p]>> \o e)[1 + k] = e[k]
  BY <1>3, <1>8, PutInFront
<1>11. 1 \in 1 .. Len(ss[p]) /\ ss[p][1] = ms[p]
  BY <1>3, <1>5, <1>6, <1>9, <1>10
<1>12. At(ss, p) + 1 \in 1 .. Len(Fix(ms)) /\ Fix(ms)[At(ss, p) + 1] = ms[p]
  BY <1>1, <1>2, <1>11, FlattenHas
<1>13. AnsweredAt(ms, p) => At(ss, p + 1) = At(ss, p) + 1
  BY <1>5, <1>7, <1>9
<1>14. ASSUME Unanswered(ms, p), NEW k \in 1 .. n
       PROVE  /\ At(ss, p) + 1 + k \in 1 .. Len(Fix(ms))
              /\ Fix(ms)[At(ss, p) + 1 + k] = Tool(ms[p].calls[k])
  <2>1. 1 + k \in 1 .. Len(ss[p]) /\ ss[p][1 + k] = Tool(ms[p].calls[k])
    <3>1. 1 + k \in 1 .. 1 + n
      BY <1>3, <1>14
    <3> QED
      BY <1>4, <1>5, <1>10, <1>14, <3>1
  <2>2. At(ss, p) + (1 + k) \in 1 .. Len(Fix(ms)) /\ Fix(ms)[At(ss, p) + (1 + k)] = ss[p][1 + k]
    BY <1>1, <1>2, <2>1, FlattenHas
  <2>3. At(ss, p) + 1 + k = At(ss, p) + (1 + k)
    BY <1>3, <1>7
  <2> QED
    BY <2>1, <2>2, <2>3
<1> QED
  BY <1>7, <1>12, <1>13, <1>14 DEF ss, n

\* Fix puts nothing else into the history.
LEMMA FixPiecesOnly ==
  ASSUME NEW ms \in Seq(Message), Mendable(ms), NEW q \in 1 .. Len(Fix(ms))
  PROVE  \E p \in 1 .. Len(ms) :
           \/ q = At(KeptAll(ms), p) + 1
           \/ \E k \in 1 .. Len(ms[p].calls) :
                Unanswered(ms, p) /\ q = At(KeptAll(ms), p) + 1 + k
<1> DEFINE ss == KeptAll(ms)
<1>1. ss \in Seq(Seq(Message)) /\ Len(ss) = Len(ms)
      /\ \A p \in 1 .. Len(ms) : ss[p] = Kept(ms, ms[p]) /\ At(ss, p) \in Nat
  BY KeptAllType, FixPieces
<1>2. Fix(ms) = FlattenSeq(ss)
  BY DEF Fix, KeptAll
<1> HIDE DEF ss
<1>3. PICK p \in 1 .. Len(ms) : \E r \in 1 .. Len(ss[p]) : q = At(ss, p) + r
  BY <1>1, <1>2, FlattenHasOnly
<1>4. PICK r \in 1 .. Len(ss[p]) : q = At(ss, p) + r
  BY <1>3
<1> DEFINE e == [k \in DOMAIN ms[p].calls |-> Tool(ms[p].calls[k])]
           n == Len(ms[p].calls)
<1>5. /\ ms[p] \in Message /\ n \in Nat /\ DOMAIN ms[p].calls = 1 .. n
      /\ \A k \in 1 .. n : ms[p].calls[k] \in Nat
  BY MessageFields
<1>6. e \in [1 .. n -> Message]
  BY <1>5, ToolMessage
<1>7. (AnsweredAt(ms, p) => ss[p] = <<ms[p]>>) /\ (Unanswered(ms, p) => ss[p] = <<ms[p]>> \o e)
  BY <1>1, KeptIs
<1>8. AnsweredAt(ms, p) \/ Unanswered(ms, p)
  BY <1>5 DEF Mendable
<1> HIDE DEF e, n
<1>9. e \in Seq(Message) /\ Len(e) = n
  BY <1>5, <1>6
<1>10. CASE AnsweredAt(ms, p)
  <2>1. Len(ss[p]) = 1
    BY <1>7, <1>10
  <2>2. r = 1
    BY <2>1
  <2> QED
    BY <1>4, <2>2 DEF ss
<1>11. CASE Unanswered(ms, p)
  <2>2. Len(ss[p]) = 1 + n
    BY <1>5, <1>7, <1>9, <1>11, PutInFront
  <2>3. r = 1 \/ (r - 1 \in 1 .. n /\ q = At(ss, p) + 1 + (r - 1))
    BY <1>1, <1>4, <1>5, <2>2
  <2> QED
    BY <1>4, <1>11, <2>3 DEF ss, n
<1> QED
  BY <1>8, <1>10, <1>11

\* An answered message and its answers stay together.
LEMMA FixKeepsTogether ==
  ASSUME NEW ms \in Seq(Message), Mendable(ms), NEW p \in 1 .. Len(ms), AnsweredAt(ms, p),
         NEW k \in 0 .. Len(ms[p].calls)
  PROVE  At(KeptAll(ms), p + k) = At(KeptAll(ms), p) + k
<1> DEFINE ss == KeptAll(ms)
           n == Len(ms[p].calls)
           T == {j \in Nat : j <= n => At(ss, p + j) = At(ss, p) + j}
<1>1. n \in Nat /\ DOMAIN ms[p].calls = 1 .. n /\ Len(ms) \in Nat /\ p + n <= Len(ms)
      /\ \A j \in 1 .. n : ms[p].calls[j] \in Nat
  BY MessageFields DEF AnsweredAt
<1>2. At(ss, p) \in Nat
  BY FixPieces
<1>3. 0 \in T
  <2>1. p + 0 = p /\ At(ss, p) + 0 = At(ss, p)
    BY <1>2
  <2> QED
    BY <2>1
<1>4. ASSUME NEW j \in Nat, j \in T
      PROVE  j + 1 \in T
  <2> SUFFICES ASSUME j + 1 <= n
               PROVE  At(ss, p + (j + 1)) = At(ss, p) + (j + 1)
    OBVIOUS
  <2>1. p + j \in 1 .. Len(ms) /\ At(ss, p + j) = At(ss, p) + j /\ p + j + 1 = p + (j + 1)
    BY <1>1, <1>4
  <2>2. AnsweredAt(ms, p + j)
    <3>1. CASE j = 0
      <4>1. p + j = p
        BY <3>1
      <4> QED
        BY <4>1
    <3>2. CASE j # 0
      <4>1. j \in 1 .. n
        BY <1>1, <3>2
      <4>2. ms[p + j] = Tool(ms[p].calls[j])
        BY <1>1, <4>1 DEF AnsweredAt
      <4>3. ms[p + j].calls = <<>>
        BY <1>1, <4>1, <4>2, ToolMessage
      <4> QED
        BY <2>1, <4>3, NoCallsAnswered
    <3> QED
      BY <3>1, <3>2
  <2>3. At(ss, p + j + 1) = At(ss, p + j) + 1
    BY <2>1, <2>2, FixPieces
  <2> QED
    BY <1>2, <2>1, <2>3
<1> HIDE DEF T
<1>5. k \in T /\ k <= n
  BY <1>1, <1>3, <1>4, NatSetInduction
<1> QED
  BY <1>5 DEF T

\* Every message is answered in what Fix makes of the history.
LEMMA FixAnswers ==
  ASSUME NEW ms \in Seq(Message), Mendable(ms), NEW p \in 1 .. Len(ms)
  PROVE  AnsweredAt(Fix(ms), At(KeptAll(ms), p) + 1)
<1> DEFINE out == Fix(ms)
           n == Len(ms[p].calls)
           a == At(KeptAll(ms), p)
<1>1. n \in Nat /\ DOMAIN ms[p].calls = 1 .. n
  BY MessageFields
<1>2. a \in Nat /\ a + 1 \in 1 .. Len(out) /\ out[a + 1] = ms[p]
  BY FixPieces
<1>3. SUFFICES /\ a + 1 + n <= Len(out)
               /\ \A k \in 1 .. n : out[a + 1 + k] = Tool(ms[p].calls[k])
  BY <1>1, <1>2 DEF AnsweredAt
<1>4. out \in Seq(Message) /\ Len(out) \in Nat
  BY FixType
<1>5. SUFFICES ASSUME NEW k \in 1 .. n
               PROVE  /\ a + 1 + k \in 1 .. Len(out)
                      /\ out[a + 1 + k] = Tool(ms[p].calls[k])
  <2>1. CASE n = 0
    BY <1>2, <1>4, <2>1
  <2>2. CASE n # 0
    <3>1. n \in 1 .. n
      BY <1>1, <2>2
    <3> HIDE DEF a, n, out
    <3> QED
      BY <1>1, <1>2, <1>4, <1>5, <3>1
  <2> QED
    BY <2>1, <2>2
<1>6. AnsweredAt(ms, p) \/ Unanswered(ms, p)
  <2>1. p \in DOMAIN ms
    OBVIOUS
  <2> QED
    BY <2>1 DEF Mendable
<1>7. CASE Unanswered(ms, p)
  BY <1>7, FixPieces
<1>8. CASE AnsweredAt(ms, p)
  <2>1. p + k \in 1 .. Len(ms) /\ ms[p + k] = Tool(ms[p].calls[k])
    <3>1. p \in DOMAIN ms /\ k \in DOMAIN ms[p].calls /\ DOMAIN ms = 1 .. Len(ms)
      BY <1>1
    <3> QED
      BY <1>8, <3>1, AnsweredAtIds
  <2>2. At(KeptAll(ms), p + k) = a + k
    <3>1. k \in 0 .. n
      BY <1>1
    <3> QED
      BY <1>8, <3>1, FixKeepsTogether
  <2>3. /\ At(KeptAll(ms), p + k) + 1 \in 1 .. Len(out)
        /\ out[At(KeptAll(ms), p + k) + 1] = ms[p + k]
    BY <2>1, FixPieces
  <2>4. a + k + 1 = a + 1 + k
    BY <1>1, <1>2
  <2> QED
    BY <2>1, <2>2, <2>3, <2>4
<1> QED
  BY <1>6, <1>7, <1>8

\* contextfix.Fix: a history that lacks all answers of some of its messages becomes one that
\* every provider accepts.
LEMMA FixCompletes ==
  ASSUME NEW ms \in Seq(Message), Mendable(ms)
  PROVE  /\ Fix(ms) \in Seq(Message) /\ Complete(Fix(ms)) /\ Mendable(Fix(ms))
         /\ CalledIds(Fix(ms)) \subseteq CalledIds(ms)
<1> DEFINE out == Fix(ms)
           at(p) == At(KeptAll(ms), p)
<1>1. out \in Seq(Message) /\ DOMAIN out = 1 .. Len(out) /\ DOMAIN ms = 1 .. Len(ms)
  BY FixType
<1>2. \A p \in 1 .. Len(ms) : at(p) + 1 \in DOMAIN out /\ out[at(p) + 1] = ms[p]
  BY <1>1, FixPieces
<1>3. ASSUME NEW q \in DOMAIN out
      PROVE  \E p \in 1 .. Len(ms) :
               \/ q = at(p) + 1 /\ out[q] = ms[p]
               \/ \E k \in DOMAIN ms[p].calls :
                    out[q] = Tool(ms[p].calls[k]) /\ ms[p].calls[k] \in Nat
  <2>1. PICK p \in 1 .. Len(ms) :
               \/ q = at(p) + 1
               \/ \E k \in 1 .. Len(ms[p].calls) : Unanswered(ms, p) /\ q = at(p) + 1 + k
    BY <1>1, FixPiecesOnly
  <2>2. CASE q = at(p) + 1
    BY <1>2, <2>2
  <2>3. ASSUME NEW k \in 1 .. Len(ms[p].calls), Unanswered(ms, p), q = at(p) + 1 + k
        PROVE  \E j \in DOMAIN ms[p].calls :
                 out[q] = Tool(ms[p].calls[j]) /\ ms[p].calls[j] \in Nat
    <3>1. p \in DOMAIN ms
      BY <1>1
    <3>2. k \in DOMAIN ms[p].calls /\ ms[p].calls[k] \in Nat
      BY <3>1, MessageFields
    <3>3. out[q] = Tool(ms[p].calls[k])
      BY <2>3, FixPieces
    <3> QED
      BY <3>2, <3>3
  <2> QED
    BY <2>1, <2>2, <2>3
<1>4. \A p \in DOMAIN out : AnsweredAt(out, p)
  <2> SUFFICES ASSUME NEW q \in DOMAIN out
               PROVE  AnsweredAt(out, q)
    OBVIOUS
  <2>1. PICK p \in 1 .. Len(ms) :
               \/ q = at(p) + 1 /\ out[q] = ms[p]
               \/ \E k \in DOMAIN ms[p].calls :
                    out[q] = Tool(ms[p].calls[k]) /\ ms[p].calls[k] \in Nat
    BY <1>3
  <2>2. CASE q = at(p) + 1
    BY <2>2, FixAnswers
  <2>3. CASE \E k \in DOMAIN ms[p].calls :
               out[q] = Tool(ms[p].calls[k]) /\ ms[p].calls[k] \in Nat
    <3>1. out[q].calls = <<>>
      BY <2>3, ToolMessage
    <3> QED
      BY <1>1, <3>1, NoCallsAnswered
  <2> QED
    BY <2>1, <2>2, <2>3
<1>5. CalledIds(ms) \subseteq CalledIds(out)
  <2> SUFFICES ASSUME NEW p \in DOMAIN ms, NEW i \in ToSet(ms[p].calls)
               PROVE  i \in CalledIds(out)
    BY DEF CalledIds
  <2>1. at(p) + 1 \in DOMAIN out /\ out[at(p) + 1] = ms[p]
    BY <1>1, <1>2
  <2> QED
    BY <2>1 DEF CalledIds
<1>6. AnsweredIds(out) \subseteq CalledIds(ms)
  <2> SUFFICES ASSUME NEW q \in DOMAIN out, out[q].role = "tool"
               PROVE  out[q].id \in CalledIds(ms)
    BY DEF AnsweredIds
  <2>1. PICK p \in 1 .. Len(ms) :
               \/ q = at(p) + 1 /\ out[q] = ms[p]
               \/ \E k \in DOMAIN ms[p].calls :
                    out[q] = Tool(ms[p].calls[k]) /\ ms[p].calls[k] \in Nat
    BY <1>3
  <2>2. CASE out[q] = ms[p]
    <3>1. ms[p].id \in AnsweredIds(ms)
      BY <1>1, <2>2 DEF AnsweredIds
    <3> QED
      BY <2>2, <3>1 DEF Mendable
  <2>3. ASSUME NEW k \in DOMAIN ms[p].calls, out[q] = Tool(ms[p].calls[k]),
               ms[p].calls[k] \in Nat
        PROVE  out[q].id \in CalledIds(ms)
    <3>1. out[q].id = ms[p].calls[k]
      BY <2>3, ToolMessage
    <3>2. ms[p].calls[k] \in ToSet(ms[p].calls)
      BY DEF ToSet
    <3> QED
      BY <1>1, <3>1, <3>2 DEF CalledIds
  <2> QED
    BY <2>1, <2>2, <2>3
<1>7. \A q \in DOMAIN out : out[q].calls # <<>> => out[q].role = "assistant"
  <2> SUFFICES ASSUME NEW q \in DOMAIN out, out[q].calls # <<>>
               PROVE  out[q].role = "assistant"
    OBVIOUS
  <2>1. PICK p \in 1 .. Len(ms) : out[q] = ms[p]
    BY <1>3, ToolMessage
  <2> QED
    BY <1>1, <2>1 DEF Mendable
<1>8. CalledIds(out) \subseteq CalledIds(ms)
  <2> SUFFICES ASSUME NEW q \in DOMAIN out, NEW i \in ToSet(out[q].calls)
               PROVE  i \in CalledIds(ms)
    BY DEF CalledIds
  <2>1. out[q].calls # <<>>
    BY DEF ToSet
  <2>2. PICK p \in 1 .. Len(ms) : out[q] = ms[p]
    BY <1>3, <2>1, ToolMessage
  <2> QED
    BY <1>1, <2>2 DEF CalledIds
<1> QED
  BY <1>1, <1>4, <1>5, <1>6, <1>7, <1>8 DEF Complete, Mendable

-----------------------------------------------------------------------------
(* Types                                                                   *)

\* The reply of which the model-end hooks and the round of calls read the last message is
\* there.
TypeInv == TypeOK /\ (pc \in {"modelEnd", "batch"} => msgs # <<>>)

\* The messages the loop appends.
LEMMA AppendType ==
  ASSUME NEW ms \in Seq(Message), NEW m \in Message
  PROVE  /\ Append(ms, m) \in Seq(Message) /\ Append(ms, m) # <<>>
         /\ Len(Append(ms, m)) = Len(ms) + 1 /\ Last(Append(ms, m)) = m
         /\ \A p \in 1 .. Len(ms) : Append(ms, m)[p] = ms[p]
         /\ Append(ms, m)[Len(ms) + 1] = m
BY DEF Last

\* Inputs and replies are messages.
LEMMA UserAssistantType ==
  /\ User \in Message
  /\ Assistant(<<>>) \in Message
  /\ \A i, k \in Nat : Assistant([c \in 1 .. k |-> i + c - 1]) \in Message
<1>1. <<>> \in Seq(Nat)
  BY EmptySeq
<1>2. ASSUME NEW i \in Nat, NEW k \in Nat
      PROVE  Assistant([c \in 1 .. k |-> i + c - 1]) \in Message
  <2> DEFINE e == [c \in 1 .. k |-> i + c - 1]
  <2>1. e \in [1 .. k -> Nat]
    OBVIOUS
  <2> HIDE DEF e
  <2>2. e \in Seq(Nat)
    BY <2>1
  <2>3. Assistant(e) \in Message
    BY <2>2 DEF Assistant, Message
  <2> QED
    BY <2>3 DEF e
<1> QED
  BY <1>1, <1>2 DEF User, Assistant, Message

\* The answers that a round of calls puts behind the reply.
Answers(calls) == [k \in DOMAIN calls |-> Tool(calls[k])]

\* They are messages, one for each call.
LEMMA AnswersType ==
  ASSUME NEW ms \in Seq(Message), ms # <<>>
  PROVE  /\ Last(ms) = ms[Len(ms)] /\ Len(ms) \in 1 .. Len(ms)
         /\ Answers(Last(ms).calls) \in Seq(Message)
         /\ Len(Answers(Last(ms).calls)) = Len(Last(ms).calls)
         /\ ms \o Answers(Last(ms).calls) \in Seq(Message)
<1>1. Last(ms) = ms[Len(ms)] /\ Len(ms) \in 1 .. Len(ms) /\ Len(ms) \in DOMAIN ms
  BY DEF Last
<1> DEFINE n == Len(Last(ms).calls)
           e == Answers(Last(ms).calls)
<1>2. n \in Nat /\ e \in [1 .. n -> Message]
  BY <1>1, MessageFields, ToolMessage DEF Answers
<1> HIDE DEF n, e
<1>3. e \in Seq(Message) /\ Len(e) = n
  BY <1>2
<1>4. ms \o e \in Seq(Message)
  BY <1>3, ConcatProperties
<1> QED
  BY <1>1, <1>3, <1>4 DEF n, e

\* A step leaves a history of messages, with the reply at its end where it is read.
LEMMA HistoryTyped ==
  ASSUME TypeInv, [Next]_vars
  PROVE  /\ msgs' \in Seq(Message) /\ nextId' \in Nat
         /\ (pc \in {"modelEnd", "batch"} => msgs # <<>>)'
<1> USE DEF TypeInv, TypeOK, Goto
<1>1. msgs \in Seq(Message) /\ nextId \in Nat
  OBVIOUS
<1>2. Append(msgs, User) \in Seq(Message) /\ Append(msgs, Assistant(<<>>)) \in Seq(Message)
  BY <1>1, AppendType, UserAssistantType
<1>3. Fix(msgs) \in Seq(Message)
  BY <1>1, FixType
<1>4. CASE OnStart
  BY <1>1, <1>3, <1>4 DEF OnStart, Fail
<1>5. CASE ModelReply
  <2>1. PICK k \in 0 .. MaxCalls :
          /\ msgs' = Append(msgs, Assistant([c \in 1 .. k |-> nextId + c - 1]))
          /\ nextId' = nextId + k
    BY <1>5 DEF ModelReply
  <2>2. k \in Nat
    BY LoopAssumption
  <2>3. Assistant([c \in 1 .. k |-> nextId + c - 1]) \in Message
    BY <1>1, <2>2, UserAssistantType
  <2>4. msgs' \in Seq(Message) /\ msgs' # <<>>
    BY <1>1, <2>1, <2>3, AppendType
  <2> QED
    BY <1>1, <2>1, <2>2, <2>4
<1>6. CASE ModelError \/ WrapError
  BY <1>1, <1>2, <1>6 DEF ModelError, WrapError, Rescued, Fail
<1>7. CASE ModelEnd
  BY <1>1, <1>7 DEF ModelEnd, Fail
<1>8. CASE ToolCalls
  <2>1. msgs' = msgs \o Answers(Last(msgs).calls)
    BY <1>8 DEF ToolCalls, Answers
  <2>2. msgs' \in Seq(Message)
    BY <1>1, <1>8, <2>1, AnswersType DEF ToolCalls
  <2>3. pc' \in {"post", "loopHooks", "endHooks"}
    BY <1>8 DEF ToolCalls, Fail
  <2> QED
    BY <1>1, <1>8, <2>2, <2>3 DEF ToolCalls
<1>9. CASE PostLoop \/ WrapReply \/ NextTurn
  BY <1>1, <1>2, <1>9 DEF PostLoop, WrapReply, NextTurn
<1>10. CASE AppendGuides \/ LoopHead \/ ModelStart \/ LoopHooks \/ Panic \/ EndHook
            \/ EndHooksOver \/ LoopEnd
  BY <1>1, <1>10 DEF AppendGuides, LoopHead, ModelStart, LoopHooks, Panic, EndHook,
     EndHooksOver, LoopEnd, Fail
<1>11. CASE Cancel \/ Terminated \/ UNCHANGED vars
  BY <1>1, <1>11 DEF Cancel, Terminated, vars
<1> QED
  BY <1>4, <1>5, <1>6, <1>7, <1>8, <1>9, <1>10, <1>11 DEF Next, RunStep

\* The two halves of TypeOK besides the history.
FlagsOK ==
  /\ pc \in Labels /\ stop \in BOOLEAN /\ reason \in Reasons /\ lastError \in BOOLEAN
  /\ cancelled \in BOOLEAN /\ ret \in {"nil", "run", "endHook"} /\ wrapped \in BOOLEAN

CountersOK ==
  /\ turn \in 1 .. Turns /\ iter \in 0 .. MaxIterations /\ endRan \in 0 .. NEnd
  /\ errors \in Nat /\ modelCalls \in Nat /\ lateCalls \in Nat

\* A step leaves its flags and marks among their values.
LEMMA FlagsTyped ==
  ASSUME FlagsOK, [Next]_vars
  PROVE  FlagsOK'
<1> USE DEF FlagsOK, Goto, Labels, Reasons, runVars
<1>1. CASE OnStart
  BY <1>1 DEF OnStart, Fail
<1>2. CASE AppendGuides \/ EndHooksOver \/ LoopEnd
  BY <1>2 DEF AppendGuides, EndHooksOver, LoopEnd
<1>3. CASE LoopHead
  BY <1>3 DEF LoopHead
<1>4. CASE ModelStart
  BY <1>4 DEF ModelStart, CallStarts, Fail
<1>5. CASE ModelReply
  BY <1>5 DEF ModelReply
<1>6. CASE ModelError \/ WrapError
  BY <1>6 DEF ModelError, WrapError, Fail
<1>7. CASE ModelEnd
  BY <1>7 DEF ModelEnd, Fail
<1>8. CASE ToolCalls
  BY <1>8 DEF ToolCalls, Fail
<1>9. CASE LoopHooks
  BY <1>9 DEF LoopHooks, Fail
<1>10. CASE PostLoop
  BY <1>10 DEF PostLoop, CallStarts
<1>11. CASE WrapReply
  BY <1>11 DEF WrapReply
<1>12. CASE Panic
  BY <1>12 DEF Panic
<1>13. CASE EndHook
  BY <1>13 DEF EndHook
<1>14. CASE NextTurn
  BY <1>14 DEF NextTurn
<1>15. CASE Cancel \/ Terminated \/ UNCHANGED vars
  BY <1>15 DEF Cancel, Terminated, vars
<1> QED
  BY <1>1, <1>2, <1>3, <1>4, <1>5, <1>6, <1>7,
     <1>8, <1>9, <1>10, <1>11, <1>12, <1>13, <1>14, <1>15 DEF Next, RunStep

\* A step keeps the counters within their bounds.
LEMMA CountersTyped ==
  ASSUME CountersOK, [Next]_vars
  PROVE  CountersOK'
<1> USE LoopAssumption DEF CountersOK, Goto, runVars
<1>1. CASE OnStart
  <2>1. /\ UNCHANGED <<turn, iter, endRan, modelCalls, lateCalls>>
        /\ errors' \in {errors, errors + 1}
    BY <1>1 DEF OnStart, Fail
  <2> QED
    BY <2>1
<1>2. CASE AppendGuides \/ EndHooksOver \/ LoopEnd
  BY <1>2 DEF AppendGuides, EndHooksOver, LoopEnd
<1>3. CASE LoopHead
  BY <1>3 DEF LoopHead
<1>4. CASE ModelStart
  <2>1. /\ UNCHANGED <<turn, iter, endRan>> /\ errors' \in {errors, errors + 1}
        /\ modelCalls' \in {modelCalls, modelCalls + 1}
        /\ lateCalls' \in {lateCalls, lateCalls + 1}
    BY <1>4 DEF ModelStart, CallStarts, Fail
  <2> QED
    BY <2>1
<1>5. CASE ModelReply
  BY <1>5 DEF ModelReply
<1>6. CASE ModelError \/ WrapError
  <2>1. /\ UNCHANGED <<turn, iter, endRan, modelCalls, lateCalls>>
        /\ errors' \in {errors, errors + 1}
    BY <1>6 DEF ModelError, WrapError, Fail
  <2> QED
    BY <2>1
<1>7. CASE ModelEnd
  <2>1. /\ UNCHANGED <<turn, iter, endRan, modelCalls, lateCalls>>
        /\ errors' \in {errors, errors + 1}
    BY <1>7 DEF ModelEnd, Fail
  <2> QED
    BY <2>1
<1>8. CASE ToolCalls
  <2>1. /\ UNCHANGED <<turn, iter, endRan, modelCalls, lateCalls>>
        /\ errors' \in {errors, errors + 1}
    BY <1>8 DEF ToolCalls, Fail
  <2> QED
    BY <2>1
<1>9. CASE LoopHooks
  <2>1. /\ UNCHANGED <<turn, iter, endRan, modelCalls, lateCalls>>
        /\ errors' \in {errors, errors + 1}
    BY <1>9 DEF LoopHooks, Fail
  <2> QED
    BY <2>1
<1>10. CASE PostLoop
  <2>1. /\ UNCHANGED <<turn, iter, endRan>> /\ errors' \in {errors, errors + 1}
        /\ modelCalls' \in {modelCalls, modelCalls + 1}
        /\ lateCalls' \in {lateCalls, lateCalls + 1}
    BY <1>10 DEF PostLoop, CallStarts
  <2> QED
    BY <2>1
<1>11. CASE WrapReply
  BY <1>11 DEF WrapReply
<1>12. CASE Panic
  BY <1>12 DEF Panic
<1>13. CASE EndHook
  BY <1>13 DEF EndHook
<1>14. CASE NextTurn
  BY <1>14 DEF NextTurn
<1>15. CASE Cancel \/ Terminated \/ UNCHANGED vars
  BY <1>15 DEF Cancel, Terminated, vars
<1> QED
  BY <1>1, <1>2, <1>3, <1>4, <1>5, <1>6, <1>7,
     <1>8, <1>9, <1>10, <1>11, <1>12, <1>13, <1>14, <1>15 DEF Next, RunStep

\* The types hold in every behaviour.
LEMMA TypeInvHolds == Spec => []TypeInv
<1>1. Init => TypeInv
  <2> SUFFICES ASSUME Init PROVE TypeInv
    OBVIOUS
  <2>1. <<User>> \in Seq(Message)
    BY UserAssistantType
  <2>2. FlagsOK
    BY DEF Init, FlagsOK, Labels, Reasons
  <2>3. CountersOK
    BY LoopAssumption DEF Init, CountersOK
  <2>4. msgs \in Seq(Message) /\ nextId \in Nat /\ pc \notin {"modelEnd", "batch"}
    BY <2>1 DEF Init
  <2> QED
    BY <2>2, <2>3, <2>4 DEF TypeInv, TypeOK, FlagsOK, CountersOK
<1>2. TypeInv /\ [Next]_vars => TypeInv'
  <2> SUFFICES ASSUME TypeInv, [Next]_vars PROVE TypeInv'
    OBVIOUS
  <2>1. FlagsOK /\ CountersOK
    BY DEF TypeInv, TypeOK, FlagsOK, CountersOK
  <2>2. FlagsOK' /\ CountersOK'
    BY <2>1, FlagsTyped, CountersTyped
  <2> QED
    BY <2>2, HistoryTyped DEF TypeInv, TypeOK, FlagsOK, CountersOK
<1> QED
  BY <1>1, <1>2, PTL DEF Spec

\* TypeOK: every variable keeps a value of its kind, and the counters their bounds.
THEOREM LoopTyped == Spec => []TypeOK
<1>1. TypeInv => TypeOK
  BY DEF TypeInv
<1> QED
  BY <1>1, TypeInvHolds, PTL

-----------------------------------------------------------------------------
(* What a finished Run reports                                             *)

\* A failure or a panic ends a Run about which nothing has been reported yet.
LEMMA FailEnds ==
  ASSUME FlagsOK, CountersOK, BeforeEnd, pc \notin Ended,
         pc' = "endHooks", ret' = "run", UNCHANGED <<cancelled, endRan>>,
         IF cancelled
           THEN reason' = "cancelled" /\ UNCHANGED <<lastError, errors>>
           ELSE reason' = "error" /\ lastError' = TRUE /\ errors' = errors + 1
  PROVE  RunInv'
<1>1. BeforeEnd' /\ AfterLoop'
  BY DEF BeforeEnd, AfterLoop, Ended
<1>2. AtEnd'
  <2>1. CASE cancelled
    BY <2>1 DEF AtEnd, BeforeEnd, OfRun
  <2>2. CASE ~cancelled
    BY <2>2 DEF AtEnd, BeforeEnd, OfRun
  <2> QED
    BY <2>1, <2>2
<1> QED
  BY <1>1, <1>2 DEF RunInv

\* A step keeps what is known about the end of the Run.
LEMMA RunInvStep ==
  ASSUME TypeInv, RunInv, [Next]_vars
  PROVE  RunInv'
<1>1. FlagsOK /\ CountersOK /\ msgs \in Seq(Message) /\ nextId \in Nat
  BY DEF TypeInv, TypeOK, FlagsOK, CountersOK
<1>2. BeforeEnd /\ AfterLoop /\ AtEnd
  BY DEF RunInv
<1> USE DEF Goto, Ended, runVars
<1>3. CASE pc \notin Ended /\ Fail /\ UNCHANGED cancelled
  BY <1>1, <1>2, <1>3, FailEnds DEF Fail
<1>4. CASE OnStart
  <2>1. CASE Fail
    BY <1>3, <1>4, <2>1 DEF OnStart
  <2>2. CASE ~Fail
    <3>1. /\ pc = "onStart" /\ pc' = "guides"
          /\ UNCHANGED <<reason, lastError, ret, endRan, errors, wrapped>>
      BY <1>4, <2>2 DEF OnStart
    <3> QED
      BY <1>2, <3>1 DEF RunInv, BeforeEnd, AfterLoop, AtEnd, Looping
  <2> QED
    BY <2>1, <2>2
<1>5. CASE AppendGuides
  BY <1>2, <1>5 DEF AppendGuides, RunInv, BeforeEnd, AfterLoop, AtEnd, Looping
<1>6. CASE LoopHead
  <2>1. CASE iter < MaxIterations /\ ~stop /\ cancelled
    <3>1. BeforeEnd' /\ AfterLoop'
      BY <1>2, <1>6, <2>1 DEF LoopHead, BeforeEnd, AfterLoop
    <3>2. AtEnd'
      BY <1>2, <1>6, <2>1 DEF LoopHead, BeforeEnd, AtEnd, OfRun
    <3> QED
      BY <3>1, <3>2 DEF RunInv
  <2>2. CASE iter < MaxIterations /\ ~stop /\ ~cancelled
    BY <1>2, <1>6, <2>2 DEF LoopHead, RunInv, BeforeEnd, AfterLoop, AtEnd, Looping
  <2>3. CASE ~(iter < MaxIterations) \/ stop
    <3>1. iter \in 0 .. MaxIterations
      BY <1>1 DEF CountersOK
    <3> QED
      BY <1>2, <1>6, <2>3, <3>1, LoopAssumption
         DEF LoopHead, RunInv, BeforeEnd, AfterLoop, AtEnd, Looping
  <2> QED
    BY <2>1, <2>2, <2>3
<1>7. CASE ModelStart
  <2>1. CASE Fail
    BY <1>3, <1>7, <2>1 DEF ModelStart
  <2>2. CASE ~Fail
    BY <1>2, <1>7, <2>2 DEF ModelStart, RunInv, BeforeEnd, AfterLoop, AtEnd, Looping
  <2> QED
    BY <2>1, <2>2
<1>8. CASE ModelReply
  <2>1. PICK k \in 0 .. MaxCalls :
          msgs' = Append(msgs, Assistant([c \in 1 .. k |-> nextId + c - 1]))
    BY <1>8 DEF ModelReply
  <2>2. Assistant([c \in 1 .. k |-> nextId + c - 1]) \in Message
    <3>1. k \in Nat /\ nextId \in Nat
      BY <1>1, LoopAssumption
    <3> QED
      BY <3>1, UserAssistantType
  <2>3. Last(msgs)' = Assistant([c \in 1 .. k |-> nextId + c - 1])
    BY <1>1, <2>1, <2>2, AppendType
  <2>4. (Last(msgs) = Assistant(Last(msgs).calls))'
    BY <2>3 DEF Assistant
  <2> QED
    BY <1>2, <1>8, <2>4 DEF ModelReply, RunInv, BeforeEnd, AfterLoop, AtEnd, Looping
<1>9. CASE ModelError \/ WrapError
  BY <1>3, <1>9 DEF ModelError, WrapError
<1>10. CASE ModelEnd
  <2>1. CASE Fail
    BY <1>3, <1>10, <2>1 DEF ModelEnd
  <2>2. CASE ~Fail
    BY <1>2, <1>10, <2>2 DEF ModelEnd, RunInv, BeforeEnd, AfterLoop, AtEnd, Looping
  <2> QED
    BY <2>1, <2>2
<1>11. CASE ToolCalls
  <2>1. CASE Fail
    BY <1>3, <1>11, <2>1 DEF ToolCalls
  <2>2. CASE ~Fail
    <3>1. /\ pc = "batch" /\ stop' \in {stop, TRUE}
          /\ reason' \in {reason, IF stop' THEN "aborted" ELSE reason}
          /\ pc' = IF stop' THEN "post" ELSE "loopHooks"
          /\ UNCHANGED <<lastError, ret, endRan, errors, wrapped>>
      BY <1>11, <2>2 DEF ToolCalls
    <3> QED
      BY <1>2, <3>1 DEF RunInv, BeforeEnd, AfterLoop, AtEnd, Looping
  <2> QED
    BY <2>1, <2>2
<1>12. CASE LoopHooks
  <2>1. CASE Fail
    BY <1>3, <1>12, <2>1 DEF LoopHooks
  <2>2. CASE ~Fail
    <3>1. /\ pc = "loopHooks" /\ pc' = "head"
          /\ UNCHANGED <<reason, lastError, ret, endRan, errors, wrapped>>
      BY <1>12, <2>2 DEF LoopHooks
    <3> QED
      BY <1>2, <3>1 DEF RunInv, BeforeEnd, AfterLoop, AtEnd, Looping
  <2> QED
    BY <2>1, <2>2
<1>13. CASE PostLoop
  <2>1. CASE reason' = "max_iterations" /\ ~cancelled
    BY <1>2, <1>13, <2>1 DEF PostLoop, RunInv, BeforeEnd, AfterLoop, AtEnd, Looping
  <2>2. CASE ~(reason' = "max_iterations" /\ ~cancelled)
    <3>1. BeforeEnd' /\ AfterLoop'
      BY <1>2, <1>13, <2>2 DEF PostLoop, BeforeEnd, AfterLoop
    <3>2. AtEnd'
      BY <1>2, <1>13, <2>2 DEF PostLoop, BeforeEnd, AfterLoop, AtEnd, OfRun
    <3> QED
      BY <3>1, <3>2 DEF RunInv
  <2> QED
    BY <2>1, <2>2
<1>14. CASE WrapReply
  <2>1. BeforeEnd' /\ AfterLoop'
    BY <1>2, <1>14 DEF WrapReply, BeforeEnd, AfterLoop
  <2>2. AtEnd'
    BY <1>2, <1>14 DEF WrapReply, BeforeEnd, AfterLoop, AtEnd, OfRun
  <2> QED
    BY <2>1, <2>2 DEF RunInv
<1>15. CASE Panic
  BY <1>1, <1>2, <1>15, FailEnds DEF Panic, PanicPoints
<1>16. CASE EndHook
  <2>1. BeforeEnd' /\ AfterLoop'
    BY <1>2, <1>16 DEF EndHook, BeforeEnd, AfterLoop
  <2>2. OfRun' = OfRun /\ OfRun \in {0, 1} /\ errors \in Nat /\ reason' = reason
    BY <1>1, <1>16 DEF EndHook, OfRun, CountersOK
  <2>3. /\ pc = "endHooks" /\ errors = OfRun /\ ret # "endHook"
        /\ UNCHANGED <<reason, stop, msgs, iter, wrapped, cancelled, lastError>>
    BY <1>2, <1>16 DEF EndHook, AtEnd
  <2>4. CASE pc' = "closing" /\ errors' = errors + 1 /\ ret' = IF ret = "nil" THEN "endHook" ELSE ret
    <3>1. errors' - OfRun' = 1
      BY <2>2, <2>3, <2>4
    <3>2. ret' # "nil" /\ (ret' = "run" <=> ret = "run")
      BY <2>3, <2>4
    <3> QED
      BY <1>2, <2>1, <2>3, <2>4, <3>1, <3>2 DEF AtEnd, RunInv
  <2>5. CASE UNCHANGED <<pc, ret, errors>>
    <3>1. errors' = OfRun' /\ errors' - OfRun' = 0
      BY <2>2, <2>3, <2>5
    <3> QED
      BY <1>2, <2>1, <2>3, <2>5, <3>1 DEF AtEnd, RunInv
  <2> QED
    BY <1>16, <2>4, <2>5 DEF EndHook
<1>17. CASE EndHooksOver \/ LoopEnd
  <2>1. BeforeEnd' /\ AfterLoop'
    BY <1>2, <1>17 DEF EndHooksOver, LoopEnd, BeforeEnd, AfterLoop
  <2>2. OfRun' = OfRun /\ OfRun \in {0, 1} /\ errors \in Nat /\ endRan \in 0 .. NEnd
    BY <1>1, <1>17 DEF EndHooksOver, LoopEnd, OfRun, CountersOK
  <2>3. AtEnd'
    BY <1>2, <1>17, <2>2, LoopAssumption DEF EndHooksOver, LoopEnd, AtEnd
  <2> QED
    BY <2>1, <2>3 DEF RunInv
<1>18. CASE NextTurn
  BY <1>18 DEF NextTurn, RunInv, BeforeEnd, AfterLoop, AtEnd, Looping
<1>19. CASE Cancel
  <2>1. BeforeEnd' /\ AfterLoop'
    BY <1>2, <1>19 DEF Cancel, BeforeEnd, AfterLoop
  <2>2. AtEnd'
    BY <1>2, <1>19 DEF Cancel, AtEnd, OfRun
  <2> QED
    BY <2>1, <2>2 DEF RunInv
<1>20. CASE Terminated \/ UNCHANGED vars
  BY <1>2, <1>20 DEF Terminated, vars, RunInv, BeforeEnd, AfterLoop, AtEnd, OfRun
<1> QED
  BY <1>4, <1>5, <1>6, <1>7, <1>8, <1>9, <1>10, <1>11, <1>12, <1>13, <1>14, <1>15, <1>16,
     <1>17, <1>18, <1>19, <1>20 DEF Next, RunStep

\* It holds in every behaviour.
LEMMA RunInvHolds == Spec => [](TypeInv /\ RunInv)
<1>1. Init => RunInv
  BY DEF Init, RunInv, BeforeEnd, AfterLoop, AtEnd, Ended, Looping
<1>2. TypeInv /\ RunInv /\ [Next]_vars => RunInv'
  BY RunInvStep
<1> QED
  BY <1>1, <1>2, TypeInvHolds, PTL DEF Spec

\* StopSilencesModel: no step of a stopped Run starts a model call; in the classification
\* after the loop this rests on what set Stop before.
THEOREM StopIsSilent == Spec => StopSilencesModel
<1>1. ASSUME TypeInv, RunInv, [Next]_vars, stop, turn' = turn
      PROVE  modelCalls' = modelCalls
  <2> USE DEF runVars, Goto
  <2>1. CASE OnStart \/ ModelEnd \/ ToolCalls \/ LoopHooks \/ ModelError \/ WrapError
    BY <2>1 DEF OnStart, ModelEnd, ToolCalls, LoopHooks, ModelError, WrapError, Fail
  <2>2. CASE AppendGuides \/ LoopHead \/ ModelReply \/ WrapReply \/ Panic \/ EndHook
             \/ EndHooksOver \/ LoopEnd \/ Cancel \/ Terminated \/ UNCHANGED vars
    BY <2>2 DEF AppendGuides, LoopHead, ModelReply, WrapReply, Panic, EndHook,
       EndHooksOver, LoopEnd, Cancel, Terminated, vars
  <2>3. CASE ModelStart
    BY <1>1, <2>3 DEF ModelStart, Fail
  <2>4. CASE PostLoop
    BY <1>1, <2>4 DEF PostLoop, RunInv, AfterLoop
  <2>5. CASE NextTurn
    BY <1>1, <2>5, LoopAssumption DEF NextTurn, TypeInv, TypeOK
  <2> QED
    BY <1>1, <2>1, <2>2, <2>3, <2>4, <2>5 DEF Next, RunStep
<1>2. TypeInv /\ RunInv /\ [Next]_vars => [stop /\ turn' = turn => modelCalls' = modelCalls]_vars
  BY <1>1
<1> QED
  BY <1>2, RunInvHolds, PTL DEF Spec, StopSilencesModel

\* FailuresReported: whatever way a Run ended, each failure of the run and of an end hook has
\* its error event, nothing else has one, and the end hooks ran up to the first that failed.
THEOREM ReportsFailures == Spec => []FailuresReported
<1>1. RunInv => FailuresReported
  <2> SUFFICES ASSUME RunInv, pc = "done"
               PROVE  /\ errors - OfRun \in {0, 1}
                      /\ endRan < NEnd => errors - OfRun = 1
                      /\ ret = "endHook" => errors - OfRun = 1
                      /\ ret = "nil" => errors - OfRun = 0
    BY DEF FailuresReported, OfRun
  <2> QED
    BY DEF RunInv, AtEnd, Ended
<1> QED
  BY <1>1, RunInvHolds, PTL

\* The reply a history ends with is the last one of the assistant.
LEMMA EndsWithReply ==
  ASSUME msgs \in Seq(Message), Last(msgs) = Assistant(<<>>)
  PROVE  LastAssistant = Len(msgs)
<1> DEFINE R == {p \in DOMAIN msgs : msgs[p].role = "assistant"} \cup {0}
<1>1. DOMAIN msgs = 1 .. Len(msgs) /\ Len(msgs) \in Nat
  OBVIOUS
<1>2. Len(msgs) \in R
  <2>1. CASE Len(msgs) = 0
    BY <2>1
  <2>2. CASE Len(msgs) # 0
    <3>1. msgs[Len(msgs)].role = "assistant"
      BY DEF Last, Assistant
    <3> QED
      BY <1>1, <2>2, <3>1
  <2> QED
    BY <2>1, <2>2
<1>3. \A p \in R : p \in Nat /\ p <= Len(msgs)
  BY <1>1
<1> HIDE DEF R
<1>4. Max(R) = Len(msgs)
  <2>1. Max(R) \in R /\ \A y \in R : Max(R) >= y
    BY <1>1, <1>2, <1>3 DEF Max
  <2> QED
    BY <1>1, <1>2, <1>3, <2>1
<1> QED
  BY <1>4 DEF LastAssistant, R

\* ReasonExplainsRun: the reason a finished Run reports is how it went, its error agrees with
\* the reason, and an answer without a note is the reply the Run ended with.
THEOREM ReasonIsTrue == Spec => []ReasonExplainsRun
<1>1. TypeInv /\ RunInv => ReasonExplainsRun
  <2> SUFFICES ASSUME TypeInv, RunInv, pc = "done"
               PROVE  ReasonExplainsRun
    BY DEF ReasonExplainsRun
  <2>1. AtEnd /\ pc \in Ended
    BY DEF RunInv, Ended
  <2>2. ASSUME ret = "nil", FormatResult.note = "none"
        PROVE  FormatResult.answer = Len(msgs)
    <3>1. reason \notin {"none", "cancelled", "error"}
      BY <2>1, <2>2 DEF AtEnd
    <3>2. reason \notin {"max_iterations", "aborted"}
      BY <2>2 DEF FormatResult
    <3>3. reason = "completed"
      BY <3>1, <3>2 DEF TypeInv, TypeOK, Reasons
    <3>4. Last(msgs) = Assistant(<<>>) /\ msgs \in Seq(Message)
      BY <2>1, <3>3 DEF AtEnd, TypeInv, TypeOK
    <3> QED
      BY <3>4, EndsWithReply DEF FormatResult
  <2> QED
    BY <2>1, <2>2 DEF ReasonExplainsRun, AtEnd
<1> QED
  BY <1>1, RunInvHolds, PTL

-----------------------------------------------------------------------------
(* Cancellation                                                            *)

\* AtMostOneLateCall: the loop tests its ctx before each iteration and before finalWrap, so only
\* the call behind a test that had been passed starts after the cancellation.
THEOREM OneLateCall == Spec => []AtMostOneLateCall
<1>1. Init => LateInv
  BY DEF Init, LateInv
<1>2. TypeInv /\ LateInv /\ [Next]_vars => LateInv'
  <2> SUFFICES ASSUME TypeInv, LateInv, [Next]_vars PROVE LateInv'
    OBVIOUS
  <2>1. /\ lateCalls \in Nat /\ lateCalls <= 1 /\ (~cancelled => lateCalls = 0)
        /\ pc \in {"onStart", "guides", "modelStart"} => lateCalls = 0
    BY DEF LateInv, TypeInv, TypeOK
  <2> USE DEF Goto, runVars
  <2>2. CASE OnStart \/ AppendGuides \/ ModelReply \/ ModelError \/ ModelEnd \/ ToolCalls
             \/ LoopHooks \/ WrapReply \/ WrapError \/ Panic \/ EndHook \/ EndHooksOver
             \/ LoopEnd
    <3>1. /\ UNCHANGED <<cancelled, lateCalls>>
          /\ pc' \in {"onStart", "guides", "modelStart"} => pc = "onStart"
      BY <2>2 DEF OnStart, AppendGuides, ModelReply, ModelError, ModelEnd, ToolCalls,
         LoopHooks, WrapReply, WrapError, Panic, EndHook, EndHooksOver, LoopEnd, Fail
    <3> QED
      BY <2>1, <3>1 DEF LateInv
  <2>3. CASE LoopHead
    BY <2>1, <2>3 DEF LoopHead, LateInv
  <2>4. CASE ModelStart
    BY <2>1, <2>4 DEF ModelStart, CallStarts, Fail, LateInv
  <2>5. CASE PostLoop
    BY <2>1, <2>5 DEF PostLoop, CallStarts, LateInv
  <2>6. CASE NextTurn
    BY <2>6 DEF NextTurn, LateInv
  <2>7. CASE Cancel \/ Terminated \/ UNCHANGED vars
    BY <2>1, <2>7 DEF Cancel, Terminated, vars, LateInv
  <2> QED
    BY <2>2, <2>3, <2>4, <2>5, <2>6, <2>7 DEF Next, RunStep
<1>3. LateInv => AtMostOneLateCall
  BY DEF LateInv, AtMostOneLateCall
<1> QED
  BY <1>1, <1>2, <1>3, TypeInvHolds, PTL DEF Spec

-----------------------------------------------------------------------------
(* The history                                                             *)

\* What is answered stays answered when the history grows.
LEMMA StaysAnswered ==
  ASSUME NEW ms \in Seq(Message), NEW out \in Seq(Message), Len(ms) <= Len(out),
         \A q \in 1 .. Len(ms) : out[q] = ms[q],
         NEW p \in 1 .. Len(ms), AnsweredAt(ms, p)
  PROVE  AnsweredAt(out, p)
<1>1. out[p] = ms[p] /\ p \in DOMAIN ms
  OBVIOUS
<1>2. /\ Len(ms[p].calls) \in Nat /\ Len(ms) \in Nat /\ Len(out) \in Nat
      /\ DOMAIN ms[p].calls = 1 .. Len(ms[p].calls)
  BY <1>1, MessageFields
<1>3. p + Len(ms[p].calls) <= Len(out)
  BY <1>2 DEF AnsweredAt
<1>4. ASSUME NEW k \in DOMAIN ms[p].calls
      PROVE  out[p + k] = Tool(ms[p].calls[k])
  <2>1. p + k \in DOMAIN ms /\ ms[p + k] = Tool(ms[p].calls[k])
    BY <1>1, AnsweredAtIds
  <2> QED
    BY <2>1
<1> QED
  BY <1>1, <1>3, <1>4 DEF AnsweredAt

\* A message that is no answer, and whose calls nobody has answered before, joins the history.
LEMMA AppendKeeps ==
  ASSUME NEW ms \in Seq(Message), Mendable(ms), NEW m \in Message, m.role # "tool",
         m.calls # <<>> => m.role = "assistant", ToSet(m.calls) \cap AnsweredIds(ms) = {}
  PROVE  /\ Append(ms, m) \in Seq(Message) /\ Mendable(Append(ms, m))
         /\ CalledIds(Append(ms, m)) = CalledIds(ms) \cup ToSet(m.calls)
         /\ \A p \in 1 .. Len(ms) : AnsweredAt(ms, p) => AnsweredAt(Append(ms, m), p)
         /\ Complete(ms) /\ m.calls = <<>> => Complete(Append(ms, m))
<1> DEFINE out == Append(ms, m)
           n == Len(ms) + 1
<1>1. /\ out \in Seq(Message) /\ Len(out) = n /\ out[n] = m /\ n \in Nat /\ Len(ms) \in Nat
      /\ \A p \in 1 .. Len(ms) : out[p] = ms[p]
  BY AppendType
<1>2. /\ DOMAIN out = DOMAIN ms \cup {n} /\ DOMAIN ms = 1 .. Len(ms) /\ n \notin DOMAIN ms
      /\ DOMAIN out = 1 .. n
  BY <1>1
<1> HIDE DEF out, n
<1>3. CalledIds(out) = CalledIds(ms) \cup ToSet(m.calls)
  <2>1. \A p \in DOMAIN ms : out[p] = ms[p]
    BY <1>1, <1>2
  <2> QED
    BY <1>1, <1>2, <2>1 DEF CalledIds
<1>4. AnsweredIds(out) = AnsweredIds(ms)
  <2>1. \A p \in DOMAIN ms : out[p] = ms[p]
    BY <1>1, <1>2
  <2> QED
    BY <1>1, <1>2, <2>1 DEF AnsweredIds
<1>5. \A p \in 1 .. Len(ms) : AnsweredAt(ms, p) => AnsweredAt(out, p)
  <2>1. Len(ms) <= Len(out)
    BY <1>1 DEF n
  <2> QED
    BY <1>1, <2>1, StaysAnswered
<1>6. \A p \in 1 .. Len(ms) : Unanswered(ms, p) => Unanswered(out, p)
  BY <1>1, <1>4 DEF Unanswered
<1>7. Unanswered(out, n)
  <2>1. \A k \in DOMAIN m.calls : m.calls[k] \in ToSet(m.calls)
    BY DEF ToSet
  <2> QED
    BY <1>1, <1>4, <2>1 DEF Unanswered
<1>8. Mendable(out)
  <2>1. \A p \in DOMAIN out : out[p].calls # <<>> => out[p].role = "assistant"
    BY <1>1, <1>2 DEF Mendable
  <2>2. \A p \in DOMAIN out : AnsweredAt(out, p) \/ Unanswered(out, p)
    BY <1>2, <1>5, <1>6, <1>7 DEF Mendable
  <2>3. AnsweredIds(out) \subseteq CalledIds(out)
    BY <1>3, <1>4 DEF Mendable
  <2> QED
    BY <2>1, <2>2, <2>3 DEF Mendable
<1>9. ASSUME Complete(ms), m.calls = <<>>
      PROVE  Complete(out)
  <2>1. AnsweredAt(out, n)
    BY <1>1, <1>2, <1>9, NoCallsAnswered
  <2>2. \A p \in DOMAIN out : AnsweredAt(out, p)
    BY <1>2, <1>5, <1>9, <2>1 DEF Complete
  <2>3. AnsweredIds(out) \subseteq CalledIds(out)
    BY <1>3, <1>4 DEF Mendable
  <2> QED
    BY <2>2, <2>3 DEF Complete
<1> QED
  BY <1>1, <1>3, <1>5, <1>8, <1>9 DEF out

\* A round of calls answers the reply it executes: the history is complete again.
LEMMA AnswersComplete ==
  ASSUME NEW ms \in Seq(Message), Mendable(ms), ms # <<>>,
         \A p \in 1 .. Len(ms) - 1 : AnsweredAt(ms, p)
  PROVE  LET out == ms \o Answers(Last(ms).calls)
         IN  out \in Seq(Message) /\ Complete(out) /\ Mendable(out) /\ CalledIds(out) = CalledIds(ms)
<1> DEFINE calls == Last(ms).calls
           e == Answers(calls)
           out == ms \o e
           l == Len(ms)
           n == Len(calls)
<1>1. /\ l \in DOMAIN ms /\ l \in Nat /\ l >= 1 /\ calls = ms[l].calls
      /\ e \in Seq(Message) /\ Len(e) = n /\ out \in Seq(Message)
  BY AnswersType
<1>2. n \in Nat /\ DOMAIN calls = 1 .. n /\ \A k \in 1 .. n : calls[k] \in Nat
  BY <1>1, MessageFields
<1>3. \A k \in 1 .. n : e[k] = Tool(calls[k])
  BY <1>2 DEF Answers
<1> HIDE DEF e, calls, n
<1>4. /\ Len(out) = l + n
      /\ \A p \in 1 .. l : out[p] = ms[p]
      /\ \A k \in 1 .. n : out[l + k] = Tool(calls[k])
  <2>1. /\ Len(ms \o e) = Len(ms) + Len(e)
        /\ \A i \in 1 .. Len(ms) + Len(e) :
             (ms \o e)[i] = IF i <= Len(ms) THEN ms[i] ELSE e[i - Len(ms)]
    BY <1>1, ConcatProperties
  <2>2. \A k \in 1 .. n : l + k \in 1 .. l + n /\ ~(l + k <= l) /\ l + k - l = k
    BY <1>1, <1>2
  <2>3. \A p \in 1 .. l : p \in 1 .. l + n /\ p <= l
    BY <1>1, <1>2
  <2> QED
    BY <1>1, <1>3, <2>1, <2>2, <2>3
<1> HIDE DEF out, l
<1>5. DOMAIN out = 1 .. l + n /\ DOMAIN ms = 1 .. l /\ l = Len(ms)
  BY <1>1, <1>4 DEF l
<1>6. ASSUME NEW p \in DOMAIN out
      PROVE  p \in DOMAIN ms \/ \E k \in 1 .. n : p = l + k /\ out[p] = Tool(calls[k])
  <2>1. p \in 1 .. l \/ (p - l \in 1 .. n /\ p = l + (p - l))
    BY <1>1, <1>2, <1>5
  <2> QED
    BY <1>4, <1>5, <2>1
<1>7. \A p \in DOMAIN ms : out[p] = ms[p] /\ p \in DOMAIN out
  BY <1>1, <1>2, <1>4, <1>5
<1>8. \A k \in 1 .. n : Tool(calls[k]).calls = <<>> /\ Tool(calls[k]).role = "tool"
                        /\ Tool(calls[k]).id = calls[k]
  BY <1>2, ToolMessage
<1>9. CalledIds(out) = CalledIds(ms)
  <2>1. \A p \in DOMAIN out : p \in DOMAIN ms \/ out[p].calls = <<>>
    BY <1>6, <1>8
  <2>2. ToSet(<<>>) = {}
    BY DEF ToSet
  <2> QED
    BY <1>7, <2>1, <2>2 DEF CalledIds
<1>10. AnsweredIds(out) \subseteq CalledIds(out)
  <2> SUFFICES ASSUME NEW p \in DOMAIN out, out[p].role = "tool"
               PROVE  out[p].id \in CalledIds(ms)
    BY <1>9 DEF AnsweredIds
  <2>1. CASE p \in DOMAIN ms
    BY <1>7, <2>1 DEF Mendable, AnsweredIds
  <2>2. ASSUME NEW k \in 1 .. n, out[p] = Tool(calls[k])
        PROVE  out[p].id \in CalledIds(ms)
    <3>1. out[p].id = calls[k] /\ k \in DOMAIN ms[l].calls /\ calls[k] = ms[l].calls[k]
      BY <1>1, <1>2, <1>8, <2>2
    <3>2. out[p].id \in ToSet(ms[l].calls)
      BY <3>1 DEF ToSet
    <3> QED
      BY <1>1, <3>2 DEF CalledIds
  <2> QED
    BY <1>6, <2>1, <2>2
<1>11. \A p \in DOMAIN out : AnsweredAt(out, p)
  <2> SUFFICES ASSUME NEW p \in DOMAIN out PROVE AnsweredAt(out, p)
    OBVIOUS
  <2>1. CASE p \in 1 .. l - 1
    <3>1. AnsweredAt(ms, p) /\ p \in 1 .. Len(ms)
      BY <1>1, <1>5, <2>1
    <3>2. Len(ms) <= Len(out)
      BY <1>1, <1>2, <1>4, <1>5
    <3> QED
      BY <1>1, <1>4, <1>5, <3>1, <3>2, StaysAnswered
  <2>2. CASE p = l
    <3>1. out[l].calls = calls /\ Len(calls) = n
      <4>1. out[l] = ms[l]
        BY <1>1, <1>7
      <4> QED
        BY <1>1, <4>1 DEF n
    <3>2. l + Len(out[l].calls) <= Len(out)
      BY <1>1, <1>2, <1>4, <3>1
    <3>3. \A k \in DOMAIN out[l].calls : out[l + k] = Tool(out[l].calls[k])
      BY <1>2, <1>4, <3>1
    <3> QED
      BY <2>2, <3>2, <3>3 DEF AnsweredAt
  <2>3. CASE p \notin 1 .. l
    <3>1. out[p].calls = <<>>
      BY <1>5, <1>6, <1>8, <2>3
    <3>2. p \in 1 .. Len(out)
      BY <1>4, <1>5
    <3> QED
      BY <1>1, <3>1, <3>2, NoCallsAnswered
  <2>4. p \in 1 .. l - 1 \/ p = l \/ p \notin 1 .. l
    BY <1>1, <1>5
  <2> QED
    BY <2>1, <2>2, <2>3, <2>4
<1>12. Complete(out)
  BY <1>10, <1>11 DEF Complete
<1>13. Mendable(out)
  <2>1. \A p \in DOMAIN out : out[p].calls # <<>> => out[p].role = "assistant"
    BY <1>6, <1>7, <1>8 DEF Mendable
  <2> QED
    BY <1>10, <1>11, <2>1 DEF Mendable
<1> QED
  BY <1>1, <1>9, <1>12, <1>13 DEF out, e, calls

\* With contextfix registered, every step leaves a history that the next Run can mend, and a
\* complete one where a model is asked.
LEMMA HistoryInvStep ==
  ASSUME ContextFix, TypeInv, RunInv, HistoryInv, [Next]_vars
  PROVE  HistoryInv'
<1>1. msgs \in Seq(Message) /\ nextId \in Nat /\ Mendable(msgs) /\ stop \in BOOLEAN
  BY DEF TypeInv, TypeOK, HistoryInv
<1>2. \A i \in CalledIds(msgs) : i < nextId
  BY DEF HistoryInv
<1>3. /\ Append(msgs, User) \in Seq(Message) /\ Mendable(Append(msgs, User))
      /\ CalledIds(Append(msgs, User)) = CalledIds(msgs)
      /\ Complete(msgs) => Complete(Append(msgs, User))
  <2>1. User \in Message /\ User.role # "tool" /\ User.calls = <<>> /\ ToSet(User.calls) = {}
    BY UserAssistantType DEF User, ToSet
  <2> QED
    BY <1>1, <2>1, AppendKeeps
<1>4. /\ Mendable(Append(msgs, Assistant(<<>>)))
      /\ CalledIds(Append(msgs, Assistant(<<>>))) = CalledIds(msgs)
  <2>1. /\ Assistant(<<>>) \in Message /\ Assistant(<<>>).role = "assistant"
        /\ ToSet(Assistant(<<>>).calls) = {}
    BY UserAssistantType DEF Assistant, ToSet
  <2> QED
    BY <1>1, <2>1, AppendKeeps
<1> USE DEF Goto, runVars
<1>5. ASSUME pc' \in Ended, UNCHANGED nextId, Mendable(msgs'), CalledIds(msgs') \subseteq CalledIds(msgs)
      PROVE  HistoryInv'
  BY <1>2, <1>5 DEF HistoryInv, Ended
<1>6. ASSUME UNCHANGED <<msgs, nextId>>, pc' \in Ended
      PROVE  HistoryInv'
  BY <1>1, <1>5, <1>6
<1>7. CASE OnStart
  <2>1. /\ Mendable(Fix(msgs)) /\ Complete(Fix(msgs))
        /\ CalledIds(Fix(msgs)) \subseteq CalledIds(msgs)
    BY <1>1, FixCompletes
  <2>2. CASE Fail
    <3>1. pc' \in Ended /\ UNCHANGED nextId /\ msgs' \in {msgs, Fix(msgs)}
      BY <1>7, <2>2 DEF OnStart, Fail, Ended
    <3> QED
      BY <1>1, <1>5, <2>1, <3>1
  <2>3. CASE ~Fail
    <3>1. pc' = "guides" /\ UNCHANGED nextId /\ msgs' = Fix(msgs)
      BY <1>7, <2>3 DEF OnStart
    <3> QED
      BY <1>2, <2>1, <3>1 DEF HistoryInv
  <2> QED
    BY <2>2, <2>3
<1>8. CASE AppendGuides
  BY <1>8 DEF AppendGuides, HistoryInv
<1>9. CASE LoopHead
  <2>1. pc = "head" /\ UNCHANGED <<msgs, nextId>> /\ pc' \in {"endHooks", "modelStart", "post"}
    BY <1>9 DEF LoopHead
  <2> QED
    BY <2>1 DEF HistoryInv
<1>10. CASE ModelStart
  <2>1. /\ pc = "modelStart" /\ UNCHANGED <<msgs, nextId>>
        /\ pc' \in {"endHooks", "inModel"} \/ (pc' = "post" /\ stop')
    BY <1>10 DEF ModelStart, Fail
  <2> QED
    BY <2>1 DEF HistoryInv
<1>11. CASE ModelReply
  <2>1. PICK k \in 0 .. MaxCalls :
          /\ msgs' = Append(msgs, Assistant([c \in 1 .. k |-> nextId + c - 1]))
          /\ nextId' = nextId + k
    BY <1>11 DEF ModelReply
  <2> DEFINE ids == [c \in 1 .. k |-> nextId + c - 1]
             m == Assistant(ids)
  <2>2. k \in Nat
    BY LoopAssumption
  <2>3. m \in Message /\ m.role = "assistant" /\ m.calls = ids
    BY <1>1, <2>2, UserAssistantType DEF Assistant
  <2>4. \A i \in ToSet(ids) : i >= nextId /\ i < nextId + k /\ i \in Nat
    BY <1>1, <2>2 DEF ToSet
  <2>5. \A i \in CalledIds(msgs) : i \in Nat
    BY <1>1, MessageFields DEF CalledIds, ToSet
  <2>6. ToSet(m.calls) \cap AnsweredIds(msgs) = {}
    BY <1>1, <1>2, <2>3, <2>4, <2>5 DEF Mendable
  <2> HIDE DEF m, ids
  <2>7. /\ msgs' = Append(msgs, m) /\ Mendable(msgs')
        /\ CalledIds(msgs') = CalledIds(msgs) \cup ToSet(ids)
        /\ Len(msgs') - 1 = Len(msgs) /\ msgs' # <<>>
        /\ \A p \in 1 .. Len(msgs) : AnsweredAt(msgs, p) => AnsweredAt(msgs', p)
    <3>1. msgs' = Append(msgs, m)
      BY <2>1 DEF m, ids
    <3>2. Len(Append(msgs, m)) = Len(msgs) + 1 /\ Append(msgs, m) # <<>> /\ Len(msgs) \in Nat
      BY <1>1, <2>3, AppendType
    <3> QED
      BY <1>1, <2>3, <2>6, <3>1, <3>2, AppendKeeps
  <2>8. \A i \in CalledIds(msgs') : i < nextId'
    BY <1>1, <1>2, <2>1, <2>2, <2>4, <2>5, <2>7
  <2>9. \A p \in 1 .. Len(msgs') - 1 : AnsweredAt(msgs', p)
    <3>1. Complete(msgs) /\ DOMAIN msgs = 1 .. Len(msgs)
      BY <1>1, <1>11 DEF ModelReply, HistoryInv
    <3> QED
      BY <2>7, <3>1 DEF Complete
  <2> QED
    BY <1>11, <2>7, <2>8, <2>9 DEF ModelReply, HistoryInv
<1>12. CASE ModelError \/ WrapError
  <2>1. /\ pc' \in Ended /\ UNCHANGED nextId
        /\ msgs' \in {msgs, Append(msgs, Assistant(<<>>))}
    BY <1>12 DEF ModelError, WrapError, Rescued, Fail, Ended
  <2> QED
    BY <1>1, <1>4, <1>5, <2>1
<1>13. CASE ModelEnd
  <2>1. /\ pc = "modelEnd" /\ UNCHANGED <<msgs, nextId>>
        /\ \/ pc' = "endHooks" \/ (pc' = "post" /\ stop') \/ pc' = "batch"
           \/ pc' = "post" /\ Last(msgs).calls = <<>>
    BY <1>13 DEF ModelEnd, Fail
  <2>2. Last(msgs).calls = <<>> => Complete(msgs)
    <3> SUFFICES ASSUME Last(msgs).calls = <<>>, NEW p \in DOMAIN msgs
                 PROVE  AnsweredAt(msgs, p)
      BY <1>1 DEF Complete, Mendable
    <3>1. p \in 1 .. Len(msgs) /\ Len(msgs) \in Nat
      BY <1>1
    <3>2. CASE p = Len(msgs)
      BY <1>1, <3>1, <3>2, NoCallsAnswered DEF Last
    <3>3. CASE p # Len(msgs)
      BY <2>1, <3>1, <3>3 DEF HistoryInv
    <3> QED
      BY <3>2, <3>3
  <2> QED
    BY <2>1, <2>2 DEF HistoryInv
<1>14. CASE ToolCalls
  <2>1. /\ msgs' = msgs \o Answers(Last(msgs).calls) /\ UNCHANGED nextId
        /\ pc = "batch" /\ pc' \in {"post", "loopHooks", "endHooks"}
    BY <1>14 DEF ToolCalls, Answers, Fail
  <2>2. Complete(msgs') /\ Mendable(msgs') /\ CalledIds(msgs') = CalledIds(msgs)
    BY <1>1, <2>1, AnswersComplete DEF HistoryInv
  <2> QED
    BY <1>2, <2>1, <2>2 DEF HistoryInv
<1>15. CASE LoopHooks
  <2>1. pc = "loopHooks" /\ UNCHANGED <<msgs, nextId>> /\ pc' \in {"head", "endHooks"}
    BY <1>15 DEF LoopHooks, Fail
  <2> QED
    BY <2>1 DEF HistoryInv
<1>16. CASE PostLoop
  <2>1. CASE UNCHANGED msgs
    BY <1>6, <1>16, <2>1 DEF PostLoop, Ended
  <2>2. CASE msgs' = Append(msgs, User)
    <3>1. ~stop /\ pc = "post" /\ pc' = "inWrap" /\ UNCHANGED nextId
      BY <1>16, <2>2 DEF PostLoop, RunInv, AfterLoop
    <3>2. Complete(msgs)
      BY <3>1 DEF HistoryInv
    <3> QED
      BY <1>2, <1>3, <2>2, <3>1, <3>2 DEF HistoryInv
  <2> QED
    BY <1>16, <2>1, <2>2 DEF PostLoop
<1>17. CASE WrapReply
  BY <1>4, <1>5, <1>17 DEF WrapReply, Ended
<1>18. CASE Panic \/ EndHook \/ EndHooksOver \/ LoopEnd
  BY <1>6, <1>18 DEF Panic, EndHook, EndHooksOver, LoopEnd, Ended
<1>19. CASE NextTurn
  <2>1. pc' = "onStart" /\ UNCHANGED nextId /\ msgs' = Append(msgs, User)
    BY <1>19 DEF NextTurn
  <2> QED
    BY <1>2, <1>3, <2>1 DEF HistoryInv
<1>20. CASE Cancel \/ Terminated \/ UNCHANGED vars
  <2>1. UNCHANGED <<pc, msgs, nextId, stop>>
    BY <1>20 DEF Cancel, Terminated, vars
  <2> QED
    BY <2>1 DEF HistoryInv
<1> QED
  BY <1>7, <1>8, <1>9, <1>10, <1>11, <1>12, <1>13, <1>14, <1>15, <1>16, <1>17, <1>18,
     <1>19, <1>20 DEF Next, RunStep

\* RequestsComplete: with contextfix registered, every history sent to a model is complete, in
\* any conversation, whatever way its earlier Runs ended.
THEOREM RequestsAreComplete == ContextFix => (Spec => []RequestsComplete)
<1> SUFFICES ASSUME ContextFix PROVE Spec => []RequestsComplete
  OBVIOUS
<1>1. Init => HistoryInv
  <2> SUFFICES ASSUME Init PROVE HistoryInv
    OBVIOUS
  <2>1. msgs = <<User>> /\ pc = "onStart" /\ DOMAIN msgs = {1} /\ msgs[1] = User
    BY DEF Init
  <2>2. User.calls = <<>> /\ User.role = "user" /\ ToSet(User.calls) = {}
    BY DEF User, ToSet
  <2>3. AnsweredIds(msgs) = {} /\ CalledIds(msgs) = {}
    BY <2>1, <2>2 DEF AnsweredIds, CalledIds
  <2>4. Mendable(msgs)
    BY <2>1, <2>2, <2>3 DEF Mendable, Unanswered
  <2> QED
    BY <2>1, <2>3, <2>4 DEF HistoryInv
<1>2. TypeInv /\ RunInv /\ HistoryInv /\ [Next]_vars => HistoryInv'
  BY HistoryInvStep
<1>3. HistoryInv => RequestsComplete
  BY DEF HistoryInv, RequestsComplete
<1> QED
  BY <1>1, <1>2, <1>3, RunInvHolds, PTL DEF Spec

===============================================================================
