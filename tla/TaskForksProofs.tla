--------------------------- MODULE TaskForksProofs ---------------------------
(***************************************************************************)
(* TaskForks: proofs for any batch of task calls, any number of Runs and   *)
(* restarts, any limit of the tools and any capacity of the channel.       *)
(***************************************************************************)
EXTENDS TaskForks, FiniteSetTheorems, TLAPS

-----------------------------------------------------------------------------
(* The sum over a finite set                                               *)

\* Induction over the natural numbers, for a set instead of a predicate.
LEMMA NatSetInduction ==
  ASSUME NEW S, 0 \in S, \A n \in Nat : n \in S => n + 1 \in S
  PROVE  Nat \subseteq S
<1>1. IsWellFoundedOn(OpToRel(<, Nat), Nat)
  BY NatLessThanWellFounded
<1>2. ASSUME NEW T, T \subseteq Nat, T # {}
      PROVE  \E x \in T : \A y \in T : ~ (<<y, x>> \in OpToRel(<, Nat))
  BY <1>1, <1>2, WFMin
<1>3. SUFFICES ASSUME Nat \ S # {} PROVE FALSE
  OBVIOUS
<1>4. PICK x \in Nat \ S : \A y \in Nat \ S : ~ (<<y, x>> \in OpToRel(<, Nat))
  BY <1>2, <1>3
<1>5. \A y \in Nat \ S : ~ (y < x)
  BY <1>4 DEF OpToRel
<1>6. x # 0 /\ x - 1 \in Nat
  OBVIOUS
<1>7. QED
  BY <1>5, <1>6

\* Induction over the subsets of a finite set, for a set instead of a predicate.
LEMMA SubsetInduction ==
  ASSUME NEW S, IsFiniteSet(S), NEW T,
         \A U \in SUBSET S : (\A x \in U : U \ {x} \in T) => U \in T
  PROVE  SUBSET S \subseteq T
<1>1. SUFFICES ASSUME (SUBSET S) \ T # {} PROVE FALSE
  OBVIOUS
<1> DEFINE N == {Cardinality(U) : U \in (SUBSET S) \ T}
<1>2. \A U \in SUBSET S : IsFiniteSet(U) /\ Cardinality(U) \in Nat
  BY FS_Subset, FS_CardinalityType
<1>3. N \subseteq Nat /\ N # {}
  BY <1>1, <1>2
<1> HIDE DEF N
<1>4. PICK n \in N : \A m \in N : ~ (<<m, n>> \in OpToRel(<, Nat))
  BY <1>3, NatLessThanWellFounded, WFMin
<1>5. PICK U \in (SUBSET S) \ T : n = Cardinality(U)
  BY DEF N
<1>6. PICK x \in U : U \ {x} \notin T
  BY <1>5
<1>7. Cardinality(U \ {x}) \in N /\ Cardinality(U \ {x}) = n - 1 /\ n \in Nat /\ n - 1 \in Nat
  <2>1. U \ {x} \in (SUBSET S) \ T
    BY <1>5, <1>6
  <2>2. Cardinality(U \ {x}) \in Nat
    BY <1>2, <2>1
  <2>3. Cardinality(U \ {x}) = n - 1
    BY <1>2, <1>5, <1>6, FS_RemoveElement
  <2> QED
    BY <1>2, <1>5, <2>1, <2>2, <2>3 DEF N
<1>8. <<n - 1, n>> \in OpToRel(<, Nat)
  BY <1>7 DEF OpToRel
<1> QED
  BY <1>4, <1>7, <1>8

\* The function behind MapThenSumSet: it takes the elements one by one, in an order of its own.
Pick(s) == CHOOSE x \in s : TRUE
Body(f, g, s) == IF s = {} THEN 0 ELSE f[Pick(s)] + g[s \ {Pick(s)}]
Sums(f, S) == CHOOSE g : g = [s \in SUBSET S |-> Body(f, g, s)]
Total(f, S) == Sums(f, S)[S]

\* UsageExact in these terms.
LEMMA UsageIsTotal == UsageExact <=> usage = Total(spent, answered)
BY DEF UsageExact, MapThenSumSet, MapThenFoldSet, Total, Sums, Body, Pick

\* The recursive function exists: it satisfies its own equation.
LEMMA SumsDef ==
  ASSUME NEW f, NEW S, IsFiniteSet(S)
  PROVE  \A s \in SUBSET S : Sums(f, S)[s] = Body(f, Sums(f, S), s)
<1> DEFINE Upto(g, n) == \A s \in SUBSET S : Cardinality(s) < n => g[s] = Body(f, g, s)
           T == {n \in Nat : \E g : Upto(g, n)}
<1>1. \A U \in SUBSET S : IsFiniteSet(U) /\ Cardinality(U) \in Nat /\ Cardinality(U) <= Cardinality(S)
  BY FS_Subset, FS_CardinalityType
<1>2. \A U \in SUBSET S : U # {} =>
        /\ U \ {Pick(U)} \in SUBSET S
        /\ Cardinality(U \ {Pick(U)}) = Cardinality(U) - 1
  <2> SUFFICES ASSUME NEW U \in SUBSET S, U # {}
               PROVE  Cardinality(U \ {Pick(U)}) = Cardinality(U) - 1
    OBVIOUS
  <2>1. Pick(U) \in U
    BY DEF Pick
  <2> QED
    BY <1>1, <2>1, FS_RemoveElement
<1>3. 0 \in T
  <2>1. Upto(f, 0)
    BY <1>1
  <2> QED
    BY <2>1
<1>4. ASSUME NEW n \in Nat, n \in T
      PROVE  n + 1 \in T
  <2>1. PICK g : Upto(g, n)
    BY <1>4
  <2> DEFINE h == [s \in SUBSET S |-> IF Cardinality(s) = n THEN Body(f, g, s) ELSE g[s]]
  <2>2. ASSUME NEW s \in SUBSET S, Cardinality(s) < n + 1
        PROVE  h[s] = Body(f, g, s)
    <3>1. Cardinality(s) = n \/ Cardinality(s) < n
      BY <1>1, <2>2
    <3> QED
      BY <2>1, <3>1
  <2>3. ASSUME NEW s \in SUBSET S, Cardinality(s) < n + 1, s # {}
        PROVE  h[s \ {Pick(s)}] = g[s \ {Pick(s)}]
    <3>1. s \ {Pick(s)} \in SUBSET S /\ Cardinality(s \ {Pick(s)}) # n
      BY <1>1, <1>2, <2>3
    <3> QED
      BY <3>1
  <2> HIDE DEF h
  <2>4. Upto(h, n + 1)
    BY <2>2, <2>3 DEF Body
  <2>5. n + 1 \in Nat
    OBVIOUS
  <2> HIDE DEF Upto
  <2> QED
    BY <2>4, <2>5
<1>5. PICK g : Upto(g, Cardinality(S) + 1)
  <2> HIDE DEF T
  <2>1. Nat \subseteq T
    BY <1>3, <1>4, NatSetInduction
  <2>2. Cardinality(S) + 1 \in T
    BY <1>1, <2>1
  <2> QED
    BY <2>2 DEF T
<1> DEFINE h == [s \in SUBSET S |-> g[s]]
<1>6. \A s \in SUBSET S : g[s] = Body(f, g, s) /\ h[s] = g[s]
  BY <1>1, <1>5
<1>7. \A s \in SUBSET S : s # {} => h[s \ {Pick(s)}] = g[s \ {Pick(s)}]
  BY <1>2
<1> HIDE DEF h
<1>8. \A s \in SUBSET S : h[s] = Body(f, h, s)
  BY <1>6, <1>7 DEF Body
<1>9. h = [s \in SUBSET S |-> Body(f, h, s)]
  <2>1. h = [s \in SUBSET S |-> h[s]]
    BY DEF h
  <2> QED
    BY <1>8, <2>1
<1> DEFINE F == Sums(f, S)
<1>10. F = [s \in SUBSET S |-> Body(f, F, s)]
  BY <1>9 DEF Sums
<1> HIDE DEF F
<1>11. \A s \in SUBSET S : F[s] = Body(f, F, s)
  BY <1>10
<1> QED
  BY <1>11 DEF F

\* The sum depends on nothing but the values on the set.
LEMMA SumsAgree ==
  ASSUME NEW f, NEW g, NEW S, IsFiniteSet(S), NEW R, IsFiniteSet(R),
         NEW U \in SUBSET (S \cap R), \A x \in U : f[x] = g[x]
  PROVE  Sums(f, S)[U] = Sums(g, R)[U]
<1> DEFINE F == Sums(f, S)
           G == Sums(g, R)
           T == {V \in SUBSET U : F[V] = G[V]}
<1>1. IsFiniteSet(U) /\ U \subseteq S /\ U \subseteq R
  BY FS_Subset
<1>2. \A V \in SUBSET U : F[V] = Body(f, F, V) /\ G[V] = Body(g, G, V)
  <2>1. (\A V \in SUBSET S : F[V] = Body(f, F, V)) /\ (\A V \in SUBSET R : G[V] = Body(g, G, V))
    BY SumsDef
  <2> HIDE DEF F, G
  <2> QED
    BY <1>1, <2>1
<1> HIDE DEF F, G
<1>3. ASSUME NEW V \in SUBSET U, \A x \in V : V \ {x} \in T
      PROVE  V \in T
  <2>1. V # {} => Pick(V) \in V
    BY DEF Pick
  <2>2. V # {} => f[Pick(V)] = g[Pick(V)] /\ F[V \ {Pick(V)}] = G[V \ {Pick(V)}]
    BY <1>3, <2>1
  <2>3. Body(f, F, V) = Body(g, G, V)
    BY <2>2 DEF Body
  <2> QED
    BY <1>2, <2>3
<1>4. U \in T
  <2> HIDE DEF T
  <2>1. SUBSET U \subseteq T
    BY <1>1, <1>3, SubsetInduction
  <2> QED
    BY <2>1
<1> QED
  BY <1>4 DEF F, G

\* The sum does not depend on the order, in which any element may come last.
LEMMA SumsRemove ==
  ASSUME NEW f, NEW S, IsFiniteSet(S), \A x \in S : f[x] \in Nat
  PROVE  /\ Sums(f, S)[{}] = 0
         /\ \A U \in SUBSET S :
              /\ Sums(f, S)[U] \in Nat
              /\ \A y \in U : Sums(f, S)[U] = f[y] + Sums(f, S)[U \ {y}]
<1> DEFINE F == Sums(f, S)
           T == {V \in SUBSET S :
                   /\ F[V] \in Nat
                   /\ \A y \in V : F[V \ {y}] \in Nat /\ F[V] = f[y] + F[V \ {y}]}
<1>1. \A V \in SUBSET S : F[V] = IF V = {} THEN 0 ELSE f[Pick(V)] + F[V \ {Pick(V)}]
  BY SumsDef DEF Body
<1> HIDE DEF F
<1>2. ASSUME NEW V \in SUBSET S, \A x \in V : V \ {x} \in T
      PROVE  V \in T
  <2>1. CASE V = {}
    <3>1. F[V] = 0
      BY <1>1, <2>1
    <3> QED
      BY <2>1, <3>1
  <2>2. CASE V # {}
    <3> DEFINE p == Pick(V)
    <3>1. p \in V
      BY <2>2 DEF Pick
    <3>2. F[V] = f[p] + F[V \ {p}] /\ f[p] \in Nat /\ F[V \ {p}] \in Nat
      BY <1>1, <1>2, <2>2, <3>1
    <3> HIDE DEF p
    <3>3. ASSUME NEW y \in V, y # p
          PROVE  F[V] = f[y] + F[V \ {y}]
      <4> DEFINE W == (V \ {p}) \ {y}
      <4>1. W = (V \ {y}) \ {p}
        OBVIOUS
      <4>2. V \ {p} \in T /\ y \in V \ {p} /\ V \ {y} \in T /\ p \in V \ {y}
        BY <1>2, <3>1, <3>3
      <4>3. F[V \ {p}] = f[y] + F[W] /\ F[W] \in Nat
        BY <4>2
      <4>4. F[V \ {y}] = f[p] + F[(V \ {y}) \ {p}] /\ F[V \ {y}] \in Nat
        BY <4>2
      <4>5. f[y] \in Nat
        OBVIOUS
      <4> HIDE DEF W
      <4> QED
        BY <3>2, <4>1, <4>3, <4>4, <4>5
    <3>4. \A y \in V : F[V \ {y}] \in Nat
      BY <1>2
    <3>5. \A y \in V : F[V] = f[y] + F[V \ {y}]
      BY <3>2, <3>3
    <3>6. F[V] \in Nat
      BY <3>2
    <3> QED
      BY <3>4, <3>5, <3>6
  <2> QED
    BY <2>1, <2>2
<1>3. SUBSET S \subseteq T
  <2> HIDE DEF T
  <2> QED
    BY <1>2, SubsetInduction
<1> QED
  BY <1>1, <1>3 DEF F

\* The sum over no element; and what an element that joins the set adds to it.
LEMMA TotalGrows ==
  ASSUME NEW f, NEW g, NEW S, IsFiniteSet(S), \A x \in S : f[x] \in Nat /\ g[x] = f[x]
  PROVE  /\ Total(f, {}) = 0 /\ Total(f, S) \in Nat /\ Total(g, S) = Total(f, S)
         /\ \A x : x \notin S /\ g[x] \in Nat => Total(g, S \cup {x}) = Total(f, S) + g[x]
<1>1. Total(f, {}) = 0
  BY FS_EmptySet, SumsRemove DEF Total
<1>2. Total(f, S) \in Nat
  BY SumsRemove DEF Total
<1>3. Total(g, S) = Total(f, S)
  BY SumsAgree DEF Total
<1>4. ASSUME NEW x, x \notin S, g[x] \in Nat
      PROVE  Total(g, S \cup {x}) = Total(f, S) + g[x]
  <2> DEFINE R == S \cup {x}
  <2>1. IsFiniteSet(R) /\ (\A y \in R : g[y] \in Nat) /\ x \in R /\ R \ {x} = S
    BY <1>4, FS_AddElement
  <2> HIDE DEF R
  <2>2. Sums(g, R)[R] = g[x] + Sums(g, R)[S]
    BY <2>1, SumsRemove
  <2>3. Sums(g, R)[S] = Sums(f, S)[S]
    BY <2>1, SumsAgree DEF R
  <2> QED
    BY <1>2, <1>4, <2>2, <2>3 DEF Total, R
<1> QED
  BY <1>1, <1>2, <1>3, <1>4

-----------------------------------------------------------------------------
(* The invariants                                                          *)

\* Types; a bound on usage needs UsageExact, and there are fewer restarts than Runs.
ForkTypes ==
  /\ pc \in [Calls -> Points] /\ path \in [Calls -> Paths]
  /\ id \in [Calls -> Ids \cup {0}] /\ seq \in Ids \cup {0}
  /\ spent \in [Calls -> 0 .. MaxReplies]
  /\ failed \subseteq Calls /\ answered \subseteq Calls

UsageTypes ==
  usage \in Nat /\ mu \in Calls \cup {None} /\ seen \in [Calls -> Nat]

ToolTypes ==
  /\ inside \subseteq Calls /\ pathLock \in [Paths -> Calls \cup {None}]
  /\ content \subseteq Calls /\ confirmed \subseteq Calls /\ copy \in [Calls -> SUBSET Calls]

SessionTypes ==
  /\ archive \in [Ids -> Forks \cup {NoFork}] /\ history \subseteq Refs /\ saved \subseteq Refs

HostTypes ==
  /\ slots \in 1 .. MaxSlots /\ run \in 1 .. MaxRuns /\ process \in 0 .. run - 1
  /\ mainpc \in {"batch", "ending", "closed"}
  /\ buffered \in 0 .. Capacity /\ cancelled \in BOOLEAN

TypeInv == ForkTypes /\ UsageTypes /\ ToolTypes /\ SessionTypes /\ HostTypes

\* The semaphore: its slots are held by the forks whose tool is at work.
AtWork == {"locking", "reading", "writing", "working"}

SlotInv == inside = {c \in Calls : pc[c] \in AtWork} /\ Cardinality(inside) <= slots

\* An edit that has begun holds the lock of its path, so what it has read is still there.
SamePath == \A c, d \in Calls : path[c] = path[d]

EditInv ==
  /\ \A c \in Calls : pc[c] \in {"reading", "writing"} => pathLock[path[c]] = c
  /\ SamePath => confirmed \subseteq content
  /\ SamePath => \A c \in Calls : pc[c] = "writing" => copy[c] = content

\* Whoever is about to write the usage holds the mutex, so what it has read is still true.
UsageInv ==
  /\ usage = Total(spent, answered)
  /\ \A c \in Calls : pc[c] = "storing" => mu = c /\ seen[c] = usage
  /\ \A c \in answered : pc[c] = "done"

\* An id that the counter of this process has given out stands for one fork, in the answers
\* as well as in the archives.
IdInv ==
  /\ \A c \in Calls :
       /\ id[c] <= seq /\ (pc[c] = "called" => id[c] = 0)
       /\ pc[c] \notin {"called", "done"} => id[c] # 0
  /\ \A c, d \in Calls : id[c] = id[d] /\ id[c] # 0 => c = d

SessionInv ==
  /\ \A r \in history \cup saved : r.fork.process <= process
  /\ \A r \in history : r.fork.process = process =>
       r.id <= seq /\ \A c \in Calls : id[c] = r.id => r.fork = Fork(c)
  /\ \A i \in Ids :
       /\ archive[i].process <= process
       /\ archive[i] # NoFork /\ archive[i].process = process =>
            i <= seq /\ \A c \in Calls : id[c] = i => archive[i] = Fork(c)
  /\ ArchiveOfProcess

-----------------------------------------------------------------------------
(* Types                                                                   *)

\* A step is one of a call's goroutine or one of the Run and its host.
CallStep(c) == Engine(c) \/ ToolReturns(c)
HostStep    == SaveMain \/ EndRun \/ Deliver \/ Cancel \/ NextRun \/ Restart

\* Next is made of these.
LEMMA StepOf ==
  ASSUME [Next]_vars
  PROVE  (\E c \in Calls : CallStep(c)) \/ HostStep \/ UNCHANGED vars
BY DEF Next, CallStep, Engine, HostStep

\* A call's goroutine moves from one point to another, which is never the end of the batch.
LEMMA CallMoves ==
  ASSUME NEW c \in Calls, CallStep(c)
  PROVE  /\ pc[c] # "done" /\ \E to \in Points : pc' = [pc EXCEPT ![c] = to]
         /\ UNCHANGED <<path, slots, run, process, mainpc, cancelled, saved>>
<1> USE DEF Step, Points, hostVars, sessionVars
<1>1. CASE Refuse(c) \/ Open(c) \/ AnnounceStart(c) \/ Stop(c) \/ Fail(c) \/ Acquire(c)
           \/ LeaveQueue(c) \/ ToolReturns(c) \/ Lock(c) \/ EditRead(c)
  BY <1>1 DEF Refuse, Open, AnnounceStart, Stop, Fail, Acquire, LeaveQueue,
     ToolReturns, Lock, EditRead
<1>2. CASE Reply(c)
  BY <1>2 DEF Reply
<1>3. CASE EditWrite(c) \/ EditWriteFails(c) \/ EditFails(c) \/ SaveFork(c) \/ AnnounceEnd(c)
           \/ ReportError(c) \/ LockUsage(c) \/ AddUsage(c)
  BY <1>3 DEF EditWrite, EditWriteFails, EditFails, SaveFork, AnnounceEnd, ReportError,
     LockUsage, AddUsage
<1> QED
  BY <1>1, <1>2, <1>3 DEF CallStep, Engine

\* What a step of a call leaves alone, unless it is the step that is meant to change it.
LEMMA CallLeaves ==
  ASSUME NEW c \in Calls, CallStep(c)
  PROVE  /\ ~Open(c) => UNCHANGED <<id, seq>>
         /\ ~Reply(c) => UNCHANGED spent
         /\ ~Fail(c) => UNCHANGED failed
         /\ ~AddUsage(c) => UNCHANGED <<answered, usage>>
         /\ ~LockUsage(c) /\ ~AddUsage(c) => UNCHANGED <<mu, seen>>
         /\ ~Lock(c) /\ ~EditWrite(c) /\ ~EditWriteFails(c) /\ ~EditFails(c) => UNCHANGED pathLock
         /\ ~EditWrite(c) /\ ~EditWriteFails(c) => UNCHANGED <<content, confirmed>>
         /\ ~EditRead(c) /\ ~EditWrite(c) /\ ~EditWriteFails(c) => UNCHANGED copy
         /\ ~Acquire(c) /\ ~ToolReturns(c) /\ ~EditWrite(c) /\ ~EditWriteFails(c) /\ ~EditFails(c)
              => UNCHANGED inside
         /\ ~SaveFork(c) => UNCHANGED archive
         /\ ~ReportError(c) /\ ~AddUsage(c) => UNCHANGED history
<1> USE DEF sessionVars, usageVars, toolVars, Leave
<1>1. CASE Refuse(c) \/ Open(c) \/ AnnounceStart(c)
  BY <1>1 DEF Refuse, Open, AnnounceStart
<1>2. CASE Reply(c) \/ Stop(c) \/ Fail(c)
  BY <1>2 DEF Reply, Stop, Fail
<1>3. CASE Acquire(c) \/ LeaveQueue(c) \/ ToolReturns(c)
  BY <1>3 DEF Acquire, LeaveQueue, ToolReturns
<1>4. CASE Lock(c) \/ EditRead(c) \/ EditWrite(c) \/ EditWriteFails(c) \/ EditFails(c)
  BY <1>4 DEF Lock, EditRead, EditWrite, EditWriteFails, EditFails
<1>5. CASE SaveFork(c) \/ AnnounceEnd(c) \/ ReportError(c)
  BY <1>5 DEF SaveFork, AnnounceEnd, ReportError
<1>6. CASE LockUsage(c) \/ AddUsage(c)
  BY <1>6 DEF LockUsage, AddUsage
<1> QED
  BY <1>1, <1>2, <1>3, <1>4, <1>5, <1>6 DEF CallStep, Engine

\* The steps of the Run and its host: all but a new Run leave the calls alone.
LEMMA HostLeaves ==
  ASSUME HostStep, ~NextRun, ~Restart
  PROVE  UNCHANGED <<forkVars, usageVars, toolVars, archive, history, run, process, slots>>
BY DEF HostStep, SaveMain, EndRun, Deliver, Cancel, forkVars, usageVars, toolVars, sessionVars,
   hostVars

\* Every step keeps the types of the forks.
LEMMA ForkTyped ==
  ASSUME ForkTypes, [Next]_vars
  PROVE  ForkTypes'
<1> USE DEF ForkTypes
<1>1. ASSUME NEW c \in Calls, CallStep(c)
      PROVE  ForkTypes'
  <2>1. pc' \in [Calls -> Points] /\ path' \in [Calls -> Paths]
    BY <1>1, CallMoves
  <2>2. id' \in [Calls -> Ids \cup {0}] /\ seq' \in Ids \cup {0}
    <3>1. CASE Open(c)
      <4>1. seq + 1 \in Ids /\ seq' = seq + 1 /\ id' = [id EXCEPT ![c] = seq + 1]
        BY <3>1, ForksAssumption DEF Open, Ids
      <4> QED
        BY <4>1
    <3>2. CASE ~Open(c)
      BY <1>1, <3>2, CallLeaves
    <3> QED
      BY <3>1, <3>2
  <2>3. spent' \in [Calls -> 0 .. MaxReplies]
    <3>1. CASE Reply(c)
      <4>1. spent[c] + 1 \in 0 .. MaxReplies /\ spent' = [spent EXCEPT ![c] = spent[c] + 1]
        BY <3>1, ForksAssumption DEF Reply
      <4> QED
        BY <4>1
    <3>2. CASE ~Reply(c)
      BY <1>1, <3>2, CallLeaves
    <3> QED
      BY <3>1, <3>2
  <2>4. failed' \subseteq Calls
    <3>1. CASE Fail(c)
      BY <3>1 DEF Fail
    <3>2. CASE ~Fail(c)
      BY <1>1, <3>2, CallLeaves
    <3> QED
      BY <3>1, <3>2
  <2>5. answered' \subseteq Calls
    <3>1. CASE AddUsage(c)
      BY <3>1 DEF AddUsage
    <3>2. CASE ~AddUsage(c)
      BY <1>1, <3>2, CallLeaves
    <3> QED
      BY <3>1, <3>2
  <2> QED
    BY <2>1, <2>2, <2>3, <2>4, <2>5
<1>2. ASSUME FreshRun, seq' \in {seq, 0}
      PROVE  ForkTypes'
  BY <1>2, ForksAssumption DEF FreshRun, Points
<1>3. CASE NextRun \/ Restart
  BY <1>2, <1>3 DEF NextRun, Restart
<1>4. CASE HostStep /\ ~NextRun /\ ~Restart
  BY <1>4, HostLeaves DEF forkVars
<1>5. CASE UNCHANGED vars
  BY <1>5 DEF vars, forkVars
<1> QED
  BY <1>1, <1>3, <1>4, <1>5, StepOf

\* Every step keeps the types of what the forks add their usage to.
LEMMA UsageTyped ==
  ASSUME ForkTypes, UsageTypes, [Next]_vars
  PROVE  UsageTypes'
<1> USE DEF UsageTypes
<1>1. ASSUME NEW c \in Calls, CallStep(c)
      PROVE  UsageTypes'
  <2>1. CASE LockUsage(c)
    BY <2>1 DEF LockUsage
  <2>2. CASE AddUsage(c)
    <3>1. seen[c] \in Nat /\ spent[c] \in Nat
      BY ForksAssumption DEF ForkTypes
    <3> QED
      BY <2>2, <3>1 DEF AddUsage
  <2>3. CASE ~LockUsage(c) /\ ~AddUsage(c)
    BY <1>1, <2>3, CallLeaves
  <2> QED
    BY <2>1, <2>2, <2>3
<1>2. CASE NextRun \/ Restart
  <2>1. usage' = 0 /\ mu' = None /\ seen' = [c \in Calls |-> 0]
    BY <1>2 DEF NextRun, Restart, FreshRun
  <2> QED
    BY <2>1
<1>3. CASE HostStep /\ ~NextRun /\ ~Restart
  BY <1>3, HostLeaves DEF usageVars
<1>4. CASE UNCHANGED vars
  BY <1>4 DEF vars, usageVars
<1> QED
  BY <1>1, <1>2, <1>3, <1>4, StepOf

\* Every step keeps the types of the semaphore, the locks and the file.
LEMMA ToolTyped ==
  ASSUME ForkTypes, ToolTypes, [Next]_vars
  PROVE  ToolTypes'
<1> USE DEF ToolTypes
<1>1. ASSUME NEW c \in Calls, CallStep(c)
      PROVE  ToolTypes'
  <2>1. path[c] \in Paths
    BY DEF ForkTypes
  <2>2. inside' \subseteq Calls
    <3>1. CASE Acquire(c) \/ ToolReturns(c) \/ EditWrite(c) \/ EditWriteFails(c) \/ EditFails(c)
      BY <3>1 DEF Acquire, ToolReturns, EditWrite, EditWriteFails, EditFails, Leave
    <3> QED
      BY <1>1, <3>1, CallLeaves
  <2>3. pathLock' \in [Paths -> Calls \cup {None}]
    <3>1. CASE Lock(c) \/ EditWrite(c) \/ EditWriteFails(c) \/ EditFails(c)
      BY <2>1, <3>1 DEF Lock, EditWrite, EditWriteFails, EditFails, Leave
    <3> QED
      BY <1>1, <3>1, CallLeaves
  <2>4. content' \subseteq Calls /\ confirmed' \subseteq Calls
    <3>1. CASE EditWrite(c) \/ EditWriteFails(c)
      BY <3>1 DEF EditWrite, EditWriteFails
    <3> QED
      BY <1>1, <3>1, CallLeaves
  <2>5. copy' \in [Calls -> SUBSET Calls]
    <3>1. CASE EditRead(c) \/ EditWrite(c) \/ EditWriteFails(c)
      BY <3>1 DEF EditRead, EditWrite, EditWriteFails
    <3> QED
      BY <1>1, <3>1, CallLeaves
  <2> QED
    BY <2>2, <2>3, <2>4, <2>5
<1>2. CASE NextRun \/ Restart
  <2>1. /\ inside' = {} /\ pathLock' = [p \in Paths |-> None] /\ content' = {}
        /\ confirmed' = {} /\ copy' = [c \in Calls |-> {}]
    BY <1>2 DEF NextRun, Restart, FreshRun
  <2> QED
    BY <2>1
<1>3. CASE HostStep /\ ~NextRun /\ ~Restart
  BY <1>3, HostLeaves DEF toolVars
<1>4. CASE UNCHANGED vars
  BY <1>4 DEF vars, toolVars
<1> QED
  BY <1>1, <1>2, <1>3, <1>4, StepOf

\* Every step keeps the numbers of the Run and of the process, and the channel in its bounds.
LEMMA HostTyped ==
  ASSUME HostTypes, [Next]_vars
  PROVE  HostTypes'
<1> USE ForksAssumption DEF HostTypes
<1>1. ASSUME NEW c \in Calls, CallStep(c)
      PROVE  HostTypes'
  <2>1. buffered' \in 0 .. Capacity
    <3>1. buffered' = buffered \/ Send
      BY <1>1 DEF CallStep, Engine, Refuse, Open, AnnounceStart, Reply, Stop, Fail, Acquire,
         LeaveQueue, ToolReturns, Lock, EditRead, EditWrite, EditWriteFails, EditFails,
         SaveFork, AnnounceEnd, ReportError, LockUsage, AddUsage
    <3> QED
      BY <3>1 DEF Send
  <2> QED
    BY <1>1, <2>1, CallMoves
<1>2. CASE NextRun
  <2>1. /\ run' = run + 1 /\ run < MaxRuns /\ mainpc' = "batch" /\ buffered' = 0
        /\ cancelled' = FALSE /\ UNCHANGED <<slots, process>>
    BY <1>2 DEF NextRun, FreshRun
  <2>2. run' \in 1 .. MaxRuns /\ process' \in 0 .. run' - 1
    BY <2>1
  <2>3. buffered' \in 0 .. Capacity
    BY <2>1
  <2> QED
    BY <2>1, <2>2, <2>3
<1>3. CASE Restart
  <2>1. /\ run' = run + 1 /\ run < MaxRuns /\ mainpc' = "batch" /\ buffered' = 0
        /\ cancelled' = FALSE /\ slots' = slots /\ process' = process + 1
    BY <1>3 DEF Restart, FreshRun
  <2>2. run' \in 1 .. MaxRuns /\ process' \in 0 .. run' - 1
    BY <2>1
  <2>3. buffered' \in 0 .. Capacity
    BY <2>1
  <2> QED
    BY <2>1, <2>2, <2>3
<1>4. CASE SaveMain \/ EndRun \/ Deliver \/ Cancel
  <2>1. /\ buffered' \in {buffered, buffered - 1} /\ (buffered' = buffered - 1 => buffered > 0)
        \/ Send
    BY <1>4 DEF SaveMain, EndRun, Deliver, Cancel
  <2>2. buffered' \in 0 .. Capacity
    BY <2>1 DEF Send
  <2>3. /\ mainpc' \in {"batch", "ending", "closed"} /\ cancelled' \in BOOLEAN
        /\ UNCHANGED <<slots, run, process>>
    BY <1>4 DEF SaveMain, EndRun, Deliver, Cancel, hostVars
  <2> QED
    BY <2>2, <2>3
<1>5. CASE UNCHANGED vars
  BY <1>5 DEF vars, hostVars
<1> QED
  BY <1>1, <1>2, <1>3, <1>4, <1>5, StepOf DEF HostStep

-----------------------------------------------------------------------------
(* Ids and archives                                                        *)

\* newForkID gives no number out twice.
LEMMA IdStep ==
  ASSUME ForkTypes, IdInv, [Next]_vars
  PROVE  IdInv'
<1> USE DEF IdInv
<1>1. ASSUME NEW c \in Calls, CallStep(c)
      PROVE  IdInv'
  <2>1. PICK to \in Points : pc[c] # "done" /\ pc' = [pc EXCEPT ![c] = to]
    BY <1>1, CallMoves
  <2>2. pc \in [Calls -> Points] /\ id \in [Calls -> Nat] /\ seq \in Nat
    BY ForksAssumption DEF ForkTypes, Ids
  <2>3. CASE Open(c)
    <3>1. /\ seq' = seq + 1 /\ id' = [id EXCEPT ![c] = seq + 1]
          /\ pc' = [pc EXCEPT ![c] = "opening"]
      BY <2>3 DEF Open, Step
    <3> QED
      BY <2>2, <3>1
  <2>4. CASE ~Open(c)
    <3>1. UNCHANGED <<id, seq>>
      BY <1>1, <2>4, CallLeaves
    <3>2. to # "called" /\ (pc[c] = "called" => to = "done")
      BY <1>1, <2>1, <2>2, <2>4 DEF CallStep, Engine, Refuse, AnnounceStart, Reply, Stop,
         Fail, Acquire, LeaveQueue, ToolReturns, Lock, EditRead, EditWrite, EditWriteFails,
         EditFails, SaveFork, AnnounceEnd, ReportError, LockUsage, AddUsage, Step
    <3> QED
      BY <2>1, <2>2, <3>1, <3>2
  <2> QED
    BY <2>3, <2>4
<1>2. CASE NextRun \/ Restart
  <2>1. /\ pc' = [c \in Calls |-> "called"] /\ id' = [c \in Calls |-> 0] /\ seq' \in {seq, 0}
        /\ seq \in Nat
    BY <1>2, ForksAssumption DEF NextRun, Restart, FreshRun, ForkTypes, Ids
  <2> QED
    BY <2>1
<1>3. CASE HostStep /\ ~NextRun /\ ~Restart
  BY <1>3, HostLeaves DEF forkVars
<1>4. CASE UNCHANGED vars
  BY <1>4 DEF vars, forkVars
<1> QED
  BY <1>1, <1>2, <1>3, <1>4, StepOf

\* A fork, and the reference an answer makes to its archive.
LEMMA RefType ==
  ASSUME ForkTypes, HostTypes, IdInv, NEW c \in Calls, pc[c] \notin {"called", "done"}
  PROVE  /\ Fork(c) \in Forks /\ Fork(c).process = process /\ Fork(c) # NoFork
         /\ id[c] \in Ids /\ [id |-> id[c], fork |-> Fork(c)] \in Refs
<1>1. process \in 0 .. MaxRuns /\ run \in 1 .. MaxRuns
  BY ForksAssumption DEF HostTypes
<1>2. Fork(c) \in Forks /\ Fork(c).process = process
  BY <1>1 DEF Fork, Forks
<1>3. Fork(c).call = c /\ NoFork.call = None
  BY DEF Fork, NoFork
<1>4. id[c] \in Ids
  BY DEF ForkTypes, IdInv
<1> QED
  BY <1>2, <1>3, <1>4, ForksAssumption DEF Refs

\* What a step of a call does to the archives and to the references.
LEMMA SessionChange ==
  ASSUME ForkTypes, HostTypes, IdInv, NEW c \in Calls, CallStep(c)
  PROVE  /\ UNCHANGED <<process, run, saved>>
         /\ \/ UNCHANGED <<archive, history>>
            \/ pc[c] \notin {"called", "done"} /\ UNCHANGED <<id, seq>>
               /\ \/ archive' = [archive EXCEPT ![id[c]] = Fork(c)] /\ UNCHANGED history
                  \/ /\ history' = history \cup {[id |-> id[c], fork |-> Fork(c)]}
                     /\ UNCHANGED archive
<1>1. UNCHANGED <<process, run, saved>>
  BY CallMoves
<1>2. CASE SaveFork(c)
  BY <1>1, <1>2 DEF SaveFork, Step
<1>3. CASE ReportError(c) \/ AddUsage(c)
  BY <1>1, <1>3 DEF ReportError, AddUsage, Step, Cite
<1>4. CASE ~SaveFork(c) /\ ~ReportError(c) /\ ~AddUsage(c)
  BY <1>1, <1>4, CallLeaves
<1> QED
  BY <1>2, <1>3, <1>4

\* Every step keeps the types of the archives and of the references to them.
LEMMA SessionTyped ==
  ASSUME ForkTypes, HostTypes, IdInv, SessionTypes, [Next]_vars
  PROVE  SessionTypes'
<1> USE DEF SessionTypes
<1>1. ASSUME NEW c \in Calls, CallStep(c)
      PROVE  SessionTypes'
  <2>1. CASE UNCHANGED <<archive, history>>
    BY <1>1, <2>1, SessionChange
  <2>2. CASE /\ pc[c] \notin {"called", "done"} /\ UNCHANGED history
             /\ archive' = [archive EXCEPT ![id[c]] = Fork(c)]
    <3>1. Fork(c) \in Forks
      BY <2>2, RefType
    <3> QED
      BY <1>1, <2>2, <3>1, SessionChange
  <2>3. CASE /\ pc[c] \notin {"called", "done"} /\ UNCHANGED archive
             /\ history' = history \cup {[id |-> id[c], fork |-> Fork(c)]}
    <3>1. [id |-> id[c], fork |-> Fork(c)] \in Refs
      BY <2>3, RefType
    <3> QED
      BY <1>1, <2>3, <3>1, SessionChange
  <2> QED
    BY <1>1, <2>1, <2>2, <2>3, SessionChange
<1>2. CASE HostStep
  BY <1>2 DEF HostStep, SaveMain, EndRun, Deliver, Cancel, NextRun, Restart, Load, sessionVars
<1>3. CASE UNCHANGED vars
  BY <1>3 DEF vars, sessionVars
<1> QED
  BY <1>1, <1>2, <1>3, StepOf

\* The fields of a reference and of an archive, as numbers to compare.
LEMMA SessionFields ==
  ASSUME SessionTypes
  PROVE  /\ \A r \in history \cup saved : r.id \in Ids /\ r.id \in Nat /\ r.fork.process \in Nat
         /\ \A i \in Ids : i \in Nat /\ archive[i].process \in Nat
<1>1. \A r \in Refs : r.id \in Ids /\ r.fork.process \in 0 .. MaxRuns
  BY DEF Refs, Forks
<1>2. \A f \in Forks \cup {NoFork} : f.process \in 0 .. MaxRuns
  BY ForksAssumption DEF Forks, NoFork
<1> QED
  BY <1>1, <1>2, ForksAssumption DEF SessionTypes, Ids

\* An answer and the archive it names stay together within a process.
LEMMA SessionStep ==
  ASSUME ForkTypes, HostTypes, IdInv, SessionTypes, SessionInv, [Next]_vars
  PROVE  SessionInv'
<1>1. process \in Nat /\ seq \in Nat /\ id \in [Calls -> Nat]
  BY ForksAssumption DEF ForkTypes, HostTypes, Ids
<1>2. /\ \A r \in history \cup saved : r.id \in Ids /\ r.id \in Nat /\ r.fork.process \in Nat
      /\ \A i \in Ids : i \in Nat /\ archive[i].process \in Nat
  BY SessionFields
<1> USE DEF SessionInv, ArchiveOfProcess
<1>3. ASSUME NEW c \in Calls, CallStep(c)
      PROVE  SessionInv'
  <2> DEFINE ref == [id |-> id[c], fork |-> Fork(c)]
  <2>1. UNCHANGED <<process, run, saved>> /\ \A d \in Calls : Fork(d)' = Fork(d)
    BY <1>3, SessionChange DEF Fork
  <2>2. CASE Open(c)
    <3>1. /\ seq' = seq + 1 /\ id' = [id EXCEPT ![c] = seq + 1] /\ UNCHANGED <<archive, history>>
      BY <2>2 DEF Open, sessionVars
    <3>2. \A d \in Calls : id'[d] = id[d] \/ (d = c /\ id'[d] = seq + 1)
      BY <1>1, <3>1
    <3>3. \A n \in Nat : n <= seq => n <= seq' /\ \A d \in Calls : id'[d] = n => id[d] = n
      BY <1>1, <3>1, <3>2
    <3> QED
      BY <1>2, <2>1, <3>1, <3>3
  <2>3. CASE UNCHANGED <<archive, history, id, seq>>
    BY <2>1, <2>3
  <2>4. CASE /\ pc[c] \notin {"called", "done"} /\ UNCHANGED <<history, id, seq>>
             /\ archive' = [archive EXCEPT ![id[c]] = Fork(c)]
    <3>1. Fork(c).process = process /\ id[c] \in Ids /\ id[c] <= seq /\ id[c] # 0
      BY <2>4, RefType DEF IdInv
    <3>2. \A i \in Ids : archive'[i] = IF i = id[c] THEN Fork(c) ELSE archive[i]
      BY <2>4 DEF SessionTypes
    <3>3. \A d \in Calls : id[d] = id[c] => d = c
      BY <3>1 DEF IdInv
    <3>4. \A i \in Ids :
            /\ archive'[i].process <= process
            /\ archive'[i] # NoFork /\ archive'[i].process = process =>
                 i <= seq /\ \A d \in Calls : id[d] = i => archive'[i] = Fork(d)
      BY <1>1, <3>1, <3>2, <3>3
    <3>5. \A r \in history : r.fork.process = process =>
            archive'[r.id] \in {r.fork, NoFork} \/ archive'[r.id].process # process
      BY <1>2, <3>2
    <3> QED
      BY <2>1, <2>4, <3>4, <3>5
  <2>5. CASE /\ pc[c] \notin {"called", "done"} /\ UNCHANGED <<archive, id, seq>>
             /\ history' = history \cup {ref}
    <3>1. Fork(c).process = process /\ id[c] \in Ids /\ id[c] <= seq /\ id[c] # 0
      BY <2>5, RefType DEF IdInv
    <3>2. ref.id = id[c] /\ ref.fork = Fork(c)
      OBVIOUS
    <3>3. \A d \in Calls : id[d] = id[c] => d = c
      BY <3>1 DEF IdInv
    <3>4. archive[id[c]] \in {Fork(c), NoFork} \/ archive[id[c]].process # process
      BY <3>1
    <3> HIDE DEF ref
    <3> QED
      BY <1>1, <2>1, <2>5, <3>1, <3>2, <3>3, <3>4
  <2> QED
    BY <1>3, <2>2, <2>3, <2>4, <2>5, SessionChange, CallLeaves
<1>4. CASE NextRun
  <2>1. id' = [c \in Calls |-> 0] /\ UNCHANGED <<process, seq, archive, history, saved>>
    BY <1>4 DEF NextRun, FreshRun, sessionVars
  <2>2. \A c \in Calls : id'[c] = 0
    BY <2>1
  <2>3. 0 \notin Ids
    BY DEF Ids
  <2> QED
    BY <1>2, <2>1, <2>2, <2>3
<1>5. CASE Restart
  <2>1. /\ process' = process + 1 /\ history' = saved /\ UNCHANGED <<archive, saved>>
    BY <1>5 DEF Restart, Load
  <2>2. \A r \in history' \cup saved' : r.fork.process < process' /\ r.fork.process <= process'
    BY <1>1, <1>2, <2>1
  <2>3. \A i \in Ids : archive'[i].process < process' /\ archive'[i].process <= process'
    BY <1>1, <1>2, <2>1
  <2>4. \A r \in history' : r.fork.process # process'
    BY <1>1, <1>2, <2>1, <2>2
  <2>5. \A i \in Ids : archive'[i].process # process'
    BY <1>1, <1>2, <2>1, <2>3
  <2> QED
    BY <2>2, <2>3, <2>4, <2>5
<1>6. CASE SaveMain \/ EndRun \/ Deliver \/ Cancel
  <2>1. /\ UNCHANGED <<archive, history, id, seq, run, process>> /\ saved' \in {saved, history}
    BY <1>6 DEF SaveMain, EndRun, Deliver, Cancel, sessionVars, forkVars, hostVars
  <2>2. \A d \in Calls : Fork(d)' = Fork(d)
    BY <2>1 DEF Fork
  <2> QED
    BY <2>1, <2>2
<1>7. CASE UNCHANGED vars
  <2>1. UNCHANGED <<archive, history, saved, id, seq, run, process>>
    BY <1>7 DEF vars, sessionVars, forkVars, hostVars
  <2>2. \A d \in Calls : Fork(d)' = Fork(d)
    BY <2>1 DEF Fork
  <2> QED
    BY <2>1, <2>2
<1> QED
  BY <1>3, <1>4, <1>5, <1>6, <1>7, StepOf DEF HostStep

-----------------------------------------------------------------------------
(* The shared usage                                                        *)

\* Whatever the order of the steps, the sum is kept: the read and the write are under the mutex.
LEMMA UsageStep ==
  ASSUME ForkTypes, UsageTypes, UsageInv, [Next]_vars
  PROVE  UsageInv'
<1> USE DEF UsageInv
<1>1. /\ IsFiniteSet(answered) /\ answered \subseteq Calls
      /\ \A c \in Calls : spent[c] \in Nat /\ seen[c] \in Nat
  BY ForksAssumption, FS_Subset DEF ForkTypes, UsageTypes
<1>2. ASSUME NEW c \in Calls, CallStep(c)
      PROVE  UsageInv'
  <2>1. PICK to \in Points : pc[c] # "done" /\ pc' = [pc EXCEPT ![c] = to]
    BY <1>2, CallMoves
  <2>2. \A d \in Calls : d # c => pc'[d] = pc[d]
    BY <2>1 DEF ForkTypes
  <2>3. c \notin answered
    BY <2>1
  <2>4. CASE LockUsage(c)
    <3>1. /\ mu = None /\ mu' = c /\ seen' = [seen EXCEPT ![c] = usage]
          /\ UNCHANGED <<spent, answered, usage>>
      BY <2>4 DEF LockUsage
    <3>2. \A d \in Calls : pc[d] # "storing"
      BY <3>1, ForksAssumption
    <3> QED
      BY <2>1, <2>2, <2>3, <3>1, <3>2 DEF UsageTypes
  <2>5. CASE AddUsage(c)
    <3>1. /\ pc[c] = "storing" /\ pc' = [pc EXCEPT ![c] = "done"] /\ usage' = seen[c] + spent[c]
          /\ UNCHANGED spent /\ answered' = answered \cup {c}
      BY <2>5 DEF AddUsage, Step
    <3>2. usage' = Total(spent, answered) + spent[c]
      BY <3>1
    <3>3. Total(spent, answered \cup {c}) = Total(spent, answered) + spent[c]
      BY <1>1, <2>3, TotalGrows
    <3>4. \A d \in Calls : pc'[d] # "storing"
      BY <2>2, <3>1 DEF ForkTypes
    <3>5. \A d \in answered' : pc'[d] = "done"
      BY <1>1, <2>2, <3>1 DEF ForkTypes
    <3> QED
      BY <3>1, <3>2, <3>3, <3>4, <3>5
  <2>6. CASE ~LockUsage(c) /\ ~AddUsage(c)
    <3>1. UNCHANGED <<usage, answered, mu, seen>>
      BY <1>2, <2>6, CallLeaves
    <3>2. \A d \in answered : spent'[d] = spent[d]
      <4>1. CASE Reply(c)
        BY <1>1, <2>3, <4>1 DEF Reply, ForkTypes
      <4>2. CASE ~Reply(c)
        BY <1>2, <4>2, CallLeaves
      <4> QED
        BY <4>1, <4>2
    <3>3. Total(spent', answered) = Total(spent, answered)
      BY <1>1, <3>2, TotalGrows
    <3>4. to # "storing"
      BY <1>2, <2>1, <2>6 DEF CallStep, Engine, Refuse, Open, AnnounceStart, Reply, Stop,
         Fail, Acquire, LeaveQueue, ToolReturns, Lock, EditRead, EditWrite, EditWriteFails,
         EditFails, SaveFork, AnnounceEnd, ReportError, Step, ForkTypes
    <3>5. \A d \in Calls : pc'[d] = "storing" => pc[d] = "storing"
      BY <2>1, <2>2, <3>4 DEF ForkTypes
    <3>6. \A d \in answered : pc'[d] = "done"
      BY <1>1, <2>2, <2>3
    <3> QED
      BY <3>1, <3>3, <3>5, <3>6
  <2> QED
    BY <2>4, <2>5, <2>6
<1>3. CASE NextRun \/ Restart
  <2>1. usage' = 0 /\ answered' = {} /\ pc' = [c \in Calls |-> "called"]
    BY <1>3 DEF NextRun, Restart, FreshRun
  <2>2. Total(spent', {}) = 0
    BY FS_EmptySet, TotalGrows
  <2> QED
    BY <2>1, <2>2
<1>4. CASE HostStep /\ ~NextRun /\ ~Restart
  BY <1>4, HostLeaves DEF forkVars, usageVars
<1>5. CASE UNCHANGED vars
  BY <1>5 DEF vars, forkVars, usageVars
<1> QED
  BY <1>2, <1>3, <1>4, <1>5, StepOf

-----------------------------------------------------------------------------
(* The shared file                                                         *)

\* The lock of a path keeps the edits that name it so apart.
LEMMA EditStep ==
  ASSUME ForkTypes, ToolTypes, EditInv, [Next]_vars
  PROVE  EditInv'
<1> USE DEF EditInv
<1>1. ASSUME NEW c \in Calls, CallStep(c)
      PROVE  EditInv'
  <2>1. PICK to \in Points : pc[c] # "done" /\ pc' = [pc EXCEPT ![c] = to]
    BY <1>1, CallMoves
  <2>2. pc'[c] = to /\ \A d \in Calls : d # c => pc'[d] = pc[d]
    BY <2>1 DEF ForkTypes
  <2>3. UNCHANGED path /\ SamePath' = SamePath /\ \A d \in Calls : path[d] \in Paths
    BY <1>1, CallMoves DEF SamePath, ForkTypes
  <2>4. CASE Lock(c)
    <3>1. /\ pathLock[path[c]] = None /\ pathLock' = [pathLock EXCEPT ![path[c]] = c]
          /\ pc'[c] = "reading" /\ UNCHANGED <<content, copy, confirmed>>
      BY <2>4 DEF Lock, Step, ForkTypes
    <3>2. \A d \in Calls : pc[d] \in {"reading", "writing"} => path[d] # path[c]
      BY <3>1, ForksAssumption
    <3> QED
      BY <2>2, <2>3, <3>1, <3>2 DEF ToolTypes
  <2>5. CASE EditRead(c)
    <3>1. /\ pc[c] = "reading" /\ pc'[c] = "writing" /\ copy' = [copy EXCEPT ![c] = content]
          /\ UNCHANGED <<content, confirmed, pathLock>>
      BY <2>5 DEF EditRead, Step, ForkTypes
    <3> QED
      BY <2>2, <2>3, <3>1 DEF ToolTypes
  <2>6. CASE EditWrite(c)
    <3>1. /\ pc[c] = "writing" /\ pc'[c] = "running" /\ content' = copy[c] \cup {c}
          /\ copy' = [copy EXCEPT ![c] = {}] /\ confirmed' = confirmed \cup {c}
          /\ pathLock' = [pathLock EXCEPT ![path[c]] = None]
      BY <2>6 DEF EditWrite, Leave, Step, ForkTypes
    <3>2. \A d \in Calls : pc'[d] \in {"reading", "writing"} =>
            /\ d # c /\ pc[d] \in {"reading", "writing"} /\ path[d] # path[c]
      BY <2>2, <3>1
    <3>3. \A d \in Calls : pc'[d] \in {"reading", "writing"} => pathLock'[path[d]] = d
      BY <2>3, <3>1, <3>2 DEF ToolTypes
    <3>4. SamePath => confirmed' \subseteq content'
      BY <3>1
    <3>5. SamePath => \A d \in Calls : pc'[d] # "writing"
      BY <3>2 DEF SamePath
    <3> QED
      BY <2>3, <3>3, <3>4, <3>5
  <2>7. CASE EditFails(c)
    <3>1. /\ pc[c] = "reading" /\ pc'[c] = "running" /\ UNCHANGED <<content, copy, confirmed>>
          /\ pathLock' = [pathLock EXCEPT ![path[c]] = None]
      BY <2>7 DEF EditFails, Leave, Step, ForkTypes
    <3>2. \A d \in Calls : pc'[d] \in {"reading", "writing"} =>
            /\ d # c /\ pc[d] \in {"reading", "writing"} /\ path[d] # path[c]
      BY <2>2, <3>1
    <3>3. \A d \in Calls : pc'[d] \in {"reading", "writing"} => pathLock'[path[d]] = d
      BY <2>3, <3>1, <3>2 DEF ToolTypes
    <3> QED
      BY <2>2, <2>3, <3>1, <3>3
  <2>8. CASE EditWriteFails(c)
    <3>1. /\ pc[c] = "writing" /\ pc'[c] = "running" /\ copy' = [copy EXCEPT ![c] = {}]
          /\ pathLock' = [pathLock EXCEPT ![path[c]] = None]
          /\ \/ content' = content /\ confirmed' = confirmed
             \/ content' = {} /\ confirmed' = {}
      BY <2>8 DEF EditWriteFails, Leave, Step, ForkTypes
    <3>2. \A d \in Calls : pc'[d] \in {"reading", "writing"} =>
            /\ d # c /\ pc[d] \in {"reading", "writing"} /\ path[d] # path[c]
      BY <2>2, <3>1
    <3>3. \A d \in Calls : pc'[d] \in {"reading", "writing"} => pathLock'[path[d]] = d
      BY <2>3, <3>1, <3>2 DEF ToolTypes
    <3>4. SamePath => confirmed' \subseteq content'
      BY <3>1
    <3>5. SamePath => \A d \in Calls : pc'[d] # "writing"
      BY <3>2 DEF SamePath
    <3> QED
      BY <2>3, <3>3, <3>4, <3>5
  <2>9. CASE ~Lock(c) /\ ~EditRead(c) /\ ~EditWrite(c) /\ ~EditWriteFails(c) /\ ~EditFails(c)
    <3>1. UNCHANGED <<pathLock, content, confirmed, copy>>
      BY <1>1, <2>9, CallLeaves
    <3>2. to \notin {"reading", "writing"}
      BY <1>1, <2>1, <2>9 DEF CallStep, Engine, Refuse, Open, AnnounceStart, Reply, Stop,
         Fail, Acquire, LeaveQueue, ToolReturns, SaveFork, AnnounceEnd, ReportError,
         LockUsage, AddUsage, Step, ForkTypes
    <3> QED
      BY <2>2, <2>3, <3>1, <3>2
  <2> QED
    BY <2>4, <2>5, <2>6, <2>7, <2>8, <2>9
<1>2. CASE NextRun \/ Restart
  <2>1. confirmed' = {} /\ pc' = [c \in Calls |-> "called"]
    BY <1>2 DEF NextRun, Restart, FreshRun
  <2> QED
    BY <2>1
<1>3. CASE HostStep /\ ~NextRun /\ ~Restart
  BY <1>3, HostLeaves DEF forkVars, toolVars, SamePath
<1>4. CASE UNCHANGED vars
  BY <1>4 DEF vars, forkVars, toolVars, SamePath
<1> QED
  BY <1>1, <1>2, <1>3, <1>4, StepOf

-----------------------------------------------------------------------------
(* The semaphore                                                           *)

\* A tool is at work exactly while its fork holds a slot.
LEMMA SlotStep ==
  ASSUME ForkTypes, HostTypes, SlotInv, [Next]_vars
  PROVE  SlotInv'
<1> USE DEF SlotInv, AtWork
<1>1. IsFiniteSet(inside) /\ slots \in Nat /\ slots >= 1
  <2>1. inside \subseteq Calls
    OBVIOUS
  <2> QED
    BY <2>1, ForksAssumption, FS_Subset DEF HostTypes
<1>2. ASSUME NEW c \in Calls, CallStep(c)
      PROVE  SlotInv'
  <2>1. PICK to \in Points : pc[c] # "done" /\ pc' = [pc EXCEPT ![c] = to]
    BY <1>2, CallMoves
  <2>2. pc'[c] = to /\ slots' = slots /\ \A d \in Calls : d # c => pc'[d] = pc[d]
    BY <1>2, <2>1, CallMoves DEF ForkTypes
  <2>3. CASE Acquire(c)
    <3>1. /\ Cardinality(inside) < slots /\ inside' = inside \cup {c} /\ pc[c] = "queued"
          /\ pc'[c] \in {"locking", "working"}
      BY <2>3 DEF Acquire, Step, ForkTypes
    <3>2. Cardinality(inside') <= slots
      <4>1. Cardinality(inside') = Cardinality(inside) + 1
        BY <1>1, <3>1, FS_AddElement
      <4>2. Cardinality(inside) \in Nat
        BY <1>1, FS_CardinalityType
      <4> QED
        BY <1>1, <3>1, <4>1, <4>2
    <3>3. inside' = {d \in Calls : pc'[d] \in AtWork}
      BY <2>2, <3>1
    <3> QED
      BY <2>2, <3>2, <3>3
  <2>4. CASE ToolReturns(c) \/ EditWrite(c) \/ EditWriteFails(c) \/ EditFails(c)
    <3>1. inside' = inside \ {c} /\ pc'[c] = "running"
      BY <2>4 DEF ToolReturns, EditWrite, EditWriteFails, EditFails, Leave, Step, ForkTypes
    <3>2. Cardinality(inside') <= slots
      <4>1. IsFiniteSet(inside') /\ Cardinality(inside') <= Cardinality(inside)
        BY <1>1, <3>1, FS_Subset
      <4>2. Cardinality(inside) \in Nat /\ Cardinality(inside') \in Nat
        BY <1>1, <4>1, FS_CardinalityType
      <4> QED
        BY <1>1, <4>1, <4>2
    <3>3. inside' = {d \in Calls : pc'[d] \in AtWork}
      BY <2>2, <3>1
    <3> QED
      BY <2>2, <3>2, <3>3
  <2>5. CASE ~Acquire(c) /\ ~ToolReturns(c) /\ ~EditWrite(c) /\ ~EditWriteFails(c) /\ ~EditFails(c)
    <3>1. UNCHANGED inside
      BY <1>2, <2>5, CallLeaves
    <3>2. to \in AtWork <=> pc[c] \in AtWork
      BY <1>2, <2>1, <2>5 DEF CallStep, Engine, Refuse, Open, AnnounceStart, Reply, Stop,
         Fail, LeaveQueue, Lock, EditRead, SaveFork, AnnounceEnd, ReportError,
         LockUsage, AddUsage, Step, ForkTypes
    <3>3. inside' = {d \in Calls : pc'[d] \in AtWork}
      BY <2>2, <3>1, <3>2
    <3> QED
      BY <2>2, <3>1, <3>3
  <2> QED
    BY <2>3, <2>4, <2>5
<1>3. CASE NextRun \/ Restart
  <2>1. inside' = {} /\ pc' = [c \in Calls |-> "called"] /\ slots' = slots
    BY <1>3 DEF NextRun, Restart, FreshRun
  <2>2. Cardinality({}) = 0
    BY FS_EmptySet
  <2>3. {c \in Calls : pc'[c] \in AtWork} = {}
    BY <2>1
  <2> QED
    BY <1>1, <2>1, <2>2, <2>3
<1>4. CASE HostStep /\ ~NextRun /\ ~Restart
  BY <1>4, HostLeaves DEF forkVars, toolVars
<1>5. CASE UNCHANGED vars
  BY <1>5 DEF vars, forkVars, toolVars, hostVars
<1> QED
  BY <1>2, <1>3, <1>4, <1>5, StepOf

-----------------------------------------------------------------------------
(* The theorems                                                            *)

Inv == TypeInv /\ SlotInv /\ EditInv /\ UsageInv /\ IdInv /\ SessionInv

\* A conversation starts with all of it.
LEMMA InitInv == Init => Inv
<1> SUFFICES ASSUME Init PROVE Inv
  OBVIOUS
<1>1. pc = [c \in Calls |-> "called"] /\ id = [c \in Calls |-> 0] /\ seq = 0
  BY DEF Init
<1>2. ForkTypes
  BY ForksAssumption DEF Init, ForkTypes, Points
<1>3. UsageTypes
  BY DEF Init, UsageTypes
<1>4. ToolTypes
  BY DEF Init, ToolTypes
<1>5. SessionTypes
  BY DEF Init, SessionTypes
<1>6. HostTypes
  <2>1. slots \in 1 .. MaxSlots
    BY ForksAssumption DEF Init, Warp
  <2>2. run = 1 /\ process = 0 /\ buffered = 0 /\ mainpc = "batch" /\ cancelled = FALSE
    BY DEF Init
  <2>3. run \in 1 .. MaxRuns /\ process \in 0 .. run - 1 /\ buffered \in 0 .. Capacity
    BY <2>2, ForksAssumption
  <2> QED
    BY <2>1, <2>2, <2>3 DEF HostTypes
<1>7. SlotInv
  <2>1. inside = {} /\ Cardinality({}) = 0 /\ slots >= 0
    BY <1>6, FS_EmptySet DEF Init, HostTypes
  <2> QED
    BY <1>1, <2>1 DEF SlotInv, AtWork
<1>8. EditInv
  BY <1>1 DEF Init, EditInv
<1>9. UsageInv
  <2>1. usage = 0 /\ answered = {} /\ Total(spent, {}) = 0
    BY FS_EmptySet, TotalGrows DEF Init
  <2> QED
    BY <1>1, <2>1 DEF UsageInv
<1>10. IdInv
  BY <1>1 DEF IdInv
<1>11. SessionInv
  <2>1. archive = [i \in Ids |-> NoFork] /\ history = {} /\ saved = {} /\ process = 0
    BY DEF Init
  <2>2. \A i \in Ids : archive[i] = NoFork /\ archive[i].process = 0
    BY <2>1 DEF NoFork
  <2> QED
    BY <2>1, <2>2 DEF SessionInv, ArchiveOfProcess
<1> QED
  BY <1>2, <1>3, <1>4, <1>5, <1>6, <1>7, <1>8, <1>9, <1>10, <1>11 DEF Inv, TypeInv

\* And every step keeps it.
LEMMA InvHolds == Spec => []Inv
<1>1. Inv /\ [Next]_vars => Inv'
  <2> SUFFICES ASSUME Inv, [Next]_vars PROVE Inv'
    OBVIOUS
  <2>1. /\ ForkTypes /\ UsageTypes /\ ToolTypes /\ SessionTypes /\ HostTypes
        /\ SlotInv /\ EditInv /\ UsageInv /\ IdInv /\ SessionInv
    BY DEF Inv, TypeInv
  <2>2. TypeInv'
    <3>1. ForkTypes' /\ ToolTypes' /\ HostTypes'
      BY <2>1, ForkTyped, ToolTyped, HostTyped
    <3>2. UsageTypes'
      BY <2>1, UsageTyped
    <3>3. SessionTypes'
      BY <2>1, SessionTyped
    <3> QED
      BY <3>1, <3>2, <3>3 DEF TypeInv
  <2>3. SlotInv' /\ EditInv'
    BY <2>1, SlotStep, EditStep
  <2>4. UsageInv' /\ IdInv'
    BY <2>1, UsageStep, IdStep
  <2>5. SessionInv'
    BY <2>1, SessionStep
  <2> QED
    BY <2>2, <2>3, <2>4, <2>5 DEF Inv
<1> QED
  BY <1>1, InitInv, PTL DEF Spec

\* UsageExact: in whatever order the forks end, the usage of the main loop is what those that
\* have answered spent, for a batch of any size.
THEOREM UsageIsExact == Spec => []UsageExact
<1>1. Inv => UsageExact
  BY UsageIsTotal DEF Inv, UsageInv
<1> QED
  BY <1>1, InvHolds, PTL

\* NoLostEdit: edits that name the file alike do not undo each other, whatever else interleaves.
THEOREM EditsAreKept == Spec => []NoLostEdit
<1>1. Inv => NoLostEdit
  BY DEF Inv, EditInv, SamePath, NoLostEdit
<1> QED
  BY <1>1, InvHolds, PTL

\* ArchiveOfProcess: within a process no fork overwrites the archive an answer refers to, for
\* any number of forks, Runs and restarts.
THEOREM ArchivesAreKept == Spec => []ArchiveOfProcess
<1>1. Inv => ArchiveOfProcess
  BY DEF Inv, SessionInv
<1> QED
  BY <1>1, InvHolds, PTL

-----------------------------------------------------------------------------
(* The bounds of the usage                                                 *)

\* A sum of terms that are at most m.
LEMMA TotalBound ==
  ASSUME NEW f, NEW S, IsFiniteSet(S), NEW m \in Nat, \A x \in S : f[x] \in 0 .. m
  PROVE  Total(f, S) <= m * Cardinality(S)
<1> DEFINE F == Sums(f, S)
           T == {V \in SUBSET S : F[V] <= m * Cardinality(V)}
<1>1. /\ F[{}] = 0
      /\ \A U \in SUBSET S : F[U] \in Nat /\ \A y \in U : F[U] = f[y] + F[U \ {y}]
  BY SumsRemove
<1> HIDE DEF F
<1>2. ASSUME NEW V \in SUBSET S, \A x \in V : V \ {x} \in T
      PROVE  V \in T
  <2>1. CASE V = {}
    <3>1. Cardinality(V) = 0 /\ m * 0 = 0
      BY <2>1, FS_EmptySet
    <3> QED
      BY <1>1, <2>1, <3>1
  <2>2. ASSUME NEW y \in V
        PROVE  V \in T
    <3> DEFINE n == Cardinality(V \ {y})
    <3>1. IsFiniteSet(V) /\ IsFiniteSet(V \ {y}) /\ V \ {y} \in SUBSET S
      BY FS_Subset
    <3>2. n \in Nat /\ Cardinality(V) \in Nat /\ Cardinality(V) = n + 1
      <4>1. n = Cardinality(V) - 1
        BY <3>1, FS_RemoveElement
      <4> QED
        BY <3>1, <4>1, FS_CardinalityType
    <3>3. F[V] = f[y] + F[V \ {y}] /\ f[y] \in 0 .. m /\ F[V \ {y}] \in Nat /\ F[V \ {y}] <= m * n
      BY <1>1, <1>2, <3>1
    <3>4. m * (n + 1) = m * n + m /\ m * n \in Nat
      BY <3>2
    <3> HIDE DEF n
    <3> QED
      BY <3>2, <3>3, <3>4
  <2> QED
    BY <2>1, <2>2
<1>3. S \in T
  <2> HIDE DEF T
  <2>1. SUBSET S \subseteq T
    BY <1>2, SubsetInduction
  <2> QED
    BY <2>1
<1> QED
  BY <1>3 DEF F, Total

\* The forks together spend no more than each of them may.
LEMMA UsageBound ==
  ASSUME Inv
  PROVE  usage \in 0 .. MaxReplies * Cardinality(Calls)
<1>1. /\ IsFiniteSet(answered) /\ Cardinality(answered) <= Cardinality(Calls)
      /\ Cardinality(answered) \in Nat /\ Cardinality(Calls) \in Nat /\ MaxReplies \in Nat
      /\ \A c \in answered : spent[c] \in 0 .. MaxReplies
  BY ForksAssumption, FS_Subset, FS_CardinalityType DEF Inv, TypeInv, ForkTypes
<1>2. usage <= MaxReplies * Cardinality(answered)
  BY <1>1, TotalBound DEF Inv, UsageInv
<1>3. \A m, a, b \in Nat : a <= b => m * a <= m * b /\ m * a \in Nat /\ m * b \in Nat
  OBVIOUS
<1>4. usage \in Nat
  BY DEF Inv, TypeInv, UsageTypes
<1> QED
  BY <1>1, <1>2, <1>3, <1>4

\* TypeOK: every variable keeps a value of its kind; the forks share the usage, and the slots of
\* the semaphore, within their bounds.
THEOREM ForksTyped == Spec => []TypeOK
<1> DEFINE Seen == seen \in [Calls -> 0 .. MaxReplies * Cardinality(Calls)]
<1>0. 0 \in 0 .. MaxReplies * Cardinality(Calls)
  BY ForksAssumption, FS_CardinalityType
<1>1. Init => Seen
  BY <1>0 DEF Init
<1>2. Inv /\ Seen /\ [Next]_vars => Seen'
  <2> SUFFICES ASSUME Inv, Seen, [Next]_vars PROVE Seen'
    OBVIOUS
  <2> DEFINE B == 0 .. MaxReplies * Cardinality(Calls)
  <2>1. usage \in B /\ 0 \in B
    <3>1. usage \in 0 .. MaxReplies * Cardinality(Calls)
      BY UsageBound
    <3> QED
      BY <1>0, <3>1
  <2> HIDE DEF B
  <2>2. Seen <=> seen \in [Calls -> B]
    BY DEF B
  <2>3. Seen' <=> seen' \in [Calls -> B]
    BY DEF B
  <2> HIDE DEF Seen
  <2>4. ASSUME NEW c \in Calls, CallStep(c)
        PROVE  seen' \in [Calls -> B]
    <3>1. CASE LockUsage(c) \/ AddUsage(c)
      BY <2>1, <2>2, <3>1 DEF LockUsage, AddUsage
    <3> QED
      BY <2>2, <2>4, <3>1, CallLeaves
  <2>5. CASE NextRun \/ Restart
    <3>1. seen' = [c \in Calls |-> 0]
      BY <2>5 DEF NextRun, Restart, FreshRun
    <3> QED
      BY <2>1, <2>3, <3>1
  <2>6. CASE (HostStep /\ ~NextRun /\ ~Restart) \/ UNCHANGED vars
    <3>1. seen' = seen
      BY <2>6, HostLeaves DEF usageVars, vars
    <3>2. seen \in [Calls -> B]
      BY <2>2
    <3> QED
      BY <2>3, <3>1, <3>2
  <2> QED
    BY <2>3, <2>4, <2>5, <2>6, StepOf
<1>3. Inv /\ Seen => TypeOK
  <2> SUFFICES ASSUME Inv, Seen PROVE TypeOK
    OBVIOUS
  <2>1. process \in 0 .. MaxRuns
    BY ForksAssumption DEF Inv, TypeInv, HostTypes
  <2>2. inside = {c \in Calls : pc[c] \in {"locking", "reading", "writing", "working"}}
        /\ Cardinality(inside) <= slots
    BY DEF Inv, SlotInv, AtWork
  <2>3. usage \in 0 .. MaxReplies * Cardinality(Calls)
    BY UsageBound
  <2> QED
    BY <2>1, <2>2, <2>3 DEF Inv, TypeInv, ForkTypes, UsageTypes, ToolTypes, SessionTypes,
       HostTypes, TypeOK
<1> HIDE DEF Seen
<1> QED
  BY <1>1, <1>2, <1>3, InvHolds, PTL DEF Spec

===============================================================================
