-------------------------- MODULE StreamReplyProofs --------------------------
(***************************************************************************)
(* StreamReply: proofs for every number of calls, fragments and texts and  *)
(* for every choice of protocols.                                          *)
(***************************************************************************)
EXTENDS StreamReply, FiniteSetTheorems, SequenceTheorems, TLAPS

-----------------------------------------------------------------------------
(* The inductive invariant                                                 *)

\* What was received for call c so far, as an entry of acc or of shown.
Held(c) == [name |-> IF c \in named THEN c ELSE NoCall, args |-> Frags(c, sent[c])]

\* The registry of the provider has the calls the server has begun, each once, in the
\* order they were begun, under the key their events carry.
RegistryInv ==
  /\ \A i, j \in 1..Len(begun) : begun[i] = begun[j] => i = j
  /\ Len(order) = Len(begun)
  /\ \A i \in 1..Len(begun) : order[i] = key[begun[i]]
  /\ \A i, j \in 1..Len(begun) : order[i] = order[j] => i = j

\* The keys of the protocols: an index without gaps, a block number that grows, the item.
KeyInv ==
  \A i \in 1..Len(begun) :
    /\ api = "openai" => order[i] = i - 1
    /\ api = "anthropic" => order[i] < Len(begun) + texts
    /\ api = "responses" => order[i] = begun[i]

\* Nothing was sent of a call that was not begun.
UnsentInv ==
  \A c \in Call : c \notin Range(begun) => sent[c] = 0 /\ c \notin named \cup closed \cup done

\* Under the key of a call is what was received for it, and nothing under any other.
AccInv ==
  /\ \A i \in 1..Len(begun) : acc[order[i]] = Held(begun[i])
  /\ \A k \in Key : k \notin Range(order) => acc[k] = Blank

\* So it is with the deltas of openai and anthropic, under their Index.
ShownInv ==
  api \in {"openai", "anthropic"} =>
    /\ \A i \in 1..Len(begun) : shown[i - 1] = Held(begun[i])
    /\ \A i \in Len(begun)..(NCalls - 1) : shown[i] = Blank

\* All of it holds while the provider reads; the end of the stream is the last step.
StreamInv == Open => RegistryInv /\ KeyInv /\ UnsentInv /\ AccInv /\ ShownInv

Inv == TypeOK /\ StreamInv /\ ShownIsReply /\ ReplyFaithful

-----------------------------------------------------------------------------
(* Fragments                                                               *)

\* The first n fragments of a call are a sequence of fragments.
LEMMA FragsType ==
  ASSUME NEW c \in Call, NEW n \in 0..MaxFrags
  PROVE  Frags(c, n) \in Seq(Fragment) /\ Len(Frags(c, n)) = n
<1>1. n \in Nat
  BY BoundsAssumption
<1>2. \A j \in 1..n : <<c, j>> \in Fragment
  BY BoundsAssumption DEF Fragment
<1> QED
  BY <1>1, <1>2 DEF Frags

\* No fragment is the empty sequence.
LEMMA FragsNone ==
  ASSUME NEW c \in Call
  PROVE  Frags(c, 0) = <<>>
<1>1. 0 \in 0..MaxFrags
  BY BoundsAssumption
<1> QED
  BY <1>1, FragsType, EmptySeq

\* The next fragment goes behind those received.
LEMMA FragsNext ==
  ASSUME NEW c \in Call, NEW n \in 0..MaxFrags, n < MaxFrags
  PROVE  Frags(c, n) \o <<<<c, n + 1>>>> = Frags(c, n + 1)
<1>1. n \in Nat /\ n + 1 \in 0..MaxFrags /\ n + 1 \in 1..MaxFrags
  BY BoundsAssumption
<1> DEFINE s == <<<<c, n + 1>>>>
<1>2. s \in Seq(Fragment) /\ Len(s) = 1 /\ s[1] = <<c, n + 1>>
  BY <1>1 DEF Fragment
<1>3. /\ Frags(c, n) \in Seq(Fragment) /\ Len(Frags(c, n)) = n
      /\ Frags(c, n + 1) \in Seq(Fragment) /\ Len(Frags(c, n + 1)) = n + 1
  BY <1>1, FragsType
<1>4. \A j \in 1..n : Frags(c, n)[j] = <<c, j>>
  BY DEF Frags
<1>5. \A j \in 1..n + 1 : Frags(c, n + 1)[j] = <<c, j>>
  BY DEF Frags
<1> HIDE DEF s
<1>6. /\ Frags(c, n) \o s \in Seq(Fragment) /\ Len(Frags(c, n) \o s) = n + 1
      /\ \A j \in 1..n + 1 :
           (Frags(c, n) \o s)[j] = IF j <= n THEN Frags(c, n)[j] ELSE s[j - n]
  <2>1. \A x, y \in Seq(Fragment) :
          /\ x \o y \in Seq(Fragment) /\ Len(x \o y) = Len(x) + Len(y)
          /\ \A j \in 1..Len(x) + Len(y) :
               (x \o y)[j] = IF j <= Len(x) THEN x[j] ELSE y[j - Len(x)]
    BY ConcatProperties
  <2> DEFINE x == Frags(c, n)
  <2>2. x \in Seq(Fragment) /\ s \in Seq(Fragment) /\ Len(x) = n /\ Len(s) = 1
    BY <1>2, <1>3
  <2> HIDE DEF x
  <2>3. /\ x \o s \in Seq(Fragment) /\ Len(x \o s) = n + 1
        /\ \A j \in 1..n + 1 : (x \o s)[j] = IF j <= n THEN x[j] ELSE s[j - n]
    BY <2>1, <2>2
  <2> QED
    BY <2>3 DEF x
<1>7. \A j \in 1..n + 1 : (Frags(c, n) \o s)[j] = <<c, j>>
  <2> SUFFICES ASSUME NEW j \in 1..n + 1
               PROVE  (Frags(c, n) \o s)[j] = <<c, j>>
    OBVIOUS
  <2>1. CASE j <= n
    BY <1>4, <1>6, <2>1
  <2>2. CASE j = n + 1
    <3>1. (Frags(c, n) \o s)[j] = s[j - n] /\ j - n = 1
      BY <1>1, <1>6, <2>2
    <3> QED
      BY <1>2, <2>2, <3>1
  <2>3. j <= n \/ j = n + 1
    BY <1>1
  <2> QED
    BY <2>1, <2>2, <2>3
<1>8. Frags(c, n) \o s = Frags(c, n + 1)
  BY <1>3, <1>5, <1>6, <1>7, SeqEqual
<1> QED
  BY <1>8 DEF s

\* What is held of a call has the type of an entry, and is blank before the call begins.
LEMMA HeldType ==
  ASSUME TypeOK, NEW c \in Call
  PROVE  /\ Held(c) \in [name : Call \cup {NoCall}, args : Seq(Fragment)]
         /\ sent[c] = 0 /\ c \notin named => Held(c) = Blank
<1>1. sent[c] \in 0..MaxFrags
  BY DEF TypeOK
<1> QED
  BY <1>1, FragsType, FragsNone DEF Held, Blank

-----------------------------------------------------------------------------
(* Naming a call                                                           *)

\* There is room for a call that has not begun: the calls that have are all different.
LEMMA Room ==
  ASSUME TypeOK, RegistryInv, NEW c \in Call, c \notin Range(begun)
  PROVE  Len(begun) < NCalls
<1> DEFINE n == Len(begun)
           f == [i \in 1..n + 1 |-> IF i = n + 1 THEN c ELSE begun[i]]
<1>1. n \in Nat /\ \A i \in 1..n : begun[i] \in Call /\ begun[i] # c
  BY DEF TypeOK, Range
<1>2. f \in [1..n + 1 -> Call]
  BY <1>1
<1>3. \A i, j \in 1..n + 1 : f[i] = f[j] => i = j
  BY <1>1 DEF RegistryInv
<1>4. /\ IsFiniteSet(1..n + 1) /\ Cardinality(1..n + 1) = n + 1
      /\ IsFiniteSet(Call) /\ Cardinality(Call) = NCalls
  <2>1. \A m \in Nat \ {0} : IsFiniteSet(1..m) /\ Cardinality(1..m) = m
    <3> SUFFICES ASSUME NEW m \in Nat \ {0}
                 PROVE  IsFiniteSet(1..m) /\ Cardinality(1..m) = m
      OBVIOUS
    <3> QED
      BY FS_Interval
  <2>2. n + 1 \in Nat \ {0} /\ NCalls \in Nat \ {0}
    BY <1>1, BoundsAssumption
  <2> HIDE DEF n
  <2> QED
    BY <2>1, <2>2 DEF Call
<1> HIDE DEF f
<1>5. ~ (NCalls < n + 1)
  BY <1>2, <1>3, <1>4, FS_PigeonHole
<1> QED
  BY <1>1, <1>5, BoundsAssumption

\* The key of a new call is a key, and no other call has it.
LEMMA NewKey ==
  ASSUME TypeOK, RegistryInv, KeyInv, NEW c \in Call, c \notin Range(begun)
  PROVE  NextKey(c) \in Key /\ NextKey(c) \notin Range(order)
<1>1. Len(begun) < NCalls /\ Len(begun) \in Nat /\ Len(order) = Len(begun)
  BY Room DEF TypeOK, RegistryInv
<1>2. \A i \in 1..Len(begun) : order[i] \in Nat
  <2>1. order \in Seq(Key) /\ Key \subseteq Nat
    BY BoundsAssumption DEF TypeOK, Key
  <2>2. \A i \in 1..Len(order) : order[i] \in Key
    BY <2>1, ElementOfSeq
  <2> QED
    BY <1>1, <2>1, <2>2
<1>3. \A i \in 1..Len(begun) : order[i] # NextKey(c)
  <2> SUFFICES ASSUME NEW i \in 1..Len(begun) PROVE order[i] # NextKey(c)
    OBVIOUS
  <2>1. CASE api = "openai"
    BY <1>1, <2>1 DEF KeyInv, NextKey
  <2>2. CASE api = "anthropic"
    BY <1>1, <1>2, <2>2 DEF KeyInv, NextKey, TypeOK
  <2>3. CASE api = "responses"
    <3>1. NextKey(c) = c
      BY <2>3 DEF NextKey
    <3>2. begun[i] # c
      BY DEF Range, TypeOK
    <3> QED
      BY <2>3, <3>1, <3>2 DEF KeyInv
  <2> QED
    BY <2>1, <2>2, <2>3, ApisAssumption DEF TypeOK
<1>4. NextKey(c) \notin Range(order)
  <2>1. DOMAIN order = 1..Len(begun)
    BY <1>1 DEF TypeOK
  <2> QED
    BY <1>3, <2>1 DEF Range
<1>5. NextKey(c) \in Key
  <2>1. CASE api = "openai"
    BY <1>1, <2>1, BoundsAssumption DEF NextKey, Key
  <2>2. CASE api = "anthropic"
    BY <1>1, <2>2, BoundsAssumption DEF NextKey, Key, TypeOK
  <2>3. CASE api = "responses"
    BY <2>3, BoundsAssumption DEF NextKey, Key, Call
  <2> QED
    BY <2>1, <2>2, <2>3, ApisAssumption DEF TypeOK
<1> QED
  BY <1>4, <1>5

\* The server names call c in an event, for the first time or again, and the provider looks
\* its key up: the registry grows by that call, or not at all.
Named(c) == (Mention(c) \/ MentionAgain(c)) /\ Touch(key'[c]) /\ UNCHANGED <<api, texts>>

\* The call has a place in the registry, all others keep theirs.
LEMMA Registered ==
  ASSUME TypeOK, Open, StreamInv, NEW c \in Call, Named(c)
  PROVE  \E p \in 1..Len(begun') :
           /\ Len(begun) \in Nat /\ Len(begun') \in Nat
           /\ Len(begun') <= NCalls /\ Len(begun) <= Len(begun')
           /\ begun' \in Seq(Call) /\ order' \in Seq(Key) /\ key' \in [Call -> Key]
           /\ Len(order) = Len(begun) /\ Len(order') = Len(begun')
           /\ begun'[p] = c /\ order'[p] = key'[c]
           /\ \A i \in 1..Len(begun) : begun'[i] = begun[i] /\ order'[i] = order[i]
           /\ \A i \in 1..Len(begun) : i # p => begun[i] # c /\ order[i] # key'[c]
           /\ \A d \in Call : d # c => key'[d] = key[d]
           /\ \/ /\ Mention(c) /\ c \notin Range(begun)
                 /\ p = Len(begun') /\ Len(begun') = Len(begun) + 1
                 /\ key'[c] = NextKey(c) /\ key'[c] \notin Range(order)
              \/ MentionAgain(c) /\ c \in Range(begun) /\ Len(begun') = Len(begun)
<1> USE DEF StreamInv
<1>1. /\ Len(begun) \in Nat /\ Len(order) = Len(begun)
      /\ DOMAIN begun = 1..Len(begun) /\ DOMAIN order = 1..Len(begun)
      /\ begun \in Seq(Call) /\ order \in Seq(Key) /\ key \in [Call -> Key]
  BY DEF TypeOK, RegistryInv
<1>2. CASE Mention(c)
  <2>1. c \notin Range(begun) /\ begun' = Append(begun, c)
        /\ key' = [key EXCEPT ![c] = NextKey(c)]
    BY <1>2 DEF Mention
  <2>2. NextKey(c) \in Key /\ NextKey(c) \notin Range(order) /\ Len(begun) < NCalls
    BY <2>1, NewKey, Room
  <2>3. key'[c] = NextKey(c) /\ key' \in [Call -> Key] /\ \A d \in Call : d # c => key'[d] = key[d]
    BY <1>1, <2>1, <2>2
  <2>4. order' = Append(order, key'[c])
    BY <2>2, <2>3 DEF Named, Touch
  <2>5. /\ begun' \in Seq(Call) /\ Len(begun') = Len(begun) + 1
        /\ begun'[Len(begun')] = c /\ \A i \in 1..Len(begun) : begun'[i] = begun[i]
    BY <1>1, <2>1
  <2>6. /\ order' \in Seq(Key) /\ Len(order') = Len(begun')
        /\ order'[Len(begun')] = key'[c] /\ \A i \in 1..Len(begun) : order'[i] = order[i]
    BY <1>1, <2>2, <2>3, <2>4, <2>5
  <2>7. \A i \in 1..Len(begun) : begun[i] # c /\ order[i] # key'[c]
    BY <1>1, <2>1, <2>2, <2>3 DEF Range
  <2>8. /\ Len(begun') \in Nat /\ Len(begun') \in 1..Len(begun')
        /\ Len(begun') <= NCalls /\ Len(begun) <= Len(begun')
    BY <1>1, <2>2, <2>5, BoundsAssumption
  <2> QED
    BY <1>1, <1>2, <2>1, <2>2, <2>3, <2>5, <2>6, <2>7, <2>8
<1>3. CASE MentionAgain(c)
  <2>1. c \in Range(begun) /\ begun' = begun /\ key' = key
    BY <1>3 DEF MentionAgain
  <2>2. PICK p \in 1..Len(begun) : begun[p] = c
    BY <1>1, <2>1 DEF Range
  <2>3. order[p] = key[c] /\ key[c] \in Range(order)
    BY <1>1, <2>2 DEF RegistryInv, Range
  <2>4. order' = order
    BY <2>1, <2>3 DEF Named, Touch
  <2>5. \A i \in 1..Len(begun) : i # p => begun[i] # c /\ order[i] # key[c]
    BY <2>2, <2>3 DEF RegistryInv
  <2>6. Len(begun) <= NCalls
    BY <1>1 DEF TypeOK
  <2>7. /\ begun' \in Seq(Call) /\ order' \in Seq(Key) /\ key' \in [Call -> Key]
        /\ Len(order') = Len(begun') /\ Len(begun') = Len(begun) /\ Len(begun') \in Nat
        /\ begun'[p] = c /\ order'[p] = key'[c] /\ p \in 1..Len(begun')
    BY <1>1, <2>1, <2>2, <2>3, <2>4
  <2>8. /\ \A i \in 1..Len(begun) : begun'[i] = begun[i] /\ order'[i] = order[i]
        /\ \A i \in 1..Len(begun) : i # p => begun[i] # c /\ order[i] # key'[c]
        /\ \A d \in Call : d # c => key'[d] = key[d]
    BY <2>1, <2>4, <2>5
  <2>9. Len(begun') <= NCalls /\ Len(begun) <= Len(begun')
    BY <1>1, <2>6, <2>7
  <2> HIDE DEF StreamInv
  <2> QED
    BY <1>1, <1>3, <2>1, <2>7, <2>8, <2>9
<1> QED
  BY <1>2, <1>3 DEF Named

\* What is held of any other call is not touched by an event of call c.
Apart(c) ==
  \A d \in Call : d # c => /\ sent'[d] = sent[d]
                           /\ d \in named' <=> d \in named
                           /\ d \in closed' <=> d \in closed
                           /\ d \in done' <=> d \in done

\* The handling of an event: the call is named, its entry becomes what is now held of it.
Handled(c) ==
  /\ Named(c) /\ Apart(c)
  /\ acc' = [acc EXCEPT ![key'[c]] = Held(c)']

\* The entry under the key of a call, begun or not, is what is held of it.
LEMMA EntryIsHeld ==
  ASSUME TypeOK, Open, StreamInv, NEW c \in Call, Named(c)
  PROVE  key'[c] \in Key /\ acc[key'[c]] = Held(c)
<1>1. PICK p \in 1..Len(begun') :
           /\ key' \in [Call -> Key] /\ Len(order) = Len(begun)
           /\ begun'[p] = c /\ order'[p] = key'[c]
           /\ \A i \in 1..Len(begun) : begun'[i] = begun[i] /\ order'[i] = order[i]
           /\ \/ c \notin Range(begun) /\ key'[c] \notin Range(order)
              \/ MentionAgain(c) /\ c \in Range(begun) /\ Len(begun') = Len(begun)
  BY Registered
<1>2. key'[c] \in Key
  BY <1>1
<1>3. CASE c \notin Range(begun) /\ key'[c] \notin Range(order)
  <2>1. acc[key'[c]] = Blank
    BY <1>2, <1>3 DEF StreamInv, AccInv
  <2>2. sent[c] = 0 /\ c \notin named
    BY <1>3 DEF StreamInv, UnsentInv
  <2> QED
    BY <1>2, <2>1, <2>2, HeldType
<1>4. CASE MentionAgain(c) /\ c \in Range(begun) /\ Len(begun') = Len(begun)
  <2>1. p \in 1..Len(begun) /\ begun[p] = c /\ order[p] = key'[c]
    BY <1>1, <1>4
  <2>2. acc[order[p]] = Held(begun[p])
    BY <2>1 DEF StreamInv, AccInv
  <2> QED
    BY <1>2, <2>1, <2>2
<1> QED
  BY <1>1, <1>3, <1>4

\* An event of a call keeps the registry, the keys and the entries in order.
LEMMA HandledInv ==
  ASSUME TypeOK, Open, StreamInv, NEW c \in Call, Handled(c)
  PROVE  RegistryInv' /\ KeyInv' /\ UnsentInv' /\ AccInv'
<1> DEFINE n == Len(begun)
           m == Len(begun')
<1>1. PICK p \in 1..m :
           /\ n \in Nat /\ m \in Nat /\ n <= m
           /\ begun' \in Seq(Call) /\ order' \in Seq(Key) /\ key' \in [Call -> Key]
           /\ Len(order) = n /\ Len(order') = m
           /\ begun'[p] = c /\ order'[p] = key'[c]
           /\ \A i \in 1..n : begun'[i] = begun[i] /\ order'[i] = order[i]
           /\ \A i \in 1..n : i # p => begun[i] # c /\ order[i] # key'[c]
           /\ \A d \in Call : d # c => key'[d] = key[d]
           /\ \/ /\ Mention(c) /\ c \notin Range(begun)
                 /\ p = m /\ m = n + 1
                 /\ key'[c] = NextKey(c) /\ key'[c] \notin Range(order)
              \/ MentionAgain(c) /\ c \in Range(begun) /\ m = n
  BY Registered DEF Handled
<1>2. /\ begun \in Seq(Call) /\ order \in Seq(Key) /\ acc \in [Key -> [name : Call \cup {NoCall}, args : Seq(Fragment)]]
      /\ api \in Apis /\ api' = api /\ texts \in Nat /\ texts' = texts
  BY DEF TypeOK, Handled, Named
<1>3. \A i \in 1..m : i # p => i \in 1..n /\ begun'[i] = begun[i] /\ order'[i] = order[i]
  BY <1>1
<1>4. \A i \in 1..n : begun[i] \in Call /\ order[i] \in Key
  BY <1>1, <1>2
<1>5. RegistryInv'
  <2>1. \A i, j \in 1..n : (begun[i] = begun[j] => i = j) /\ (order[i] = order[j] => i = j)
    BY DEF StreamInv, RegistryInv
  <2>2. \A i, j \in 1..m : begun'[i] = begun'[j] => i = j
    BY <1>1, <1>3, <2>1
  <2>3. \A i, j \in 1..m : order'[i] = order'[j] => i = j
    BY <1>1, <1>3, <2>1
  <2>4. \A i \in 1..m : order'[i] = key'[begun'[i]]
    <3> SUFFICES ASSUME NEW i \in 1..m PROVE order'[i] = key'[begun'[i]]
      OBVIOUS
    <3>1. CASE i = p
      BY <1>1, <3>1
    <3>2. CASE i # p
      <4>1. i \in 1..n /\ begun'[i] = begun[i] /\ order'[i] = order[i]
        BY <1>3, <3>2
      <4>2. order[i] = key[begun[i]] /\ begun[i] # c /\ begun[i] \in Call
        BY <1>1, <1>4, <3>2, <4>1 DEF StreamInv, RegistryInv
      <4> QED
        BY <1>1, <4>1, <4>2
    <3> QED
      BY <3>1, <3>2
  <2> QED
    BY <1>1, <2>2, <2>3, <2>4 DEF RegistryInv
<1>6. KeyInv'
  <2> SUFFICES ASSUME NEW i \in 1..m
               PROVE  /\ api = "openai" => order'[i] = i - 1
                      /\ api = "anthropic" => order'[i] < m + texts
                      /\ api = "responses" => order'[i] = begun'[i]
    BY <1>2 DEF KeyInv
  <2>1. CASE i \in 1..n
    <3>1. begun'[i] = begun[i] /\ order'[i] = order[i]
      BY <1>1, <2>1
    <3>2. /\ api = "openai" => order[i] = i - 1
          /\ api = "anthropic" => order[i] < n + texts
          /\ api = "responses" => order[i] = begun[i]
      BY <2>1 DEF StreamInv, KeyInv
    <3>3. order[i] \in Nat
      BY <1>4, <2>1, BoundsAssumption DEF Key
    <3> QED
      BY <1>1, <1>2, <3>1, <3>2, <3>3
  <2>2. CASE i \notin 1..n
    <3>1. i = p /\ m = n + 1 /\ p = m /\ key'[c] = NextKey(c)
      BY <1>1, <2>2
    <3>2. order'[i] = NextKey(c) /\ begun'[i] = c
      BY <1>1, <3>1
    <3> QED
      BY <1>1, <1>2, <3>1, <3>2 DEF NextKey
  <2> QED
    BY <2>1, <2>2
<1>7. Range(begun') = Range(begun) \cup {c} /\ Range(order') = Range(order) \cup {key'[c]}
  <2>1. /\ DOMAIN begun = 1..n /\ DOMAIN order = 1..n
        /\ DOMAIN begun' = 1..m /\ DOMAIN order' = 1..m
    BY <1>1, <1>2
  <2>2. \A i \in 1..n : i \in 1..m
    BY <1>1
  <2> HIDE DEF n, m
  <2> QED
    BY <1>1, <1>3, <2>1, <2>2 DEF Range
<1>8. UnsentInv'
  BY <1>7 DEF StreamInv, UnsentInv, Handled, Apart
<1>9. \A k \in Key : acc'[k] = IF k = key'[c] THEN Held(c)' ELSE acc[k]
  BY <1>2 DEF Handled
<1>10. \A d \in Call : d # c => Held(d)' = Held(d)
  BY DEF Handled, Apart, Held
<1>11. AccInv'
  <2>1. ASSUME NEW i \in 1..m
        PROVE  (acc[order[i]] = Held(begun[i]))'
    <3>1. CASE i = p
      <4>1. key'[c] \in Key
        BY <1>1
      <4>2. acc'[order'[i]] = Held(c)' /\ begun'[i] = c
        BY <1>1, <1>9, <3>1, <4>1
      <4> QED
        BY <4>2 DEF Held
    <3>2. CASE i # p
      <4>1. i \in 1..n /\ begun'[i] = begun[i] /\ order'[i] = order[i]
        BY <1>3, <3>2
      <4>2. order[i] # key'[c] /\ begun[i] # c /\ begun[i] \in Call /\ order[i] \in Key
        BY <1>1, <1>4, <3>2, <4>1
      <4>3. acc[order[i]] = Held(begun[i])
        BY <4>1 DEF StreamInv, AccInv
      <4>4. acc'[order[i]] = acc[order[i]]
        BY <1>9, <4>2
      <4>5. Held(begun[i])' = Held(begun[i])
        BY <4>1, <4>2 DEF Handled, Apart, Held
      <4> QED
        BY <4>1, <4>3, <4>4, <4>5
    <3> QED
      BY <3>1, <3>2
  <2>2. \A k \in Key : k \notin Range(order') => acc'[k] = Blank
    BY <1>7, <1>9 DEF StreamInv, AccInv
  <2> QED
    BY <2>1, <2>2 DEF AccInv
<1> QED
  BY <1>5, <1>6, <1>8, <1>11

-----------------------------------------------------------------------------
(* Receiving                                                               *)

Entry == [name : Call \cup {NoCall}, args : Seq(Fragment)]

\* A name or arguments received change that part of the call's entry only, ...
LEMMA AccUpdates ==
  ASSUME TypeOK, NEW x, NEW k \in Key
  PROVE  /\ [acc EXCEPT ![k].name = x] = [acc EXCEPT ![k] = [name |-> x, args |-> acc[k].args]]
         /\ [acc EXCEPT ![k].args = x] = [acc EXCEPT ![k] = [name |-> acc[k].name, args |-> x]]
<1>1. acc[k] = [name |-> acc[k].name, args |-> acc[k].args]
  BY DEF TypeOK
<1>2. /\ [acc[k] EXCEPT !.name = x] = [name |-> x, args |-> acc[k].args]
      /\ [acc[k] EXCEPT !.args = x] = [name |-> acc[k].name, args |-> x]
  BY <1>1
<1> QED
  BY <1>2

\* ... and so they do with the consumer.
LEMMA ShownUpdates ==
  ASSUME TypeOK, NEW x, NEW k \in 0..(NCalls - 1)
  PROVE  /\ [shown EXCEPT ![k].name = x] = [shown EXCEPT ![k] = [name |-> x, args |-> shown[k].args]]
         /\ [shown EXCEPT ![k].args = x] = [shown EXCEPT ![k] = [name |-> shown[k].name, args |-> x]]
<1>1. shown[k] = [name |-> shown[k].name, args |-> shown[k].args]
  BY DEF TypeOK
<1>2. /\ [shown[k] EXCEPT !.name = x] = [name |-> x, args |-> shown[k].args]
      /\ [shown[k] EXCEPT !.args = x] = [name |-> shown[k].name, args |-> x]
  BY <1>1
<1> QED
  BY <1>2

\* A name leaves the arguments as they are.
LEMMA NameIsHeld ==
  ASSUME TypeOK, NEW c \in Call, named' = named \cup {c}, sent' = sent
  PROVE  Held(c)' = [name |-> c, args |-> Held(c).args]
BY DEF Held

\* A fragment leaves the name as it is, and goes behind the arguments.
LEMMA ArgsAreHeld ==
  ASSUME TypeOK, NEW c \in Call, SendFragment(c), named' = named
  PROVE  /\ Held(c)' = [name |-> Held(c).name, args |-> Held(c).args \o <<<<c, sent[c] + 1>>>>]
         /\ sent' \in [Call -> 0..MaxFrags] /\ closed' \subseteq Call
         /\ <<<<c, sent[c] + 1>>>> \in Seq(Fragment)
         /\ done' = done => Apart(c)
<1>1. /\ sent[c] \in 0..MaxFrags /\ sent[c] < MaxFrags
      /\ sent' = [sent EXCEPT ![c] = sent[c] + 1] /\ sent \in [Call -> 0..MaxFrags]
      /\ closed' \in {closed, closed \cup {c}} /\ closed \subseteq Call
  BY DEF TypeOK, SendFragment
<1>2. sent[c] + 1 \in 0..MaxFrags /\ sent[c] + 1 \in 1..MaxFrags
  BY <1>1, BoundsAssumption
<1>3. /\ sent' \in [Call -> 0..MaxFrags] /\ sent'[c] = sent[c] + 1
      /\ \A d \in Call : d # c => sent'[d] = sent[d]
  BY <1>1, <1>2
<1>4. Held(c)' = [name |-> Held(c).name, args |-> Frags(c, sent[c] + 1)]
  BY <1>3 DEF Held
<1>5. Held(c).args \o <<<<c, sent[c] + 1>>>> = Frags(c, sent[c] + 1)
  BY <1>1, FragsNext DEF Held
<1>6. <<<<c, sent[c] + 1>>>> \in Seq(Fragment)
  BY <1>2 DEF Fragment
<1> QED
  BY <1>1, <1>3, <1>4, <1>5, <1>6 DEF Apart

\* What an event of a call establishes about the provider and the server.
Received(c) ==
  /\ Handled(c)
  /\ named' \subseteq Call /\ closed' \subseteq Call /\ done' \subseteq Call
  /\ sent' \in [Call -> 0..MaxFrags]
  /\ UNCHANGED <<result, reply>>

\* openai: the first delta of a call.
LEMMA OpenAiBeginReceived ==
  ASSUME TypeOK, Open, StreamInv, NEW c \in Call, OpenAiBegin(c)
  PROVE  Received(c) /\ key'[c] = Len(begun) /\ Mention(c)
<1>1. /\ Mention(c) /\ named' = named \cup {c} /\ Touch(Len(begun)) /\ api = "openai"
      /\ acc' = [acc EXCEPT ![Len(begun)].name = c]
      /\ UNCHANGED <<api, sent, closed, done, texts, result, reply>>
  BY DEF OpenAiBegin, SetName
<1>2. key'[c] = Len(begun)
  BY <1>1 DEF Mention, NextKey, TypeOK
<1>3. Named(c)
  BY <1>1, <1>2 DEF Named
<1>4. /\ key'[c] \in Key /\ acc[key'[c]] = Held(c)
      /\ acc' = [acc EXCEPT ![key'[c]].name = c]
  BY <1>1, <1>2, <1>3, EntryIsHeld
<1>5. acc' = [acc EXCEPT ![key'[c]] = [name |-> c, args |-> acc[key'[c]].args]]
  BY <1>4, AccUpdates
<1>6. acc' = [acc EXCEPT ![key'[c]] = Held(c)']
  BY <1>1, <1>4, <1>5, NameIsHeld
<1> QED
  BY <1>1, <1>2, <1>3, <1>6 DEF Received, Handled, Apart, TypeOK

\* openai: more arguments.
LEMMA OpenAiArgsReceived ==
  ASSUME TypeOK, Open, StreamInv, NEW c \in Call, OpenAiArgs(c)
  PROVE  Received(c)
<1>1. /\ MentionAgain(c) /\ SendFragment(c) /\ Touch(key[c]) /\ key' = key
      /\ acc' = [acc EXCEPT ![key'[c]].args = acc[key'[c]].args \o <<<<c, sent[c] + 1>>>>]
      /\ UNCHANGED <<api, named, done, texts, result, reply>>
  BY DEF OpenAiArgs, AddArgs, MentionAgain
<1>2. Named(c)
  BY <1>1 DEF Named
<1>3. key'[c] \in Key /\ acc[key'[c]] = Held(c)
  BY <1>2, EntryIsHeld
<1>4. acc' = [acc EXCEPT ![key'[c]] = [name |-> acc[key'[c]].name,
                                      args |-> acc[key'[c]].args \o <<<<c, sent[c] + 1>>>>]]
  BY <1>1, <1>3, AccUpdates
<1>5. acc' = [acc EXCEPT ![key'[c]] = Held(c)']
  BY <1>1, <1>3, <1>4, ArgsAreHeld
<1> QED
  BY <1>1, <1>2, <1>5, ArgsAreHeld DEF Received, Handled, TypeOK

\* anthropic: the start of a block of a call.
LEMMA AntStartReceived ==
  ASSUME TypeOK, Open, StreamInv, NEW c \in Call, AntStart(c)
  PROVE  Received(c) /\ Mention(c)
<1> DEFINE k == Len(begun) + texts
<1>1. /\ Mention(c) /\ named' = named \cup {c} /\ Touch(k) /\ api = "anthropic"
      /\ acc' = [acc EXCEPT ![k].name = c]
      /\ UNCHANGED <<api, sent, closed, done, texts, result, reply>>
  BY DEF AntStart, SetName
<1>2. key'[c] = k
  BY <1>1 DEF Mention, NextKey, TypeOK
<1> HIDE DEF k
<1>3. Named(c)
  BY <1>1, <1>2 DEF Named
<1>4. /\ key'[c] \in Key /\ acc[key'[c]] = Held(c)
      /\ acc' = [acc EXCEPT ![key'[c]].name = c]
  BY <1>1, <1>2, <1>3, EntryIsHeld
<1>5. acc' = [acc EXCEPT ![key'[c]] = [name |-> c, args |-> acc[key'[c]].args]]
  BY <1>4, AccUpdates
<1>6. acc' = [acc EXCEPT ![key'[c]] = Held(c)']
  BY <1>1, <1>4, <1>5, NameIsHeld
<1> QED
  BY <1>1, <1>2, <1>3, <1>6 DEF Received, Handled, Apart, TypeOK

\* anthropic: more arguments, for a block that was started or for one that was not.
LEMMA AntArgsReceived ==
  ASSUME TypeOK, Open, StreamInv, NEW c \in Call, AntArgs(c)
  PROVE  Received(c) /\ Named(c)
<1>1. /\ Mention(c) \/ MentionAgain(c)
      /\ SendFragment(c) /\ Touch(key'[c])
      /\ acc' = [acc EXCEPT ![key'[c]].args = acc[key'[c]].args \o <<<<c, sent[c] + 1>>>>]
      /\ UNCHANGED <<api, named, done, texts, result, reply>>
  BY DEF AntArgs, AddArgs
<1>2. Named(c)
  BY <1>1 DEF Named
<1>3. key'[c] \in Key /\ acc[key'[c]] = Held(c)
  BY <1>2, EntryIsHeld
<1>4. acc' = [acc EXCEPT ![key'[c]] = [name |-> acc[key'[c]].name,
                                      args |-> acc[key'[c]].args \o <<<<c, sent[c] + 1>>>>]]
  BY <1>1, <1>3, AccUpdates
<1>5. acc' = [acc EXCEPT ![key'[c]] = Held(c)']
  BY <1>1, <1>3, <1>4, ArgsAreHeld
<1> QED
  BY <1>1, <1>2, <1>5, ArgsAreHeld DEF Received, Handled, TypeOK

\* responses: the key of a call is its item id, in whatever event it is named.
LEMMA RespNamed ==
  ASSUME TypeOK, Open, StreamInv, api = "responses", NEW c \in Call,
         Mention(c) \/ MentionAgain(c), Touch(c), UNCHANGED <<api, texts>>
  PROVE  key'[c] = c /\ Named(c)
<1>1. key'[c] = c
  <2>1. CASE Mention(c)
    BY <2>1 DEF Mention, NextKey, TypeOK
  <2>2. CASE MentionAgain(c)
    <3>1. PICK p \in 1..Len(begun) : begun[p] = c
      BY <2>2 DEF MentionAgain, Range, TypeOK
    <3>2. order[p] = key[c] /\ order[p] = c
      BY <3>1 DEF StreamInv, RegistryInv, KeyInv
    <3> QED
      BY <2>2, <3>2 DEF MentionAgain
  <2> QED
    BY <2>1, <2>2
<1> QED
  BY <1>1 DEF Named

\* responses: an item is added, with its name or without.
LEMMA RespAddedReceived ==
  ASSUME TypeOK, Open, StreamInv, NEW c \in Call, RespAdded(c)
  PROVE  Received(c)
<1>1. /\ Mention(c) /\ Touch(c) /\ api = "responses"
      /\ UNCHANGED <<api, sent, closed, done, texts, result, reply>>
  BY DEF RespAdded
<1>2. key'[c] = c /\ Named(c)
  BY <1>1, RespNamed
<1>3. key'[c] \in Key /\ acc[key'[c]] = Held(c)
  BY <1>2, EntryIsHeld
<1>4. named' \subseteq Call /\ Apart(c)
  BY <1>1 DEF RespAdded, Apart, TypeOK
<1>5. acc' = [acc EXCEPT ![key'[c]] = Held(c)']
  <2>1. CASE named' = named \cup {c} /\ SetName(c, c)
    <3>1. acc' = [acc EXCEPT ![key'[c]].name = c]
      BY <1>2, <2>1 DEF SetName
    <3>2. acc' = [acc EXCEPT ![key'[c]] = [name |-> c, args |-> acc[key'[c]].args]]
      BY <1>3, <3>1, AccUpdates
    <3> QED
      BY <1>1, <1>3, <2>1, <3>2, NameIsHeld
  <2>2. CASE UNCHANGED <<named, acc>>
    <3>1. Held(c)' = Held(c)
      BY <1>1, <2>2 DEF Held
    <3>2. acc \in [Key -> [name : Call \cup {NoCall}, args : Seq(Fragment)]]
      BY DEF TypeOK
    <3> QED
      BY <1>3, <2>2, <3>1, <3>2
  <2> QED
    BY <2>1, <2>2 DEF RespAdded
<1> QED
  BY <1>1, <1>2, <1>4, <1>5 DEF Received, Handled, TypeOK

\* responses: more arguments, whether or not the item was added.
LEMMA RespArgsReceived ==
  ASSUME TypeOK, Open, StreamInv, NEW c \in Call, RespArgs(c)
  PROVE  Received(c)
<1>1. /\ SendFragment(c) /\ Touch(c) /\ api = "responses"
      /\ UNCHANGED <<api, named, done, texts, result, reply>>
  BY DEF RespArgs
<1>2. key'[c] = c /\ Named(c)
  BY <1>1, RespNamed DEF RespArgs
<1>3. key'[c] \in Key /\ acc[key'[c]] = Held(c)
  BY <1>2, EntryIsHeld
<1>4. acc' = [acc EXCEPT ![key'[c]].args = acc[key'[c]].args \o <<<<c, sent[c] + 1>>>>]
  BY <1>2 DEF RespArgs, AddArgs
<1>5. acc' = [acc EXCEPT ![key'[c]] = [name |-> acc[key'[c]].name,
                                      args |-> acc[key'[c]].args \o <<<<c, sent[c] + 1>>>>]]
  BY <1>3, <1>4, AccUpdates
<1>6. acc' = [acc EXCEPT ![key'[c]] = Held(c)']
  BY <1>1, <1>3, <1>5, ArgsAreHeld
<1> QED
  BY <1>1, <1>2, <1>6, ArgsAreHeld DEF Received, Handled, TypeOK

\* responses: a done item.  The arguments it brings are those the deltas have brought, or
\* no delta came: either way the entry has each of them once.
LEMMA RespDoneReceived ==
  ASSUME TypeOK, Open, StreamInv, NEW c \in Call, RespDone(c)
  PROVE  Received(c)
<1>1. /\ Touch(c) /\ api = "responses" /\ done' = done \cup {c} /\ named' = named \cup {c}
      /\ UNCHANGED <<api, texts, result, reply>>
  BY DEF RespDone
<1>2. key'[c] = c /\ Named(c)
  BY <1>1, RespNamed DEF RespDone
<1>3. key'[c] \in Key /\ acc[key'[c]] = Held(c)
  BY <1>2, EntryIsHeld
<1>4. /\ sent' \in [Call -> 0..MaxFrags] /\ closed' \subseteq Call
      /\ \A d \in Call : d # c => sent'[d] = sent[d] /\ (d \in closed' <=> d \in closed)
      /\ sent[c] = 0 \/ sent'[c] = sent[c]
  <2>1. sent \in [Call -> 0..MaxFrags] /\ closed \subseteq Call
    BY DEF TypeOK
  <2>2. CASE c \in closed
    BY <2>1, <2>2 DEF RespDone
  <2>3. CASE c \notin closed
    BY <2>1, <2>3 DEF RespDone
  <2> QED
    BY <2>2, <2>3
<1>5. Apart(c) /\ named' \subseteq Call /\ done' \subseteq Call
  BY <1>1, <1>4 DEF Apart, TypeOK
<1>6. acc' = [acc EXCEPT ![key'[c]] =
                [name |-> c,
                 args |-> IF acc[key'[c]].args = <<>> THEN Frags(c, sent'[c]) ELSE acc[key'[c]].args]]
  BY <1>2 DEF RespDone, Backfill
<1>7. Held(c)' = [name |-> c, args |-> Frags(c, sent'[c])]
  BY <1>1 DEF Held
<1>8. (IF acc[key'[c]].args = <<>> THEN Frags(c, sent'[c]) ELSE acc[key'[c]].args) = Frags(c, sent'[c])
  <2>1. acc[key'[c]].args = Frags(c, sent[c])
    BY <1>3 DEF Held
  <2>2. CASE sent[c] = 0
    BY <2>1, <2>2, FragsNone
  <2>3. CASE sent'[c] = sent[c]
    BY <2>1, <2>3
  <2> QED
    BY <1>4, <2>2, <2>3
<1>9. acc' = [acc EXCEPT ![key'[c]] = Held(c)']
  BY <1>6, <1>7, <1>8
<1> QED
  BY <1>1, <1>2, <1>4, <1>5, <1>9 DEF Received, Handled

-----------------------------------------------------------------------------
(* Showing                                                                 *)

ShownType == [0..(NCalls - 1) -> [name : Call \cup {NoCall}, args : Seq(Fragment)]]

\* A call that has begun has a place.
LEMMA BegunAt ==
  ASSUME TypeOK, NEW c \in Range(begun)
  PROVE  \E p \in 1..Len(begun) : begun[p] = c
<1>1. DOMAIN begun = 1..Len(begun)
  BY DEF TypeOK
<1> QED
  BY <1>1 DEF Range

\* When what is shown under the place of the call is what is now held of it, the consumer
\* is up to date.
LEMMA ShownStep ==
  ASSUME TypeOK, Open, StreamInv, NEW c \in Call, Received(c),
         api \in {"openai", "anthropic"},
         NEW p \in 1..Len(begun'), begun'[p] = c,
         shown' = [shown EXCEPT ![p - 1] = Held(c)']
  PROVE  ShownInv' /\ shown' \in ShownType
<1> DEFINE n == Len(begun)
           m == Len(begun')
<1>1. PICK q \in 1..m :
           /\ n \in Nat /\ m \in Nat /\ m <= NCalls /\ n <= m
           /\ begun' \in Seq(Call)
           /\ begun'[q] = c
           /\ \A i \in 1..n : begun'[i] = begun[i]
           /\ \A i \in 1..n : i # q => begun[i] # c
           /\ \/ q = m /\ m = n + 1
              \/ m = n
  BY Registered DEF Received, Handled
<1>2. \A i, j \in 1..m : begun'[i] = begun'[j] => i = j
  BY HandledInv DEF Received, RegistryInv
<1>3. p = q
  BY <1>1, <1>2
<1>4. Held(c)' \in [name : Call \cup {NoCall}, args : Seq(Fragment)]
  <2>1. sent'[c] \in 0..MaxFrags
    BY DEF Received
  <2>2. Frags(c, sent'[c]) \in Seq(Fragment)
    BY <2>1, FragsType
  <2> QED
    BY <2>2 DEF Held
<1>5. shown' \in ShownType /\ p - 1 \in 0..(NCalls - 1)
  <2>1. shown' \in ShownType
    BY <1>4 DEF TypeOK, ShownType
  <2>2. \A i \in 1..m : i - 1 \in 0..(NCalls - 1)
    BY <1>1, BoundsAssumption
  <2> QED
    BY <2>1, <2>2
<1>6. \A i \in 0..(NCalls - 1) : shown'[i] = IF i = p - 1 THEN Held(c)' ELSE shown[i]
  BY DEF TypeOK
<1>7. api' = api /\ Apart(c)
  BY DEF Received, Handled, Named
<1>8. /\ \A i \in 1..n : shown[i - 1] = Held(begun[i])
      /\ \A i \in n..(NCalls - 1) : shown[i] = Blank
  BY DEF StreamInv, ShownInv
<1>9. ASSUME NEW i \in 1..m
      PROVE  (shown[i - 1] = Held(begun[i]))'
  <2>1. CASE i = p
    <3>1. shown'[i - 1] = Held(c)' /\ begun'[i] = c
      BY <1>5, <1>6, <2>1
    <3> QED
      BY <3>1 DEF Held
  <2>2. CASE i # p
    <3>1. i \in 1..n /\ begun'[i] = begun[i] /\ begun[i] # c
      BY <1>1, <1>3, <2>2
    <3>2. begun[i] \in Call
      BY <3>1 DEF TypeOK
    <3>3. Held(begun[i])' = Held(begun[i])
      BY <1>7, <3>1, <3>2 DEF Apart, Held
    <3>4. i - 1 \in 0..(NCalls - 1) /\ i - 1 # p - 1
      BY <1>1, <2>2, BoundsAssumption
    <3>5. shown'[i - 1] = shown[i - 1]
      BY <1>6, <3>4
    <3> QED
      BY <1>8, <3>1, <3>3, <3>5
  <2> QED
    BY <2>1, <2>2
<1>10. ASSUME NEW i \in m..(NCalls - 1)
       PROVE  shown'[i] = Blank
  <2>1. i \in n..(NCalls - 1) /\ i \in 0..(NCalls - 1) /\ i # p - 1
    BY <1>1
  <2> QED
    BY <1>6, <1>8, <2>1
<1>11. Blank' = Blank
  BY DEF Blank
<1> QED
  BY <1>5, <1>9, <1>10, <1>11 DEF ShownInv

\* The first delta of a call shows its name under the next place.
LEMMA NameShown ==
  ASSUME TypeOK, Open, StreamInv, NEW c \in Call, Received(c), Mention(c),
         api \in {"openai", "anthropic"}, named' = named \cup {c}, sent' = sent,
         shown' = [shown EXCEPT ![Len(begun)].name = c]
  PROVE  ShownInv' /\ shown' \in ShownType
<1>1. /\ c \notin Range(begun) /\ begun' = Append(begun, c)
      /\ begun \in Seq(Call) /\ Len(begun) \in Nat
  BY DEF Mention, TypeOK
<1>2. Len(begun) < NCalls
  BY <1>1, Room DEF StreamInv
<1>3. Len(begun) \in 0..(NCalls - 1) /\ Len(begun) \in Len(begun)..(NCalls - 1)
  BY <1>1, <1>2, BoundsAssumption
<1>4. shown[Len(begun)] = Blank
  BY <1>3 DEF StreamInv, ShownInv
<1>5. Held(c) = Blank
  BY <1>1, HeldType DEF StreamInv, UnsentInv
<1>6. shown' = [shown EXCEPT ![Len(begun)] = [name |-> c, args |-> shown[Len(begun)].args]]
  BY <1>3, ShownUpdates
<1>7. shown' = [shown EXCEPT ![Len(begun)] = Held(c)']
  BY <1>4, <1>5, <1>6, NameIsHeld
<1>8. /\ Len(begun') = Len(begun) + 1 /\ begun'[Len(begun) + 1] = c
      /\ Len(begun) + 1 \in 1..Len(begun') /\ Len(begun) + 1 - 1 = Len(begun)
  BY <1>1
<1>9. PICK p \in 1..Len(begun') : p = Len(begun) + 1 /\ p - 1 = Len(begun)
  BY <1>8
<1>10. shown' = [shown EXCEPT ![p - 1] = Held(c)'] /\ begun'[p] = c
  BY <1>7, <1>8, <1>9
<1> QED
  BY <1>10, ShownStep

\* More arguments are shown behind those shown under the place of the call.
LEMMA ArgsShown ==
  ASSUME TypeOK, Open, StreamInv, NEW c \in Call, Received(c),
         api \in {"openai", "anthropic"}, SendFragment(c), named' = named,
         NEW p \in 1..Len(begun'), begun'[p] = c,
         shown' = [shown EXCEPT ![p - 1].args = shown[p - 1].args \o <<<<c, sent[c] + 1>>>>]
  PROVE  ShownInv' /\ shown' \in ShownType
<1> DEFINE n == Len(begun)
           m == Len(begun')
<1>0. PICK q \in 1..m :
           /\ n \in Nat /\ m \in Nat /\ m <= NCalls
           /\ \A i \in 1..n : begun'[i] = begun[i]
           /\ \/ c \notin Range(begun) /\ q = m /\ m = n + 1
              \/ c \in Range(begun) /\ m = n
  BY Registered DEF Received, Handled
<1>1. shown[p - 1] = Held(c)
  <2>1. CASE p \in 1..n
    <3>1. begun[p] = c
      BY <1>0, <2>1
    <3> QED
      BY <2>1, <3>1 DEF StreamInv, ShownInv
  <2>2. CASE p \notin 1..n
    <3>1. c \notin Range(begun) /\ p - 1 = n /\ p - 1 \in n..(NCalls - 1)
      BY <1>0, <2>2, BoundsAssumption
    <3>2. shown[p - 1] = Blank
      BY <3>1 DEF StreamInv, ShownInv
    <3>3. Held(c) = Blank
      BY <3>1, HeldType DEF StreamInv, UnsentInv
    <3> QED
      BY <3>2, <3>3
  <2> QED
    BY <2>1, <2>2
<1>2. p - 1 \in 0..(NCalls - 1)
  BY <1>0, BoundsAssumption
<1>3. shown' = [shown EXCEPT ![p - 1] = [name |-> shown[p - 1].name,
                                         args |-> shown[p - 1].args \o <<<<c, sent[c] + 1>>>>]]
  BY <1>2, ShownUpdates
<1>4. shown' = [shown EXCEPT ![p - 1] = Held(c)']
  BY <1>1, <1>3, ArgsAreHeld
<1> QED
  BY <1>1, <1>4, ShownStep

\* An event of a call keeps what the consumer has up to date, in all three protocols.
LEMMA EventShown ==
  ASSUME TypeOK, Open, StreamInv, NEW c \in Call, ServerEvent(c)
  PROVE  Received(c) /\ ShownInv' /\ shown' \in ShownType
<1>1. CASE OpenAiBegin(c)
  <2>1. Received(c) /\ Mention(c)
    BY <1>1, OpenAiBeginReceived
  <2>2. /\ api = "openai" /\ named' = named \cup {c} /\ sent' = sent
        /\ shown' = [shown EXCEPT ![Len(begun)].name = c]
    BY <1>1 DEF OpenAiBegin, ShowName
  <2> QED
    BY <2>1, <2>2, NameShown
<1>2. CASE AntStart(c)
  <2>1. Received(c) /\ Mention(c)
    BY <1>2, AntStartReceived
  <2>2. Len(order) = Len(begun)
    BY DEF StreamInv, RegistryInv
  <2>3. /\ api = "anthropic" /\ named' = named \cup {c} /\ sent' = sent
        /\ shown' = [shown EXCEPT ![Len(begun)].name = c]
    BY <1>2, <2>2 DEF AntStart, ShowName
  <2> QED
    BY <2>1, <2>3, NameShown
<1>3. CASE OpenAiArgs(c)
  <2>1. Received(c)
    BY <1>3, OpenAiArgsReceived
  <2>2. /\ api = "openai" /\ SendFragment(c) /\ named' = named /\ begun' = begun
        /\ c \in Range(begun)
        /\ shown' = [shown EXCEPT ![key[c]].args = shown[key[c]].args \o <<<<c, sent[c] + 1>>>>]
    BY <1>3 DEF OpenAiArgs, ShowArgs, MentionAgain
  <2>3. PICK p \in 1..Len(begun) : begun[p] = c
    BY <2>2, BegunAt
  <2>4. key[c] = p - 1
    BY <2>2, <2>3 DEF StreamInv, RegistryInv, KeyInv
  <2>5. shown' = [shown EXCEPT ![p - 1].args = shown[p - 1].args \o <<<<c, sent[c] + 1>>>>]
    BY <2>2, <2>4
  <2> QED
    BY <2>1, <2>2, <2>3, <2>5, ArgsShown
<1>4. CASE AntArgs(c)
  <2>1. Received(c)
    BY <1>4, AntArgsReceived
  <2> DEFINE t == ToolIndex(order', key'[c])
  <2>2. /\ api = "anthropic" /\ SendFragment(c) /\ named' = named
        /\ shown' = [shown EXCEPT ![t].args = shown[t].args \o <<<<c, sent[c] + 1>>>>]
    BY <1>4 DEF AntArgs, ShowArgs
  <2>3. PICK p \in 1..Len(begun') :
          begun'[p] = c /\ order'[p] = key'[c] /\ Len(order') = Len(begun')
    BY <1>4, AntArgsReceived, Registered
  <2>4. t = p - 1
    <3>1. Len(begun') \in Nat /\ \A i, j \in 1..Len(begun') : order'[i] = order'[j] => i = j
      BY <1>4, <2>1, AntArgsReceived, Registered, HandledInv DEF Received, RegistryInv
    <3>2. p - 1 \in 0..(Len(order') - 1) /\ order'[p - 1 + 1] = key'[c]
      BY <2>3, <3>1
    <3>3. t \in 0..(Len(order') - 1) /\ order'[t + 1] = key'[c]
      BY <3>2 DEF ToolIndex
    <3> HIDE DEF t
    <3>4. t + 1 \in 1..Len(begun')
      BY <2>3, <3>1, <3>3
    <3>5. t + 1 = p
      BY <2>3, <3>1, <3>3, <3>4
    <3> QED
      BY <3>3, <3>5
  <2>5. shown' = [shown EXCEPT ![p - 1].args = shown[p - 1].args \o <<<<c, sent[c] + 1>>>>]
    BY <2>2, <2>4
  <2> QED
    BY <2>1, <2>2, <2>3, <2>5, ArgsShown
<1>5. CASE RespAdded(c) \/ RespDone(c)
  <2>1. Received(c)
    BY <1>5, RespAddedReceived, RespDoneReceived
  <2>2. api' = "responses" /\ shown' = shown
    BY <1>5 DEF RespAdded, RespDone
  <2> QED
    BY <2>1, <2>2 DEF ShownInv, ShownType, TypeOK
<1>6. CASE RespArgs(c)
  <2>1. Received(c)
    BY <1>6, RespArgsReceived
  <2> DEFINE t == Len(order') - 1
             s == <<<<c, sent[c] + 1>>>>
  <2>2. /\ api' = "responses" /\ SendFragment(c) /\ named' = named
        /\ shown' = [shown EXCEPT ![t].args = shown[t].args \o s]
    BY <1>6 DEF RespArgs, ShowArgs
  <2>3. s \in Seq(Fragment)
    BY <2>2, ArgsAreHeld
  <2> HIDE DEF t, s
  <2>4. shown' \in ShownType
    <3>1. shown \in ShownType
      BY DEF TypeOK, ShownType
    <3>2. CASE t \in 0..(NCalls - 1)
      <4>1. shown[t].name \in Call \cup {NoCall} /\ shown[t].args \in Seq(Fragment)
        BY <3>1, <3>2 DEF ShownType
      <4>2. shown[t].args \o s \in Seq(Fragment)
        BY <2>3, <4>1, ConcatProperties
      <4>3. shown' = [shown EXCEPT ![t] = [name |-> shown[t].name, args |-> shown[t].args \o s]]
        BY <2>2, <3>2, ShownUpdates
      <4> QED
        BY <3>1, <3>2, <4>1, <4>2, <4>3 DEF ShownType
    <3>3. CASE t \notin 0..(NCalls - 1)
      BY <2>2, <3>1, <3>3 DEF ShownType
    <3> QED
      BY <3>2, <3>3
  <2> QED
    BY <2>1, <2>2, <2>4 DEF ShownInv
<1> QED
  BY <1>1, <1>2, <1>3, <1>4, <1>5, <1>6 DEF ServerEvent

-----------------------------------------------------------------------------
(* The invariant                                                           *)

\* An event of a call.
LEMMA EventStep ==
  ASSUME TypeOK, Open, StreamInv, NEW c \in Call, ServerEvent(c)
  PROVE  Inv'
<1>1. Received(c) /\ ShownInv' /\ shown' \in ShownType
  BY EventShown
<1>2. Handled(c) /\ Named(c)
  BY <1>1 DEF Received, Handled
<1>3. RegistryInv' /\ KeyInv' /\ UnsentInv' /\ AccInv'
  BY <1>2, HandledInv
<1>4. /\ Len(begun') <= NCalls /\ Len(order') = Len(begun')
      /\ begun' \in Seq(Call) /\ order' \in Seq(Key) /\ key' \in [Call -> Key]
  BY <1>2, Registered
<1>5. acc' \in [Key -> [name : Call \cup {NoCall}, args : Seq(Fragment)]]
  <2>1. sent'[c] \in 0..MaxFrags
    BY <1>1 DEF Received
  <2>2. Frags(c, sent'[c]) \in Seq(Fragment)
    BY <2>1, FragsType
  <2>3. Held(c)' \in [name : Call \cup {NoCall}, args : Seq(Fragment)]
    BY <2>2 DEF Held
  <2> QED
    BY <1>2, <2>3 DEF TypeOK, Handled
<1>6. api' = api /\ texts' = texts /\ result' = result /\ reply' = reply
  BY <1>1, <1>2 DEF Received, Named
<1>7. TypeOK'
  BY <1>1, <1>4, <1>5, <1>6 DEF TypeOK, Received, ShownType
<1>8. StreamInv'
  BY <1>1, <1>3 DEF StreamInv
<1>9. ShownIsReply'
  BY <1>1 DEF ShownInv, ShownIsReply, Held
<1>10. ReplyFaithful'
  BY <1>6 DEF ReplyFaithful, Open
<1> QED
  BY <1>7, <1>8, <1>9, <1>10 DEF Inv

\* A text moves the blocks of the calls to come.
LEMMA TextStep ==
  ASSUME Inv, Text
  PROVE  Inv'
<1>1. /\ Open /\ texts < MaxTexts /\ texts' = texts + 1
      /\ UNCHANGED <<api, begun, key, named, sent, closed, done, order, acc, result, reply, shown>>
  BY DEF Text
<1>2. TypeOK /\ RegistryInv /\ KeyInv /\ UnsentInv /\ AccInv /\ ShownInv
  BY <1>1 DEF Inv, StreamInv
<1>3. texts \in Nat /\ texts' \in 0..MaxTexts
  BY <1>1, <1>2, BoundsAssumption DEF TypeOK
<1>4. TypeOK'
  BY <1>1, <1>2, <1>3 DEF TypeOK
<1>5. KeyInv'
  <2> SUFFICES ASSUME NEW i \in 1..Len(begun), api = "anthropic"
               PROVE  order[i] < Len(begun) + texts'
    BY <1>1, <1>2 DEF KeyInv
  <2>1. order[i] < Len(begun) + texts /\ Len(begun) \in Nat
    BY <1>2 DEF KeyInv, TypeOK
  <2>2. order[i] \in Nat
    <3>1. order \in Seq(Key) /\ i \in 1..Len(order)
      BY <1>2 DEF TypeOK, RegistryInv
    <3>2. order[i] \in Key
      BY <3>1, ElementOfSeq
    <3> QED
      BY <3>2, BoundsAssumption DEF Key
  <2> QED
    BY <1>1, <1>3, <2>1, <2>2
<1>6. RegistryInv' /\ UnsentInv' /\ AccInv' /\ ShownInv'
  BY <1>1, <1>2 DEF RegistryInv, UnsentInv, AccInv, ShownInv, Held, Blank
<1>7. ShownIsReply' /\ ReplyFaithful'
  BY <1>1 DEF Inv, ShownIsReply, ReplyFaithful, Open
<1> QED
  BY <1>4, <1>5, <1>6, <1>7 DEF Inv, StreamInv

\* The arguments of a call are passed on when nothing is missing, and marked otherwise.
LEMMA SafeArgsOfCall ==
  ASSUME TypeOK, NEW c \in Call
  PROVE  LET a == SafeArgs(Frags(c, sent[c])) IN
         /\ a.json \in BOOLEAN /\ a.args \in Seq(Fragment)
         /\ a.json => a.args = Frags(c, sent[c])
         /\ ~a.json => sent[c] > 0 /\ c \notin closed
<1> DEFINE s == Frags(c, sent[c])
<1>1. sent[c] \in 0..MaxFrags /\ sent[c] \in Nat
  BY BoundsAssumption DEF TypeOK
<1>2. s \in Seq(Fragment) /\ Len(s) = sent[c]
  BY <1>1, FragsType
<1>3. CASE s = <<>> \/ ValidJson(s)
  <2>1. SafeArgs(s) = [json |-> TRUE, args |-> s]
    BY <1>3 DEF SafeArgs
  <2> QED
    BY <1>2, <2>1
<1>4. CASE ~ (s = <<>> \/ ValidJson(s))
  <2>1. SafeArgs(s) = [json |-> FALSE, args |-> <<>>]
    BY <1>4 DEF SafeArgs
  <2>2. c \notin closed
    BY <1>4 DEF ValidJson
  <2>3. sent[c] # 0
    BY <1>4, FragsNone
  <2>4. <<>> \in Seq(Fragment)
    BY EmptySeq
  <2> QED
    BY <1>1, <2>1, <2>2, <2>3, <2>4
<1> QED
  BY <1>3, <1>4

\* The provider answers with the calls in the order of its registry.
LEMMA FinishStep ==
  ASSUME Inv, Finish
  PROVE  Inv'
<1>1. /\ Open /\ result' = "reply" /\ UNCHANGED <<serverVars, order, acc, shown>>
      /\ reply' = [i \in 1..Len(order) |->
                     Final(acc[ReplyKey(i)].name, SafeArgs(acc[ReplyKey(i)].args))]
  BY DEF Finish
<1>2. TypeOK /\ RegistryInv /\ KeyInv /\ AccInv /\ ShownIsReply
  BY <1>1 DEF Inv, StreamInv
<1>3. Len(order) = Len(begun) /\ Len(begun) \in Nat
  BY <1>2 DEF RegistryInv, TypeOK
<1>4. ASSUME NEW i \in 1..Len(begun)
      PROVE  /\ begun[i] \in Call
             /\ reply'[i] = Final(Held(begun[i]).name, SafeArgs(Frags(begun[i], sent[begun[i]])))
  <2>1. begun[i] \in Call
    BY <1>2 DEF TypeOK
  <2>2. ReplyKey(i) = order[i]
    BY <1>2 DEF ReplyKey, KeyInv
  <2>3. acc[order[i]] = Held(begun[i])
    BY <1>2 DEF AccInv
  <2>4. reply'[i] = Final(acc[ReplyKey(i)].name, SafeArgs(acc[ReplyKey(i)].args))
    BY <1>1, <1>3
  <2>5. Held(begun[i]).args = Frags(begun[i], sent[begun[i]])
    BY DEF Held
  <2> QED
    BY <2>1, <2>2, <2>3, <2>4, <2>5
<1> DEFINE R == [name : Call \cup {NoCall}, json : BOOLEAN, args : Seq(Fragment)]
<1>5. ASSUME NEW i \in 1..Len(begun)
      PROVE  /\ reply'[i] \in R
             /\ reply'[i].name = IF begun[i] \in named THEN begun[i] ELSE NoCall
             /\ reply'[i].json => reply'[i].args = Frags(begun[i], sent[begun[i]])
             /\ ~reply'[i].json => sent[begun[i]] > 0 /\ begun[i] \notin closed
  <2> DEFINE c == begun[i]
             a == SafeArgs(Frags(c, sent[c]))
  <2>1. c \in Call /\ reply'[i] = [name |-> Held(c).name, json |-> a.json, args |-> a.args]
    BY <1>4 DEF Final
  <2>2. /\ a.json \in BOOLEAN /\ a.args \in Seq(Fragment)
        /\ a.json => a.args = Frags(c, sent[c])
        /\ ~a.json => sent[c] > 0 /\ c \notin closed
    BY <1>2, <2>1, SafeArgsOfCall
  <2>3. Held(c).name = (IF c \in named THEN c ELSE NoCall) /\ Held(c).name \in Call \cup {NoCall}
    BY <2>1 DEF Held
  <2> HIDE DEF a, c
  <2>4. /\ reply'[i] \in R
        /\ reply'[i].name = IF c \in named THEN c ELSE NoCall
        /\ reply'[i].json => reply'[i].args = Frags(c, sent[c])
        /\ ~reply'[i].json => sent[c] > 0 /\ c \notin closed
    BY <2>1, <2>2, <2>3
  <2> QED
    BY <2>4 DEF c
<1>6. reply' \in Seq(R) /\ Len(reply') = Len(begun)
  <2> DEFINE n == Len(begun)
  <2>1. reply' \in [1..n -> R]
    BY <1>1, <1>3, <1>5
  <2> HIDE DEF n, R
  <2>2. n \in Nat
    BY <1>3 DEF n
  <2>3. reply' \in Seq(R) /\ Len(reply') = n
    BY <2>1, <2>2
  <2> QED
    BY <2>3 DEF n
<1>7. /\ UNCHANGED <<api, begun, key, named, sent, closed, done, texts, order, acc, shown>>
  BY <1>1 DEF serverVars
<1>8. TypeOK' /\ ShownIsReply'
  BY <1>1, <1>2, <1>6, <1>7 DEF TypeOK, ShownIsReply
<1>9. ReplyFaithful'
  BY <1>5, <1>6, <1>7 DEF ReplyFaithful
<1>10. StreamInv'
  BY <1>1 DEF StreamInv, Open
<1> QED
  BY <1>8, <1>9, <1>10 DEF Inv

\* responses: the provider takes the calls from the last event.
LEMMA FinishOutputStep ==
  ASSUME Inv, FinishOutput
  PROVE  Inv'
<1> DEFINE Output(n, size, q) ==
        /\ begun' = q /\ named' = Range(q) /\ closed' = Range(q)
        /\ sent' = [c \in Call |-> IF c \in Range(q) THEN size[c] ELSE 0]
        /\ reply' = [i \in 1..n |->
                       Final(q[i], [json |-> TRUE, args |-> Frags(q[i], size[q[i]])])]
<1>0. PICK n \in 1..NCalls, size \in [Call -> 0..MaxFrags] :
        \E q \in [1..n -> Call] : Output(n, size, q)
  BY DEF FinishOutput
<1>1. PICK q \in [1..n -> Call] : Output(n, size, q)
  BY <1>0
<1>2. /\ api = "responses" /\ Open /\ result' = "reply"
      /\ UNCHANGED <<api, key, done, texts, order, acc, shown>>
  BY DEF FinishOutput
<1>3. TypeOK /\ n \in Nat
  BY BoundsAssumption DEF Inv
<1>4. begun' \in Seq(Call) /\ Len(begun') = n
  BY <1>1, <1>3
<1>5. /\ Range(q) \subseteq Call /\ \A i \in 1..n : q[i] \in Call /\ q[i] \in Range(q)
  BY DEF Range
<1>6. sent' \in [Call -> 0..MaxFrags] /\ \A i \in 1..n : sent'[q[i]] = size[q[i]]
  <2>1. 0 \in 0..MaxFrags
    BY BoundsAssumption
  <2> QED
    BY <1>1, <1>5, <2>1
<1> DEFINE R == [name : Call \cup {NoCall}, json : BOOLEAN, args : Seq(Fragment)]
<1>7. ASSUME NEW i \in 1..n
      PROVE  /\ reply'[i] \in R
             /\ reply'[i].name = q[i] /\ reply'[i].json
             /\ reply'[i].args = Frags(q[i], sent'[q[i]])
  <2>1. reply'[i] = [name |-> q[i], json |-> TRUE, args |-> Frags(q[i], size[q[i]])]
    BY <1>1 DEF Final
  <2>2. Frags(q[i], size[q[i]]) \in Seq(Fragment)
    BY <1>5, FragsType
  <2> QED
    BY <1>5, <1>6, <2>1, <2>2
<1>8. reply' \in Seq(R) /\ Len(reply') = n
  <2>1. reply' \in [1..n -> R]
    BY <1>1, <1>7
  <2> HIDE DEF R
  <2> QED
    BY <1>3, <2>1
<1>9. TypeOK'
  BY <1>1, <1>2, <1>3, <1>4, <1>5, <1>6, <1>8 DEF TypeOK
<1>10. ReplyFaithful'
  BY <1>1, <1>4, <1>5, <1>7, <1>8 DEF ReplyFaithful
<1>11. StreamInv' /\ ShownIsReply'
  BY <1>2 DEF StreamInv, Open, ShownIsReply
<1> QED
  BY <1>9, <1>10, <1>11 DEF Inv

\* Nothing has been sent and nothing received.
LEMMA InitInv == Init => Inv
<1> SUFFICES ASSUME Init PROVE Inv
  OBVIOUS
<1>1. /\ begun = <<>> /\ order = <<>> /\ reply = <<>> /\ Len(begun) = 0 /\ Len(order) = 0
  BY DEF Init
<1>2. Blank \in [name : Call \cup {NoCall}, args : Seq(Fragment)]
  <2>1. <<>> \in Seq(Fragment)
    BY EmptySeq
  <2> QED
    BY <2>1 DEF Blank
<1>3. begun \in Seq(Call) /\ order \in Seq(Key)
      /\ reply \in Seq([name : Call \cup {NoCall}, json : BOOLEAN, args : Seq(Fragment)])
  BY <1>1, EmptySeq
<1>4. /\ key \in [Call -> Key] /\ sent \in [Call -> 0..MaxFrags]
      /\ texts \in 0..MaxTexts /\ Len(order) <= NCalls
  BY <1>1, BoundsAssumption DEF Init, Key
<1>5. TypeOK
  BY <1>2, <1>3, <1>4 DEF Init, TypeOK
<1>6. RegistryInv /\ KeyInv /\ ShownIsReply
  BY <1>1 DEF RegistryInv, KeyInv, ShownIsReply
<1>7. UnsentInv /\ AccInv
  BY <1>1 DEF Init, UnsentInv, AccInv
<1>8. ShownInv
  BY <1>1 DEF Init, ShownInv
<1>9. ReplyFaithful
  BY DEF Init, ReplyFaithful
<1> QED
  BY <1>5, <1>6, <1>7, <1>8, <1>9 DEF Inv, StreamInv

\* The invariant holds in every reachable state.
LEMMA Always == Spec => []Inv
<1>1. Inv /\ [Next]_vars => Inv'
  <2> SUFFICES ASSUME Inv, [Next]_vars PROVE Inv'
    OBVIOUS
  <2>1. CASE \E c \in Call : ServerEvent(c)
    <3>1. PICK c \in Call : ServerEvent(c)
      BY <2>1
    <3>2. Open
      BY <3>1 DEF ServerEvent, OpenAiBegin, OpenAiArgs, AntStart, AntArgs, RespAdded, RespArgs,
         RespDone
    <3> QED
      BY <3>1, <3>2, EventStep DEF Inv
  <2>2. CASE Text
    BY <2>2, TextStep
  <2>3. CASE Finish
    BY <2>3, FinishStep
  <2>4. CASE FinishOutput
    BY <2>4, FinishOutputStep
  <2>5. CASE Break
    <3>1. /\ Open /\ result' = "error"
          /\ UNCHANGED <<api, begun, key, named, sent, closed, done, texts, order, acc, reply, shown>>
      BY <2>5 DEF Break, serverVars
    <3>2. TypeOK' /\ StreamInv'
      BY <3>1 DEF Inv, TypeOK, StreamInv, Open
    <3>3. ShownIsReply' /\ ReplyFaithful'
      BY <3>1 DEF Inv, ShownIsReply, ReplyFaithful
    <3> QED
      BY <3>2, <3>3 DEF Inv
  <2>6. CASE UNCHANGED vars
    <3>1. UNCHANGED <<api, begun, key, named, sent, closed, done, texts, order, acc, result,
                      reply, shown>>
      BY <2>6 DEF vars, serverVars
    <3>2. TypeOK' /\ ShownIsReply' /\ ReplyFaithful'
      BY <3>1 DEF Inv, TypeOK, ShownIsReply, ReplyFaithful
    <3>3. StreamInv'
      BY <3>1 DEF Inv, StreamInv, Open, RegistryInv, KeyInv, UnsentInv, AccInv, ShownInv, Held, Blank
    <3> QED
      BY <3>2, <3>3 DEF Inv
  <2> QED
    BY <2>1, <2>2, <2>3, <2>4, <2>5, <2>6 DEF Next
<1> QED
  BY <1>1, InitInv, PTL DEF Spec

-----------------------------------------------------------------------------
(* The results                                                             *)

\* The registry, the reply and what is shown keep their types; in particular the registry
\* never has more entries than there are calls.
THEOREM ReplyTyped == Spec => []TypeOK
<1>1. Inv => TypeOK
  BY DEF Inv
<1> QED
  BY <1>1, Always, PTL

\* However the server interleaves its events and wherever the stream ends, the reply has
\* the calls of the model in order, each with its own name and exactly its own arguments,
\* and arguments that were cut off are marked.
THEOREM ReplyIsFaithful == Spec => []ReplyFaithful
<1>1. Inv => ReplyFaithful
  BY DEF Inv
<1> QED
  BY <1>1, Always, PTL

\* A consumer of openai or anthropic that buckets the deltas by Index has, at every moment,
\* the name and the arguments received so far under the place of each call.
THEOREM ShownAsReceived == Spec => []ShownIsReply
<1>1. Inv => ShownIsReply
  BY DEF Inv
<1> QED
  BY <1>1, Always, PTL

=============================================================================
