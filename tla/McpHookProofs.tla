--------------------------- MODULE McpHookProofs ---------------------------
(***************************************************************************)
(* Proofs about what the mcp hook stands on: the pool of connections and   *)
(* the decision router that its requests for authorisation wait in.        *)
(*                                                                         *)
(* McpRouter, for any set of servers, any number of calls and of           *)
(* connections: each connection has one owner until it is closed, is       *)
(* closed once, and serves only the server it was dialled for.             *)
(* AwaitRouter, for any set of waiting calls and any number of decisions:  *)
(* no decision reaches the wrong call, and none is lost between the        *)
(* channel and its owner.                                                  *)
(***************************************************************************)
EXTENDS McpRouter, AwaitRouter, TLAPS

-----------------------------------------------------------------------------
(* The pool                                                                *)

\* What Append does to the record of dialled connections.
LEMMA DialAppends ==
  ASSUME NEW S, NEW q \in Seq(S), NEW e \in S
  PROVE  /\ Append(q, e) \in Seq(S)
         /\ Len(Append(q, e)) = Len(q) + 1
         /\ \A i \in 1 .. Len(q) : Append(q, e)[i] = q[i]
         /\ Append(q, e)[Len(q) + 1] = e
         /\ Len(q) \in Nat
  OBVIOUS

\* What a failed operation leaves of the call's own state.
LEMMA FailedTyping ==
  ASSUME TypeOK, NEW p \in Callers, Failed(p)
  PROVE  /\ pc' \in [Callers -> Labels]
         /\ asked' \in [Callers -> 0 .. 1]
<1>1. CASE asked[p] = 0 /\ asked' = [asked EXCEPT ![p] = 1] /\ Goto(p, "await")
  BY <1>1 DEF TypeOK, Goto, Labels
<1>2. CASE Goto(p, "done") /\ UNCHANGED asked
  BY <1>2 DEF TypeOK, Goto, Labels
<1>3. QED
  BY <1>1, <1>2 DEF Failed, HookFailed, HostFailed

\* The step lemma of the type invariant, one case per action.
LEMMA TypingStep == TypeOK /\ [Next]_vars => TypeOK'
<1> SUFFICES ASSUME TypeOK, [Next]_vars
             PROVE  TypeOK'
  OBVIOUS
<1> USE PoolAssumption DEF TypeOK, Labels, Conns, NoConn, poolVars, Goto
<1>0. Len(madeFor) \in Nat
  OBVIOUS
<1>1. ASSUME NEW p \in Callers, Check(p)
      PROVE  TypeOK'
  BY <1>1 DEF Check, Allowed
<1>2. ASSUME NEW p \in Callers, Lookup(p)
      PROVE  TypeOK'
  BY <1>2 DEF Lookup
<1>3. ASSUME NEW p \in Callers, Dial(p)
      PROVE  TypeOK'
  <2>1. /\ madeFor' \in Seq(Servers)
        /\ Len(madeFor') = Len(madeFor) + 1
    BY <1>3, DialAppends DEF Dial
  <2>2. /\ Len(madeFor') <= MaxDials
        /\ 0 .. Len(madeFor) \subseteq 0 .. Len(madeFor')
        /\ 1 .. Len(madeFor) \subseteq 1 .. Len(madeFor')
        /\ Len(madeFor) + 1 \in 0 .. Len(madeFor')
    BY <1>0, <1>3, <2>1 DEF Dial
  <2>3. QED
    BY <1>3, <2>1, <2>2 DEF Dial
<1>4. ASSUME NEW p \in Callers, DialFails(p)
      PROVE  TypeOK'
  BY <1>4, FailedTyping DEF DialFails
<1>5. ASSUME NEW p \in Callers, Install(p)
      PROVE  TypeOK'
  <2>1. clients[srv[p]] \in 0 .. Len(madeFor) /\ conn[p] \in 0 .. Len(madeFor)
    OBVIOUS
  <2>2. CASE clients[srv[p]] # 0
    BY <1>5, <2>1, <2>2 DEF Install
  <2>3. CASE clients[srv[p]] = 0
    BY <1>5, <2>1, <2>3 DEF Install
  <2>4. QED
    BY <2>2, <2>3
<1>6. ASSUME NEW p \in Callers, Discard(p)
      PROVE  TypeOK'
  <2>1. \A c \in 1 .. MaxDials : closed[c] + 1 \in Nat
    OBVIOUS
  <2>2. closed' \in [1 .. MaxDials -> Nat]
    BY <1>6, <2>1 DEF Discard
  <2>3. spare' \in [Callers -> 0 .. Len(madeFor)]
    BY <1>0, <1>6 DEF Discard
  <2>4. pc' \in [Callers -> Labels]
    BY <1>6 DEF Discard
  <2>5. UNCHANGED <<configured, clients, closing, madeFor, act, srv, conn, asked>>
    BY <1>6 DEF Discard
  <2>6. QED
    BY <2>2, <2>3, <2>4, <2>5
<1>7. ASSUME NEW p \in Callers, Use(p)
      PROVE  TypeOK'
  BY <1>0, <1>7 DEF Use
<1>8. ASSUME NEW p \in Callers, UseFails(p)
      PROVE  TypeOK'
  BY <1>0, <1>8, FailedTyping DEF UseFails
<1>9. ASSUME NEW p \in Callers, HandshakeFails(p)
      PROVE  TypeOK'
  <2>1. \A c \in 1 .. MaxDials : closed[c] + 1 \in Nat
    OBVIOUS
  <2>2. closed' \in [1 .. MaxDials -> Nat]
    BY <1>9, <2>1 DEF HandshakeFails
  <2>3. conn' \in [Callers -> 0 .. Len(madeFor)]
    BY <1>0, <1>9 DEF HandshakeFails
  <2>4. pc' \in [Callers -> Labels] /\ asked' \in [Callers -> 0 .. 1]
    BY <1>9, FailedTyping DEF HandshakeFails
  <2>5. UNCHANGED <<configured, clients, closing, madeFor, act, srv, spare>>
    BY <1>9 DEF HandshakeFails
  <2>6. QED
    BY <2>2, <2>3, <2>4, <2>5
<1>9a. ASSUME NEW p \in Callers, Handshake(p) \/ Granted(p) \/ Denied(p)
       PROVE  TypeOK'
  <2>1. Entry(act[p]) \in Labels
    BY DEF Entry
  <2>2. QED
    BY <1>9a, <2>1 DEF Handshake, Granted, Denied
<1>10. \A S \in SUBSET Servers : /\ Live(S) \subseteq 1 .. Len(madeFor)
                                 /\ Without(S) \in [Servers -> 0 .. Len(madeFor)]
  BY <1>0 DEF Live, Without
<1>11. ASSUME NEW new \in SUBSET Servers, ReplaceServers(new)
       PROVE  TypeOK'
  BY <1>10, <1>11 DEF ReplaceServers
<1>12. ASSUME NEW s \in Servers, Drop(s)
       PROVE  TypeOK'
  <2>1. {s} \in SUBSET Servers
    OBVIOUS
  <2>2. QED
    BY <1>10, <1>12, <2>1 DEF Drop
<1>13. ASSUME NEW c \in Conns, CloseDropped(c)
       PROVE  TypeOK'
  <2>1. closed[c] + 1 \in Nat
    OBVIOUS
  <2>2. QED
    BY <1>13, <2>1 DEF CloseDropped
<1>14. CASE Close
  <2>1. \A c \in Conns : closed[c] + 1 \in Nat
    OBVIOUS
  <2>2. closed' \in [Conns -> Nat]
    BY <1>14, <2>1 DEF Close
  <2>3. QED
    BY <1>10, <1>14, <2>2 DEF Close
<1>15. CASE UNCHANGED vars
  BY <1>15 DEF vars
<1>16. QED
  BY <1>1, <1>2, <1>3, <1>4, <1>5, <1>6, <1>7, <1>8, <1>9, <1>11, <1>12,
     <1>13, <1>14, <1>15, <1>9a DEF Next, Call, Pool

\* Every variable of the pool always holds a value of its kind; in particular
\* runWithAuth (hook.go) asks for authorisation at most once per call.
THEOREM PoolTyping == Spec => []TypeOK
<1>1. Init => TypeOK
  <2> SUFFICES ASSUME Init
               PROVE  TypeOK
    OBVIOUS
  <2>1. madeFor \in Seq(Servers) /\ Len(madeFor) = 0
    BY DEF Init
  <2>2. QED
    BY <2>1, PoolAssumption DEF Init, TypeOK, Labels, Conns, NoConn, Entry, Acts, HostActs
<1>2. QED
  BY <1>1, TypingStep, PTL DEF Spec

\* The invariant survives a step that touches no connection: no call takes one
\* in hand or lets go of one, and a call uses only what it used or the pool has.
LEMMA QuietStep ==
  ASSUME PoolInv,
         UNCHANGED <<clients, closing, closed, madeFor>>,
         \A q \in Callers, c \in Dialled : InHand(q, c)' <=> InHand(q, c),
         \A q \in Callers, c \in Dialled : InUse(q, c)' => InUse(q, c) \/ Pooled(c),
         RightServer'
  PROVE  PoolInv'
<1>1. Dialled' = Dialled
  BY DEF Dialled
<1>2. \A c : Pooled(c)' <=> Pooled(c)
  BY DEF Pooled
<1>3. NoConnectionLost'
  BY <1>1, <1>2 DEF PoolInv, NoConnectionLost
<1>4. SingleOwner'
  BY <1>1, <1>2 DEF PoolInv, SingleOwner
<1>5. QED
  BY <1>1, <1>3, <1>4 DEF PoolInv

\* The step lemma of the pool's invariant.
LEMMA PoolStep == TypeOK /\ TypeOK' /\ PoolInv /\ [Next]_vars => PoolInv'
<1> SUFFICES ASSUME TypeOK, TypeOK', PoolInv, [Next]_vars
             PROVE  PoolInv'
  OBVIOUS
<1> USE DEF Goto
<1>0. Len(madeFor) \in Nat /\ PoolInv
  BY DEF TypeOK
<1>1. ASSUME NEW p \in Callers,
             Check(p) \/ Lookup(p) \/ DialFails(p) \/ Use(p) \/ UseFails(p)
               \/ Granted(p) \/ Denied(p)
      PROVE  PoolInv'
  <2> USE DEF Check, Allowed, Lookup, DialFails, Use, UseFails, Failed, HookFailed, HostFailed,
              Granted, Denied, Entry
  <2>1. UNCHANGED <<clients, closing, closed, madeFor, srv, spare>>
    BY <1>1 DEF poolVars
  <2>2. \A q \in Callers \ {p} : pc'[q] = pc[q] /\ conn'[q] = conn[q]
    BY <1>1 DEF TypeOK
  <2>3. /\ pc[p] \notin {"handshake", "install", "discard"}
        /\ pc'[p] \notin {"handshake", "install", "discard"}
        /\ pc'[p] = "use" => /\ conn'[p] = clients[srv[p]]
                             /\ clients[srv[p]] # NoConn
    BY <1>1 DEF TypeOK, Labels
  <2>4. \A q \in Callers, c \in Dialled : InHand(q, c)' <=> InHand(q, c)
    BY <2>1, <2>2, <2>3 DEF InHand
  <2>5. \A q \in Callers, c \in Dialled : InUse(q, c)' => InUse(q, c) \/ Pooled(c)
    BY <2>1, <2>2, <2>3 DEF InUse, Pooled, TypeOK
  <2>6. RightServer'
    BY <2>1, <2>2, <2>3 DEF PoolInv, RightServer, TypeOK
  <2>7. QED
    BY <2>1, <2>4, <2>5, <2>6, QuietStep
<1>2. ASSUME NEW p \in Callers, Dial(p)
      PROVE  PoolInv'
  <2>0. PICK n \in Conns : n = Len(madeFor) + 1
    BY <1>0, <1>2, PoolAssumption DEF Dial, Conns
  <2>1. /\ Dialled' = Dialled \cup {n}
        /\ n \notin Dialled
        /\ \A c \in Dialled : madeFor'[c] = madeFor[c]
        /\ madeFor'[n] = srv[p]
        /\ n \notin 0 .. Len(madeFor)
    BY <1>0, <1>2, <2>0, DialAppends DEF Dial, TypeOK, Dialled
  <2>2. /\ UNCHANGED <<clients, closing, closed, srv, spare>>
        /\ pc[p] = "dial"
        /\ pc' = [pc EXCEPT ![p] = "handshake"]
        /\ conn' = [conn EXCEPT ![p] = n]
        /\ n # NoConn
    BY <1>0, <1>2, <2>0 DEF Dial, poolVars, NoConn
  <2>11. /\ \A q \in Callers \ {p} : pc'[q] = pc[q] /\ conn'[q] = conn[q]
         /\ pc'[p] = "handshake" /\ conn'[p] = n
    BY <2>2 DEF TypeOK
  <2>3. /\ \A s \in Servers : clients[s] # n
        /\ n \notin closing
        /\ closed[n] = 0
        /\ \A q \in Callers : conn[q] # n /\ spare[q] # n
    <3>1. n \notin 1 .. Len(madeFor)
      BY <2>1 DEF Dialled
    <3>2. closed[n] = 0
      BY <1>0, <2>1 DEF PoolInv
    <3>3. closing \subseteq 1 .. Len(madeFor)
      BY DEF TypeOK
    <3>4. \A s \in Servers : clients[s] \in 0 .. Len(madeFor)
      BY DEF TypeOK
    <3>5. \A q \in Callers : conn[q] \in 0 .. Len(madeFor) /\ spare[q] \in 0 .. Len(madeFor)
      BY DEF TypeOK
    <3>6. QED
      BY <2>1, <3>1, <3>2, <3>3, <3>4, <3>5
  <2>4. \A c : Pooled(c)' <=> Pooled(c)
    BY <2>2 DEF Pooled
  <2>5. /\ \A q \in Callers, c \in Dialled : InHand(q, c)' <=> InHand(q, c)
        /\ \A q \in Callers : InHand(q, n)' <=> q = p
        /\ \A q \in Callers, c \in Dialled : InUse(q, c)' => InUse(q, c)
        /\ \A q \in Callers : ~ InUse(q, n)'
    BY <2>1, <2>2, <2>3, <2>11 DEF InHand, InUse
  <2>6. ~ Pooled(n)
    BY <2>3 DEF Pooled
  <2>7. RightServer'
    <3>1. \A s \in Servers : clients[s] # NoConn => clients[s] \in Dialled
      BY <1>0 DEF TypeOK, Dialled, NoConn
    <3>2. \A q \in Callers : conn[q] # NoConn => conn[q] \in Dialled
      BY <1>0 DEF TypeOK, Dialled, NoConn
    <3>3. \A s \in Servers : clients'[s] # NoConn => madeFor'[clients'[s]] = s
      BY <1>0, <2>1, <2>2, <3>1 DEF PoolInv, RightServer
    <3>4. ASSUME NEW q \in Callers, pc'[q] \in {"handshake", "install", "discard", "use"}
          PROVE  conn'[q] # NoConn /\ madeFor'[conn'[q]] = srv'[q]
      <4>1. CASE q = p
        BY <2>1, <2>2, <2>11, <4>1
      <4>2. CASE q # p
        BY <1>0, <2>1, <2>2, <2>11, <3>2, <3>4, <4>2 DEF PoolInv, RightServer
      <4>3. QED
        BY <4>1, <4>2
    <3>5. \A q \in Callers : pc'[q] = "discard" => spare'[q] # NoConn
      BY <1>0, <2>2, <2>11 DEF PoolInv, RightServer
    <3>6. QED
      BY <3>3, <3>4, <3>5 DEF RightServer
  <2>8. NoConnectionLost'
    BY <1>0, <2>1, <2>2, <2>4, <2>5 DEF PoolInv, NoConnectionLost
  <2>9. SingleOwner'
    BY <1>0, <2>1, <2>2, <2>3, <2>4, <2>5, <2>6 DEF PoolInv, SingleOwner
  <2>10. QED
    BY <1>0, <2>1, <2>2, <2>7, <2>8, <2>9 DEF PoolInv
<1>2a. ASSUME NEW p \in Callers, Handshake(p)
       PROVE  PoolInv'
  <2>1. /\ UNCHANGED <<clients, closing, closed, madeFor, srv, spare, conn>>
        /\ pc[p] = "handshake"
        /\ pc' = [pc EXCEPT ![p] = "install"]
    BY <1>2a DEF Handshake, poolVars
  <2>2. pc'[p] = "install" /\ \A q \in Callers \ {p} : pc'[q] = pc[q]
    BY <2>1 DEF TypeOK
  <2>3. \A q \in Callers, c \in Dialled : InHand(q, c)' <=> InHand(q, c)
    BY <2>1, <2>2 DEF InHand
  <2>4. \A q \in Callers, c \in Dialled : InUse(q, c)' => InUse(q, c) \/ Pooled(c)
    BY <2>1, <2>2 DEF InUse
  <2>5. RightServer'
    BY <1>0, <2>1, <2>2 DEF PoolInv, RightServer
  <2>6. QED
    BY <1>0, <2>1, <2>3, <2>4, <2>5, QuietStep
<1>2b. ASSUME NEW p \in Callers, HandshakeFails(p)
       PROVE  PoolInv'
  <2>1. /\ UNCHANGED <<clients, closing, madeFor, srv, spare>>
        /\ pc[p] = "handshake"
        /\ closed' = [closed EXCEPT ![conn[p]] = @ + 1]
        /\ conn' = [conn EXCEPT ![p] = NoConn]
    BY <1>2b DEF HandshakeFails, poolVars
  <2>2. Dialled' = Dialled /\ Dialled \subseteq Conns
    BY <1>0, <2>1, PoolAssumption DEF Dialled, Conns, TypeOK
  <2>3. /\ conn[p] \in Dialled
        /\ InHand(p, conn[p])
        /\ closed[conn[p]] = 0
    BY <1>0, <2>1 DEF PoolInv, RightServer, SingleOwner, TypeOK, Dialled, NoConn, InHand
  <2>4. /\ closed'[conn[p]] = 1
        /\ \A c \in Conns : c # conn[p] => closed'[c] = closed[c]
    BY <2>1, <2>2, <2>3 DEF TypeOK
  <2>5. /\ pc'[p] \in {"await", "done"}
        /\ \A q \in Callers \ {p} : pc'[q] = pc[q] /\ conn'[q] = conn[q]
    BY <1>2b, <2>1 DEF HandshakeFails, Failed, HookFailed, HostFailed, TypeOK
  <2>6. /\ \A q \in Callers, c \in Dialled : InHand(q, c)' <=> InHand(q, c) /\ q # p
        /\ \A c \in Dialled : InHand(p, c) => c = conn[p]
        /\ \A q \in Callers, c \in Dialled : InUse(q, c)' <=> InUse(q, c)
    BY <2>1, <2>5 DEF InHand, InUse
  <2>7. \A c : Pooled(c)' <=> Pooled(c)
    BY <2>1 DEF Pooled
  <2>8. RightServer'
    BY <1>0, <2>1, <2>5 DEF PoolInv, RightServer
  <2>9. NoConnectionLost'
    BY <1>0, <2>1, <2>2, <2>4, <2>6, <2>7 DEF PoolInv, NoConnectionLost
  <2>10. SingleOwner'
    BY <1>0, <2>1, <2>2, <2>3, <2>4, <2>6, <2>7 DEF PoolInv, SingleOwner
  <2>11. QED
    BY <1>0, <2>1, <2>2, <2>3, <2>4, <2>8, <2>9, <2>10 DEF PoolInv
<1>3. ASSUME NEW p \in Callers, Install(p), clients[srv[p]] # NoConn
      PROVE  PoolInv'
  \* The connection in p's hand stays there; p will use a pooled one.
  <2>1. /\ UNCHANGED <<clients, closing, closed, madeFor, srv>>
        /\ pc[p] = "install"
        /\ pc' = [pc EXCEPT ![p] = "discard"]
        /\ spare' = [spare EXCEPT ![p] = conn[p]]
        /\ conn' = [conn EXCEPT ![p] = clients[srv[p]]]
    BY <1>3 DEF Install, poolVars
  <2>2. \A q \in Callers, c \in Dialled : InHand(q, c)' <=> InHand(q, c)
    BY <2>1 DEF InHand, TypeOK
  <2>3. \A q \in Callers, c \in Dialled : InUse(q, c)' => InUse(q, c) \/ Pooled(c)
    BY <2>1 DEF InUse, Pooled, TypeOK
  <2>4. RightServer'
    BY <1>0, <1>3, <2>1 DEF PoolInv, RightServer, TypeOK
  <2>5. QED
    BY <1>0, <2>1, <2>2, <2>3, <2>4, QuietStep
<1>4. ASSUME NEW p \in Callers, Install(p), clients[srv[p]] = NoConn
      PROVE  PoolInv'
  <2>1. /\ UNCHANGED <<closing, closed, madeFor, srv, spare, conn>>
        /\ pc[p] = "install"
        /\ pc' = [pc EXCEPT ![p] = "use"]
        /\ clients' = [clients EXCEPT ![srv[p]] = conn[p]]
    BY <1>4 DEF Install
  <2>2. Dialled' = Dialled
    BY <2>1 DEF Dialled
  <2>3. /\ conn[p] \in Dialled
        /\ madeFor[conn[p]] = srv[p]
        /\ InHand(p, conn[p])
    BY <1>0, <2>1 DEF PoolInv, RightServer, TypeOK, Dialled, NoConn, InHand
  <2>4. \A c \in Dialled : Pooled(c)' <=> Pooled(c) \/ c = conn[p]
    BY <1>4, <2>1 DEF Pooled, TypeOK, Dialled, NoConn
  <2>10. pc'[p] = "use" /\ \A q \in Callers \ {p} : pc'[q] = pc[q]
    BY <2>1 DEF TypeOK
  <2>5. /\ \A q \in Callers, c \in Dialled : InHand(q, c)' <=> InHand(q, c) /\ q # p
        /\ \A c \in Dialled : InHand(p, c) => c = conn[p]
        /\ \A q \in Callers, c \in Dialled :
             InUse(q, c)' => InUse(q, c) \/ (q = p /\ c = conn[p])
    BY <2>1, <2>10 DEF InHand, InUse
  <2>6. RightServer'
    BY <1>0, <2>1, <2>3 DEF PoolInv, RightServer, TypeOK
  <2>7. NoConnectionLost'
    BY <1>0, <2>1, <2>2, <2>4, <2>5 DEF PoolInv, NoConnectionLost
  <2>8. SingleOwner'
    BY <1>0, <2>1, <2>2, <2>3, <2>4, <2>5 DEF PoolInv, SingleOwner
  <2>9. QED
    BY <1>0, <2>1, <2>2, <2>6, <2>7, <2>8 DEF PoolInv
<1>5. ASSUME NEW p \in Callers, Discard(p)
      PROVE  PoolInv'
  <2>1. /\ UNCHANGED <<clients, closing, madeFor, srv, conn>>
        /\ pc[p] = "discard"
        /\ pc' = [pc EXCEPT ![p] = "use"]
        /\ closed' = [closed EXCEPT ![spare[p]] = @ + 1]
        /\ spare' = [spare EXCEPT ![p] = NoConn]
    BY <1>5 DEF Discard, poolVars
  <2>2. Dialled' = Dialled /\ Dialled \subseteq Conns
    BY <1>0, <2>1, PoolAssumption DEF Dialled, Conns, TypeOK
  <2>3. /\ spare[p] \in Dialled
        /\ InHand(p, spare[p])
        /\ closed[spare[p]] = 0
    BY <1>0, <2>1 DEF PoolInv, RightServer, SingleOwner, TypeOK, Dialled, NoConn, InHand
  <2>4. /\ closed'[spare[p]] = 1
        /\ \A c \in Conns : c # spare[p] => closed'[c] = closed[c]
    BY <2>1, <2>2, <2>3 DEF TypeOK
  <2>5. /\ \A q \in Callers, c \in Dialled : InHand(q, c)' <=> InHand(q, c) /\ q # p
        /\ \A c \in Dialled : InHand(p, c) => c = spare[p]
        /\ \A q \in Callers, c \in Dialled : InUse(q, c)' <=> InUse(q, c)
    BY <2>1 DEF InHand, InUse, TypeOK
  <2>6. \A c : Pooled(c)' <=> Pooled(c)
    BY <2>1 DEF Pooled
  <2>7. RightServer'
    BY <1>0, <2>1 DEF PoolInv, RightServer, TypeOK
  <2>8. NoConnectionLost'
    BY <1>0, <2>1, <2>2, <2>4, <2>5, <2>6 DEF PoolInv, NoConnectionLost
  <2>9. SingleOwner'
    BY <1>0, <2>1, <2>2, <2>3, <2>4, <2>5, <2>6 DEF PoolInv, SingleOwner
  <2>10. QED
    BY <1>0, <2>1, <2>2, <2>3, <2>4, <2>7, <2>8, <2>9 DEF PoolInv
<1>6. ASSUME NEW S \in SUBSET Servers,
             clients' = Without(S),
             closing' = closing \cup Live(S),
             UNCHANGED <<madeFor, closed, pc, act, srv, conn, spare, asked>>
      PROVE  PoolInv'
  \* The connections of S move from the pool to those waiting to be closed.
  <2>1. Dialled' = Dialled
    BY <1>6 DEF Dialled
  <2>2. \A c \in Dialled : Pooled(c)' <=> \E s \in Servers \ S : clients[s] = c
    BY <1>6 DEF Pooled, Without, TypeOK, Dialled, NoConn
  <2>3. \A c \in Dialled : c \in Live(S) <=> \E s \in S : clients[s] = c
    BY <1>6 DEF Live, TypeOK, Dialled, NoConn
  <2>4. \A c \in Dialled : Pooled(c) <=> Pooled(c)' \/ c \in Live(S)
    BY <2>2, <2>3 DEF Pooled
  <2>5. \A s, t \in Servers : clients[s] # NoConn /\ clients[s] = clients[t] => s = t
    BY <1>0 DEF PoolInv, RightServer
  <2>6. \A c \in Dialled : ~ (Pooled(c)' /\ c \in Live(S))
    BY <2>2, <2>3, <2>5 DEF Dialled, NoConn
  <2>7. \A q \in Callers, c \in Dialled : /\ InHand(q, c)' <=> InHand(q, c)
                                          /\ InUse(q, c)' <=> InUse(q, c)
    BY <1>6 DEF InHand, InUse
  <2>8. RightServer'
    BY <1>0, <1>6 DEF PoolInv, RightServer, Without, TypeOK
  <2>9. NoConnectionLost'
    BY <1>0, <1>6, <2>1, <2>4, <2>7 DEF PoolInv, NoConnectionLost
  <2>10. SingleOwner'
    BY <1>0, <1>6, <2>1, <2>4, <2>6, <2>7 DEF PoolInv, SingleOwner
  <2>11. QED
    BY <1>0, <1>6, <2>1, <2>8, <2>9, <2>10 DEF PoolInv
<1>7. ASSUME NEW d \in Conns, CloseDropped(d)
      PROVE  PoolInv'
  <2>1. /\ UNCHANGED <<clients, madeFor, pc, srv, conn, spare>>
        /\ d \in closing
        /\ closing' = closing \ {d}
        /\ closed' = [closed EXCEPT ![d] = @ + 1]
    BY <1>7 DEF CloseDropped
  <2>2. Dialled' = Dialled /\ Dialled \subseteq Conns /\ d \in Dialled
    BY <1>0, <2>1, PoolAssumption DEF Dialled, Conns, TypeOK
  <2>3. closed'[d] = 1 /\ \A c \in Conns : c # d => closed'[c] = closed[c]
    BY <1>0, <2>1, <2>2 DEF TypeOK, PoolInv, SingleOwner
  <2>4. \A c : Pooled(c)' <=> Pooled(c)
    BY <2>1 DEF Pooled
  <2>5. \A q \in Callers, c \in Dialled : /\ InHand(q, c)' <=> InHand(q, c)
                                          /\ InUse(q, c)' <=> InUse(q, c)
    BY <2>1 DEF InHand, InUse
  <2>6. RightServer'
    BY <1>0, <2>1 DEF PoolInv, RightServer
  <2>7. NoConnectionLost'
    BY <1>0, <2>1, <2>2, <2>3, <2>4, <2>5 DEF PoolInv, NoConnectionLost
  <2>8. SingleOwner'
    BY <1>0, <2>1, <2>2, <2>3, <2>4, <2>5 DEF PoolInv, SingleOwner
  <2>9. QED
    BY <1>0, <2>2, <2>3, <2>6, <2>7, <2>8 DEF PoolInv
<1>8. CASE Close
  <2>1. /\ UNCHANGED <<closing, madeFor, pc, srv, conn, spare>>
        /\ clients' = [s \in Servers |-> NoConn]
    BY <1>8 DEF Close, Without
  <2>2. Dialled' = Dialled /\ Dialled \subseteq Conns
    BY <1>0, <2>1, PoolAssumption DEF Dialled, Conns, TypeOK
  <2>3. \A c \in Dialled : ~ Pooled(c)'
    BY <2>1 DEF Pooled, Dialled, NoConn
  <2>4. \A c \in Dialled : c \in Live(Servers) <=> Pooled(c)
    BY DEF Live, Pooled, Dialled, NoConn
  <2>5. \A c \in Dialled : closed'[c] = IF Pooled(c) THEN closed[c] + 1 ELSE closed[c]
    BY <1>8, <2>2, <2>4 DEF Close
  <2>6. Live(Servers) \subseteq Dialled
    BY <1>0 DEF Live, TypeOK, Dialled, NoConn
  <2>7. \A c \in Conns \ Dialled : closed'[c] = closed[c]
    BY <1>8, <2>6 DEF Close
  <2>8. \A q \in Callers, c \in Dialled : /\ InHand(q, c)' <=> InHand(q, c)
                                          /\ InUse(q, c)' <=> InUse(q, c)
    BY <2>1 DEF InHand, InUse
  <2>9. \A c \in Dialled : closed[c] \in Nat
    BY <2>2 DEF TypeOK
  <2>10. RightServer'
    BY <1>0, <2>1 DEF PoolInv, RightServer
  <2>11. NoConnectionLost'
    BY <1>0, <2>1, <2>2, <2>3, <2>5, <2>8, <2>9 DEF PoolInv, NoConnectionLost
  <2>12. SingleOwner'
    BY <1>0, <2>1, <2>2, <2>3, <2>5, <2>8, <2>9 DEF PoolInv, SingleOwner
  <2>13. QED
    BY <1>0, <2>2, <2>7, <2>10, <2>11, <2>12 DEF PoolInv
<1>9. CASE UNCHANGED vars
  <2>1. UNCHANGED <<clients, closing, closed, madeFor, pc, srv, conn, spare>>
    BY <1>9 DEF vars, poolVars
  <2>2. \A q \in Callers, c \in Dialled : /\ InHand(q, c)' <=> InHand(q, c)
                                          /\ InUse(q, c)' <=> InUse(q, c)
    BY <2>1 DEF InHand, InUse
  <2>3. RightServer'
    BY <1>0, <2>1 DEF PoolInv, RightServer
  <2>4. QED
    BY <1>0, <2>1, <2>2, <2>3, QuietStep
<1>10. ASSUME NEW new \in SUBSET Servers, ReplaceServers(new)
       PROVE  PoolInv'
  BY <1>6, <1>10 DEF ReplaceServers
<1>11. ASSUME NEW s \in Servers, Drop(s)
       PROVE  PoolInv'
  <2>1. {s} \in SUBSET Servers
    OBVIOUS
  <2>2. QED
    BY <1>6, <1>11, <2>1 DEF Drop
<1>12. QED
  BY <1>1, <1>2, <1>2a, <1>2b, <1>3, <1>4, <1>5, <1>7, <1>8, <1>9, <1>10, <1>11
     DEF Next, Call, Pool

\* The inductive invariant: where a connection is follows from who has it.  It
\* needs RightServer, without which evicting one server could take away a
\* connection that another one still has in the pool.
THEOREM PoolInvariant == Spec => []PoolInv
<1>1. Init => PoolInv
  <2> SUFFICES ASSUME Init
               PROVE  PoolInv
    OBVIOUS
  <2>1. Dialled = {}
    BY DEF Init, Dialled
  <2>2. \A p \in Callers : pc[p] \in {"check", "lookup"}
    BY DEF Init, Entry
  <2>3. RightServer
    BY <2>2 DEF Init, RightServer
  <2>4. QED
    BY <2>1, <2>3 DEF Init, PoolInv, SingleOwner, NoConnectionLost
<1>2. QED
  BY <1>1, PoolTyping, PoolStep, PTL DEF Spec

\* client(), ReplaceServers, Drop and Close leak no connection, whatever the
\* order in which calls of any number dial, lose the race and give up.
THEOREM PoolKeepsConnections == Spec => []NoConnectionLost
<1>1. PoolInv => NoConnectionLost
  BY DEF PoolInv
<1>2. QED
  BY <1>1, PoolInvariant, PTL

\* No connection is closed twice, and none that is pooled has been closed.
THEOREM PoolSingleOwner == Spec => []SingleOwner
<1>1. PoolInv => SingleOwner
  BY DEF PoolInv
<1>2. QED
  BY <1>1, PoolInvariant, PTL

\* A call talks to the server it names, also after reloads and retries.
THEOREM PoolRightServer == Spec => []RightServer
<1>1. PoolInv => RightServer
  BY DEF PoolInv
<1>2. QED
  BY <1>1, PoolInvariant, PTL

-----------------------------------------------------------------------------
(* The decision router                                                     *)

\* The step lemma of the type invariant, one case per action of a waiter.
LEMMA AwaitTypingStep == AwaitTypeOK /\ [AwaitNext]_awaitVars => AwaitTypeOK'
<1> SUFFICES ASSUME AwaitTypeOK, [AwaitNext]_awaitVars
             PROVE  AwaitTypeOK'
  OBVIOUS
<1> USE DEF AwaitTypeOK, Keys
<1>1. ASSUME NEW w \in Waiters, Ask(w)
      PROVE  AwaitTypeOK'
  BY <1>1 DEF Ask
<1>2. ASSUME NEW w \in Waiters, Take(w)
      PROVE  AwaitTypeOK'
  BY <1>2 DEF Take
<1>3. ASSUME NEW w \in Waiters, Bind(w)
      PROVE  AwaitTypeOK'
  BY <1>3 DEF Bind
<1>4. ASSUME NEW w \in Waiters, NEW k \in Keys, Receive(w, k)
      PROVE  AwaitTypeOK'
  <2>1. received[k] + 1 \in Nat
    OBVIOUS
  <2>2. received' \in [Keys -> Nat]
    BY <1>4, <2>1 DEF Receive
  <2>3. CASE k \in {w, Anyone}
    BY <1>4, <2>2, <2>3 DEF Receive
  <2>4. CASE k \in Waiters \ {w, Anyone}
    BY <1>4, <2>2, <2>4 DEF Receive
  <2>5. QED
    BY <2>3, <2>4
<1>5. ASSUME NEW w \in Waiters, Stash(w)
      PROVE  AwaitTypeOK'
  <2>1. gen + 1 \in Nat
    OBVIOUS
  <2>2. hold[w] \in Waiters
    BY <1>5 DEF Stash
  <2>3. QED
    BY <1>5, <2>1, <2>2 DEF Stash
<1>6. ASSUME NEW w \in Waiters, Woken(w) \/ GiveUp(w)
      PROVE  AwaitTypeOK'
  BY <1>6 DEF Woken, GiveUp
<1>7. ASSUME NEW w \in Waiters, Cancel(w)
      PROVE  AwaitTypeOK'
  BY <1>7 DEF Cancel
<1>8. CASE UNCHANGED awaitVars
  BY <1>8 DEF awaitVars
<1>9. QED
  BY <1>1, <1>2, <1>3, <1>4, <1>5, <1>6, <1>7, <1>8
     DEF AwaitNext, RouterStep, Terminated

\* Every variable of the router always holds a value of its kind; whoever is in
\* stash() (await.go) holds a decision that names another call.
THEOREM RouterTyping == AwaitSpec => []AwaitTypeOK
<1>1. AwaitInit => AwaitTypeOK
  BY DEF AwaitInit, AwaitTypeOK, Keys
<1>2. QED
  BY <1>1, AwaitTypingStep, PTL DEF AwaitSpec

\* The step lemma of the router's invariant.
LEMMA RoutingStep == AwaitTypeOK /\ AwaitTypeOK' /\ RouterInv /\ [AwaitNext]_awaitVars => RouterInv'
<1> SUFFICES ASSUME AwaitTypeOK, AwaitTypeOK', RouterInv, [AwaitNext]_awaitVars
             PROVE  RouterInv'
  OBVIOUS
<1> USE DEF AwaitTypeOK, RouterInv, NoMisroute, NoDecisionLost
<1>1. ASSUME NEW w \in Waiters, Ask(w)
      PROVE  RouterInv'
  BY <1>1 DEF Ask
<1>2. ASSUME NEW w \in Waiters, Take(w)
      PROVE  RouterInv'
  \* Either w has taken its own decision out of pend, or nothing has moved.
  <2>1. CASE w \in pend
    BY <1>2, <2>1 DEF Take
  <2>2. CASE w \notin pend
    BY <1>2, <2>2 DEF Take
  <2>3. QED
    BY <2>1, <2>2
<1>3. ASSUME NEW w \in Waiters, Bind(w)
      PROVE  RouterInv'
  BY <1>3 DEF Bind
<1>4. ASSUME NEW w \in Waiters, NEW k \in Keys, Receive(w, k)
      PROVE  RouterInv'
  <2>1. w # Anyone
    BY RouterAssumption
  <2>2. ASSUME NEW v \in Waiters, v # k
        PROVE  received'[v] = received[v]
    BY <1>4, <2>2 DEF Receive, Keys
  <2>3. CASE k \in {w, Anyone}
    <3>1. /\ place' = [place EXCEPT ![w] = "returned"]
          /\ got' = [got EXCEPT ![w] = k]
          /\ UNCHANGED <<hold, pend, bound, gen>>
          /\ place[w] = "select"
      BY <1>4, <2>3 DEF Receive
    <3>2. NoDecisionLost'
      <4> SUFFICES ASSUME NEW v \in Waiters, received'[v] > 0
                   PROVE  \/ got'[v] = v
                          \/ v \in pend'
                          \/ \E u \in Waiters : place'[u] = "stash" /\ hold'[u] = v
        OBVIOUS
      <4>1. CASE v = k
        BY <2>1, <2>3, <3>1, <4>1, RouterAssumption
      <4>2. CASE v # k
        <5>1. received[v] > 0
          BY <2>2, <4>2
        <5>2. got[w] = None /\ None # w
          BY <3>1, NoneIsNoKey DEF Keys
        <5>3. QED
          BY <3>1, <5>1, <5>2
      <4>3. QED
        BY <4>1, <4>2
    <3>3. QED
      BY <2>3, <3>1, <3>2
  <2>4. CASE k \notin {w, Anyone}
    <3>1. /\ place' = [place EXCEPT ![w] = "stash"]
          /\ hold' = [hold EXCEPT ![w] = k]
          /\ UNCHANGED <<got, pend, bound, gen>>
          /\ place[w] = "select"
      BY <1>4, <2>4 DEF Receive
    <3>2. NoDecisionLost'
      BY <2>2, <3>1
    <3>3. QED
      BY <3>1, <3>2
  <2>5. QED
    BY <2>3, <2>4
<1>5. ASSUME NEW w \in Waiters, Stash(w)
      PROVE  RouterInv'
  BY <1>5 DEF Stash
<1>6. ASSUME NEW w \in Waiters, Woken(w) \/ GiveUp(w)
      PROVE  RouterInv'
  BY <1>6 DEF Woken, GiveUp
<1>7. ASSUME NEW w \in Waiters, Cancel(w)
      PROVE  RouterInv'
  BY <1>7 DEF Cancel
<1>8. CASE UNCHANGED awaitVars
  BY <1>8 DEF awaitVars
<1>9. QED
  BY <1>1, <1>2, <1>3, <1>4, <1>5, <1>6, <1>7, <1>8
     DEF AwaitNext, RouterStep, Terminated

\* The inductive invariant of Await, take and stash.
THEOREM RouterInvariant == AwaitSpec => []RouterInv
<1>1. AwaitInit => RouterInv
  BY NoneIsNoKey DEF AwaitInit, RouterInv, NoMisroute, NoDecisionLost, Keys
<1>2. QED
  BY <1>1, RoutingStep, RouterTyping, PTL DEF AwaitSpec

\* A call never acts on a decision that names another call.
THEOREM RouterNoMisroute == AwaitSpec => []NoMisroute
<1>1. RouterInv => NoMisroute
  BY DEF RouterInv
<1>2. QED
  BY <1>1, RouterInvariant, PTL

\* A decision received from the shared channel stays with the router until its
\* owner has it.
THEOREM RouterNoDecisionLost == AwaitSpec => []NoDecisionLost
<1>1. RouterInv => NoDecisionLost
  BY DEF RouterInv
<1>2. QED
  BY <1>1, RouterInvariant, PTL

\* stash() closes the channel every waiter in the select is bound to.
THEOREM RouterStashWakesOwner == AwaitSpec => StashWakesOwner
<1>1. AwaitTypeOK /\ RouterInv /\ [AwaitNext]_awaitVars
      => [ \A w \in Waiters :
             place[w] = "select" /\ w \notin pend /\ w \in pend' => bound'[w] # gen' ]_awaitVars
  <2> SUFFICES ASSUME AwaitTypeOK, RouterInv, AwaitNext, NEW w \in Waiters,
                      place[w] = "select", w \notin pend, w \in pend'
               PROVE  bound'[w] # gen'
    BY DEF awaitVars
  <2>1. PICK v \in Waiters : Stash(v)
    BY DEF AwaitNext, RouterStep, Ask, Take, Bind, Receive, Woken, GiveUp, Cancel,
           Terminated, awaitVars
  <2>2. bound'[w] = bound[w] /\ gen' = gen + 1
    BY <2>1 DEF Stash
  <2>3. bound[w] <= gen /\ bound[w] \in Nat /\ gen \in Nat
    BY DEF AwaitTypeOK, RouterInv
  <2>4. QED
    BY <2>2, <2>3
<1>2. QED
  BY <1>1, RouterTyping, RouterInvariant, PTL DEF AwaitSpec, StashWakesOwner
=============================================================================
