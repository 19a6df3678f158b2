----------------------------- MODULE McpRouter -----------------------------
(***************************************************************************)
(* The connection pool behind the mcp_router tool (ext/hook/mcp): calls of *)
(* one batch, of forks and of concurrent Runs share one Router, connect to *)
(* a server when they first need it, and go through the authorisation      *)
(* round of the hook; so do calls of the host, without that round.         *)
(* Meanwhile the server list is reloaded, connections are dropped, and the *)
(* end hook of a Run closes the whole pool.                                *)
(*                                                                         *)
(* Every critical section of r.mu is one step.  The connection dialled     *)
(* n-th is the number n; what tells servers apart is only their name.      *)
(***************************************************************************)
EXTENDS Integers, Sequences

CONSTANTS
  Servers,   \* names that a server list may contain
  Callers,   \* calls: tool calls handled once by the hook, or calls of the host
  MaxDials   \* bound on the connections dialled

ASSUME PoolAssumption == MaxDials \in Nat

Conns == 1 .. MaxDials
NoConn == 0

\* What a call does: the two actions of the tool, or the host's ToolsWithAuth and
\* CallWithAuth.
HostActs == {"hostList", "hostCall"}
Acts     == {"list", "call"} \cup HostActs

VARIABLES
  configured, \* keys of r.servers
  clients,    \* clients[s]: the pooled connection of s, or NoConn
  madeFor,    \* madeFor[c]: the server connection c was dialled for
  closing,    \* connections taken out of the pool, their Close still to come
  closed,     \* closed[c]: how often Close was called on c
  pc,         \* pc[p]: where call p is
  act,        \* act[p]: which of Acts it is
  srv,        \* srv[p]: the server it names
  conn,       \* conn[p]: the connection p has dialled or uses
  spare,      \* spare[p]: a connection p has dialled in vain and will close
  asked       \* asked[p]: authorisation requests emitted for p

poolVars == <<configured, clients, closing>>
vars == <<poolVars, madeFor, closed, pc, act, srv, conn, spare, asked>>

\* callToolAuth checks the allow list first, also for the host.
Entry(a) == IF a \in {"call", "hostCall"} THEN "check" ELSE "lookup"

Init ==
  /\ configured \in SUBSET Servers
  /\ clients = [s \in Servers |-> NoConn]
  /\ madeFor = <<>>
  /\ closing = {}
  /\ closed = [c \in Conns |-> 0]
  /\ act \in [Callers -> Acts]
  /\ pc = [p \in Callers |-> Entry(act[p])]
  /\ srv \in [Callers -> Servers]
  /\ conn = [p \in Callers |-> NoConn]
  /\ spare = [p \in Callers |-> NoConn]
  /\ asked = [p \in Callers |-> 0]

Goto(p, label) == pc' = [pc EXCEPT ![p] = label]

-----------------------------------------------------------------------------
(* One call: toolListAuth or callToolAuth inside runWithAuth               *)

\* allowed(): of an unknown server, no tool; of a known one, those of its allow list.
Allowed(p, listed) == srv[p] \in configured /\ listed

Check(p) ==
  /\ pc[p] = "check"
  /\ \E listed \in BOOLEAN : Goto(p, IF Allowed(p, listed) THEN "lookup" ELSE "done")
  /\ UNCHANGED <<poolVars, madeFor, closed, act, srv, conn, spare, asked>>

\* Fault: any live connection is taken for the server's own.
LookupAny(p) ==
  /\ pc[p] = "lookup"
  /\ \/ /\ srv[p] \notin configured
        /\ Goto(p, "done")
        /\ UNCHANGED conn
     \/ \E s \in configured : /\ clients[s] # NoConn
                              /\ conn' = [conn EXCEPT ![p] = clients[s]]
                              /\ Goto(p, "use")
     \/ /\ srv[p] \in configured
        /\ clients[srv[p]] = NoConn
        /\ Goto(p, "dial")
        /\ UNCHANGED conn
  /\ UNCHANGED <<poolVars, madeFor, closed, act, srv, spare, asked>>

\* client(), read lock: unknown server, live connection, or dial a new one.
Lookup(p) ==
  /\ pc[p] = "lookup"
  /\ \/ /\ srv[p] \notin configured
        /\ Goto(p, "done")
        /\ UNCHANGED conn
     \/ /\ srv[p] \in configured
        /\ clients[srv[p]] # NoConn
        /\ conn' = [conn EXCEPT ![p] = clients[srv[p]]]
        /\ Goto(p, "use")
     \/ /\ srv[p] \in configured
        /\ clients[srv[p]] = NoConn
        /\ Goto(p, "dial")
        /\ UNCHANGED conn
  /\ UNCHANGED <<poolVars, madeFor, closed, act, srv, spare, asked>>

\* The factory makes a connection and starts it, with no lock held.
Dial(p) ==
  /\ pc[p] = "dial"
  /\ Len(madeFor) < MaxDials
  /\ madeFor' = Append(madeFor, srv[p])
  /\ conn' = [conn EXCEPT ![p] = Len(madeFor) + 1]
  /\ Goto(p, "handshake")
  /\ UNCHANGED <<poolVars, closed, act, srv, spare, asked>>

\* The server answers Initialize within connectTimeout.
Handshake(p) ==
  /\ pc[p] = "handshake"
  /\ Goto(p, "install")
  /\ UNCHANGED <<poolVars, madeFor, closed, act, srv, conn, spare, asked>>

\* What a server, or the way to it, may answer: a request to authorise from a connection
\* that has a token store; a 401 with or without the address of the metadata; anything else.
Errors == {"oauth", "metadata", "bare", "other"}
AuthNeeded(error) == error \in {"oauth", "metadata"}

\* authError: a bare 401 counts if the host finds the metadata of a server still listed.
AuthError(p, error, found) ==
  \/ AuthNeeded(error)
  \/ error = "bare" /\ srv[p] \in configured /\ found

\* An operation of a tool call failed: the hook asks for authorisation if that is
\* the reason and it has not asked yet, otherwise the failure is the result.
HookFailed(p) ==
  /\ act[p] \notin HostActs
  /\ \E error \in Errors, found \in BOOLEAN :
       IF AuthError(p, error, found) /\ asked[p] = 0
         THEN asked' = [asked EXCEPT ![p] = 1] /\ Goto(p, "await")
         ELSE UNCHANGED asked /\ Goto(p, "done")

\* The host gets the error (AuthRequired among them) and nobody is asked.
HostFailed(p) ==
  /\ act[p] \in HostActs
  /\ Goto(p, "done")
  /\ UNCHANGED asked

Failed(p) == HookFailed(p) \/ HostFailed(p)

\* The server has no factory, or the factory has nothing to start.
DialFails(p) ==
  /\ pc[p] = "dial"
  /\ Failed(p)
  /\ UNCHANGED <<poolVars, madeFor, closed, act, srv, conn, spare>>

\* Start or Initialize fails: handshake closes the connection and returns the error.
HandshakeFails(p) ==
  /\ pc[p] = "handshake"
  /\ closed' = [closed EXCEPT ![conn[p]] = @ + 1]
  /\ conn' = [conn EXCEPT ![p] = NoConn]
  /\ Failed(p)
  /\ UNCHANGED <<poolVars, madeFor, act, srv, spare>>

\* Fault: the later connection wins, and the one it replaces is closed.
InstallReplaces(p) ==
  LET s == srv[p] IN
  /\ pc[p] = "install"
  /\ clients' = [clients EXCEPT ![s] = conn[p]]
  /\ spare' = [spare EXCEPT ![p] = clients[s]]
  /\ Goto(p, IF clients[s] = NoConn THEN "use" ELSE "discard")
  /\ UNCHANGED <<configured, closing, madeFor, closed, act, srv, conn, asked>>

\* Fault: the connection that lost the race is forgotten.
InstallForgets(p) ==
  LET s == srv[p] IN
  /\ pc[p] = "install"
  /\ IF clients[s] # NoConn
       THEN conn' = [conn EXCEPT ![p] = clients[s]] /\ UNCHANGED clients
       ELSE clients' = [clients EXCEPT ![s] = conn[p]] /\ UNCHANGED conn
  /\ Goto(p, "use")
  /\ UNCHANGED <<configured, closing, madeFor, closed, act, srv, spare, asked>>

\* client(), write lock: adopt the connection another call has installed in the
\* meantime, or install this one.  The server list is not looked at again.
Install(p) ==
  LET s == srv[p] IN
  /\ pc[p] = "install"
  /\ IF clients[s] # NoConn
       THEN /\ spare' = [spare EXCEPT ![p] = conn[p]]
            /\ conn' = [conn EXCEPT ![p] = clients[s]]
            /\ Goto(p, "discard")
            /\ UNCHANGED clients
       ELSE /\ clients' = [clients EXCEPT ![s] = conn[p]]
            /\ Goto(p, "use")
            /\ UNCHANGED <<spare, conn>>
  /\ UNCHANGED <<configured, closing, madeFor, closed, act, srv, asked>>

\* The connection dialled in vain is closed, after the lock is released.
Discard(p) ==
  /\ pc[p] = "discard"
  /\ closed' = [closed EXCEPT ![spare[p]] = @ + 1]
  /\ spare' = [spare EXCEPT ![p] = NoConn]
  /\ Goto(p, "use")
  /\ UNCHANGED <<poolVars, madeFor, act, srv, conn, asked>>

\* ListTools or CallTool returns a result ...
Use(p) ==
  /\ pc[p] = "use"
  /\ conn' = [conn EXCEPT ![p] = NoConn]
  /\ Goto(p, "done")
  /\ UNCHANGED <<poolVars, madeFor, closed, act, srv, spare, asked>>

\* ... or fails, for instance because the connection was closed under it.
UseFails(p) ==
  /\ pc[p] = "use"
  /\ Failed(p)
  /\ conn' = [conn EXCEPT ![p] = NoConn]
  /\ UNCHANGED <<poolVars, madeFor, closed, act, srv, spare>>

\* The host has completed the authorisation: the call is made once more.
Granted(p) ==
  /\ pc[p] = "await"
  /\ Goto(p, Entry(act[p]))
  /\ UNCHANGED <<poolVars, madeFor, closed, act, srv, conn, spare, asked>>

\* The user declined, or the call's ctx ended: the refusal is the result.
Denied(p) ==
  /\ pc[p] = "await"
  /\ Goto(p, "done")
  /\ UNCHANGED <<poolVars, madeFor, closed, act, srv, conn, spare, asked>>

-----------------------------------------------------------------------------
(* The pool as a whole                                                     *)

\* The pooled connections of a set of servers.
Live(S) == {clients[s] : s \in {t \in S : clients[t] # NoConn}}

Without(S) == [s \in Servers |-> IF s \in S THEN NoConn ELSE clients[s]]

\* ReplaceServers: connections of servers that are no longer listed leave the
\* pool under the lock and are closed after it.
ReplaceServers(new) ==
  /\ configured' = new
  /\ clients' = Without(Servers \ new)
  /\ closing' = closing \cup Live(Servers \ new)
  /\ UNCHANGED <<madeFor, closed, pc, act, srv, conn, spare, asked>>

\* Drop evicts one server's connection; the next call dials again.
Drop(s) ==
  /\ clients[s] # NoConn
  /\ clients' = Without({s})
  /\ closing' = closing \cup Live({s})
  /\ UNCHANGED <<configured, madeFor, closed, pc, act, srv, conn, spare, asked>>

CloseDropped(c) ==
  /\ c \in closing
  /\ closing' = closing \ {c}
  /\ closed' = [closed EXCEPT ![c] = @ + 1]
  /\ UNCHANGED <<configured, clients, madeFor, pc, act, srv, conn, spare, asked>>

\* Close, under the lock: everything pooled is closed and the pool is emptied.
Close ==
  /\ closed' = [c \in Conns |-> IF c \in Live(Servers) THEN closed[c] + 1 ELSE closed[c]]
  /\ clients' = Without(Servers)
  /\ UNCHANGED <<configured, closing, madeFor, pc, act, srv, conn, spare, asked>>

-----------------------------------------------------------------------------

Call(p) ==
  \/ Check(p) \/ Lookup(p) \/ Dial(p) \/ DialFails(p) \/ Handshake(p) \/ HandshakeFails(p)
  \/ Install(p) \/ Discard(p) \/ Use(p) \/ UseFails(p) \/ Granted(p) \/ Denied(p)

Pool ==
  \/ \E new \in SUBSET Servers : ReplaceServers(new)
  \/ \E s \in Servers : Drop(s)
  \/ \E c \in Conns : CloseDropped(c)
  \/ Close

Next == (\E p \in Callers : Call(p)) \/ Pool

Spec == Init /\ [][Next]_vars

-----------------------------------------------------------------------------
(* Properties                                                              *)

Labels == {"check", "lookup", "dial", "handshake", "install", "discard", "use", "await",
           "done"}

\* Every variable holds a value of its kind; the user is asked to authorise a
\* call at most once.
TypeOK ==
  /\ configured \subseteq Servers
  /\ madeFor \in Seq(Servers)
  /\ Len(madeFor) <= MaxDials
  /\ clients \in [Servers -> 0 .. Len(madeFor)]
  /\ closing \subseteq 1 .. Len(madeFor)
  /\ closed \in [Conns -> Nat]
  /\ pc \in [Callers -> Labels]
  /\ act \in [Callers -> Acts]
  /\ srv \in [Callers -> Servers]
  /\ conn \in [Callers -> 0 .. Len(madeFor)]
  /\ spare \in [Callers -> 0 .. Len(madeFor)]
  /\ asked \in [Callers -> 0 .. 1]

Dialled == 1 .. Len(madeFor)

\* c is in the pool; c is known to call p alone; p has c to make its request.
Pooled(c) == \E s \in Servers : clients[s] = c
InHand(p, c) == \/ pc[p] \in {"handshake", "install"} /\ conn[p] = c
                \/ pc[p] = "discard" /\ spare[p] = c
InUse(p, c) == pc[p] \in {"discard", "use"} /\ conn[p] = c

\* No connection leaks: each that was dialled is pooled, in the hand of the call
\* that dialled it, waiting to be closed, or closed.
NoConnectionLost ==
  \A c \in Dialled : \/ Pooled(c)
                     \/ c \in closing
                     \/ closed[c] > 0
                     \/ \E p \in Callers : InHand(p, c)

\* It is only one of these, and is closed once: the pool never hands out a
\* connection somebody is closing, and the race of two dials for one server
\* never closes a connection that another call uses.
SingleOwner ==
  \A c \in Dialled :
    /\ Pooled(c) => c \notin closing /\ closed[c] = 0
    /\ c \in closing => closed[c] = 0
    /\ closed[c] <= 1
    /\ \A p \in Callers : InHand(p, c) =>
         /\ ~ Pooled(c) /\ c \notin closing /\ closed[c] = 0
         /\ \A q \in Callers : q # p => ~ InHand(q, c) /\ ~ InUse(q, c)

\* A call is served by a connection to the server it names.
RightServer ==
  /\ \A s \in Servers : clients[s] # NoConn => madeFor[clients[s]] = s
  /\ \A p \in Callers : pc[p] \in {"handshake", "install", "discard", "use"} =>
       conn[p] # NoConn /\ madeFor[conn[p]] = srv[p]
  /\ \A p \in Callers : pc[p] = "discard" => spare[p] # NoConn

\* What holds of the pool at every step; a number not dialled yet is unused.
PoolInv ==
  /\ RightServer
  /\ SingleOwner
  /\ NoConnectionLost
  /\ \A c \in Conns \ Dialled : closed[c] = 0

=============================================================================
