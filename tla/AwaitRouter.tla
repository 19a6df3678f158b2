---------------------------- MODULE AwaitRouter ----------------------------
(***************************************************************************)
(* The decision router of ext/hook/internal/await: several tool calls,     *)
(* each in its own goroutine, wait for a human's decision on one shared    *)
(* unbuffered channel.  A decision names the call it answers, or nobody;   *)
(* whichever waiter happens to receive it keeps it when it is its own (or  *)
(* names nobody) and otherwise stashes it for its owner and wakes everyone.*)
(*                                                                         *)
(* A wake channel is the number of its generation: it is closed exactly    *)
(* when a newer generation is the current one.                             *)
(***************************************************************************)
EXTENDS Integers, FiniteSets

CONSTANTS
  Waiters,  \* tool calls that ask for a decision, each once
  Anyone,   \* the key of a decision that names no call
  Copies,   \* how often the consumer may send a decision for one call
  Wild      \* how many decisions for Anyone it may send

ASSUME RouterAssumption ==
  /\ Anyone \notin Waiters
  /\ Copies \in Nat
  /\ Wild \in Nat

Keys == Waiters \cup {Anyone}
None == "none"

ASSUME NoneIsNoKey == None \notin Keys

VARIABLES
  place,      \* place[w]: where the goroutine of w is in Await
  bound,      \* bound[w]: generation of the wake channel w read
  gen,        \* generation of r.wake
  pend,       \* keys with a stashed decision (r.pend)
  hold,       \* hold[w]: key of a foreign decision w received and will stash
  got,        \* got[w]: key of the decision Await returned to w
  received,   \* received[k]: decisions with key k some waiter received
  cancelled   \* waiters whose ctx is done

awaitVars == <<place, bound, gen, pend, hold, got, received, cancelled>>

AwaitInit ==
  /\ place = [w \in Waiters |-> "idle"]
  /\ bound = [w \in Waiters |-> 0]
  /\ gen = 0
  /\ pend = {}
  /\ hold = [w \in Waiters |-> None]
  /\ got = [w \in Waiters |-> None]
  /\ received = [k \in Keys |-> 0]
  /\ cancelled = {}

\* The hook emits its request event and calls Await.
Ask(w) ==
  /\ place[w] = "idle"
  /\ place' = [place EXCEPT ![w] = "take"]
  /\ UNCHANGED <<bound, gen, pend, hold, got, received, cancelled>>

\* take(id), under mu.
Take(w) ==
  /\ place[w] = "take"
  /\ IF w \in pend
       THEN /\ pend' = pend \ {w}
            /\ got' = [got EXCEPT ![w] = w]
            /\ place' = [place EXCEPT ![w] = "returned"]
       ELSE /\ place' = [place EXCEPT ![w] = "bind"]
            /\ UNCHANGED <<pend, got>>
  /\ UNCHANGED <<bound, gen, hold, received, cancelled>>

\* The current wake channel is read under mu, in a critical section of its own.
Bind(w) ==
  /\ place[w] = "bind"
  /\ bound' = [bound EXCEPT ![w] = gen]
  /\ place' = [place EXCEPT ![w] = "select"]
  /\ UNCHANGED <<gen, pend, hold, got, received, cancelled>>

\* What the consumer may still send: it answers requests it has seen (examples/chat: a
\* goroutine for each request keeps its decision on offer).
Offered(k) ==
  IF k = Anyone THEN received[k] < Wild ELSE received[k] < Copies /\ place[k] # "idle"

\* Fault: whoever receives a decision acts on it.
ReceiveUnrouted(w, k) ==
  /\ place[w] = "select"
  /\ Offered(k)
  /\ received' = [received EXCEPT ![k] = @ + 1]
  /\ got' = [got EXCEPT ![w] = k]
  /\ place' = [place EXCEPT ![w] = "returned"]
  /\ UNCHANGED <<bound, gen, pend, hold, cancelled>>

\* Fault: a foreign decision is discarded instead of stashed.
ReceiveDropping(w, k) ==
  /\ place[w] = "select"
  /\ Offered(k)
  /\ received' = [received EXCEPT ![k] = @ + 1]
  /\ IF k \in {w, Anyone}
       THEN got' = [got EXCEPT ![w] = k] /\ place' = [place EXCEPT ![w] = "returned"]
       ELSE place' = [place EXCEPT ![w] = "take"] /\ UNCHANGED got
  /\ UNCHANGED <<bound, gen, pend, hold, cancelled>>

\* The select takes a decision with key k from the channel.
Receive(w, k) ==
  /\ place[w] = "select"
  /\ Offered(k)
  /\ received' = [received EXCEPT ![k] = @ + 1]
  /\ IF k \in {w, Anyone}
       THEN /\ got' = [got EXCEPT ![w] = k]
            /\ place' = [place EXCEPT ![w] = "returned"]
            /\ UNCHANGED hold
       ELSE /\ hold' = [hold EXCEPT ![w] = k]
            /\ place' = [place EXCEPT ![w] = "stash"]
            /\ UNCHANGED got
  /\ UNCHANGED <<bound, gen, pend, cancelled>>

\* Fault: the waiters are not woken.
StashQuiet(w) ==
  /\ place[w] = "stash"
  /\ pend' = pend \cup {hold[w]}
  /\ hold' = [hold EXCEPT ![w] = None]
  /\ place' = [place EXCEPT ![w] = "take"]
  /\ UNCHANGED <<bound, gen, got, received, cancelled>>

\* stash(v), under mu: keep the decision, close the wake channel, make a new one.
Stash(w) ==
  /\ place[w] = "stash"
  /\ pend' = pend \cup {hold[w]}
  /\ hold' = [hold EXCEPT ![w] = None]
  /\ gen' = gen + 1
  /\ place' = [place EXCEPT ![w] = "take"]
  /\ UNCHANGED <<bound, got, received, cancelled>>

\* The select sees the bound wake channel closed.
Woken(w) ==
  /\ place[w] = "select"
  /\ bound[w] # gen
  /\ place' = [place EXCEPT ![w] = "take"]
  /\ UNCHANGED <<bound, gen, pend, hold, got, received, cancelled>>

\* Fault: ctx.Done() is treated like a wake-up.
GiveUpRetries(w) ==
  /\ place[w] = "select"
  /\ w \in cancelled
  /\ place' = [place EXCEPT ![w] = "take"]
  /\ UNCHANGED <<bound, gen, pend, hold, got, received, cancelled>>

\* The select sees ctx.Done(): Await returns without a decision.
GiveUp(w) ==
  /\ place[w] = "select"
  /\ w \in cancelled
  /\ place' = [place EXCEPT ![w] = "returned"]
  /\ UNCHANGED <<bound, gen, pend, hold, got, received, cancelled>>

\* The call's ctx is cancelled (the run, or another call of its batch).
Cancel(w) ==
  /\ w \notin cancelled
  /\ place[w] # "returned"
  /\ cancelled' = cancelled \cup {w}
  /\ UNCHANGED <<place, bound, gen, pend, hold, got, received>>

Terminated == (\A w \in Waiters : place[w] = "returned") /\ UNCHANGED awaitVars

RouterStep(w) == Take(w) \/ Bind(w) \/ Stash(w) \/ Woken(w)

AwaitNext ==
  \/ \E w \in Waiters : Ask(w) \/ RouterStep(w) \/ GiveUp(w) \/ Cancel(w)
  \/ \E w \in Waiters, k \in Keys : Receive(w, k)
  \/ Terminated

AwaitSpec == AwaitInit /\ [][AwaitNext]_awaitVars

\* The scheduler runs every waiter; the select takes ctx.Done() eventually (it
\* meets only finitely many wake-ups); the consumer answers every request, and
\* an answer that is on offer is received as long as somebody is in the select.
AwaitFairSpec ==
  /\ AwaitSpec
  /\ \A w \in Waiters : /\ WF_awaitVars(RouterStep(w))
                        /\ WF_awaitVars(GiveUp(w))
                        /\ WF_awaitVars(\E v \in Waiters : Receive(v, w))

-----------------------------------------------------------------------------
(* Properties                                                              *)

\* Every variable holds a value of its kind, and whoever is about to stash a
\* decision holds one that has an owner.
AwaitTypeOK ==
  /\ place \in [Waiters -> {"idle", "take", "bind", "select", "stash", "returned"}]
  /\ bound \in [Waiters -> Nat]
  /\ gen \in Nat
  /\ pend \subseteq Waiters
  /\ hold \in [Waiters -> Waiters \cup {None}]
  /\ got \in [Waiters -> Keys \cup {None}]
  /\ received \in [Keys -> Nat]
  /\ cancelled \subseteq Waiters
  /\ \A w \in Waiters : place[w] = "stash" => hold[w] \in Waiters

\* A call never acts on another call's decision, although any of the waiting
\* goroutines may receive it from the shared channel.
NoMisroute == \A w \in Waiters : got[w] \in {None, w, Anyone}

\* A decision taken off the channel is not lost on its way: its owner has it, it
\* is stashed for its owner, or the waiter that received it is about to stash it.
NoDecisionLost ==
  \A w \in Waiters : received[w] > 0 =>
    \/ got[w] = w
    \/ w \in pend
    \/ \E v \in Waiters : place[v] = "stash" /\ hold[v] = w

\* What makes the two inductive: a waiter has a decision only when its Await has
\* returned, and the wake channel it is bound to is never one of the future.
RouterInv ==
  /\ NoMisroute
  /\ NoDecisionLost
  /\ \A w \in Waiters : place[w] # "returned" => got[w] = None
  /\ \A w \in Waiters : bound[w] <= gen

\* Stashing wakes the owner: a waiter that sits in the select, bound to the
\* wake channel, when its decision is stashed has that channel closed.
StashWakesOwner ==
  [][ \A w \in Waiters :
        place[w] = "select" /\ w \notin pend /\ w \in pend' => bound'[w] # gen' ]_awaitVars

\* Cancelling a waiting call releases its goroutine, also when it is carrying
\* another call's decision at that moment (and the stash still happens).
CancelReleases ==
  \A w \in Waiters : (w \in cancelled /\ place[w] # "idle") ~> (place[w] = "returned")

\* "Await blocks until the value whose key matches id arrives": once the
\* decision for a call has been received by one of the waiters, the call's own
\* Await returns.
DecisionReachesOwner ==
  \A w \in Waiters : (received[w] > 0) ~> (place[w] = "returned")
=============================================================================
