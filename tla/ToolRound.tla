----------------------------- MODULE ToolRound -----------------------------
(***************************************************************************)
(* What one round of tool calls promises to the agent loop, with nothing   *)
(* said about goroutines, hooks or contexts.  The model asked for N calls; *)
(* the round records at most one reason to stop early, runs some of the    *)
(* tools, and then answers every call, in call order, exactly once.        *)
(*                                                                         *)
(* An answer is "real" when it reports what happened to the call (its      *)
(* output, its error, or a hook's refusal) and "none" when it is the "not  *)
(* executed" placeholder.  A call whose tool has started is never answered *)
(* with the placeholder, and no call is unless the round was stopped.      *)
(***************************************************************************)
EXTENDS Integers, Sequences

CONSTANT N  \* number of calls in the round

VARIABLES
  effects,  \* calls whose tool has been started
  cause,    \* why the round stops early: "none", "abort" or "error"
  log,      \* answers written to the message history so far
  open      \* FALSE once the round has returned to the loop

roundVars == <<effects, cause, log, open>>

RoundInit ==
  /\ effects = {}
  /\ cause = "none"
  /\ log = <<>>
  /\ open = TRUE

\* A tool starts; only before the first answer is written.
Effect(i) ==
  /\ open
  /\ log = <<>>
  /\ i \notin effects
  /\ effects' = effects \cup {i}
  /\ UNCHANGED <<cause, log, open>>

\* The first reason to stop is recorded, and it is never replaced.
Cause(c) ==
  /\ open
  /\ log = <<>>
  /\ cause = "none"
  /\ cause' = c
  /\ UNCHANGED <<effects, log, open>>

\* The next call, in call order, is answered.
Answer(a) ==
  /\ open
  /\ Len(log) < N
  /\ a = "none" => cause # "none" /\ Len(log) + 1 \notin effects
  /\ log' = Append(log, a)
  /\ UNCHANGED <<effects, cause, open>>

Close ==
  /\ open
  /\ Len(log) = N
  /\ open' = FALSE
  /\ UNCHANGED <<effects, cause, log>>

RoundNext ==
  \/ \E i \in 1 .. N : Effect(i)
  \/ \E c \in {"abort", "error"} : Cause(c)
  \/ \E a \in {"real", "none"} : Answer(a)
  \/ Close

RoundSpec == RoundInit /\ [][RoundNext]_roundVars
=============================================================================
