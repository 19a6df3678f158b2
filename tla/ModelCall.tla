------------------------------ MODULE ModelCall ------------------------------
(***************************************************************************)
(* The model calls of one Run through modelretry, each attempt guarded by  *)
(* a timer.                                                                *)
(*   ext/warp/model/modelretry  Stream, Invoke, backoff                    *)
(*   ext/provider/provutil      IdleWatch, WrapStreamErr                   *)
(*   ext/provider/openai        Stream, Invoke (the others are alike)      *)
(*                                                                         *)
(* A streaming attempt is watched by IdleWatch, a goroutine that cancels   *)
(* the attempt when no data came for Idle; an attempt of Invoke runs under *)
(* context.WithTimeout.  Time advances by Tick, and only when nothing is   *)
(* ready to run: goroutines are taken to be fast against the timers, which *)
(* are minutes.  Steps that are ready at the same moment still come in     *)
(* any order.                                                              *)
(***************************************************************************)
EXTENDS Integers, FiniteSets

CONSTANTS
  MaxAttempts,  \* Options.MaxAttempts
  BaseDelay,    \* Options.BaseDelay
  TotalBudget,  \* Options.TotalBudget, 0 for no limit
  Idle,         \* the provider's Timeout
  NCalls,       \* bound: model calls of the Run
  MaxData       \* bound: arrivals of data in one attempt

ASSUME OptionsAssumption ==
  /\ MaxAttempts \in Nat \ {0}
  /\ BaseDelay \in Nat \ {0}
  /\ TotalBudget \in Nat
  /\ Idle \in Nat \ {0}
\* time.Duration does not overflow while the delay doubles.
ASSUME NoOverflowAssumption == \A a \in 1..MaxAttempts : BaseDelay * 2^(a - 1) \in Nat \ {0}
ASSUME BoundsAssumption == NCalls \in Nat /\ MaxData \in Nat

VARIABLES
  streaming,  \* Stream or Invoke
  ctx,        \* the caller's ctx: "live", or how it ended
  pc,         \* "rest", "header", "body", "failed", "backoff"
  calls,      \* model calls begun
  attempt,    \* attempts begun in this call
  emitted,    \* this attempt has passed a chunk on
  err,        \* the error of the last attempt
  outcome,    \* how the last call ended: "none", "reply" or an error
  waited,     \* RetryProvider.waited
  delay,      \* the wait in progress
  slept,      \* how much of it has passed
  \* the attempt's timer
  left,       \* time until it fires
  touched,    \* a Touch the watchdog has not read
  fired,      \* IdleWatch.timedOut
  cut,        \* the attempt's ctx: "no", or how it ended
  data,       \* arrivals in this attempt
  \* for the properties
  quiet,      \* time since data last arrived
  gap,        \* the pause that the last arrivals ended
  shownBy,    \* the attempts of this call that passed chunks on
  late,       \* attempts of this call begun after ctx had ended
  asleep      \* all the time spent in backoff

callVars == <<streaming, calls, attempt, shownBy, late>>
waitVars == <<waited, delay, slept, asleep>>
timerVars == <<left, touched, fired, cut, data, quiet, gap>>
vars == <<ctx, pc, emitted, err, outcome, callVars, waitVars, timerVars>>

\* "transient": a network error, 429, 5xx, a broken chunk.  "fatal": any other
\* status.
Errors == {"transient", "fatal", "canceled", "deadline"}

\* defaultRetryable
Retryable(e) == e \notin {"canceled", "fatal"}

TypeOK ==
  /\ streaming \in BOOLEAN
  /\ ctx \in {"live", "canceled", "deadline"}
  /\ pc \in {"rest", "header", "body", "failed", "backoff"}
  /\ calls \in 0..NCalls
  /\ attempt \in 0..MaxAttempts
  /\ emitted \in BOOLEAN
  /\ err \in Errors \cup {"none"}
  /\ outcome \in Errors \cup {"none", "reply"}
  /\ waited \in Nat /\ delay \in Nat /\ slept \in 0..delay /\ asleep \in Nat
  /\ left \in 0..Idle /\ quiet \in Nat /\ gap \in Nat /\ data \in 0..MaxData
  /\ touched \in BOOLEAN /\ fired \in BOOLEAN
  /\ cut \in {"no", "canceled", "deadline"}
  /\ shownBy \subseteq 1..MaxAttempts
  /\ late \in 0..MaxAttempts

Init ==
  /\ streaming \in BOOLEAN
  /\ ctx = "live" /\ pc = "rest" /\ cut = "no"
  /\ err = "none" /\ outcome = "none"
  /\ emitted = FALSE /\ touched = FALSE /\ fired = FALSE
  /\ calls = 0 /\ attempt = 0 /\ late = 0 /\ data = 0
  /\ waited = 0 /\ delay = 0 /\ slept = 0 /\ asleep = 0
  /\ left = Idle /\ quiet = 0 /\ gap = 0
  /\ shownBy = {}

(***************************************************************************)
(* An attempt.                                                             *)
(***************************************************************************)
\* The timer starts before the request is sent; an attempt under an ended ctx
\* is cut at once.
StartAttempt ==
  /\ pc' = "header"
  /\ emitted' = FALSE
  /\ left' = Idle /\ touched' = FALSE /\ fired' = FALSE
  /\ cut' = IF ctx = "live" THEN "no" ELSE ctx
  /\ data' = 0 /\ quiet' = 0 /\ gap' = 0

\* Data has come: the watchdog is told, unless a Touch is already waiting.
Touch ==
  /\ touched' = streaming
  /\ quiet' = 0 /\ gap' = IF quiet = 0 THEN gap ELSE quiet

\* Fault: the answer's header does not renew the timer.
HeaderUntouched ==
  /\ pc = "header" /\ cut = "no"
  /\ pc' = "body"
  /\ quiet' = 0 /\ gap' = IF quiet = 0 THEN gap ELSE quiet
  /\ UNCHANGED <<ctx, emitted, err, outcome, callVars, waitVars, left, touched, fired, cut, data>>

\* The answer's header with a good status.
Header ==
  /\ pc = "header" /\ cut = "no"
  /\ pc' = "body"
  /\ Touch
  /\ UNCHANGED <<ctx, emitted, err, outcome, callVars, waitVars, left, fired, cut, data>>

AttemptFails(e) ==
  /\ pc' = "failed"
  /\ err' = e
  /\ UNCHANGED <<ctx, emitted, outcome, callVars, waitVars, timerVars>>

\* No connection, or a bad status: CheckStatus and HTTPError.Retryable.
HeaderFails ==
  /\ pc = "header" /\ cut = "no"
  /\ \E e \in {"transient", "fatal"} : AttemptFails(e)

\* post returns the error of the attempt's ctx, whoever ended it.
HeaderCut == pc = "header" /\ cut # "no" /\ AttemptFails(cut)

\* A batch of lines; it may hold chunks for the consumer.  What has arrived is
\* read even after a cut.
Data ==
  /\ pc = "body" /\ streaming
  /\ data < MaxData
  /\ data' = data + 1
  /\ Touch
  /\ \/ emitted' = TRUE /\ shownBy' = shownBy \cup {attempt}
     \/ UNCHANGED <<emitted, shownBy>>
  /\ UNCHANGED <<ctx, pc, err, outcome, streaming, calls, attempt, late, waitVars,
                 left, fired, cut>>

\* The connection breaks, or a chunk does not decode.
ReadFails == pc = "body" /\ AttemptFails("transient")

\* The read fails because the attempt was cut: WrapStreamErr.
ReadCut ==
  /\ pc = "body" /\ cut # "no"
  /\ AttemptFails(IF streaming /\ fired THEN "deadline" ELSE cut)

CallOver(o) ==
  /\ pc' = "rest"
  /\ outcome' = o
  /\ UNCHANGED <<ctx, emitted, err, callVars, waitVars, timerVars>>

Success == pc = "body" /\ CallOver("reply")

(***************************************************************************)
(* The attempt's timer.                                                    *)
(***************************************************************************)
Attempting == pc \in {"header", "body"}

\* Fault: the watchdog only records that it fired.
FireQuietly ==
  /\ Attempting /\ left = 0 /\ ~fired
  /\ fired' = TRUE
  /\ UNCHANGED <<ctx, pc, emitted, err, outcome, callVars, waitVars, left, touched, cut, data, quiet, gap>>

\* The watchdog cancels the attempt; the ctx of Invoke passes its deadline.
Fire ==
  /\ Attempting /\ left = 0 /\ ~fired
  /\ fired' = TRUE
  /\ cut' = IF cut # "no" THEN cut ELSE IF streaming THEN "canceled" ELSE "deadline"
  /\ UNCHANGED <<ctx, pc, emitted, err, outcome, callVars, waitVars, left, touched, data, quiet, gap>>

\* The watchdog reads a Touch and starts the timer again; when the timer has
\* run out as well, the select takes either.
Renew ==
  /\ Attempting /\ touched /\ ~fired /\ cut = "no"
  /\ touched' = FALSE
  /\ left' = Idle
  /\ UNCHANGED <<ctx, pc, emitted, err, outcome, callVars, waitVars, fired, cut, data, quiet, gap>>

(***************************************************************************)
(* modelretry.                                                             *)
(***************************************************************************)
BeginCall ==
  /\ pc = "rest"
  /\ calls < NCalls
  /\ calls' = calls + 1
  /\ attempt' = 1
  /\ shownBy' = {}
  /\ late' = IF ctx = "live" THEN 0 ELSE 1
  /\ StartAttempt
  /\ UNCHANGED <<streaming, ctx, err, outcome, waitVars>>

\* Fault: a stream is retried although the consumer has seen part of it.
MayRetryShown == attempt < MaxAttempts /\ Retryable(err)

MayRetry == attempt < MaxAttempts /\ ~emitted /\ Retryable(err)

GiveUp == pc = "failed" /\ ~MayRetry /\ CallOver(err)

\* Fault: the shift has overflowed to zero, so there is nothing to wait for.
DelaysOverflown == {0}

\* The wait doubles with each attempt, plus up to a fifth (rounded up here).
Delays ==
  LET d == BaseDelay * 2^(attempt - 1) IN d..(d + (d + 4) \div 5)

Remaining == TotalBudget - waited

\* Fault: a wait may exceed what is left of the budget.
CappedNever(d) == d

Capped(d) == IF TotalBudget > 0 /\ d > Remaining THEN Remaining ELSE d

BudgetSpent ==
  /\ pc = "failed" /\ MayRetry
  /\ TotalBudget > 0 /\ Remaining <= 0
  /\ CallOver(err)

Backoff ==
  /\ pc = "failed" /\ MayRetry
  /\ TotalBudget > 0 => Remaining > 0
  /\ pc' = "backoff"
  /\ \E d \in Delays : delay' = Capped(d)
  /\ slept' = 0
  /\ UNCHANGED <<ctx, emitted, err, outcome, callVars, waited, asleep, timerVars>>

\* ctx ends while backoff waits; the time slept is not added to waited.
BackoffCut == pc = "backoff" /\ ctx # "live" /\ CallOver(ctx)

WaitOver ==
  /\ pc = "backoff" /\ slept = delay
  /\ waited' = waited + delay
  /\ attempt' = attempt + 1
  /\ late' = late + (IF ctx = "live" THEN 0 ELSE 1)
  /\ StartAttempt
  /\ UNCHANGED <<streaming, calls, ctx, err, outcome, delay, slept, asleep, shownBy>>

(***************************************************************************)
(* The environment.                                                        *)
(***************************************************************************)
\* The caller cancels, or the deadline of its ctx passes.
CtxEnds ==
  /\ ctx = "live"
  /\ ctx' \in {"canceled", "deadline"}
  /\ cut' = IF Attempting /\ cut = "no" THEN ctx' ELSE cut
  /\ UNCHANGED <<pc, emitted, err, outcome, callVars, waitVars, left, touched, fired, data, quiet, gap>>

\* One unit of time: in an attempt and in a backoff, when nothing is due.
TickAttempt ==
  /\ Attempting
  /\ cut = "no" /\ ~touched /\ ~fired /\ left > 0
  /\ left' = left - 1
  /\ quiet' = quiet + 1
  /\ UNCHANGED <<ctx, pc, emitted, err, outcome, callVars, waitVars, touched, fired, cut, data, gap>>

TickBackoff ==
  /\ pc = "backoff" /\ ctx = "live" /\ slept < delay
  /\ slept' = slept + 1
  /\ asleep' = asleep + 1
  /\ UNCHANGED <<ctx, pc, emitted, err, outcome, callVars, waited, delay, timerVars>>

ServerStep == Header \/ HeaderFails \/ Data \/ ReadFails \/ Success
EngineStep ==
  \/ HeaderCut \/ ReadCut \/ Renew \/ Fire
  \/ GiveUp \/ BudgetSpent \/ Backoff \/ BackoffCut \/ WaitOver
Tick == TickAttempt \/ TickBackoff

Next == BeginCall \/ ServerStep \/ EngineStep \/ Tick \/ CtxEnds

Spec == Init /\ [][Next]_vars

\* The engine runs and time passes; the server and the caller do what they like.
FairSpec == Spec /\ WF_vars(EngineStep) /\ WF_vars(Tick)

(***************************************************************************)
(* Properties.                                                             *)
(***************************************************************************)
\* modelretry.go:125: once a chunk has been passed on there is no retry, so a
\* consumer never sees pieces of two attempts in one reply.
OneAttemptShown == Cardinality(shownBy) <= 1

\* All the waits of a Run, over several model calls and including a wait that
\* was broken off, stay within Options.TotalBudget.
BudgetRespected == TotalBudget > 0 => asleep <= TotalBudget

\* However the end of ctx meets the end of a wait, a call begins at most one
\* attempt after it.
AtMostOneLateAttempt == late <= 1

\* The watchdog cuts a stream only for a pause of Idle: the one in progress, or
\* one that ended at the very moment the timer ran out.
NoEarlyCut ==
  [][streaming /\ fired' /\ ~fired => quiet >= Idle \/ (quiet = 0 /\ gap >= Idle)]_vars

\* Whatever the server leaves unsaid, every model call comes to an end.
CallReturns == pc # "rest" ~> pc = "rest"

==============================================================================
