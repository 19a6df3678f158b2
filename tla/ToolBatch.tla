----------------------------- MODULE ToolBatch -----------------------------
(***************************************************************************)
(* One call of execToolCalls (core/loop.go): the tool calls of one model   *)
(* reply, each processed by its own goroutine (or one after the other with *)
(* SerialTools) through the tool-start hooks, the tool and the tool-end    *)
(* hooks, then summarised into the message history by the loop goroutine.  *)
(*                                                                         *)
(* Calls are identified by their index in PendingToolCalls.  What a hook   *)
(* or a tool decides is nondeterministic; what the engine does with each   *)
(* decision, and in which order, is not.                                   *)
(***************************************************************************)
EXTENDS Integers, Sequences

CONSTANTS
  N,       \* number of pending tool calls; the loop never starts a batch of 0
  NStart,  \* number of registered tool-start hooks
  NEnd     \* number of registered tool-end hooks

ASSUME BatchAssumption ==
  /\ N \in Nat \ {0}
  /\ NStart \in Nat
  /\ NEnd \in Nat

Calls == 1 .. N

VARIABLES
  serial,       \* LoopParams.SerialTools, for the whole batch
  phase,        \* loop goroutine: "calls", "summary" or "returned"
  pc,           \* pc[i]: where process(i) is
  hk,           \* hk[i]: index of the hook process(i) is evaluating
  proceed,      \* proceed[i]: no tool-start hook has answered Skip
  asked,        \* asked[i]: number of tool-start hooks evaluated (history)
  invoked,      \* invoked[i]: tool.Invoke was entered (history)
  content,      \* content[i]: the goroutine's result: "empty", "ok", "err", "skip"
  results,      \* results[i]: "nil" until process(i) finishes or the summary fills it
  aborted,      \* a hook answered Abort
  hookErr,      \* index of the call whose hook error was recorded, 0 for nil
  extCancelled, \* the run's own ctx is cancelled
  callCancelled,\* cancelCalls was called
  starts,       \* starts[i]: tool_start events emitted
  ends,         \* ends[i]: tool_end events emitted
  history,      \* tool messages appended by the summary
  stopReason    \* "none" or "aborted": what the batch leaves in the loop state

callVars == <<pc, hk, proceed, asked, invoked, content, results, starts, ends>>
stopVars == <<aborted, hookErr, callCancelled>>
outVars  == <<phase, history, stopReason>>
envVars  == <<serial, extCancelled>>  \* what the batch only reads
vars == <<callVars, stopVars, outVars, envVars>>

Init ==
  /\ serial \in BOOLEAN
  /\ phase = "calls"
  /\ pc = [i \in Calls |-> "ready"]
  /\ hk = [i \in Calls |-> 1]
  /\ proceed = [i \in Calls |-> TRUE]
  /\ asked = [i \in Calls |-> 0]
  /\ invoked = [i \in Calls |-> FALSE]
  /\ content = [i \in Calls |-> "empty"]
  /\ results = [i \in Calls |-> "nil"]
  /\ aborted = FALSE
  /\ hookErr = 0
  /\ extCancelled \in BOOLEAN
  /\ callCancelled = FALSE
  /\ starts = [i \in Calls |-> 0]
  /\ ends = [i \in Calls |-> 0]
  /\ history = <<>>
  /\ stopReason = "none"

-----------------------------------------------------------------------------

\* callCtx is derived from ctx: done when either was cancelled.
CallCtxDone == callCancelled \/ extCancelled

\* The break test of the serial loop: hookErr != nil || aborted.
Stopping == aborted \/ hookErr # 0

\* Where process(i) goes when its start hooks are through.
AfterStartHook(i) == IF hk[i] < NStart THEN "start" ELSE "invoke"
AfterEndHook(i)   == IF hk[i] < NEnd THEN "end" ELSE "finish"

\* The first program point of the tool-end half, given that it has hooks or not.
EndHalf == IF NEnd = 0 THEN "finish" ELSE "end"

Goto(i, label) == pc' = [pc EXCEPT ![i] = label]

-----------------------------------------------------------------------------
(* process(i)                                                              *)

\* The goroutine starts (serial: the for loop reaches i) and emits tool_start.
Begin(i) ==
  /\ phase = "calls"
  /\ pc[i] = "ready"
  /\ serial => ~Stopping /\ \A j \in 1 .. i - 1 : pc[j] = "returned"
  /\ starts' = [starts EXCEPT ![i] = @ + 1]
  /\ Goto(i, IF NStart = 0 THEN "invoke" ELSE "start")
  /\ UNCHANGED <<hk, proceed, asked, invoked, content, results, ends,
                 stopVars, outVars, envVars>>

\* Tool-start hook hk[i] answers Proceed (or an unknown kind, which falls through).
StartProceed(i) ==
  /\ pc[i] = "start"
  /\ asked' = [asked EXCEPT ![i] = @ + 1]
  /\ hk' = [hk EXCEPT ![i] = IF hk[i] < NStart THEN @ + 1 ELSE 1]
  /\ Goto(i, AfterStartHook(i))
  /\ UNCHANGED <<proceed, invoked, content, results, starts, ends,
                 stopVars, outVars, envVars>>

\* Fault: a refusal does not end the chain, the next start hook is still asked.
StartSkipContinues(i) ==
  /\ pc[i] = "start"
  /\ asked' = [asked EXCEPT ![i] = @ + 1]
  /\ proceed' = [proceed EXCEPT ![i] = FALSE]
  /\ content' = [content EXCEPT ![i] = "skip"]
  /\ hk' = [hk EXCEPT ![i] = IF hk[i] < NStart THEN @ + 1 ELSE 1]
  /\ Goto(i, IF hk[i] < NStart THEN "start" ELSE EndHalf)
  /\ UNCHANGED <<invoked, results, starts, ends, stopVars, outVars, envVars>>

\* It answers Skip: the remaining start hooks and the tool are bypassed, and
\* the hook's text (or the engine's default one) becomes the result.
StartSkip(i) ==
  /\ pc[i] = "start"
  /\ asked' = [asked EXCEPT ![i] = @ + 1]
  /\ proceed' = [proceed EXCEPT ![i] = FALSE]
  /\ content' = [content EXCEPT ![i] = "skip"]
  /\ hk' = [hk EXCEPT ![i] = 1]
  /\ Goto(i, EndHalf)
  /\ UNCHANGED <<invoked, results, starts, ends, stopVars, outVars, envVars>>

\* It answers Abort: the flag is set under mu ...
StartAbort(i) ==
  /\ pc[i] = "start"
  /\ asked' = [asked EXCEPT ![i] = @ + 1]
  /\ aborted' = TRUE
  /\ Goto(i, "aborting")
  /\ UNCHANGED <<hk, proceed, invoked, content, results, starts, ends,
                 hookErr, callCancelled, outVars, envVars>>

\* Fault: Abort sets the flag but leaves the other calls running.
AbortOnly(i) ==
  /\ pc[i] = "aborting"
  /\ Goto(i, "returned")
  /\ UNCHANGED <<hk, proceed, asked, invoked, content, results, starts, ends,
                 stopVars, outVars, envVars>>

\* ... and the other calls are cancelled after mu is released.
AbortCancel(i) ==
  /\ pc[i] = "aborting"
  /\ callCancelled' = TRUE
  /\ Goto(i, "returned")
  /\ UNCHANGED <<hk, proceed, asked, invoked, content, results, starts, ends,
                 aborted, hookErr, outVars, envVars>>

\* It returns an error (or panics, which runToolStartHook turns into one).
StartError(i) ==
  /\ pc[i] = "start"
  /\ asked' = [asked EXCEPT ![i] = @ + 1]
  /\ Goto(i, "failing")
  /\ UNCHANGED <<hk, proceed, invoked, content, results, starts, ends,
                 stopVars, outVars, envVars>>

\* fail(err), under mu: the first cause wins, and unless ctx itself was
\* cancelled it cancels the other calls.
Fail(i) ==
  /\ pc[i] = "failing"
  /\ IF Stopping
       THEN UNCHANGED stopVars
       ELSE /\ hookErr' = i
            /\ callCancelled' = IF extCancelled THEN callCancelled ELSE TRUE
            /\ UNCHANGED aborted
  /\ Goto(i, "returned")
  /\ UNCHANGED <<hk, proceed, asked, invoked, content, results, starts, ends,
                 outVars, envVars>>

\* Tools.Lookup fails: the error is the result, no tool runs.
LookupFail(i) ==
  /\ pc[i] = "invoke"
  /\ content' = [content EXCEPT ![i] = "err"]
  /\ Goto(i, EndHalf)
  /\ UNCHANGED <<hk, proceed, asked, invoked, results, starts, ends,
                 stopVars, outVars, envVars>>

\* tool.Invoke is entered; there is no test of callCtx before it.
Invoke(i) ==
  /\ pc[i] = "invoke"
  /\ invoked' = [invoked EXCEPT ![i] = TRUE]
  /\ Goto(i, "running")
  /\ UNCHANGED <<hk, proceed, asked, content, results, starts, ends,
                 stopVars, outVars, envVars>>

\* It returns content or an error; a panic is recovered into an error.
ToolReturn(i) ==
  /\ pc[i] = "running"
  /\ \E c \in {"ok", "err"} : content' = [content EXCEPT ![i] = c]
  /\ Goto(i, EndHalf)
  /\ UNCHANGED <<hk, proceed, asked, invoked, results, starts, ends,
                 stopVars, outVars, envVars>>

\* Tool-end hook hk[i] succeeds (it may rewrite the text of the result).
EndOk(i) ==
  /\ pc[i] = "end"
  /\ hk' = [hk EXCEPT ![i] = @ + 1]
  /\ Goto(i, AfterEndHook(i))
  /\ UNCHANGED <<proceed, asked, invoked, content, results, starts, ends,
                 stopVars, outVars, envVars>>

\* finish(): tool_end is emitted and the result is published to the summary.
Publish(i) ==
  /\ ends' = [ends EXCEPT ![i] = @ + 1]
  /\ results' = [results EXCEPT ![i] = content[i]]

\* Fault: the result of a tool that has run is not published when an end hook fails.
EndErrorUnpublished(i) ==
  /\ pc[i] = "end"
  /\ Goto(i, "failing")
  /\ UNCHANGED <<hk, proceed, asked, invoked, content, results, starts, ends,
                 stopVars, outVars, envVars>>

\* It returns an error: the true result is still published, then fail(err).
EndError(i) ==
  /\ pc[i] = "end"
  /\ Publish(i)
  /\ Goto(i, "failing")
  /\ UNCHANGED <<hk, proceed, asked, invoked, content, starts,
                 stopVars, outVars, envVars>>

Finish(i) ==
  /\ pc[i] = "finish"
  /\ Publish(i)
  /\ Goto(i, "returned")
  /\ UNCHANGED <<hk, proceed, asked, invoked, content, starts,
                 stopVars, outVars, envVars>>

-----------------------------------------------------------------------------
(* The loop goroutine                                                      *)

\* Fault: the summary does not wait for the other calls of a stopped batch.
CallsOverEarly == Stopping \/ \A i \in Calls : pc[i] = "returned"

\* wg.Wait() returns, or the serial loop ends or breaks.
CallsOver ==
  \A i \in Calls : \/ pc[i] = "returned"
                   \/ serial /\ Stopping /\ pc[i] = "ready"

StartSummary ==
  /\ phase = "calls"
  /\ CallsOver
  /\ phase' = "summary"
  /\ UNCHANGED <<callVars, stopVars, history, stopReason, envVars>>

\* Fault: a missing result is not filled in.
SummariseUnfilled ==
  LET i == Len(history) + 1 IN
  /\ phase = "summary"
  /\ i <= N
  /\ history' = Append(history, [id |-> i, answer |-> results[i]])
  /\ UNCHANGED <<callVars, stopVars, phase, stopReason, envVars>>

\* Fault: a missing result is filled in without its tool_end event.
SummariseSilent ==
  LET i == Len(history) + 1 IN
  /\ phase = "summary"
  /\ i <= N
  /\ results' = [results EXCEPT ![i] = IF @ = "nil" THEN "placeholder" ELSE @]
  /\ history' = Append(history, [id |-> i, answer |-> results'[i]])
  /\ UNCHANGED <<pc, hk, proceed, asked, invoked, content, starts, ends,
                 stopVars, phase, stopReason, envVars>>

\* One turn of the summary loop: fill in a missing result and emit its
\* tool_end, then append the tool message.
Summarise ==
  LET i == Len(history) + 1 IN
  /\ phase = "summary"
  /\ i <= N
  /\ IF results[i] = "nil"
       THEN /\ results' = [results EXCEPT ![i] = "placeholder"]
            /\ ends' = [ends EXCEPT ![i] = @ + 1]
       ELSE UNCHANGED <<results, ends>>
  /\ history' = Append(history, [id |-> i, answer |-> results'[i]])
  /\ UNCHANGED <<pc, hk, proceed, asked, invoked, content, starts,
                 stopVars, phase, stopReason, envVars>>

\* Set Stop and StopReason for an abort, return hookErr; the deferred
\* cancelCalls runs.
Return ==
  /\ phase = "summary"
  /\ Len(history) = N
  /\ stopReason' = IF aborted THEN "aborted" ELSE "none"
  /\ phase' = "returned"
  /\ callCancelled' = TRUE
  /\ UNCHANGED <<callVars, aborted, hookErr, history, envVars>>

\* Whoever holds the run's ctx cancels it.
ExternalCancel ==
  /\ ~extCancelled
  /\ phase # "returned"
  /\ extCancelled' = TRUE
  /\ UNCHANGED <<callVars, stopVars, outVars, serial>>

Terminated == phase = "returned" /\ UNCHANGED vars

-----------------------------------------------------------------------------

StartHookReturns(i) ==
  StartProceed(i) \/ StartSkip(i) \/ StartAbort(i) \/ StartError(i)

EndHookReturns(i) == EndOk(i) \/ EndError(i)

\* Steps of process(i) that only the engine's own code takes.
EngineStep(i) ==
  \/ Begin(i) \/ AbortCancel(i) \/ Fail(i)
  \/ LookupFail(i) \/ Invoke(i) \/ Finish(i)

\* Steps that end a call into an extension (hook or tool).
ExtensionStep(i) == StartHookReturns(i) \/ ToolReturn(i) \/ EndHookReturns(i)

Process(i) == EngineStep(i) \/ ExtensionStep(i)

LoopStep == StartSummary \/ Summarise \/ Return

Next == (\E i \in Calls : Process(i)) \/ LoopStep \/ ExternalCancel \/ Terminated

Spec == Init /\ [][Next]_vars

\* The scheduler runs every goroutine; an extension is only required to
\* return once its ctx is done (approve and ask_user wait on a human until
\* then), except that tool-end hooks do not wait for anybody.
Fairness ==
  /\ \A i \in Calls :
       /\ WF_vars(EngineStep(i))
       /\ WF_vars(EndHookReturns(i))
       /\ WF_vars(CallCtxDone /\ (StartHookReturns(i) \/ ToolReturn(i)))
  /\ WF_vars(LoopStep)

FairSpec == Spec /\ Fairness
-----------------------------------------------------------------------------
(* Properties                                                              *)

Labels == {"ready", "start", "aborting", "failing", "invoke", "running",
           "end", "finish", "returned"}

Contents == {"empty", "ok", "err", "skip"}

\* Every variable holds a value of its kind.
TypeOK ==
  /\ serial \in BOOLEAN
  /\ phase \in {"calls", "summary", "returned"}
  /\ pc \in [Calls -> Labels]
  /\ hk \in [Calls -> Nat]
  /\ proceed \in [Calls -> BOOLEAN]
  /\ asked \in [Calls -> Nat]
  /\ invoked \in [Calls -> BOOLEAN]
  /\ content \in [Calls -> Contents]
  /\ results \in [Calls -> Contents \cup {"nil", "placeholder"}]
  /\ aborted \in BOOLEAN
  /\ hookErr \in 0 .. N
  /\ extCancelled \in BOOLEAN
  /\ callCancelled \in BOOLEAN
  /\ starts \in [Calls -> Nat]
  /\ ends \in [Calls -> Nat]
  /\ history \in Seq([id : Calls, answer : Contents \cup {"nil", "placeholder"}])
  /\ stopReason \in {"none", "aborted"}

\* The invariant execToolCalls' comment promises: whatever stopped the batch,
\* when it returns every tool call has exactly one tool message, in call
\* order, and that message carries a result.
ProtocolComplete ==
  phase = "returned" =>
    /\ Len(history) = N
    /\ \A i \in Calls : /\ history[i].id = i
                        /\ history[i].answer \notin {"nil", "empty"}

\* The model is never told a lie about side effects: the "not executed"
\* placeholder is written only for a tool that never started, and only in a
\* batch that was stopped; a refusal is written only for a tool that never
\* started, and output only for one that did.
TruthfulAnswers ==
  \A k \in 1 .. Len(history) :
    LET h == history[k] IN
    /\ h.answer = "placeholder" => ~invoked[h.id] /\ Stopping
    /\ h.answer = "skip" => ~invoked[h.id]
    /\ h.answer = "ok" => invoked[h.id]

\* The first cause decides what the batch returns: a recorded hook error is
\* never replaced, and after an Abort no hook error (most of them are echoes
\* of the linked cancellation) is recorded any more.
FirstCauseWins ==
  [][ /\ hookErr # 0 => hookErr' = hookErr
      /\ aborted /\ hookErr = 0 => hookErr' = 0 ]_vars

\* A refusal is final: once a start hook has answered Skip for a call, no
\* later start hook is evaluated for it (task runs a whole sub-agent in one)
\* and its tool is not started.
DeniedIsFinal ==
  [][ \A i \in Calls : ~proceed[i] => /\ asked'[i] = asked[i]
                                     /\ invoked'[i] = invoked[i] ]_vars

\* Consumers of the event stream see exactly one tool_end per call, and with
\* concurrent calls never before the call's tool_start.
EndEventOnce ==
  /\ \A i \in Calls : ends[i] <= 1 /\ (~serial => ends[i] <= starts[i])
  /\ phase = "returned" => \A i \in Calls : ends[i] = 1

\* How far process(i) has come, what it has done and what it will report agree.
CallInv(i) ==
  /\ pc[i] \in {"ready", "start", "aborting", "invoke"} =>
       ~invoked[i] /\ content[i] = "empty"
  /\ pc[i] \in {"running", "end", "finish"} => results[i] = "nil"
  /\ pc[i] \in {"start", "aborting", "invoke"} => results[i] = "nil"
  /\ pc[i] = "running" => invoked[i] /\ content[i] = "empty"
  /\ pc[i] \in {"end", "finish"} => content[i] # "empty"
  /\ pc[i] \in {"start", "invoke", "running"} => proceed[i]
  /\ pc[i] = "ready" => proceed[i] /\ results[i] \in {"nil", "placeholder"}
  /\ pc[i] \in {"failing", "returned"} =>
       \/ results[i] \in {"nil", "placeholder"} /\ ~invoked[i]
       \/ results[i] = content[i] /\ content[i] # "empty"
  /\ pc[i] = "aborting" => aborted
  /\ pc[i] = "returned" /\ results[i] = "nil" => Stopping
  /\ content[i] = "skip" => ~invoked[i]
  /\ content[i] = "ok" => invoked[i]
  /\ results[i] = "placeholder" => Stopping /\ phase # "calls"

\* The summary starts when no call is under way, and what it has written so
\* far is, in call order, what the calls ended with.
SummaryInv ==
  /\ phase = "calls" => history = <<>>
  /\ phase # "calls" => CallsOver
  /\ phase = "returned" => Len(history) = N
  /\ Len(history) <= N
  /\ \A k \in 1 .. Len(history) :
       history[k].id = k /\ history[k].answer = results[k] /\ results[k] # "nil"

\* The inductive invariant behind ProtocolComplete, TruthfulAnswers,
\* DeniedIsFinal and the refinement: the shape of each call's result follows
\* from where its goroutine is, and the summary copies final results only.
BatchInv == (\A i \in Calls : CallInv(i)) /\ SummaryInv

\* A batch that something stopped (Abort, hook error, cancelled run) returns,
\* even when the other calls sit in a hook or tool that waits for a human and
\* gives up only when its ctx is done.
StopReleasesBatch == (Stopping \/ extCancelled) ~> (phase = "returned")

\* The refinement mapping: which tools have run, what the first cause was, and
\* which calls were answered with the placeholder.
RoundEffects == {i \in Calls : invoked[i]}

RoundCause == IF hookErr # 0 THEN "error" ELSE IF aborted THEN "abort" ELSE "none"

RoundLog == [k \in 1 .. Len(history) |->
               IF history[k].answer = "placeholder" THEN "none" ELSE "real"]

RoundOpen == phase # "returned"

Round == INSTANCE ToolRound WITH effects <- RoundEffects, cause <- RoundCause,
                                 log <- RoundLog, open <- RoundOpen

\* Every behaviour of the batch, seen through that mapping, is one of the round.
RefinesRound == Round!RoundSpec
=============================================================================
