----------------------------- MODULE AgentLoop -----------------------------
(***************************************************************************)
(* Agent.Run (core/loop.go), over a conversation of several turns: each    *)
(* turn is one Run whose history is the message sequence the previous Run  *)
(* left behind, which is how the documentation resumes a conversation.     *)
(*                                                                         *)
(* The loop is one goroutine; what interleaves with it is the cancellation *)
(* of its ctx.  A chain of hooks of one kind is one step: it may set       *)
(* state.Stop, and it ends with success or with the first error (a panic   *)
(* of a hook becomes an error in runHook).  A round of tool calls is one   *)
(* step as well; ToolRound says what it promises and ToolBatch implements  *)
(* it.  Tool calls carry conversation-wide unique ids.                     *)
(***************************************************************************)
EXTENDS Integers, Sequences, FiniteSets, SequencesExt

CONSTANTS
  Turns,          \* number of Runs in the conversation
  MaxIterations,  \* LoopParams.MaxIterations, after withDefaults
  MaxCalls,       \* bound on the tool calls of one model reply
  NEnd,           \* number of registered end hooks
  Streaming,      \* WithStreaming, and the provider can stream
  ContextFix      \* the contextfix start hook is registered

ASSUME LoopAssumption ==
  /\ Turns \in Nat \ {0}
  /\ MaxIterations \in Nat \ {0}
  /\ MaxCalls \in Nat
  /\ NEnd \in Nat
  /\ Streaming \in BOOLEAN
  /\ ContextFix \in BOOLEAN

VARIABLES
  turn,        \* number of the current Run
  pc,          \* where Run is
  msgs,        \* state.Messages, without the system message
  nextId,      \* next unused tool call id
  iter,        \* state.Iteration
  stop,        \* state.Stop
  reason,      \* state.StopReason, "none" for ""
  lastError,   \* state.LastError # nil
  cancelled,   \* ctx.Err() # nil
  ret,         \* the error Run returns: "nil", "run" or "endHook"
  endRan,      \* end hooks executed
  errors,      \* error events emitted
  wrapped,     \* finalWrap has appended its notice
  modelCalls,  \* model calls started
  lateCalls    \* model calls started after the cancellation (history)

runVars == <<iter, stop, reason, lastError, ret, endRan, errors, wrapped,
             modelCalls, lateCalls>>
vars == <<turn, pc, msgs, nextId, cancelled, runVars>>

-----------------------------------------------------------------------------
(* Messages                                                                *)

User         == [role |-> "user", calls |-> <<>>, id |-> 0]
Assistant(c) == [role |-> "assistant", calls |-> c, id |-> 0]
Tool(i)      == [role |-> "tool", calls |-> <<>>, id |-> i]
Message      == [role : {"user", "assistant", "tool"}, calls : Seq(Nat), id : Nat]

CalledIds(ms)   == UNION {ToSet(ms[p].calls) : p \in DOMAIN ms}
AnsweredIds(ms) == {ms[p].id : p \in {q \in DOMAIN ms : ms[q].role = "tool"}}

\* Fault: orphaned answers are dropped, missing ones are not filled in.
FixOrphansOnly(ms) ==
  SelectSeq(ms, LAMBDA m : m.role = "tool" => m.id \in CalledIds(ms))

\* The message inserted for a call without an answer.
Placeholder(ms, i) == IF i \in AnsweredIds(ms) THEN <<>> ELSE <<Tool(i)>>

\* What becomes of one message: a tool message without a call is dropped, and an assistant
\* message is followed by a placeholder for each of its calls without an answer.
Kept(ms, m) ==
  IF m.role = "tool" /\ m.id \notin CalledIds(ms)
    THEN <<>>
    ELSE <<m>> \o FlattenSeq([k \in DOMAIN m.calls |-> Placeholder(ms, m.calls[k])])

\* contextfix.Fix.
Fix(ms) == FlattenSeq([p \in DOMAIN ms |-> Kept(ms, ms[p])])

\* The calls of the message at p are answered, in order, right behind it.
AnsweredAt(ms, p) ==
  /\ p + Len(ms[p].calls) <= Len(ms)
  /\ \A k \in DOMAIN ms[p].calls : ms[p + k] = Tool(ms[p].calls[k])

\* A history every provider accepts: each call answered, no answer without a call.
Complete(ms) ==
  /\ \A p \in DOMAIN ms : AnsweredAt(ms, p)
  /\ AnsweredIds(ms) \subseteq CalledIds(ms)

-----------------------------------------------------------------------------

\* A Run starts with the history and appends the input as a user message.
Init ==
  /\ turn = 1
  /\ pc = "onStart"
  /\ msgs = <<User>>
  /\ nextId = 1
  /\ cancelled \in BOOLEAN
  /\ iter = 0 /\ stop = FALSE /\ reason = "none"
  /\ lastError = FALSE /\ ret = "nil" /\ endRan = 0
  /\ errors = 0 /\ wrapped = FALSE /\ modelCalls = 0
  /\ lateCalls = 0

\* The caller continues the conversation: WithHistory(state.Messages...).
NextTurn ==
  /\ pc = "done"
  /\ turn < Turns
  /\ turn' = turn + 1
  /\ pc' = "onStart"
  /\ msgs' = Append(msgs, User)
  /\ cancelled' \in BOOLEAN
  /\ iter' = 0 /\ stop' = FALSE /\ reason' = "none"
  /\ lastError' = FALSE /\ ret' = "nil" /\ endRan' = 0
  /\ errors' = 0 /\ wrapped' = FALSE /\ modelCalls' = 0
  /\ lateCalls' = 0
  /\ UNCHANGED nextId

Goto(label) == pc' = label

\* fail(): every error of the loop body and of finalWrap ends here.
Fail ==
  /\ stop' = TRUE
  /\ ret' = "run"
  /\ IF cancelled
       THEN reason' = "cancelled" /\ UNCHANGED <<lastError, errors>>
       ELSE reason' = "error" /\ lastError' = TRUE /\ errors' = errors + 1
  /\ Goto("endHooks")
  /\ UNCHANGED <<iter, endRan, wrapped, modelCalls, lateCalls>>

\* The bookkeeping of a model call that starts now.
CallStarts ==
  /\ modelCalls' = modelCalls + 1
  /\ lateCalls' = lateCalls + (IF cancelled THEN 1 ELSE 0)

-----------------------------------------------------------------------------
(* The body of Run                                                         *)

\* Start hooks; contextfix, when registered, repairs the history (the hook that
\* fails may come before or after it).
OnStart ==
  /\ pc = "onStart"
  /\ \/ /\ msgs' = IF ContextFix THEN Fix(msgs) ELSE msgs
        /\ stop' \in {stop, TRUE}
        /\ Goto("guides")
        /\ UNCHANGED <<iter, reason, lastError, ret, endRan, errors, wrapped,
                       modelCalls, lateCalls>>
     \/ /\ msgs' \in {msgs, IF ContextFix THEN Fix(msgs) ELSE msgs}
        /\ Fail
  /\ UNCHANGED <<turn, nextId, cancelled>>

\* appendGuides changes only the system message.
AppendGuides ==
  /\ pc = "guides"
  /\ Goto("head")
  /\ UNCHANGED <<turn, msgs, nextId, cancelled, runVars>>

\* Fault: a cancelled Run goes on to the next iteration.
LoopHeadUncancelled ==
  /\ pc = "head"
  /\ IF iter < MaxIterations /\ ~stop
       THEN iter' = iter + 1 /\ Goto("modelStart")
       ELSE Goto("post") /\ UNCHANGED iter
  /\ UNCHANGED <<turn, msgs, nextId, cancelled, stop, reason, ret, lastError,
                 endRan, errors, wrapped, modelCalls, lateCalls>>

\* The loop condition and the cancellation test at the top of an iteration.
LoopHead ==
  /\ pc = "head"
  /\ IF iter < MaxIterations /\ ~stop
       THEN IF cancelled
              THEN /\ reason' = "cancelled"
                   /\ ret' = "run"
                   /\ Goto("endHooks")
                   /\ UNCHANGED iter
              ELSE /\ iter' = iter + 1
                   /\ Goto("modelStart")
                   /\ UNCHANGED <<reason, ret>>
       ELSE Goto("post") /\ UNCHANGED <<iter, reason, ret>>
  /\ UNCHANGED <<turn, msgs, nextId, cancelled, stop, lastError, endRan, errors,
                 wrapped, modelCalls, lateCalls>>

\* Model-start hooks, then the model call starts unless one of them set Stop.
ModelStart ==
  /\ pc = "modelStart"
  /\ \/ /\ stop' = TRUE
        /\ Goto("post")
        /\ UNCHANGED <<modelCalls, lateCalls, iter, reason, lastError, ret,
                       endRan, errors, wrapped>>
     \/ /\ ~stop
        /\ Goto("inModel")
        /\ CallStarts
        /\ UNCHANGED <<iter, stop, reason, lastError, ret, endRan, errors, wrapped>>
     \/ Fail
  /\ UNCHANGED <<turn, msgs, nextId, cancelled>>

\* The model answers with k tool calls: the reply enters the history.
ModelReply ==
  /\ pc = "inModel"
  /\ \E k \in 0 .. MaxCalls :
       /\ msgs' = Append(msgs, Assistant([c \in 1 .. k |-> nextId + c - 1]))
       /\ nextId' = nextId + k
  /\ Goto("modelEnd")
  /\ UNCHANGED <<turn, cancelled, runVars>>

\* What a failed call leaves in the history: nothing, or, when a cancelled
\* stream had already delivered text, that text (without tool calls).
Rescued ==
  \/ UNCHANGED msgs
  \/ Streaming /\ cancelled /\ msgs' = Append(msgs, Assistant(<<>>))

ModelError ==
  /\ pc = "inModel"
  /\ Rescued
  /\ Fail
  /\ UNCHANGED <<turn, nextId, cancelled>>

\* Fault: the reply is tested for tool calls before the hooks' Stop.
ModelEndSwapped ==
  /\ pc = "modelEnd"
  /\ \/ /\ stop' \in {stop, TRUE}
        /\ IF Last(msgs).calls = <<>>
             THEN reason' = "completed" /\ Goto("post")
             ELSE UNCHANGED reason /\ Goto(IF stop' THEN "post" ELSE "batch")
        /\ UNCHANGED <<iter, lastError, ret, endRan, errors, wrapped,
                       modelCalls, lateCalls>>
     \/ Fail
  /\ UNCHANGED <<turn, msgs, nextId, cancelled>>

\* Model-end hooks, then the decision to finish or to execute the calls.
ModelEnd ==
  /\ pc = "modelEnd"
  /\ \/ /\ stop' = TRUE
        /\ Goto("post")
        /\ UNCHANGED <<reason, iter, lastError, ret, endRan, errors, wrapped,
                       modelCalls, lateCalls>>
     \/ /\ ~stop
        /\ IF Last(msgs).calls = <<>>
             THEN reason' = "completed" /\ Goto("post")
             ELSE UNCHANGED reason /\ Goto("batch")
        /\ UNCHANGED <<iter, stop, lastError, ret, endRan, errors, wrapped,
                       modelCalls, lateCalls>>
     \/ Fail
  /\ UNCHANGED <<turn, msgs, nextId, cancelled>>

\* execToolCalls: every call is answered in order; then the round went on,
\* was aborted or stopped by a hook, or returned a hook error.
ToolCalls ==
  /\ pc = "batch"
  /\ LET calls == Last(msgs).calls
     IN  msgs' = msgs \o [k \in DOMAIN calls |-> Tool(calls[k])]
  /\ \/ /\ stop' \in {stop, TRUE}
        /\ reason' \in {reason, IF stop' THEN "aborted" ELSE reason}
        /\ Goto(IF stop' THEN "post" ELSE "loopHooks")
        /\ UNCHANGED <<iter, lastError, ret, endRan, errors, wrapped,
                       modelCalls, lateCalls>>
     \/ Fail
  /\ UNCHANGED <<turn, nextId, cancelled>>

\* Loop hooks, then iteration_end and back to the loop condition.
LoopHooks ==
  /\ pc = "loopHooks"
  /\ \/ /\ stop' \in {stop, TRUE}
        /\ Goto("head")
        /\ UNCHANGED <<iter, reason, lastError, ret, endRan, errors, wrapped,
                       modelCalls, lateCalls>>
     \/ Fail
  /\ UNCHANGED <<turn, msgs, nextId, cancelled>>

\* Fault: the classification forgets that a hook has stopped the loop.
PostLoopUnstopped ==
  /\ pc = "post"
  /\ reason' = IF reason # "none" THEN reason ELSE "max_iterations"
  /\ IF reason' = "max_iterations" /\ ~cancelled
       THEN msgs' = Append(msgs, User) /\ wrapped' = TRUE /\ CallStarts /\ Goto("inWrap")
       ELSE Goto("endHooks") /\ UNCHANGED <<msgs, wrapped, modelCalls, lateCalls>>
  /\ UNCHANGED <<turn, nextId, cancelled, iter, stop, lastError, ret, endRan, errors>>

\* After the loop: classify, and start finalWrap at the iteration limit.
PostLoop ==
  /\ pc = "post"
  /\ reason' = IF reason # "none" THEN reason
               ELSE IF stop THEN "aborted" ELSE "max_iterations"
  /\ IF reason' = "max_iterations" /\ ~cancelled
       THEN /\ msgs' = Append(msgs, User)
            /\ wrapped' = TRUE
            /\ CallStarts
            /\ Goto("inWrap")
       ELSE /\ Goto("endHooks")
            /\ UNCHANGED <<msgs, wrapped, modelCalls, lateCalls>>
  /\ UNCHANGED <<turn, nextId, cancelled, iter, stop, lastError, ret, endRan, errors>>

\* The closing reply enters the history as text; no hook runs on it.
WrapReply ==
  /\ pc = "inWrap"
  /\ msgs' = Append(msgs, Assistant(<<>>))
  /\ Goto("endHooks")
  /\ UNCHANGED <<turn, nextId, cancelled, runVars>>

WrapError ==
  /\ pc = "inWrap"
  /\ Rescued
  /\ Fail
  /\ UNCHANGED <<turn, nextId, cancelled>>

\* Where an extension runs without the runHook wrapper: guides and the provider.
PanicPoints == {"guides", "inModel", "inWrap"}

\* The recover of Run: classified like fail, but state.Stop is left alone.
Panic ==
  /\ pc \in PanicPoints
  /\ ret' = "run"
  /\ IF cancelled
       THEN reason' = "cancelled" /\ UNCHANGED <<lastError, errors>>
       ELSE reason' = "error" /\ lastError' = TRUE /\ errors' = errors + 1
  /\ Goto("endHooks")
  /\ UNCHANGED <<turn, msgs, nextId, cancelled, iter, stop, endRan, wrapped,
                 modelCalls, lateCalls>>

\* Fault: the error of an end hook is returned, but no event reports it.
EndHookSilent ==
  /\ pc = "endHooks"
  /\ endRan < NEnd
  /\ endRan' = endRan + 1
  /\ \/ UNCHANGED <<pc, ret>>
     \/ ret' = (IF ret = "nil" THEN "endHook" ELSE ret) /\ Goto("closing")
  /\ UNCHANGED <<turn, msgs, nextId, cancelled, iter, stop, reason, lastError,
                 errors, wrapped, modelCalls, lateCalls>>

\* runEndHooks: the first error is reported and ends the chain; it becomes
\* Run's error only if the run itself had none.
EndHook ==
  /\ pc = "endHooks"
  /\ endRan < NEnd
  /\ endRan' = endRan + 1
  /\ \/ UNCHANGED <<pc, ret, errors>>
     \/ /\ errors' = errors + 1
        /\ ret' = IF ret = "nil" THEN "endHook" ELSE ret
        /\ Goto("closing")
  /\ UNCHANGED <<turn, msgs, nextId, cancelled, iter, stop, reason, lastError,
                 wrapped, modelCalls, lateCalls>>

EndHooksOver ==
  /\ pc = "endHooks"
  /\ endRan = NEnd
  /\ Goto("closing")
  /\ UNCHANGED <<turn, msgs, nextId, cancelled, runVars>>

\* EndedAt, loop_end, and Run returns.
LoopEnd ==
  /\ pc = "closing"
  /\ Goto("done")
  /\ UNCHANGED <<turn, msgs, nextId, cancelled, runVars>>

\* What the task hook makes of a fork's Run that returned no error: the last reply
\* (its position, 0 without one), and a note on how the fork ended.
LastAssistant == Max({p \in DOMAIN msgs : msgs[p].role = "assistant"} \cup {0})

FormatResult ==
  [answer |-> LastAssistant,
   note |-> CASE reason = "max_iterations" -> "incomplete"
              [] reason \in {"aborted", "cancelled"} -> "stopped"
              [] OTHER -> "none"]

\* Whoever holds the Run's ctx cancels it.
Cancel ==
  /\ ~cancelled
  /\ pc # "done"
  /\ cancelled' = TRUE
  /\ UNCHANGED <<turn, pc, msgs, nextId, runVars>>

Terminated == pc = "done" /\ turn = Turns /\ UNCHANGED vars

RunStep ==
  \/ OnStart \/ AppendGuides \/ LoopHead \/ ModelStart \/ ModelReply
  \/ ModelError \/ ModelEnd \/ ToolCalls \/ LoopHooks \/ PostLoop
  \/ WrapReply \/ WrapError \/ Panic \/ EndHook \/ EndHooksOver \/ LoopEnd

Next == RunStep \/ NextTurn \/ Cancel \/ Terminated

Spec == Init /\ [][Next]_vars

-----------------------------------------------------------------------------
(* Properties                                                              *)

Labels == {"onStart", "guides", "head", "modelStart", "inModel", "modelEnd",
           "batch", "loopHooks", "post", "inWrap", "endHooks", "closing", "done"}

Reasons == {"none", "completed", "aborted", "max_iterations", "cancelled", "error"}

\* Every variable holds a value of its kind, within the bounds of the loop.
TypeOK ==
  /\ turn \in 1 .. Turns
  /\ pc \in Labels
  /\ msgs \in Seq(Message)
  /\ nextId \in Nat
  /\ iter \in 0 .. MaxIterations
  /\ stop \in BOOLEAN
  /\ reason \in Reasons
  /\ lastError \in BOOLEAN
  /\ cancelled \in BOOLEAN
  /\ ret \in {"nil", "run", "endHook"}
  /\ endRan \in 0 .. NEnd
  /\ errors \in Nat
  /\ wrapped \in BOOLEAN
  /\ modelCalls \in Nat
  /\ lateCalls \in Nat

\* Every history sent to the model is complete: each tool call is answered
\* right behind the message that asked for it, and no answer lacks its call.
\* The documentation promises it for any conversation that feeds the messages
\* of one Run to the next, whatever way the earlier Runs ended.
RequestsComplete == pc \in {"inModel", "inWrap"} => Complete(msgs)

\* What a finished Run reports agrees with how it went: completed ends with a
\* reply without calls, aborted was stopped, max_iterations used them all and
\* was not stopped, cancelled had its ctx cancelled, error kept its error; and
\* Run returns its own error for exactly the last two.  So the answer of a task call
\* that carries no note is the reply its fork ended with, and not one from before.
ReasonExplainsRun ==
  pc = "done" =>
    /\ reason = "completed" => Last(msgs) = Assistant(<<>>) /\ ~stop
    /\ reason = "aborted" => stop
    /\ reason = "max_iterations" =>
         iter = MaxIterations /\ ~stop /\ (wrapped \/ cancelled)
    /\ reason = "cancelled" => cancelled
    /\ reason = "error" <=> lastError
    /\ ret = "run" <=> reason \in {"cancelled", "error"}
    /\ reason # "none"
    /\ ret = "nil" /\ FormatResult.note = "none" => FormatResult.answer = Len(msgs)

\* Nothing fails silently, and nothing else is reported as a failure: an error
\* event is emitted for a failed Run (a cancelled one is no error) and for a
\* failed end hook; however the Run ended all end hooks ran unless one failed.
FailuresReported ==
  pc = "done" =>
    LET ofHooks == errors - (IF reason = "error" THEN 1 ELSE 0) IN
    /\ ofHooks \in {0, 1}
    /\ endRan < NEnd => ofHooks = 1
    /\ ret = "endHook" => ofHooks = 1
    /\ ret = "nil" => ofHooks = 0

\* Cancelling stops the loop at the next check: at most one more model call is
\* started after the cancellation, the one whose check was already passed.
AtMostOneLateCall == lateCalls <= 1

\* Once Stop is set, by a hook or by a failure, this Run asks the model nothing.
StopSilencesModel == [][stop /\ turn' = turn => modelCalls' = modelCalls]_vars

=============================================================================
