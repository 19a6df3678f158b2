-------------------------- MODULE ToolBatchProofs --------------------------
(***************************************************************************)
(* Proofs about ToolBatch, for every number of calls and hooks and for     *)
(* both execution modes: type correctness, the inductive invariant, the    *)
(* safety properties that follow from it, and that the batch implements    *)
(* the abstract round of ToolRound.                                        *)
(***************************************************************************)
EXTENDS ToolBatch, TLAPS

(***************************************************************************)
(* Typing                                                                  *)
(***************************************************************************)

\* One step of a call's goroutine preserves the types.
LEMMA ProcessTyping ==
  ASSUME NEW i \in Calls, TypeOK, Process(i)
  PROVE  TypeOK'
<1> USE BatchAssumption DEF TypeOK, Calls, Labels, Contents, Goto, EndHalf,
        AfterStartHook, AfterEndHook, Publish, callVars, stopVars, outVars, envVars
<1>1. CASE Begin(i)
  BY <1>1 DEF Begin
<1>2. CASE StartProceed(i)
  <2>1. hk[i] \in Nat /\ hk[i] + 1 \in Nat /\ asked[i] + 1 \in Nat
    OBVIOUS
  <2>2. (IF hk[i] < NStart THEN hk[i] + 1 ELSE 1) \in Nat
    BY <2>1
  <2>3. hk' \in [Calls -> Nat]
    BY <1>2, <2>2 DEF StartProceed
  <2>4. asked' \in [Calls -> Nat]
    BY <1>2, <2>1 DEF StartProceed
  <2>5. QED
    BY <1>2, <2>3, <2>4 DEF StartProceed
<1>3. CASE StartSkip(i)
  BY <1>3 DEF StartSkip
<1>4. CASE StartAbort(i)
  BY <1>4 DEF StartAbort
<1>5. CASE StartError(i)
  <2>1. asked[i] + 1 \in Nat
    OBVIOUS
  <2>2. asked' \in [Calls -> Nat]
    BY <1>5, <2>1 DEF StartError
  <2>3. QED
    BY <1>5, <2>2 DEF StartError
<1>6. CASE AbortCancel(i)
  BY <1>6 DEF AbortCancel
<1>7. CASE Fail(i)
  <2>1. i \in 0 .. N
    OBVIOUS
  <2>2. QED
    BY <1>7, <2>1 DEF Fail
<1>8. CASE LookupFail(i)
  BY <1>8 DEF LookupFail
<1>9. CASE Invoke(i)
  BY <1>9 DEF Invoke
<1>10. CASE ToolReturn(i)
  BY <1>10 DEF ToolReturn
<1>11. CASE EndOk(i)
  <2>1. hk[i] + 1 \in Nat
    OBVIOUS
  <2>2. hk' \in [Calls -> Nat]
    BY <1>11, <2>1 DEF EndOk
  <2>3. QED
    BY <1>11, <2>2 DEF EndOk
<1>12. CASE EndError(i)
  <2>1. content[i] \in Contents \cup {"nil", "placeholder"}
    OBVIOUS
  <2>2. QED
    BY <1>12, <2>1 DEF EndError
<1>13. CASE Finish(i)
  <2>1. content[i] \in Contents \cup {"nil", "placeholder"}
    OBVIOUS
  <2>2. QED
    BY <1>13, <2>1 DEF Finish
<1>14. QED
  BY <1>1, <1>2, <1>3, <1>4, <1>5, <1>6, <1>7, <1>8, <1>9, <1>10, <1>11,
     <1>12, <1>13
     DEF Process, EngineStep, ExtensionStep, StartHookReturns, EndHookReturns

\* One step of the loop goroutine preserves the types.
LEMMA LoopTyping ==
  ASSUME TypeOK, LoopStep
  PROVE  TypeOK'
<1> USE BatchAssumption DEF TypeOK, Calls, Labels, Contents,
        callVars, stopVars, outVars, envVars
<1>1. CASE StartSummary
  BY <1>1 DEF StartSummary
<1>2. CASE Summarise
  <2> DEFINE i == Len(history) + 1
  <2>1. i \in Calls
    BY <1>2 DEF Summarise
  <2>2. /\ results' \in [Calls -> Contents \cup {"nil", "placeholder"}]
        /\ ends' \in [Calls -> Nat]
    <3>1. CASE results[i] = "nil"
      <4>1. ends[i] + 1 \in Nat
        BY <2>1
      <4>2. QED
        BY <1>2, <2>1, <3>1, <4>1 DEF Summarise
    <3>2. CASE results[i] # "nil"
      BY <1>2, <3>2 DEF Summarise
    <3>3. QED
      BY <3>1, <3>2
  <2>3. results'[i] \in Contents \cup {"nil", "placeholder"}
    BY <2>1, <2>2
  <2>4. history' \in Seq([id : Calls, answer : Contents \cup {"nil", "placeholder"}])
    BY <1>2, <2>1, <2>3 DEF Summarise
  <2>5. QED
    BY <1>2, <2>2, <2>4 DEF Summarise
<1>3. CASE Return
  BY <1>3 DEF Return
<1>4. QED
  BY <1>1, <1>2, <1>3 DEF LoopStep

\* Every variable of the batch always holds a value of its kind.
THEOREM BatchTyping == Spec => []TypeOK
<1>1. Init => TypeOK
  <2>1. <<>> \in Seq([id : Calls, answer : Contents \cup {"nil", "placeholder"}])
    OBVIOUS
  <2>2. 0 \in 0 .. N
    BY BatchAssumption
  <2>3. ASSUME Init
        PROVE  /\ history \in Seq([id : Calls, answer : Contents \cup {"nil", "placeholder"}])
               /\ hookErr \in 0 .. N
    BY <2>1, <2>2, <2>3 DEF Init
  <2>4. ASSUME Init
        PROVE  /\ phase \in {"calls", "summary", "returned"}
               /\ pc \in [Calls -> Labels]
               /\ content \in [Calls -> Contents]
               /\ results \in [Calls -> Contents \cup {"nil", "placeholder"}]
               /\ stopReason \in {"none", "aborted"}
    BY <2>4 DEF Init, Labels, Contents
  <2>5. ASSUME Init
        PROVE  /\ hk \in [Calls -> Nat]
               /\ asked \in [Calls -> Nat]
               /\ starts \in [Calls -> Nat]
               /\ ends \in [Calls -> Nat]
    BY <2>5 DEF Init
  <2>6. ASSUME Init
        PROVE  /\ proceed \in [Calls -> BOOLEAN]
               /\ invoked \in [Calls -> BOOLEAN]
               /\ aborted \in BOOLEAN
               /\ extCancelled \in BOOLEAN
               /\ serial \in BOOLEAN
               /\ callCancelled \in BOOLEAN
    BY <2>6 DEF Init
  <2>7. QED
    BY <2>3, <2>4, <2>5, <2>6 DEF TypeOK
<1>2. TypeOK /\ [Next]_vars => TypeOK'
  <2> SUFFICES ASSUME TypeOK, [Next]_vars
               PROVE  TypeOK'
    OBVIOUS
  <2>1. CASE \E i \in Calls : Process(i)
    BY <2>1, ProcessTyping
  <2>2. CASE LoopStep
    BY <2>2, LoopTyping
  <2>3. CASE ExternalCancel
    BY <2>3 DEF ExternalCancel, TypeOK, callVars, stopVars, outVars, envVars
  <2>4. CASE UNCHANGED vars
    BY <2>4 DEF vars, TypeOK, callVars, stopVars, outVars, envVars
  <2>5. QED
    BY <2>1, <2>2, <2>3, <2>4 DEF Next, Terminated
<1>3. QED
  BY <1>1, <1>2, PTL DEF Spec

(***************************************************************************)
(* The inductive invariant                                                 *)
(***************************************************************************)

\* What a step of process(i) leaves alone: the other calls, the loop
\* goroutine's variables, and a stop cause that is already recorded.
LEMMA ProcessFrame ==
  ASSUME NEW i \in Calls, TypeOK, Process(i)
  PROVE  /\ UNCHANGED outVars
         /\ aborted => aborted'
         /\ Stopping => Stopping'
         /\ \A j \in Calls : j # i =>
              UNCHANGED <<pc[j], proceed[j], invoked[j], content[j], results[j]>>
<1> USE DEF TypeOK, Goto, Publish, callVars, stopVars, outVars, envVars, Stopping
<1>1. CASE Begin(i)
  BY <1>1 DEF Begin
<1>2. CASE StartProceed(i)
  BY <1>2 DEF StartProceed
<1>3. CASE StartSkip(i)
  BY <1>3 DEF StartSkip
<1>4. CASE StartAbort(i)
  BY <1>4 DEF StartAbort
<1>5. CASE StartError(i)
  BY <1>5 DEF StartError
<1>6. CASE AbortCancel(i)
  BY <1>6 DEF AbortCancel
<1>7. CASE Fail(i)
  BY <1>7 DEF Fail
<1>8. CASE LookupFail(i)
  BY <1>8 DEF LookupFail
<1>9. CASE Invoke(i)
  BY <1>9 DEF Invoke
<1>10. CASE ToolReturn(i)
  BY <1>10 DEF ToolReturn
<1>11. CASE EndOk(i)
  BY <1>11 DEF EndOk
<1>12. CASE EndError(i)
  BY <1>12 DEF EndError
<1>13. CASE Finish(i)
  BY <1>13 DEF Finish
<1>14. QED
  BY <1>1, <1>2, <1>3, <1>4, <1>5, <1>6, <1>7, <1>8, <1>9, <1>10, <1>11,
     <1>12, <1>13
     DEF Process, EngineStep, ExtensionStep, StartHookReturns, EndHookReturns

\* A call's goroutine takes steps only while the loop waits for the calls.
LEMMA ProcessInCalls ==
  ASSUME NEW i \in Calls, TypeOK, SummaryInv, Process(i)
  PROVE  phase = "calls"
<1>1. CASE Begin(i)
  BY <1>1 DEF Begin
<1>2. CASE ~Begin(i)
  <2>1. pc[i] \in Labels \ {"ready", "returned"}
    BY <1>2 DEF Process, EngineStep, ExtensionStep, StartHookReturns,
       EndHookReturns, StartProceed, StartSkip, StartAbort, StartError,
       AbortCancel, Fail, LookupFail, Invoke, ToolReturn, EndOk, EndError,
       Finish, Labels
  <2>2. QED
    BY <2>1 DEF SummaryInv, CallsOver, TypeOK, Labels
<1>3. QED
  BY <1>1, <1>2

\* The stepping call keeps its own invariant.
LEMMA OwnCallInv ==
  ASSUME NEW i \in Calls, TypeOK, CallInv(i), phase = "calls", Process(i)
  PROVE  CallInv(i)'
<1>1. results[i] # "placeholder"
  BY DEF CallInv
<1> USE <1>1 DEF CallInv, TypeOK, Labels, Contents, Goto, Publish, EndHalf,
        AfterStartHook, AfterEndHook, callVars, stopVars, outVars, envVars, Stopping
<1>2. CASE Begin(i)
  BY <1>2 DEF Begin
<1>3. CASE StartProceed(i)
  BY <1>3 DEF StartProceed
<1>4. CASE StartSkip(i)
  BY <1>4 DEF StartSkip
<1>5. CASE StartAbort(i)
  BY <1>5 DEF StartAbort
<1>6. CASE StartError(i)
  BY <1>6 DEF StartError
<1>7. CASE AbortCancel(i)
  BY <1>7 DEF AbortCancel
<1>8. CASE Fail(i)
  <2>1. i # 0
    BY DEF Calls
  <2>2. QED
    BY <1>8, <2>1 DEF Fail
<1>9. CASE LookupFail(i)
  BY <1>9 DEF LookupFail
<1>10. CASE Invoke(i)
  BY <1>10 DEF Invoke
<1>11. CASE ToolReturn(i)
  BY <1>11 DEF ToolReturn
<1>12. CASE EndOk(i)
  BY <1>12 DEF EndOk
<1>13. CASE EndError(i)
  BY <1>13 DEF EndError
<1>14. CASE Finish(i)
  BY <1>14 DEF Finish
<1>15. QED
  BY <1>2, <1>3, <1>4, <1>5, <1>6, <1>7, <1>8, <1>9, <1>10, <1>11, <1>12,
     <1>13, <1>14
     DEF Process, EngineStep, ExtensionStep, StartHookReturns, EndHookReturns

\* So a step of any call's goroutine preserves the inductive invariant.
LEMMA ProcessBatchInv ==
  ASSUME NEW i \in Calls, TypeOK, BatchInv, Process(i)
  PROVE  BatchInv'
<1>1. phase = "calls"
  BY ProcessInCalls DEF BatchInv
<1>2. /\ UNCHANGED <<phase, history>>
      /\ aborted => aborted'
      /\ Stopping => Stopping'
  BY ProcessFrame DEF outVars
<1>3. ASSUME NEW j \in Calls
      PROVE  CallInv(j)'
  <2>1. CASE j = i
    BY <1>1, <2>1, OwnCallInv DEF BatchInv
  <2>2. CASE j # i
    <3>1. UNCHANGED <<pc[j], proceed[j], invoked[j], content[j], results[j]>>
      BY <2>2, ProcessFrame
    <3>2. CallInv(j)
      BY DEF BatchInv
    <3>3. QED
      BY <1>2, <3>1, <3>2 DEF CallInv
  <2>3. QED
    BY <2>1, <2>2
<1>4. SummaryInv'
  <2>1. history = <<>> /\ history' = <<>>
    BY <1>1, <1>2 DEF BatchInv, SummaryInv
  <2>2. Len(history') = 0 /\ phase' = "calls"
    BY <1>1, <1>2, <2>1
  <2>3. QED
    BY <2>1, <2>2, BatchAssumption DEF SummaryInv
<1>5. QED
  BY <1>3, <1>4 DEF BatchInv

\* One turn of the summary loop preserves it: the answer just written is the
\* call's final result, and the entries before it are untouched.
LEMMA SummariseBatchInv ==
  ASSUME TypeOK, BatchInv, Summarise
  PROVE  BatchInv'
<1> DEFINE i == Len(history) + 1
<1>1. i \in Calls
  BY BatchAssumption DEF Summarise, TypeOK, Calls
<1>2. /\ phase = "summary" /\ phase' = "summary"
      /\ UNCHANGED <<serial, pc, proceed, invoked, content, aborted, hookErr>>
  BY DEF Summarise, stopVars, envVars
<1>3. CallsOver /\ pc[i] \in {"ready", "returned"}
  BY <1>1, <1>2 DEF BatchInv, SummaryInv, CallsOver
<1>4. /\ results'[i] = IF results[i] = "nil" THEN "placeholder" ELSE results[i]
      /\ \A j \in Calls : j # i => results'[j] = results[j]
      /\ results' \in [Calls -> Contents \cup {"nil", "placeholder"}]
  <2>1. results \in [Calls -> Contents \cup {"nil", "placeholder"}]
    BY DEF TypeOK
  <2>2. QED
    BY <1>1, <2>1 DEF Summarise
<1>5. ASSUME NEW j \in Calls
      PROVE  CallInv(j)'
  <2>1. CallInv(j)
    BY DEF BatchInv
  <2>2. CASE j # i \/ results[i] # "nil"
    <3>1. results'[j] = results[j]
      BY <1>4, <2>2
    <3>2. QED
      BY <1>2, <2>1, <3>1 DEF CallInv, Stopping
  <2>3. CASE j = i /\ results[i] = "nil"
    <3>1. Stopping /\ ~invoked[i]
      BY <1>1, <1>3, <2>1, <2>3 DEF CallsOver, CallInv, TypeOK, Contents
    <3>2. results'[i] = "placeholder"
      BY <1>4, <2>3
    <3>3. QED
      BY <1>2, <1>3, <2>1, <2>3, <3>1, <3>2 DEF CallInv, Stopping
  <2>4. QED
    BY <2>2, <2>3
<1>6. SummaryInv'
  <2>1. history \in Seq([id : Calls, answer : Contents \cup {"nil", "placeholder"}])
    BY DEF TypeOK
  <2>2. history' = Append(history, [id |-> i, answer |-> results'[i]])
    BY DEF Summarise
  <2>3. Len(history') = i
    BY <2>1, <2>2
  <2>4. \A k \in 1 .. Len(history) : history'[k] = history[k]
    BY <2>1, <2>2
  <2>5. history'[i] = [id |-> i, answer |-> results'[i]]
    BY <2>1, <2>2
  <2>6. ASSUME NEW k \in 1 .. Len(history')
        PROVE  /\ history'[k].id = k
               /\ history'[k].answer = results'[k]
               /\ results'[k] # "nil"
    <3>1. CASE k = i
      BY <1>4, <2>5, <3>1
    <3>2. CASE k # i
      <4>1. k \in 1 .. Len(history) /\ k \in Calls
        BY <1>1, <2>1, <2>3, <3>2, BatchAssumption DEF Calls
      <4>2. results'[k] = results[k]
        BY <1>4, <3>2, <4>1
      <4>3. QED
        BY <2>4, <4>1, <4>2 DEF BatchInv, SummaryInv
    <3>3. QED
      BY <3>1, <3>2
  <2>7. CallsOver'
    BY <1>2, <1>3 DEF CallsOver, Stopping
  <2>8. Len(history') <= N
    BY <1>1, <2>3 DEF Calls
  <2>9. QED
    BY <1>2, <2>6, <2>7, <2>8 DEF SummaryInv
<1>7. QED
  BY <1>5, <1>6 DEF BatchInv

\* The invariant that ties a call's result to where its goroutine is, and the
\* written history to those results, holds in every reachable state.
THEOREM BatchInvariant == Spec => []BatchInv
<1>1. Init => BatchInv
  <2> SUFFICES ASSUME Init
               PROVE  BatchInv
    OBVIOUS
  <2>1. \A i \in Calls : CallInv(i)
    BY DEF Init, CallInv
  <2>2. SummaryInv
    <3>1. Len(history) = 0
      BY DEF Init
    <3>2. QED
      BY <3>1, BatchAssumption DEF Init, SummaryInv
  <2>3. QED
    BY <2>1, <2>2 DEF BatchInv
<1>2. TypeOK /\ BatchInv /\ [Next]_vars => BatchInv'
  <2> SUFFICES ASSUME TypeOK, BatchInv, [Next]_vars
               PROVE  BatchInv'
    OBVIOUS
  <2>1. CASE \E i \in Calls : Process(i)
    BY <2>1, ProcessBatchInv
  <2>2. CASE StartSummary
    BY <2>2 DEF StartSummary, BatchInv, CallInv, SummaryInv, CallsOver,
       Stopping, callVars, stopVars, envVars
  <2>3. CASE Summarise
    BY <2>3, SummariseBatchInv
  <2>4. CASE Return
    BY <2>4 DEF Return, BatchInv, CallInv, SummaryInv, CallsOver, Stopping,
       callVars, envVars
  <2>5. CASE ExternalCancel
    BY <2>5 DEF ExternalCancel, BatchInv, CallInv, SummaryInv, CallsOver,
       Stopping, callVars, stopVars, outVars, envVars
  <2>6. CASE UNCHANGED vars
    BY <2>6 DEF vars, BatchInv, CallInv, SummaryInv, CallsOver, Stopping,
       callVars, stopVars, outVars, envVars
  <2>7. QED
    BY <2>1, <2>2, <2>3, <2>4, <2>5, <2>6 DEF Next, LoopStep, Terminated
<1>3. QED
  BY <1>1, <1>2, BatchTyping, PTL DEF Spec

(***************************************************************************)
(* Safety                                                                  *)
(***************************************************************************)

\* However the batch ended, every tool call has exactly one tool message, in
\* call order, with a result in it.
THEOREM BatchProtocolComplete == Spec => []ProtocolComplete
<1>1. TypeOK /\ BatchInv => ProtocolComplete
  <2> SUFFICES ASSUME TypeOK, BatchInv, phase = "returned"
               PROVE  /\ Len(history) = N
                      /\ \A i \in Calls : /\ history[i].id = i
                                          /\ history[i].answer \notin {"nil", "empty"}
    BY DEF ProtocolComplete
  <2>1. Len(history) = N
    BY DEF BatchInv, SummaryInv
  <2>2. ASSUME NEW i \in Calls
        PROVE  history[i].id = i /\ history[i].answer \notin {"nil", "empty"}
    <3>1. /\ history[i].id = i
          /\ history[i].answer = results[i]
          /\ results[i] # "nil"
      BY <2>1 DEF BatchInv, SummaryInv, Calls
    <3>2. pc[i] \in {"ready", "returned"} /\ CallInv(i)
      BY DEF BatchInv, SummaryInv, CallsOver
    <3>3. results[i] # "empty"
      BY <3>2 DEF CallInv
    <3>4. QED
      BY <3>1, <3>3
  <2>3. QED
    BY <2>1, <2>2
<1>2. QED
  BY <1>1, BatchTyping, BatchInvariant, PTL

\* The placeholder is written only for a tool that never started, in a batch
\* that was stopped; a refusal only for a tool that never started; output
\* only for a tool that did.
THEOREM BatchTruthfulAnswers == Spec => []TruthfulAnswers
<1>1. TypeOK /\ BatchInv => TruthfulAnswers
  <2> SUFFICES ASSUME TypeOK, BatchInv, NEW k \in 1 .. Len(history)
               PROVE  LET h == history[k] IN
                      /\ h.answer = "placeholder" => ~invoked[h.id] /\ Stopping
                      /\ h.answer = "skip" => ~invoked[h.id]
                      /\ h.answer = "ok" => invoked[h.id]
    BY DEF TruthfulAnswers
  <2>1. k \in Calls /\ phase # "calls"
    <3>1. Len(history) <= N /\ Len(history) \in Nat
      BY DEF BatchInv, SummaryInv, TypeOK
    <3>2. phase # "calls"
      BY <3>1 DEF BatchInv, SummaryInv
    <3>3. QED
      BY <3>1, <3>2, BatchAssumption DEF Calls
  <2>2. history[k].id = k /\ history[k].answer = results[k] /\ results[k] # "nil"
    BY DEF BatchInv, SummaryInv
  <2>3. CallInv(k) /\ pc[k] \in {"ready", "returned"}
    BY <2>1 DEF BatchInv, SummaryInv, CallsOver
  <2>4. content[k] \in Contents
    BY <2>1 DEF TypeOK
  <2>5. /\ results[k] = "placeholder" => ~invoked[k] /\ Stopping
        /\ results[k] = "skip" => ~invoked[k]
        /\ results[k] = "ok" => invoked[k]
    BY <2>2, <2>3, <2>4 DEF CallInv, Contents
  <2>6. QED
    BY <2>2, <2>5
<1>2. QED
  BY <1>1, BatchTyping, BatchInvariant, PTL

\* A recorded hook error is never replaced, and none is recorded after an Abort.
THEOREM BatchFirstCauseWins == Spec => FirstCauseWins
<1> DEFINE Step == /\ hookErr # 0 => hookErr' = hookErr
                   /\ aborted /\ hookErr = 0 => hookErr' = 0
<1>1. [Next]_vars => Step \/ UNCHANGED vars
  <2> SUFFICES ASSUME Next
               PROVE  Step
    OBVIOUS
  <2>1. CASE \E i \in Calls : Fail(i)
    BY <2>1 DEF Fail, Stopping, stopVars
  <2>2. CASE ~\E i \in Calls : Fail(i)
    <3>1. hookErr' = hookErr
      BY <2>2 DEF Next, Process, EngineStep, ExtensionStep, StartHookReturns,
         EndHookReturns, LoopStep, StartSummary, Summarise, Return,
         ExternalCancel, Terminated, Begin, StartProceed, StartSkip,
         StartAbort, StartError, AbortCancel, LookupFail, Invoke, ToolReturn,
         EndOk, EndError, Finish, vars, stopVars
    <3>2. QED
      BY <3>1
  <2>3. QED
    BY <2>1, <2>2
<1>2. QED
  BY <1>1, PTL DEF Spec, FirstCauseWins

\* After a Skip verdict no later start hook and no tool runs for the call.
THEOREM BatchDeniedIsFinal == Spec => DeniedIsFinal
<1> DEFINE Step == \A i \in Calls : ~proceed[i] => /\ asked'[i] = asked[i]
                                                  /\ invoked'[i] = invoked[i]
<1>1. TypeOK /\ BatchInv /\ [Next]_vars => Step \/ UNCHANGED vars
  <2> SUFFICES ASSUME TypeOK, BatchInv, Next, NEW j \in Calls, ~proceed[j]
               PROVE  asked'[j] = asked[j] /\ invoked'[j] = invoked[j]
    OBVIOUS
  <2>1. pc[j] \notin {"start", "invoke", "running"}
    BY DEF BatchInv, CallInv
  <2>2. ASSUME NEW i \in Calls, Process(i)
        PROVE  asked'[j] = asked[j] /\ invoked'[j] = invoked[j]
    BY <2>1, <2>2 DEF TypeOK, Process, EngineStep, ExtensionStep,
       StartHookReturns, EndHookReturns, Begin, StartProceed, StartSkip,
       StartAbort, StartError, AbortCancel, Fail, LookupFail, Invoke,
       ToolReturn, EndOk, EndError, Finish
  <2>3. CASE LoopStep \/ ExternalCancel \/ UNCHANGED vars
    BY <2>3 DEF LoopStep, StartSummary, Summarise, Return, ExternalCancel,
       vars, callVars
  <2>4. QED
    BY <2>2, <2>3 DEF Next, Terminated
<1>2. QED
  BY <1>1, BatchTyping, BatchInvariant, PTL DEF Spec, DeniedIsFinal

(***************************************************************************)
(* Events                                                                  *)
(***************************************************************************)

\* What has been emitted for call i is what has happened to it: tool_start
\* once its goroutine has begun, tool_end once its result is filled in, by the
\* goroutine or by the summary.
EventInv ==
  \A i \in Calls : /\ starts[i] = IF pc[i] = "ready" THEN 0 ELSE 1
                   /\ ends[i] = IF results[i] = "nil" THEN 0 ELSE 1

\* The two ways a result is published come with its tool_end.
LEMMA PublishCounts ==
  ASSUME NEW i \in Calls, TypeOK, BatchInv, EventInv, Publish(i),
         pc[i] \in {"end", "finish"}
  PROVE  \A j \in Calls : ends'[j] = IF results'[j] = "nil" THEN 0 ELSE 1
<1>1. results[i] = "nil" /\ ends[i] = 0
  BY DEF BatchInv, CallInv, EventInv
<1>2. content[i] # "nil"
  BY DEF TypeOK, Contents
<1>3. ends'[i] = 1 /\ results'[i] = content[i]
  BY <1>1 DEF Publish, TypeOK
<1>4. \A j \in Calls : j # i => ends'[j] = ends[j] /\ results'[j] = results[j]
  BY DEF Publish, TypeOK
<1>5. QED
  BY <1>2, <1>3, <1>4 DEF EventInv

\* A step of a call's goroutine keeps the count of events in step with it.
LEMMA ProcessEventInv ==
  ASSUME NEW i \in Calls, TypeOK, BatchInv, EventInv, Process(i)
  PROVE  EventInv'
<1>1. CASE Begin(i)
  <2>1. starts[i] = 0 /\ starts' = [starts EXCEPT ![i] = starts[i] + 1]
    BY <1>1 DEF Begin, EventInv
  <2>2. pc'[i] # "ready" /\ \A j \in Calls : j # i => pc'[j] = pc[j]
    BY <1>1 DEF Begin, Goto, TypeOK
  <2>3. UNCHANGED <<ends, results>>
    BY <1>1 DEF Begin
  <2>4. starts'[i] = 1 /\ \A j \in Calls : j # i => starts'[j] = starts[j]
    BY <2>1 DEF TypeOK
  <2>5. QED
    BY <2>2, <2>3, <2>4 DEF EventInv
<1>2. CASE ~Begin(i)
  <2>1. /\ starts' = starts
        /\ pc[i] # "ready" /\ pc'[i] # "ready"
        /\ \A j \in Calls : j # i => pc'[j] = pc[j]
    BY <1>2 DEF Process, EngineStep, ExtensionStep, StartHookReturns,
       EndHookReturns, StartProceed, StartSkip, StartAbort, StartError,
       AbortCancel, Fail, LookupFail, Invoke, ToolReturn, EndOk, EndError,
       Finish, Goto, EndHalf, AfterStartHook, AfterEndHook, TypeOK
  <2>2. \A j \in Calls : starts'[j] = IF pc'[j] = "ready" THEN 0 ELSE 1
    BY <2>1 DEF EventInv
  <2>3. \A j \in Calls : ends'[j] = IF results'[j] = "nil" THEN 0 ELSE 1
    <3>1. CASE Finish(i) \/ EndError(i)
      BY <3>1, PublishCounts DEF Finish, EndError
    <3>2. CASE ~(Finish(i) \/ EndError(i))
      <4>1. UNCHANGED <<ends, results>>
        BY <1>2, <3>2 DEF Process, EngineStep, ExtensionStep, StartHookReturns,
           EndHookReturns, StartProceed, StartSkip, StartAbort, StartError,
           AbortCancel, Fail, LookupFail, Invoke, ToolReturn, EndOk
      <4>2. QED
        BY <4>1 DEF EventInv
    <3>3. QED
      BY <3>1, <3>2
  <2>4. QED
    BY <2>2, <2>3 DEF EventInv
<1>3. QED
  BY <1>1, <1>2

\* A result the summary fills in comes with its tool_end as well.
LEMMA SummariseEventInv ==
  ASSUME TypeOK, EventInv, Summarise
  PROVE  EventInv'
<1> DEFINE i == Len(history) + 1
<1>1. i \in Calls
  BY BatchAssumption DEF Summarise, TypeOK, Calls
<1>2. UNCHANGED <<pc, starts>>
  BY DEF Summarise
<1>3. CASE results[i] = "nil"
  <2>1. /\ results' = [results EXCEPT ![i] = "placeholder"]
        /\ ends' = [ends EXCEPT ![i] = @ + 1]
    BY <1>3 DEF Summarise
  <2>2. ends[i] = 0
    BY <1>1, <1>3 DEF EventInv
  <2>3. ends'[i] = 1 /\ results'[i] = "placeholder"
    BY <1>1, <2>1, <2>2 DEF TypeOK
  <2>4. \A j \in Calls : j # i => ends'[j] = ends[j] /\ results'[j] = results[j]
    BY <2>1 DEF TypeOK
  <2>5. QED
    BY <1>2, <2>3, <2>4 DEF EventInv
<1>4. CASE results[i] # "nil"
  BY <1>2, <1>4 DEF Summarise, EventInv
<1>5. QED
  BY <1>3, <1>4

\* The events emitted for a call follow its progress in every reachable state.
LEMMA EventsCounted == Spec => []EventInv
<1>1. Init => EventInv
  BY DEF Init, EventInv
<1>2. TypeOK /\ BatchInv /\ EventInv /\ [Next]_vars => EventInv'
  <2> SUFFICES ASSUME TypeOK, BatchInv, EventInv, [Next]_vars
               PROVE  EventInv'
    OBVIOUS
  <2>1. CASE \E i \in Calls : Process(i)
    BY <2>1, ProcessEventInv
  <2>2. CASE Summarise
    BY <2>2, SummariseEventInv
  <2>3. CASE StartSummary \/ Return \/ ExternalCancel \/ UNCHANGED vars
    <3>1. UNCHANGED callVars
      BY <2>3 DEF StartSummary, Return, ExternalCancel, vars
    <3>2. QED
      BY <3>1 DEF callVars, EventInv
  <2>4. QED
    BY <2>1, <2>2, <2>3 DEF Next, LoopStep, Terminated
<1>3. QED
  BY <1>1, <1>2, BatchTyping, BatchInvariant, PTL DEF Spec

\* Consumers see exactly one tool_end per call, and in a concurrent batch
\* never before that call's tool_start, however the batch is stopped.
THEOREM BatchEndEventOnce == Spec => []EndEventOnce
<1>1. TypeOK /\ BatchInv /\ EventInv => EndEventOnce
  <2> SUFFICES ASSUME TypeOK, BatchInv, EventInv
               PROVE  EndEventOnce
    OBVIOUS
  <2>1. ASSUME NEW i \in Calls, ~serial, results[i] # "nil"
        PROVE  pc[i] # "ready"
    <3>1. CASE phase = "calls"
      BY <2>1, <3>1 DEF BatchInv, CallInv
    <3>2. CASE phase # "calls"
      BY <2>1, <3>2 DEF BatchInv, SummaryInv, CallsOver
    <3>3. QED
      BY <3>1, <3>2
  <2>2. ASSUME NEW i \in Calls
        PROVE  ends[i] <= 1 /\ (~serial => ends[i] <= starts[i])
    BY <2>1 DEF EventInv
  <2>3. ASSUME NEW i \in Calls, phase = "returned"
        PROVE  ends[i] = 1
    <3>1. i \in 1 .. Len(history)
      BY <2>3 DEF BatchInv, SummaryInv, Calls
    <3>2. results[i] # "nil"
      BY <3>1 DEF BatchInv, SummaryInv
    <3>3. QED
      BY <3>2 DEF EventInv
  <2>4. QED
    BY <2>2, <2>3 DEF EndEventOnce
<1>2. QED
  BY <1>1, BatchTyping, BatchInvariant, EventsCounted, PTL

(***************************************************************************)
(* Refinement                                                              *)
(***************************************************************************)

\* The mapped log is a sequence as long as the history.
LEMMA RoundLogLen ==
  ASSUME TypeOK
  PROVE  /\ RoundLog \in Seq({"none", "real"})
         /\ Len(RoundLog) = Len(history)
<1>1. Len(history) \in Nat
  BY DEF TypeOK
<1>2. QED
  BY <1>1 DEF RoundLog

\* Appending a tool message appends one answer to the mapped log.
LEMMA RoundLogAppend ==
  ASSUME TypeOK, TypeOK', NEW e, history' = Append(history, e)
  PROVE  RoundLog' = Append(RoundLog,
                       IF e.answer = "placeholder" THEN "none" ELSE "real")
<1> DEFINE n == Len(history)
           a == IF e.answer = "placeholder" THEN "none" ELSE "real"
<1>1. /\ n \in Nat
      /\ Len(history') = n + 1
      /\ history'[n + 1] = e
      /\ \A k \in 1 .. n : history'[k] = history[k]
  BY DEF TypeOK
<1>2. /\ RoundLog \in Seq({"none", "real"})
      /\ Len(RoundLog) = n
      /\ RoundLog' \in Seq({"none", "real"})
      /\ Len(RoundLog') = n + 1
  <2>1. Len(history') \in Nat
    BY <1>1
  <2>2. RoundLog' \in Seq({"none", "real"}) /\ Len(RoundLog') = Len(history')
    BY <2>1 DEF RoundLog
  <2>3. QED
    BY <1>1, <2>2, RoundLogLen
<1>3. \A k \in 1 .. n + 1 : RoundLog'[k] = Append(RoundLog, a)[k]
  <2>1. ASSUME NEW k \in 1 .. n
        PROVE  RoundLog'[k] = RoundLog[k]
    <3>1. RoundLog[k] = IF history[k].answer = "placeholder" THEN "none" ELSE "real"
      BY DEF RoundLog
    <3>2. k \in 1 .. Len(history')
      BY <1>1
    <3>3. RoundLog'[k] = IF history'[k].answer = "placeholder" THEN "none" ELSE "real"
      BY <3>2 DEF RoundLog
    <3>4. QED
      BY <1>1, <3>1, <3>3
  <2>2. RoundLog'[n + 1] = a
    BY <1>1 DEF RoundLog
  <2>3. QED
    BY <1>1, <1>2, <2>1, <2>2
<1>4. Append(RoundLog, a) \in Seq({"none", "real"}) /\ Len(Append(RoundLog, a)) = n + 1
  BY <1>2
<1>5. QED
  BY <1>2, <1>3, <1>4

\* A step that leaves the mapped variables' sources alone is a stutter.
LEMMA RoundStutter ==
  ASSUME UNCHANGED <<invoked, hookErr, aborted, history>>, RoundOpen' = RoundOpen
  PROVE  UNCHANGED Round!roundVars
BY DEF Round!roundVars, RoundEffects, RoundCause, RoundLog

\* A step of a call's goroutine is an Effect, a Cause or a stutter.
LEMMA ProcessRefines ==
  ASSUME NEW i \in Calls, TypeOK, BatchInv, Process(i)
  PROVE  Round!RoundNext \/ UNCHANGED Round!roundVars
<1>1. phase = "calls" /\ history = <<>>
  BY ProcessInCalls DEF BatchInv, SummaryInv
<1>2. UNCHANGED <<phase, history>>
  BY ProcessFrame DEF outVars
<1>3. /\ RoundOpen /\ RoundOpen' = RoundOpen
      /\ RoundLog = <<>> /\ RoundLog' = RoundLog
  <2>1. Len(history) = 0
    BY <1>1
  <2>2. RoundLog \in Seq({"none", "real"}) /\ Len(RoundLog) = 0
    BY <2>1, RoundLogLen
  <2>3. QED
    BY <1>1, <1>2, <2>2 DEF RoundOpen, RoundLog
<1>4. CASE Invoke(i)
  <2>1. CallInv(i) /\ ~invoked[i]
    BY <1>4 DEF BatchInv, CallInv, Invoke
  <2>2. RoundEffects' = RoundEffects \cup {i} /\ i \notin RoundEffects
    BY <1>4, <2>1 DEF Invoke, RoundEffects, TypeOK
  <2>3. RoundCause' = RoundCause
    BY <1>4 DEF Invoke, RoundCause, stopVars
  <2>4. Round!Effect(i)
    BY <1>3, <2>2, <2>3 DEF Round!Effect
  <2>5. QED
    BY <2>4 DEF Round!RoundNext, Calls
<1>5. CASE StartAbort(i)
  <2>1. RoundEffects' = RoundEffects
    BY <1>5 DEF StartAbort, RoundEffects
  <2>2. CASE Stopping
    <3>1. RoundCause' = RoundCause
      BY <1>5, <2>2 DEF StartAbort, RoundCause, Stopping
    <3>2. QED
      BY <1>3, <2>1, <3>1 DEF Round!roundVars
  <2>3. CASE ~Stopping
    <3>1. RoundCause = "none" /\ RoundCause' = "abort"
      BY <1>5, <2>3 DEF StartAbort, RoundCause, Stopping
    <3>2. Round!Cause("abort")
      BY <1>3, <2>1, <3>1 DEF Round!Cause
    <3>3. QED
      BY <3>2 DEF Round!RoundNext
  <2>4. QED
    BY <2>2, <2>3
<1>6. CASE Fail(i)
  <2>1. RoundEffects' = RoundEffects
    BY <1>6 DEF Fail, RoundEffects
  <2>2. CASE Stopping
    <3>1. RoundCause' = RoundCause
      BY <1>6, <2>2 DEF Fail, RoundCause, stopVars
    <3>2. QED
      BY <1>3, <2>1, <3>1 DEF Round!roundVars
  <2>3. CASE ~Stopping
    <3>1. RoundCause = "none" /\ RoundCause' = "error"
      BY <1>6, <2>3 DEF Fail, RoundCause, Stopping, Calls
    <3>2. Round!Cause("error")
      BY <1>3, <2>1, <3>1 DEF Round!Cause
    <3>3. QED
      BY <3>2 DEF Round!RoundNext
  <2>4. QED
    BY <2>2, <2>3
<1>7. CASE ~(Invoke(i) \/ StartAbort(i) \/ Fail(i))
  <2>1. UNCHANGED <<invoked, hookErr, aborted>>
    BY <1>7 DEF Process, EngineStep, ExtensionStep, StartHookReturns,
       EndHookReturns, Begin, StartProceed, StartSkip, StartError,
       AbortCancel, LookupFail, ToolReturn, EndOk, EndError, Finish, stopVars
  <2>2. QED
    BY <1>2, <1>3, <2>1, RoundStutter
<1>8. QED
  BY <1>4, <1>5, <1>6, <1>7

\* One turn of the summary loop is an Answer: the placeholder goes only to a
\* call without an effect, and only when there is a cause.
LEMMA SummariseRefines ==
  ASSUME TypeOK, TypeOK', BatchInv, BatchInv', Summarise
  PROVE  Round!RoundNext
<1> DEFINE n == Len(history)
           e == [id |-> n + 1, answer |-> results'[n + 1]]
           a == IF e.answer = "placeholder" THEN "none" ELSE "real"
<1>1. n \in Nat /\ n + 1 \in Calls /\ Len(RoundLog) = n
  <2>1. n \in Nat
    BY DEF TypeOK
  <2>2. n + 1 <= N
    BY DEF Summarise
  <2>3. QED
    BY <2>1, <2>2, RoundLogLen, BatchAssumption DEF Calls
<1>2. /\ RoundEffects' = RoundEffects
      /\ RoundCause' = RoundCause
      /\ RoundOpen /\ RoundOpen' = RoundOpen
  BY DEF Summarise, RoundEffects, RoundCause, RoundOpen, stopVars
<1>3. RoundLog' = Append(RoundLog, a)
  <2>1. history' = Append(history, e)
    BY DEF Summarise
  <2>2. QED
    BY <2>1, RoundLogAppend
<1>4. a = "none" => RoundCause # "none" /\ n + 1 \notin RoundEffects
  <2>1. PICK c \in Calls : c = n + 1
    BY <1>1
  <2>2. CallInv(c)'
    BY DEF BatchInv
  <2>3. CASE results'[c] = "placeholder"
    <3>1. pc'[c] \in {"ready", "returned"} /\ content'[c] \in Contents
      BY DEF BatchInv, SummaryInv, CallsOver, Summarise, TypeOK
    <3>2. Stopping' /\ ~invoked'[c]
      BY <2>2, <2>3, <3>1 DEF CallInv, Contents
    <3>3. QED
      BY <1>2, <2>1, <3>2 DEF RoundCause, RoundEffects, Stopping
  <2>4. CASE results'[c] # "placeholder"
    BY <2>1, <2>4
  <2>5. QED
    BY <2>3, <2>4
<1>5. n < N
  BY <1>1, BatchAssumption DEF Calls
<1>6. Round!Answer(a)
  BY <1>1, <1>2, <1>3, <1>4, <1>5 DEF Round!Answer
<1>7. QED
  BY <1>6 DEF Round!RoundNext

\* The batch implements the abstract round of tool calls: at most one recorded
\* cause, effects before answers, and every call answered once, in order.
THEOREM BatchRefinesRound == Spec => RefinesRound
<1>1. Init => Round!RoundInit
  <2> SUFFICES ASSUME Init
               PROVE  Round!RoundInit
    OBVIOUS
  <2>1. RoundEffects = {} /\ RoundCause = "none" /\ RoundOpen
    BY DEF Init, RoundEffects, RoundCause, RoundOpen
  <2>2. RoundLog \in Seq({"none", "real"}) /\ Len(RoundLog) = 0
    <3>1. Len(history) = 0
      BY DEF Init
    <3>2. QED
      BY <3>1 DEF RoundLog
  <2>3. QED
    BY <2>1, <2>2 DEF Round!RoundInit
<1>2. /\ TypeOK /\ TypeOK' /\ BatchInv /\ BatchInv' /\ [Next]_vars
      => [Round!RoundNext]_(Round!roundVars)
  <2> SUFFICES ASSUME TypeOK, TypeOK', BatchInv, BatchInv', [Next]_vars
               PROVE  Round!RoundNext \/ UNCHANGED Round!roundVars
    OBVIOUS
  <2>1. CASE \E i \in Calls : Process(i)
    BY <2>1, ProcessRefines
  <2>2. CASE StartSummary
    BY <2>2, RoundStutter DEF StartSummary, RoundOpen, callVars, stopVars
  <2>3. CASE Summarise
    BY <2>3, SummariseRefines
  <2>4. CASE Return
    <3>1. Len(RoundLog) = N
      BY <2>4, RoundLogLen DEF Return
    <3>2. /\ RoundEffects' = RoundEffects
          /\ RoundCause' = RoundCause
          /\ RoundLog' = RoundLog
          /\ RoundOpen /\ ~RoundOpen'
      BY <2>4 DEF Return, RoundEffects, RoundCause, RoundLog, RoundOpen, callVars
    <3>3. Round!Close
      BY <3>1, <3>2 DEF Round!Close
    <3>4. QED
      BY <3>3 DEF Round!RoundNext
  <2>5. CASE ExternalCancel \/ UNCHANGED vars
    BY <2>5, RoundStutter DEF ExternalCancel, vars, RoundOpen, callVars,
       stopVars, outVars
  <2>6. QED
    BY <2>1, <2>2, <2>3, <2>4, <2>5 DEF Next, LoopStep, Terminated
<1>3. QED
  BY <1>1, <1>2, BatchTyping, BatchInvariant, PTL
     DEF Spec, RefinesRound, Round!RoundSpec
=============================================================================
