--------------------------- MODULE ModelCallProofs ---------------------------
(***************************************************************************)
(* ModelCall: proofs for any options, any timeout and any number of calls. *)
(* RetryInv collects what links a wait to the attempt that follows it;     *)
(* TimerInv says how the timer, the pending Touch and the data are related.*)
(***************************************************************************)
EXTENDS ModelCall, FiniteSetTheorems, TLAPS

TypeInv ==
  /\ TypeOK
  /\ pc # "rest" => attempt >= 1
  /\ pc = "backoff" => attempt < MaxAttempts
  /\ late <= attempt

ShownInv ==
  /\ shownBy \subseteq {attempt}
  /\ pc # "rest" /\ shownBy # {} => emitted
  /\ pc = "backoff" => ~emitted

BudgetInv ==
  TotalBudget > 0 =>
    /\ asleep <= TotalBudget
    /\ ctx = "live" => asleep = waited + (IF pc = "backoff" THEN slept ELSE 0)
    /\ pc = "backoff" => waited + delay <= TotalBudget

LateInv ==
  /\ late <= 1
  /\ late > 0 => ctx # "live"
  /\ late > 0 /\ pc = "backoff" => slept < delay

TimerInv ==
  streaming /\ Attempting /\ ~fired =>
    IF touched THEN quiet = 0 /\ (left = Idle \/ left + gap = Idle)
               ELSE left + quiet = Idle

\* The delay before an attempt is a positive number.
LEMMA DelaysPositive ==
  ASSUME attempt \in 1..MaxAttempts, NEW d \in Delays
  PROVE  d \in Nat \ {0}
<1> DEFINE b == BaseDelay * 2^(attempt - 1)
<1>1. b \in Nat \ {0}
  BY NoOverflowAssumption
<1>2. d \in b..(b + (b + 4) \div 5)
  BY DEF Delays
<1> HIDE DEF b
<1>3. (b + 4) \div 5 \in Int
  BY <1>1
<1> QED
  BY <1>1, <1>2, <1>3

\* Cutting a wait to the rest of the budget leaves it positive.
LEMMA CappedPositive ==
  ASSUME waited \in Nat, NEW d \in Nat \ {0},
         TotalBudget > 0 => Remaining > 0
  PROVE  /\ Capped(d) \in Nat \ {0}
         /\ TotalBudget > 0 => waited + Capped(d) <= TotalBudget
BY OptionsAssumption DEF Capped, Remaining

\* Starting an attempt keeps the types, whatever it does to the counters.
LEMMA AttemptTyping ==
  ASSUME TypeInv, StartAttempt,
         UNCHANGED <<streaming, ctx, err, outcome, delay, slept, asleep>>,
         calls' \in 0..NCalls, attempt' \in 1..MaxAttempts, late' \in 0..attempt',
         shownBy' \subseteq 1..MaxAttempts, waited' \in Nat
  PROVE  TypeInv'
<1> USE OptionsAssumption, BoundsAssumption DEF TypeInv, TypeOK, Errors
<1>1. cut' \in {"no", "canceled", "deadline"}
  BY DEF StartAttempt
<1>2. pc' = "header" /\ emitted' \in BOOLEAN /\ touched' \in BOOLEAN /\ fired' \in BOOLEAN
  BY DEF StartAttempt
<1>7. left' \in 0..Idle /\ data' \in 0..MaxData /\ quiet' \in Nat /\ gap' \in Nat
  BY DEF StartAttempt
<1>3. /\ streaming' \in BOOLEAN /\ ctx' \in {"live", "canceled", "deadline"}
      /\ err' \in Errors \cup {"none"} /\ outcome' \in Errors \cup {"none", "reply"}
  OBVIOUS
<1>4. delay' \in Nat /\ slept' \in 0..delay' /\ asleep' \in Nat
  OBVIOUS
<1>5. attempt' \in 0..MaxAttempts /\ attempt' >= 1 /\ late' \in 0..MaxAttempts /\ late' <= attempt'
  OBVIOUS
<1> QED
  BY <1>1, <1>2, <1>3, <1>4, <1>5, <1>7

\* Every variable holds a value of its kind, in particular no more attempts are
\* made than Options.MaxAttempts allows.
LEMMA TypeStep == TypeInv /\ [Next]_vars => TypeInv'
<1> SUFFICES ASSUME TypeInv, [Next]_vars PROVE TypeInv'
  OBVIOUS
<1> USE OptionsAssumption, BoundsAssumption DEF TypeInv, TypeOK, Errors, callVars, waitVars, timerVars
<1>0. Idle \in 0..Idle /\ 0 \in 0..MaxData /\ 1 \in 0..MaxAttempts
  OBVIOUS
<1>1. CASE BeginCall
  <2>1. late' \in 0..1 /\ attempt' = 1 /\ calls' \in 0..NCalls /\ shownBy' = {}
    BY <1>1 DEF BeginCall
  <2>2. attempt' \in 1..MaxAttempts /\ late' \in 0..attempt'
    BY <1>0, <2>1
  <2>3. StartAttempt /\ UNCHANGED <<streaming, ctx, err, outcome, delay, slept, asleep>>
    BY <1>1 DEF BeginCall
  <2>4. waited' \in Nat
    BY <1>1 DEF BeginCall
  <2> QED
    BY <2>1, <2>2, <2>3, <2>4, AttemptTyping
<1>2. CASE Header
  BY <1>2 DEF Header, Touch
<1>3. CASE HeaderFails
  BY <1>3 DEF HeaderFails, AttemptFails
<1>4. CASE Data
  <2>1. attempt \in 1..MaxAttempts
    BY <1>4 DEF Data
  <2>2. shownBy' \subseteq 1..MaxAttempts
    BY <1>4, <2>1 DEF Data
  <2>3. data' \in 0..MaxData /\ touched' \in BOOLEAN /\ quiet' \in Nat /\ gap' \in Nat
    BY <1>4 DEF Data, Touch
  <2> QED
    BY <1>4, <2>2, <2>3 DEF Data
<1>5. CASE ReadFails
  BY <1>5 DEF ReadFails, AttemptFails
<1>6. CASE Success
  BY <1>6 DEF Success, CallOver
<1>7. CASE HeaderCut
  BY <1>7 DEF HeaderCut, AttemptFails
<1>8. CASE ReadCut
  BY <1>8 DEF ReadCut, AttemptFails
<1>9. CASE Renew
  BY <1>0, <1>9 DEF Renew, Attempting
<1>10. CASE Fire
  <2>1. cut' \in {"no", "canceled", "deadline"}
    BY <1>10 DEF Fire
  <2> QED
    BY <1>10, <2>1 DEF Fire, Attempting
<1>11. CASE GiveUp
  <2>1. err \in Errors \cup {"none"}
    OBVIOUS
  <2> QED
    BY <1>11 DEF GiveUp, CallOver
<1>12. CASE BudgetSpent
  BY <1>12 DEF BudgetSpent, CallOver
<1>13. CASE Backoff
  <2>1. attempt \in 1..MaxAttempts /\ attempt < MaxAttempts
    BY <1>13 DEF Backoff, MayRetry
  <2>2. delay' \in Nat \ {0}
    BY <1>13, <2>1, DelaysPositive, CappedPositive DEF Backoff
  <2> QED
    BY <1>13, <2>1, <2>2 DEF Backoff
<1>14. CASE BackoffCut
  BY <1>14 DEF BackoffCut, CallOver
<1>15. CASE WaitOver
  <2>1. attempt' = attempt + 1 /\ attempt' \in 1..MaxAttempts
    BY <1>15 DEF WaitOver
  <2>2. late' \in {late, late + 1}
    BY <1>15 DEF WaitOver
  <2>3. late' \in 0..attempt'
    BY <2>1, <2>2
  <2>4. StartAttempt /\ UNCHANGED <<streaming, ctx, err, outcome, delay, slept, asleep>>
    BY <1>15 DEF WaitOver
  <2>5. calls' \in 0..NCalls /\ shownBy' \subseteq 1..MaxAttempts /\ waited' \in Nat
    BY <1>15 DEF WaitOver
  <2> QED
    BY <2>1, <2>3, <2>4, <2>5, AttemptTyping
<1>16. CASE TickAttempt
  BY <1>16 DEF TickAttempt, Attempting
<1>17. CASE TickBackoff
  BY <1>17 DEF TickBackoff
<1>18. CASE CtxEnds
  BY <1>18 DEF CtxEnds
<1>19. CASE UNCHANGED vars
  BY <1>19 DEF vars
<1> QED
  BY <1>1, <1>2, <1>3, <1>4, <1>5, <1>6, <1>7, <1>8, <1>9, <1>10, <1>11, <1>12, <1>13,
     <1>14, <1>15, <1>16, <1>17, <1>18, <1>19 DEF Next, ServerStep, EngineStep, Tick

\* The typing of the first state.
LEMMA InitTyping == Init => TypeInv
<1> SUFFICES ASSUME Init PROVE TypeInv
  OBVIOUS
<1> USE OptionsAssumption, BoundsAssumption DEF Init
<1>1. /\ ctx \in {"live", "canceled", "deadline"} /\ cut \in {"no", "canceled", "deadline"}
      /\ pc = "rest"
      /\ err \in Errors \cup {"none"} /\ outcome \in Errors \cup {"none", "reply"}
  OBVIOUS
<1>2. /\ streaming \in BOOLEAN /\ emitted \in BOOLEAN /\ touched \in BOOLEAN /\ fired \in BOOLEAN
  OBVIOUS
<1>3. calls \in 0..NCalls /\ data \in 0..MaxData
  OBVIOUS
<1>4. attempt \in 0..MaxAttempts /\ late \in 0..MaxAttempts /\ late <= attempt
  OBVIOUS
<1>5. waited \in Nat /\ delay \in Nat /\ slept \in 0..delay /\ asleep \in Nat
  OBVIOUS
<1>6. left \in 0..Idle /\ quiet \in Nat /\ gap \in Nat /\ shownBy \subseteq 1..MaxAttempts
  OBVIOUS
<1> QED
  BY <1>1, <1>2, <1>3, <1>4, <1>5, <1>6 DEF TypeInv, TypeOK

\* It holds in every run.
LEMMA CallTypeInv == Spec => []TypeInv
  BY InitTyping, TypeStep, PTL DEF Spec

\* Every variable of the model calls always holds a value of its kind; no call
\* makes more attempts than Options.MaxAttempts.
THEOREM CallTyping == Spec => []TypeOK
<1>1. TypeInv => TypeOK
  BY DEF TypeInv
<1> QED
  BY <1>1, CallTypeInv, PTL

\* No chunk of an attempt that is over was passed on when the next one begins.
LEMMA ShownStep == TypeInv /\ ShownInv /\ [Next]_vars => ShownInv'
<1> SUFFICES ASSUME TypeInv, ShownInv, [Next]_vars PROVE ShownInv'
  OBVIOUS
<1> USE DEF ShownInv, callVars, waitVars, timerVars
<1>1. CASE HeaderFails
  BY <1>1 DEF HeaderFails, AttemptFails
<1>2. CASE Header
  BY <1>2 DEF Header, Touch
<1>3. CASE Data
  BY <1>3 DEF Data, Touch
<1>4. CASE ReadFails
  BY <1>4 DEF ReadFails, AttemptFails
<1>5. CASE Success
  BY <1>5 DEF Success, CallOver
<1>6. CASE HeaderCut
  BY <1>6 DEF HeaderCut, AttemptFails
<1>7. CASE ReadCut
  BY <1>7 DEF ReadCut, AttemptFails
<1>8. CASE Renew
  BY <1>8 DEF Renew, Attempting
<1>9. CASE Fire
  BY <1>9 DEF Fire, Attempting
<1>10. CASE GiveUp
  BY <1>10 DEF GiveUp, CallOver
<1>11. CASE BudgetSpent
  BY <1>11 DEF BudgetSpent, CallOver
<1>12. CASE Backoff
  BY <1>12 DEF Backoff, MayRetry
<1>13. CASE BackoffCut
  BY <1>13 DEF BackoffCut, CallOver
<1>14. CASE WaitOver
  BY <1>14 DEF WaitOver, StartAttempt
<1>15. CASE TickAttempt
  BY <1>15 DEF TickAttempt, Attempting
<1>16. CASE TickBackoff
  BY <1>16 DEF TickBackoff
<1>17. CASE CtxEnds
  BY <1>17 DEF CtxEnds, Attempting
<1>18. CASE BeginCall
  BY <1>18 DEF BeginCall, StartAttempt
<1>19. CASE UNCHANGED vars
  BY <1>19 DEF vars
<1> QED
  BY <1>1, <1>2, <1>3, <1>4, <1>5, <1>6, <1>7, <1>8, <1>9, <1>10, <1>11, <1>12, <1>13, <1>14, <1>15, <1>16, <1>17, <1>18, <1>19
     DEF Next, ServerStep, EngineStep, Tick

\* The time slept is what waited says, plus the wait in progress; once ctx has
\* ended nobody sleeps any more.
LEMMA BudgetStep == TypeInv /\ BudgetInv /\ [Next]_vars => BudgetInv'
<1> SUFFICES ASSUME TypeInv, BudgetInv, [Next]_vars, TotalBudget > 0 PROVE BudgetInv'
  BY DEF BudgetInv
<1> USE OptionsAssumption DEF BudgetInv, TypeInv, TypeOK, callVars, waitVars, timerVars
<1>1. CASE HeaderFails
  BY <1>1 DEF HeaderFails, AttemptFails
<1>2. CASE Header
  BY <1>2 DEF Header, Touch
<1>3. CASE Data
  BY <1>3 DEF Data, Touch
<1>4. CASE ReadFails
  BY <1>4 DEF ReadFails, AttemptFails
<1>5. CASE Success
  BY <1>5 DEF Success, CallOver
<1>6. CASE HeaderCut
  BY <1>6 DEF HeaderCut, AttemptFails
<1>7. CASE ReadCut
  BY <1>7 DEF ReadCut, AttemptFails
<1>8. CASE Renew
  BY <1>8 DEF Renew, Attempting
<1>9. CASE Fire
  BY <1>9 DEF Fire, Attempting
<1>10. CASE GiveUp
  BY <1>10 DEF GiveUp, CallOver
<1>11. CASE BudgetSpent
  BY <1>11 DEF BudgetSpent, CallOver
<1>12. CASE Backoff
  <2>1. attempt \in 1..MaxAttempts
    BY <1>12 DEF Backoff, MayRetry
  <2>2. waited' = waited /\ waited + delay' <= TotalBudget /\ delay' \in Nat \ {0}
    BY <1>12, <2>1, DelaysPositive, CappedPositive DEF Backoff
  <2> QED
    BY <1>12, <2>2 DEF Backoff
<1>13. CASE BackoffCut
  BY <1>13 DEF BackoffCut, CallOver
<1>14. CASE WaitOver
  BY <1>14 DEF WaitOver, StartAttempt
<1>15. CASE TickAttempt
  BY <1>15 DEF TickAttempt, Attempting
<1>16. CASE TickBackoff
  BY <1>16 DEF TickBackoff
<1>17. CASE CtxEnds
  BY <1>17 DEF CtxEnds, Attempting
<1>18. CASE BeginCall
  BY <1>18 DEF BeginCall, StartAttempt
<1>19. CASE UNCHANGED vars
  BY <1>19 DEF vars
<1> QED
  BY <1>1, <1>2, <1>3, <1>4, <1>5, <1>6, <1>7, <1>8, <1>9, <1>10, <1>11, <1>12, <1>13, <1>14, <1>15, <1>16, <1>17, <1>18, <1>19
     DEF Next, ServerStep, EngineStep, Tick

\* An attempt begun late is not followed by a wait that can end.
LEMMA LateStep == TypeInv /\ LateInv /\ [Next]_vars => LateInv'
<1> SUFFICES ASSUME TypeInv, LateInv, [Next]_vars PROVE LateInv'
  OBVIOUS
<1> USE DEF LateInv, TypeInv, TypeOK, callVars, waitVars, timerVars
<1>1. CASE HeaderFails
  BY <1>1 DEF HeaderFails, AttemptFails
<1>2. CASE Header
  BY <1>2 DEF Header, Touch
<1>3. CASE Data
  BY <1>3 DEF Data, Touch
<1>4. CASE ReadFails
  BY <1>4 DEF ReadFails, AttemptFails
<1>5. CASE Success
  BY <1>5 DEF Success, CallOver
<1>6. CASE HeaderCut
  BY <1>6 DEF HeaderCut, AttemptFails
<1>7. CASE ReadCut
  BY <1>7 DEF ReadCut, AttemptFails
<1>8. CASE Renew
  BY <1>8 DEF Renew, Attempting
<1>9. CASE Fire
  BY <1>9 DEF Fire, Attempting
<1>10. CASE GiveUp
  BY <1>10 DEF GiveUp, CallOver
<1>11. CASE BudgetSpent
  BY <1>11 DEF BudgetSpent, CallOver
<1>12. CASE Backoff
  <2>1. attempt \in 1..MaxAttempts
    BY <1>12 DEF Backoff, MayRetry
  <2>2. delay' \in Nat \ {0}
    BY <1>12, <2>1, DelaysPositive, CappedPositive DEF Backoff
  <2> QED
    BY <1>12, <2>2 DEF Backoff
<1>13. CASE BackoffCut
  BY <1>13 DEF BackoffCut, CallOver
<1>14. CASE WaitOver
  BY <1>14 DEF WaitOver, StartAttempt
<1>15. CASE TickAttempt
  BY <1>15 DEF TickAttempt, Attempting
<1>16. CASE TickBackoff
  BY <1>16 DEF TickBackoff
<1>17. CASE CtxEnds
  BY <1>17 DEF CtxEnds, Attempting
<1>18. CASE BeginCall
  BY <1>18 DEF BeginCall, StartAttempt
<1>19. CASE UNCHANGED vars
  BY <1>19 DEF vars
<1> QED
  BY <1>1, <1>2, <1>3, <1>4, <1>5, <1>6, <1>7, <1>8, <1>9, <1>10, <1>11, <1>12, <1>13, <1>14, <1>15, <1>16, <1>17, <1>18, <1>19
     DEF Next, ServerStep, EngineStep, Tick

\* Until the timer fires it has run for exactly as long as data has been quiet,
\* or a Touch says that it is to start again.
LEMMA TimerStep == TypeInv /\ TimerInv /\ [Next]_vars => TimerInv'
<1> SUFFICES ASSUME TypeInv, TimerInv, [Next]_vars PROVE TimerInv'
  OBVIOUS
<1> USE OptionsAssumption DEF TimerInv, TypeInv, TypeOK, Attempting, callVars, waitVars, timerVars
<1>1. CASE HeaderFails
  BY <1>1 DEF HeaderFails, AttemptFails
<1>2. CASE Header
  BY <1>2 DEF Header, Touch
<1>3. CASE Data
  BY <1>3 DEF Data, Touch
<1>4. CASE ReadFails
  BY <1>4 DEF ReadFails, AttemptFails
<1>5. CASE Success
  BY <1>5 DEF Success, CallOver
<1>6. CASE HeaderCut
  BY <1>6 DEF HeaderCut, AttemptFails
<1>7. CASE ReadCut
  BY <1>7 DEF ReadCut, AttemptFails
<1>8. CASE Renew
  BY <1>8 DEF Renew, Attempting
<1>9. CASE Fire
  BY <1>9 DEF Fire, Attempting
<1>10. CASE GiveUp
  BY <1>10 DEF GiveUp, CallOver
<1>11. CASE BudgetSpent
  BY <1>11 DEF BudgetSpent, CallOver
<1>12. CASE Backoff
  BY <1>12 DEF Backoff
<1>13. CASE BackoffCut
  BY <1>13 DEF BackoffCut, CallOver
<1>14. CASE WaitOver
  BY <1>14 DEF WaitOver, StartAttempt
<1>15. CASE TickAttempt
  BY <1>15 DEF TickAttempt, Attempting
<1>16. CASE TickBackoff
  BY <1>16 DEF TickBackoff
<1>17. CASE CtxEnds
  BY <1>17 DEF CtxEnds, Attempting
<1>18. CASE BeginCall
  BY <1>18 DEF BeginCall, StartAttempt
<1>19. CASE UNCHANGED vars
  BY <1>19 DEF vars
<1> QED
  BY <1>1, <1>2, <1>3, <1>4, <1>5, <1>6, <1>7, <1>8, <1>9, <1>10, <1>11, <1>12, <1>13, <1>14, <1>15, <1>16, <1>17, <1>18, <1>19
     DEF Next, ServerStep, EngineStep, Tick

\* For any number of attempts and calls, once a chunk has been passed on no
\* further attempt of that call passes one on (modelretry.go:125).
THEOREM CallOneAttemptShown == Spec => []OneAttemptShown
<1>1. Init => ShownInv
  BY OptionsAssumption DEF Init, ShownInv
<1>2. TypeInv /\ ShownInv /\ [Next]_vars => ShownInv'
  BY ShownStep
<1>3. ShownInv => OneAttemptShown
  <2>1. Cardinality({attempt}) = 1 /\ IsFiniteSet({attempt})
    BY FS_Singleton
  <2>2. ShownInv => Cardinality(shownBy) <= Cardinality({attempt})
    BY <2>1, FS_Subset DEF ShownInv
  <2> QED
    BY <2>1, <2>2 DEF OneAttemptShown
<1> QED
  BY <1>1, <1>2, <1>3, CallTypeInv, PTL DEF Spec

\* Whatever the options, the time slept in backoff over a whole Run stays within
\* TotalBudget.
THEOREM CallBudgetRespected == Spec => []BudgetRespected
<1>1. Init => BudgetInv
  BY OptionsAssumption DEF Init, BudgetInv
<1>2. TypeInv /\ BudgetInv /\ [Next]_vars => BudgetInv'
  BY BudgetStep
<1>3. BudgetInv => BudgetRespected
  BY DEF BudgetInv, BudgetRespected
<1> QED
  BY <1>1, <1>2, <1>3, CallTypeInv, PTL DEF Spec

\* A call begins at most one attempt after its ctx has ended.
THEOREM CallAtMostOneLateAttempt == Spec => []AtMostOneLateAttempt
<1>1. Init => LateInv
  BY OptionsAssumption DEF Init, LateInv
<1>2. TypeInv /\ LateInv /\ [Next]_vars => LateInv'
  BY LateStep
<1>3. LateInv => AtMostOneLateAttempt
  BY DEF LateInv, AtMostOneLateAttempt
<1> QED
  BY <1>1, <1>2, <1>3, CallTypeInv, PTL DEF Spec

\* The watchdog never cuts a stream whose pauses are shorter than Idle.
THEOREM CallNoEarlyCut == Spec => NoEarlyCut
<1> DEFINE Cut == streaming /\ fired' /\ ~fired => quiet >= Idle \/ (quiet = 0 /\ gap >= Idle)
<1>1. Init => TimerInv
  BY DEF Init, TimerInv, Attempting
<1>2. TypeInv /\ TimerInv /\ [Next]_vars => TimerInv'
  BY TimerStep
<1>3. TypeInv /\ TimerInv /\ [Next]_vars => [Cut]_vars
  <2> SUFFICES ASSUME TypeInv, TimerInv, Next, streaming, fired', ~fired
               PROVE  quiet >= Idle \/ (quiet = 0 /\ gap >= Idle)
    BY DEF vars, timerVars
  <2>1. Fire
    BY DEF Next, ServerStep, EngineStep, Tick, BeginCall, StartAttempt, Header, HeaderFails, Data,
           ReadFails, Success, HeaderCut, ReadCut, Renew, GiveUp, BudgetSpent, Backoff, BackoffCut,
           WaitOver, TickAttempt, TickBackoff, CtxEnds, AttemptFails, CallOver, timerVars
  <2>2. Attempting /\ left = 0
    BY <2>1 DEF Fire
  <2> QED
    BY <2>2, OptionsAssumption DEF TimerInv, TypeInv, TypeOK
<1> QED
  BY <1>1, <1>2, <1>3, CallTypeInv, PTL DEF Spec, NoEarlyCut
==============================================================================
